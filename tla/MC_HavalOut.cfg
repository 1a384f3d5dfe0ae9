CONSTANT ApiSizes <- MCApiSizes
CONSTANTS
    And16 <- BitAnd16
    Or16 <- BitOr16
SPECIFICATION Spec
\* A context is closed once: the closed state has no successor.
CHECK_DEADLOCK FALSE
INVARIANTS OutputLength TailoringKeepsBits
