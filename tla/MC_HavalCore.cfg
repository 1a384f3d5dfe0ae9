CONSTANTS
    Blocks <- MCBlocks
    Vals <- MCVals
    StepOp <- STEP
CONSTANTS
    And16 <- BitAnd16
    Or16 <- BitOr16
SPECIFICATION Spec
\* sph_haval_<n>_comp returns after WVAL: the final state has no successor.
CHECK_DEADLOCK FALSE
INVARIANTS TypeOK BuildsAgree FMatchesPaper PublishedDigests
