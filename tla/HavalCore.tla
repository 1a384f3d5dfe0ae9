------------------------------ MODULE HavalCore ------------------------------
(***************************************************************************)
(* The HAVAL compression sph_haval_<n>_comp (src/src/hash/haval.c): RVAL,  *)
(* SAVE_STATE, the n passes PASS1 .. PASSn of 32 STEPs each, UPDATE_STATE  *)
(* and WVAL.  The pass macros exist twice: with SPH_SMALL_FOOTPRINT_HAVAL  *)
(* they are loops reading the word order and constants from MP2..MP5 and   *)
(* RK2..RK5, otherwise they are unrolled with the same data inline.  One   *)
(* STEP is one action, taken by both builds in lockstep on their own       *)
(* copies of s0..s7.  The module is given STEP as the operator StepOp,   *)
(* so that what it says of the two builds holds for any step function;   *)
(* MC_HavalCore gives it HavalOps's STEP.                                 *)
(***************************************************************************)
EXTENDS HavalTables

CONSTANTS
    Blocks,   \* message blocks msg[0..31] (after little-endian decoding)
    Vals,     \* chaining values val[0..7] given to the compression
    StepOp(_, _, _, _, _, _)  \* STEP(n, p, s, j, w, c): s after one STEP

-----------------------------------------------------------------------------
VARIABLES
    passes,   \* n: 3, 4 or 5 (sph_haval_3_comp .. sph_haval_5_comp)
    X,        \* msg[0..31], read by INMSG(i)
    u,        \* u0..u7 of SAVE_STATE
    sU,       \* s0..s7 of the unrolled build
    sS,       \* s0..s7 of the small-footprint build
    pass,     \* the pass PASSy being run; passes + 1 after the last one
    j,        \* the STEP of the pass (0 .. 31)
    pc        \* "core" while CORE runs, "done" after WVAL

vars == <<passes, X, u, sU, sS, pass, j, pc>>

(* Entry of sph_haval_<n>_comp(msg, val): RVAL loads s0..s7 from val,    *)
(* SAVE_STATE copies them into u0..u7.                                    *)
Init ==
    /\ passes \in {3, 4, 5}
    /\ X \in Blocks
    /\ u \in Vals
    /\ sU = u
    /\ sS = u
    /\ pass = 1
    /\ j = 0
    /\ pc = "core"

(* One STEP of pass `pass` in both builds. *)
Step ==
    /\ pc = "core"
    /\ pass <= passes
    /\ sU' = StepOp(passes, pass, sU, j, X[UnrolledIn(pass)[j + 1]], UnrolledC(pass)[j + 1])
    /\ sS' = StepOp(passes, pass, sS, j, X[SmallIn(pass, j)], SmallC(pass, j))
    /\ j' = (j + 1) % 32
    /\ pass' = IF j = 31 THEN pass + 1 ELSE pass
    /\ UNCHANGED <<passes, X, u, pc>>

(* UPDATE_STATE after the last pass, then WVAL writes s0..s7 to val. *)
UpdateState ==
    /\ pc = "core"
    /\ pass = passes + 1
    /\ sU' = [k \in 0 .. 7 |-> Add32(sU[k], u[k])]
    /\ sS' = [k \in 0 .. 7 |-> Add32(sS[k], u[k])]
    /\ pc' = "done"
    /\ UNCHANGED <<passes, X, u, pass, j>>

Next == Step \/ UpdateState

(* A compression is a straight run of statements: it ends after WVAL. *)
Spec == Init /\ [][Next]_vars

-----------------------------------------------------------------------------
(* Properties *)

(* Each build's state is eight 32-bit words: every addition of STEP and   *)
(* UPDATE_STATE is reduced by SPH_T32.                                    *)
TypeOK ==
    /\ passes \in {3, 4, 5}
    /\ sU \in [0 .. 7 -> Word]
    /\ sS \in [0 .. 7 -> Word]
    /\ pass \in 1 .. passes + 1
    /\ j \in 0 .. 31

(* The two builds of the HAVAL macros compute the same function: after    *)
(* every STEP of every pass, for 3, 4 and 5 passes, the state of the      *)
(* small-footprint loops over MP/RK equals that of the unrolled passes.   *)
BuildsAgree == sU = sS
=============================================================================
