--------------------------- MODULE HavalCoreProofs ---------------------------
(***************************************************************************)
(* Proofs about HavalCore: the two builds of the HAVAL passes, unrolled    *)
(* and SPH_SMALL_FOOTPRINT_HAVAL, feed every STEP the same message word    *)
(* and the same constant, so they keep the same state s0..s7 whatever the  *)
(* step function, the message block and the chaining value.               *)
(***************************************************************************)
EXTENDS HavalCore, TLAPS

(* The inductive invariant: the control state of CORE<n>, and the two     *)
(* builds' states equal.                                                   *)
IInv ==
    /\ passes \in {3, 4, 5}
    /\ pass \in 1 .. passes + 1
    /\ j \in 0 .. 31
    /\ pc \in {"core", "done"}
    /\ sU = sS

-----------------------------------------------------------------------------
(* The word index INMSG reads at STEP j of pass p in the unrolled PASSp   *)
(* is the MPp[j] of the small-footprint loop (for pass 1, the loop's      *)
(* 8 * j + k with k the inner counter), and so is the constant.           *)
LEMMA TablesAgree ==
    ASSUME NEW p \in 1 .. 5, NEW k \in 0 .. 31
    PROVE  /\ UnrolledIn(p)[k + 1] = SmallIn(p, k)
           /\ UnrolledC(p)[k + 1] = SmallC(p, k)
<1>1. CASE p = 1
  BY <1>1 DEF UnrolledIn, SmallIn, UnrolledC, SmallC
<1>2. CASE p = 2
  <2>1. UnrolledIn(p) = MP2 /\ SmallIn(p, k) = MP2[k + 1]
    BY <1>2 DEF UnrolledIn, SmallIn, MP2, MP3, MP4, MP5
  <2>2. UnrolledC(p) = RK2 /\ SmallC(p, k) = RK2[k + 1]
    BY <1>2 DEF UnrolledC, SmallC, RK2, RK3, RK4, RK5
  <2>. QED
    BY <2>1, <2>2
<1>3. CASE p = 3
  <2>1. UnrolledIn(p) = MP3 /\ SmallIn(p, k) = MP3[k + 1]
    BY <1>3 DEF UnrolledIn, SmallIn, MP2, MP3, MP4, MP5
  <2>2. UnrolledC(p) = RK3 /\ SmallC(p, k) = RK3[k + 1]
    BY <1>3 DEF UnrolledC, SmallC, RK2, RK3, RK4, RK5
  <2>. QED
    BY <2>1, <2>2
<1>4. CASE p = 4
  <2>1. UnrolledIn(p) = MP4 /\ SmallIn(p, k) = MP4[k + 1]
    BY <1>4 DEF UnrolledIn, SmallIn, MP2, MP3, MP4, MP5
  <2>2. UnrolledC(p) = RK4 /\ SmallC(p, k) = RK4[k + 1]
    BY <1>4 DEF UnrolledC, SmallC, RK2, RK3, RK4, RK5
  <2>. QED
    BY <2>1, <2>2
<1>5. CASE p = 5
  <2>1. UnrolledIn(p) = MP5 /\ SmallIn(p, k) = MP5[k + 1]
    BY <1>5 DEF UnrolledIn, SmallIn, MP2, MP3, MP4, MP5
  <2>2. UnrolledC(p) = RK5 /\ SmallC(p, k) = RK5[k + 1]
    BY <1>5 DEF UnrolledC, SmallC, RK2, RK3, RK4, RK5
  <2>. QED
    BY <2>1, <2>2
<1>. QED
  BY <1>1, <1>2, <1>3, <1>4, <1>5
-----------------------------------------------------------------------------
LEMMA InitInv == Init => IInv
BY DEF Init, IInv

(* A STEP of both builds keeps them equal: at STEP j of pass p they apply *)
(* the same step function to the same state, the same message word and    *)
(* the same constant, by TablesAgree.                                     *)
LEMMA StepInv == IInv /\ Step => IInv'
<1> SUFFICES ASSUME IInv, Step PROVE IInv'
  OBVIOUS
<1>1. pass \in 1 .. 5 /\ j \in 0 .. 31
  BY DEF IInv, Step
<1>2. /\ UnrolledIn(pass)[j + 1] = SmallIn(pass, j)
      /\ UnrolledC(pass)[j + 1] = SmallC(pass, j)
  BY <1>1, TablesAgree
<1>3. sU' = sS'
  BY <1>2 DEF IInv, Step
<1>4. /\ passes' \in {3, 4, 5}
      /\ pass' \in 1 .. passes' + 1
      /\ j' \in 0 .. 31
      /\ pc' \in {"core", "done"}
  BY DEF IInv, Step
<1>. QED
  BY <1>3, <1>4 DEF IInv

(* UPDATE_STATE adds the same saved u0..u7 to both builds' equal states. *)
LEMMA UpdateStateInv == IInv /\ UpdateState => IInv'
BY DEF IInv, UpdateState

LEMMA NextInv == IInv /\ [Next]_vars => IInv'
BY StepInv, UpdateStateInv DEF Next, vars, IInv

(* The unrolled and the small-footprint builds of sph_haval_3_comp,       *)
(* sph_haval_4_comp and sph_haval_5_comp agree after every STEP and at    *)
(* the end: for every step function, message block and chaining value.   *)
THEOREM BuildsAgreeHolds == Spec => []BuildsAgree
<1>1. IInv => BuildsAgree
  BY DEF IInv, BuildsAgree
<1>. QED
  BY InitInv, NextInv, <1>1, PTL DEF Spec
=============================================================================
