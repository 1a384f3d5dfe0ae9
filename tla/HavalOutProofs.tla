--------------------------- MODULE HavalOutProofs ---------------------------
(***************************************************************************)
(* The length of HAVAL's output for every API size the code instantiates *)
(* and every chaining value, whatever & and | compute.                    *)
(***************************************************************************)
EXTENDS HavalOut, TLAPS

(* The inductive invariant: the init has set olen from the API size, and *)
(* a closed context's output is what haval_out writes for that olen.     *)
IInv ==
    /\ api \in ApiSizes
    /\ pc \in {"new", "open", "full", "closed"}
    /\ pc # "new" => olen = ApiOlen(api)
    /\ pc = "closed" => dst = HavalOut(olen, s)

(* haval_out writes sph_enc32le of each word at buf + 4 * k: four bytes *)
(* per word.                                                             *)
LEMMA OutBytesLen ==
  ASSUME NEW n \in Nat, NEW st
  PROVE  Len(HavalOut(n, st)) = 4 * Len(HavalOutWords(n, st))
BY DEF HavalOut

(* Each case of haval_out's switch writes olen words. *)
LEMMA OutWordsLen ==
  ASSUME NEW n \in 4 .. 8, NEW st
  PROVE  Len(HavalOutWords(n, st)) = n
<1>1. CASE n = 4
  BY <1>1 DEF HavalOutWords
<1>2. CASE n = 5
  BY <1>2 DEF HavalOutWords
<1>3. CASE n = 6
  BY <1>3 DEF HavalOutWords
<1>4. CASE n = 7
  BY <1>4 DEF HavalOutWords
<1>5. CASE n = 8
  BY <1>5 DEF HavalOutWords
<1>. QED
  BY <1>1, <1>2, <1>3, <1>4, <1>5

(* Each API size the code instantiates gives an olen haval_out's switch *)
(* has a case for, and olen words are xxx bits.                          *)
LEMMA ApiOlenRange ==
  ASSUME NEW xxx \in ApiSizes
  PROVE  ApiOlen(xxx) \in 4 .. 8 /\ 32 * ApiOlen(xxx) = xxx
BY ApiSizesAssumption DEF ApiOlen

-----------------------------------------------------------------------------
LEMMA InitInv == Init => IInv
BY DEF Init, IInv

(* Init sets olen from the API size, and nothing changes it after; close *)
(* writes haval_out's bytes for it.                                      *)
LEMMA NextInv == IInv /\ [Next]_vars => IInv'
<1> SUFFICES ASSUME IInv, [Next]_vars PROVE IInv'
  OBVIOUS
<1>1. CASE InitCtx
  BY <1>1 DEF InitCtx, IInv
<1>2. ASSUME NEW v, Absorb(v) PROVE IInv'
  BY <1>2 DEF Absorb, IInv
<1>3. CASE Close
  BY <1>3 DEF Close, IInv
<1>4. CASE UNCHANGED vars
  BY <1>4 DEF vars, IInv
<1>. QED
  BY <1>1, <1>2, <1>3, <1>4 DEF Next

(* A closed context has written olen words of four bytes each, where olen *)
(* is xxx >> 5: xxx bits.                                                 *)
LEMMA InvLength == IInv => OutputLength
<1> SUFFICES ASSUME IInv, pc = "closed" PROVE Len(dst) * 8 = api
  BY DEF OutputLength
<1>1. olen \in 4 .. 8 /\ 32 * olen = api
  BY ApiOlenRange DEF IInv
<1>2. Len(dst) = 4 * Len(HavalOutWords(olen, s))
  BY <1>1, OutBytesLen DEF IInv
<1>3. Len(HavalOutWords(olen, s)) = olen
  BY <1>1, OutWordsLen
<1>. QED
  BY <1>1, <1>2, <1>3

(* The output length (OutputLength) for every set of API sizes the code  *)
(* instantiates, every chaining value the absorbed data leaves and every *)
(* & and |: the close of API(xxx, y) writes exactly xxx bits.            *)
THEOREM OutputLengthHolds == Spec => []OutputLength
BY InitInv, NextInv, InvLength, PTL DEF Spec

=============================================================================
