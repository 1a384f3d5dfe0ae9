------------------------- MODULE HashChainRefinement -------------------------
(***************************************************************************)
(* Hash9 step by step (HashChain) implements the safety part of what it    *)
(* promises (ChainSpec): under the mapping busy <- pc # "idle",            *)
(* amsg <- msg, aresult <- result, the entry of a call is ACall, its       *)
(* return is AReturn, and the sph calls in between leave the abstract      *)
(* state alone.  The one step that needs an argument is the return: the   *)
(* buffer it truncates, hash[t][K-1], is the chain hash of the caller's   *)
(* own message.  ChainLinked says that in a returning call every buffer is *)
(* the digest of its step's input, so hash[t] solves the equation that     *)
(* defines ChainBufs; the solution is unique, by induction on the least    *)
(* step where two solutions would differ.                                  *)
(***************************************************************************)
EXTENDS HashChainProofs, WellFoundedInduction

USE ChainAssumption DEF Steps0

(* f holds the buffers of the chain on input m: f[0] is the first          *)
(* primitive's digest of m, f[i] the i-th primitive's digest of the whole  *)
(* wide buffer f[i-1].                                                     *)
ChainEq(f, m) ==
    \A i \in Steps0 :
        f[i] = IF i = 0 THEN Out(Steps[0], m) ELSE Out(Steps[i], <<f[i - 1]>>)

(* ChainSpec, instantiated, sees the same chain data as HashChain. *)
LEMMA AbstractData ==
    /\ Abstract!Steps0 = Steps0
    /\ Abstract!NoResult = NoResult
    /\ \A p, d : Abstract!Out(p, d) = Out(p, d)
    /\ \A b : Abstract!Trim(b) = Trim(b)
BY DEF Abstract!Steps0, Abstract!NoResult, Abstract!Out, Abstract!Trim,
       NoResult, Out, Trim, Abstract!TrimBytes, TrimBytes

(* Two solutions of the chain equation agree on every step: were they to  *)
(* differ, they would differ at a least step, and agree on the one before. *)
LEMMA ChainEqUnique ==
    ASSUME NEW m, NEW f, NEW g, ChainEq(f, m), ChainEq(g, m)
    PROVE  \A i \in Steps0 : f[i] = g[i]
<1> DEFINE D == {i \in Steps0 : f[i] # g[i]}
<1>1. SUFFICES ASSUME D # {} PROVE FALSE
  OBVIOUS
<1>2. PICK i \in D : \A k \in D : ~(<<k, i>> \in OpToRel(<, Nat))
  <2>1. D \subseteq Nat
    OBVIOUS
  <2>. QED
    BY <1>1, <2>1, WFMin, NatLessThanWellFounded
<1>3. \A k \in D : ~(k < i)
  <2> SUFFICES ASSUME NEW k \in D, k < i PROVE FALSE
    OBVIOUS
  <2>1. <<k, i>> \in OpToRel(<, Nat)
    BY DEF OpToRel, D
  <2>. QED
    BY <2>1, <1>2
<1>4. CASE i = 0
  BY <1>4 DEF ChainEq
<1>5. CASE i # 0
  <2>1. i - 1 \in Steps0 /\ i - 1 < i
    BY <1>5
  <2>2. f[i - 1] = g[i - 1]
    BY <2>1, <1>3
  <2>. QED
    BY <2>2, <1>5 DEF ChainEq
<1>. QED
  BY <1>4, <1>5

(* ChainBufs(m), the recursive function of ChainSpec, is the function h  *)
(* CHOOSEn with h = [i \in Steps0 |-> ... h[i-1] ...]: as soon as the     *)
(* chain equation has a solution f, the function [i \in Steps0 |-> f[i]] *)
(* is such an h, so the one chosen solves the equation too.               *)
ChainFcnEq(h, m) ==
    h = [i \in Abstract!Steps0 |->
            IF i = 0 THEN Abstract!Out(Steps[0], m)
                     ELSE Abstract!Out(Steps[i], <<h[i - 1]>>)]

LEMMA ChainBufsSolves ==
    ASSUME NEW m, NEW f, ChainEq(f, m)
    PROVE  ChainEq(Abstract!ChainBufs(m), m)
<1> DEFINE g == [i \in Steps0 |-> f[i]]
<1>1. ChainFcnEq(g, m)
  <2>1. \A i \in Steps0 \ {0} : i - 1 \in Steps0 /\ g[i - 1] = f[i - 1]
    BY DEF g
  <2>. QED
    BY <2>1, AbstractData DEF ChainEq, ChainFcnEq, g
<1>2. ChainFcnEq(Abstract!ChainBufs(m), m)
  <2>1. \E h : ChainFcnEq(h, m)
    BY <1>1
  <2>. QED
    BY <2>1, Zenon DEF Abstract!ChainBufs, ChainFcnEq
<1>. QED
  BY <1>2, AbstractData DEF ChainEq, ChainFcnEq

(* What a returning call of Hash9 truncates is the chain hash of its own  *)
(* message, whatever the other threads did meanwhile.                     *)
LEMMA ReturnValue ==
    ASSUME Inv, NEW t \in Threads, pc[t] = "ret"
    PROVE  Trim(hash[t][LastStep]) = Abstract!ChainHash(msg[t])
<1>1. ChainEq(hash[t], msg[t])
  <2>1. \A i \in Steps0 : hash[t][i] = Out(Steps[i], ChainInput(t, i))
    BY LinkedAtDef DEF Inv, LinkedAt, Written
  <2>. QED
    BY <2>1 DEF ChainEq, ChainInput
<1>2. hash[t][K - 1] = Abstract!ChainBufs(msg[t])[K - 1]
  BY <1>1, ChainBufsSolves, ChainEqUnique
<1>. QED
  BY <1>2, AbstractData DEF LastStep, Abstract!ChainHash

-----------------------------------------------------------------------------

(* Each step of Hash9 is a step of ChainSpec or leaves its state alone. *)
LEMMA StepRefines == Inv /\ [Next]_vars => [Abstract!ANext]_Abstract!avars
<1> SUFFICES ASSUME Inv, [Next]_vars PROVE [Abstract!ANext]_Abstract!avars
  OBVIOUS
<1>0. TypeOK
  BY DEF Inv
<1>1. ASSUME NEW t \in Threads, NEW m \in Messages, Call(t, m)
      PROVE  Abstract!ACall(t, m)
  BY <1>0, <1>1 DEF Call, TypeOK, Abstract!ACall
<1>2. ASSUME NEW t \in Threads, InitCtx(t) \/ Update(t) \/ Close(t)
      PROVE  UNCHANGED Abstract!avars
  <2>1. pc[t] \in {"init", "update", "close"}
    BY <1>2 DEF InitCtx, Update, Close
  <2>2. pc' = [pc EXCEPT ![t] = pc'[t]] /\ pc'[t] # "idle"
    <3>1. CASE InitCtx(t) \/ Update(t)
      BY <1>0, <3>1 DEF InitCtx, Update, TypeOK
    <3>2. CASE Close(t)
      <4>1. CASE step[t] < LastStep
        BY <1>0, <3>2, <4>1 DEF Close, TypeOK
      <4>2. CASE ~(step[t] < LastStep)
        BY <1>0, <3>2, <4>2 DEF Close, TypeOK
      <4>. QED
        BY <4>1, <4>2
    <3>. QED
      BY <1>2, <3>1, <3>2
  <2>3. UNCHANGED <<msg, result>>
    BY <1>2 DEF InitCtx, Update, Close
  <2>. QED
    BY <1>0, <2>1, <2>2, <2>3 DEF TypeOK, Abstract!avars
<1>3. ASSUME NEW t \in Threads, Return(t)
      PROVE  Abstract!AReturn(t)
  <2>1. Trim(hash[t][LastStep]) = Abstract!ChainHash(msg[t])
    BY <1>3, ReturnValue DEF Return
  <2>. QED
    BY <1>0, <1>3, <2>1 DEF Return, TypeOK, Abstract!AReturn
<1>4. CASE UNCHANGED vars
  BY <1>4 DEF vars, Abstract!avars
<1>. QED
  BY <1>1, <1>2, <1>3, <1>4 DEF Next, Abstract!ANext

(* Hash9 implements the safety part of ChainSpec for every instance: each *)
(* call of any thread, interleaved with any calls of the others, returns  *)
(* the truncated chain hash of its own message, and nothing but entries   *)
(* and returns changes what a caller observes.                            *)
THEOREM RefinesChainSpec == Spec => Abstract!ASafety
<1>1. Init => Abstract!AInit
  BY AbstractData DEF Init, Abstract!AInit
<1>. QED
  BY <1>1, InitInv, NextInv, StepRefines, PTL DEF Spec, Abstract!ASafety
=============================================================================
