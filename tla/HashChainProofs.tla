--------------------------- MODULE HashChainProofs ---------------------------
(***************************************************************************)
(* Proofs about the chain orchestrator (HashChain), for every set of       *)
(* threads, primitives, messages, chain length and digest sizes.           *)
(*                                                                         *)
(* ChainLinked is inductive together with TypeOK: every action of a thread *)
(* t touches only t's pc, step, hash and the contexts of t's own frame     *)
(* (CtxOf(t) = t), so the other threads' conjuncts are untouched, and t's  *)
(* own conjuncts are re-established by the action's assignments.           *)
(***************************************************************************)
EXTENDS HashChain, TLAPS

(* The inductive invariant: ChainLinked needs TypeOK to know that hash[t] *)
(* and ctx[t] are functions on the right domains.                          *)
Inv == TypeOK /\ ChainLinked

USE ChainAssumption DEF Steps0

(* At the start no call is running and the state is well shaped. *)
LEMMA InitInv == Init => Inv
<1> SUFFICES ASSUME Init PROVE Inv
  OBVIOUS
<1>1. TypeOK
  BY DEF Init, TypeOK
<1>2. ChainLinked
  BY DEF Init, ChainLinked
<1>3. QED
  BY <1>1, <1>2 DEF Inv

(* The conjuncts of ChainLinked for one thread. *)
LinkedAt(t) ==
    pc[t] # "idle" =>
        /\ \A i \in Steps0 :
              hash[t][i] = IF Written(t, i) THEN Out(Steps[i], ChainInput(t, i))
                                            ELSE ZeroBuf
        /\ pc[t] = "update" => ctx[t][Steps[step[t]]] = <<>>
        /\ pc[t] = "close" => ctx[t][Steps[step[t]]] = ChainInput(t, step[t])

(* ChainLinked is the conjunction of the threads' conjuncts. *)
LEMMA LinkedAtDef == ChainLinked <=> \A t \in Threads : LinkedAt(t)
  BY DEF ChainLinked, LinkedAt

(* A step of thread t that leaves everything of every other thread u     *)
(* alone leaves u's conjunct of ChainLinked true.                        *)
LEMMA OtherThread ==
  ASSUME TypeOK, NEW t \in Threads, NEW u \in Threads, u # t, LinkedAt(u),
         pc'[u] = pc[u], step'[u] = step[u], msg'[u] = msg[u],
         hash'[u] = hash[u], ctx'[u] = ctx[u]
  PROVE  LinkedAt(u)'
  BY DEF LinkedAt, Written, Input, ChainInput, CtxOf

(* Every sph call, entry and return of Hash9, by any thread, keeps Inv. *)
LEMMA NextInv == Inv /\ [Next]_vars => Inv'
<1> SUFFICES ASSUME Inv, [Next]_vars PROVE Inv'
  OBVIOUS
<1>0. TypeOK /\ ChainLinked
  BY DEF Inv
<1>1. ASSUME NEW t \in Threads, NEW m \in Messages, Call(t, m) PROVE Inv'
  <2>1. TypeOK'
    BY <1>0, <1>1 DEF Call, TypeOK
  <2>2. \A u \in Threads : LinkedAt(u)'
    <3> SUFFICES ASSUME NEW u \in Threads PROVE LinkedAt(u)'
      OBVIOUS
    <3>1. CASE u = t
      BY <1>0, <1>1, <3>1 DEF Call, TypeOK, LinkedAt, Written
    <3>2. CASE u # t
      BY <1>0, <1>1, <3>2, OtherThread, LinkedAtDef DEF Call, TypeOK
    <3>3. QED
      BY <3>1, <3>2
  <2>3. QED
    BY <2>1, <2>2 DEF Inv, ChainLinked, LinkedAt
<1>2. ASSUME NEW t \in Threads, InitCtx(t) PROVE Inv'
  <2>1. TypeOK'
    BY <1>0, <1>2 DEF InitCtx, TypeOK, CtxOf
  <2>2. \A u \in Threads : LinkedAt(u)'
    <3> SUFFICES ASSUME NEW u \in Threads PROVE LinkedAt(u)'
      OBVIOUS
    <3>1. CASE u = t
      BY <1>0, <1>2, <3>1, LinkedAtDef DEF InitCtx, TypeOK, LinkedAt, Written, Input, ChainInput, CtxOf
    <3>2. CASE u # t
      BY <1>0, <1>2, <3>2, OtherThread, LinkedAtDef DEF InitCtx, TypeOK, CtxOf
    <3>3. QED
      BY <3>1, <3>2
  <2>3. QED
    BY <2>1, <2>2 DEF Inv, ChainLinked, LinkedAt
<1>3. ASSUME NEW t \in Threads, Update(t) PROVE Inv'
  <2>1. TypeOK'
    BY <1>0, <1>3 DEF Update, TypeOK, CtxOf
  <2>2. \A u \in Threads : LinkedAt(u)'
    <3> SUFFICES ASSUME NEW u \in Threads PROVE LinkedAt(u)'
      OBVIOUS
    <3>1. CASE u = t
      <4>1. ctx[t][Steps[step[t]]] = <<>>
        BY <1>0, <1>3, LinkedAtDef DEF Update, LinkedAt, CtxOf
      <4>2. <<>> \o Input(t, step[t]) = Input(t, step[t])
        <5>1. CASE step[t] = 0
          <6>1. msg[t] \in Seq(Bytes)
            BY <1>0 DEF TypeOK
          <6>2. QED
            BY <5>1, <6>1 DEF Input, ChainInput
        <5>2. CASE step[t] # 0
          BY <5>2 DEF Input, ChainInput
        <5>3. QED
          BY <5>1, <5>2
      <4>3. ctx'[t][Steps[step[t]]] = Input(t, step[t])
        BY <1>0, <1>3, <4>1, <4>2 DEF Update, TypeOK, CtxOf
      <4>4. QED
        BY <1>0, <1>3, <3>1, <4>3, LinkedAtDef DEF Update, TypeOK, LinkedAt, Written, Input, ChainInput, CtxOf
    <3>2. CASE u # t
      BY <1>0, <1>3, <3>2, OtherThread, LinkedAtDef DEF Update, TypeOK, CtxOf
    <3>3. QED
      BY <3>1, <3>2
  <2>3. QED
    BY <2>1, <2>2 DEF Inv, ChainLinked, LinkedAt
<1>4. ASSUME NEW t \in Threads, Close(t) PROVE Inv'
  <2>0. PICK i \in Steps0 : i = step[t]
    BY <1>0 DEF TypeOK
  <2> DEFINE p == Steps[i]
  <2> USE <2>0
  <2>1. TypeOK'
    <3>1. step' \in [Threads -> Steps0]
      <4>1. CASE i < K - 1
        <5>1. step' = [step EXCEPT ![t] = i + 1]
          BY <1>0, <1>4, <4>1 DEF Close, LastStep, TypeOK
        <5>2. i + 1 \in Steps0
          BY <4>1
        <5>3. QED
          BY <1>0, <5>1, <5>2 DEF TypeOK
      <4>2. CASE ~(i < K - 1)
        BY <1>0, <1>4, <4>2 DEF Close, LastStep, TypeOK
      <4>3. QED
        BY <4>1, <4>2
    <3>2. pc' \in [Threads -> {"idle", "init", "update", "close", "ret"}]
      <4>1. CASE i < K - 1
        BY <1>0, <1>4, <4>1 DEF Close, LastStep, TypeOK
      <4>2. CASE ~(i < K - 1)
        BY <1>0, <1>4, <4>2 DEF Close, LastStep, TypeOK
      <4>3. QED
        BY <4>1, <4>2
    <3>3. QED
      BY <1>0, <1>4, <3>1, <3>2 DEF Close, LastStep, TypeOK, CtxOf
  <2>2. \A u \in Threads : LinkedAt(u)'
    <3> SUFFICES ASSUME NEW u \in Threads PROVE LinkedAt(u)'
      OBVIOUS
    <3>1. CASE u = t
      <4>1. ctx[t][p] = Input(t, i)
        BY <1>0, <1>4, LinkedAtDef DEF Close, LastStep, LinkedAt, CtxOf, Input, ChainInput
      <4>2. hash'[t] = [hash[t] EXCEPT ![i] = Out(p, Input(t, i))]
        BY <1>0, <1>4, <4>1 DEF Close, LastStep, TypeOK, CtxOf
      <4>3. \A j \in Steps0 : j < i => Input(t, j)' = Input(t, j)
        BY <1>0, <1>4, <4>2 DEF Close, LastStep, TypeOK, Input, ChainInput
      <4>4. Input(t, i)' = Input(t, i)
        BY <1>0, <1>4, <4>2 DEF Close, LastStep, TypeOK, Input, ChainInput
      <4>5. pc'[t] # "idle" /\ pc'[t] \notin {"update", "close"}
        <5>1. CASE i < K - 1
          BY <1>0, <1>4, <5>1 DEF Close, LastStep, TypeOK
        <5>2. CASE ~(i < K - 1)
          BY <1>0, <1>4, <5>2 DEF Close, LastStep, TypeOK
        <5>3. QED
          BY <5>1, <5>2
      <4>6. \A j \in Steps0 : Written(t, j)' <=> j <= i
        <5>1. CASE i < K - 1
          BY <1>0, <1>4, <5>1 DEF Close, LastStep, TypeOK, Written
        <5>2. CASE ~(i < K - 1)
          BY <1>0, <1>4, <5>2 DEF Close, LastStep, TypeOK, Written
        <5>3. QED
          BY <5>1, <5>2
      <4>7. \A j \in Steps0 : Written(t, j) <=> j < i
        BY <1>0, <1>4 DEF Close, LastStep, TypeOK, Written
      <4>8. \A j \in Steps0 :
              hash'[t][j] = IF Written(t, j)' THEN Out(Steps[j], Input(t, j)')
                                              ELSE ZeroBuf
        <5> SUFFICES ASSUME NEW j \in Steps0
                     PROVE hash'[t][j] = IF Written(t, j)' THEN Out(Steps[j], Input(t, j)')
                                                           ELSE ZeroBuf
          OBVIOUS
        <5>1. hash[t][j] = IF Written(t, j) THEN Out(Steps[j], Input(t, j)) ELSE ZeroBuf
          BY <1>0, <1>4, LinkedAtDef DEF Close, LastStep, LinkedAt, Input, ChainInput
        <5>2. CASE j = i
          BY <4>2, <4>4, <4>6, <5>2, <1>0 DEF TypeOK
        <5>3. CASE j < i
          BY <4>2, <4>3, <4>6, <4>7, <5>1, <5>3, <1>0 DEF TypeOK
        <5>4. CASE j > i
          BY <4>2, <4>6, <4>7, <5>1, <5>4, <1>0 DEF TypeOK
        <5>5. QED
          BY <5>2, <5>3, <5>4, <1>0 DEF TypeOK
      <4>9. QED
        BY <3>1, <4>5, <4>8 DEF LinkedAt, Input, ChainInput
    <3>2. CASE u # t
      BY <1>0, <1>4, <3>2, OtherThread, LinkedAtDef DEF Close, LastStep, TypeOK, CtxOf
    <3>3. QED
      BY <3>1, <3>2
  <2>3. QED
    BY <2>1, <2>2 DEF Inv, ChainLinked, LinkedAt
<1>5. ASSUME NEW t \in Threads, Return(t) PROVE Inv'
  <2>1. TypeOK'
    BY <1>0, <1>5 DEF Return, LastStep, TypeOK
  <2>2. \A u \in Threads : LinkedAt(u)'
    <3> SUFFICES ASSUME NEW u \in Threads PROVE LinkedAt(u)'
      OBVIOUS
    <3>1. CASE u = t
      BY <1>0, <1>5, <3>1 DEF Return, LastStep, TypeOK, LinkedAt
    <3>2. CASE u # t
      BY <1>0, <1>5, <3>2, OtherThread, LinkedAtDef DEF Return, LastStep, TypeOK
    <3>3. QED
      BY <3>1, <3>2
  <2>3. QED
    BY <2>1, <2>2 DEF Inv, ChainLinked, LinkedAt
<1>6. CASE UNCHANGED vars
  BY <1>0, <1>6 DEF vars, Inv, TypeOK, ChainLinked, Written, Input, ChainInput, CtxOf
<1>7. QED
  BY <1>1, <1>2, <1>3, <1>4, <1>5, <1>6 DEF Next

(* Hash9's data flow holds in every reachable state (see ChainLinked),   *)
(* whatever the number of threads, the chain and the digest sizes.       *)
THEOREM ChainLinkedHolds == Spec => []ChainLinked
<1>1. Init => Inv
  BY InitInv
<1>2. Inv /\ [Next]_vars => Inv'
  BY NextInv
<1>3. Inv => ChainLinked
  BY DEF Inv
<1>4. QED
  BY <1>1, <1>2, <1>3, PTL DEF Spec

(* The state keeps its shape in every reachable state. *)
THEOREM TypeCorrect == Spec => []TypeOK
<1>1. Inv => TypeOK
  BY DEF Inv
<1>2. QED
  BY InitInv, NextInv, <1>1, PTL DEF Spec
=============================================================================
