------------------------------ MODULE HashChain ------------------------------
(***************************************************************************)
(* The chain orchestrator Hash9 of src/src/hashblock.h.                     *)
(*                                                                         *)
(* A call of Hash9 on a thread runs the fixed list of primitives Steps:     *)
(* for step i it calls init on the primitive's context, update with the    *)
(* step's input (the message for step 0, the whole 64-byte buffer          *)
(* hash[i-1] otherwise) and close into hash[i]; it returns hash[K-1]       *)
(* truncated to 256 bits.  Each of the three sph calls is one action, so   *)
(* the calls of several threads interleave.                                *)
(***************************************************************************)
EXTENDS ChainData

CONSTANT Junk     \* a garbage byte: what an uninitialised context holds

VARIABLES
    pc,       \* pc[t]: "idle" or the next sph call of t ("init", ...)
    step,     \* step[t]: index of the chain step t is in
    msg,      \* msg[t]: the message of t's current call
    hash,     \* hash[t]: t's local array uint512 hash[K]
    ctx,      \* ctx[o][p]: data absorbed by context p of stack frame o
    result    \* result[t]: what t's last call of Hash9 returned

vars == <<pc, step, msg, hash, ctx, result>>

(* The contexts, were they static like pblank: one set shared by every  *)
(* thread.                                                                *)
CtxOfStatic(t) == CHOOSE o \in Threads : TRUE

(* The frame whose contexts thread t's call uses: its own stack. *)
CtxOf(t) == t

(* The last step, had the code counted one step too many. *)
LastStepPastEnd == K

(* The index of the last step, whose close is followed by the return. *)
LastStep == K - 1

(* The input of step i, had the code read hash[i] for hash[i-1]. *)
InputSameBuffer(t, i) == IF i = 0 THEN msg[t] ELSE <<hash[t][i]>>

(* The data step i of t's call passes to update: the message bytes at     *)
(* step 0 (none when pbegin == pend), the whole 64-byte hash[i-1] after.  *)
Input(t, i) == IF i = 0 THEN msg[t] ELSE <<hash[t][i - 1]>>

Init ==
    /\ pc = [t \in Threads |-> "idle"]
    /\ step = [t \in Threads |-> 0]
    /\ msg = [t \in Threads |-> CHOOSE m \in Messages : TRUE]
    /\ hash = [t \in Threads |-> [i \in Steps0 |-> ZeroBuf]]
    /\ ctx = [o \in Threads |-> [p \in Prims |-> <<Junk>>]]
    /\ result = [t \in Threads |-> NoResult]

(* Entry of Hash9(pbegin, pend): the hash array is constructed (zeroed),  *)
(* the contexts hold whatever the stack held before.                      *)
Call(t, m) ==
    /\ pc[t] = "idle"
    /\ pc' = [pc EXCEPT ![t] = "init"]
    /\ step' = [step EXCEPT ![t] = 0]
    /\ msg' = [msg EXCEPT ![t] = m]
    /\ hash' = [hash EXCEPT ![t] = [i \in Steps0 |-> ZeroBuf]]
    /\ UNCHANGED <<ctx, result>>

(* sph_<p>_init(&ctx_<p>): the context holds no data. *)
InitCtx(t) ==
    /\ pc[t] = "init"
    /\ ctx' = [ctx EXCEPT ![CtxOf(t)][Steps[step[t]]] = <<>>]
    /\ pc' = [pc EXCEPT ![t] = "update"]
    /\ UNCHANGED <<step, msg, hash, result>>

(* sph_<p>(&ctx_<p>, data, len): appends the input; len = 0 appends none. *)
Update(t) ==
    /\ pc[t] = "update"
    /\ ctx' = [ctx EXCEPT ![CtxOf(t)][Steps[step[t]]] = @ \o Input(t, step[t])]
    /\ pc' = [pc EXCEPT ![t] = "close"]
    /\ UNCHANGED <<step, msg, hash, result>>

(* sph_<p>_close(&ctx_<p>, &hash[i]): writes the digest into hash[i] and *)
(* leaves the context as after init; then the next step or the return.   *)
Close(t) ==
    LET p == Steps[step[t]] IN
    /\ pc[t] = "close"
    /\ hash' = [hash EXCEPT ![t][step[t]] = Out(p, ctx[CtxOf(t)][p])]
    /\ ctx' = [ctx EXCEPT ![CtxOf(t)][p] = <<>>]
    /\ IF step[t] < LastStep
          THEN /\ step' = [step EXCEPT ![t] = @ + 1]
               /\ pc' = [pc EXCEPT ![t] = "init"]
          ELSE /\ pc' = [pc EXCEPT ![t] = "ret"]
               /\ UNCHANGED step
    /\ UNCHANGED <<msg, result>>

(* return hash[K-1].trim256(); *)
Return(t) ==
    /\ pc[t] = "ret"
    /\ result' = [result EXCEPT ![t] = Trim(hash[t][LastStep])]
    /\ pc' = [pc EXCEPT ![t] = "idle"]
    /\ UNCHANGED <<step, msg, hash, ctx>>

Next ==
    \E t \in Threads :
        \/ \E m \in Messages : Call(t, m)
        \/ InitCtx(t)
        \/ Update(t)
        \/ Close(t)
        \/ Return(t)

(* Every call runs to completion: Hash9 never blocks, and the scheduler   *)
(* keeps running a thread that has work.                                 *)
Fairness == \A t \in Threads : WF_vars(InitCtx(t) \/ Update(t) \/ Close(t) \/ Return(t))

Spec == Init /\ [][Next]_vars /\ Fairness

-----------------------------------------------------------------------------
(* Properties *)

(* Each variable holds a value of its kind. *)
TypeOK ==
    /\ pc \in [Threads -> {"idle", "init", "update", "close", "ret"}]
    /\ step \in [Threads -> Steps0]
    /\ msg \in [Threads -> Messages]
    /\ DOMAIN hash = Threads /\ \A t \in Threads : DOMAIN hash[t] = Steps0
    /\ DOMAIN ctx = Threads /\ \A o \in Threads : DOMAIN ctx[o] = Prims
    /\ DOMAIN result = Threads

(* Hash9's data flow, under any interleaving of the calls of all threads *)
(* and whatever the stack held: in a running call every buffer written   *)
(* so far is the digest, by its step's primitive, of exactly that step's *)
(* input (the message, or the previous buffer with its zero tail), the   *)
(* buffers not yet written are still zero, and the context of the       *)
(* current step holds nothing but the part of its input already given.   *)
Written(t, i) == i < step[t] \/ pc[t] = "ret"

(* What the chain feeds step i: the message, or the previous buffer.  *)
ChainInput(t, i) == IF i = 0 THEN msg[t] ELSE <<hash[t][i - 1]>>

ChainLinked ==
    \A t \in Threads : pc[t] # "idle" =>
        /\ \A i \in Steps0 :
              hash[t][i] = IF Written(t, i) THEN Out(Steps[i], ChainInput(t, i))
                                            ELSE ZeroBuf
        /\ pc[t] = "update" => ctx[t][Steps[step[t]]] = <<>>
        /\ pc[t] = "close" => ctx[t][Steps[step[t]]] = ChainInput(t, step[t])

(* Hash9 implements the abstract chain: each call returns, and returns    *)
(* the truncated chain digest of its own message, whatever the other     *)
(* threads' calls do meanwhile.  Call and return map to the abstract     *)
(* ones, the sph calls in between to stuttering steps.                   *)
Abstract == INSTANCE ChainSpec
    WITH busy <- [t \in Threads |-> pc[t] # "idle"], amsg <- msg, aresult <- result

ImplementsChainSpec == Abstract!ASpec
=============================================================================
