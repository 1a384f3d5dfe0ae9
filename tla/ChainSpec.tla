------------------------------ MODULE ChainSpec ------------------------------
(***************************************************************************)
(* What Hash9 promises (spec.md 4.3, 6): a call on input m returns the     *)
(* 256-bit truncation of the chain Steps[K-1](... Steps[0](m)), each step  *)
(* hashing the whole wide output of the one before; a call always returns. *)
(* One atomic step per call and one per return.                            *)
(***************************************************************************)
EXTENDS ChainData

VARIABLES busy, amsg, aresult

avars == <<busy, amsg, aresult>>

(* The wide buffers of the chain on input m, by step. *)
ChainBufs(m) ==
    LET h[i \in Steps0] ==
            IF i = 0 THEN Out(Steps[0], m) ELSE Out(Steps[i], <<h[i - 1]>>)
    IN h

ChainHash(m) == Trim(ChainBufs(m)[K - 1])

AInit ==
    /\ busy = [t \in Threads |-> FALSE]
    /\ amsg = [t \in Threads |-> CHOOSE m \in Messages : TRUE]
    /\ aresult = [t \in Threads |-> NoResult]

ACall(t, m) ==
    /\ ~busy[t]
    /\ busy' = [busy EXCEPT ![t] = TRUE]
    /\ amsg' = [amsg EXCEPT ![t] = m]
    /\ UNCHANGED aresult

AReturn(t) ==
    /\ busy[t]
    /\ aresult' = [aresult EXCEPT ![t] = ChainHash(amsg[t])]
    /\ busy' = [busy EXCEPT ![t] = FALSE]
    /\ UNCHANGED amsg

ANext == \E t \in Threads : (\E m \in Messages : ACall(t, m)) \/ AReturn(t)

(* What every step of a caller may see: calls and returns, nothing else. *)
ASafety == AInit /\ [][ANext]_avars

(* ... and every call returns. *)
ASpec == ASafety /\ \A t \in Threads : WF_avars(AReturn(t))
=============================================================================
