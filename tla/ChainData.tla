------------------------------ MODULE ChainData ------------------------------
(***************************************************************************)
(* The data of the chain orchestrator of src/src/hashblock.h, shared by    *)
(* the abstract chain (ChainSpec) and the step-by-step one (HashChain).    *)
(*                                                                         *)
(* A primitive is abstracted to a free function: the digest a close writes *)
(* is the term <<p, absorbed data>>, so two digests are equal exactly     *)
(* when the same primitive absorbed the same data.  A wide               *)
(* buffer (uint512) is [val, len]: its first len bytes are val and the     *)
(* rest are the zeros its constructor wrote.                               *)
(***************************************************************************)
EXTENDS Naturals, Sequences

CONSTANTS
    Threads,      \* threads that call Hash9
    Prims,        \* the primitives (one context type each)
    Bytes,        \* byte values a message is made of
    Messages,     \* the inputs [pbegin, pend) a caller may pass
    K,            \* number of chain steps (5 or 24)
    Steps,        \* Steps[i]: the primitive of step i, 0 <= i < K
    DigestBytes   \* DigestBytes[p]: bytes p's close writes

WideBytes == 64   \* sizeof(uint512)
TrimBytes == 32   \* sizeof(uint256)

Steps0 == 0 .. K - 1

ASSUME ChainAssumption ==
    /\ K \in Nat \ {0}
    /\ Steps \in [Steps0 -> Prims]
    /\ DigestBytes \in [Prims -> 1 .. WideBytes]
    /\ Messages \subseteq Seq(Bytes)
    /\ Messages # {}

(* uint512 default constructor: all 64 bytes zero. *)
ZeroBuf == [val |-> <<>>, len |-> 0]

(* The wide buffer sph_<p>_close writes after absorbing data. *)
Out(p, data) == [val |-> <<p, data>>, len |-> DigestBytes[p]]

(* uint512::trim256: the low 32 bytes of the buffer. *)
Trim(buf) ==
    [of |-> buf.val, len |-> IF buf.len < TrimBytes THEN buf.len ELSE TrimBytes]

NoResult == [of |-> <<>>, len |-> 0]
=============================================================================
