------------------------------ MODULE ZeroSpec ------------------------------
(***************************************************************************)
(* What the zero-state cache promises a hashing thread (spec.md 4.1, 4.2): *)
(* a local context is set up as sph_<p>_init leaves it, absorbs bytes and *)
(* is closed; a close writes the digest of the bytes absorbed since the   *)
(* context was last set up or closed, and leaves it as after init.  The   *)
(* cache and its warm-up are invisible: setting up is one atomic step.    *)
(***************************************************************************)
EXTENDS Naturals, Sequences

CONSTANTS
    ZPrims,     \* primitives whose contexts a thread sets up
    Threads,    \* hashing threads
    Bytes,      \* byte values
    MaxData,    \* bound on the bytes absorbed between two closes
    Fresh(_),   \* Fresh(p): the context sph_<p>_init leaves
    Digest(_),  \* Digest(c): what a close of context c writes
    Garbage,    \* a context nobody has set up
    NoDigest    \* no close has written a digest yet

VARIABLES ctx, digest

avars == <<ctx, digest>>

AInit ==
    /\ ctx = [t \in Threads |-> [p \in ZPrims |-> Garbage]]
    /\ digest = [t \in Threads |-> [p \in ZPrims |-> NoDigest]]

(* sph_<p>_init(&ctx_<p>): the context as init leaves it, nothing absorbed. *)
ASetUp(t, p) ==
    /\ ctx' = [ctx EXCEPT ![t][p] = [base |-> Fresh(p), data |-> <<>>]]
    /\ UNCHANGED digest

AUpdate(t, p, b) ==
    /\ ctx[t][p] # Garbage
    /\ Len(ctx[t][p].data) < MaxData
    /\ ctx' = [ctx EXCEPT ![t][p] = [base |-> @.base, data |-> Append(@.data, b)]]
    /\ UNCHANGED digest

AClose(t, p) ==
    /\ ctx[t][p] # Garbage
    /\ digest' = [digest EXCEPT ![t][p] = Digest(ctx[t][p])]
    /\ ctx' = [ctx EXCEPT ![t][p] = [base |-> Fresh(p), data |-> <<>>]]

ANext ==
    \E t \in Threads, p \in ZPrims :
        \/ ASetUp(t, p)
        \/ \E b \in Bytes : AUpdate(t, p, b)
        \/ AClose(t, p)

ASpec == AInit /\ [][ANext]_avars
=============================================================================
