------------------------------ MODULE ZeroCache ------------------------------
(***************************************************************************)
(* The zero-state cache of src/src/hashblock.h: the GLOBAL contexts z_<p>  *)
(* (static storage, so zero-filled at process start), the fillz() macro    *)
(* that runs one sph init per statement on its target object, and the      *)
(* Z<P> macros that memcpy a cached context into a local ctx_<p>.          *)
(*                                                                         *)
(* A copied context is then used like any other: update absorbs bytes,   *)
(* close writes the digest and reinitialises the context (spec.md 4.1).  *)
(* spec.md 4.2: copying the snapshot must be equivalent to calling init;  *)
(* spec.md 5: any reader copies only after a warm-up has returned.        *)
(*                                                                         *)
(* fillz() has no once-guard: any thread in Warmers may run it, at the    *)
(* same time as others.  An init is not atomic: it stores the context's   *)
(* NFields fields one at a time, so a copy taken while another fillz      *)
(* re-runs an init sees a mix of old and new fields (the outcome of the   *)
(* data race).  The inits are not in src and spec.md only fixes the state *)
(* they leave: with ClearFirst an init first clears every field (as an   *)
(* init that zeroes its state array before setting its constants does),  *)
(* without it an init stores each field once, with its final value.      *)
(***************************************************************************)
EXTENDS Naturals, Sequences

CONSTANTS
    Prims,     \* context types (one per primitive)
    Objects,   \* the objects fillz or a Z macro names
    Fillz,     \* Fillz[j]: [init |-> p, target |-> o] for fillz's j-th statement
    ZSource,   \* ZSource[p]: the object macro Z<P> copies into ctx_<p>
    Warmers,   \* threads that call fillz()
    NFields,   \* fields of a context
    ClearFirst, \* an init clears every field before storing its values
    Threads,   \* threads hashing with copied contexts
    Bytes,     \* byte values
    MaxData    \* bound on the bytes absorbed between two closes

ASSUME ZeroCacheAssumption ==
    /\ Fillz \in Seq([init : Prims, target : Objects])
    /\ DOMAIN ZSource \subseteq Prims
    /\ \A p \in DOMAIN ZSource : ZSource[p] \in Objects
    /\ MaxData \in Nat
    /\ NFields \in Nat \ {0}
    /\ ClearFirst \in BOOLEAN

VARIABLES
    z,        \* z[o]: contents of object o
    fz,       \* fz[w]: statements of w's fillz() run to their end
    fw,       \* fw[w]: fields the init of w's next statement has stored
    ctx,      \* ctx[t][p]: t's local ctx_<p>: [base, data absorbed since]
    digest    \* digest[t][p]: what t's last close of ctx_<p> wrote

vars == <<z, fz, fw, ctx, digest>>

Fld == 1 .. NFields

(* Contents of static storage before any code runs. *)
Zeroed == [f \in Fld |-> <<"zero">>]

(* Field f of a context of primitive p right after sph_<p>_init. *)
FreshField(p, f) == <<"init", p, f>>

Fresh(p) == [f \in Fld |-> FreshField(p, f)]

(* A context nobody has set up yet (stack garbage). *)
Garbage == [base |-> [f \in Fld |-> <<"garbage">>], data |-> <<>>]

NoDigest == <<"none">>

(* The digest close computes from a context: a free function of the      *)
(* starting state and the data absorbed since.                           *)
Digest(c) == <<c.base, c.data>>

ZPrims == DOMAIN ZSource

Init ==
    /\ z = [o \in Objects |-> Zeroed]
    /\ fz = [w \in Warmers |-> 0]
    /\ fw = [w \in Warmers |-> 0]
    /\ ctx = [t \in Threads |-> [p \in ZPrims |-> Garbage]]
    /\ digest = [t \in Threads |-> [p \in ZPrims |-> NoDigest]]

(* The stores of one init: NFields clearing stores first if ClearFirst, *)
(* then one store of each field's value.  Store k writes field           *)
(* StoreField(k) with StoreValue(p, k).                                  *)
NStores == IF ClearFirst THEN 2 * NFields ELSE NFields

StoreField(k) == ((k - 1) % NFields) + 1

StoreValue(p, k) ==
    IF k <= NStores - NFields THEN <<"zero">> ELSE FreshField(p, StoreField(k))

(* The next store of w's fillz(): store fw[w] + 1 of the init of         *)
(* statement fz[w] + 1, sph_<init>_init(&<target>); the statement ends    *)
(* with the init's last store.                                            *)
FillzStep(w) ==
    LET st == Fillz[fz[w] + 1]
        k  == fw[w] + 1
    IN  /\ fz[w] < Len(Fillz)
        /\ z' = [z EXCEPT ![st.target][StoreField(k)] = StoreValue(st.init, k)]
        /\ IF k = NStores
              THEN /\ fz' = [fz EXCEPT ![w] = @ + 1]
                   /\ fw' = [fw EXCEPT ![w] = 0]
              ELSE /\ fw' = [fw EXCEPT ![w] = k]
                   /\ UNCHANGED fz
        /\ UNCHANGED <<ctx, digest>>

Warmed == \E w \in Warmers : fz[w] = Len(Fillz)

(* Z<P> taken before any fillz() has run to its end. *)
CloneEarly(t, p) ==
    /\ ctx' = [ctx EXCEPT ![t][p] = [base |-> z[ZSource[p]], data |-> <<>>]]
    /\ UNCHANGED <<z, fz, fw, digest>>

(* Z<P>: memcpy(&ctx_<p>, &z_<p>, sizeof(z_<p>)), after a warm-up. *)
Clone(t, p) ==
    /\ Warmed
    /\ ctx' = [ctx EXCEPT ![t][p] = [base |-> z[ZSource[p]], data |-> <<>>]]
    /\ UNCHANGED <<z, fz, fw, digest>>

(* sph_<p>(&ctx_<p>, &b, 1). *)
Update(t, p, b) ==
    /\ ctx[t][p] # Garbage
    /\ Len(ctx[t][p].data) < MaxData
    /\ ctx' = [ctx EXCEPT ![t][p] = [base |-> @.base, data |-> Append(@.data, b)]]
    /\ UNCHANGED <<z, fz, fw, digest>>

(* A close that resets the starting state but not the absorbed bytes. *)
CloseKeepsData(t, p) ==
    /\ ctx[t][p] # Garbage
    /\ digest' = [digest EXCEPT ![t][p] = Digest(ctx[t][p])]
    /\ ctx' = [ctx EXCEPT ![t][p] = [base |-> Fresh(p), data |-> @.data]]
    /\ UNCHANGED <<z, fz, fw>>

(* sph_<p>_close(&ctx_<p>, out): the digest, then ctx_<p> as after init. *)
Close(t, p) ==
    /\ ctx[t][p] # Garbage
    /\ digest' = [digest EXCEPT ![t][p] = Digest(ctx[t][p])]
    /\ ctx' = [ctx EXCEPT ![t][p] = [base |-> Fresh(p), data |-> <<>>]]
    /\ UNCHANGED <<z, fz, fw>>

Next ==
    \/ \E w \in Warmers : FillzStep(w)
    \/ \E t \in Threads, p \in ZPrims :
          \/ Clone(t, p)
          \/ \E b \in Bytes : Update(t, p, b)
          \/ Close(t, p)

Spec == Init /\ [][Next]_vars

(* fillz() sets up the cache the Z macros read: for each Z<P> some        *)
(* statement initialises the object it copies, and every statement on     *)
(* that object calls sph_<p>_init.                                        *)
FillzWellFormed ==
    \A p \in ZPrims :
        /\ \E j \in 1 .. Len(Fillz) : Fillz[j].target = ZSource[p]
        /\ \A j \in 1 .. Len(Fillz) : Fillz[j].target = ZSource[p] => Fillz[j].init = p

-----------------------------------------------------------------------------
(* Cache equivalence (spec.md 4.2, 8): every digest a thread computes     *)
(* from a context it copied with Z<P> after the warm-up (and from the     *)
(* same context reused after close) is the digest the same bytes give     *)
(* from sph_<p>_init: fillz must initialise, with the right init, exactly *)
(* the object each Z macro reads.                                         *)
FromCache(t, p) == ctx[t][p] # Garbage

CacheEquivalence ==
    \A t \in Threads, p \in ZPrims :
        /\ FromCache(t, p) => ctx[t][p].base = Fresh(p)
        /\ digest[t][p] # NoDigest =>
              digest[t][p] = Digest([base |-> Fresh(p), data |-> digest[t][p][2]])

(* Under the mapping that keeps each thread's contexts and digests and    *)
(* hides the cache, ZeroCache implements ZeroSpec: a Z<P> copy taken      *)
(* after the warm-up is a call of sph_<p>_init (spec.md 4.2), the stores  *)
(* of fillz() are invisible, and update and close act on the copy as on  *)
(* an initialised context.                                                *)
Abstract == INSTANCE ZeroSpec

ImplementsZeroSpec == Abstract!ASpec
=============================================================================
