--------------------------- MODULE ZeroCacheProofs ---------------------------
(***************************************************************************)
(* Cache equivalence for every cache fillz() sets up correctly: whatever  *)
(* the primitives, the objects, the number of unsynchronised warm-up      *)
(* calls, the fields an init stores and the threads that copy, when     *)
(* every init stores each field once, with its final value              *)
(* (~ClearFirst; MC_ZeroCacheClearRace.cfg shows why this is needed).    *)
(*                                                                         *)
(* The argument: once a call of fillz() has stored field f of statement   *)
(* j, that field of the target keeps the value sph_<init>_init gives it,  *)
(* since every later store to the same object, by any warm-up call,       *)
(* stores that same value (FillzWellFormed).  A copy taken after a        *)
(* warm-up returned therefore reads Fresh(p), and so does every context   *)
(* and digest derived from it.                                            *)
(***************************************************************************)
EXTENDS ZeroCache, SequenceTheorems, TLAPS

Cells == {<<"zero">>, <<"garbage">>} \cup {FreshField(p, f) : p \in Prims, f \in Fld}

Bases == [Fld -> Cells]

(* The shape of the state. *)
TypeInv ==
    /\ z \in [Objects -> [Fld -> Cells]]
    /\ fz \in [Warmers -> 0 .. Len(Fillz)]
    /\ fw \in [Warmers -> 0 .. NFields - 1]
    /\ ctx \in [Threads -> [ZPrims -> [base : Bases, data : Seq(Bytes)]]]
    /\ digest \in [Threads -> [ZPrims -> {NoDigest} \cup (Bases \X Seq(Bytes))]]

(* Field f of statement j has been stored by warm-up call w. *)
Stored(w, j, f) == j <= fz[w] \/ (j = fz[w] + 1 /\ f <= fw[w])

(* A stored field of an object a Z macro reads keeps its init value. *)
ObjInv ==
    \A p \in ZPrims, w \in Warmers, j \in 1 .. Len(Fillz), f \in Fld :
        (Fillz[j].target = ZSource[p] /\ Stored(w, j, f))
            => z[ZSource[p]][f] = FreshField(p, f)

(* Every context in use, and every digest, starts from Fresh(p). *)
CtxInv ==
    \A t \in Threads, p \in ZPrims :
        /\ ctx[t][p] = Garbage \/ ctx[t][p].base = Fresh(p)
        /\ digest[t][p] = NoDigest \/ digest[t][p][1] = Fresh(p)

IInv == TypeInv /\ ObjInv /\ CtxInv

USE ZeroCacheAssumption DEF Fld

-----------------------------------------------------------------------------
(* Static storage is zero and no context is in use at process start. *)
LEMMA InitInv == Init => IInv
<1> SUFFICES ASSUME Init PROVE IInv
  OBVIOUS
<1>1. TypeInv
  BY DEF Init, TypeInv, Zeroed, Cells, Bases, Garbage, NoDigest
<1>2. ObjInv
  BY DEF Init, ObjInv, Stored
<1>3. CtxInv
  BY DEF Init, CtxInv
<1>4. QED
  BY <1>1, <1>2, <1>3 DEF IInv

(* After a warm-up has returned, every object a Z macro copies holds the *)
(* context its init leaves.                                               *)
LEMMA WarmedFresh ==
  ASSUME FillzWellFormed, TypeInv, ObjInv, Warmed, NEW p \in ZPrims
  PROVE  z[ZSource[p]] = Fresh(p)
<1>1. PICK w \in Warmers : fz[w] = Len(Fillz)
  BY DEF Warmed
<1>2. PICK j \in 1 .. Len(Fillz) : Fillz[j].target = ZSource[p]
  BY DEF FillzWellFormed
<1>3. \A f \in Fld : z[ZSource[p]][f] = FreshField(p, f)
  BY <1>1, <1>2 DEF ObjInv, Stored, TypeInv, ZPrims
<1>4. z[ZSource[p]] \in [Fld -> Cells]
  BY DEF TypeInv, ZPrims
<1>5. QED
  BY <1>3, <1>4 DEF Fresh

(* Each statement of fillz() names a primitive's init and an object. *)
LEMMA FillzEntry ==
  ASSUME NEW i \in 1 .. Len(Fillz)
  PROVE  Fillz[i].init \in Prims /\ Fillz[i].target \in Objects
<1>1. Fillz[i] \in [init : Prims, target : Objects]
  BY ElementOfSeq
<1>2. QED
  BY <1>1

(* A store of an init that stores each field once, with its final value. *)
FillzStepFinal(w) ==
    LET st == Fillz[fz[w] + 1]
        f  == fw[w] + 1
    IN  /\ fz[w] < Len(Fillz)
        /\ z' = [z EXCEPT ![st.target][f] = FreshField(st.init, f)]
        /\ IF f = NFields
              THEN /\ fz' = [fz EXCEPT ![w] = @ + 1]
                   /\ fw' = [fw EXCEPT ![w] = 0]
              ELSE /\ fw' = [fw EXCEPT ![w] = f]
                   /\ UNCHANGED fz
        /\ UNCHANGED <<ctx, digest>>

(* When inits do not clear first, store k of an init is the store of     *)
(* field k with its final value.                                          *)
LEMMA FinalStep ==
  ASSUME ~ClearFirst, TypeInv, NEW w \in Warmers, FillzStep(w)
  PROVE  FillzStepFinal(w)
<1>1. fw[w] + 1 \in 1 .. NFields
  BY ZeroCacheAssumption DEF TypeInv
<1>2. /\ NStores = NFields
      /\ StoreField(fw[w] + 1) = fw[w] + 1
      /\ \A p : StoreValue(p, fw[w] + 1) = FreshField(p, fw[w] + 1)
  BY <1>1 DEF NStores, StoreField, StoreValue
<1>3. QED
  BY <1>2 DEF FillzStep, FillzStepFinal

(* One store of a warm-up call writes field f of the target of its       *)
(* statement and leaves every other field of every object alone.         *)
LEMMA StoreAt ==
  ASSUME TypeInv, NEW w \in Warmers, FillzStepFinal(w),
         NEW o \in Objects, NEW g \in Fld
  PROVE  z'[o][g] = IF o = Fillz[fz[w] + 1].target /\ g = fw[w] + 1
                      THEN FreshField(Fillz[fz[w] + 1].init, fw[w] + 1)
                      ELSE z[o][g]
<1>1. fz[w] + 1 \in 1 .. Len(Fillz) /\ fw[w] + 1 \in Fld
  BY DEF FillzStepFinal, TypeInv
<1>2. Fillz[fz[w] + 1].target \in Objects
  BY <1>1, FillzEntry
<1>3. QED
  BY <1>1, <1>2 DEF FillzStepFinal, TypeInv

(* A store of a warm-up call keeps the invariant. *)
LEMMA FillzStepInv ==
  ASSUME FillzWellFormed, IInv, NEW w \in Warmers, FillzStepFinal(w)
  PROVE  IInv'
<1> DEFINE st == Fillz[fz[w] + 1]
           f  == fw[w] + 1
<1>1. fz[w] + 1 \in 1 .. Len(Fillz) /\ f \in Fld
  BY DEF FillzStepFinal, IInv, TypeInv
<1>2. st.target \in Objects /\ st.init \in Prims
  BY <1>1, FillzEntry
<1>3. TypeInv'
  <2>1. z' \in [Objects -> [Fld -> Cells]]
    BY <1>1, <1>2 DEF FillzStepFinal, IInv, TypeInv, Cells
  <2>2. fz' \in [Warmers -> 0 .. Len(Fillz)] /\ fw' \in [Warmers -> 0 .. NFields - 1]
    <3>1. CASE f = NFields
      <4>1. fz' = [fz EXCEPT ![w] = fz[w] + 1] /\ fw' = [fw EXCEPT ![w] = 0]
        BY <3>1 DEF FillzStepFinal
      <4>2. QED
        BY <1>1, <4>1 DEF IInv, TypeInv
    <3>2. CASE f # NFields
      <4>1. fz' = fz /\ fw' = [fw EXCEPT ![w] = f]
        BY <3>2 DEF FillzStepFinal
      <4>2. QED
        BY <1>1, <3>2, <4>1 DEF IInv, TypeInv
    <3>3. QED
      BY <3>1, <3>2
  <2>3. QED
    BY <2>1, <2>2 DEF FillzStepFinal, IInv, TypeInv
<1>4. ObjInv'
  <2> SUFFICES ASSUME NEW p \in ZPrims, NEW v \in Warmers, NEW j \in 1 .. Len(Fillz),
                      NEW g \in Fld, Fillz[j].target = ZSource[p], Stored(v, j, g)'
               PROVE  z'[ZSource[p]][g] = FreshField(p, g)
    BY DEF ObjInv
  <2>1. ZSource[p] \in Objects
    BY DEF ZPrims
  <2>2. st.target = ZSource[p] => st.init = p
    BY <1>1 DEF FillzWellFormed
  <2>3. CASE ZSource[p] = st.target /\ g = f
    BY <2>1, <2>2, <2>3, StoreAt DEF IInv
  <2>4. CASE ~(ZSource[p] = st.target /\ g = f)
    <3>1. z'[ZSource[p]][g] = z[ZSource[p]][g]
      BY <2>1, <2>4, StoreAt DEF IInv
    <3>2. Stored(v, j, g)
      <4>1. CASE v # w
        BY <4>1 DEF FillzStepFinal, Stored, IInv, TypeInv
      <4>2. CASE v = w
        BY <4>2, <2>4, <1>1 DEF FillzStepFinal, Stored, IInv, TypeInv
      <4>3. QED
        BY <4>1, <4>2
    <3>3. QED
      BY <3>1, <3>2 DEF IInv, ObjInv
  <2>5. QED
    BY <2>3, <2>4
<1>5. CtxInv'
  BY DEF FillzStepFinal, IInv, CtxInv
<1>6. QED
  BY <1>3, <1>4, <1>5 DEF IInv

(* A Z<P> copy after a warm-up keeps the invariant. *)
LEMMA CloneInv ==
  ASSUME FillzWellFormed, IInv, NEW t \in Threads, NEW p \in ZPrims, Clone(t, p)
  PROVE  IInv'
<1>1. z[ZSource[p]] = Fresh(p)
  BY WarmedFresh DEF Clone, IInv
<1>2. ctx' = [ctx EXCEPT ![t][p] = [base |-> Fresh(p), data |-> <<>>]]
  BY <1>1 DEF Clone
<1>3. Fresh(p) \in [Fld -> Cells]
  BY DEF Fresh, Cells, ZPrims
<1>4. TypeInv'
  BY <1>2, <1>3 DEF Clone, IInv, TypeInv, Bases
<1>5. ObjInv'
  BY DEF Clone, IInv, ObjInv, Stored
<1>6. CtxInv'
  BY <1>2 DEF Clone, IInv, TypeInv, CtxInv
<1>7. QED
  BY <1>4, <1>5, <1>6 DEF IInv

(* Absorbing a byte keeps the context's starting state. *)
LEMMA UpdateInv ==
  ASSUME IInv, NEW t \in Threads, NEW p \in ZPrims, NEW b \in Bytes, Update(t, p, b)
  PROVE  IInv'
<1>1. ctx[t][p] # Garbage /\ ctx[t][p].base = Fresh(p)
  BY DEF Update, IInv, CtxInv
<1>0. ctx[t][p] \in [base : Bases, data : Seq(Bytes)] /\ ctx \in [Threads -> [ZPrims -> [base : Bases, data : Seq(Bytes)]]]
  BY DEF IInv, TypeInv
<1>2. ctx' = [ctx EXCEPT ![t][p] = [base |-> Fresh(p), data |-> Append(ctx[t][p].data, b)]]
  BY <1>1 DEF Update
<1>3. Append(ctx[t][p].data, b) \in Seq(Bytes)
  BY DEF IInv, TypeInv
<1>4. Fresh(p) \in [Fld -> Cells]
  BY DEF Fresh, Cells, ZPrims
<1>5. TypeInv'
  BY <1>0, <1>2, <1>3, <1>4 DEF Update, IInv, TypeInv, Bases
<1>6. ObjInv'
  BY DEF Update, IInv, ObjInv, Stored
<1>7. CtxInv'
  BY <1>2 DEF Update, IInv, TypeInv, CtxInv
<1>8. QED
  BY <1>5, <1>6, <1>7 DEF IInv

(* A close digests a context that started from Fresh(p) and leaves the  *)
(* context as after init.                                                 *)
LEMMA CloseInv ==
  ASSUME IInv, NEW t \in Threads, NEW p \in ZPrims, Close(t, p)
  PROVE  IInv'
<1>1. ctx[t][p].base = Fresh(p)
  BY DEF Close, IInv, CtxInv
<1>2. digest' = [digest EXCEPT ![t][p] = <<Fresh(p), ctx[t][p].data>>]
  BY <1>1 DEF Close, Digest
<1>3. ctx' = [ctx EXCEPT ![t][p] = [base |-> Fresh(p), data |-> <<>>]]
  BY DEF Close
<1>4. Fresh(p) \in [Fld -> Cells]
  BY DEF Fresh, Cells, ZPrims
<1>5. TypeInv'
  BY <1>2, <1>3, <1>4 DEF Close, IInv, TypeInv, Bases
<1>6. ObjInv'
  BY DEF Close, IInv, ObjInv, Stored
<1>7. CtxInv'
  BY <1>2, <1>3 DEF Close, IInv, TypeInv, CtxInv
<1>8. QED
  BY <1>5, <1>6, <1>7 DEF IInv

(* Every step of every warm-up call and every hashing thread keeps IInv. *)
LEMMA NextInv ==
  ASSUME FillzWellFormed, ~ClearFirst
  PROVE  IInv /\ [Next]_vars => IInv'
<1> SUFFICES ASSUME IInv, [Next]_vars PROVE IInv'
  OBVIOUS
<1>1. ASSUME NEW w \in Warmers, FillzStep(w) PROVE IInv'
  BY <1>1, FinalStep, FillzStepInv DEF IInv
<1>2. ASSUME NEW t \in Threads, NEW p \in ZPrims, Clone(t, p) PROVE IInv'
  BY <1>2, CloneInv
<1>3. ASSUME NEW t \in Threads, NEW p \in ZPrims, NEW b \in Bytes, Update(t, p, b)
      PROVE IInv'
  BY <1>3, UpdateInv
<1>4. ASSUME NEW t \in Threads, NEW p \in ZPrims, Close(t, p) PROVE IInv'
  BY <1>4, CloseInv
<1>5. CASE UNCHANGED vars
  BY <1>5 DEF vars, IInv, TypeInv, ObjInv, Stored, CtxInv
<1>6. QED
  BY <1>1, <1>2, <1>3, <1>4, <1>5 DEF Next

(* The invariant gives cache equivalence. *)
LEMMA InvCache == IInv => CacheEquivalence
<1> SUFFICES ASSUME IInv, NEW t \in Threads, NEW p \in ZPrims
             PROVE  /\ FromCache(t, p) => ctx[t][p].base = Fresh(p)
                    /\ digest[t][p] # NoDigest =>
                          digest[t][p] = Digest([base |-> Fresh(p), data |-> digest[t][p][2]])
  BY DEF CacheEquivalence
<1>1. FromCache(t, p) => ctx[t][p].base = Fresh(p)
  BY DEF FromCache, IInv, CtxInv
<1>2. ASSUME digest[t][p] # NoDigest
      PROVE  digest[t][p] = Digest([base |-> Fresh(p), data |-> digest[t][p][2]])
  <2>1. digest[t][p] \in Bases \X Seq(Bytes) /\ digest[t][p][1] = Fresh(p)
    BY <1>2 DEF IInv, TypeInv, CtxInv
  <2>2. QED
    BY <2>1 DEF Digest
<1>3. QED
  BY <1>1, <1>2

(* Cache equivalence (CacheEquivalence) for every cache that fillz()     *)
(* sets up correctly, any number of unsynchronised fillz() calls, any    *)
(* number of stores per init and any number of threads: a context copied *)
(* by a Z macro after some fillz() returned, and every digest computed    *)
(* from it, are those sph_<p>_init gives.                                 *)
THEOREM CacheEquivalenceHolds ==
  ASSUME FillzWellFormed, ~ClearFirst
  PROVE  Spec => []CacheEquivalence
<1>1. Init => IInv
  BY InitInv
<1>2. IInv /\ [Next]_vars => IInv'
  BY NextInv
<1>3. IInv => CacheEquivalence
  BY InvCache
<1>4. QED
  BY <1>1, <1>2, <1>3, PTL DEF Spec
-----------------------------------------------------------------------------
(* Each step of the cache and its users is a step of ZeroSpec or leaves  *)
(* the contexts and digests alone.                                        *)
LEMMA CacheStepRefines ==
  ASSUME FillzWellFormed
  PROVE  IInv /\ [Next]_vars => [Abstract!ANext]_Abstract!avars
<1> SUFFICES ASSUME IInv, [Next]_vars PROVE [Abstract!ANext]_Abstract!avars
  OBVIOUS
<1>1. ASSUME NEW w \in Warmers, FillzStep(w) PROVE UNCHANGED Abstract!avars
  BY <1>1 DEF FillzStep, Abstract!avars
<1>2. ASSUME NEW t \in Threads, NEW p \in ZPrims, Clone(t, p)
      PROVE  Abstract!ASetUp(t, p)
  <2>1. z[ZSource[p]] = Fresh(p)
    BY <1>2, WarmedFresh DEF Clone, IInv
  <2>2. QED
    BY <1>2, <2>1 DEF Clone, Abstract!ASetUp
<1>3. ASSUME NEW t \in Threads, NEW p \in ZPrims, NEW b \in Bytes, Update(t, p, b)
      PROVE  Abstract!AUpdate(t, p, b)
  BY <1>3 DEF Update, Abstract!AUpdate
<1>4. ASSUME NEW t \in Threads, NEW p \in ZPrims, Close(t, p)
      PROVE  Abstract!AClose(t, p)
  BY <1>4 DEF Close, Abstract!AClose
<1>5. CASE UNCHANGED vars
  BY <1>5 DEF vars, Abstract!avars
<1>6. QED
  BY <1>1, <1>2, <1>3, <1>4, <1>5 DEF Next, Abstract!ANext

(* The cache implements ZeroSpec (ImplementsZeroSpec) for every cache     *)
(* that fillz() sets up correctly: whatever the warm-up calls do, a       *)
(* hashing thread sees exactly the behaviours it would see if every Z<P>   *)
(* were a call of sph_<p>_init.                                           *)
THEOREM RefinesZeroSpec ==
  ASSUME FillzWellFormed, ~ClearFirst
  PROVE  Spec => ImplementsZeroSpec
<1>1. Init => Abstract!AInit
  BY DEF Init, Abstract!AInit
<1>2. QED
  BY <1>1, InitInv, NextInv, CacheStepRefines, PTL
     DEF Spec, ImplementsZeroSpec, Abstract!ASpec
=============================================================================
