# TLA+ models of the XNAPoS hashing code

This directory holds TLA+ models of the proof-of-work hashing code of the
repository, the TLC configurations that model-check them, and TLAPS proofs.

## The system

The hashing code has four parts that interact.

1. **The chain orchestrator `Hash9`** (`src/src/hashblock.h`). There are two
   variants in the file: a 5-step chain (panama, whirlpool, keccak512, panama,
   cubehash512; lines 38-75) and a 24-step chain (lines 196-330). For step
   `i` it calls `sph_<p>_init` on a stack context, then the update function
   with the step's input, then `sph_<p>_close` into `hash[i]`. The input of
   step 0 is the message, or the static one-byte `pblank` with length 0 when
   the message is empty. Every later step reads the whole 64-byte
   `hash[i-1]`. The call returns `hash[K-1].trim256()`. Several threads call
   `Hash9` at once.
2. **The zero-state cache** (same file, lines 20-35 and 118-192). Global
   contexts `z_<p>` are initialised once by `fillz()`. The `Z<P>` macros
   `memcpy` them into a local context instead of calling init.
3. **HAVAL compression** (`src/src/hash/haval.c` lines 360-393 and the macros
   of `src/unnamed/part_000`, which is `sph_haval.h`). This covers the
   boolean functions F1..F5, the phi permutations FPn_p and STEP. It also
   covers the passes, which exist in two builds: unrolled, and
   `SPH_SMALL_FOOTPRINT_HAVAL` with the tables MP/RK. Finally it covers
   `SAVE_STATE`, `UPDATE_STATE` and the `CORE3/4/5` drivers.
4. **The HAVAL context API and output** (`haval.c`). This covers
   `haval_init`, the `API(xxx, y)` functions, and `haval_out` with its
   tailoring functions `mix128`, `mix160_k` and `mix192_k`.

The other primitives (panama, whirlpool, keccak, cubehash, and so on) and
`sph_types.h` are not in `src/`. `Hash9` and the cache use those primitives
only through init, update and close.

## Modules

| Module | Models | State and actions |
|---|---|---|
| `ChainData` | data shared by the chain modules | constants, the `uint512` buffer `[val, len]` (`ZeroBuf`, `Out`, `Trim`) |
| `ChainSpec` | what `Hash9` promises | `busy`, `amsg`, `aresult`; `ACall`, `AReturn` (atomic) |
| `HashChain` | `Hash9`, either variant | `pc`, `step`, `msg`, `hash`, `ctx`, `result` per thread; `Call`, `InitCtx`, `Update`, `Close`, `Return` |
| `ZeroSpec` | what the cache promises a hashing thread | `ctx`, `digest`; `ASetUp` (an atomic `sph_<p>_init`), `AUpdate`, `AClose` |
| `ZeroCache` | `z_` globals, `fillz`, `Z<P>` | `z` (per object, per field), `fz`/`fw` (per warm-up call: statements done, fields of the next init stored), `ctx`, `digest`; `FillzStep(w)` (one field store), `Clone`, `Update`, `Close` |
| `HavalTables` | HAVAL data without bit operations | 32-bit words as pairs of 16-bit halves, `SPH_T32` addition, the initial value, the word orders and constants of both builds (unrolled tuples by pass; `MP2..MP5`, `RK2..RK5`) |
| `HavalTailor` | the rotations and `haval_out`'s tailoring | `&` and `\|` on 16-bit halves are the constant operators `And16`, `Or16`; `ROTR32`, `ROTL32`, `ShR32`, the mix functions, `HavalOutWords` (the switch on `olen`), `Enc32le` and `HavalOut` (`sph_enc32le` at `buf + 4k`) |
| `HavalOps` | pure HAVAL operators (TLC only) | `BitAnd16`, `BitOr16` (Bitwise's `&`, `\|`, which the runs give `HavalTailor`); F1..F5 and the paper's forms; phi; STEP |
| `HavalCore` | `sph_haval_n_comp` | `passes`, `X`, `u`, `sU`/`sS` (state under each build), `pass`, `j`; `Step` (one STEP of both builds), `UpdateState`. STEP is the constant operator `StepOp`; `MC_HavalCore` sets it to `HavalOps`'s `STEP` |
| `HavalOut` | one context from init to close | `api`, `olen`, `s`, `dst`; `InitCtx`, `Absorb`, `Close`; built on `HavalTailor` only |
| `HashChainProofs` | TLAPS proofs about `HashChain` | |
| `HashChainRefinement` | TLAPS proof that `HashChain` refines `ChainSpec` (safety) | |
| `HavalCoreProofs` | TLAPS proofs about `HavalCore` | |
| `ZeroCacheProofs` | TLAPS proofs about `ZeroCache`, and that it refines `ZeroSpec` | |
| `HavalOutProofs` | TLAPS proof of `OutputLength` | |

How the chain model abstracts the code:

- A primitive is a free function. The digest a close writes is the term
  `<<p, data>>`, with `DigestBytes[p]` meaningful bytes. This abstraction
  keeps exactly what the chain's correctness depends on: which primitive
  absorbed which bytes, and in which order.
- An uninitialised context holds the model value `Junk`. In `ZeroCache` it
  is `Garbage`, a context whose every field holds garbage.
- The contexts live in the frame `CtxOf(t)` of the calling thread.

The HAVAL modules are not abstract. They compute the real 32-bit values.
`HavalOps` uses `Bitwise` (and `Folds` through `SequencesExt`), which the
prover cannot use. `HavalTables`, `HavalTailor`, `HavalCore` and `HavalOut`
are kept free of both. `HavalCore` takes STEP as a parameter, so
`HavalCoreProofs` can reason about the two builds for every step function.
`HavalTailor` takes the 16-bit `&` and `|` as parameters, so
`HavalOutProofs` can reason about the layout of the output whatever they
compute. The runs give them `HavalOps`'s `STEP`, `BitAnd16` and `BitOr16`.

## Runs

| Run | Checks | Shows |
|---|---|---|
| `chain5` (`MC_HashChain5`) | `TypeOK`, `ChainLinked`, `ImplementsChainSpec` | With 2 threads, messages `<<>>`, `<<b0>>` and `<<b1,b0>>`, and the 5-step chain (panama used twice), each call's buffers are linked to their inputs. Each call returns the abstract chain hash of its own message (refinement of `ChainSpec`, including its `WF` on return). 38416 states. |
| `chain24` (`MC_HashChain24`) | `ChainLinked`, `ImplementsChainSpec` | The 24-step chain, with its short digests (20, 24, 32 and 48 bytes) and the reused whirlpool context, on one thread. |
| `zerocache5` (`MC_ZeroCache5`) | `CacheEquivalence`, `ImplementsZeroSpec` | One `fillz()` call, with inits that clear each field before storing it (`ClearFirst`). After `fillz()`, copying `z_<p>` gives a context equal to a fresh init. Every digest made from it equals the init one. The cache with its users refines `ZeroSpec`: a `Z<P>` copy is an `sph_<p>_init`, the `fillz()` stores are invisible, and a close digests only the bytes since the last set-up or close. 2409 states. |
| `zerocache_race` (`MC_ZeroCache5`, `MC_ZeroCacheRace.cfg`) | `CacheEquivalence`, `ImplementsZeroSpec` | `fillz()` has no once-guard (hashblock.h:25). Two warm-up calls run unsynchronised, each init stores two fields one at a time, only with their final values, and a thread copies as soon as one call has returned. The second call re-runs every init under the copies, but it stores only the values already there, so no copy ever sees a partly initialised snapshot and the refinement holds. 40881 states. |
| `zerocache_clear_race` (`MC_ZeroCache5`, `MC_ZeroCacheClearRace.cfg`) | `CacheEquivalence`, **violation expected** | The same race with inits that clear each field before storing it. TLC finds: `w1` completes, `w2` clears a field of `z_keccak`, and `t1` copies it. spec.md 4.2 and 5 ask that the warm-up run exactly once and that no reader see a partly initialised snapshot; the code does not enforce the first, so the second depends on how the inits store. |
| `havalcore` (`MC_HavalCore`) | `TypeOK`, `BuildsAgree`, `FMatchesPaper`, `PublishedDigests` | See below. |
| `havalout` (`MC_HavalOut`) | `OutputLength`, `TailoringKeepsBits` | See below. |

Details of the HAVAL runs:

- **`havalcore`**: for 3, 4 and 5 passes, the run checks a mixed block, the
  zero block and the padded empty messages.
  - The two builds agree after every one of the up to 160 steps.
  - The optimised F equals the paper's F on every step's arguments.
  - The words stay 32-bit: `SPH_T32` wraps.
  - The empty message gives the published HAVAL-128/3, HAVAL-256/4 and
    HAVAL-256/5 digests.
- **`havalout`**: for each of the sizes 128, 160, 192, 224 and 256, close
  writes exactly that many bits (proved for every chaining value, see
  below). The run places two one-bits anywhere in the
  words `haval_out` folds. Each bit then reaches its own output bit, so the
  tailoring masks partition the words.

Bounds:

- Two threads and three messages cover every interleaving that matters. The
  empty message goes through the `pblank` path, and a length-2 message is
  distinct from its prefix. The threads run concurrently through every pair
  of sph calls.
- Panama appears twice in the 5-step chain, so context reuse is exercised.
- The 24-step run has one thread, because its state space grows with K. Its
  point is the data flow through the short digests.
- `zerocache5` uses one field per init and one warm-up call: only the
  order of the statements and of the copies matters there. The race runs
  use two fields and two warm-up calls: that is the least that lets a copy
  fall between two stores of one init, and between two calls.
- The HAVAL runs are exhaustive over the listed inputs. A state is a real
  32-bit computation, not an abstraction.

Deadlock:

- The chain runs check deadlock. A thread can always call again.
- The HAVAL runs set `CHECK_DEADLOCK FALSE`, because a compression or a
  context ends.

## Fairness

`HashChain` assumes weak fairness of each thread's non-entry steps. `Hash9`
contains no lock, wait or loop that depends on other threads. A thread inside
the call is therefore always able to continue, and the scheduler runs it.
`Call` is not fair, because nothing forces a caller to hash again. This
fairness is what `ChainSpec`'s `WF` on `AReturn` needs. It is checked as part
of `ImplementsChainSpec`.

## Proofs

`HashChainProofs` proves the following with TLAPS, for every set of threads,
primitives and messages, every chain length `K >= 1` and every digest-size
table. The only assumption is `ChainAssumption`.

- **`TypeCorrect`**: `Spec => []TypeOK`.
- **`ChainLinkedHolds`**: `Spec => []ChainLinked`.

The inductive invariant is `Inv == TypeOK /\ ChainLinked`.

- `ChainLinked` needs `TypeOK` to know that `hash[t]` and `ctx[t]` are
  functions with the right domains.
- `NextInv` has one case per action.
- Lemma `OtherThread` shows that an action of thread `t` leaves every other
  thread's conjunct `LinkedAt(u)` alone. This holds because `CtxOf(t) = t`:
  the contexts are on the caller's stack.
- Thread `t`'s own conjunct is re-established from the action's assignments.

`HashChainRefinement` proves **`RefinesChainSpec`**:
`Spec => Abstract!ASafety`. The mapping is `busy <- pc # "idle"`,
`amsg <- msg` and `aresult <- result`. `Init` maps to `AInit`. `Call` maps to
`ACall`, `Return` to `AReturn`, and the sph calls to stuttering steps
(`StepRefines`). The argument for the return step runs as follows.

- `ChainLinked` says that in a returning call every buffer `hash[t][i]` is
  the digest of its step's input. So `hash[t]` solves the chain equation
  `ChainEq`.
- The solution is unique (`ChainEqUnique`). If two solutions differed, they
  would differ at a least step (`WFMin` with `NatLessThanWellFounded`). They
  agree on the step before it, so they agree at it too.
- `ChainBufs` is a recursive function, which TLAPS reads as a `CHOOSE` of a
  function satisfying its equation. `ChainBufsSolves` proves that the chosen
  function solves the equation, by giving `[i \in Steps0 |-> hash[t][i]]`
  as a witness.
- Hence `Trim(hash[t][K-1])` is `ChainHash(msg[t])` (`ReturnValue`).

The proof rests on `Inv` from `HashChainProofs`.

`HavalCoreProofs` proves **`BuildsAgreeHolds`**: `Spec => []BuildsAgree`
for every step function `StepOp`, message block, chaining value and number
of passes.

- Lemma `TablesAgree` does the real work. At STEP `j` of pass `p`, the word
  index and the constant of the unrolled pass equal those the
  small-footprint loop reads from `MPp` and `RKp`. For pass 1 the loop
  index is `8 * (j \div 8) + j % 8`. The lemma is checked table by table.
- The inductive invariant `IInv` holds the control state (`passes`, `pass`,
  `j`, `pc`) and `sU = sS`. Both builds apply the same step function to
  equal states, the same word and the same constant. `UPDATE_STATE` adds
  the same saved values to both.

`ZeroCacheProofs` proves **`CacheEquivalenceHolds`**:
`FillzWellFormed /\ ~ClearFirst` implies `Spec => []CacheEquivalence`. The proof holds for
every set of primitives, objects, warm-up calls, fields per init and
threads.

- The hypothesis `FillzWellFormed` says two things. Some statement of
  `fillz()` targets each object a `Z<P>` macro reads. Every statement on
  that object calls `sph_<p>_init`.
- `~ClearFirst` says every init stores each field once, with its final
  value. Lemma `FinalStep` reduces a `FillzStep` under it to
  `FillzStepFinal`. Without it the theorem is false: `zerocache_clear_race`
  is the counterexample.
- The inductive invariant `IInv` has three parts:
  - the type;
  - `ObjInv`: a field some warm-up call has stored keeps its init value,
    because every other store to that object, by any call, stores the same
    value;
  - `CtxInv`: every context in use and every digest start from `Fresh(p)`.
- `WarmedFresh` turns `ObjInv` into `z[ZSource[p]] = Fresh(p)` once a call
  has returned.
- `NextInv` has one lemma per action.

`ZeroCacheProofs` also proves, under the same hypotheses:

- **`RefinesZeroSpec`**: `Spec => ImplementsZeroSpec`. The mapping keeps
  `ctx` and `digest` and hides `z`, `fz` and `fw`. A `FillzStep` is a
  stutter. A `Clone` is `ASetUp`, because `Warmed` and `WarmedFresh` give
  `z[ZSource[p]] = Fresh(p)`. `Update` and `Close` are `AUpdate` and
  `AClose` (`CacheStepRefines`).

`HavalOutProofs` proves **`OutputLengthHolds`**: `Spec => []OutputLength`,
for every set of API sizes allowed by `ApiSizesAssumption` (a subset of
the `API(xxx, y)` instantiations of haval.c lines 322-336), every chaining
value the absorbed data may leave, and every `And16` and `Or16`.

- The inductive invariant `IInv` says that after init `olen = xxx >> 5`,
  and that a closed context's `dst` is `HavalOut(olen, s)`.
- `ApiOlenRange`: each allowed `xxx` gives `olen` in `4 .. 8` with
  `32 * olen = xxx`.
- `OutWordsLen`: each case of the switch writes `olen` words.
- `OutBytesLen`: four bytes per word.

What is only model-checked:

- **Liveness.** This covers the `WF` part of `ImplementsChainSpec`: every
  call returns. TLAPS does not prove liveness here, because it needs
  `ENABLED` and fairness reasoning beyond the installed backends. The safety
  part of the refinement is proved.
- **The bit-level HAVAL properties.** These are `TypeOK` and
  `PublishedDigests` of `havalcore`, `FMatchesPaper`, and
  `TailoringKeepsBits` of `havalout`.
  - They rest on what `STEP`, `F1..F5` and the mix functions compute, which
    is written with `Bitwise`. The proved modules take these operators as
    parameters, and a property about their values does not hold for every
    parameter.
  - The XOR and sum folds use `Folds`, whose operators are `RECURSIVE`.
  - Neither may be reached from a module with a theorem.
  - `HavalCore`'s `TypeOK` is in substance the claim that `STEP` wraps to
    32 bits. Stating it as an assumption on `StepOp` would quantify over
    every 256-bit state, which TLC cannot evaluate. The arithmetic of `SPH_T32` on 16-bit halves was also beyond
    the SMT backend in reasonable time.
  - These properties are checked exhaustively over the inputs the runs list.

## Not modelled

- The declarations and documentation of `sph_haval.h`.
- The other sph primitives, whose code is not in `src/`.
- `haval_helper.c`, which does buffering and padding and is not in `src/`.
  `HavalOut` abstracts the absorbed data to the chaining value it leaves.
- The caller of `fillz()`, which is not in `src/`. When a copy may be
  taken is modelled from spec.md 5: after some `fillz()` call has
  returned.
- The 24-step `fillz()` (hashblock.h lines 142-167) and its `Z<P>` macros (lines 170-192).
  Lines 165-166 initialise `z_lowgroestl` and `tiger2`, neither of which is
  declared, so that variant of `fillz()` does not compile, and nothing in
  `src/` expands these macros.
- The internals of `sph_<p>_init`, which are not in `src/`. The constant
  `ClearFirst` chooses between the two ways an init may store a context:
  each field once with its final value, or every field cleared first and
  then set. The model assumes that a store and a copy of one field do not
  tear. Memory ordering between threads is taken as sequentially
  consistent.
- The Qt splash screen and options model, `clientversion.h`, and the Debian
  packaging. These contain no state logic.

## Plan for later work

- `TailoringKeepsBits` for every chaining value. It needs `And16` and
  `Or16` to be bitwise, which would be stated as lemmas on bit positions of
  16-bit numbers.
