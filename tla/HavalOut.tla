------------------------------ MODULE HavalOut ------------------------------
(***************************************************************************)
(* A HAVAL context from its init to its close (src/src/hash/haval.c): the *)
(* API(xxx, y) init function calls haval_init(cc, xxx >> 5, y), the       *)
(* message is absorbed by the helper's compressions, and close ends in    *)
(* haval_out, which folds the state words s_olen .. s7 into the olen      *)
(* words it writes.  The absorbed data is abstracted to the chaining      *)
(* value it leaves: two one bits among the words haval_out folds, the     *)
(* kept words zero, so that every bit the tailoring moves can be traced.  *)
(***************************************************************************)
EXTENDS HavalTailor, FiniteSets

CONSTANT ApiSizes   \* the xxx of the API(xxx, y) instantiations

(* haval.c instantiates API(xxx, y) for xxx = 128, 160, 192, 224, 256   *)
(* only (lines 322-336).                                                 *)
ASSUME ApiSizesAssumption == ApiSizes \subseteq {128, 160, 192, 224, 256}

VARIABLES
    api,   \* xxx of the context's API functions
    olen,  \* sc->olen
    s,     \* sc->s0 .. sc->s7
    dst,   \* the bytes close has written to dst
    pc     \* "new", "open" (after init), "full" (data absorbed), "closed"

vars == <<api, olen, s, dst, pc>>

(* The output length in words, as the init of API(xxx, y) computes it,   *)
(* had it shifted by 4.                                                  *)
ApiOlenShift4(xxx) == xxx \div 16

(* xxx >> 5 *)
ApiOlen(xxx) == xxx \div 32

(* The word with only bit i set, and the state with bits a and b set,   *)
(* bit number 32 * k + i being bit i of s_k.                             *)
Bit32(i) == IF i < 16 THEN <<0, 2^i>> ELSE <<2^(i - 16), 0>>
BitIn(a, k) == IF a \div 32 = k THEN Bit32(a % 32) ELSE <<0, 0>>
ProbeState(a, b) == [k \in 0 .. 7 |-> <<BitIn(a, k)[1] + BitIn(b, k)[1],
                                        BitIn(a, k)[2] + BitIn(b, k)[2]>>]

(* The state bits haval_out folds into the output for olen (for olen 8,  *)
(* which writes s0..s7 as they are, the bits of s7).                     *)
FoldedBits(n) == IF n < 8 THEN 32 * n .. 255 ELSE 224 .. 255

Probes(n) ==
    UNION { {ProbeState(a, b) : b \in {c \in FoldedBits(n) : c > a}} : a \in FoldedBits(n) }

(* The one bits of a state (bit i of half h of s_k) and of a byte string. *)
StateOnes(st) ==
    Cardinality({x \in (0 .. 7) \X (1 .. 2) \X (0 .. 15) : (st[x[1]][x[2]] \div 2^x[3]) % 2 = 1})
BytesOnes(bytes) ==
    Cardinality({x \in (DOMAIN bytes) \X (0 .. 7) : (bytes[x[1]] \div 2^x[2]) % 2 = 1})

Init ==
    /\ api \in ApiSizes
    /\ olen = 0
    /\ s = [k \in 0 .. 7 |-> <<0, 0>>]
    /\ dst = << >>
    /\ pc = "new"

(* sph_haval<xxx>_<y>_init: haval_init(cc, xxx >> 5, y). *)
InitCtx ==
    /\ pc = "new"
    /\ olen' = ApiOlen(api)
    /\ s' = [k \in 0 .. 7 |-> HavalIV[k + 1]]
    /\ pc' = "open"
    /\ UNCHANGED <<api, dst>>

(* The message's compressions leave the chaining value v. *)
Absorb(v) ==
    /\ pc = "open"
    /\ s' = v
    /\ pc' = "full"
    /\ UNCHANGED <<api, olen, dst>>

(* sph_haval<xxx>_<y>_close ends in haval_out(sc, dst). *)
Close ==
    /\ pc = "full"
    /\ dst' = HavalOut(olen, s)
    /\ pc' = "closed"
    /\ UNCHANGED <<api, olen, s>>

Next ==
    \/ InitCtx
    \/ pc = "open" /\ \E v \in Probes(olen) : Absorb(v)
    \/ Close

(* A context's life ends at close. *)
Spec == Init /\ [][Next]_vars

-----------------------------------------------------------------------------
(* Properties *)

(* The close of API(xxx, y) writes exactly xxx bits: the olen the init    *)
(* derives from xxx is one haval_out's switch has a case for, and that    *)
(* case writes olen words.                                                *)
OutputLength == pc = "closed" => Len(dst) * 8 = api

(* The tailoring loses and merges no bit: every one bit of the folded     *)
(* words reaches its own output bit, so the output has as many one bits   *)
(* as the state (the masks of each mix partition the words and the        *)
(* rotations and shifts keep the parts apart).                            *)
TailoringKeepsBits == pc = "closed" => BytesOnes(dst) = StateOnes(s)
=============================================================================
