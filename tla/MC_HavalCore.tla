---------------------------- MODULE MC_HavalCore ----------------------------
(* Both builds of the compression, for 3, 4 and 5 passes, from the        *)
(* initial chaining value of haval_init, on a block of distinct words,    *)
(* the all-zero block, and the single padded block of the empty message   *)
(* for each published test vector below.                                  *)
EXTENDS HavalCore, HavalOps

(* The one block of the empty message after HAVAL padding: the 0x01 pad   *)
(* byte, then in bytes 118-119 the version 1, the pass count and the      *)
(* output length in bits, and a zero bit count.                           *)
PaddedEmpty(n, olen) ==
    LET bits == 32 * olen
    IN  [i \in 0 .. 31 |->
            CASE i = 0  -> <<0, 1>>
              [] i = 29 -> <<(bits \div 4) * 256 + (bits % 4) * 64 + 8 * n + 1, 0>>
              [] OTHER  -> <<0, 0>>]

(* Published digests of the empty message: HAVAL-128/3, HAVAL-256/4 and   *)
(* HAVAL-256/5.                                                           *)
Vectors == {
    [passes |-> 3, olen |-> 4,
     digest |-> <<198, 143, 57, 145, 63, 144, 31, 61, 223, 68, 199, 7, 53, 122, 125, 112>>],
    [passes |-> 4, olen |-> 8,
     digest |-> <<201, 43, 46, 35, 9, 30, 128, 227, 117, 218, 220, 226, 105, 130, 72, 45,
                  25, 123, 26, 37, 33, 190, 130, 218, 129, 159, 140, 162, 197, 121, 185, 155>>],
    [passes |-> 5, olen |-> 8,
     digest |-> <<190, 65, 123, 180, 221, 92, 251, 118, 199, 18, 111, 79, 142, 235, 21, 83,
                  164, 73, 3, 147, 7, 177, 163, 205, 69, 29, 191, 220, 15, 187, 227, 48>>] }

MCBlocks == { [i \in 0 .. 31 |-> <<(i * 40503 + 291) % 2^16, (i * 31161 + 17767) % 2^16>>],
              [i \in 0 .. 31 |-> <<0, 0>>] }
            \cup { PaddedEmpty(v.passes, v.olen) : v \in Vectors }

MCVals == { [k \in 0 .. 7 |-> HavalIV[k + 1]] }

(* The compression of the padded empty message from haval_init's value,   *)
(* tailored by haval_out, gives the published HAVAL digests: a check of    *)
(* the passes, the boolean functions, their permutations, the step and    *)
(* the tailoring against the algorithm's reference values.                *)
PublishedDigests ==
    \A v \in Vectors :
        (pc = "done" /\ passes = v.passes /\ X = PaddedEmpty(v.passes, v.olen))
            => HavalOut(v.olen, sU) = v.digest

(* The optimised boolean functions the code uses are the functions of     *)
(* the reference paper: on the arguments the next STEP gives FPn_p, Fp    *)
(* and its paper form agree on all 32 bits.                               *)
FMatchesPaper ==
    (pc = "core" /\ pass <= passes) =>
        LET a == PhiArgs(passes, pass, Regs(sU, j))
        IN  Fsel(pass, a) = FselPaper(pass, a)
=============================================================================
