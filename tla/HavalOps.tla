------------------------------ MODULE HavalOps -------------------------------
(***************************************************************************)
(* The bit-level operators of HAVAL (src/src/hash/haval.c and the macros *)
(* of sph_haval.h, src/unnamed/part_000): &, |, ^ and ~ on 32-bit words, *)
(* the boolean functions F1..F5 with their phi permutations and STEP.     *)
(* The words, the addition and the tables of both builds are in           *)
(* HavalTables; the rotations and the output tailoring of haval_out, in   *)
(* HavalTailor, which a model checking run gives BitAnd16 and BitOr16.    *)
(***************************************************************************)
EXTENDS HavalTailor, SequencesExt, Bitwise

(* The 16-bit & and | HavalTailor is given, and ^ and ~ on sph_u32, half *)
(* by half.                                                               *)
BitAnd16(a, b) == a & b
BitOr16(a, b) == a | b
Xor32(a, b) == <<a[1] ^^ b[1], a[2] ^^ b[2]>>
Not32(a) == <<2^16 - 1 - a[1], 2^16 - 1 - a[2]>>

XorAll(seq) == FoldLeft(Xor32, <<0, 0>>, seq)

Sum32(seq) == FoldLeft(Add32, <<0, 0>>, seq)

(* The boolean functions as the code computes them. *)
F1(x6, x5, x4, x3, x2, x1, x0) ==
    XorAll(<<x1 \sqcap Xor32(x0, x4), x2 \sqcap x5, x3 \sqcap x6, x0>>)

F2(x6, x5, x4, x3, x2, x1, x0) ==
    XorAll(<<x2 \sqcap XorAll(<<x1 \sqcap Not32(x3), x4 \sqcap x5, x6, x0>>),
             x4 \sqcap Xor32(x1, x5), x3 \sqcap x5, x0>>)

F3(x6, x5, x4, x3, x2, x1, x0) ==
    XorAll(<<x3 \sqcap XorAll(<<x1 \sqcap x2, x6, x0>>), x1 \sqcap x4, x2 \sqcap x5, x0>>)

(* F4 with the complement of x2 lost. *)
F4NoNot(x6, x5, x4, x3, x2, x1, x0) ==
    XorAll(<<x3 \sqcap XorAll(<<x1 \sqcap x2, x4 \sqcup x6, x5>>),
             x4 \sqcap XorAll(<<x2 \sqcap x5, x1, x6, x0>>), x2 \sqcap x6, x0>>)

F4(x6, x5, x4, x3, x2, x1, x0) ==
    XorAll(<<x3 \sqcap XorAll(<<x1 \sqcap x2, x4 \sqcup x6, x5>>),
             x4 \sqcap XorAll(<<Not32(x2) \sqcap x5, x1, x6, x0>>), x2 \sqcap x6, x0>>)

F5(x6, x5, x4, x3, x2, x1, x0) ==
    XorAll(<<x0 \sqcap Not32(XorAll(<<(x1 \sqcap x2) \sqcap x3, x5>>)),
             x1 \sqcap x4, x2 \sqcap x5, x3 \sqcap x6>>)

(* The "basic definition from the reference paper" the code keeps in     *)
(* comments above each optimised form.                                    *)
F1Paper(x6, x5, x4, x3, x2, x1, x0) ==
    XorAll(<<x1 \sqcap x4, x2 \sqcap x5, x3 \sqcap x6, x0 \sqcap x1, x0>>)
F2Paper(x6, x5, x4, x3, x2, x1, x0) ==
    XorAll(<<(x1 \sqcap x2) \sqcap x3, (x2 \sqcap x4) \sqcap x5, x1 \sqcap x2, x1 \sqcap x4, x2 \sqcap x6,
             x3 \sqcap x5, x4 \sqcap x5, x0 \sqcap x2, x0>>)
F3Paper(x6, x5, x4, x3, x2, x1, x0) ==
    XorAll(<<(x1 \sqcap x2) \sqcap x3, x1 \sqcap x4, x2 \sqcap x5, x3 \sqcap x6, x0 \sqcap x3, x0>>)
F4Paper(x6, x5, x4, x3, x2, x1, x0) ==
    XorAll(<<(x1 \sqcap x2) \sqcap x3, (x2 \sqcap x4) \sqcap x5, (x3 \sqcap x4) \sqcap x6, x1 \sqcap x4,
             x2 \sqcap x6, x3 \sqcap x4, x3 \sqcap x5, x3 \sqcap x6, x4 \sqcap x5, x4 \sqcap x6,
             x0 \sqcap x4, x0>>)
F5Paper(x6, x5, x4, x3, x2, x1, x0) ==
    XorAll(<<x1 \sqcap x4, x2 \sqcap x5, x3 \sqcap x6, ((x0 \sqcap x1) \sqcap x2) \sqcap x3, x0 \sqcap x5, x0>>)

(* Fp applied to the argument list a = <<a6, ..., a0>>. *)
Fsel(p, a) ==
    CASE p = 1 -> F1(a[1], a[2], a[3], a[4], a[5], a[6], a[7])
      [] p = 2 -> F2(a[1], a[2], a[3], a[4], a[5], a[6], a[7])
      [] p = 3 -> F3(a[1], a[2], a[3], a[4], a[5], a[6], a[7])
      [] p = 4 -> F4(a[1], a[2], a[3], a[4], a[5], a[6], a[7])
      [] p = 5 -> F5(a[1], a[2], a[3], a[4], a[5], a[6], a[7])

FselPaper(p, a) ==
    CASE p = 1 -> F1Paper(a[1], a[2], a[3], a[4], a[5], a[6], a[7])
      [] p = 2 -> F2Paper(a[1], a[2], a[3], a[4], a[5], a[6], a[7])
      [] p = 3 -> F3Paper(a[1], a[2], a[3], a[4], a[5], a[6], a[7])
      [] p = 4 -> F4Paper(a[1], a[2], a[3], a[4], a[5], a[6], a[7])
      [] p = 5 -> F5Paper(a[1], a[2], a[3], a[4], a[5], a[6], a[7])

(* Phi with the first two arguments of FP3_1 exchanged. *)
PhiSwapped(n, p) ==
    CASE n = 3 -> << <<0, 1, 3, 5, 6, 2, 4>>, <<4, 2, 1, 0, 5, 3, 6>>,
                     <<6, 1, 2, 3, 4, 5, 0>> >>[p]
      [] n = 4 -> << <<2, 6, 1, 4, 5, 3, 0>>, <<3, 5, 2, 0, 1, 6, 4>>,
                     <<1, 4, 3, 6, 0, 2, 5>>, <<6, 4, 0, 5, 2, 1, 3>> >>[p]
      [] n = 5 -> << <<3, 4, 1, 0, 5, 2, 6>>, <<6, 2, 1, 0, 3, 4, 5>>,
                     <<2, 6, 0, 4, 3, 1, 5>>, <<1, 5, 3, 2, 0, 4, 6>>,
                     <<2, 5, 0, 6, 4, 3, 1>> >>[p]

(* FPn_p: which of x6..x0 goes to each argument of Fp (the phi           *)
(* permutation of pass p out of n).                                       *)
Phi(n, p) ==
    CASE n = 3 -> << <<1, 0, 3, 5, 6, 2, 4>>, <<4, 2, 1, 0, 5, 3, 6>>,
                     <<6, 1, 2, 3, 4, 5, 0>> >>[p]
      [] n = 4 -> << <<2, 6, 1, 4, 5, 3, 0>>, <<3, 5, 2, 0, 1, 6, 4>>,
                     <<1, 4, 3, 6, 0, 2, 5>>, <<6, 4, 0, 5, 2, 1, 3>> >>[p]
      [] n = 5 -> << <<3, 4, 1, 0, 5, 2, 6>>, <<6, 2, 1, 0, 3, 4, 5>>,
                     <<2, 6, 0, 4, 3, 1, 5>>, <<1, 5, 3, 2, 0, 4, 6>>,
                     <<2, 5, 0, 6, 4, 3, 1>> >>[p]

(* The arguments of FPn_p for the registers x = [k |-> xk]. *)
PhiArgs(n, p, x) == [k \in 1 .. 7 |-> x[Phi(n, p)[k]]]

FP(n, p, x) == Fsel(p, PhiArgs(n, p, x))

(* Step j of a pass writes register (7 - j) % 8: the k-th argument xk of *)
(* STEP is s((k - j) % 8), as the rotated register lists of PASSy spell   *)
(* out.                                                                   *)
Regs(s, j) == [k \in 0 .. 7 |-> s[(k - j) % 8]]

(* STEP(n, p, x7, ..., x0, w, c) *)
STEP(n, p, s, j, w, c) ==
    LET x == Regs(s, j)
    IN  [s EXCEPT ![(7 - j) % 8] =
            Sum32(<<ROTR32(FP(n, p, x), 7), ROTR32(x[7], 11), w, c>>)]

=============================================================================
