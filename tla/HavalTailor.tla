----------------------------- MODULE HavalTailor -----------------------------
(***************************************************************************)
(* The output tailoring of HAVAL, haval_out (src/src/hash/haval.c), and   *)
(* the rotations and shift on sph_u32 it and STEP use.  The 16-bit & and  *)
(* | are the constant operators And16 and Or16, so that what is proved    *)
(* about the layout of the output holds whatever they compute; HavalOps   *)
(* gives them Bitwise's & and |.                                          *)
(***************************************************************************)
EXTENDS HavalTables

CONSTANTS
    And16(_, _),   \* & on 16-bit halves
    Or16(_, _)     \* | on 16-bit halves

(* & and | on sph_u32, half by half. *)
a \sqcap b == <<And16(a[1], b[1]), And16(a[2], b[2])>>
a \sqcup b == <<Or16(a[1], b[1]), Or16(a[2], b[2])>>

(* SPH_ROTR32(x, n) for 0 <= n < 32; a rotation by 16 or more first      *)
(* swaps the halves.                                                       *)
RotrHalves(x, n) ==
    << x[1] \div 2^n + (x[2] % 2^n) * 2^(16 - n),
       x[2] \div 2^n + (x[1] % 2^n) * 2^(16 - n) >>
ROTR32(x, n) == IF n >= 16 THEN RotrHalves(<<x[2], x[1]>>, n - 16)
                           ELSE RotrHalves(x, n)

(* Output tailoring, haval_out (haval.c).  Masks are the code's SPH_C32   *)
(* constants as <<high, low>> halves.                                     *)

(* SPH_ROTL32 and the logical shift >> on sph_u32. *)
ROTL32(x, n) == ROTR32(x, (32 - n) % 32)
ShR32(x, k) ==
    IF k >= 16 THEN <<0, x[1] \div 2^(k - 16)>>
               ELSE <<x[1] \div 2^k, x[2] \div 2^k + (x[1] % 2^k) * 2^(16 - k)>>

(* mix128: byte 0 of a0, byte 1 of a1, byte 2 of a2, byte 3 of a3,       *)
(* rotated left by n when n > 0.                                          *)
mix128(a0, a1, a2, a3, n) ==
    LET tmp == (((a0 \sqcap <<0, 255>>) \sqcup (a1 \sqcap <<0, 65280>>))
                  \sqcup (a2 \sqcap <<255, 0>>)) \sqcup (a3 \sqcap <<65280, 0>>)
    IN  IF n > 0 THEN ROTL32(tmp, n) ELSE tmp

(* mix160_0 with the mask of x7 one bit too wide (0x7F). *)
mix160_0WideMask(x5, x6, x7) ==
    ROTL32(((x5 \sqcap <<504, 0>>) \sqcup (x6 \sqcap <<65024, 0>>)) \sqcup (x7 \sqcap <<0, 127>>), 13)

mix160_0(x5, x6, x7) ==
    ROTL32(((x5 \sqcap <<504, 0>>) \sqcup (x6 \sqcap <<65024, 0>>)) \sqcup (x7 \sqcap <<0, 63>>), 13)
mix160_1(x5, x6, x7) ==
    ROTL32(((x5 \sqcap <<65024, 0>>) \sqcup (x6 \sqcap <<0, 63>>)) \sqcup (x7 \sqcap <<0, 4032>>), 7)
mix160_2(x5, x6, x7) ==
    ((x5 \sqcap <<0, 63>>) \sqcup (x6 \sqcap <<0, 4032>>)) \sqcup (x7 \sqcap <<7, 61440>>)
mix160_3(x5, x6, x7) ==
    ShR32(((x5 \sqcap <<0, 4032>>) \sqcup (x6 \sqcap <<7, 61440>>)) \sqcup (x7 \sqcap <<504, 0>>), 6)
mix160_4(x5, x6, x7) ==
    ShR32(((x5 \sqcap <<7, 61440>>) \sqcup (x6 \sqcap <<504, 0>>)) \sqcup (x7 \sqcap <<65024, 0>>), 12)

mix192_0(x6, x7) == ROTL32((x6 \sqcap <<64512, 0>>) \sqcup (x7 \sqcap <<0, 31>>), 6)
mix192_1(x6, x7) == (x6 \sqcap <<0, 31>>) \sqcup (x7 \sqcap <<0, 992>>)
mix192_2(x6, x7) == ShR32((x6 \sqcap <<0, 992>>) \sqcup (x7 \sqcap <<0, 64512>>), 5)
mix192_3(x6, x7) == ShR32((x6 \sqcap <<0, 64512>>) \sqcup (x7 \sqcap <<31, 0>>), 10)
mix192_4(x6, x7) == ShR32((x6 \sqcap <<31, 0>>) \sqcup (x7 \sqcap <<992, 0>>), 16)
mix192_5(x6, x7) == ShR32((x6 \sqcap <<992, 0>>) \sqcup (x7 \sqcap <<64512, 0>>), 21)

(* The words haval_out writes for output length olen (in 32-bit words)   *)
(* from s0..s7; the switch has no default, so any other olen writes       *)
(* nothing.                                                               *)
HavalOutWords(olen, s) ==
    CASE olen = 4 ->
            << Add32(s[0], mix128(s[7], s[4], s[5], s[6], 24)),
               Add32(s[1], mix128(s[6], s[7], s[4], s[5], 16)),
               Add32(s[2], mix128(s[5], s[6], s[7], s[4], 8)),
               Add32(s[3], mix128(s[4], s[5], s[6], s[7], 0)) >>
      [] olen = 5 ->
            << Add32(s[0], mix160_0(s[5], s[6], s[7])),
               Add32(s[1], mix160_1(s[5], s[6], s[7])),
               Add32(s[2], mix160_2(s[5], s[6], s[7])),
               Add32(s[3], mix160_3(s[5], s[6], s[7])),
               Add32(s[4], mix160_4(s[5], s[6], s[7])) >>
      [] olen = 6 ->
            << Add32(s[0], mix192_0(s[6], s[7])), Add32(s[1], mix192_1(s[6], s[7])),
               Add32(s[2], mix192_2(s[6], s[7])), Add32(s[3], mix192_3(s[6], s[7])),
               Add32(s[4], mix192_4(s[6], s[7])), Add32(s[5], mix192_5(s[6], s[7])) >>
      [] olen = 7 ->
            << Add32(s[0], ShR32(s[7], 27) \sqcap <<0, 31>>),
               Add32(s[1], ShR32(s[7], 22) \sqcap <<0, 31>>),
               Add32(s[2], ShR32(s[7], 18) \sqcap <<0, 15>>),
               Add32(s[3], ShR32(s[7], 13) \sqcap <<0, 31>>),
               Add32(s[4], ShR32(s[7], 9) \sqcap <<0, 15>>),
               Add32(s[5], ShR32(s[7], 4) \sqcap <<0, 31>>),
               Add32(s[6], s[7] \sqcap <<0, 15>>) >>
      [] olen = 8 -> [k \in 1 .. 8 |-> s[k - 1]]
      [] OTHER -> << >>

(* sph_enc32le: the four bytes of a word, least significant first. *)
Enc32le(w) == <<w[2] % 256, w[2] \div 256, w[1] % 256, w[1] \div 256>>

(* The bytes haval_out writes to dst: sph_enc32le(buf + 4 * k, word k), *)
(* byte i of the output being byte (i - 1) % 4 of word (i - 1) \div 4.   *)
HavalOut(olen, s) ==
    LET ws == HavalOutWords(olen, s)
    IN  [i \in 1 .. 4 * Len(ws) |-> Enc32le(ws[(i - 1) \div 4 + 1])[((i - 1) % 4) + 1]]

=============================================================================
