---------------------------- MODULE MC_HashChain24 ---------------------------
(* The 24-step variant of Hash9 (hashblock.h, second version): 23          *)
(* primitives, whirlpool1's context reused at steps 0 and 21; ripemd160,   *)
(* tiger, tiger2, haval256_5, cubehash384 and panama write less than the   *)
(* 64 bytes the next step reads, so that step also reads the zero tail.    *)
EXTENDS HashChain, TLC

CONSTANTS whirlpool1, bmw, groestl, echo, hamsi, fugue, shabal, jh, keccak,
          skein, luffa, tiger, cubehash, panama, sha512, shavite, simd, blake,
          ripemd160, haval256_5, lowcube, tiger2, whirlpool, b0, b1

MCStepList ==
    <<whirlpool1, bmw, groestl, echo, hamsi, fugue, shabal, jh, keccak, skein,
      luffa, tiger, cubehash, panama, sha512, shavite, simd, blake, ripemd160,
      haval256_5, lowcube, whirlpool1, tiger2, whirlpool>>

MCSteps == [i \in 0 .. 23 |-> MCStepList[i + 1]]

MCPrims == {MCStepList[i] : i \in 1 .. 24}

(* Output sizes in bytes: 512-bit primitives 64, cubehash384 48, panama   *)
(* and haval256_5 32, tiger and tiger2 24, ripemd160 20.                  *)
MCDigestBytes ==
    [p \in MCPrims |->
        CASE p \in {panama, haval256_5} -> 32
          [] p \in {tiger, tiger2} -> 24
          [] p = ripemd160 -> 20
          [] p = lowcube -> 48
          [] OTHER -> 64]

MCMessages == {<<>>, <<b0>>, <<b1, b0>>}
=============================================================================
