---------------------------- MODULE MC_HashChain5 ----------------------------
(* The 5-step variant of Hash9 (hashblock.h, first version): panama,        *)
(* whirlpool, keccak512, panama, cubehash512, panama's context reused.      *)
EXTENDS HashChain, TLC

CONSTANTS panama, whirlpool, keccak512, cubehash512, b0, b1

MCPrims == {panama, whirlpool, keccak512, cubehash512}
MCSteps == [i \in 0 .. 4 |-> <<panama, whirlpool, keccak512, panama, cubehash512>>[i + 1]]
MCDigestBytes == (panama :> 32) @@ (whirlpool :> 64) @@ (keccak512 :> 64) @@ (cubehash512 :> 64)
MCMessages == {<<>>, <<b0>>, <<b1, b0>>}
=============================================================================
