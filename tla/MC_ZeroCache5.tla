---------------------------- MODULE MC_ZeroCache5 ----------------------------
(* The cache of the 5-step variant (hashblock.h lines 20-35). *)
EXTENDS ZeroCache, TLC

CONSTANTS keccak512, cubehash512, panama, whirlpool,
          z_keccak, z_cubehash, z_panama, z_whirlpool, t1, b0

MCPrims == {keccak512, cubehash512, panama, whirlpool}

MCObjects == {z_keccak, z_cubehash, z_panama, z_whirlpool}

MCFillz ==
    << [init |-> keccak512, target |-> z_keccak],
       [init |-> cubehash512, target |-> z_cubehash],
       [init |-> panama, target |-> z_panama],
       [init |-> whirlpool, target |-> z_whirlpool] >>

MCZSource ==
    (keccak512 :> z_keccak) @@ (cubehash512 :> z_cubehash)
      @@ (panama :> z_panama) @@ (whirlpool :> z_whirlpool)
=============================================================================
