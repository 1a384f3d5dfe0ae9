----------------------------- MODULE MC_HavalOut -----------------------------
EXTENDS HavalOut, HavalOps

(* API(128, y) .. API(256, y) *)
MCApiSizes == {128, 160, 192, 224, 256}
=============================================================================
