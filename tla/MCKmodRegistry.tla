--------------------------- MODULE MCKmodRegistry ---------------------------
(***************************************************************************)
(* Instances of KmodRegistry: two pages, both below 4 GiB. (A third page   *)
(* above it gives six times the states and takes three minutes.)           *)
(***************************************************************************)
EXTENDS KmodRegistry, TLC

Pages == 0..1
LowPages == {0, 1}
Interchangeable == Permutations(Files)
=============================================================================
