-------------------------- MODULE MCKmodResurrect --------------------------
(* Instances of KmodResurrect for TLC.                                     *)
EXTENDS KmodResurrect, TLC

CONSTANTS s1, s2, b1, b2

\* Two sessions on two queue IDs of one controller.
TwoQids == s1 :> <<b1, 1>> @@ s2 :> <<b1, 2>>

\* Two sessions on one queue ID of two controllers (Bdfs = {b1, b2}, Qids = {1}):
\* seven times the states, about ten minutes.
TwoControllers == s1 :> <<b1, 1>> @@ s2 :> <<b2, 1>>
=============================================================================
