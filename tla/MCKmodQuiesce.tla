-------------------------- MODULE MCKmodQuiesce --------------------------
(* Instances of KmodQuiesce for TLC.                                       *)
EXTENDS KmodQuiesce, TLC

CONSTANTS t1, t2, t3, f1, f2, b1

\* Two threads share a file, a third has its own.
SharedFile == t1 :> f1 @@ t2 :> f1 @@ t3 :> f2

\* All ask for the whole queue of b1 or for an hctx of their own; t1 also for a
\* qid past the topology.
OwnHctx == t1 :> {<<b1, 0>>, <<b1, 1>>, <<b1, 4>>} @@ t2 :> {<<b1, 0>>, <<b1, 3>>} @@ t3 :> {<<b1, 0>>, <<b1, 2>>}
=============================================================================
