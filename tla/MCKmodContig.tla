--------------------------- MODULE MCKmodContig ---------------------------
(* An instance of KmodContig for TLC: two threads share a file, a third    *)
(* works on its own.                                                       *)
EXTENDS KmodContig, TLC

CONSTANTS t1, t2, t3, f1, f2

SharedFile == t1 :> f1 @@ t2 :> f1 @@ t3 :> f2
=============================================================================
