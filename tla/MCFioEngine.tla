---------------------------- MODULE MCFioEngine ----------------------------
(* Small instances of FioEngine for TLC.                                   *)
EXTENDS FioEngine

MCCommands == [op : 0 .. MaxPosts - 1, slot : 0 .. RingSize - 1]
============================================================================
