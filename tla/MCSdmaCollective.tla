------------------------- MODULE MCSdmaCollective -------------------------
(***************************************************************************)
(* Two sizes of the sweep, after one that is skipped; three ranks where    *)
(* the slots of the peers differ, two for the programs with a self-copy.   *)
(***************************************************************************)
EXTENDS SdmaCollective

Program(c, t, v, n) == [coll |-> c, deviceTriggered |-> t, validate |-> v, nranks |-> n]

MCConfigs ==
    {Program("allgather", FALSE, TRUE, 3), Program("allgather", TRUE, TRUE, 3),
     Program("alltoall", FALSE, TRUE, 2), Program("alltoall", TRUE, TRUE, 2),
     Program("alltoall", FALSE, FALSE, 2)}
============================================================================
