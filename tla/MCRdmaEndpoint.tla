--------------------------- MODULE MCRdmaEndpoint ---------------------------
(* Small instances of RdmaEndpoint for TLC.                                *)
EXTENDS RdmaEndpoint

Run(p, depth, kernel, batch, iterations) ==
    [provider |-> p, depth |-> depth, cqDepth |-> 4,
     kernel |-> kernel, batch |-> batch, iterations |-> iterations]

\* bnxt and ernic cannot tell a full ring from an empty one: their callers keep one work
\* request free.  ionic and mlx5 callers post more than the ring holds.
MCConfigs ==
    {Run("bnxt", 12, "single", 1, 9), Run("bnxt", 12, "batch", 3, 8), Run("bnxt", 12, "caller", 3, 8),
     Run("ernic", 4, "single", 1, 9), Run("ernic", 4, "caller", 3, 8),
     Run("ionic", 4, "single", 1, 9), Run("ionic", 4, "batch", 3, 8), Run("ionic", 4, "caller", 7, 9),
     Run("mlx5", 4, "single", 1, 4), Run("mlx5", 4, "batch", 3, 3), Run("mlx5", 4, "caller", 9, 9)}
=============================================================================
