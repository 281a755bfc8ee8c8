------------------------------ MODULE MCRdmaRun ------------------------------
(* A server and a client, or one process in loopback mode, for each        *)
(* provider; one failing call anywhere; two rounds of ping-pong.           *)
EXTENDS RdmaRun, RdmaTopology, BnxtSizing, RdmaLibs

MCNodes == {Server, Client}

Provider(p, loop) ==
  [requested |-> p, libs |-> {p}, loopback |-> loop,
   dmabuf |-> {"scq buf", "rcq buf"}, defaultDb |-> TRUE, sharedDbr |-> loop,
   uar |-> TRUE, bridge |-> loop]

(* Each provider in loopback mode, a bnxt device without a default         *)
(* doorbell region on a host that exports one CQ buffer of two, a host     *)
(* with two libraries, and one with none; two nodes with mlx5 and with     *)
(* ernic, which differ in the byte order of the key and in what a failed   *)
(* write does to the kernel.                                               *)
MCConfigs ==
  {Provider(p, TRUE) : p \in {"bnxt", "mlx5", "ionic", "ernic"}}
  \cup {Provider("mlx5", FALSE), Provider("ernic", FALSE)}
  \cup {[Provider("bnxt", TRUE) EXCEPT !.defaultDb = FALSE, !.dmabuf = {"scq buf"}],
        [Provider("ernic", TRUE) EXCEPT !.uar = FALSE, !.bridge = FALSE],
        [Provider("mlx5", TRUE) EXCEPT !.requested = "unknown", !.libs = {"ionic", "mlx5"},
                                       !.sharedDbr = FALSE],
        [Provider("mlx5", TRUE) EXCEPT !.libs = {}]}

(* Queue sizes at and around the powers of two.                            *)
MCSizes == 0 .. 33 \cup {2^k + d : k \in 6 .. 12, d \in {-1, 0, 1}}
=============================================================================
