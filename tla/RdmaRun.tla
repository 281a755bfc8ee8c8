------------------------------- MODULE RdmaRun -------------------------------
(***************************************************************************)
(* rdma_ep's run(): one process in loopback mode, or a server and a client *)
(* that exchange queue pair numbers and keys over TCP, connect, check one  *)
(* RDMA write and play ping-pong from GPU kernels.  Each process owns a    *)
(* Backend (module RdmaBackend).                                           *)
(*                                                                         *)
(* External: TCP keeps the bytes of one direction in order and tells a     *)
(* receiver that its peer has closed; a NIC places the parts of a write in *)
(* any order, completes it when all are placed, and refuses it when the    *)
(* destination has no connected queue pair or the key is not a registered  *)
(* one.  ROCm's HIP may fail any allocation, copy or launch.               *)
(***************************************************************************)
EXTENDS RdmaBackend

CONSTANTS
  Server, Client,  \* the two roles of the two-node test
  Iters            \* ppIters: the rounds of the ping-pong

ASSUME ItersAssumption == Iters \in Nat \ {0}

VARIABLES
  stage,    \* "init", "run", "cleanup" or "done"
  pos,      \* the next step of Plan
  sock,     \* tcp_fd: "none", "listen", "open", "closed"
  chan,     \* what TCP holds for each process
  remote,   \* remote_msg: the peer's ExchangeMsg
  rkey,     \* rkey_ of the QueuePair, on the host and on the GPU
  wire,     \* the parts of each process's write that are not yet placed
  mem,      \* the data region and the ping-pong receive buffer
  kernel,   \* "idle", "post", "quiet", "spin": the ping-pong kernel
  round,    \* iter of that kernel
  errors,   \* processes whose kernel counted a mismatch
  bad,      \* processes that return an error
  late      \* processes whose freed buffer a write was placed in

ctl == <<stage, pos, bad>>
tcp == <<sock, chan, remote>>
gpu == <<kernel, round, errors, rkey>>
nic == <<wire, mem, late>>
runVars == <<ctl, tcp, gpu, nic>>
allVars == <<backendVars, runVars>>

Peer(n) == IF config_[n].loopback THEN n
           ELSE CHOOSE m \in {Server, Client} : m # n

\* tcp_sync: one byte each way.
TcpSync == << "send", "recv" >>

LoopbackPlan == << "alloc", "register", "launch", "quiet" >>

\* Mutant: the client writes as soon as its own side is connected.
TwoNodePlanNoSync(n) ==
  << "alloc", "register", "dial", "send", "recv", "connect", "rkey" >>
  \o (IF n = Client THEN << "launch", "quiet" >> ELSE <<>>)
  \o TcpSync
  \o (IF n = Server THEN << "verify" >> ELSE <<>>)
  \o TcpSync \o << "reset", "counters" >> \o TcpSync
  \o << "pingpong", "check", "last send", "last recv" >>

\* Mutant: the receive buffer is cleared after the last sync before the
\* kernels.
TwoNodePlanLateReset(n) ==
  << "alloc", "register", "dial", "send", "recv", "connect", "rkey" >>
  \o TcpSync
  \o (IF n = Client THEN << "launch", "quiet" >> ELSE <<>>)
  \o TcpSync
  \o (IF n = Server THEN << "verify" >> ELSE <<>>)
  \o TcpSync \o << "counters" >> \o TcpSync
  \o << "reset", "pingpong", "check", "last send", "last recv" >>

(* The two-node path; the last exchange is the sync whose failure is only  *)
(* logged.                                                                 *)
TwoNodePlan(n) ==
  << "alloc", "register", "dial", "send", "recv", "connect", "rkey" >>
  \o TcpSync
  \o (IF n = Client THEN << "launch", "quiet" >> ELSE <<>>)
  \o TcpSync
  \o (IF n = Server THEN << "verify" >> ELSE <<>>)
  \o TcpSync \o << "reset", "counters" >> \o TcpSync
  \o << "pingpong", "check", "last send", "last recv" >>

PlanOf == [n \in {Server, Client}, loop \in BOOLEAN |->
             IF loop THEN LoopbackPlan ELSE TwoNodePlan(n)]

Plan(n) == PlanOf[n, config_[n].loopback]

InitRun ==
  /\ InitBackend
  /\ config_[Server] = config_[Client]
  /\ stage = [n \in Nodes |-> IF n = Server /\ config_[n].loopback THEN "done" ELSE "init"]
  /\ pos = [n \in Nodes |-> 1]
  /\ sock = [n \in Nodes |-> "none"]
  /\ chan = [n \in Nodes |-> <<>>]
  /\ remote = [n \in Nodes |-> "none"]
  /\ rkey = [n \in Nodes |-> <<>>]
  /\ wire = [n \in Nodes |-> {}]
  /\ mem = [n \in Nodes |-> [data |-> 0, seq |-> 0, load |-> 0]]
  /\ kernel = [n \in Nodes |-> "idle"]
  /\ round = [n \in Nodes |-> 0]
  /\ errors = {}
  /\ bad = {}
  /\ late = {}

\* Process n is in run(), and alive.
InRun(n) == stage[n] = "run" /\ result[n] # "dead"

\* It is about to take step s of its plan.
At(n, s) ==
  /\ InRun(n) /\ kernel[n] = "idle"
  /\ pos[n] <= Len(Plan(n)) /\ Plan(n)[pos[n]] = s

Advance(n) == pos' = [pos EXCEPT ![n] = @ + 1]

\* Every error path of run() leads to the same clean-up.
Leave(n) == stage' = [stage EXCEPT ![n] = "cleanup"] /\ bad' = bad \cup {n}
-----------------------------------------------------------------------------
(* The Backend's init(), then its caller: an error leaves, and without a   *)
(* GPU QueuePair there is nothing to run and the endpoint reports success. *)

(* The processes share nothing before they connect, so nothing is lost by  *)
(* letting the server reach its socket first.                              *)
Started(n) == n = Client => stage[Server] # "init"

BackendStep(n) ==
  /\ stage[n] = "init" /\ Started(n)
  /\ \/ InitStepOk(n) \/ InitStepFails(n) \/ FillAttrStep(n) \/ CheckQp(n)
     \/ SetupQpLoopback(n) \/ InitReturns(n)
  /\ UNCHANGED runVars

StartRun(n) ==
  /\ stage[n] = "init"
  /\ \/ /\ result[n] = "error" /\ Leave(n)
     \/ /\ result[n] = "ok" /\ UNCHANGED bad
        /\ stage' = [stage EXCEPT ![n] = IF "gpu qp" \in Fields(n) THEN "run" ELSE "cleanup"]
  /\ UNCHANGED <<backendVars, pos, tcp, gpu, nic>>

(* abort() or a null pointer ends the process; the kernel closes its       *)
(* socket and destroys its queues.                                         *)
ProcessDies(n) ==
  /\ result[n] = "dead" /\ stage[n] # "done"
  /\ stage' = [stage EXCEPT ![n] = "done"]
  /\ sock' = [sock EXCEPT ![n] = "closed"]
  /\ bad' = bad \cup {n}
  /\ UNCHANGED <<backendVars, pos, chan, remote, gpu, nic>>

\* The run of process n acquires rs, each kept in a field of its name.
Acquire(n, rs) ==
  /\ live' = [live EXCEPT ![n] = @ \cup rs]
  /\ held' = [held EXCEPT ![n] = @ \cup {<<r, r>> : r \in rs}]
  /\ UNCHANGED <<config_, at, result, qp, faults>>

\* It frees r and forgets it.
Release(n, r) ==
  /\ live' = [live EXCEPT ![n] = @ \ {r}]
  /\ held' = [held EXCEPT ![n] = {p \in @ : p[1] # r}]
  /\ UNCHANGED <<config_, at, result, qp, faults>>

AllocBuffer(n) ==
  /\ At(n, "alloc") /\ Advance(n)
  /\ Acquire(n, {"buf"})
  /\ UNCHANGED <<stage, bad, tcp, gpu, nic>>

\* A 32-bit number is the sequence of its bytes in memory; the hosts are
\* little-endian.
Swapped(v) == [i \in DOMAIN v |-> v[Len(v) + 1 - i]]
htobe32(v) == Swapped(v)

\* heap_mr_->rkey of a process.
KeyOf(owner) == <<"low", owner>>

\* The key as mlx5 wants it in a work request is big-endian.
NormalizeQpKey(c, key) == IF ProviderOf[c] = "mlx5" THEN htobe32(key) ELSE key

\* The key the NIC finds in a work request.
KeyRead(c, v) == IF ProviderOf[c] = "mlx5" THEN Swapped(v) ELSE v

(* The local keys go to both copies of the QueuePair.                      *)
RegisterDataBuffer(n) ==
  /\ At(n, "register") /\ Advance(n)
  /\ Acquire(n, {"mr"})
  /\ rkey' = [rkey EXCEPT ![n] = NormalizeQpKey(config_[n], KeyOf(n))]
  /\ UNCHANGED <<stage, bad, tcp, kernel, round, errors, nic>>

(* tcp_server_accept listens until a client connects, without a timeout;   *)
(* tcp_client_connect tries once.                                          *)
TcpListen(n) ==
  /\ n = Server /\ At(n, "dial") /\ sock[n] = "none"
  /\ sock' = [sock EXCEPT ![n] = "listen"]
  /\ UNCHANGED <<backendVars, ctl, chan, remote, gpu, nic>>

TcpConnect(n) ==
  /\ n = Client /\ At(n, "dial") /\ sock[Server] = "listen"
  /\ sock' = [m \in Nodes |-> "open"]
  /\ pos' = [m \in Nodes |-> pos[m] + 1]
  /\ UNCHANGED <<backendVars, stage, bad, chan, remote, gpu, nic>>

\* exchange_info sends the queue pair number and key, a sync one byte.
Message(n) == IF remote[n] = "none" THEN n ELSE "byte"

(* tcp_send_all: with the peer gone the bytes may still be taken.          *)
TcpSend(n) ==
  /\ \E s \in {"send", "last send"} : At(n, s)
  /\ Advance(n)
  /\ chan' = [chan EXCEPT ![Peer(n)] = Append(@, Message(n))]
  /\ UNCHANGED <<backendVars, stage, bad, sock, remote, gpu, nic>>

TcpRecv(n) ==
  /\ \E s \in {"recv", "last recv"} : At(n, s)
  /\ chan[n] # <<>>
  /\ Advance(n)
  /\ chan' = [chan EXCEPT ![n] = Tail(@)]
  /\ remote' = [remote EXCEPT ![n] = IF @ = "none" THEN Head(chan[n]) ELSE @]
  /\ UNCHANGED <<backendVars, stage, bad, sock, gpu, nic>>

(* The peer has closed: sending or receiving fails, which ends the run     *)
(* unless it is the last sync.                                             *)
TcpBroken(n) ==
  /\ sock[Peer(n)] = "closed"
  /\ \/ /\ \/ At(n, "send")
           \/ At(n, "recv") /\ chan[n] = <<>>
           \/ At(n, "dial") /\ n = Client
        /\ Leave(n) /\ UNCHANGED pos
     \/ /\ \/ At(n, "last send")
           \/ At(n, "last recv") /\ chan[n] = <<>>
        /\ pos' = [pos EXCEPT ![n] = Len(Plan(n)) + 1]
        /\ UNCHANGED <<stage, bad>>
  /\ UNCHANGED <<backendVars, tcp, gpu, nic>>

ConnectToPeer(n) ==
  /\ At(n, "connect") /\ Advance(n)
  /\ ModifyQp(n, remote[n])
  /\ UNCHANGED <<config_, at, result, live, held, faults, stage, bad, tcp, gpu, nic>>

SetRemoteRkey(n) ==
  /\ At(n, "rkey") /\ Advance(n)
  /\ rkey' = [rkey EXCEPT ![n] = NormalizeQpKey(config_[n], KeyOf(remote[n]))]
  /\ UNCHANGED <<backendVars, stage, bad, tcp, kernel, round, errors, nic>>

-----------------------------------------------------------------------------
(* The NIC takes a write whose queue pair is connected both ways and whose *)
(* key is that of a registered buffer of the destination.                  *)
Accepted(n) ==
  LET d == qp[n].dest IN
  /\ qp[n].st = "rts"
  /\ qp[d].st = "rts" /\ qp[d].dest = n
  /\ "mr" \in live[d]
  /\ KeyRead(config_[n], rkey[n]) = KeyOf(d)

Value(n, part) == IF part = "data" THEN 1 ELSE round[n]

PlacePart(n) ==
  /\ Accepted(n)
  /\ \E part \in wire[n] :
       /\ mem' = [mem EXCEPT ![qp[n].dest][part] = Value(n, part)]
       /\ wire' = [wire EXCEPT ![n] = @ \ {part}]
  /\ late' = IF "buf" \in live[qp[n].dest] THEN late ELSE late \cup {qp[n].dest}
  /\ UNCHANGED <<backendVars, ctl, tcp, gpu>>

(* A write that cannot be placed completes with an error, which stops the  *)
(* kernel of mlx5 and ionic and which bnxt and ernic do not look at.       *)
Refuse(n) ==
  /\ wire[n] # {} /\ ~Accepted(n)
  /\ wire' = [wire EXCEPT ![n] = {}]
  /\ qp' = [qp EXCEPT ![n].st = IF @ = "rts" THEN "error" ELSE @]
  /\ IF ProviderOf[config_[n]] \in {"mlx5", "ionic"} /\ InRun(n)
     THEN Leave(n) /\ kernel' = [kernel EXCEPT ![n] = "idle"]
     ELSE UNCHANGED <<stage, bad, kernel>>
  /\ UNCHANGED <<config_, at, result, live, held, faults, pos, tcp, round, errors, rkey, mem, late>>

(* A kernel launched on a QueuePair whose device view was never filled     *)
(* follows null pointers.                                                  *)
Launchable(n) == "device view" \in Fields(n)

KernelFaults(n) ==
  /\ \/ At(n, "launch")
     \/ At(n, "pingpong")
  /\ ~Launchable(n)
  /\ Die(n)
  /\ UNCHANGED <<config_, at, faults, runVars>>

LaunchWrite(n) ==
  /\ At(n, "launch") /\ Launchable(n) /\ Advance(n)
  /\ wire' = [wire EXCEPT ![n] = {"data"}]
  /\ UNCHANGED <<backendVars, stage, bad, tcp, gpu, mem, late>>

\* Mutant: the host does not wait for the kernel.
WriteDoneEarly(n) ==
  /\ At(n, "quiet") /\ Advance(n)
  /\ UNCHANGED <<backendVars, stage, bad, tcp, gpu, nic>>

\* quiet_single, and the host's wait for the kernel.
WriteDone(n) ==
  /\ At(n, "quiet") /\ wire[n] = {} /\ Advance(n)
  /\ UNCHANGED <<backendVars, stage, bad, tcp, gpu, nic>>

VerifyWrite(n) ==
  /\ At(n, "verify")
  /\ IF mem[n].data = 1 THEN Advance(n) /\ UNCHANGED <<stage, bad>>
     ELSE Leave(n) /\ UNCHANGED pos
  /\ UNCHANGED <<backendVars, tcp, gpu, nic>>

ResetPingPong(n) ==
  /\ At(n, "reset") /\ Advance(n)
  /\ mem' = [mem EXCEPT ![n].seq = 0, ![n].load = 0]
  /\ UNCHANGED <<backendVars, stage, bad, tcp, gpu, wire, late>>

AllocCounters(n) ==
  /\ At(n, "counters") /\ Advance(n)
  /\ Acquire(n, {"counters"})
  /\ UNCHANGED <<stage, bad, tcp, gpu, nic>>

LaunchPingPong(n) ==
  /\ At(n, "pingpong") /\ Launchable(n) /\ Advance(n)
  /\ kernel' = [kernel EXCEPT ![n] = IF n = Client THEN "post" ELSE "spin"]
  /\ round' = [round EXCEPT ![n] = 1]
  /\ UNCHANGED <<backendVars, stage, bad, tcp, errors, rkey, nic>>

(* pp_fill and put_nbi_single.                                             *)
PingPongPost(n) ==
  /\ kernel[n] = "post"
  /\ wire' = [wire EXCEPT ![n] = {"seq", "load"}]
  /\ kernel' = [kernel EXCEPT ![n] = "quiet"]
  /\ UNCHANGED <<backendVars, ctl, tcp, round, errors, rkey, mem, late>>

\* The end of iteration round[n] of the kernel's loop.
NextRound(n, first) ==
  IF round[n] = Iters
  THEN kernel' = [kernel EXCEPT ![n] = "idle"] /\ UNCHANGED round
  ELSE kernel' = [kernel EXCEPT ![n] = first] /\ round' = [round EXCEPT ![n] = @ + 1]

PingPongQuiet(n) ==
  /\ kernel[n] = "quiet" /\ wire[n] = {}
  /\ IF n = Client THEN kernel' = [kernel EXCEPT ![n] = "spin"] /\ UNCHANGED round
     ELSE NextRound(n, "spin")
  /\ UNCHANGED <<backendVars, ctl, tcp, errors, rkey, nic>>

(* The kernel sees the sequence number it waits for, and pp_verify reads   *)
(* the payload as it then is.                                              *)
PingPongSpin(n) ==
  /\ kernel[n] = "spin" /\ mem[n].seq = round[n]
  /\ errors' = IF mem[n].load = round[n] THEN errors ELSE errors \cup {n}
  /\ IF n = Client THEN NextRound(n, "post")
     ELSE kernel' = [kernel EXCEPT ![n] = "post"] /\ UNCHANGED round
  /\ UNCHANGED <<backendVars, ctl, tcp, rkey, nic>>

CheckErrors(n) ==
  /\ At(n, "check")
  /\ IF n \in errors THEN Leave(n) /\ UNCHANGED <<pos, backendVars>>
     ELSE Advance(n) /\ Release(n, "counters") /\ UNCHANGED <<stage, bad>>
  /\ UNCHANGED <<tcp, gpu, nic>>

-----------------------------------------------------------------------------
(* Failures of the calls run() makes, and the clean-up all paths share.    *)

\* An allocation, copy, launch, socket call or wait for a kernel fails.
CallFails(n) ==
  /\ faults < MaxFaults /\ faults' = faults + 1
  /\ InRun(n) /\ pos[n] <= Len(Plan(n))
  /\ \/ kernel[n] # "idle"
     \/ Plan(n)[pos[n]] \notin {"connect", "verify", "reset", "check", "last send", "last recv"}
  /\ Leave(n)
  /\ kernel' = [kernel EXCEPT ![n] = "idle"]
  /\ UNCHANGED <<config_, at, result, live, held, qp, pos, tcp, round, errors, rkey, nic>>

(* The copy of the QueuePair fails after the buffer was registered.        *)
RegisterCopyFails(n) ==
  /\ At(n, "register") /\ faults < MaxFaults /\ faults' = faults + 1
  /\ live' = [live EXCEPT ![n] = @ \cup {"mr"}]
  /\ held' = [held EXCEPT ![n] = @ \cup {<<"mr", "mr">>}]
  /\ Leave(n)
  /\ UNCHANGED <<config_, at, result, qp, pos, tcp, gpu, nic>>

(* modify_qp fails: the checks of gda-backend.cpp abort.                   *)
ConnectAborts(n) ==
  /\ \/ At(n, "connect")
     \/ stage[n] = "init" /\ Running(n) /\ NextStep(n).fn = "setup_qp_loopback"
  /\ faults < MaxFaults /\ faults' = faults + 1
  /\ Die(n)
  /\ UNCHANGED <<config_, at, runVars>>

EndRun(n) ==
  /\ InRun(n) /\ kernel[n] = "idle" /\ pos[n] > Len(Plan(n))
  /\ stage' = [stage EXCEPT ![n] = "cleanup"]
  /\ UNCHANGED <<backendVars, pos, bad, tcp, gpu, nic>>

CloseSocket(n) ==
  /\ stage[n] = "cleanup" /\ sock[n] # "closed"
  /\ Release(n, "counters")
  /\ sock' = [sock EXCEPT ![n] = "closed"]
  /\ UNCHANGED <<ctl, chan, remote, gpu, nic>>

FreeBuffer(n) ==
  /\ stage[n] = "cleanup" /\ sock[n] = "closed" /\ "buf" \in Fields(n)
  /\ Release(n, "buf")
  /\ UNCHANGED <<ctl, tcp, gpu, nic>>

(* shutdown(), then the destructor's.                                      *)
Shutdown(n) ==
  /\ stage[n] = "cleanup" /\ sock[n] = "closed" /\ "buf" \notin Fields(n)
  /\ \/ ReleaseNext(n) /\ UNCHANGED stage
     \/ /\ ToRelease(n) = {}
        /\ stage' = [stage EXCEPT ![n] = "done"]
        /\ UNCHANGED backendVars
  /\ UNCHANGED <<pos, bad, tcp, gpu, nic>>

-----------------------------------------------------------------------------
HostStep(n) ==
  \/ BackendStep(n) \/ StartRun(n) \/ ProcessDies(n)
  \/ AllocBuffer(n) \/ RegisterDataBuffer(n)
  \/ TcpListen(n) \/ TcpConnect(n) \/ TcpSend(n) \/ TcpRecv(n) \/ TcpBroken(n)
  \/ ConnectToPeer(n) \/ SetRemoteRkey(n)
  \/ LaunchWrite(n) \/ WriteDone(n) \/ VerifyWrite(n)
  \/ ResetPingPong(n) \/ AllocCounters(n) \/ LaunchPingPong(n) \/ CheckErrors(n)
  \/ EndRun(n) \/ CloseSocket(n) \/ FreeBuffer(n) \/ Shutdown(n)

GpuStep(n) ==
  PingPongPost(n) \/ PingPongQuiet(n) \/ PingPongSpin(n) \/ KernelFaults(n)

NicStep(n) == PlacePart(n) \/ Refuse(n)

Progress(n) == HostStep(n) \/ GpuStep(n) \/ NicStep(n)

RunNext ==
  \E n \in Nodes :
    Progress(n) \/ CallFails(n) \/ RegisterCopyFails(n) \/ ConnectAborts(n)

RunSpec == InitRun /\ [][RunNext]_allVars

(* Something that can run does: the processes, kernels and NICs are not    *)
(* all suspended for ever.  No behaviour is infinite, so that suffices.    *)
RunFairSpec == RunSpec /\ WF_allVars(\E n \in Nodes : Progress(n))

-----------------------------------------------------------------------------
(* The syncs of the two-node test order what has to be ordered.  As long   *)
(* as no call has failed and no kernel has counted an error, a write that  *)
(* a kernel has posted finds its destination ready: the queue pair         *)
(* connected back and the key that of the peer's registered buffer, in the *)
(* byte order of the NIC.  And the server checks the data region only      *)
(* after the whole write has been placed.                                  *)
SyncsOrder ==
  faults = 0 =>
    /\ errors = {} => \A n \in Nodes : wire[n] # {} => Accepted(n)
    /\ ~(At(Server, "verify") /\ mem[Server].data # 1)

(* A buffer is freed (before its registration is) only when no write to it *)
(* is under way, unless run() returns an error.                            *)
NoLateWrite == late \subseteq bad

(* What may be left when run() has returned: the vendor library; the       *)
(* doorbell page of ionic; of bnxt the dmabuf descriptors of the two CQ    *)
(* buffers, which bnxt_cleanup does not close, the doorbell region and,    *)
(* after a failure in between, the umems whose handle bnxt_create_qps had  *)
(* only in locals; of ernic, which has no clean-up, all but the QP, its    *)
(* send CQ and the device.                                                 *)
ShutdownReleases ==
  \A n \in Nodes : stage[n] = "done" =>
    live[n] \subseteq {"dv lib"} \cup
      (CASE ProviderOf[config_[n]] = "bnxt" ->
              {"scq dmabuf", "rcq dmabuf", "db region"}
              \cup (IF faults > 0 THEN {"sq umem", "rq umem"} ELSE {})
         [] ProviderOf[config_[n]] = "ionic" -> {"db page"}
         [] ProviderOf[config_[n]] = "ernic" ->
              {p[2] : p \in held[n]} \cup {"bridge map", "bridge reg"}
              \cup (IF faults > 0 THEN {"sq umem", "rq umem"} ELSE {})
         [] OTHER -> {})

(* Without a failing call both processes finish: no sync, kernel or quiet  *)
(* of one waits for something the other has already done or never does.    *)
BothEnd == <>(faults > 0 \/ \A n \in Nodes : stage[n] = "done")

=============================================================================
