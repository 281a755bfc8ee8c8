----------------------------- MODULE RdmaBackend -----------------------------
(***************************************************************************)
(* The life of one rdma_ep::Backend object (endpoints/rdma-ep/             *)
(* gda-backend.cpp and the four provider files): init() opens the direct   *)
(* verbs library and the device, creates the queues, connects them in      *)
(* loopback mode and builds the GPU QueuePair; shutdown(), called by the   *)
(* endpoint and again by the destructor, releases what the fields name.    *)
(*                                                                         *)
(* init() is a long sequence of calls, each of which can fail, and what a  *)
(* failure does differs from file to file: the checks of gda-backend.cpp   *)
(* abort the process, those of the provider files return from the function *)
(* they are in and let init() go on.  The calls are therefore data: a      *)
(* sequence of steps, each with the function it is in, the resources it    *)
(* acquires, the fields it assigns and what its failure does.              *)
(*                                                                         *)
(* ibverbs, the vendor libraries and HIP are external: a call succeeds or  *)
(* fails, and a failing call acquires nothing.                             *)
(***************************************************************************)
EXTENDS Integers, Sequences

CONSTANTS
  Nodes,          \* the processes, one Backend each
  BackendConfigs, \* the configurations a Backend may be built with
  MaxFaults       \* bound on the failing calls of a behaviour

\* The vendor libraries in the order open_dv_libs tries them.
DvLibs == <<"bnxt", "mlx5", "ionic", "ernic">>

Elements(s) == {s[i] : i \in DOMAIN s}

\* The least of a set of indices.
First(S) == CHOOSE i \in S : \A j \in S : i <= j

(* The facts a run of init() depends on: the provider asked for, the       *)
(* vendor libraries installed, loopback mode, which completion queue       *)
(* buffers can be exported as a dmabuf and whether the device has a        *)
(* default doorbell region (bnxt), whether the two doorbell records share  *)
(* a page (mlx5), and whether the driver maps a UAR and the MMIO bridge    *)
(* was asked for (ernic).                                                  *)
BackendConfig ==
  [requested: Elements(DvLibs) \cup {"unknown"},
   libs: SUBSET Elements(DvLibs),
   loopback: BOOLEAN,
   dmabuf: SUBSET {"scq buf", "rcq buf"},
   defaultDb: BOOLEAN,
   sharedDbr: BOOLEAN,
   uar: BOOLEAN,
   bridge: BOOLEAN]

ASSUME ConfigsAssumption == BackendConfigs \subseteq BackendConfig
ASSUME MaxFaultsAssumption == MaxFaults \in Nat

(* open_dv_libs: the first provider, in the order of the code, that is     *)
(* asked for (or none was named) and whose library loads.                  *)
OpenDvLibs(c) ==
  LET ok == {i \in DOMAIN DvLibs : /\ c.requested \in {DvLibs[i], "unknown"}
                                   /\ DvLibs[i] \in c.libs}
  IN  IF ok = {} THEN "none" ELSE DvLibs[First(ok)]

-----------------------------------------------------------------------------
(* Steps.  A step gives up drops (the field and the resource of that name) *)
(* before it calls.  A failing call that may "leave" returns from the      *)
(* function or block fn, "abort" ends the process, "error" makes init()    *)
(* return -1, "return" ends init() with 0, and "forget" gives up the GPU   *)
(* copy of the QueuePair and goes on.                                      *)

Step(fn, drops, gets, sets, fail) ==
  [fn |-> fn, drops |-> drops, gets |-> gets, sets |-> sets, fail |-> fail]

\* A call that acquires r and keeps it in the field of the same name.
Gets(fn, r, fail) == Step(fn, {}, {r}, {<<r, r>>}, fail)

\* A call that acquires r and leaves it in a local variable.
GetsLocal(fn, r, fail) == Step(fn, {}, {r}, {}, fail)

\* A call that acquires nothing.
Calls(fn, fail) == Step(fn, {}, {}, {}, fail)

\* An assignment to fields.
Sets(fn, pairs) == Step(fn, {}, {}, pairs, "never")

OpenIbDevice ==
  << Gets("open_ib_device", "context", "abort"),
     Gets("open_ib_device", "pd", "abort"),
     Calls("open_ib_device", "abort") >>

(* create_one_cq: the buffer, its umem, the CQ.  bnxt exports the buffer   *)
(* as a dmabuf if it can, and registers it without if it cannot; the       *)
(* descriptor goes into a member of the CQ that nothing reads afterwards.  *)
BnxtCreateOneCq(c, buf, fd, umem, cq) ==
  << Step("create_cqs", {}, {buf} \cup (IF buf \in c.dmabuf THEN {fd} ELSE {}),
          {<<buf, buf>>}, "leave"),
     Gets("create_cqs", umem, "leave"),
     Gets("create_cqs", cq, "leave") >>

ErnicCreateOneCq(buf, umem, cq) ==
  << Gets("create_cqs", buf, "leave"),
     Gets("create_cqs", umem, "leave"),
     Gets("create_cqs", cq, "leave") >>

CqStructs ==
  << Gets("create_cqs", "scq_", "leave"), Gets("create_cqs", "rcq_", "leave") >>

BnxtCreateCqs(c) ==
  CqStructs
  \o BnxtCreateOneCq(c, "scq buf", "scq dmabuf", "scq umem", "scq cq")
  \o BnxtCreateOneCq(c, "rcq buf", "rcq dmabuf", "rcq umem", "rcq cq")
  \o << Sets("create_cqs", {<<"cq_", "scq cq">>}) >>

ErnicCreateCqs ==
  CqStructs
  \o ErnicCreateOneCq("scq buf", "scq umem", "scq cq")
  \o ErnicCreateOneCq("rcq buf", "rcq umem", "rcq cq")
  \o << Sets("create_cqs", {<<"cq_", "scq cq">>}) >>

(* The umem handles are locals until the QP's attribute block is filled.   *)
FillAttr ==
  Sets("create_qps", {<<"sq umem", "sq umem">>, <<"rq umem", "rq umem">>})

BnxtCreateQps(c) ==
  << Gets("create_qps", "qp struct", "leave"),
     Gets("create_qps", "sq buf", "leave"),
     GetsLocal("create_qps", "sq umem", "leave"),
     Gets("create_qps", "rq buf", "leave"),
     GetsLocal("create_qps", "rq umem", "leave"),
     Gets("create_qps", "db attr", "leave") >>
  \o (IF c.defaultDb THEN <<>>
      ELSE << Step("create_qps", {"db attr"}, {"db attr", "db region"},
                   {<<"db attr", "db attr">>}, "leave") >>)
  \o << FillAttr, Gets("create_qps", "qp", "leave") >>

ErnicCreateQps ==
  << Gets("create_qps", "qp struct", "leave"),
     Gets("create_qps", "sq buf", "leave"),
     GetsLocal("create_qps", "sq umem", "leave"),
     Gets("create_qps", "rq buf", "leave"),
     GetsLocal("create_qps", "rq umem", "leave"),
     FillAttr, Gets("create_qps", "qp", "leave") >>

(* ionic allocates a parent domain first, and leaves create_queues when    *)
(* there is no CQ.                                                         *)
IonicCreateCqs ==
  << Gets("create_cqs", "pd parent", "leave"), Gets("create_cqs", "cq_", "leave") >>

CreateQueues(c) ==
  CASE OpenDvLibs(c) = "bnxt"  -> BnxtCreateCqs(c) \o BnxtCreateQps(c)
    [] OpenDvLibs(c) = "ernic" -> ErnicCreateCqs \o ErnicCreateQps
    [] OpenDvLibs(c) = "ionic" -> IonicCreateCqs \o << Gets("create_cqs", "qp", "leave") >>
    [] OTHER -> << Gets("create_queues", "cq_", "abort"),
                   Gets("create_queues", "qp", "leave") >>

(* The CPU loopback test of mlx5: buffer, registration, one write and its  *)
(* completion; every outcome gives both back.                              *)
Smoke == {"smoke buf", "smoke mr"}

Mlx5SmokeTest ==
  << Gets("smoke", "smoke buf", "error"), Gets("smoke", "smoke mr", "error"),
     Calls("smoke", "error"), Step("smoke", Smoke, {}, {}, "error") >>

BnxtInitializeGpuQp ==
  << Gets("initialize", "dbr reg", "leave"), Calls("initialize", "leave") >>

(* The queue buffers and doorbell records are registered with HIP, the     *)
(* second record only when it lies on another page.                        *)
Mlx5RegisterQueues(c) ==
  << Calls("initialize", "leave"),
     Gets("initialize", "sq reg", "leave"),
     Gets("initialize", "cq reg", "leave"),
     Gets("initialize", "sq dbr", "leave") >>
  \o (IF c.sharedDbr THEN <<>> ELSE << Gets("initialize", "cq dbr", "leave") >>)
  \o << Calls("initialize", "leave") >>

Mlx5LockDoorbell == << Gets("initialize", "bf reg", "leave") >>

IonicInitializeGpuQp ==
  << Calls("initialize", "leave"), Gets("initialize", "db page", "leave"),
     Calls("initialize", "leave") >>

ErnicMapUar(c) ==
  IF c.uar THEN << Gets("initialize", "uar reg", "leave"), Calls("initialize", "leave") >>
  ELSE <<>>

(* The shadow buffer of the MMIO bridge is mapped and then registered with *)
(* HIP; a failure is logged and the rest of the function goes on without.  *)
ErnicMapBridge(c) ==
  IF c.bridge THEN << GetsLocal("map bridge", "bridge map", "leave"),
                      GetsLocal("map bridge", "bridge reg", "leave") >>
  ELSE <<>>

InitializeGpuQp(c) ==
  (CASE OpenDvLibs(c) = "bnxt"  -> BnxtInitializeGpuQp
     [] OpenDvLibs(c) = "mlx5"  -> Mlx5RegisterQueues(c) \o Mlx5LockDoorbell
     [] OpenDvLibs(c) = "ionic" -> IonicInitializeGpuQp
     [] OpenDvLibs(c) = "ernic" -> ErnicMapUar(c) \o ErnicMapBridge(c))
  \o << Sets("initialize", {<<"device view", "host qp">>}) >>

(* The QueuePair exists twice, on the host and on the GPU; the device view *)
(* is the part of it that the provider's initialisation fills.             *)
SetupGpuQp(c) ==
  IF OpenDvLibs(c) = "none" THEN <<>>
  ELSE << Step("setup_gpu_qp", {}, {"host qp", "gpu qp"},
               {<<"host qp", "host qp">>, <<"gpu qp", "gpu qp">>}, "return") >>
       \o InitializeGpuQp(c)
       \o << Calls("copy to gpu", "forget") >>

InitScript(c) ==
  OpenIbDevice \o CreateQueues(c) \o << Calls("check qp", "never") >>
  \o (IF c.loopback THEN << Calls("setup_qp_loopback", "abort") >> ELSE <<>>)
  \o (IF c.loopback /\ OpenDvLibs(c) = "mlx5" THEN Mlx5SmokeTest ELSE <<>>)
  \o SetupGpuQp(c)

ProviderOf == [c \in BackendConfigs |-> OpenDvLibs(c)]
ScriptOf == [c \in BackendConfigs |-> InitScript(c)]

-----------------------------------------------------------------------------
VARIABLES
  config_,   \* config_: what the Backend was built with
  at,        \* the next step of init()
  result,    \* of init(): "running", "ok", "error"; "dead" after abort()
  live,      \* the resources that exist
  held,      \* pairs <<field, resource>>: what the non-null fields name
  qp,        \* the state of the queue pair, and the peer it is connected to
  faults     \* the failing calls so far

backendVars == <<config_, at, result, live, held, qp, faults>>

Null == [st |-> "reset", dest |-> "none"]

InitBackend ==
  /\ config_ \in [Nodes -> BackendConfigs]
  /\ at = [n \in Nodes |-> 1]
  /\ result = [n \in Nodes |-> "running"]
  /\ live = [n \in Nodes |-> IF ProviderOf[config_[n]] = "none" THEN {} ELSE {"dv lib"}]
  /\ held = [n \in Nodes |-> {}]
  /\ qp = [n \in Nodes |-> Null]
  /\ faults = 0

Fields(n) == {p[1] : p \in held[n]}

NextStep(n) == ScriptOf[config_[n]][at[n]]

Running(n) == result[n] = "running" /\ at[n] <= Len(ScriptOf[config_[n]])

\* The first step from at[n] on that is not in function fn.
After(n, fn) ==
  LET script == ScriptOf[config_[n]]
      later  == {i \in at[n]..Len(script) : script[i].fn # fn}
  IN  IF later = {} THEN Len(script) + 1 ELSE First(later)

(* A QP cannot be created without its completion queues.                   *)
Possible(n, s) ==
  "qp" \in s.gets => "cq_" \in Fields(n)

(* A call of init() that returns success.                                  *)
InitStepOk(n) ==
  /\ Running(n)
  /\ LET s == NextStep(n) IN
       /\ s.fn \notin {"check qp", "setup_qp_loopback"} /\ s # FillAttr
       /\ Possible(n, s)
       /\ live' = [live EXCEPT ![n] = (@ \ s.drops) \cup s.gets]
       /\ held' = [held EXCEPT ![n] = {p \in @ : p[1] \notin s.drops} \cup s.sets]
  /\ at' = [at EXCEPT ![n] = @ + 1]
  /\ UNCHANGED <<config_, result, qp, faults>>

Die(n) ==
  /\ result' = [result EXCEPT ![n] = "dead"]
  /\ live' = [live EXCEPT ![n] = {}]
  /\ held' = [held EXCEPT ![n] = {}]
  /\ qp' = [qp EXCEPT ![n] = Null]

\* What is left of live and held when a failing step s gives up more.
GiveUp(n, names) ==
  /\ live' = [live EXCEPT ![n] = @ \ names]
  /\ held' = [held EXCEPT ![n] = {p \in @ : p[1] \notin names}]

(* A call of init() that fails.                                            *)
InitStepFails(n) ==
  /\ Running(n)
  /\ LET s == NextStep(n) IN
       /\ s.fail # "never"
       /\ \/ ~Possible(n, s) /\ UNCHANGED faults
          \/ Possible(n, s) /\ faults < MaxFaults /\ faults' = faults + 1
       /\ \/ s.fail = "abort" /\ Die(n) /\ UNCHANGED at
          \/ /\ s.fail = "leave"
             /\ GiveUp(n, s.drops)
             /\ at' = [at EXCEPT ![n] = After(n, s.fn)]
             /\ UNCHANGED <<result, qp>>
          \/ /\ s.fail = "error"
             /\ GiveUp(n, Smoke)
             /\ result' = [result EXCEPT ![n] = "error"]
             /\ UNCHANGED <<at, qp>>
          \/ /\ s.fail = "return"
             /\ result' = [result EXCEPT ![n] = "ok"]
             /\ UNCHANGED <<at, live, held, qp>>
          \/ /\ s.fail = "forget"
             /\ GiveUp(n, {"gpu qp"})
             /\ at' = [at EXCEPT ![n] = @ + 1]
             /\ UNCHANGED <<result, qp>>
  /\ UNCHANGED config_

(* Filling the attribute block reads both CQ structures: without one of    *)
(* them the process dereferences a null pointer.                           *)
FillAttrStep(n) ==
  /\ Running(n)
  /\ NextStep(n) = FillAttr
  /\ IF {"scq_", "rcq_"} \subseteq Fields(n)
     THEN /\ held' = [held EXCEPT ![n] = @ \cup NextStep(n).sets]
          /\ at' = [at EXCEPT ![n] = @ + 1]
          /\ UNCHANGED <<result, live, qp>>
     ELSE Die(n) /\ UNCHANGED at
  /\ UNCHANGED <<config_, faults>>

(* init() returns -1 when the queues have no QP.                           *)
CheckQp(n) ==
  /\ Running(n)
  /\ NextStep(n).fn = "check qp"
  /\ IF "qp" \in Fields(n)
     THEN at' = [at EXCEPT ![n] = @ + 1] /\ UNCHANGED result
     ELSE result' = [result EXCEPT ![n] = "error"] /\ UNCHANGED at
  /\ UNCHANGED <<config_, live, held, qp, faults>>

(* The three transitions of modify_qp, from RESET to RTS.                  *)
ModifyQp(n, peer) == qp' = [qp EXCEPT ![n] = [st |-> "rts", dest |-> peer]]

SetupQpLoopback(n) ==
  /\ Running(n)
  /\ NextStep(n).fn = "setup_qp_loopback"
  /\ ModifyQp(n, n)
  /\ at' = [at EXCEPT ![n] = @ + 1]
  /\ UNCHANGED <<config_, result, live, held, faults>>

InitReturns(n) ==
  /\ result[n] = "running"
  /\ at[n] > Len(ScriptOf[config_[n]])
  /\ result' = [result EXCEPT ![n] = "ok"]
  /\ UNCHANGED <<config_, at, live, held, qp, faults>>


-----------------------------------------------------------------------------
(* shutdown(): the fields in the order it releases them.  A field that is  *)
(* null is skipped, a released one is nulled, so the next field to release *)
(* is the first of the order that is not null.                             *)

\* Mutant: the send and receive umems go before the queue pair.
BnxtCleanupUmemFirst ==
  << "sq umem", "rq umem", "qp", "scq cq", "rcq cq", "scq umem", "rcq umem",
     "dbr reg", "db attr", "sq buf", "rq buf", "qp struct",
     "scq buf", "scq_", "rcq buf", "rcq_" >>

BnxtCleanup ==
  << "qp", "scq cq", "rcq cq", "sq umem", "rq umem", "scq umem", "rcq umem",
     "dbr reg", "db attr", "sq buf", "rq buf", "qp struct",
     "scq buf", "scq_", "rcq buf", "rcq_" >>

\* Mutant: the page of the CQ's doorbell record stays registered.
Mlx5CleanupOneDbr == << "bf reg", "sq dbr", "cq reg", "sq reg" >>

Mlx5Cleanup == << "bf reg", "cq dbr", "sq dbr", "cq reg", "sq reg" >>

ShutdownOrder(c) ==
  << "host qp", "gpu qp" >>
  \o (CASE OpenDvLibs(c) = "bnxt" -> BnxtCleanup
        [] OpenDvLibs(c) = "mlx5" -> Mlx5Cleanup
        [] OTHER -> <<>>)
  \o << "qp", "cq_", "mr", "pd parent", "pd", "context" >>

OrderOf == [c \in BackendConfigs |-> ShutdownOrder(c)]

\* Mutant: cq_ keeps naming the send CQ.
NulledOneName(c, f) == IF f = "host qp" THEN {"host qp", "device view"} ELSE {f}

\* The fields that are nulled with f: bnxt_cleanup clears the second name
\* of its send CQ, and the device view goes with the host QueuePair.
Nulled(c, f) ==
  CASE f = "scq cq" /\ ProviderOf[c] = "bnxt" -> {"scq cq", "cq_"}
    [] f = "host qp" -> {"host qp", "device view"}
    [] OTHER -> {f}

\* The places of the order that are not null.
ToRelease(n) == {i \in DOMAIN OrderOf[config_[n]] : OrderOf[config_[n]][i] \in Fields(n)}

ReleaseNext(n) ==
  LET f == OrderOf[config_[n]][First(ToRelease(n))] IN
  /\ ToRelease(n) # {}
  /\ live' = [live EXCEPT ![n] = @ \ {p[2] : p \in {q \in held[n] : q[1] = f}}]
  /\ held' = [held EXCEPT ![n] = {p \in @ : p[1] \notin Nulled(config_[n], f)}]
  /\ qp' = [qp EXCEPT ![n] = IF f = "qp" THEN Null ELSE @]
  /\ UNCHANGED <<config_, at, result, faults>>

-----------------------------------------------------------------------------
(* What a resource stands on as long as it exists.  What ernic never       *)
(* releases outlives the device context and is left out.                   *)
Needs(c) ==
  {<<"qp", "pd">>, <<"pd", "context">>, <<"mr", "pd">>}
  \cup (CASE OpenDvLibs(c) = "bnxt" ->
               {<<"qp", "scq cq">>, <<"qp", "rcq cq">>, <<"qp", "sq umem">>,
                <<"qp", "rq umem">>, <<"qp", "sq buf">>, <<"qp", "rq buf">>,
                <<"scq cq", "scq umem">>, <<"rcq cq", "rcq umem">>,
                <<"scq umem", "scq buf">>, <<"rcq umem", "rcq buf">>,
                <<"rcq cq", "context">>, <<"dbr reg", "db attr">>}
          [] OpenDvLibs(c) = "ernic" ->
               {<<"qp", "scq cq">>, <<"qp", "rcq cq">>, <<"qp", "sq umem">>,
                <<"qp", "rq umem">>, <<"qp", "sq buf">>, <<"qp", "rq buf">>,
                <<"scq cq", "scq umem">>, <<"scq umem", "scq buf">>}
          [] OpenDvLibs(c) = "mlx5" ->
               {<<"sq reg", "qp">>, <<"sq dbr", "qp">>, <<"bf reg", "qp">>,
                <<"cq reg", "cq_">>, <<"cq dbr", "cq_">>, <<"qp", "cq_">>,
                <<"cq_", "context">>}
          [] OpenDvLibs(c) = "ionic" ->
               {<<"qp", "cq_">>, <<"qp", "pd parent">>, <<"cq_", "pd parent">>,
                <<"mr", "pd parent">>, <<"pd parent", "pd">>}
          [] OTHER -> {<<"qp", "cq_">>, <<"cq_", "context">>})

NeedsOf == [c \in BackendConfigs |-> Needs(c)]

(* Nothing is destroyed before what stands on it: bnxt_cleanup,            *)
(* mlx5_cleanup and shutdown take the queues, registrations and umems down *)
(* in such an order however far init() got.                                *)
QpBacked ==
  \A n \in Nodes : \A d \in NeedsOf[config_[n]] :
    d[1] \in live[n] => d[2] \in live[n]

(* No field that shutdown() releases names a resource that is already      *)
(* gone, so the second shutdown(), the destructor's, releases nothing      *)
(* twice; the send CQ of bnxt and ernic has two names.                     *)
HeldLive ==
  \A n \in Nodes : \A p \in held[n] :
    p[1] \in Elements(OrderOf[config_[n]]) => p[2] \in live[n]

=============================================================================
