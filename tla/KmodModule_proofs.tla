-------------------------- MODULE KmodModule_proofs --------------------------
(***************************************************************************)
(* Proofs about the kernel module as a whole: the queues of a queue ID     *)
(* stay a pair while processes take them over and the resurrect work gives *)
(* them back (KmodResurrect); PCI addresses and guest addresses of GPU     *)
(* buffers are computed right (KmodAddress); and the references on PCI     *)
(* devices are counted exactly, and rocm_xio_exit frees the lists only     *)
(* when nothing can add to them any more (KmodModule).                     *)
(***************************************************************************)
EXTENDS KmodModule, KmodAddress, KmodResurrect, FiniteSetTheorems,
        WellFoundedInduction, TLAPS

-----------------------------------------------------------------------------
(* KmodResurrect: the queues of a key stay a pair, for any number of       *)
(* controllers, queue IDs and processes, as long as no two processes take  *)
(* the same queue over.                                                    *)

\* Every queue is taken over by one process at most: a second one would find
\* DELETE_CQ, and the work between CREATE_CQ and CREATE_SQ, in each other's way.
OneSession == \A s, t \in Sessions : KeyOf[s] = KeyOf[t] => s = t

Creators == {"none", "kernel", "user"}

\* The steps of a session between its DELETE_CQ and its CREATE_CQ, and after
\* the end of its queue.
Away == {"ccq", "ccqDev", "unq", "done"}

Steps == Away \union {"idle", "dsq", "dcq", "arm", "dcqDev", "csq", "csqDev", "run"}

ResurrectTypes ==
    /\ cq \in [Keys -> Creators]
    /\ sq \in [Keys -> Creators]
    /\ pc \in [Sessions -> Steps]

\* A CQ is missing only while the session that deleted it is away from it.
MissingInv ==
    \A s \in Sessions : cq[KeyOf[s]] = "none" => pc[s] \in Away

\* Between the work's CREATE_CQ and its CREATE_SQ the CQ is the kernel's, and
\* the session of the key is still away.
WorkPairInv ==
    wpc = "sq" => /\ cur \in Keys
                  /\ cq[cur] = "kernel"
                  /\ \A s \in Sessions : KeyOf[s] = cur => pc[s] \in Away

\* Between a session's CREATE_CQ and its CREATE_SQ the CQ is its own, unless a
\* reset gave both queues to the kernel.
SessionPairInv ==
    \A s \in Sessions : pc[s] \in {"csq", "csqDev"} =>
        \/ cq[KeyOf[s]] = "user"
        \/ cq[KeyOf[s]] = "kernel" /\ sq[KeyOf[s]] = "kernel"

PairInv ==
    /\ ResurrectTypes /\ MissingInv /\ WorkPairInv /\ SessionPairInv
    /\ PairedQueues

-----------------------------------------------------------------------------

\* Init: every queue is the kernel's and every session idle.
LEMMA InitPair == ResurrectInit => PairInv
<1> SUFFICES ASSUME ResurrectInit PROVE PairInv
  OBVIOUS
<1>1. /\ cq = [k \in Keys |-> "kernel"] /\ sq = [k \in Keys |-> "kernel"]
      /\ wpc = "idle" /\ pc = [s \in Sessions |-> "idle"]
  BY DEF ResurrectInit
<1>2. "kernel" \in Creators /\ "idle" \in Steps
  BY DEF Creators, Steps
<1>3. ResurrectTypes
  BY <1>1, <1>2 DEF ResurrectTypes
<1>4. MissingInv /\ WorkPairInv /\ SessionPairInv /\ PairedQueues
  BY <1>1, ResurrectAssumption DEF MissingInv, WorkPairInv, SessionPairInv, PairedQueues
<1> QED
  BY <1>3, <1>4 DEF PairInv

\* A step that leaves the controller's queues and the work alone, and moves one
\* session between steps that ask nothing new of them, preserves the invariant.
LEMMA SessionPair ==
    ASSUME PairInv, NEW s \in Sessions, NEW l \in Steps, Goto(s, l),
           UNCHANGED <<cq, sq, wpc, cur>>,
           pc[s] \in Away => l \in Away,
           l \in {"csq", "csqDev"} => pc[s] \in {"csq", "csqDev"}
    PROVE  PairInv'
<1> USE ResurrectAssumption DEF PairInv
<1>1. pc' = [pc EXCEPT ![s] = l] /\ pc \in [Sessions -> Steps]
  BY DEF Goto, ResurrectTypes
<1>2. ResurrectTypes'
  BY <1>1 DEF ResurrectTypes
<1>3. MissingInv'
  BY <1>1 DEF MissingInv
<1>4. WorkPairInv'
  BY <1>1 DEF WorkPairInv
<1>5. SessionPairInv'
  BY <1>1 DEF SessionPairInv
<1>6. PairedQueues'
  BY DEF PairedQueues
<1> QED
  BY <1>2, <1>3, <1>4, <1>5, <1>6

\* The commands a session's controller executes: DELETE_SQ, DELETE_CQ,
\* CREATE_CQ and CREATE_SQ.  No other session is concerned with the key.
LEMMA CommandPair ==
    ASSUME OneSession, PairInv, NEW s \in Sessions,
           DeleteSq(s) \/ DeleteCq(s) \/ CreateCq(s) \/ CreateSq(s)
    PROVE  PairInv'
<1> USE ResurrectAssumption
<1>p. MissingInv /\ WorkPairInv /\ SessionPairInv /\ PairedQueues
  BY DEF PairInv
<1>c. {"none", "user"} \subseteq Creators /\ {"dcq", "csq", "run", "unq", "ccq"} \subseteq Steps
  BY DEF Creators, Steps, Away
<1>u. "unq" \in Away
  BY DEF Away
<1>k. /\ KeyOf[s] \in Keys /\ \A t \in Sessions : KeyOf[t] \in Keys
      /\ \A t \in Sessions : t # s => KeyOf[t] # KeyOf[s]
  BY DEF OneSession
<1>t. /\ pc \in [Sessions -> Steps]
      /\ cq \in [Keys -> Creators] /\ sq \in [Keys -> Creators]
  BY DEF ResurrectTypes, PairInv
<1>1. CASE DeleteSq(s)
  <2>1. /\ pc' = [pc EXCEPT ![s] = "dcq"]
        /\ sq' = [sq EXCEPT ![KeyOf[s]] = "none"] \/ UNCHANGED sq
        /\ pc[s] = "dsq" /\ UNCHANGED <<cq, wpc, cur>>
    BY <1>1 DEF DeleteSq, Goto, work
  <2>2. cq[KeyOf[s]] # "none"
    BY <1>p, <2>1 DEF MissingInv, Away
  <2>3. ResurrectTypes'
    BY <1>t, <1>k, <1>c, <2>1 DEF ResurrectTypes
  <2>4. MissingInv'
    BY <1>p, <1>t, <1>k, <2>1, <2>2 DEF MissingInv
  <2>5. WorkPairInv'
    BY <1>p, <1>t, <1>k, <2>1 DEF WorkPairInv, Away
  <2>6. SessionPairInv'
    BY <1>p, <1>t, <1>k, <2>1 DEF SessionPairInv
  <2>7. PairedQueues'
    BY <1>p, <1>t, <1>k, <2>1 DEF PairedQueues
  <2> QED
    BY <2>3, <2>4, <2>5, <2>6, <2>7 DEF PairInv
<1>2. CASE DeleteCq(s)
  <2>1. PICK l \in {"unq", "ccq"} : pc' = [pc EXCEPT ![s] = l]
    BY Zenon, <1>2 DEF DeleteCq, Goto
  <2>2. /\ \/ sq[KeyOf[s]] = "none" /\ cq' = [cq EXCEPT ![KeyOf[s]] = "none"]
           \/ UNCHANGED cq
        /\ pc[s] = "dcqDev" /\ UNCHANGED <<sq, wpc, cur>>
    BY <1>2 DEF DeleteCq, work
  <2>3. ResurrectTypes'
    BY <1>t, <1>k, <1>c, <2>1, <2>2 DEF ResurrectTypes
  <2>4. MissingInv'
    BY <1>p, <1>t, <1>k, <2>1, <2>2 DEF MissingInv, Away
  <2>5. WorkPairInv'
    BY <1>p, <1>t, <1>k, <2>1, <2>2 DEF WorkPairInv, Away
  <2>6. SessionPairInv'
    BY <1>p, <1>t, <1>k, <2>1, <2>2 DEF SessionPairInv
  <2>7. PairedQueues'
    BY <1>p, <1>t, <1>k, <2>2 DEF PairedQueues
  <2> QED
    BY <2>3, <2>4, <2>5, <2>6, <2>7 DEF PairInv
<1>3. CASE CreateCq(s)
  <2>1. pc[s] = "ccqDev" /\ UNCHANGED <<sq, wpc, cur>>
    BY <1>3 DEF CreateCq, work
  <2>2. CASE UNCHANGED cq /\ Goto(s, "unq")
    BY <1>c, <1>u, <2>1, <2>2, SessionPair
  <2>3. CASE /\ cq[KeyOf[s]] = "none" /\ Goto(s, "csq")
             /\ cq' = [cq EXCEPT ![KeyOf[s]] = "user"]
    <3>1. sq[KeyOf[s]] = "none"
      BY <1>p, <1>k, <1>t, <2>3 DEF PairedQueues
    <3>2. ResurrectTypes'
      BY <1>t, <1>k, <1>c, <2>1, <2>3 DEF ResurrectTypes, Goto
    <3>3. MissingInv'
      BY <1>p, <1>t, <1>k, <2>3 DEF MissingInv, Goto
    <3>4. wpc = "sq" => cur # KeyOf[s]
      BY <1>p, <2>3 DEF WorkPairInv
    <3>5. WorkPairInv'
      BY <1>p, <1>t, <1>k, <2>1, <2>3, <3>4 DEF WorkPairInv, Goto
    <3>6. SessionPairInv'
      BY <1>p, <1>t, <1>k, <2>1, <2>3 DEF SessionPairInv, Goto
    <3>7. PairedQueues'
      BY <1>p, <1>t, <1>k, <2>1, <2>3, <3>1 DEF PairedQueues
    <3> QED
      BY <3>2, <3>3, <3>5, <3>6, <3>7 DEF PairInv
  <2> QED
    BY <1>3, <2>2, <2>3 DEF CreateCq
<1>4. CASE CreateSq(s)
  <2>1. pc[s] = "csqDev" /\ UNCHANGED <<cq, wpc, cur>>
    BY <1>4 DEF CreateSq, work
  <2>2. CASE UNCHANGED sq /\ Goto(s, "unq")
    BY <1>c, <1>u, <2>1, <2>2, SessionPair
  <2>3. CASE /\ sq[KeyOf[s]] = "none" /\ Goto(s, "run")
             /\ sq' = [sq EXCEPT ![KeyOf[s]] = "user"]
    <3>1. cq[KeyOf[s]] = "user"
      BY <1>p, <2>1, <2>3 DEF SessionPairInv
    <3>2. ResurrectTypes'
      BY <1>t, <1>k, <1>c, <2>1, <2>3 DEF ResurrectTypes, Goto
    <3>3. MissingInv'
      BY <1>p, <1>t, <1>k, <2>1, <2>3, <3>1 DEF MissingInv, Goto
    <3>5. WorkPairInv'
      BY <1>p, <1>t, <1>k, <2>1, <2>3, <3>1 DEF WorkPairInv, Goto
    <3>6. SessionPairInv'
      BY <1>p, <1>t, <1>k, <2>1, <2>3 DEF SessionPairInv, Goto
    <3>7. PairedQueues'
      BY <1>p, <1>t, <1>k, <2>1, <2>3, <3>1 DEF PairedQueues
    <3> QED
      BY <3>2, <3>3, <3>5, <3>6, <3>7 DEF PairInv
  <2> QED
    BY <1>4, <2>2, <2>3 DEF CreateSq
<1> QED
  BY <1>1, <1>2, <1>3, <1>4

\* The steps of the delayed work, and a reset of a controller.
LEMMA WorkPair ==
    ASSUME PairInv, WorkStep
    PROVE  PairInv'
<1> USE ResurrectAssumption
<1>p. /\ MissingInv /\ WorkPairInv /\ SessionPairInv /\ PairedQueues
      /\ pc \in [Sessions -> Steps]
      /\ cq \in [Keys -> Creators] /\ sq \in [Keys -> Creators]
  BY DEF PairInv, ResurrectTypes
<1>c. "kernel" \in Creators
  BY DEF Creators
<1>1. CASE ResurrectStart \/ ResurrectReset \/ ResurrectDone
  <2>1. UNCHANGED <<cq, sq, pc>> /\ wpc' # "sq"
    BY <1>1 DEF ResurrectStart, ResurrectReset, ResurrectDone, device
  <2> QED
    BY <1>p, <2>1 DEF PairInv, ResurrectTypes, MissingInv, WorkPairInv,
                      SessionPairInv, PairedQueues
<1>2. CASE ResurrectSq
  <2>1. wpc = "sq" /\ wpc' # "sq" /\ UNCHANGED <<cq, pc>>
    BY <1>2 DEF ResurrectSq
  <2>2. /\ cur \in Keys /\ cq[cur] = "kernel"
        /\ \A s \in Sessions : KeyOf[s] = cur => pc[s] \in Away
    BY <1>p, <2>1 DEF WorkPairInv
  <2>3. sq' = [sq EXCEPT ![cur] = "kernel"] \/ UNCHANGED sq
    BY <1>2 DEF ResurrectSq
  <2>4. ResurrectTypes'
    BY <1>p, <1>c, <2>1, <2>2, <2>3 DEF ResurrectTypes
  <2>5. MissingInv' /\ WorkPairInv'
    BY <1>p, <2>1 DEF MissingInv, WorkPairInv
  <2>6. SessionPairInv'
    BY <1>p, <2>1, <2>2, <2>3 DEF SessionPairInv
  <2>7. PairedQueues'
    BY <1>p, <2>1, <2>2, <2>3 DEF PairedQueues
  <2> QED
    BY <2>4, <2>5, <2>6, <2>7 DEF PairInv
<1>3. ASSUME NEW k \in Keys, ResurrectCq(k)
      PROVE  PairInv'
  <2>1. wpc = "pick" /\ UNCHANGED <<sq, pc>>
    BY <1>3 DEF ResurrectCq
  <2>2. CASE ~UNCHANGED <<cq, wpc>>
    <3>1. /\ cq[k] = "none" /\ cur' = k /\ wpc' = "sq"
          /\ cq' = [cq EXCEPT ![k] = "kernel"]
      BY <1>3, <1>p, <2>2 DEF ResurrectCq, Continue
    <3>2. sq[k] = "none"
      BY <1>p, <3>1 DEF PairedQueues
    <3>3. \A s \in Sessions : KeyOf[s] = k => pc[s] \in Away
      BY <1>p, <3>1 DEF MissingInv
    <3>4. ResurrectTypes'
      BY <1>p, <1>c, <2>1, <3>1 DEF ResurrectTypes
    <3>5. MissingInv'
      BY <1>p, <2>1, <3>1 DEF MissingInv
    <3>6. WorkPairInv'
      BY <1>p, <2>1, <3>1, <3>3 DEF WorkPairInv
    <3>7. SessionPairInv'
      BY <1>p, <2>1, <3>1, <3>3 DEF SessionPairInv, Away
    <3>8. PairedQueues'
      BY <1>p, <2>1, <3>1, <3>2 DEF PairedQueues
    <3> QED
      BY <3>4, <3>5, <3>6, <3>7, <3>8 DEF PairInv
  <2>3. CASE UNCHANGED <<cq, wpc>>
    BY <1>p, <2>1, <2>3 DEF PairInv, ResurrectTypes, MissingInv, WorkPairInv,
                            SessionPairInv, PairedQueues
  <2> QED
    BY <2>2, <2>3
<1> QED
  BY <1>1, <1>2, <1>3 DEF WorkStep

LEMMA ResetPair ==
    ASSUME PairInv, NEW b \in Bdfs, ControllerReset(b)
    PROVE  PairInv'
<1> USE ResurrectAssumption
<1>p. /\ MissingInv /\ WorkPairInv /\ SessionPairInv /\ PairedQueues
      /\ pc \in [Sessions -> Steps]
      /\ cq \in [Keys -> Creators] /\ sq \in [Keys -> Creators]
  BY DEF PairInv, ResurrectTypes
<1>c. "kernel" \in Creators
  BY DEF Creators
<1>1. UNCHANGED <<wpc, cur, pc>>
  BY DEF ControllerReset, work
<1>2. PICK all : /\ cq' = [k \in Keys |-> IF k \in all THEN "kernel" ELSE cq[k]]
                 /\ sq' = [k \in Keys |-> IF k \in all THEN "kernel" ELSE sq[k]]
  BY Zenon DEF ControllerReset
<1>3. ResurrectTypes'
  BY <1>p, <1>c, <1>1, <1>2 DEF ResurrectTypes
<1>4. MissingInv'
  BY <1>p, <1>1, <1>2 DEF MissingInv
<1>5. WorkPairInv'
  BY <1>p, <1>1, <1>2 DEF WorkPairInv
<1>6. SessionPairInv'
  BY <1>p, <1>1, <1>2 DEF SessionPairInv
<1>7. PairedQueues'
  BY <1>p, <1>1, <1>2 DEF PairedQueues
<1> QED
  BY <1>3, <1>4, <1>5, <1>6, <1>7 DEF PairInv

\* The steps of a session at which the controller executes nothing: the
\* quiesce and its end, the kprobe's parts, the end of the kernels, a setup that
\* fails and the end of a process that is killed.
LEMMA QuietStepPair ==
    ASSUME PairInv, NEW s \in Sessions,
           \/ Quiesce(s) \/ SetupFails(s) \/ KprobeDeleteCq(s) \/ ScheduleResurrect(s)
           \/ DebugResurrect(s) \/ KprobeCreate(s) \/ Finish(s) \/ Unquiesce(s) \/ Kill(s)
    PROVE  PairInv'
<1>1. UNCHANGED <<cq, sq, wpc, cur>>
  BY DEF Quiesce, SetupFails, KprobeDeleteCq, ScheduleResurrect, DebugResurrect,
         KprobeCreate, Finish, Unquiesce, Kill, device, work
<1>2. \E l \in Steps : /\ Goto(s, l)
                       /\ pc[s] \in Away => l \in Away
                       /\ l \in {"csq", "csqDev"} => pc[s] \in {"csq", "csqDev"}
  <2>1. CASE Quiesce(s)
    BY <2>1 DEF Quiesce, Steps, Away
  <2>2. CASE KprobeDeleteCq(s)
    <3>1. pc[s] = "dcq" /\ (Goto(s, "dcqDev") \/ Goto(s, "arm"))
      BY <2>2 DEF KprobeDeleteCq
    <3> QED
      BY <3>1 DEF Steps, Away
  <2>3. CASE ScheduleResurrect(s)
    BY <2>3 DEF ScheduleResurrect, Steps, Away
  <2>4. CASE DebugResurrect(s)
    <3>1. pc[s] = "ccq" /\ Goto(s, "unq")
      BY Zenon, <2>4 DEF DebugResurrect
    <3> QED
      BY <3>1 DEF Steps, Away
  <2>5. CASE KprobeCreate(s)
    <3>1. \/ pc[s] = "ccq" /\ Goto(s, "ccqDev")
          \/ pc[s] = "csq" /\ Goto(s, "csqDev")
      BY <2>5 DEF KprobeCreate
    <3> QED
      BY <3>1 DEF Steps, Away
  <2>6. CASE Finish(s)
    BY <2>6 DEF Finish, Steps, Away
  <2>7. CASE Unquiesce(s)
    BY <2>7 DEF Unquiesce, Steps, Away
  <2>8. CASE SetupFails(s)
    BY <2>8 DEF SetupFails, Steps, Away
  <2>9. CASE Kill(s)
    BY <2>9 DEF Kill, Steps, Away
  <2> QED
    BY <2>1, <2>2, <2>3, <2>4, <2>5, <2>6, <2>7, <2>8, <2>9
<1>3. PICK l \in Steps : /\ Goto(s, l)
                         /\ pc[s] \in Away => l \in Away
                         /\ l \in {"csq", "csqDev"} => pc[s] \in {"csq", "csqDev"}
  BY <1>2
<1> QED
  BY <1>1, <1>3, SessionPair

LEMMA NextPair ==
    ASSUME OneSession, PairInv, [ResurrectNext]_resurrectVars
    PROVE  PairInv'
<1>1. CASE \E s \in Sessions : \/ Quiesce(s) \/ SetupFails(s) \/ SessionStep(s)
                               \/ DebugResurrect(s) \/ Kill(s)
  BY <1>1, QuietStepPair, CommandPair DEF SessionStep
<1>2. CASE WorkStep
  BY <1>2, WorkPair
<1>3. CASE \E k \in Keys : KernelIo(k)
  <2>1. UNCHANGED <<cq, sq, wpc, cur, pc>>
    BY <1>3 DEF KernelIo, work
  <2> QED
    BY <2>1 DEF PairInv, ResurrectTypes, MissingInv, WorkPairInv, SessionPairInv,
                PairedQueues
<1>4. CASE \E b \in Bdfs : ControllerReset(b)
  BY <1>4, ResetPair
<1>5. CASE UNCHANGED resurrectVars
  BY <1>5 DEF resurrectVars, device, work, PairInv, ResurrectTypes, MissingInv, WorkPairInv,
              SessionPairInv, PairedQueues
<1> QED
  BY <1>1, <1>2, <1>3, <1>4, <1>5 DEF ResurrectNext

\* PairedQueues for any number of processes, queues and controllers, whichever
\* commands the controller refuses, allocations fail and processes are killed: a queue's SQ and CQ
\* never come from different hands, whatever the order of the commands of its
\* process, of the kprobe's delayed work and of resets.
THEOREM QueuesStayPaired ==
    ASSUME OneSession
    PROVE  ResurrectSpec => []PairedQueues
<1>1. PairInv => PairedQueues
  BY DEF PairInv
<1> QED
  BY <1>1, InitPair, NextPair, PTL DEF ResurrectSpec

-----------------------------------------------------------------------------
(* Division with remainder.                                                *)

\* A number is its quotient and its remainder.
LEMMA DivMod ==
    ASSUME NEW n \in Nat, NEW d \in Nat \ {0}
    PROVE  /\ n \div d \in Nat
           /\ n % d \in 0 .. d - 1
           /\ n = d * (n \div d) + (n % d)
  OBVIOUS

\* Quotient and remainder are unique.
LEMMA DivUnique ==
    ASSUME NEW d \in Nat \ {0}, NEW q \in Nat, NEW r \in 0 .. d - 1
    PROVE  /\ (d * q + r) \div d = q
           /\ (d * q + r) % d = r
  <1> DEFINE n == d * q + r
  <1>1. n \in Nat
    OBVIOUS
  <1>2. /\ n \div d \in Nat
        /\ n % d \in 0 .. d - 1
        /\ n = d * (n \div d) + (n % d)
    BY Zenon, <1>1, DivMod
  <1> HIDE DEF n
  <1>3. ASSUME NEW a \in Nat, NEW s \in 0 .. d - 1, d * q + r = d * a + s
        PROVE  a = q
    <2>1. ASSUME a > q PROVE FALSE
      <3>1. d * (a - q) >= d
        BY <2>1
      <3>2. d * (a - q) = d * a - d * q
        OBVIOUS
      <3> QED  BY <3>1, <3>2, <1>3
    <2>2. ASSUME a < q PROVE FALSE
      <3>1. d * (q - a) >= d
        BY <2>2
      <3>2. d * (q - a) = d * q - d * a
        OBVIOUS
      <3> QED  BY <3>1, <3>2, <1>3
    <2> QED  BY <2>1, <2>2
  <1>4. n \div d = q
    BY Zenon, <1>2, <1>3 DEF n
  <1> QED  BY <1>2, <1>4 DEF n

\* The same facts, with a name for each number.
LEMMA DivPick ==
    ASSUME NEW n \in Nat, NEW d \in Nat \ {0}
    PROVE  \E q \in Nat, r \in 0 .. d - 1 : q = n \div d /\ r = n % d /\ n = d * q + r
  BY DivMod, Zenon

\* Uniqueness, for a number that is given a name.
LEMMA DivIs ==
    ASSUME NEW d \in Nat \ {0}, NEW n \in Nat, NEW q \in Nat, NEW r \in 0 .. d - 1,
           n = d * q + r
    PROVE  n \div d = q /\ n % d = r
  BY DivUnique, Zenon

-----------------------------------------------------------------------------
(* KmodAddress: for every field width, device and buffer.                  *)

\* pci_dev_to_bdf loses nothing: get_nvme_device_info, the bridge lookup and
\* the resurrection decode a BDF word to the device it was made from, as long
\* as the domain number fits its field.
THEOREM BdfRoundTrip ==
    ASSUME NEW d \in PciAddress, d.domain < Domains
    PROVE  DecodeBdf(pci_dev_to_bdf(d)) = d
  <1> DEFINE w == Buses * Devfns
             low == d.bus * Devfns + d.devfn
             bdf == pci_dev_to_bdf(d)
  <1> USE FieldsAssumption
  <1>1. /\ d.domain \in Nat /\ d.bus \in 0 .. Buses - 1 /\ d.devfn \in 0 .. Devfns - 1
        /\ d = [domain |-> d.domain, bus |-> d.bus, devfn |-> d.devfn]
    BY Zenon DEF PciAddress
  <1>2. w \in Nat \ {0} /\ low \in Nat
    BY <1>1
  <1>3. low < w
    <2>1. ASSUME NEW x \in Nat, NEW y \in Nat, x <= y, NEW k \in Nat
          PROVE  x * k <= y * k
      <3>1. (y - x) * k >= 0
        BY <2>1
      <3> QED  BY <2>1, <3>1
    <2>3. d.bus * Devfns <= (Buses - 1) * Devfns
      BY <1>1, <2>1
    <2>2. (Buses - 1) * Devfns = w - Devfns
      OBVIOUS
    <2> QED  BY <1>1, <2>3, <2>2
  <1>4. d.domain % Domains = d.domain
    <2>1. PICK q \in Nat, r \in 0 .. Domains - 1 :
             q = d.domain \div Domains /\ r = d.domain % Domains /\ d.domain = Domains * q + r
      <3>1. d.domain \in Nat /\ Domains \in Nat \ {0}
        BY Zenon, <1>1
      <3> QED  BY <3>1, DivPick, Zenon
    <2>2. q = 0
      <3>1. ASSUME q >= 1 PROVE FALSE
        <4>1. Domains * (q - 1) >= 0
          BY <3>1
        <4> QED  BY <1>1, <2>1, <4>1
      <3> QED  BY <3>1
    <2>3. d.domain = r
      BY <1>1, <2>1, <2>2
    <2> QED  BY Zenon, <2>1, <2>3
  <1>5. bdf = w * d.domain + low
    BY <1>1, <1>4 DEF pci_dev_to_bdf
  <1>6. bdf \in Nat
    BY <1>1, <1>2, <1>5
  <1>7. bdf \div w = d.domain
    <2>1. low \in 0 .. w - 1
      BY <1>2, <1>3
    <2> HIDE DEF w, low, bdf
    <2> QED  BY Zenon, <1>1, <1>2, <1>5, <1>6, <2>1, DivIs
  <1>8. /\ bdf \div Devfns = Buses * d.domain + d.bus
        /\ bdf % Devfns = d.devfn
    <2>1. bdf = Devfns * (Buses * d.domain + d.bus) + d.devfn
      BY <1>1, <1>5
    <2>2. Buses * d.domain + d.bus \in Nat
      BY <1>1
    <2> HIDE DEF bdf
    <2> QED  BY <1>1, <1>6, <2>1, <2>2, DivIs
  <1>9. (Buses * d.domain + d.bus) % Buses = d.bus
    BY Zenon, <1>1, DivUnique
  <1> QED
    BY Zenon, <1>1, <1>4, <1>7, <1>8, <1>9 DEF DecodeBdf

\* A set of numbers that is not empty has a least one.
LEMMA LeastNat ==
    ASSUME NEW T \in SUBSET Nat, T # {}
    PROVE  \E m \in T : \A j \in T : m <= j
  <1> DEFINE R == {ss \in Nat \X Nat : ss[1] < ss[2]}
  <1>1. IsWellFoundedOn(R, Nat)
    BY Zenon, NatLessThanWellFounded DEF OpToRel
  <1>2. PICK m \in T : \A j \in T : ~(<<j, m>> \in R)
    <2> HIDE DEF R
    <2> QED  BY Zenon, <1>1, WFMin
  <1>3. ASSUME NEW j \in T PROVE m <= j
    <2>1. <<j, m>> \in Nat \X Nat /\ <<j, m>>[1] = j /\ <<j, m>>[2] = m
      BY Zenon
    <2>2. ~(j < m)
      BY Zenon, <1>2, <2>1
    <2> QED  BY <2>2
  <1> QED  BY Zenon, <1>3

\* The segments an address is looked up in have natural bounds.
LEMMA SegmentsTyped ==
    ASSUME NEW sgs \in Seq(Segment), NEW i \in 1 .. Len(sgs)
    PROVE  sgs[i].phys \in Nat /\ sgs[i].dma \in Nat
  <1>1. sgs[i] \in Segment
    OBVIOUS
  <1> QED  BY Zenon, <1>1 DEF Segment

\* extract_vram_offset_from_sg stops at a segment if one lies in the BAR.
LEMMA FirstSegment ==
    ASSUME NEW sgs \in Seq(Segment), NEW bar, NEW i \in DOMAIN sgs,
           InBar(sgs[i].phys, bar)
    PROVE  FirstInBar(sgs, bar) # 0
  <1> DEFINE P(j) == j \in DOMAIN sgs /\ InBar(sgs[j].phys, bar)
  <1>1. \E m \in {j \in Nat : P(j)} : \A j \in {j \in Nat : P(j)} : m <= j
    <2> HIDE DEF P
    <2>1. i \in {j \in Nat : P(j)}
      BY DEF P
    <2> QED  BY Zenon, <2>1, LeastNat
  <1>2. FirstInBar(sgs, bar) \in DOMAIN sgs
    BY <1>1 DEF FirstInBar
  <1> QED  BY <1>2

\* The segment extract_vram_offset_from_sg stops at lies in the BAR.
LEMMA FirstIsInBar ==
    ASSUME NEW sgs \in Seq(Segment), NEW bar, FirstInBar(sgs, bar) # 0
    PROVE  /\ FirstInBar(sgs, bar) \in 1 .. Len(sgs)
           /\ InBar(sgs[FirstInBar(sgs, bar)].phys, bar)
  <1> DEFINE P(i) == i \in DOMAIN sgs /\ InBar(sgs[i].phys, bar)
  <1>1. PICK i \in DOMAIN sgs : InBar(sgs[i].phys, bar)
    BY Zenon DEF FirstInBar
  <1>2. \E m \in {j \in Nat : P(j)} : \A j \in {j \in Nat : P(j)} : m <= j
    <2> HIDE DEF P
    <2>1. i \in {j \in Nat : P(j)}
      BY <1>1 DEF P
    <2> QED  BY Zenon, <2>1, LeastNat
  <1> QED
    BY <1>1, <1>2 DEF FirstInBar

\* get_dmabuf_bar_gpa goes by the TTM resource, to an offset that is not in the
\* BAR: no segment of the buffer lies there.
OffsetBehindBar(sgs, bar, ttm) ==
    /\ sgs # <<>> /\ \A i \in DOMAIN sgs : ~InBar(sgs[i].phys, bar)
    /\ ttm.present /\ ttm.vram /\ ttm.start * PageSize >= bar.len

\* GET_VRAM_PHYS_ADDR answers an address outside of the GPU's BAR 0 in one case
\* and no other: the one extract_vram_offset_from_amdgpu_bo warns about and lets
\* pass.  The physical address of a segment, the DMA address that is taken for
\* an offset and the base that stands in for one never lead out of the BAR.
THEOREM BarGpaInBar ==
    ASSUME NEW bars, bars[0] \in Bar, NEW sgs \in Seq(Segment), NEW ttm \in Resource,
           get_dmabuf_bar_gpa(bars, sgs, ttm) # -1
    PROVE  InBar(get_dmabuf_bar_gpa(bars, sgs, ttm), bars[0])
             <=> ~OffsetBehindBar(sgs, bars[0], ttm)
  <1> DEFINE bar == bars[0]
             offset == extract_vram_offset_from_sg(sgs, bar, ttm)
             behind == OffsetBehindBar(sgs, bar, ttm)
  <1> USE FieldsAssumption
  <1>1. bar.start \in Nat /\ bar.len \in Nat \ {0}
    BY Zenon DEF Bar
  <1>2. IF behind THEN offset \in Nat /\ offset >= bar.len
                  ELSE offset = -1 \/ offset \in 0 .. bar.len - 1
    <2>1. CASE sgs = <<>>
      BY Zenon, <2>1 DEF extract_vram_offset_from_sg, OffsetBehindBar
    <2>2. CASE sgs # <<>> /\ FirstInBar(sgs, bar) # 0
      <3>1. /\ FirstInBar(sgs, bar) \in 1 .. Len(sgs)
            /\ InBar(sgs[FirstInBar(sgs, bar)].phys, bar)
        BY <2>2, FirstIsInBar, Zenon
      <3>2. sgs[FirstInBar(sgs, bar)].phys \in Nat
        BY Zenon, <3>1, SegmentsTyped
      <3>3. offset = sgs[FirstInBar(sgs, bar)].phys - bar.start
        BY Zenon, <2>2 DEF extract_vram_offset_from_sg
      <3>4. PICK phys \in Nat : InBar(phys, bar) /\ offset = phys - bar.start
        BY Zenon, <3>1, <3>2, <3>3
      <3>5. phys >= bar.start /\ phys < bar.start + bar.len
        BY Zenon, <3>4 DEF InBar
      <3>6. phys - bar.start \in 0 .. bar.len - 1
        BY <1>1, <3>5
      <3>7. DOMAIN sgs = 1 .. Len(sgs)
        OBVIOUS
      <3>8. ~behind
        BY Zenon, <3>1, <3>7 DEF OffsetBehindBar
      <3> QED  BY Zenon, <3>4, <3>6, <3>8
    <2>3. CASE sgs # <<>> /\ FirstInBar(sgs, bar) = 0
      <3> DEFINE bo == extract_vram_offset_from_amdgpu_bo(ttm)
      <3>1. sgs[1].dma \in Nat
        <4>1. 1 \in 1 .. Len(sgs)
          BY <2>3
        <4> QED  BY Zenon, <4>1, SegmentsTyped
      <3>2. \A i \in DOMAIN sgs : ~InBar(sgs[i].phys, bar)
        BY <2>3, FirstSegment
      <3>3. /\ bo = -1 \/ bo \in Nat
            /\ behind <=> (bo # -1 /\ bo >= bar.len)
        BY <1>1, <2>3, <3>2 DEF extract_vram_offset_from_amdgpu_bo, Resource, OffsetBehindBar
      <3>4. offset = IF bo # -1 THEN bo
                     ELSE IF 0 < sgs[1].dma /\ sgs[1].dma < bar.len THEN sgs[1].dma
                     ELSE -1
        BY Zenon, <2>3 DEF extract_vram_offset_from_sg
      <3> HIDE DEF bo, behind, offset
      <3> QED
        BY <1>1, <3>1, <3>3, <3>4
    <2> QED  BY Zenon, <2>1, <2>2, <2>3
  <1>3. get_dmabuf_bar_gpa(bars, sgs, ttm) = IF offset # -1 THEN bar.start + offset
                                                            ELSE bar.start
    BY Zenon DEF get_dmabuf_bar_gpa
  <1> HIDE DEF offset, behind
  <1>4. InBar(get_dmabuf_bar_gpa(bars, sgs, ttm), bar) <=> ~behind
    BY <1>1, <1>2, <1>3 DEF InBar
  <1> QED
    BY Zenon, <1>4 DEF behind

-----------------------------------------------------------------------------
(* KmodModule: the invariant of the module and its references.             *)

\* An entry of pending_snapshots: a queue the driver has at least allocated.
Entry == [queue : Queues, of : {"alloc", "created"}, nvme_dev : Nat]

Registered == {"chrdev", "class", "device", "kprobe", "allocKrp", "createKrp"}

TypeInv ==
    /\ phase \in {"loading", "loaded", "unloading", "gone"}
    /\ step \in 1 .. (IF phase = "loading" THEN 6 ELSE 15) /\ (phase = "loaded" => step = 1)
    /\ made \subseteq Registered /\ inject \in BOOLEAN /\ skipped \in BOOLEAN
    /\ open \in BOOLEAN /\ lists \subseteq Lists
    /\ bound \in [Nvmes -> Nat] /\ host \in [Queues -> {"none", "alloc", "created"}]
    /\ pending \in Seq(Entry) /\ local \in Seq(Entry)
    /\ queued \subseteq Works /\ running \subseteq Works /\ found \in BOOLEAN
    /\ snapshot \in [Queues -> {"none", "alloc", "created"}]
    /\ refs \in [Devices -> Int]
    /\ call \in [dev : Devices \union {None}, for : {"none", "info", "shadow"}]
    /\ call.dev = None <=> call.for = "none"
    /\ held \in Devices \union {None}

\* The snapshot work has a list, and each work a device in hand, only while it
\* runs.
WorkInv ==
    /\ local # <<>> => "snapshot" \in running
    /\ found => local # <<>>
    /\ held # None => "resurrect" \in running

RefInv == TypeInv /\ WorkInv /\ PciRefsExact

-----------------------------------------------------------------------------

\* Step x of rocm_xio_exit is behind the module, or the load has failed.
Passed(x) ==
    \/ phase = "gone"
    \/ phase = "unloading" /\ \E i \in 1 .. step - 1 : ExitSteps[i] = x

\* Requests come from an open file, and the device node must exist for that.
FileInv ==
    /\ open => phase \in {"loading", "loaded"}
    /\ call # Idle => open
    /\ skipped => phase \in {"unloading", "gone"}

\* Before the device node exists nothing has happened.
LoadInv ==
    phase = "loading" =>
        /\ made \subseteq {InitSteps[i] : i \in 1 .. step - 1}
        /\ step <= 3 => /\ ~open /\ lists = {} /\ pending = <<>> /\ queued = {} /\ running = {}
                        /\ \A q \in Queues : snapshot[q] = "none"

\* What each step of the exit has disposed of stays so.
ExitInv ==
    /\ Passed("kprobe") /\ "kprobe" \in made => skipped
    /\ \A x \in Registered \ {"kprobe"} : Passed(x) => x \notin made
    /\ Passed("snapshot") => "snapshot" \notin queued \union running
    /\ Passed("resurrect") => skipped \/ "resurrect" \notin queued \union running
    /\ Passed("pending") => pending = <<>>
    /\ Passed("snapshots") => \A q \in Queues : snapshot[q] = "none"
    /\ \A l \in Lists : Passed(l) => l \notin lists \/ (l = "poisoned_qids" /\ skipped)

TeardownInv == FileInv /\ LoadInv /\ ExitInv

-----------------------------------------------------------------------------
(* The tables of steps, sequences of entries.                              *)

\* rocm_xio_init has six steps, rocm_xio_exit fifteen.
LEMMA Tables ==
    /\ Len(InitSteps) = 6 /\ Len(ExitSteps) = 15
    /\ \A i \in 1 .. 6 : InitSteps[i] \in Registered
    /\ {InitSteps[i] : i \in DOMAIN InitSteps} = Registered
  <1>1. Len(InitSteps) = 6 /\ Len(ExitSteps) = 15 /\ DOMAIN InitSteps = 1 .. 6
    BY DEF InitSteps, ExitSteps
  <1>2. /\ InitSteps[1] = "chrdev" /\ InitSteps[2] = "class" /\ InitSteps[3] = "device"
        /\ InitSteps[4] = "kprobe" /\ InitSteps[5] = "allocKrp" /\ InitSteps[6] = "createKrp"
    BY Zenon DEF InitSteps
  <1>3. 1 .. 6 = {1, 2, 3, 4, 5, 6}
    OBVIOUS
  <1> QED  BY <1>1, <1>2, <1>3 DEF Registered

\* Taking an entry off a list and putting one at its head.
LEMMA EntrySeq ==
    ASSUME NEW s \in Seq(Entry)
    PROVE  /\ s # <<>> => Head(s) \in Entry /\ Tail(s) \in Seq(Entry)
           /\ <<>> \in Seq(Entry) /\ \A e \in Entry : <<e>> \o s \in Seq(Entry)
  OBVIOUS

\* A queue's device is an NVMe device, and the bridges are others.
LEMMA QueueDevice ==
    /\ \A q \in Queues : DevOf[q] \in Nvmes /\ DevOf[q] \in Devices
    /\ Nvmes \subseteq Devices /\ Bridges \subseteq Devices
  BY Zenon DEF Nvmes, Devices

\* The handlers of the probes keep the capture's types.
LEMMA HandlerType ==
    ASSUME TypeInv, NEW p, NEW q \in Queues, NEW of \in {"alloc", "created"}, Handler(p, q, of)
    PROVE  pending' \in Seq(Entry) /\ queued' \subseteq Works
  <1>1. PICK e : e = [queue |-> q, of |-> of, nvme_dev |-> bound[DevOf[q]]]
    BY Zenon
  <1>2. e \in Entry
    BY Zenon, <1>1, QueueDevice DEF TypeInv, Entry
  <1>3. CASE Capture(q, of)
    BY Zenon, <1>1, <1>2, <1>3, EntrySeq DEF Capture, TypeInv, Works
  <1>4. CASE pending' = pending /\ queued' = queued
    BY Zenon, <1>4 DEF TypeInv
  <1> QED  BY Zenon, <1>3, <1>4 DEF Handler

-----------------------------------------------------------------------------
(* Types, and what the snapshot work holds.                                *)

\* The steps that only move rocm_xio_init and rocm_xio_exit on.
LEMMA ControlType ==
    ASSUME TypeInv, WorkInv,
           InitStep \/ InitFails \/ ProbeRefused \/ SetParameter \/ ExitStarts
    PROVE  TypeInv' /\ WorkInv'
  <1>1. UNCHANGED <<open, lists, bound, host, pending, queued, running, local, found, snapshot,
                    refs, call, held>>
    <2>1. CASE InitStep \/ InitFails \/ ProbeRefused
      BY Zenon, <2>1 DEF InitStep, InitFails, ProbeRefused, capture, lookups
    <2>2. CASE SetParameter \/ ExitStarts
      BY Zenon, <2>2 DEF SetParameter, ExitStarts, capture, lookups
    <2> QED  BY Zenon, <2>1, <2>2
  <1>2. /\ phase' \in {"loading", "loaded", "unloading", "gone"}
        /\ step' \in 1 .. (IF phase' = "loading" THEN 6 ELSE 15) /\ (phase' = "loaded" => step' = 1)
    <2>1. /\ phase \in {"loading", "loaded", "unloading", "gone"}
          /\ step \in 1 .. (IF phase = "loading" THEN 6 ELSE 15) /\ (phase = "loaded" => step = 1)
      BY Zenon DEF TypeInv
    <2>2. CASE InitStep \/ ProbeRefused
      <3>1. /\ phase = "loading" /\ phase' = IF step = 6 THEN "loaded" ELSE "loading"
            /\ step' = IF step = 6 THEN 1 ELSE step + 1
        BY Zenon, <2>2, Tables DEF InitStep, ProbeRefused, InitDone
      <3> QED  BY <2>1, <3>1
    <2>3. CASE InitFails
      <3>1. phase = "loading" /\ phase' = "gone" /\ step' = step
        BY Zenon, <2>3 DEF InitFails
      <3> QED  BY <2>1, <3>1
    <2>4. CASE SetParameter
      BY Zenon, <2>1, <2>4 DEF SetParameter
    <2>5. CASE ExitStarts
      <3>1. phase = "loaded" /\ phase' = "unloading" /\ step' = step
        BY Zenon, <2>5 DEF ExitStarts
      <3> QED  BY <2>1, <3>1
    <2> QED  BY Zenon, <2>2, <2>3, <2>4, <2>5
  <1>3. made' \subseteq Registered /\ inject' \in BOOLEAN /\ skipped' \in BOOLEAN
    <2>1. CASE InitStep
      BY <2>1, Tables DEF TypeInv, InitStep
    <2>2. CASE InitFails
      BY Zenon, <2>2 DEF TypeInv, InitFails, Unwind
    <2>3. CASE ProbeRefused \/ SetParameter \/ ExitStarts
      BY Zenon, <2>3 DEF TypeInv, ProbeRefused, SetParameter, ExitStarts
    <2> QED  BY Zenon, <2>1, <2>2, <2>3
  <1> QED  BY Zenon, <1>1, <1>2, <1>3 DEF TypeInv, WorkInv

\* The NVMe driver and the probes.
LEMMA DriverType ==
    ASSUME TypeInv, WorkInv, Driver
    PROVE  TypeInv' /\ WorkInv'
  <1>1. /\ UNCHANGED <<phase, step, made, inject, skipped, open, lists, running, local, found,
                       snapshot, refs, call, held>>
    BY Zenon DEF Driver, AllocQueue, CreateQueue, Rebind, DriverCalls, control, lookups
  <1> DEFINE CaptureTypes ==
          /\ host' \in [Queues -> {"none", "alloc", "created"}] /\ bound' \in [Nvmes -> Nat]
          /\ pending' \in Seq(Entry) /\ queued' \subseteq Works
  <1>2. CaptureTypes
    <2>1. ASSUME NEW q \in Queues, AllocQueue(q)
          PROVE  CaptureTypes
      <3>1. /\ host' = [host EXCEPT ![q] = IF @ = "none" THEN "alloc" ELSE @]
            /\ bound' = bound /\ Handler("allocKrp", q, host'[q])
        BY Zenon, <2>1 DEF AllocQueue
      <3>2. PICK of : of = host'[q]
        BY Zenon
      <3>3. of \in {"alloc", "created"} /\ host' \in [Queues -> {"none", "alloc", "created"}]
        BY <3>1, <3>2 DEF TypeInv
      <3>4. pending' \in Seq(Entry) /\ queued' \subseteq Works
        BY Zenon, <3>1, <3>2, <3>3, HandlerType
      <3> QED  BY Zenon, <3>1, <3>3, <3>4 DEF TypeInv
    <2>2. ASSUME NEW q \in Queues, CreateQueue(q)
          PROVE  CaptureTypes
      <3>1. pending' \in Seq(Entry) /\ queued' \subseteq Works
        BY Zenon, <2>2, HandlerType DEF CreateQueue
      <3> QED  BY Zenon, <2>2, <3>1 DEF CreateQueue, TypeInv
    <2>3. ASSUME NEW d \in Nvmes, Rebind(d)
          PROVE  CaptureTypes
      BY <2>3 DEF Rebind, TypeInv
    <2> QED  BY Zenon, <2>1, <2>2, <2>3 DEF Driver
  <1> QED  BY <1>1, <1>2 DEF TypeInv, WorkInv

\* The snapshot work.
LEMMA WorkType ==
    ASSUME TypeInv, WorkInv, SnapshotWork
    PROVE  TypeInv' /\ WorkInv'
  <1>1. UNCHANGED <<phase, step, made, inject, skipped, open, lists, bound, host, call, held>>
    BY Zenon DEF SnapshotWork, SnapshotWorkStarts, ResolveDevice, StoreSnapshot, StoreFails,
           SnapshotWorkEnds, InWork, control, lookups
  <1> DEFINE WorkTypes ==
          /\ pending' \in Seq(Entry) /\ local' \in Seq(Entry)
          /\ queued' \subseteq Works /\ running' \subseteq Works /\ found' \in BOOLEAN
          /\ snapshot' \in [Queues -> {"none", "alloc", "created"}]
          /\ refs' \in [Devices -> Int]
  <1>2. CASE SnapshotWorkStarts
    <2>1. WorkTypes
      BY <1>2 DEF SnapshotWorkStarts, TypeInv, Works
    <2>2. WorkInv'
      BY Zenon, <1>1, <1>2 DEF SnapshotWorkStarts, WorkInv
    <2> QED  BY Zenon, <1>1, <2>1, <2>2 DEF TypeInv
  <1>3. CASE ResolveDevice \/ StoreSnapshot \/ StoreFails
    <2>1. /\ UNCHANGED <<pending, queued, running>> /\ "snapshot" \in running /\ local # <<>>
      BY Zenon, <1>3 DEF ResolveDevice, StoreSnapshot, StoreFails, InWork
    <2>2. PICK e \in Entry : e = Head(local) /\ e.queue \in Queues /\ e.of \in {"alloc", "created"}
      BY Zenon, <2>1, EntrySeq DEF TypeInv, Entry
    <2>3. Tail(local) \in Seq(Entry)
      BY Zenon, <2>1, EntrySeq DEF TypeInv
    <2>4. CASE ResolveDevice
      <3>1. refs' \in [Devices -> Int]
        BY <2>2, <2>4, QueueDevice DEF ResolveDevice, TypeInv
      <3>2. WorkTypes
        BY Zenon, <2>1, <2>3, <2>4, <3>1 DEF ResolveDevice, TypeInv
      <3>3. WorkInv'
        BY Zenon, <1>1, <2>1, <2>4 DEF ResolveDevice, WorkInv
      <3> QED  BY Zenon, <1>1, <3>2, <3>3 DEF TypeInv
    <2>5. CASE StoreSnapshot
      <3>1. refs' \in [Devices -> Int]
        BY <2>2, <2>5, QueueDevice DEF StoreSnapshot, StoreRefs, TypeInv
      <3>2. WorkTypes
        BY Zenon, <2>1, <2>2, <2>3, <2>5, <3>1 DEF StoreSnapshot, TypeInv
      <3>3. WorkInv'
        BY Zenon, <1>1, <2>1, <2>5 DEF StoreSnapshot, WorkInv
      <3> QED  BY Zenon, <1>1, <3>2, <3>3 DEF TypeInv
    <2>6. CASE StoreFails
      <3>1. refs' \in [Devices -> Int]
        BY <2>2, <2>6, QueueDevice DEF StoreFails, TypeInv
      <3>2. WorkTypes
        BY Zenon, <2>1, <2>3, <2>6, <3>1 DEF StoreFails, TypeInv
      <3>3. WorkInv'
        BY Zenon, <1>1, <2>1, <2>6 DEF StoreFails, WorkInv
      <3> QED  BY Zenon, <1>1, <3>2, <3>3 DEF TypeInv
    <2> QED  BY Zenon, <1>3, <2>4, <2>5, <2>6
  <1>4. CASE SnapshotWorkEnds
    <2>1. WorkTypes
      BY Zenon, <1>4 DEF SnapshotWorkEnds, TypeInv
    <2>2. WorkInv'
      BY Zenon, <1>1, <1>4 DEF SnapshotWorkEnds, WorkInv
    <2> QED  BY Zenon, <1>1, <2>1, <2>2 DEF TypeInv
  <1> QED  BY Zenon, <1>2, <1>3, <1>4 DEF SnapshotWork

\* The resurrect work.
LEMMA ResurrectType ==
    ASSUME TypeInv, WorkInv, ResurrectWork
    PROVE  TypeInv' /\ WorkInv'
  <1>1. UNCHANGED <<phase, step, made, inject, skipped, open, lists, bound, host, pending, local,
                    found, snapshot, call>>
    BY Zenon DEF ResurrectWork, ResurrectStarts, ResurrectGets, ResurrectPuts, ResurrectEnds,
           InResurrect, control, lookups
  <1>2. /\ queued' \subseteq Works /\ running' \subseteq Works
        /\ "snapshot" \in running => "snapshot" \in running'
    BY Zenon DEF ResurrectWork, ResurrectStarts, ResurrectGets, ResurrectPuts, ResurrectEnds,
           InResurrect, TypeInv, Works
  <1>3. /\ held' \in Devices \union {None}
        /\ held' # None => "resurrect" \in running'
    <2>1. ASSUME NEW d \in Nvmes, ResurrectGets(d)
          PROVE  held' \in Devices /\ "resurrect" \in running'
      BY Zenon, <2>1, QueueDevice DEF ResurrectGets, InResurrect
    <2>2. CASE ResurrectPuts \/ ResurrectEnds
      BY Zenon, <2>2 DEF ResurrectPuts, ResurrectEnds
    <2>3. CASE ResurrectStarts
      BY Zenon, <2>3 DEF ResurrectStarts, lookups, TypeInv
    <2> QED  BY Zenon, <2>1, <2>2, <2>3 DEF ResurrectWork
  <1>4. refs' \in [Devices -> Int]
    <2>1. ASSUME NEW d \in Nvmes, ResurrectGets(d)
          PROVE  refs' \in [Devices -> Int]
      BY <2>1, QueueDevice DEF ResurrectGets, TypeInv
    <2>2. CASE ResurrectPuts
      <3>1. held \in Devices
        BY Zenon, <2>2 DEF ResurrectPuts, TypeInv
      <3> QED  BY <2>2, <3>1 DEF ResurrectPuts, TypeInv
    <2>3. CASE ResurrectStarts \/ ResurrectEnds
      BY Zenon, <2>3 DEF ResurrectStarts, ResurrectEnds, TypeInv
    <2> QED  BY Zenon, <2>1, <2>2, <2>3 DEF ResurrectWork
  <1>5. TypeInv'
    BY Zenon, <1>1, <1>2, <1>3, <1>4 DEF TypeInv
  <1>6. WorkInv'
    BY Zenon, <1>1, <1>2, <1>3 DEF WorkInv
  <1> QED  BY Zenon, <1>5, <1>6

\* The kprobe and the requests of a file.
LEMMA RequestType ==
    ASSUME TypeInv, WorkInv, KprobeMarks \/ KprobeSchedules \/ Requests
    PROVE  TypeInv' /\ WorkInv'
  <1>1. CASE KprobeMarks \/ KprobeSchedules
    <2>1. /\ UNCHANGED <<phase, step, made, inject, skipped, open, bound, host, pending, local,
                         running, found, snapshot, refs, call, held>>
          /\ lists' \subseteq Lists /\ queued' \subseteq Works
      BY Zenon, <1>1 DEF KprobeMarks, KprobeSchedules, TypeInv, Lists, Works, control,
                  capture, lookups
    <2> QED  BY <2>1 DEF TypeInv, WorkInv
  <1>2. CASE Requests
    <2>1. UNCHANGED <<phase, step, made, inject, skipped, bound, host, pending, local,
                      queued, running, found, snapshot, held>>
      BY Zenon, <1>2 DEF Requests, OpenFile, CloseFile, ReadDeviceInfo, ReadBridgeShadow, PutDevice,
                  IoctlAdds, GetDeviceInfo, GetMmioBridgeShadow, LookupDevice, control, capture,
                  lookups
    <2>2. CASE OpenFile \/ CloseFile \/ \E l \in Lists : IoctlAdds(l)
      <3>1. open' \in BOOLEAN /\ lists' \subseteq Lists /\ refs' = refs /\ call' = call
        BY Zenon, <2>2 DEF OpenFile, CloseFile, IoctlAdds, TypeInv, lookups
      <3> QED  BY <2>1, <3>1 DEF TypeInv, WorkInv
    <2>3. ASSUME NEW d \in Devices, NEW for \in {"info", "shadow"}, LookupDevice(d, for)
          PROVE  TypeInv' /\ WorkInv'
      <3>1. /\ open' = open /\ lists' = lists /\ refs' \in [Devices -> Int]
            /\ call' = [dev |-> d, for |-> for]
        BY <2>3 DEF LookupDevice, TypeInv
      <3>2. /\ call' \in [dev : Devices \union {None}, for : {"none", "info", "shadow"}]
            /\ call'.dev = None <=> call'.for = "none"
        BY Zenon, <2>3, <3>1, ModuleAssumption
      <3> QED  BY Zenon, <2>1, <3>1, <3>2 DEF TypeInv, WorkInv
    <2>4. CASE ReadDeviceInfo \/ ReadBridgeShadow
      <3>1. open' = open /\ lists' = lists /\ call' = Idle
        BY Zenon, <2>4 DEF ReadDeviceInfo, ReadBridgeShadow, PutDevice
      <3>2. call.dev \in Devices
        BY Zenon, <2>4 DEF ReadDeviceInfo, ReadBridgeShadow, TypeInv
      <3>3. refs' \in [Devices -> Int]
        BY <2>4, <3>2 DEF ReadDeviceInfo, ReadBridgeShadow, PutDevice, TypeInv
      <3>4. /\ call' \in [dev : Devices \union {None}, for : {"none", "info", "shadow"}]
            /\ call'.dev = None <=> call'.for = "none"
        BY Zenon, <3>1 DEF Idle
      <3> QED  BY Zenon, <2>1, <3>1, <3>3, <3>4 DEF TypeInv, WorkInv
    <2> QED  BY Zenon, <1>2, <2>2, <2>3, <2>4, QueueDevice DEF Requests, GetDeviceInfo, GetMmioBridgeShadow
  <1> QED  BY Zenon, <1>1, <1>2

\* The steps of rocm_xio_exit.
LEMMA ExitType ==
    ASSUME TypeInv, WorkInv, ExitStep
    PROVE  TypeInv' /\ WorkInv'
  <1>1. AfterExitStep
    BY Zenon DEF ExitStep, ExitUnregisters, ExitCancels, ExitDrains, ExitFreesSnapshots
  <1>2. /\ UNCHANGED <<inject, open, bound, host, running, local, found, call, held>>
        /\ phase' \in {"unloading", "gone"} /\ step' \in 1 .. 15
    <2>1. UNCHANGED <<inject, open, bound, host, running, local, found, call, held>>
      BY Zenon, <1>1 DEF AfterExitStep, lookups
    <2>2. step \in 1 .. 15
      BY Zenon, <1>1 DEF AfterExitStep, TypeInv
    <2>3. \/ phase' = "gone" /\ step' = step
          \/ step # 15 /\ phase' = "unloading" /\ step' = step + 1
      BY Zenon, <1>1, Tables DEF AfterExitStep
    <2> QED  BY <2>1, <2>2, <2>3
  <1>3. made' \subseteq made /\ lists' \subseteq lists /\ queued' \subseteq queued
    BY Zenon DEF ExitStep, ExitUnregisters, ExitCancels, ExitDrains, ExitFreesSnapshots
  <1>4. skipped' \in BOOLEAN /\ pending' \in Seq(Entry)
    <2>1. skipped \in BOOLEAN /\ ("kprobe" \in made) \in BOOLEAN
      BY DEF TypeInv
    <2>2. skipped' = skipped \/ skipped' = ("kprobe" \in made)
      BY Zenon DEF ExitStep, ExitUnregisters, ExitCancels, ExitDrains, ExitFreesSnapshots
    <2>3. pending' = pending \/ pending' = <<>>
      BY Zenon DEF ExitStep, ExitUnregisters, ExitCancels, ExitDrains, ExitFreesSnapshots
    <2>4. pending' \in Seq(Entry)
      BY Zenon, <2>3, EntrySeq DEF TypeInv
    <2> QED  BY Zenon, <2>1, <2>2, <2>4
  <1>5. /\ snapshot' \in [Queues -> {"none", "alloc", "created"}]
        /\ refs' \in [Devices -> Int]
    <2>1. \A d : Cardinality(SnapshotsOf(d)) \in Nat
      BY Zenon, FS_Subset, FS_CardinalityType, ModuleAssumption DEF SnapshotsOf
    <2>2. CASE ExitFreesSnapshots
      BY <2>1, <2>2 DEF ExitFreesSnapshots, TypeInv
    <2>3. CASE ~ExitFreesSnapshots
      BY <2>3 DEF ExitStep, ExitUnregisters, ExitCancels, ExitDrains, TypeInv
    <2> QED  BY Zenon, <2>2, <2>3
  <1>6. TypeInv'
    BY Zenon, <1>2, <1>3, <1>4, <1>5 DEF TypeInv
  <1>7. WorkInv'
    BY Zenon, <1>2 DEF WorkInv
  <1> QED  BY Zenon, <1>6, <1>7

\* Types and the work's list hold in the beginning.
LEMMA InitType == Init => TypeInv /\ WorkInv
  <1> SUFFICES ASSUME Init PROVE TypeInv /\ WorkInv
    BY Zenon
  <1>1. host \in [Queues -> {"none", "alloc", "created"}] /\ bound \in [Nvmes -> Nat]
    BY QueueDevice DEF Init
  <1>2. call \in [dev : Devices \union {None}, for : {"none", "info", "shadow"}]
    BY Zenon DEF Init, Idle
  <1>3. call.dev = None /\ call.for = "none"
    BY Zenon DEF Init, Idle
  <1>4. /\ phase = "loading" /\ step = 1 /\ made = {} /\ inject \in BOOLEAN /\ skipped = FALSE
        /\ open = FALSE /\ lists = {} /\ pending = <<>> /\ local = <<>>
        /\ queued = {} /\ running = {} /\ found = FALSE /\ held = None
        /\ snapshot = [q \in Queues |-> "none"] /\ refs = [d \in Devices |-> 0]
    BY Zenon DEF Init
  <1>5. /\ pending \in Seq(Entry) /\ local \in Seq(Entry)
        /\ snapshot \in [Queues -> {"none", "alloc", "created"}] /\ refs \in [Devices -> Int]
    BY <1>4
  <1>6. /\ phase \in {"loading", "loaded", "unloading", "gone"}
        /\ step \in 1 .. (IF phase = "loading" THEN 6 ELSE 15) /\ (phase = "loaded" => step = 1)
        /\ made \subseteq Registered /\ lists \subseteq Lists
        /\ queued \subseteq Works /\ running \subseteq Works
    BY <1>4
  <1>7. /\ inject \in BOOLEAN /\ skipped \in BOOLEAN /\ open \in BOOLEAN /\ found \in BOOLEAN
        /\ held \in Devices \union {None}
    BY Zenon, <1>4
  <1>8. TypeInv
    BY <1>1, <1>2, <1>3, <1>5, <1>6, <1>7 DEF TypeInv
  <1>9. WorkInv
    BY Zenon, <1>4 DEF WorkInv
  <1> QED  BY Zenon, <1>8, <1>9

\* Every step keeps them.
LEMMA NextType == TypeInv /\ WorkInv /\ [Next]_vars => TypeInv' /\ WorkInv'
  <1>1. ASSUME TypeInv, WorkInv, UNCHANGED vars
        PROVE  TypeInv' /\ WorkInv'
    BY <1>1 DEF vars, control, capture, lookups, TypeInv, WorkInv
  <1> QED  BY Zenon, <1>1, ControlType, DriverType, WorkType, ResurrectType, RequestType,
             ExitType DEF Next

-----------------------------------------------------------------------------
(* The references on PCI devices.                                          *)

\* The holders of a reference to device d: snapshots, the works, a request.
SnapCount(d) == Cardinality(SnapshotsOf(d))
LookedUp(d) == IF found /\ DevOf[Head(local).queue] = d THEN 1 ELSE 0
Held(d) == IF held = d THEN 1 ELSE 0
Asked(d) == IF call.dev = d THEN 1 ELSE 0

\* Before a step the references are those of the holders.
LEMMA RefCounts ==
    ASSUME RefInv, NEW d \in Devices
    PROVE  /\ SnapCount(d) \in Int /\ LookedUp(d) \in Int /\ Held(d) \in Int
           /\ Asked(d) \in Int /\ refs[d] \in Int
           /\ refs[d] = SnapCount(d) + LookedUp(d) + Held(d) + Asked(d)
  <1>1. SnapCount(d) \in Nat /\ (SnapCount(d) \in Nat => SnapCount(d) \in Int)
    <2>1. SnapCount(d) \in Nat
      BY Zenon, FS_Subset, FS_CardinalityType, ModuleAssumption DEF SnapshotsOf, SnapCount
    <2> QED  BY <2>1
  <1>2. refs[d] = SnapCount(d) + LookedUp(d) + Held(d) + Asked(d)
    BY Zenon DEF RefInv, PciRefsExact, SnapCount, LookedUp, Held, Asked
  <1>3. 0 \in Int /\ 1 \in Int
    OBVIOUS
  <1>4. LookedUp(d) \in Int /\ Held(d) \in Int /\ Asked(d) \in Int /\ refs[d] \in Int
    BY Zenon, <1>3 DEF LookedUp, Held, Asked, RefInv, TypeInv
  <1> QED  BY Zenon, <1>1, <1>2, <1>4

\* And so they are after it.
LEMMA RefsAfter ==
    ASSUME \A d \in Devices : refs'[d] = SnapCount(d)' + LookedUp(d)' + Held(d)' + Asked(d)'
    PROVE  PciRefsExact'
  BY Zenon DEF PciRefsExact, SnapCount, LookedUp, Held, Asked

\* Steps that touch neither the snapshots nor what the works and a request hold.
LEMMA SameRefs ==
    ASSUME RefInv, UNCHANGED <<snapshot, refs, call, held>>,
           UNCHANGED <<found, local>> \/ (~found /\ ~found')
    PROVE  PciRefsExact'
  <1>1. \A d : SnapshotsOf(d)' = SnapshotsOf(d)
    BY Zenon DEF SnapshotsOf
  <1>2. \A d : (found' /\ DevOf[Head(local').queue] = d) <=> (found /\ DevOf[Head(local).queue] = d)
    BY Zenon
  <1> QED  BY Zenon, <1>1, <1>2 DEF RefInv, PciRefsExact

\* The bus walk takes a reference, or drops the entry.
LEMMA ResolveRefs ==
    ASSUME RefInv, ResolveDevice
    PROVE  PciRefsExact'
  <1>1. /\ ~found /\ local # <<>> /\ snapshot' = snapshot /\ call' = call /\ held' = held
    BY Zenon DEF ResolveDevice, InWork, lookups
  <1>2. CASE Resolved(Head(local))
    <2>1. PICK dev \in Devices : dev = DevOf[Head(local).queue]
      BY Zenon, <1>1, EntrySeq, QueueDevice DEF RefInv, TypeInv, Entry
    <2>2. /\ found' = TRUE /\ local' = local
          /\ refs' = [refs EXCEPT ![dev] = @ + 1]
      BY Zenon, <1>2, <2>1 DEF ResolveDevice
    <2>3. ASSUME NEW d \in Devices
          PROVE  refs'[d] = SnapCount(d)' + LookedUp(d)' + Held(d)' + Asked(d)'
      <3>1. SnapCount(d)' = SnapCount(d) /\ Held(d)' = Held(d) /\ Asked(d)' = Asked(d)
        BY Zenon, <1>1 DEF SnapshotsOf, SnapCount, Held, Asked
      <3>2. LookedUp(d) = 0 /\ LookedUp(d)' = IF d = dev THEN 1 ELSE 0
        BY Zenon, <1>1, <2>1, <2>2 DEF LookedUp
      <3>0. refs[d] \in Int /\ refs'[d] = IF d = dev THEN refs[d] + 1 ELSE refs[d]
        BY Zenon, <2>2 DEF RefInv, TypeInv
      <3>3. refs'[d] = refs[d] + (IF d = dev THEN 1 ELSE 0)
        BY <3>0
      <3>4. /\ SnapCount(d) \in Int /\ Held(d) \in Int /\ Asked(d) \in Int /\ refs[d] \in Int
            /\ refs[d] = SnapCount(d) + LookedUp(d) + Held(d) + Asked(d)
        BY Zenon, RefCounts
      <3> QED  BY <3>1, <3>2, <3>3, <3>4
    <2> QED  BY Zenon, <2>3, RefsAfter
  <1>3. CASE ~Resolved(Head(local))
    BY Zenon, <1>1, <1>3, SameRefs DEF ResolveDevice
  <1> QED  BY Zenon, <1>2, <1>3

\* A store keeps the reference for a new snapshot, else gives it back.
LEMMA StoreRefsExact ==
    ASSUME RefInv, StoreSnapshot \/ StoreFails
    PROVE  PciRefsExact'
  <1>1. found /\ ~found' /\ local # <<>> /\ call' = call /\ held' = held
    BY Zenon DEF StoreSnapshot, StoreFails, InWork, lookups
  <1>2. PICK q \in Queues, of \in {"alloc", "created"} : q = Head(local).queue /\ of = Head(local).of
    BY Zenon, <1>1, EntrySeq DEF RefInv, TypeInv, Entry
  <1>3. PICK dev \in Devices : dev = DevOf[q]
    BY Zenon, QueueDevice
  <1>4. PICK k \in {0, 1} :
          /\ refs' = [refs EXCEPT ![dev] = @ + k - 1]
          /\ \/ k = 0 /\ snapshot' = snapshot
             \/ /\ k = StoreRefs(q)
                /\ snapshot' = [snapshot EXCEPT ![q] = of]
    <2>1. CASE StoreSnapshot
      BY Zenon, <1>2, <1>3, <2>1 DEF StoreSnapshot, StoreRefs
    <2>2. CASE StoreFails
      <3>1. /\ refs' = [refs EXCEPT ![dev] = @ - 1] /\ snapshot' = snapshot
            /\ refs[dev] \in Int
        BY Zenon, <1>2, <1>3, <2>2 DEF StoreFails, RefInv, TypeInv
      <3>2. refs[dev] - 1 = refs[dev] + 0 - 1
        BY <3>1
      <3> QED  BY Zenon, <3>1, <3>2
    <2> QED  BY Zenon, <2>1, <2>2
  <1>5. ASSUME NEW d \in Devices
        PROVE  refs'[d] = SnapCount(d)' + LookedUp(d)' + Held(d)' + Asked(d)'
    <2>1. IsFiniteSet(SnapshotsOf(d)) /\ Cardinality(SnapshotsOf(d)) \in Nat
      BY Zenon, FS_Subset, FS_CardinalityType, ModuleAssumption DEF SnapshotsOf
    <2>2. refs[d] \in Int /\ refs'[d] = refs[d] + (IF d = dev THEN k - 1 ELSE 0)
      BY <1>4 DEF RefInv, TypeInv
    <2>3. Cardinality(SnapshotsOf(d)') = Cardinality(SnapshotsOf(d)) + (IF d = dev THEN k ELSE 0)
      <3>1. CASE k = 0 \/ d # dev
        <4>1. SnapshotsOf(d)' = SnapshotsOf(d)
          BY <1>3, <1>4, <3>1 DEF SnapshotsOf, StoreRefs, RefInv, TypeInv
        <4> QED  BY <2>1, <3>1, <4>1
      <3>2. CASE k = 1 /\ d = dev
        <4>1. q \notin SnapshotsOf(d) /\ SnapshotsOf(d)' = SnapshotsOf(d) \union {q}
          BY <1>3, <1>4, <3>2 DEF SnapshotsOf, StoreRefs, RefInv, TypeInv
        <4> QED  BY Zenon, <2>1, <3>2, <4>1, FS_AddElement
      <3> QED  BY Zenon, <3>1, <3>2
    <2>4. /\ SnapCount(d)' = SnapCount(d) + (IF d = dev THEN k ELSE 0)
          /\ Held(d)' = Held(d) /\ Asked(d)' = Asked(d)
      BY Zenon, <1>1, <2>3 DEF SnapCount, Held, Asked
    <2>5. LookedUp(d)' = 0 /\ LookedUp(d) = IF d = dev THEN 1 ELSE 0
      BY Zenon, <1>1, <1>2, <1>3 DEF LookedUp
    <2>6. /\ SnapCount(d) \in Int /\ Held(d) \in Int /\ Asked(d) \in Int /\ refs[d] \in Int
          /\ refs[d] = SnapCount(d) + LookedUp(d) + Held(d) + Asked(d)
      BY Zenon, RefCounts
    <2>7. k \in Int /\ refs'[d] = refs[d] + (IF d = dev THEN k - 1 ELSE 0)
      BY <2>2
    <2> QED  BY <2>4, <2>5, <2>6, <2>7
  <1> QED  BY Zenon, <1>5, RefsAfter

\* A request looks a device up, and puts it.
LEMMA RequestRefs ==
    ASSUME RefInv, Requests
    PROVE  PciRefsExact'
  <1>1. UNCHANGED <<snapshot, found, local, held>>
    BY Zenon DEF Requests, OpenFile, CloseFile, ReadDeviceInfo, ReadBridgeShadow, PutDevice,
           IoctlAdds, GetDeviceInfo, GetMmioBridgeShadow, LookupDevice, capture, lookups
  <1>2. CASE OpenFile \/ CloseFile \/ \E l \in Lists : IoctlAdds(l)
    <2>1. refs' = refs /\ call' = call
      BY Zenon, <1>2 DEF OpenFile, CloseFile, IoctlAdds, lookups
    <2> QED  BY Zenon, <1>1, <2>1, SameRefs
  <1>3. CASE ~(OpenFile \/ CloseFile \/ \E l \in Lists : IoctlAdds(l))
    <2>1. PICK dev \in Devices, k \in {1, -1} :
            /\ refs' = [refs EXCEPT ![dev] = @ + k]
            /\ \/ k = 1 /\ call.dev = None /\ call'.dev = dev
               \/ k = -1 /\ call.dev = dev /\ call'.dev = None
      <3>1. ASSUME NEW d \in Devices, NEW for, LookupDevice(d, for)
            PROVE  refs' = [refs EXCEPT ![d] = @ + 1] /\ call.dev = None /\ call'.dev = d
        BY Zenon, <3>1 DEF LookupDevice, Idle
      <3>2. ASSUME ReadDeviceInfo \/ ReadBridgeShadow
            PROVE  /\ refs' = [refs EXCEPT ![call.dev] = @ - 1] /\ call'.dev = None
                   /\ call.dev \in Devices /\ refs[call.dev] - 1 = refs[call.dev] + (-1)
        <4>1. /\ refs' = [refs EXCEPT ![call.dev] = @ - 1] /\ call'.dev = None
              /\ call.dev \in Devices /\ refs[call.dev] \in Int
          BY <3>2 DEF ReadDeviceInfo, ReadBridgeShadow, PutDevice, Idle, RefInv, TypeInv
        <4>2. refs[call.dev] - 1 = refs[call.dev] + (-1)
          BY <4>1
        <4> QED  BY Zenon, <4>1, <4>2
      <3>3. CASE ReadDeviceInfo \/ ReadBridgeShadow
        BY Zenon, <3>2, <3>3
      <3>4. CASE ~(ReadDeviceInfo \/ ReadBridgeShadow)
        <4>1. PICK d \in Devices, for \in {"info", "shadow"} : LookupDevice(d, for)
          BY Zenon, <1>3, <3>4, QueueDevice DEF Requests, GetDeviceInfo, GetMmioBridgeShadow
        <4> QED  BY Zenon, <3>1, <4>1
      <3> QED  BY Zenon, <3>3, <3>4
    <2>2. ASSUME NEW d \in Devices
          PROVE  refs'[d] = SnapCount(d)' + LookedUp(d)' + Held(d)' + Asked(d)'
      <3>1. SnapCount(d)' = SnapCount(d)
        BY Zenon, <1>1 DEF SnapshotsOf, SnapCount
      <3>2. LookedUp(d)' = LookedUp(d) /\ Held(d)' = Held(d)
        BY Zenon, <1>1 DEF LookedUp, Held
      <3>0. refs[d] \in Int /\ refs'[d] = IF d = dev THEN refs[d] + k ELSE refs[d]
        BY Zenon, <2>1 DEF RefInv, TypeInv
      <3>3. refs'[d] = refs[d] + (IF d = dev THEN k ELSE 0)
        BY <3>0
      <3>4. Asked(d)' - Asked(d) = (IF d = dev THEN k ELSE 0) /\ Asked(d)' \in Int
        BY <2>1, ModuleAssumption DEF Asked
      <3>5. /\ SnapCount(d) \in Int /\ LookedUp(d) \in Int /\ Held(d) \in Int
            /\ Asked(d) \in Int /\ refs[d] \in Int
            /\ refs[d] = SnapCount(d) + LookedUp(d) + Held(d) + Asked(d)
        BY Zenon, RefCounts
      <3>6. k \in Int
        OBVIOUS
      <3> QED  BY <3>1, <3>2, <3>3, <3>4, <3>5, <3>6
    <2> QED  BY Zenon, <2>2, RefsAfter
  <1> QED  BY Zenon, <1>2, <1>3

\* The resurrect work looks a device up, and puts it.
LEMMA ResurrectRefs ==
    ASSUME RefInv, ResurrectWork
    PROVE  PciRefsExact'
  <1>1. UNCHANGED <<snapshot, found, local, call>>
    BY Zenon DEF ResurrectWork, ResurrectStarts, ResurrectGets, ResurrectPuts, ResurrectEnds,
           InResurrect, lookups
  <1>2. CASE ResurrectStarts \/ ResurrectEnds
    BY Zenon, <1>1, <1>2, SameRefs DEF ResurrectStarts, ResurrectEnds, lookups
  <1>3. CASE ~(ResurrectStarts \/ ResurrectEnds)
    <2>1. PICK dev \in Devices, k \in {1, -1} :
            /\ refs' = [refs EXCEPT ![dev] = @ + k]
            /\ \/ k = 1 /\ held = None /\ held' = dev
               \/ k = -1 /\ held = dev /\ held' = None
      <3>1. CASE ResurrectPuts
        <4>1. /\ refs' = [refs EXCEPT ![held] = @ - 1] /\ held' = None
              /\ held \in Devices /\ refs[held] \in Int
          BY Zenon, <3>1 DEF ResurrectPuts, RefInv, TypeInv
        <4>2. refs[held] - 1 = refs[held] + (-1)
          BY <4>1
        <4> QED  BY Zenon, <4>1, <4>2
      <3>2. CASE ~ResurrectPuts
        BY Zenon, <1>3, <3>2, QueueDevice DEF ResurrectWork, ResurrectGets
      <3> QED  BY Zenon, <3>1, <3>2
    <2>2. ASSUME NEW d \in Devices
          PROVE  refs'[d] = SnapCount(d)' + LookedUp(d)' + Held(d)' + Asked(d)'
      <3>1. SnapCount(d)' = SnapCount(d)
        BY Zenon, <1>1 DEF SnapshotsOf, SnapCount
      <3>2. LookedUp(d)' = LookedUp(d) /\ Asked(d)' = Asked(d)
        BY Zenon, <1>1 DEF LookedUp, Asked
      <3>3. refs[d] \in Int /\ refs'[d] = IF d = dev THEN refs[d] + k ELSE refs[d]
        BY Zenon, <2>1 DEF RefInv, TypeInv
      <3>4. Held(d)' - Held(d) = (IF d = dev THEN k ELSE 0) /\ Held(d)' \in Int
        BY <2>1, ModuleAssumption DEF Held
      <3>5. /\ SnapCount(d) \in Int /\ LookedUp(d) \in Int /\ Held(d) \in Int
            /\ Asked(d) \in Int /\ refs[d] \in Int
            /\ refs[d] = SnapCount(d) + LookedUp(d) + Held(d) + Asked(d)
        BY Zenon, RefCounts
      <3>6. k \in Int
        OBVIOUS
      <3> QED  BY <3>1, <3>2, <3>3, <3>4, <3>5, <3>6
    <2> QED  BY Zenon, <2>2, RefsAfter
  <1> QED  BY Zenon, <1>2, <1>3

\* nvme_queue_snapshots_free_all gives back one reference for each snapshot.
LEMMA ExitRefs ==
    ASSUME RefInv, ExitStep
    PROVE  PciRefsExact'
  <1>1. UNCHANGED <<found, local, call, held>>
    BY Zenon DEF ExitStep, ExitUnregisters, ExitCancels, ExitDrains, ExitFreesSnapshots, AfterExitStep,
           lookups
  <1>2. CASE ~ExitFreesSnapshots
    <2>1. snapshot' = snapshot /\ refs' = refs
      BY Zenon, <1>2 DEF ExitStep, ExitUnregisters, ExitCancels, ExitDrains
    <2> QED  BY Zenon, <1>1, <2>1, SameRefs
  <1>3. CASE ExitFreesSnapshots
    <2>1. ASSUME NEW d \in Devices
          PROVE  refs'[d] = SnapCount(d)' + LookedUp(d)' + Held(d)' + Asked(d)'
      <3>1. SnapshotsOf(d)' = {}
        BY Zenon, <1>3 DEF ExitFreesSnapshots, SnapshotsOf
      <3>2. SnapCount(d)' = 0
        BY Zenon, <3>1, FS_EmptySet DEF SnapCount
      <3>3. refs'[d] = refs[d] - SnapCount(d)
        BY Zenon, <1>3 DEF ExitFreesSnapshots, SnapCount
      <3>4. LookedUp(d)' = LookedUp(d) /\ Held(d)' = Held(d) /\ Asked(d)' = Asked(d)
        BY Zenon, <1>1 DEF LookedUp, Held, Asked
      <3>5. /\ SnapCount(d) \in Int /\ LookedUp(d) \in Int /\ Held(d) \in Int
            /\ Asked(d) \in Int /\ refs[d] \in Int
            /\ refs[d] = SnapCount(d) + LookedUp(d) + Held(d) + Asked(d)
        BY Zenon, RefCounts
      <3> QED  BY <3>2, <3>3, <3>4, <3>5
    <2> QED  BY Zenon, <2>1, RefsAfter
  <1> QED  BY Zenon, <1>2, <1>3

\* No reference in the beginning.
LEMMA InitRef == Init => RefInv
  <1> SUFFICES ASSUME Init PROVE RefInv
    BY Zenon
  <1>1. \A d : SnapshotsOf(d) = {}
    BY Zenon DEF Init, SnapshotsOf
  <1>2. call.dev = None /\ held = None /\ found = FALSE /\ \A d \in Devices : refs[d] = 0
    BY Zenon DEF Init, Idle
  <1>3. PciRefsExact
    <2> SUFFICES ASSUME NEW d \in Devices
                 PROVE  refs[d] = Cardinality(SnapshotsOf(d))
                                  + (IF found /\ DevOf[Head(local).queue] = d THEN 1 ELSE 0)
                                  + (IF held = d THEN 1 ELSE 0)
                                  + (IF call.dev = d THEN 1 ELSE 0)
      BY Zenon DEF PciRefsExact
    <2>1. Cardinality(SnapshotsOf(d)) = 0
      BY Zenon, <1>1, FS_EmptySet
    <2>2. call.dev # d /\ held # d
      BY Zenon, <1>2, ModuleAssumption
    <2> QED  BY <1>2, <2>1, <2>2
  <1> QED  BY Zenon, <1>3, InitType DEF RefInv

\* Every step keeps the references.
LEMMA NextRef == RefInv /\ [Next]_vars => RefInv'
  <1> SUFFICES ASSUME RefInv, [Next]_vars PROVE PciRefsExact'
    BY Zenon, NextType DEF RefInv
  <1>1. CASE InitStep \/ InitFails \/ ProbeRefused \/ SetParameter \/ ExitStarts \/ UNCHANGED vars
    <2>1. UNCHANGED <<snapshot, refs, call, held, found, local>>
      BY Zenon, <1>1 DEF InitStep, InitFails, ProbeRefused, SetParameter, ExitStarts, vars, capture,
                  lookups
    <2> QED  BY Zenon, <2>1, SameRefs
  <1>2. CASE Driver \/ KprobeMarks \/ KprobeSchedules
    <2>1. UNCHANGED <<snapshot, refs, call, held, found, local>>
      BY Zenon, <1>2 DEF Driver, AllocQueue, CreateQueue, Rebind, DriverCalls, KprobeMarks,
                  KprobeSchedules, capture, lookups
    <2> QED  BY Zenon, <2>1, SameRefs
  <1>3. CASE SnapshotWorkStarts \/ SnapshotWorkEnds
    <2>1. /\ UNCHANGED <<snapshot, refs, call, held, found>>
          /\ local' = local \/ ~found
      BY Zenon, <1>3 DEF SnapshotWorkStarts, SnapshotWorkEnds, RefInv, WorkInv, lookups
    <2> QED  BY Zenon, <2>1, SameRefs
  <1>4. CASE SnapshotWork
    BY Zenon, <1>3, <1>4, ResolveRefs, StoreRefsExact DEF SnapshotWork
  <1> QED  BY Zenon, <1>1, <1>2, <1>4, ResurrectRefs, RequestRefs, ExitRefs DEF Next

\* In every behaviour the module holds exactly one reference on a PCI device for
\* each of its snapshots, one for a device either of its works has in hand and one for the
\* request in progress, for any number of queues, devices, calls and faults.
THEOREM PciRefsStayExact == Spec => []PciRefsExact
  <1>1. RefInv => PciRefsExact
    BY Zenon DEF RefInv
  <1> QED  BY InitRef, NextRef, <1>1, PTL DEF Spec

-----------------------------------------------------------------------------
(* The teardown.                                                           *)

ExitNames == Registered \union Works \union Lists \union {"pending", "snapshots"}

\* The steps of rocm_xio_exit by number.
LEMMA ExitTable ==
    /\ ExitSteps[1] = "kprobe" /\ ExitSteps[2] = "allocKrp" /\ ExitSteps[3] = "createKrp"
    /\ ExitSteps[4] = "snapshot" /\ ExitSteps[5] = "resurrect" /\ ExitSteps[6] = "pending"
    /\ ExitSteps[7] = "snapshots" /\ ExitSteps[8] = "poisoned_qids"
    /\ ExitSteps[9] = "queue_addrs" /\ ExitSteps[10] = "vram_buffers"
    /\ ExitSteps[11] = "contig_allocs" /\ ExitSteps[12] = "quiesced_ns"
    /\ ExitSteps[13] = "device" /\ ExitSteps[14] = "class" /\ ExitSteps[15] = "chrdev"
  BY Zenon DEF ExitSteps

\* Each step is one of them, and none comes twice.
LEMMA ExitTableOnce ==
    /\ \A i \in 1 .. 15 : ExitSteps[i] \in ExitNames
    /\ \A x \in ExitNames : \E i \in 1 .. 15 : ExitSteps[i] = x
    /\ \A i, j \in 1 .. 15 : ExitSteps[i] = ExitSteps[j] => i = j
  <1>1. 1 .. 15 = {1, 2, 3, 4, 5, 6, 7, 8, 9, 10, 11, 12, 13, 14, 15}
    OBVIOUS
  <1>2. \A i \in 1 .. 15 : ExitSteps[i] \in ExitNames
    BY <1>1, ExitTable DEF ExitNames, Registered, Works, Lists
  <1>3. \A x \in ExitNames : \E i \in 1 .. 15 : ExitSteps[i] = x
    BY <1>1, ExitTable DEF ExitNames, Registered, Works, Lists
  <1>4. \A i, j \in 1 .. 15 : ExitSteps[i] = ExitSteps[j] => i = j
    BY <1>1, ExitTable
  <1> QED  BY Zenon, <1>2, <1>3, <1>4

\* A step is behind the exit when the counter is past it.
LEMMA PassedAt ==
    ASSUME TypeInv, NEW k \in 1 .. 15
    PROVE  Passed(ExitSteps[k]) <=> phase = "gone" \/ (phase = "unloading" /\ k < step)
  <1>1. ASSUME phase = "unloading"
        PROVE  (\E i \in 1 .. step - 1 : ExitSteps[i] = ExitSteps[k]) <=> k < step
    <2>1. step \in 1 .. 15
      BY Zenon, <1>1 DEF TypeInv
    <2>2. ASSUME NEW i \in 1 .. step - 1, ExitSteps[i] = ExitSteps[k]
          PROVE  k < step
      <3>1. i \in 1 .. 15 /\ i < step
        BY <2>1
      <3> QED  BY Zenon, <2>2, <3>1, ExitTableOnce
    <2>3. ASSUME k < step
          PROVE  k \in 1 .. step - 1
      BY <2>1, <2>3
    <2> QED  BY Zenon, <2>2, <2>3
  <1> QED  BY Zenon, <1>1 DEF Passed

\* The order the teardown depends on: the probes go before the works, and both
\* before the lists.
LEMMA ExitOrder ==
    ASSUME TypeInv
    PROVE  /\ Passed("snapshot") => Passed("allocKrp") /\ Passed("createKrp")
           /\ Passed("resurrect") => Passed("kprobe")
           /\ Passed("pending") => Passed("snapshot")
           /\ Passed("snapshots") => Passed("snapshot")
           /\ Passed("poisoned_qids") => Passed("kprobe")
  <1>1. /\ Passed("kprobe") <=> phase = "gone" \/ (phase = "unloading" /\ 1 < step)
        /\ Passed("allocKrp") <=> phase = "gone" \/ (phase = "unloading" /\ 2 < step)
        /\ Passed("createKrp") <=> phase = "gone" \/ (phase = "unloading" /\ 3 < step)
        /\ Passed("snapshot") <=> phase = "gone" \/ (phase = "unloading" /\ 4 < step)
        /\ Passed("resurrect") <=> phase = "gone" \/ (phase = "unloading" /\ 5 < step)
        /\ Passed("pending") <=> phase = "gone" \/ (phase = "unloading" /\ 6 < step)
        /\ Passed("snapshots") <=> phase = "gone" \/ (phase = "unloading" /\ 7 < step)
        /\ Passed("poisoned_qids") <=> phase = "gone" \/ (phase = "unloading" /\ 8 < step)
    BY PassedAt, ExitTable
  <1>2. phase = "unloading" => step \in 1 .. 15
    BY Zenon DEF TypeInv
  <1> QED  BY <1>1, <1>2

\* Nothing but a step of the exit, or a failed load, puts a step behind it.
LEMMA PassedStep ==
    ASSUME TypeInv, AfterExitStep, NEW x \in ExitNames
    PROVE  Passed(x)' => Passed(x) \/ x = ExitSteps[step]
  <1>1. PICK k \in 1 .. 15 : ExitSteps[k] = x
    BY Zenon, ExitTableOnce
  <1>2. /\ phase = "unloading" /\ step \in 1 .. 15
        /\ IF step = 15 THEN phase' = "gone" /\ step' = step
                        ELSE step' = step + 1 /\ phase' = phase
    BY Zenon, Tables DEF AfterExitStep, TypeInv
  <1>3. Passed(x) <=> k < step
    BY Zenon, <1>1, <1>2, PassedAt
  <1>4. Passed(x)' => k < step + 1
    BY <1>1, <1>2, ExitTableOnce DEF Passed
  <1> QED  BY <1>1, <1>2, <1>3, <1>4

\* Before the device node exists no probe does.
LEMMA EarlyMade ==
    ASSUME TypeInv, LoadInv, phase = "loading", step <= 3
    PROVE  made \cap {"device", "kprobe", "allocKrp", "createKrp"} = {}
  <1>1. /\ InitSteps[1] = "chrdev" /\ InitSteps[2] = "class"
    BY Zenon DEF InitSteps
  <1>2. step \in 1 .. 3
    BY DEF TypeInv
  <1>3. \A i \in 1 .. step - 1 : i = 1 \/ i = 2
    BY <1>2
  <1> QED  BY Zenon, <1>1, <1>3 DEF LoadInv

\* rocm_xio_init, its failure, the parameter, and the start of the exit.
LEMMA ControlTeardown ==
    ASSUME TypeInv, TypeInv', WorkInv, TeardownInv,
           InitStep \/ InitFails \/ ProbeRefused \/ SetParameter \/ ExitStarts
    PROVE  TeardownInv'
  <1>1. UNCHANGED <<skipped, open, lists, pending, queued, running, snapshot, call>>
    BY Zenon DEF InitStep, InitFails, ProbeRefused, SetParameter, ExitStarts, capture, lookups
  <1>2. CASE InitStep \/ ProbeRefused
    <2>1. /\ phase = "loading" /\ step \in 1 .. 6
          /\ phase' = IF step = 6 THEN "loaded" ELSE "loading"
          /\ step' = IF step = 6 THEN 1 ELSE step + 1
          /\ made' \subseteq made \union {InitSteps[step]}
      BY Zenon, <1>2, Tables DEF InitStep, ProbeRefused, InitDone, TypeInv
    <2>2. \A x : ~Passed(x)'
      BY Zenon, <2>1 DEF Passed
    <2>3. FileInv' /\ ExitInv'
      BY Zenon, <1>1, <2>1, <2>2 DEF TeardownInv, FileInv, ExitInv
    <2>4. LoadInv'
      BY <1>1, <2>1 DEF TeardownInv, LoadInv
    <2> QED  BY Zenon, <2>3, <2>4 DEF TeardownInv
  <1>3. CASE InitFails
    <2>1. phase = "loading" /\ phase' = "gone" /\ made' = made \ {InitSteps[i] : i \in 1 .. step - 1}
      BY Zenon, <1>3 DEF InitFails, Unwind
    <2>2. step <= 3
      <3>1. /\ InitSteps[4] = "kprobe" /\ InitSteps[5] = "allocKrp" /\ InitSteps[6] = "createKrp"
        BY Zenon DEF InitSteps
      <3>2. step \in 1 .. 6 /\ InitSteps[step] \notin {"kprobe", "allocKrp", "createKrp"}
        BY Zenon, <1>3, <2>1 DEF InitFails, TypeInv
      <3> QED  BY <3>1, <3>2
    <2>3. /\ made' = {} /\ ~open' /\ lists' = {} /\ pending' = <<>> /\ queued' = {} /\ running' = {}
          /\ \A q \in Queues : snapshot'[q] = "none"
      BY Zenon, <1>1, <2>1, <2>2 DEF TeardownInv, LoadInv
    <2>4. FileInv' /\ LoadInv'
      BY Zenon, <1>1, <2>1, <2>3 DEF TeardownInv, FileInv, LoadInv
    <2>5. ExitInv'
      BY Zenon, <2>3 DEF ExitInv
    <2> QED  BY Zenon, <2>4, <2>5 DEF TeardownInv
  <1>4. CASE SetParameter
    <2>1. UNCHANGED <<phase, step, made>>
      BY Zenon, <1>4 DEF SetParameter
    <2>2. \A x : Passed(x)' <=> Passed(x)
      BY Zenon, <2>1 DEF Passed
    <2> QED  BY Zenon, <1>1, <2>1, <2>2 DEF TeardownInv, FileInv, LoadInv, ExitInv
  <1>5. CASE ExitStarts
    <2>1. phase = "loaded" /\ ~open /\ phase' = "unloading" /\ step' = 1
      BY Zenon, <1>5 DEF ExitStarts, TypeInv
    <2>2. \A x : ~Passed(x)'
      BY <2>1 DEF Passed
    <2>3. FileInv' /\ LoadInv'
      BY Zenon, <1>1, <2>1 DEF TeardownInv, FileInv, LoadInv
    <2>4. ExitInv'
      BY Zenon, <2>2 DEF ExitInv
    <2> QED  BY Zenon, <2>3, <2>4 DEF TeardownInv
  <1> QED  BY Zenon, <1>2, <1>3, <1>4, <1>5

\* The probes capture and schedule only while they are registered.
LEMMA DriverTeardown ==
    ASSUME TypeInv, TeardownInv, Driver \/ KprobeMarks \/ KprobeSchedules
    PROVE  TeardownInv'
  <1>1. UNCHANGED <<phase, step, made, skipped, open, running, snapshot, call>>
    BY Zenon DEF Driver, AllocQueue, CreateQueue, Rebind, DriverCalls, KprobeMarks, KprobeSchedules,
           control, capture, lookups
  <1>2. \A x : Passed(x)' <=> Passed(x)
    BY Zenon, <1>1 DEF Passed
  <1>3. CASE Driver
    <2>1. /\ lists' = lists
          /\ \/ UNCHANGED <<pending, queued>>
             \/ /\ made \cap {"allocKrp", "createKrp"} # {}
                /\ queued' = queued \union {"snapshot"}
      BY ZenonT(30), <1>3 DEF Driver, AllocQueue, CreateQueue, Rebind, DriverCalls, Handler, Capture
    <2>2. CASE UNCHANGED <<pending, queued>>
      BY <1>1, <1>2, <2>1, <2>2 DEF TeardownInv, FileInv, LoadInv, ExitInv
    <2>3. CASE made \cap {"allocKrp", "createKrp"} # {} /\ queued' = queued \union {"snapshot"}
      <3>1. ~Passed("snapshot") /\ ~Passed("pending")
        BY Zenon, <2>3, ExitOrder DEF TeardownInv, ExitInv, Registered
      <3>2. ~(phase = "loading" /\ step <= 3)
        BY Zenon, <2>3, EarlyMade DEF TeardownInv
      <3>3. FileInv' /\ LoadInv'
        BY Zenon, <1>1, <3>2 DEF TeardownInv, FileInv, LoadInv
      <3>4. ExitInv'
        BY Zenon, <1>1, <1>2, <2>1, <2>3, <3>1 DEF TeardownInv, ExitInv
      <3> QED  BY Zenon, <3>3, <3>4 DEF TeardownInv
    <2> QED  BY Zenon, <2>1, <2>2, <2>3
  <1>4. CASE KprobeMarks \/ KprobeSchedules
    <2>1. /\ "kprobe" \in made /\ pending' = pending
          /\ lists' \subseteq lists \union {"poisoned_qids"}
          /\ queued' \subseteq queued \union {"resurrect"}
      BY Zenon, <1>4 DEF KprobeMarks, KprobeSchedules, Injecting, capture
    <2>2. Passed("poisoned_qids") \/ Passed("resurrect") => skipped
      BY Zenon, <2>1, ExitOrder DEF TeardownInv, ExitInv
    <2>3. ~(phase = "loading" /\ step <= 3)
      BY Zenon, <2>1, EarlyMade DEF TeardownInv
    <2>4. FileInv' /\ LoadInv'
      BY Zenon, <1>1, <2>3 DEF TeardownInv, FileInv, LoadInv
    <2>5. ExitInv'
      BY Zenon, <1>1, <1>2, <2>1, <2>2 DEF TeardownInv, ExitInv
    <2> QED  BY Zenon, <2>4, <2>5 DEF TeardownInv
  <1> QED  BY Zenon, <1>3, <1>4

\* The works add nothing that the exit has disposed of.
LEMMA WorkTeardown ==
    ASSUME TypeInv, WorkInv, TeardownInv, SnapshotWork \/ ResurrectWork
    PROVE  TeardownInv'
  <1>1. UNCHANGED <<phase, step, made, skipped, open, lists, call>>
    BY Zenon DEF SnapshotWork, SnapshotWorkStarts, ResolveDevice, StoreSnapshot, StoreFails,
           SnapshotWorkEnds, InWork, ResurrectWork, ResurrectStarts, ResurrectGets, ResurrectPuts,
           ResurrectEnds, InResurrect, control, lookups
  <1>2. \A x : Passed(x)' <=> Passed(x)
    BY Zenon, <1>1 DEF Passed
  <1>3. /\ queued' \union running' \subseteq queued \union running
        /\ pending' = pending \/ pending' = <<>>
        /\ snapshot' = snapshot \/ "snapshot" \in running
    BY Zenon DEF SnapshotWork, SnapshotWorkStarts, ResolveDevice, StoreSnapshot, StoreFails,
           SnapshotWorkEnds, InWork, ResurrectWork, ResurrectStarts, ResurrectGets, ResurrectPuts,
           ResurrectEnds, InResurrect
  <1>4. FileInv'
    BY Zenon, <1>1 DEF TeardownInv, FileInv
  <1>5. LoadInv'
    BY <1>1, <1>3 DEF TeardownInv, LoadInv
  <1>6. "snapshot" \in running => ~Passed("snapshots")
    BY Zenon, ExitOrder DEF TeardownInv, ExitInv
  <1>7. ExitInv'
    BY Zenon, <1>1, <1>2, <1>3, <1>6 DEF TeardownInv, ExitInv
  <1> QED  BY Zenon, <1>4, <1>5, <1>7 DEF TeardownInv

\* A file is opened, used and closed before the exit begins.
LEMMA RequestTeardown ==
    ASSUME TypeInv, TeardownInv, Requests
    PROVE  TeardownInv'
  <1>1. UNCHANGED <<phase, step, made, skipped, pending, queued, running, snapshot>>
    BY Zenon DEF Requests, OpenFile, CloseFile, ReadDeviceInfo, ReadBridgeShadow, PutDevice,
           IoctlAdds, GetDeviceInfo, GetMmioBridgeShadow, LookupDevice, control, capture
  <1>2. \A x : Passed(x)' <=> Passed(x)
    BY Zenon, <1>1 DEF Passed
  <1>3. \/ /\ "device" \in made /\ phase # "unloading" /\ open' /\ lists' = lists /\ call' = call
        \/ /\ open /\ open' /\ lists \subseteq lists'
        \/ /\ call = Idle /\ call' = Idle /\ ~open' /\ lists' \subseteq lists
        \/ /\ call' = Idle /\ lists' = lists /\ open' = open
    BY DEF Requests, OpenFile, CloseFile, ReadDeviceInfo, ReadBridgeShadow, PutDevice,
           IoctlAdds, GetDeviceInfo, GetMmioBridgeShadow, LookupDevice, lookups
  <1>4. "device" \in made => phase # "gone" /\ ~(phase = "loading" /\ step <= 3)
    BY Zenon, EarlyMade DEF TeardownInv, ExitInv, Registered, Passed
  <1>5. open => phase \in {"loading", "loaded"} /\ ~(phase = "loading" /\ step <= 3)
    BY Zenon DEF TeardownInv, FileInv, LoadInv
  <1>6. phase \in {"loading", "loaded"} => \A x : ~Passed(x)
    BY Zenon DEF Passed
  <1>7. FileInv'
    BY <1>1, <1>3, <1>4, <1>5 DEF TeardownInv, FileInv, TypeInv
  <1>8. LoadInv'
    BY Zenon, <1>1, <1>3, <1>4, <1>5 DEF TeardownInv, LoadInv
  <1>9. ExitInv'
    BY Zenon, <1>1, <1>2, <1>3, <1>5, <1>6 DEF TeardownInv, ExitInv
  <1> QED  BY Zenon, <1>7, <1>8, <1>9 DEF TeardownInv

\* Each step of the exit disposes of what it names and adds nothing.
LEMMA ExitTeardown ==
    ASSUME TypeInv, TypeInv', TeardownInv, ExitStep
    PROVE  TeardownInv'
  <1>1. AfterExitStep
    BY Zenon DEF ExitStep, ExitUnregisters, ExitCancels, ExitDrains, ExitFreesSnapshots
  <1>2. /\ phase = "unloading" /\ phase' \in {"unloading", "gone"}
        /\ UNCHANGED <<open, call, running>>
    BY Zenon, <1>1 DEF AfterExitStep, lookups
  <1>3. PICK x : x = ExitSteps[step]
    BY Zenon
  <1>4. \A y \in ExitNames : Passed(y)' => Passed(y) \/ y = x
    BY Zenon, <1>1, <1>3, PassedStep
  <1>5. FileInv' /\ LoadInv'
    BY Zenon, <1>2 DEF TeardownInv, FileInv, LoadInv
  <1>6. CASE ExitUnregisters
    <2>1. /\ UNCHANGED <<lists, pending, queued, snapshot>> /\ x \in Registered
          /\ \/ x = "kprobe" /\ ("kprobe" \in made => skipped') /\ made' = made
             \/ made' = made \ {x} /\ skipped' = skipped
      <3>1. ASSUME skipped' = ("kprobe" \in made)
            PROVE  "kprobe" \in made => skipped'
        BY <3>1, Zenon
      <3> QED  BY Zenon, <1>3, <1>6, <3>1, Tables DEF ExitUnregisters
    <2>2. \A y \in ExitNames \ Registered : Passed(y)' => Passed(y)
      BY Zenon, <1>4, <2>1
    <2>3. x = "kprobe" => ~Passed("resurrect") /\ ~Passed("poisoned_qids")
      <3>1. ASSUME x = "kprobe"
            PROVE  step = 1
        <4>1. step \in 1 .. 15 /\ ExitSteps[step] = ExitSteps[1]
          BY <1>2, <1>3, <3>1, ExitTable DEF TypeInv
        <4> QED  BY <4>1, ExitTableOnce
      <3>2. step = 1 => \A y : ~Passed(y)
        BY <1>2 DEF Passed
      <3> QED  BY Zenon, <3>1, <3>2
    <2>4. /\ Passed("kprobe")' /\ "kprobe" \in made' => skipped'
          /\ \A y \in Registered \ {"kprobe"} : Passed(y)' => y \notin made'
      <3>1. Registered \subseteq ExitNames /\ "kprobe" \in Registered
        BY Zenon DEF ExitNames, Registered
      <3> QED  BY <1>4, <2>1, <3>1 DEF TeardownInv, ExitInv
    <2>5. ExitInv'
      BY <1>2, <2>1, <2>2, <2>3, <2>4 DEF TeardownInv, ExitInv, ExitNames, Registered, Works, Lists
    <2> QED  BY Zenon, <1>5, <2>5 DEF TeardownInv
  <1>7. CASE ExitCancels
    <2>1. /\ UNCHANGED <<made, skipped, lists, pending, snapshot>> /\ x \in Works \ running
          /\ queued' = queued \ {x}
      BY Zenon, <1>3, <1>7 DEF ExitCancels
    <2>2. \A y \in ExitNames \ Works : Passed(y)' => Passed(y)
      BY Zenon, <1>4, <2>1
    <2>3. \A y \in Works : Passed(y)' => Passed(y) \/ y \notin queued' \union running'
      BY Zenon, <1>2, <1>4, <2>1 DEF ExitNames
    <2>4. ExitInv'
      BY Zenon, <1>2, <2>1, <2>2, <2>3 DEF TeardownInv, ExitInv, ExitNames, Registered, Works, Lists
    <2> QED  BY Zenon, <1>5, <2>4 DEF TeardownInv
  <1>8. CASE ExitDrains
    <2>1. /\ UNCHANGED <<made, skipped, queued, snapshot>> /\ x \in Lists \union {"pending"}
          /\ lists' = lists \ {x} /\ pending' = IF x = "pending" THEN <<>> ELSE pending
      BY Zenon, <1>3, <1>8 DEF ExitDrains
    <2>2. \A y \in ExitNames \ (Lists \union {"pending"}) : Passed(y)' => Passed(y)
      BY Zenon, <1>4, <2>1
    <2>3. /\ \A y \in Lists : Passed(y)' => Passed(y) \/ y \notin lists'
          /\ Passed("pending")' => Passed("pending") \/ pending' = <<>>
      BY Zenon, <1>4, <2>1 DEF ExitNames
    <2>4. ExitInv'
      BY Zenon, <1>2, <2>1, <2>2, <2>3 DEF TeardownInv, ExitInv, ExitNames, Registered, Works, Lists
    <2> QED  BY Zenon, <1>5, <2>4 DEF TeardownInv
  <1>9. CASE ExitFreesSnapshots
    <2>1. /\ UNCHANGED <<made, skipped, lists, pending, queued>> /\ x = "snapshots"
          /\ \A q \in Queues : snapshot'[q] = "none"
      BY Zenon, <1>3, <1>9 DEF ExitFreesSnapshots
    <2>2. \A y \in ExitNames \ {"snapshots"} : Passed(y)' => Passed(y)
      BY Zenon, <1>4, <2>1
    <2>3. ExitInv'
      BY Zenon, <1>2, <2>1, <2>2 DEF TeardownInv, ExitInv, ExitNames, Registered, Works, Lists
    <2> QED  BY Zenon, <1>5, <2>3 DEF TeardownInv
  <1> QED  BY Zenon, <1>6, <1>7, <1>8, <1>9 DEF ExitStep

\* Every step keeps the teardown's invariant.
LEMMA NextTeardown ==
    TypeInv /\ TypeInv' /\ WorkInv /\ TeardownInv /\ [Next]_vars => TeardownInv'
  <1>1. ASSUME TeardownInv, UNCHANGED vars
        PROVE  TeardownInv'
    <2>1. UNCHANGED <<phase, step, made, skipped, open, lists, pending, queued, running, snapshot, call>>
      BY Zenon, <1>1 DEF vars, control, capture, lookups
    <2>2. \A x : Passed(x)' <=> Passed(x)
      BY Zenon, <2>1 DEF Passed
    <2> QED  BY Zenon, <1>1, <2>1, <2>2 DEF TeardownInv, FileInv, LoadInv, ExitInv
  <1> QED  BY Zenon, <1>1, ControlTeardown, DriverTeardown, WorkTeardown, RequestTeardown, ExitTeardown
           DEF Next

\* Nothing is behind the exit in the beginning.
LEMMA InitTeardown == Init => TeardownInv
  BY Zenon DEF Init, TeardownInv, FileInv, LoadInv, ExitInv, Passed, InitSteps

\* In every behaviour, when rocm_xio_exit frees the first list no probe can add to
\* it and neither work is queued or runs, unless the exit left the kprobe behind.
THEOREM TeardownStaysQuiet == Spec => []TeardownQuiet
  <1>1. TypeInv /\ TeardownInv => TeardownQuiet
    <2> SUFFICES ASSUME TypeInv, TeardownInv, phase = "unloading",
                        ExitSteps[step] \notin {"kprobe", "allocKrp", "createKrp"} \union Works
                 PROVE  /\ made \cap {"allocKrp", "createKrp"} = {}
                        /\ "snapshot" \notin queued \union running
                        /\ skipped \/ queued \union running = {}
      BY Zenon DEF TeardownQuiet
    <2>1. step \in 1 .. 15
      BY Zenon DEF TypeInv
    <2>2. step \notin {1, 2, 3, 4, 5}
      BY Zenon, ExitTable DEF Works
    <2>3. 2 < step /\ 3 < step /\ 4 < step /\ 5 < step
      BY <2>1, <2>2
    <2>4. Passed("allocKrp") /\ Passed("createKrp") /\ Passed("snapshot") /\ Passed("resurrect")
      BY <2>3, PassedAt, ExitTable
    <2>5. "allocKrp" \notin made /\ "createKrp" \notin made
      BY Zenon, <2>4 DEF TeardownInv, ExitInv, Registered
    <2>6. /\ "snapshot" \notin queued \union running
          /\ skipped \/ "resurrect" \notin queued \union running
      BY Zenon, <2>4 DEF TeardownInv, ExitInv
    <2>7. queued \union running \subseteq {"snapshot", "resurrect"}
      BY Zenon DEF TypeInv, Works
    <2> QED  BY Zenon, <2>5, <2>6, <2>7
  <1> QED  BY InitType, NextType, InitTeardown, NextTeardown, <1>1, PTL DEF Spec

\* In every behaviour, after rmmod or a load that failed nothing of the module is
\* registered, queued, allocated or referenced, unless the kprobe was left behind.
THEOREM UnloadedStaysClean == Spec => []UnloadedClean
  <1>1. RefInv /\ TeardownInv => UnloadedClean
    <2> SUFFICES ASSUME RefInv, TeardownInv, phase = "gone", ~skipped
                 PROVE  /\ made = {} /\ lists = {} /\ pending = <<>> /\ local = <<>>
                        /\ queued \union running = {}
                        /\ \A d \in Devices : refs[d] = 0
      BY Zenon DEF UnloadedClean
    <2>1. \A x : Passed(x)
      BY Zenon DEF Passed
    <2>2. made = {} /\ lists = {} /\ pending = <<>> /\ queued \union running = {}
      <3>1. made \subseteq Registered /\ lists \subseteq Lists /\ queued \union running \subseteq Works
        BY Zenon DEF RefInv, TypeInv
      <3>2. /\ \A x \in Registered : x \notin made
            /\ \A x \in Lists : x \notin lists
        BY Zenon, <2>1 DEF TeardownInv, ExitInv
      <3>3. "snapshot" \notin queued \union running /\ "resurrect" \notin queued \union running
        BY Zenon, <2>1 DEF TeardownInv, ExitInv
      <3>4. pending = <<>>
        BY Zenon, <2>1 DEF TeardownInv, ExitInv
      <3>5. queued \union running = {}
        BY Zenon, <3>1, <3>3 DEF Works
      <3> QED  BY Zenon, <3>1, <3>2, <3>4, <3>5
    <2>3. local = <<>> /\ ~found /\ held = None
      BY Zenon, <2>2 DEF RefInv, WorkInv
    <2>4. call = Idle
      BY Zenon DEF TeardownInv, FileInv
    <2>5. ASSUME NEW d \in Devices
          PROVE  refs[d] = 0
      <3>1. SnapshotsOf(d) = {}
        BY Zenon, <2>1 DEF TeardownInv, ExitInv, SnapshotsOf
      <3>2. Cardinality(SnapshotsOf(d)) = 0
        BY Zenon, <3>1, FS_EmptySet
      <3>3. call.dev # d /\ held # d
        BY Zenon, <2>3, <2>4, ModuleAssumption DEF Idle
      <3> QED  BY <2>3, <3>2, <3>3 DEF RefInv, PciRefsExact
    <2> QED  BY Zenon, <2>2, <2>3, <2>5
  <1>2. RefInv => TypeInv /\ WorkInv
    BY Zenon DEF RefInv
  <1> QED  BY InitRef, NextRef, InitTeardown, NextTeardown, <1>1, <1>2, PTL DEF Spec
=============================================================================
