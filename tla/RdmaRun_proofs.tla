--------------------------- MODULE RdmaRun_proofs ---------------------------
(***************************************************************************)
(* Proofs about RdmaRun: whatever call of init() or run() fails and        *)
(* whichever provider was chosen, nothing is released under its user or    *)
(* twice, and what is left at the end is known.                            *)
(*                                                                         *)
(* The argument has three parts.  init() and shutdown() are scripts, so    *)
(* the first part goes through them call by call: every call finds what    *)
(* its resource stands on, and the order of shutdown() has users before    *)
(* what they use.  The second is the invariant of one process: it relates  *)
(* what exists, what the fields name and how far init() got.  The third    *)
(* shows that every action keeps it.  Lemmas that serve one result only    *)
(* are steps of its proof.                                                 *)
(***************************************************************************)
EXTENDS RdmaRun, WellFoundedInduction, TLAPS

-----------------------------------------------------------------------------
(* The provider open_dv_libs settles on, and what its resources stand on.  *)

\* A set of numbers that is not empty has a least one, and First is it.
LEMMA FirstIsLeast ==
    ASSUME NEW T \in SUBSET Nat, T # {}
    PROVE  First(T) \in T /\ \A j \in T : First(T) <= j
  <1> DEFINE R == {ss \in Nat \X Nat : ss[1] < ss[2]}
  <1>1. IsWellFoundedOn(R, Nat)
    BY Zenon, NatLessThanWellFounded DEF OpToRel
  <1>2. PICK m \in T : \A j \in T : ~(<<j, m>> \in R)
    <2> HIDE DEF R
    <2> QED  BY Zenon, <1>1, WFMin
  <1>3. ASSUME NEW j \in T PROVE m <= j
    <2>1. <<j, m>> \in Nat \X Nat /\ <<j, m>>[1] = j /\ <<j, m>>[2] = m
      BY Zenon
    <2>2. ~(j < m)
      BY Zenon, <1>2, <2>1
    <2> QED  BY <2>2
  <1> QED  BY Zenon, <1>3 DEF First

\* open_dv_libs settles on one of the vendors, or on none.
LEMMA ProviderKinds ==
    ASSUME NEW c
    PROVE  OpenDvLibs(c) \in {"bnxt", "mlx5", "ionic", "ernic", "none"}
  <1> DEFINE ok == {i \in DOMAIN DvLibs : /\ c.requested \in {DvLibs[i], "unknown"}
                                          /\ DvLibs[i] \in c.libs}
  <1>1. DOMAIN DvLibs = 1 .. 4
    BY DEF DvLibs
  <1>2. CASE ok = {}
    BY Zenon, <1>2 DEF OpenDvLibs
  <1>3. CASE ok # {}
    <2>1. ok \in SUBSET Nat
      BY <1>1
    <2>2. First(ok) \in 1 .. 4
      BY Zenon, <1>1, <1>3, <2>1, FirstIsLeast
    <2>3. OpenDvLibs(c) = DvLibs[First(ok)]
      BY Zenon, <1>3 DEF OpenDvLibs
    <2> HIDE DEF ok
    <2> QED  BY <2>2, <2>3 DEF DvLibs
  <1> QED  BY Zenon, <1>2, <1>3

\* The pairs of NeedsOf, one by one.
PairIs(d, x, y) == d[1] = x /\ d[2] = y

\* The parts of a pair.
LEMMA PairParts ==
    ASSUME NEW d, NEW x, NEW y, d = <<x, y>>
    PROVE  PairIs(d, x, y)
  BY DEF PairIs

CommonNeeds(d) == \/ PairIs(d, "qp", "pd") \/ PairIs(d, "pd", "context") \/ PairIs(d, "mr", "pd")

BnxtNeeds(d) ==
  \/ PairIs(d, "qp", "scq cq") \/ PairIs(d, "qp", "rcq cq") \/ PairIs(d, "qp", "sq umem")
  \/ PairIs(d, "qp", "rq umem") \/ PairIs(d, "qp", "sq buf") \/ PairIs(d, "qp", "rq buf")
  \/ PairIs(d, "scq cq", "scq umem") \/ PairIs(d, "rcq cq", "rcq umem")
  \/ PairIs(d, "scq umem", "scq buf") \/ PairIs(d, "rcq umem", "rcq buf")
  \/ PairIs(d, "rcq cq", "context") \/ PairIs(d, "dbr reg", "db attr")

ErnicNeeds(d) ==
  \/ PairIs(d, "qp", "scq cq") \/ PairIs(d, "qp", "rcq cq") \/ PairIs(d, "qp", "sq umem")
  \/ PairIs(d, "qp", "rq umem") \/ PairIs(d, "qp", "sq buf") \/ PairIs(d, "qp", "rq buf")
  \/ PairIs(d, "scq cq", "scq umem") \/ PairIs(d, "scq umem", "scq buf")

Mlx5Needs(d) ==
  \/ PairIs(d, "sq reg", "qp") \/ PairIs(d, "sq dbr", "qp") \/ PairIs(d, "bf reg", "qp")
  \/ PairIs(d, "cq reg", "cq_") \/ PairIs(d, "cq dbr", "cq_") \/ PairIs(d, "qp", "cq_")
  \/ PairIs(d, "cq_", "context")

IonicNeeds(d) ==
  \/ PairIs(d, "qp", "cq_") \/ PairIs(d, "qp", "pd parent") \/ PairIs(d, "cq_", "pd parent")
  \/ PairIs(d, "mr", "pd parent") \/ PairIs(d, "pd parent", "pd")

NoneNeeds(d) ==
  \/ PairIs(d, "qp", "cq_") \/ PairIs(d, "cq_", "context")

\* What a resource may stand on, by provider: ibverbs objects on their context,
\* PD and CQs, direct-verbs objects on their umems and buffers.
LEMMA NeedsAre ==
    ASSUME NEW c, NEW d \in Needs(c)
    PROVE  \/ CommonNeeds(d)
           \/ OpenDvLibs(c) = "bnxt" /\ BnxtNeeds(d)
           \/ OpenDvLibs(c) = "ernic" /\ ErnicNeeds(d)
           \/ OpenDvLibs(c) = "mlx5" /\ Mlx5Needs(d)
           \/ OpenDvLibs(c) = "ionic" /\ IonicNeeds(d)
           \/ OpenDvLibs(c) = "none" /\ NoneNeeds(d)
  <1>1. CASE OpenDvLibs(c) = "bnxt"
    <2>1. \/ d \in {<<"qp", "pd">>, <<"pd", "context">>, <<"mr", "pd">>}
          \/ d \in {<<"qp", "scq cq">>, <<"qp", "rcq cq">>, <<"qp", "sq umem">>,
                 <<"qp", "rq umem">>, <<"qp", "sq buf">>, <<"qp", "rq buf">>,
                 <<"scq cq", "scq umem">>, <<"rcq cq", "rcq umem">>, <<"scq umem", "scq buf">>,
                 <<"rcq umem", "rcq buf">>, <<"rcq cq", "context">>, <<"dbr reg", "db attr">>}
      BY <1>1 DEF Needs
    <2>2. CASE d \in {<<"qp", "pd">>, <<"pd", "context">>, <<"mr", "pd">>}
      BY Zenon, <2>2, PairParts DEF CommonNeeds
    <2>3. CASE d \in {<<"qp", "scq cq">>, <<"qp", "rcq cq">>, <<"qp", "sq umem">>,
                      <<"qp", "rq umem">>, <<"qp", "sq buf">>, <<"qp", "rq buf">>,
                      <<"scq cq", "scq umem">>, <<"rcq cq", "rcq umem">>, <<"scq umem", "scq buf">>,
                      <<"rcq umem", "rcq buf">>, <<"rcq cq", "context">>, <<"dbr reg", "db attr">>}
      BY Zenon, <1>1, <2>3, PairParts DEF BnxtNeeds
    <2> QED  BY Zenon, <2>1, <2>2, <2>3
  <1>2. CASE OpenDvLibs(c) = "ernic"
    <2>1. \/ d \in {<<"qp", "pd">>, <<"pd", "context">>, <<"mr", "pd">>}
          \/ d \in {<<"qp", "scq cq">>, <<"qp", "rcq cq">>, <<"qp", "sq umem">>,
                 <<"qp", "rq umem">>, <<"qp", "sq buf">>, <<"qp", "rq buf">>,
                 <<"scq cq", "scq umem">>, <<"scq umem", "scq buf">>}
      BY <1>2 DEF Needs
    <2>2. CASE d \in {<<"qp", "pd">>, <<"pd", "context">>, <<"mr", "pd">>}
      BY Zenon, <2>2, PairParts DEF CommonNeeds
    <2>3. CASE d \in {<<"qp", "scq cq">>, <<"qp", "rcq cq">>, <<"qp", "sq umem">>,
                      <<"qp", "rq umem">>, <<"qp", "sq buf">>, <<"qp", "rq buf">>,
                      <<"scq cq", "scq umem">>, <<"scq umem", "scq buf">>}
      BY Zenon, <1>2, <2>3, PairParts DEF ErnicNeeds
    <2> QED  BY Zenon, <2>1, <2>2, <2>3
  <1>3. CASE OpenDvLibs(c) = "mlx5"
    <2>1. \/ d \in {<<"qp", "pd">>, <<"pd", "context">>, <<"mr", "pd">>}
          \/ d \in {<<"sq reg", "qp">>, <<"sq dbr", "qp">>, <<"bf reg", "qp">>,
                 <<"cq reg", "cq_">>, <<"cq dbr", "cq_">>, <<"qp", "cq_">>,
                 <<"cq_", "context">>}
      BY <1>3 DEF Needs
    <2>2. CASE d \in {<<"qp", "pd">>, <<"pd", "context">>, <<"mr", "pd">>}
      BY Zenon, <2>2, PairParts DEF CommonNeeds
    <2>3. CASE d \in {<<"sq reg", "qp">>, <<"sq dbr", "qp">>, <<"bf reg", "qp">>,
                      <<"cq reg", "cq_">>, <<"cq dbr", "cq_">>, <<"qp", "cq_">>,
                      <<"cq_", "context">>}
      BY Zenon, <1>3, <2>3, PairParts DEF Mlx5Needs
    <2> QED  BY Zenon, <2>1, <2>2, <2>3
  <1>4. CASE OpenDvLibs(c) = "ionic"
    <2>1. \/ d \in {<<"qp", "pd">>, <<"pd", "context">>, <<"mr", "pd">>}
          \/ d \in {<<"qp", "cq_">>, <<"qp", "pd parent">>, <<"cq_", "pd parent">>,
                 <<"mr", "pd parent">>, <<"pd parent", "pd">>}
      BY <1>4 DEF Needs
    <2>2. CASE d \in {<<"qp", "pd">>, <<"pd", "context">>, <<"mr", "pd">>}
      BY Zenon, <2>2, PairParts DEF CommonNeeds
    <2>3. CASE d \in {<<"qp", "cq_">>, <<"qp", "pd parent">>, <<"cq_", "pd parent">>,
                      <<"mr", "pd parent">>, <<"pd parent", "pd">>}
      BY Zenon, <1>4, <2>3, PairParts DEF IonicNeeds
    <2> QED  BY Zenon, <2>1, <2>2, <2>3
  <1>5. CASE OpenDvLibs(c) = "none"
    <2>1. \/ d \in {<<"qp", "pd">>, <<"pd", "context">>, <<"mr", "pd">>}
          \/ d \in {<<"qp", "cq_">>, <<"cq_", "context">>}
      BY <1>5 DEF Needs
    <2>2. CASE d \in {<<"qp", "pd">>, <<"pd", "context">>, <<"mr", "pd">>}
      BY Zenon, <2>2, PairParts DEF CommonNeeds
    <2>3. CASE d \in {<<"qp", "cq_">>, <<"cq_", "context">>}
      BY Zenon, <1>5, <2>3, PairParts DEF NoneNeeds
    <2> QED  BY Zenon, <2>1, <2>2, <2>3
  <1> QED  BY Zenon, <1>1, <1>2, <1>3, <1>4, <1>5, ProviderKinds

-----------------------------------------------------------------------------
(* The scripts of create_cqs and create_qps, call by call.                 *)

IsSeq(s) == s \in Seq(Elements(s))

\* What a concatenation holds.
LEMMA ConcatFacts ==
    ASSUME NEW s, NEW t, IsSeq(s), IsSeq(t)
    PROVE  /\ IsSeq(s \o t)
           /\ Len(s) \in Nat /\ Len(t) \in Nat /\ Len(s \o t) = Len(s) + Len(t)
           /\ DOMAIN s = 1 .. Len(s) /\ DOMAIN t = 1 .. Len(t)
           /\ DOMAIN (s \o t) = 1 .. Len(s) + Len(t)
           /\ \A i \in 1 .. Len(s) : (s \o t)[i] = s[i]
           /\ \A i \in 1 .. Len(t) : (s \o t)[Len(s) + i] = t[i]
  <1> DEFINE X == Elements(s) \cup Elements(t)
  <1>1. s \in Seq(X) /\ t \in Seq(X)
    BY DEF IsSeq
  <1> HIDE DEF X
  <1>2. s \o t \in Seq(X)
    BY <1>1
  <1>3. s \o t \in Seq(Elements(s \o t))
    <2> DEFINE u == s \o t
    <2> HIDE DEF u
    <2>1. u \in Seq(X)
      BY <1>2 DEF u
    <2>2. u \in Seq(Elements(u))
      BY <2>1 DEF Elements
    <2> QED  BY Zenon, <2>2 DEF u
  <1> QED  BY <1>1, <1>3 DEF IsSeq

\* The scripts are written as literals of a few steps.
LEMMA LiteralSeqs ==
    ASSUME NEW u, NEW v, NEW w, NEW x
    PROVE  /\ IsSeq(<<>>) /\ IsSeq(<<u>>) /\ IsSeq(<<u, v>>) /\ IsSeq(<<u, v, w>>)
           /\ IsSeq(<<u, v, w, x>>)
           /\ Len(<<>>) = 0 /\ Len(<<u>>) = 1 /\ Len(<<u, v>>) = 2 /\ Len(<<u, v, w>>) = 3
           /\ Len(<<u, v, w, x>>) = 4
  BY DEF IsSeq, Elements

\* u is s, of n elements, followed by t, of m.
Joined(u, s, n, t, m) ==
  /\ IsSeq(u) /\ Len(u) = n + m /\ DOMAIN u = 1 .. n + m
  /\ \A i \in 1 .. n : u[i] = s[i]
  /\ \A i \in 1 .. m : u[n + i] = t[i]

\* A script made of two, with the lengths of both.
LEMMA ConcatAt ==
    ASSUME NEW s, NEW t, IsSeq(s), IsSeq(t), NEW n \in Nat, NEW m \in Nat,
           Len(s) = n, Len(t) = m, NEW u, u = s \o t
    PROVE  Joined(u, s, n, t, m)
  BY ConcatFacts DEF Joined

CqNames == {"scq_", "rcq_", "scq buf", "scq umem", "scq cq", "rcq buf", "rcq umem", "rcq cq"}

QpNames == {"qp struct", "sq buf", "sq umem", "rq buf", "rq umem"}

\* The resources a Backend keeps in a field of their name, by provider.
KnownOf(p) ==
  {"context", "pd", "qp", "host qp", "gpu qp", "mr", "buf", "counters"}
  \cup (CASE p = "bnxt"  -> CqNames \cup QpNames \cup {"db attr", "dbr reg"}
          [] p = "ernic" -> CqNames \cup QpNames \cup {"uar reg"}
          [] p = "mlx5"  -> {"cq_", "smoke buf", "smoke mr", "sq reg", "cq reg", "sq dbr",
                             "cq dbr", "bf reg"}
          [] p = "ionic" -> {"pd parent", "cq_", "db page"}
          [] OTHER -> {"cq_"})

\* The send CQ of these has a second name, and their umems are locals at first.
TwoNames(p) == p \in {"bnxt", "ernic"}

\* What no field names.
Dmabufs == {"scq dmabuf", "rcq dmabuf"}

Bridge == {"bridge map", "bridge reg"}

Unkept(p) ==
  {"dv lib"} \cup (IF p = "bnxt" THEN Dmabufs \cup {"db region"} ELSE {})
             \cup (IF p = "ernic" THEN Bridge ELSE {})

ScqAlias == <<"cq_", "scq cq">>

Umems == {"sq umem", "rq umem"}

\* Step i of s comes after one of its function that acquires x.
Before(s, i, x) == \E j \in 1 .. i - 1 : s[j].fn = s[i].fn /\ x \in s[j].gets

\* What step i of create_queues relies on.
Stands(p, s, i, d) ==
  \/ d[2] \in {"context", "pd"}
  \/ TwoNames(p) /\ d[1] = "qp" /\ d[2] \in {"scq cq", "rcq cq"}
  \/ Before(s, i, d[2])

\* What one step of create_queues acquires, assigns and gives up.
CreateKind(p, e) ==
  /\ e.fn \in {"create_cqs", "create_qps", "create_queues"}
  /\ e.fail \in {"leave", "abort", "never"}
  /\ e.drops = {} \/ (e.drops = {"db attr"} /\ "db attr" \in e.gets /\ "qp" \notin e.gets
                      /\ p = "bnxt" /\ <<"db attr", "db attr">> \in e.sets)
  /\ e.gets \subseteq KnownOf(p) \cup Unkept(p) 
  /\ e.gets \cap ({"dbr reg", "mr"} \cup Smoke) = {}
  /\ \A x \in e.sets : (TwoNames(p) /\ x = ScqAlias) \/ \E r \in KnownOf(p) \ Smoke : x = <<r, r>>
  /\ \A r \in e.gets : <<r, r>> \in e.sets \/ r \in Unkept(p) \/ (TwoNames(p) /\ r \in Umems)

CreateFacts(c, s, i) ==
  LET p == OpenDvLibs(c) IN
  /\ CreateKind(p, s[i])
  /\ \A d \in Needs(c) : d[1] \in s[i].gets => Stands(p, s, i, d)
  /\ \A x \in s[i].sets : x[2] \in s[i].gets \/ Before(s, i, x[2])
  /\ ScqAlias \in s[i].sets => Before(s, i, "rcq cq")
  /\ p = "bnxt" /\ "qp" \in s[i].gets => Before(s, i, "db attr")
  /\ s[i].gets \cap Umems # {} => \E k \in DOMAIN s : k > i /\ s[k] = FillAttr

CreateOk(c, s) == IsSeq(s) /\ \A i \in DOMAIN s : CreateFacts(c, s, i)

\* The parts of each form of step.
IsStep(e, f, D, G, P, x) == e.fn = f /\ e.drops = D /\ e.gets = G /\ e.sets = P /\ e.fail = x

\* The parts of a step.
LEMMA StepParts ==
    ASSUME NEW e, NEW f, NEW D, NEW G, NEW P, NEW x, e = Step(f, D, G, P, x)
    PROVE  IsStep(e, f, D, G, P, x)
  BY DEF IsStep, Step

\* The parts of the four kinds of steps the scripts are made of.
LEMMA FormParts ==
    ASSUME NEW e, NEW f, NEW r, NEW P, NEW x
    PROVE  /\ e = Gets(f, r, x) => IsStep(e, f, {}, {r}, {<<r, r>>}, x)
           /\ e = GetsLocal(f, r, x) => IsStep(e, f, {}, {r}, {}, x)
           /\ e = Calls(f, x) => IsStep(e, f, {}, {}, {}, x)
           /\ e = Sets(f, P) => IsStep(e, f, {}, {}, P, "never")
  BY Zenon, StepParts DEF Gets, GetsLocal, Calls, Sets

\* A step belongs to the function it was written for.
LEMMA FormFn ==
    ASSUME NEW e, NEW f, NEW r, NEW P, NEW x,
           e = Gets(f, r, x) \/ e = GetsLocal(f, r, x) \/ e = Calls(f, x) \/ e = Sets(f, P)
    PROVE  e.fn = f
  <1>1. \/ IsStep(e, f, {}, {r}, {<<r, r>>}, x) \/ IsStep(e, f, {}, {r}, {}, x)
        \/ IsStep(e, f, {}, {}, {}, x) \/ IsStep(e, f, {}, {}, P, "never")
    BY Zenon, FormParts
  <1> QED  BY Zenon, <1>1 DEF IsStep

\* Every step of s is in function f.
AllFn(s, f) == \A i \in DOMAIN s : s[i].fn = f

\* The step that allocates a CQ's buffer b, and with bnxt may export it as f.
CqBuf(p, e, b, f) ==
  \E G : /\ IsStep(e, "create_cqs", {}, G, {<<b, b>>}, "leave")
         /\ G = {b} \/ (p = "bnxt" /\ G = {b, f})

IsCqs(p, s) ==
  /\ IsSeq(s) /\ Len(s) = 9 /\ DOMAIN s = 1 .. 9
  /\ s[1] = Gets("create_cqs", "scq_", "leave")
  /\ s[2] = Gets("create_cqs", "rcq_", "leave")
  /\ CqBuf(p, s[3], "scq buf", "scq dmabuf")
  /\ s[4] = Gets("create_cqs", "scq umem", "leave")
  /\ s[5] = Gets("create_cqs", "scq cq", "leave")
  /\ CqBuf(p, s[6], "rcq buf", "rcq dmabuf")
  /\ s[7] = Gets("create_cqs", "rcq umem", "leave")
  /\ s[8] = Gets("create_cqs", "rcq cq", "leave")
  /\ s[9] = Sets("create_cqs", {ScqAlias})

IsOneCq(p, y, buf, fd, umem, cq) ==
  /\ IsSeq(y) /\ Len(y) = 3
  /\ CqBuf(p, y[1], buf, fd)
  /\ y[2] = Gets("create_cqs", umem, "leave")
  /\ y[3] = Gets("create_cqs", cq, "leave")

FourParts(u, x, y, z, e) ==
  /\ IsSeq(u) /\ Len(u) = 9 /\ DOMAIN u = 1 .. 9
  /\ u[1] = x[1] /\ u[2] = x[2] /\ u[3] = y[1] /\ u[4] = y[2] /\ u[5] = y[3]
  /\ u[6] = z[1] /\ u[7] = z[2] /\ u[8] = z[3] /\ u[9] = e[1]

DbStep == Step("create_qps", {"db attr"}, {"db attr", "db region"}, {<<"db attr", "db attr">>}, "leave")

IsQps(c, s, n) ==
  /\ IsSeq(s) /\ Len(s) = n /\ DOMAIN s = 1 .. n
  /\ s[1] = Gets("create_qps", "qp struct", "leave")
  /\ s[2] = Gets("create_qps", "sq buf", "leave")
  /\ s[3] = GetsLocal("create_qps", "sq umem", "leave")
  /\ s[4] = Gets("create_qps", "rq buf", "leave")
  /\ s[5] = GetsLocal("create_qps", "rq umem", "leave")
  /\ s[n - 1] = FillAttr
  /\ s[n] = Gets("create_qps", "qp", "leave")
  /\ \/ OpenDvLibs(c) = "ernic" /\ n = 7
     \/ /\ OpenDvLibs(c) = "bnxt" /\ n \in {8, 9}
        /\ s[6] = Gets("create_qps", "db attr", "leave")
        /\ n = 9 => s[7] = DbStep

\* The steps of a function are next to each other.
TwoParts(s) ==
  \E m \in Nat : \E f, g : f # g /\ \A i \in DOMAIN s : s[i].fn = IF i <= m THEN f ELSE g

QueueFacts(c, s) ==
  /\ CreateOk(c, s) /\ TwoParts(s)
  /\ \A i \in DOMAIN s : "qp" \in s[i].gets => i = Len(s)

IsPlain(c, s, n, f, x) ==
  /\ IsSeq(s) /\ Len(s) = n /\ DOMAIN s = 1 .. n
  /\ s[n - 1] = Gets(f, "cq_", x) /\ s[n] = Gets(f, "qp", "leave")
  /\ \/ n = 2 /\ OpenDvLibs(c) # "ionic"
     \/ n = 3 /\ OpenDvLibs(c) = "ionic" /\ s[1] = Gets(f, "pd parent", "leave")

\* The facts hold of every provider's create_queues.
LEMMA QueuesOk == \A c : QueueFacts(c, CreateQueues(c)) /\ IsSeq(CreateQueues(c))
  \* An earlier call of the same function stays one when scripts are joined.
  <1>BeforeConcat.
      ASSUME NEW s, NEW t, IsSeq(s), IsSeq(t), NEW x
      PROVE  /\ \A i \in 1 .. Len(s) : Before(s, i, x) => Before(s \o t, i, x)
             /\ \A i \in 1 .. Len(t) : Before(t, i, x) => Before(s \o t, Len(s) + i, x)
    <2> USE <1>BeforeConcat
    <2>1. ASSUME NEW i \in 1 .. Len(s), NEW j \in 1 .. i - 1, s[j].fn = s[i].fn, x \in s[j].gets
          PROVE  Before(s \o t, i, x)
      <3>1. j \in 1 .. Len(s) /\ i \in 1 .. Len(s)
        BY <2>1
      <3>2. (s \o t)[i] = s[i] /\ (s \o t)[j] = s[j]
        BY Zenon, <3>1, ConcatFacts
      <3> QED  BY Zenon, <2>1, <3>2 DEF Before
    <2>2. ASSUME NEW i \in 1 .. Len(t), NEW j \in 1 .. i - 1, t[j].fn = t[i].fn, x \in t[j].gets
          PROVE  Before(s \o t, Len(s) + i, x)
      <3>1. j \in 1 .. Len(t) /\ i \in 1 .. Len(t) /\ Len(s) + j \in 1 .. (Len(s) + i) - 1
        BY <2>2
      <3>0. \A k \in 1 .. Len(t) : (s \o t)[Len(s) + k] = t[k]
        BY ConcatFacts
      <3>2. (s \o t)[Len(s) + i] = t[i] /\ (s \o t)[Len(s) + j] = t[j]
        BY Zenon, <3>0, <3>1
      <3> QED  BY Zenon, <2>2, <3>1, <3>2 DEF Before
    <2> QED  BY Zenon, <2>1, <2>2 DEF Before

  \* So does what a call finds of what its resource stands on.
  <1>StandsConcat.
      ASSUME NEW s, NEW t, IsSeq(s), IsSeq(t), NEW p, NEW d
      PROVE  /\ \A i \in 1 .. Len(s) : Stands(p, s, i, d) => Stands(p, s \o t, i, d)
             /\ \A i \in 1 .. Len(t) : Stands(p, t, i, d) => Stands(p, s \o t, Len(s) + i, d)
    BY Zenon, <1>StandsConcat, <1>BeforeConcat DEF Stands

  \* The facts hold of two stretches of steps taken together.
  <1>CreateConcat.
      ASSUME NEW c, NEW s, NEW t, CreateOk(c, s), CreateOk(c, t)
      PROVE  CreateOk(c, s \o t)
    <2> USE <1>CreateConcat
    <2> DEFINE u == s \o t
    <2>0. IsSeq(s) /\ IsSeq(t)
      BY Zenon DEF CreateOk
    <2>1. /\ IsSeq(u) /\ Len(s) \in Nat /\ Len(t) \in Nat
          /\ DOMAIN s = 1 .. Len(s) /\ DOMAIN t = 1 .. Len(t)
          /\ DOMAIN u = 1 .. Len(s) + Len(t)
          /\ \A i \in 1 .. Len(s) : u[i] = s[i]
          /\ \A i \in 1 .. Len(t) : u[Len(s) + i] = t[i]
      BY <2>0, ConcatFacts
    <2>2. ASSUME NEW i \in 1 .. Len(s) PROVE CreateFacts(c, u, i)
      <3>1. CreateFacts(c, s, i) /\ u[i] = s[i]
        BY Zenon, <2>1 DEF CreateOk
      <3>2. \A x : Before(s, i, x) => Before(u, i, x)
        BY Zenon, <2>0, <1>BeforeConcat
      <3>3. \A p, d : Stands(p, s, i, d) => Stands(p, u, i, d)
        BY Zenon, <2>0, <1>StandsConcat
      <3>4. ASSUME NEW k \in DOMAIN s, k > i, s[k] = FillAttr
            PROVE  k \in DOMAIN u /\ u[k] = FillAttr
        BY <2>1, <3>4
      <3> HIDE DEF u
      <3> QED  BY Zenon, <3>1, <3>2, <3>3, <3>4 DEF CreateFacts
    <2>3. ASSUME NEW i \in 1 .. Len(t) PROVE CreateFacts(c, u, Len(s) + i)
      <3>1. CreateFacts(c, t, i) /\ u[Len(s) + i] = t[i]
        BY Zenon, <2>1 DEF CreateOk
      <3>2. \A x : Before(t, i, x) => Before(u, Len(s) + i, x)
        BY Zenon, <2>0, <1>BeforeConcat
      <3>3. \A p, d : Stands(p, t, i, d) => Stands(p, u, Len(s) + i, d)
        BY Zenon, <2>0, <1>StandsConcat
      <3>4. ASSUME NEW k \in DOMAIN t, k > i, t[k] = FillAttr
            PROVE  /\ Len(s) + k \in DOMAIN u /\ Len(s) + k > Len(s) + i
                   /\ u[Len(s) + k] = FillAttr
        BY <2>1, <3>4
      <3> HIDE DEF u
      <3> QED  BY Zenon, <3>1, <3>2, <3>3, <3>4 DEF CreateFacts
    <2>4. ASSUME NEW i \in DOMAIN u PROVE CreateFacts(c, u, i)
      <3>1. \/ i \in 1 .. Len(s)
            \/ i - Len(s) \in 1 .. Len(t) /\ Len(s) + (i - Len(s)) = i
        BY <2>1, <2>4
      <3> HIDE DEF u
      <3> QED  BY Zenon, <3>1, <2>2, <2>3
    <2> QED  BY Zenon, <2>1, <2>4 DEF CreateOk

  \* A call that acquires r and keeps it.
  <1>GetsFacts.
      ASSUME NEW c, NEW s, NEW i, NEW f \in {"create_cqs", "create_qps", "create_queues"},
             NEW r \in KnownOf(OpenDvLibs(c)), NEW x \in {"leave", "abort"},
             s[i] = Gets(f, r, x), r \notin {"dbr reg", "mr"} \cup Smoke \cup Umems,
             \A d \in Needs(c) : d[1] = r => Stands(OpenDvLibs(c), s, i, d),
             OpenDvLibs(c) = "bnxt" /\ r = "qp" => Before(s, i, "db attr")
      PROVE  CreateFacts(c, s, i)
    <2> USE <1>GetsFacts
    <2>0. IsStep(s[i], f, {}, {r}, {<<r, r>>}, x)
      BY Zenon, FormParts
    <2>1. /\ s[i].fn = f /\ s[i].fail = x /\ s[i].drops = {} /\ s[i].gets = {r}
          /\ s[i].sets = {<<r, r>>}
      BY Zenon, <2>0 DEF IsStep
    <2>2. <<r, r>> # ScqAlias /\ <<r, r>>[2] = r
      BY DEF ScqAlias
    <2>3. CreateKind(OpenDvLibs(c), s[i])
      BY Zenon, <2>1, <2>2 DEF CreateKind
    <2> QED  BY Zenon, <2>1, <2>2, <2>3 DEF CreateFacts

  \* create_one_cq of bnxt, which may export the buffer, and of ernic.
  <1>OneCqIs.
      ASSUME NEW c, NEW p, NEW buf, NEW fd, NEW umem, NEW cq
      PROVE  /\ IsOneCq("bnxt", BnxtCreateOneCq(c, buf, fd, umem, cq), buf, fd, umem, cq)
             /\ IsOneCq(p, ErnicCreateOneCq(buf, umem, cq), buf, fd, umem, cq)
    <2>1. PICK y : y = BnxtCreateOneCq(c, buf, fd, umem, cq)
      BY Zenon
    <2>2. PICK G : G = {buf} \cup (IF buf \in c.dmabuf THEN {fd} ELSE {})
      BY Zenon
    <2>3. G = {buf} \/ G = {buf, fd}
      BY Zenon, <2>2
    <2>4. IsSeq(y) /\ Len(y) = 3
      BY Zenon, <2>1, LiteralSeqs DEF BnxtCreateOneCq
    <2>5. /\ y[1] = Step("create_cqs", {}, G, {<<buf, buf>>}, "leave")
          /\ y[2] = Gets("create_cqs", umem, "leave") /\ y[3] = Gets("create_cqs", cq, "leave")
      BY <2>1, <2>2 DEF BnxtCreateOneCq
    <2>6. IsStep(y[1], "create_cqs", {}, G, {<<buf, buf>>}, "leave")
      BY Zenon, <2>5, StepParts
    <2>7. IsOneCq("bnxt", y, buf, fd, umem, cq)
      BY Zenon, <2>3, <2>4, <2>5, <2>6 DEF IsOneCq, CqBuf
    <2>8. PICK z : z = ErnicCreateOneCq(buf, umem, cq)
      BY Zenon
    <2>9. IsSeq(z) /\ Len(z) = 3
      BY Zenon, <2>8, LiteralSeqs DEF ErnicCreateOneCq
    <2>10. /\ z[1] = Gets("create_cqs", buf, "leave")
           /\ z[2] = Gets("create_cqs", umem, "leave") /\ z[3] = Gets("create_cqs", cq, "leave")
      BY <2>8 DEF ErnicCreateOneCq
    <2>11. IsStep(z[1], "create_cqs", {}, {buf}, {<<buf, buf>>}, "leave")
      BY Zenon, <2>10, FormParts
    <2>12. IsOneCq(p, z, buf, fd, umem, cq)
      BY Zenon, <2>9, <2>10, <2>11 DEF IsOneCq, CqBuf
    <2> QED  BY Zenon, <2>1, <2>7, <2>8, <2>12

  \* A script of the length of create_cqs, put together from its four parts.
  <1>FourJoined.
      ASSUME NEW x, NEW y, NEW z, NEW e,
             IsSeq(x), Len(x) = 2, IsSeq(y), Len(y) = 3, IsSeq(z), Len(z) = 3,
             IsSeq(e), Len(e) = 1
      PROVE  FourParts(((x \o y) \o z) \o e, x, y, z, e)
    <2> USE <1>FourJoined
    <2>0. 1 \in Nat /\ 2 \in Nat /\ 3 \in Nat /\ 5 \in Nat /\ 8 \in Nat
      OBVIOUS
    <2>7. PICK v : v = x \o y
      BY Zenon
    <2>8. Joined(v, x, 2, y, 3)
      BY Zenon, <2>0, <2>7, ConcatAt
    <2>9. IsSeq(v) /\ Len(v) = 5
      BY <2>8 DEF Joined
    <2>10. PICK w : w = v \o z
      BY Zenon
    <2>11. Joined(w, v, 5, z, 3)
      BY Zenon, <2>0, <2>9, <2>10, ConcatAt
    <2>12. IsSeq(w) /\ Len(w) = 8
      BY <2>11 DEF Joined
    <2>13. PICK u : u = w \o e
      BY Zenon
    <2>14. Joined(u, w, 8, e, 1)
      BY Zenon, <2>0, <2>12, <2>13, ConcatAt
    <2>15. v[1] = x[1] /\ v[2] = x[2] /\ v[3] = y[1] /\ v[4] = y[2] /\ v[5] = y[3]
      BY <2>8 DEF Joined
    <2>16. /\ w[1] = v[1] /\ w[2] = v[2] /\ w[3] = v[3] /\ w[4] = v[4] /\ w[5] = v[5]
           /\ w[6] = z[1] /\ w[7] = z[2] /\ w[8] = z[3]
      BY <2>11 DEF Joined
    <2>17. /\ IsSeq(u) /\ Len(u) = 9 /\ DOMAIN u = 1 .. 9
           /\ u[1] = w[1] /\ u[2] = w[2] /\ u[3] = w[3] /\ u[4] = w[4] /\ u[5] = w[5]
           /\ u[6] = w[6] /\ u[7] = w[7] /\ u[8] = w[8] /\ u[9] = e[1]
      BY <2>14 DEF Joined
    <2>18. FourParts(u, x, y, z, e)
      BY Zenon, <2>15, <2>16, <2>17 DEF FourParts
    <2> QED  BY Zenon, <2>7, <2>10, <2>13, <2>18

  \* The first and the last part of create_cqs.
  <1>CqsEnds.
      /\ IsSeq(CqStructs) /\ Len(CqStructs) = 2
      /\ CqStructs[1] = Gets("create_cqs", "scq_", "leave")
      /\ CqStructs[2] = Gets("create_cqs", "rcq_", "leave")
      /\ IsSeq(<< Sets("create_cqs", {ScqAlias}) >>) /\ Len(<< Sets("create_cqs", {ScqAlias}) >>) = 1
      /\ << Sets("create_cqs", {ScqAlias}) >>[1] = Sets("create_cqs", {ScqAlias})
    <2>1. PICK x, e : x = CqStructs /\ e = << Sets("create_cqs", {ScqAlias}) >>
      BY Zenon
    <2>2. IsSeq(x) /\ Len(x) = 2 /\ IsSeq(e) /\ Len(e) = 1
      BY Zenon, <2>1, LiteralSeqs DEF CqStructs
    <2>3. /\ x[1] = Gets("create_cqs", "scq_", "leave")
          /\ x[2] = Gets("create_cqs", "rcq_", "leave")
      BY <2>1 DEF CqStructs
    <2>4. e[1] = Sets("create_cqs", {ScqAlias})
      BY <2>1
    <2> QED  BY Zenon, <2>1, <2>2, <2>3, <2>4

  \* create_cqs from its two CQs.
  <1>CqsJoin.
      ASSUME NEW p, NEW y, NEW z,
             IsOneCq(p, y, "scq buf", "scq dmabuf", "scq umem", "scq cq"),
             IsOneCq(p, z, "rcq buf", "rcq dmabuf", "rcq umem", "rcq cq")
      PROVE  IsCqs(p, ((CqStructs \o y) \o z) \o << Sets("create_cqs", {ScqAlias}) >>)
    <2> USE Zenon, <1>CqsJoin
    <2>1. PICK x, e : x = CqStructs /\ e = << Sets("create_cqs", {ScqAlias}) >>
      OBVIOUS
    <2>2. PICK u : u = ((x \o y) \o z) \o e
      OBVIOUS
    <2>3. IsSeq(y) /\ Len(y) = 3 /\ IsSeq(z) /\ Len(z) = 3
      BY DEF IsOneCq
    <2>4. /\ IsSeq(x) /\ Len(x) = 2 /\ IsSeq(e) /\ Len(e) = 1
          /\ x[1] = Gets("create_cqs", "scq_", "leave")
          /\ x[2] = Gets("create_cqs", "rcq_", "leave")
          /\ e[1] = Sets("create_cqs", {ScqAlias})
      BY <2>1, <1>CqsEnds
    <2>5. FourParts(u, x, y, z, e)
      BY <2>2, <2>3, <2>4, <1>FourJoined
    <2>6. IsCqs(p, u)
      BY <2>4, <2>5 DEF IsCqs, IsOneCq, FourParts
    <2> QED  BY <2>1, <2>2, <2>6

  \* create_cqs of bnxt and ernic, call by call.
  <1>CqsAre.
      ASSUME NEW c
      PROVE  IsCqs("bnxt", BnxtCreateCqs(c)) /\ IsCqs("ernic", ErnicCreateCqs)
    BY Zenon, <1>OneCqIs, <1>CqsJoin DEF BnxtCreateCqs, ErnicCreateCqs, ScqAlias

  \* A resource is there for the later calls of the function that got it.
  <1>BeforeGets.
      ASSUME NEW s, NEW i, NEW j \in 1 .. i - 1, NEW f, NEW x, NEW l,
             s[j] = Gets(f, x, l) \/ s[j] = GetsLocal(f, x, l),
             s[i].fn = f
      PROVE  Before(s, i, x)
    <2> USE Zenon, <1>BeforeGets
    <2>1. s[j].fn = f /\ s[j].gets = {x}
      <3>1. IsStep(s[j], f, {}, {x}, {<<x, x>>}, l) \/ IsStep(s[j], f, {}, {x}, {}, l)
        BY FormParts
      <3> QED  BY <3>1 DEF IsStep
    <2> QED  BY <2>1 DEF Before

  \* What a bnxt or ernic queue stands on.
  <1>QueueNeeds.
      ASSUME NEW c, TwoNames(OpenDvLibs(c)), NEW d \in Needs(c)
      PROVE  /\ d[1] = "scq umem" => d[2] = "scq buf"
             /\ d[1] = "scq cq" => d[2] = "scq umem"
             /\ d[1] = "rcq umem" => d[2] = "rcq buf"
             /\ d[1] = "rcq cq" => d[2] \in {"rcq umem", "context"}
             /\ d[1] = "qp" => d[2] \in {"pd", "scq cq", "rcq cq", "sq umem", "rq umem",
                                         "sq buf", "rq buf"}
             /\ d[1] \notin {"scq_", "rcq_", "scq buf", "rcq buf", "qp struct", "sq buf",
                             "rq buf", "sq umem", "rq umem", "db attr", "db region"} \cup Dmabufs
    <2> USE Zenon, <1>QueueNeeds
    <2>1. CommonNeeds(d) \/ BnxtNeeds(d) \/ ErnicNeeds(d)
      BY NeedsAre DEF TwoNames
    <2>2. CASE CommonNeeds(d)
      BY <2>2 DEF CommonNeeds, PairIs, Dmabufs
    <2>3. CASE BnxtNeeds(d)
      BY <2>3 DEF BnxtNeeds, PairIs, Dmabufs
    <2>4. CASE ErnicNeeds(d)
      BY <2>4 DEF ErnicNeeds, PairIs, Dmabufs
    <2> QED  BY <2>1, <2>2, <2>3, <2>4

  \* What the CQs and the QP of bnxt and ernic are made of.
  <1>KnownTwo.
      ASSUME NEW p, TwoNames(p)
      PROVE  CqNames \cup QpNames \cup {"qp"} \subseteq KnownOf(p)
    BY <1>KnownTwo DEF TwoNames, KnownOf

  \* A call of create_cqs or create_qps that acquires r, of which only what is
  \* named is needed.
  <1>TwoGets.
      ASSUME NEW c, TwoNames(OpenDvLibs(c)), NEW s, NEW i,
             NEW f \in {"create_cqs", "create_qps"},
             NEW r \in (CqNames \cup QpNames \cup {"qp"}) \ Umems,
             s[i] = Gets(f, r, "leave"),
             \A d \in Needs(c) : d[1] = r => Stands(OpenDvLibs(c), s, i, d),
             r = "qp" => (OpenDvLibs(c) = "bnxt" => Before(s, i, "db attr"))
      PROVE  CreateFacts(c, s, i)
    <2> USE Zenon, <1>TwoGets
    <2>1. r \in KnownOf(OpenDvLibs(c))
      BY <1>KnownTwo
    <2>2. r \notin {"dbr reg", "mr"} \cup Smoke \cup Umems
      BY DEF CqNames, QpNames, Smoke
    <2>3. f \in {"create_cqs", "create_qps", "create_queues"} /\ "leave" \in {"leave", "abort"}
      OBVIOUS
    <2> QED  BY <2>1, <2>2, <2>3, <1>GetsFacts

  \* create_cqs gets everything a CQ stands on before the CQ.
  <1>CqsOk.
      ASSUME NEW c, TwoNames(OpenDvLibs(c)), NEW s, IsCqs(OpenDvLibs(c), s)
      PROVE  CreateOk(c, s) /\ AllFn(s, "create_cqs")
    <2> USE <1>CqsOk
    <2> DEFINE p == OpenDvLibs(c)
    <2>0. /\ 3 \in 1 .. 4 - 1 /\ 4 \in 1 .. 5 - 1 /\ 6 \in 1 .. 7 - 1 /\ 7 \in 1 .. 8 - 1
          /\ 5 \in 1 .. 9 - 1 /\ 8 \in 1 .. 9 - 1
      OBVIOUS
    <2>1. \A i \in 1 .. 9 : s[i].fn = "create_cqs"
      <3>1. ASSUME NEW x, NEW e, e = Gets("create_cqs", x, "leave") PROVE e.fn = "create_cqs"
        BY Zenon, <3>1, FormFn
      <3>2. ASSUME NEW P, NEW e, e = Sets("create_cqs", P) PROVE e.fn = "create_cqs"
        BY Zenon, <3>2, FormFn
      <3>5. ASSUME NEW b, NEW f, NEW e, CqBuf(p, e, b, f) PROVE e.fn = "create_cqs"
        BY Zenon, <3>5 DEF CqBuf, IsStep
      <3>3. /\ s[1].fn = "create_cqs" /\ s[2].fn = "create_cqs" /\ s[3].fn = "create_cqs"
            /\ s[4].fn = "create_cqs" /\ s[5].fn = "create_cqs" /\ s[6].fn = "create_cqs"
            /\ s[7].fn = "create_cqs" /\ s[8].fn = "create_cqs" /\ s[9].fn = "create_cqs"
        BY Zenon, <3>1, <3>2, <3>5 DEF IsCqs
      <3>4. ASSUME NEW i \in 1 .. 9
            PROVE  \/ i = 1 \/ i = 2 \/ i = 3 \/ i = 4 \/ i = 5 \/ i = 6 \/ i = 7 \/ i = 8 \/ i = 9
        OBVIOUS
      <3> QED  BY Zenon, <3>3, <3>4
    <2>2. /\ s[1].fn = "create_cqs" /\ s[2].fn = "create_cqs" /\ s[3].fn = "create_cqs"
          /\ s[4].fn = "create_cqs" /\ s[5].fn = "create_cqs" /\ s[6].fn = "create_cqs"
          /\ s[7].fn = "create_cqs" /\ s[8].fn = "create_cqs" /\ s[9].fn = "create_cqs"
      BY <2>1
    <2>3. /\ Before(s, 4, "scq buf") /\ Before(s, 5, "scq umem") /\ Before(s, 7, "rcq buf")
          /\ Before(s, 8, "rcq umem") /\ Before(s, 9, "scq cq") /\ Before(s, 9, "rcq cq")
      <3>1. /\ Before(s, 5, "scq umem") /\ Before(s, 8, "rcq umem")
            /\ Before(s, 9, "scq cq") /\ Before(s, 9, "rcq cq")
        BY Zenon, <2>0, <2>2, <1>BeforeGets DEF IsCqs
      <3>2. "scq buf" \in s[3].gets /\ "rcq buf" \in s[6].gets
        <4>1. ASSUME NEW e, NEW b, NEW f, CqBuf(p, e, b, f) PROVE b \in e.gets
          <5>1. e.gets = {b} \/ e.gets = {b, f}
            BY Zenon, <4>1 DEF CqBuf, IsStep
          <5> QED  BY <5>1
        <4> QED  BY Zenon, <4>1 DEF IsCqs
      <3>3. Before(s, 4, "scq buf") /\ Before(s, 7, "rcq buf")
        BY Zenon, <2>0, <2>2, <3>2 DEF Before
      <3> QED  BY Zenon, <3>1, <3>3
    <2>4. CreateFacts(c, s, 1) /\ CreateFacts(c, s, 2)
      <3>1. \A d \in Needs(c) : d[1] \notin {"scq_", "rcq_"}
        BY Zenon, <1>QueueNeeds
      <3>2. {"scq_", "rcq_"} \subseteq (CqNames \cup QpNames \cup {"qp"}) \ Umems
        BY Zenon DEF CqNames, Umems
      <3>3. ASSUME NEW i, NEW r \in {"scq_", "rcq_"}, s[i] = Gets("create_cqs", r, "leave")
            PROVE  CreateFacts(c, s, i)
        BY Zenon, <3>1, <3>2, <3>3, <1>TwoGets
      <3> QED  BY Zenon, <3>3 DEF IsCqs
    <2>8. CreateFacts(c, s, 3) /\ CreateFacts(c, s, 6)
      <3>1. \A d \in Needs(c) : d[1] \notin {"scq buf", "rcq buf"} \cup Dmabufs
        BY Zenon, <1>QueueNeeds
      <3>2. {"scq buf", "rcq buf"} \subseteq KnownOf(p) /\ (p = "bnxt" => Dmabufs \subseteq Unkept(p))
        <4>1. CqNames \subseteq KnownOf(p)
          BY Zenon, <1>KnownTwo
        <4>2. {"scq buf", "rcq buf"} \subseteq CqNames
          BY Zenon DEF CqNames
        <4>3. p = "bnxt" => Dmabufs \subseteq Unkept(p)
          BY Zenon DEF Unkept
        <4> QED  BY Zenon, <4>1, <4>2, <4>3
      <3>3. \A x \in {"scq buf", "rcq buf"} \cup Dmabufs :
              x \notin {"dbr reg", "mr"} \cup Smoke \cup Umems /\ x # "qp"
        BY Zenon DEF Smoke, Umems, Dmabufs
      <3>4. ASSUME NEW i, NEW b \in {"scq buf", "rcq buf"}, NEW f \in Dmabufs, CqBuf(p, s[i], b, f)
            PROVE  CreateFacts(c, s, i)
        <4>1. PICK G : /\ IsStep(s[i], "create_cqs", {}, G, {<<b, b>>}, "leave")
                       /\ G = {b} \/ (p = "bnxt" /\ G = {b, f})
          BY Zenon, <3>4 DEF CqBuf
        <4>2. <<b, b>> # ScqAlias /\ <<b, b>>[2] = b
          BY DEF ScqAlias
        <4>3. \A x \in G : x = b \/ (x = f /\ p = "bnxt")
          BY Zenon, <4>1
        <4>4. /\ G \subseteq KnownOf(p) \cup Unkept(p) /\ b \in G
              /\ G \cap ({"dbr reg", "mr"} \cup Smoke) = {} /\ G \cap Umems = {} /\ "qp" \notin G
          BY Zenon, <3>2, <3>3, <4>1, <4>3
        <4>5. b \in KnownOf(p) \ Smoke
          BY Zenon, <3>2, <3>3
        <4>6. \A r \in G : <<r, r>> \in {<<b, b>>} \/ r \in Unkept(p)
          BY Zenon, <3>2, <4>3
        <4>7. CreateKind(p, s[i])
          BY Zenon, <4>1, <4>4, <4>5, <4>6 DEF IsStep, CreateKind
        <4>8. \A d \in Needs(c) : d[1] \notin G
          BY Zenon, <3>1, <4>3
        <4> QED  BY Zenon, <4>1, <4>2, <4>4, <4>7, <4>8 DEF IsStep, CreateFacts
      <3>5. "scq dmabuf" \in Dmabufs /\ "rcq dmabuf" \in Dmabufs
        BY Zenon DEF Dmabufs
      <3> QED  BY Zenon, <3>4, <3>5 DEF IsCqs
    <2>5. /\ CreateFacts(c, s, 4) /\ CreateFacts(c, s, 5) /\ CreateFacts(c, s, 7)
          /\ CreateFacts(c, s, 8)
      <3>1. \A d \in Needs(c) : /\ d[1] = "scq umem" => Stands(p, s, 4, d)
                                /\ d[1] = "scq cq" => Stands(p, s, 5, d)
                                /\ d[1] = "rcq umem" => Stands(p, s, 7, d)
                                /\ d[1] = "rcq cq" => Stands(p, s, 8, d)
        BY Zenon, <2>3, <1>QueueNeeds DEF Stands
      <3>2. {"scq umem", "scq cq", "rcq umem", "rcq cq"} \subseteq (CqNames \cup QpNames \cup {"qp"}) \ Umems
        BY Zenon DEF CqNames, Umems
      <3>3. ASSUME NEW i, NEW r \in {"scq umem", "scq cq", "rcq umem", "rcq cq"},
                   s[i] = Gets("create_cqs", r, "leave"),
                   \A d \in Needs(c) : d[1] = r => Stands(p, s, i, d)
            PROVE  CreateFacts(c, s, i)
        BY Zenon, <3>2, <3>3, <1>TwoGets
      <3> QED  BY Zenon, <3>1, <3>3 DEF IsCqs
    <2>6. CreateFacts(c, s, 9)
      <3>1. IsStep(s[9], "create_cqs", {}, {}, {ScqAlias}, "never")
        BY Zenon, FormParts DEF IsCqs
      <3>2. CreateKind(p, s[9])
        BY Zenon, <3>1 DEF IsStep, CreateKind
      <3>3. ScqAlias[2] = "scq cq"
        BY DEF ScqAlias
      <3> QED  BY Zenon, <2>3, <3>1, <3>2, <3>3 DEF IsStep, CreateFacts
    <2>7. ASSUME NEW i \in 1 .. 9 PROVE CreateFacts(c, s, i)
      <3>1. i = 1 \/ i = 2 \/ i = 3 \/ i = 4 \/ i = 5 \/ i = 6 \/ i = 7 \/ i = 8 \/ i = 9
        OBVIOUS
      <3> QED  BY Zenon, <2>4, <2>5, <2>6, <2>8, <3>1
    <2> QED  BY Zenon, <2>1, <2>7 DEF CreateOk, IsCqs, AllFn

  \* The literals of create_qps.
  <1>SixSeq.
      ASSUME NEW a1, NEW a2, NEW a3, NEW a4, NEW a5, NEW a6, NEW a7
      PROVE  /\ IsSeq(<<a1, a2, a3, a4, a5, a6>>) /\ Len(<<a1, a2, a3, a4, a5, a6>>) = 6
             /\ IsSeq(<<a1, a2, a3, a4, a5, a6, a7>>) /\ Len(<<a1, a2, a3, a4, a5, a6, a7>>) = 7
             /\ DOMAIN <<a1, a2, a3, a4, a5, a6, a7>> = 1 .. 7
    BY DEF IsSeq, Elements

  \* create_qps of bnxt, with and without a doorbell region, and of ernic.
  <1>QpsAre.
      ASSUME NEW c
      PROVE  /\ OpenDvLibs(c) = "ernic" => IsQps(c, ErnicCreateQps, 7)
             /\ OpenDvLibs(c) = "bnxt" =>
                  IsQps(c, BnxtCreateQps(c), 8) \/ IsQps(c, BnxtCreateQps(c), 9)
    <2>1. ASSUME OpenDvLibs(c) = "ernic" PROVE IsQps(c, ErnicCreateQps, 7)
      <3>1. PICK s : s = ErnicCreateQps
        BY Zenon
      <3>2. IsSeq(s) /\ Len(s) = 7 /\ DOMAIN s = 1 .. 7
        BY Zenon, <3>1, <1>SixSeq DEF ErnicCreateQps
      <3>3. /\ s[1] = Gets("create_qps", "qp struct", "leave")
            /\ s[2] = Gets("create_qps", "sq buf", "leave")
            /\ s[3] = GetsLocal("create_qps", "sq umem", "leave")
            /\ s[4] = Gets("create_qps", "rq buf", "leave")
            /\ s[5] = GetsLocal("create_qps", "rq umem", "leave")
            /\ s[6] = FillAttr
            /\ s[7] = Gets("create_qps", "qp", "leave")
        BY <3>1 DEF ErnicCreateQps
      <3>4. 7 - 1 = 6
        OBVIOUS
      <3> QED  BY Zenon, <2>1, <3>1, <3>2, <3>3, <3>4 DEF IsQps
    <2>2. ASSUME OpenDvLibs(c) = "bnxt"
          PROVE  IsQps(c, BnxtCreateQps(c), 8) \/ IsQps(c, BnxtCreateQps(c), 9)
      <3>0. 0 \in Nat /\ 1 \in Nat /\ 2 \in Nat /\ 6 \in Nat /\ 7 \in Nat
        OBVIOUS
      <3>1. PICK x, z : /\ x = << Gets("create_qps", "qp struct", "leave"),
                                  Gets("create_qps", "sq buf", "leave"),
                                  GetsLocal("create_qps", "sq umem", "leave"),
                                  Gets("create_qps", "rq buf", "leave"),
                                  GetsLocal("create_qps", "rq umem", "leave"),
                                  Gets("create_qps", "db attr", "leave") >>
                        /\ z = << FillAttr, Gets("create_qps", "qp", "leave") >>
        BY Zenon
      <3>2. IsSeq(x) /\ Len(x) = 6 /\ IsSeq(z) /\ Len(z) = 2
        BY Zenon, <3>1, <1>SixSeq, LiteralSeqs
      <3>3. /\ x[1] = Gets("create_qps", "qp struct", "leave")
            /\ x[2] = Gets("create_qps", "sq buf", "leave")
            /\ x[3] = GetsLocal("create_qps", "sq umem", "leave")
            /\ x[4] = Gets("create_qps", "rq buf", "leave")
            /\ x[5] = GetsLocal("create_qps", "rq umem", "leave")
            /\ x[6] = Gets("create_qps", "db attr", "leave")
        BY <3>1
      <3>4. z[1] = FillAttr /\ z[2] = Gets("create_qps", "qp", "leave")
        BY <3>1
      <3>5. CASE c.defaultDb
        <4>1. PICK y : y = <<>> BY Zenon
        <4>2. IsSeq(y) /\ Len(y) = 0
          BY Zenon, <4>1, LiteralSeqs
        <4>3. PICK v : v = x \o y BY Zenon
        <4>4. Joined(v, x, 6, y, 0)
          BY Zenon, <3>0, <3>2, <4>2, <4>3, ConcatAt
        <4>5. /\ IsSeq(v) /\ Len(v) = 6 /\ v[1] = x[1] /\ v[2] = x[2] /\ v[3] = x[3]
              /\ v[4] = x[4] /\ v[5] = x[5] /\ v[6] = x[6]
          BY <4>4 DEF Joined
        <4>6. PICK u : u = v \o z BY Zenon
        <4>7. Joined(u, v, 6, z, 2)
          BY Zenon, <3>0, <3>2, <4>5, <4>6, ConcatAt
        <4>8. /\ IsSeq(u) /\ Len(u) = 8 /\ DOMAIN u = 1 .. 8
              /\ u[1] = v[1] /\ u[2] = v[2] /\ u[3] = v[3]
              /\ u[4] = v[4] /\ u[5] = v[5] /\ u[6] = v[6] /\ u[7] = z[1] /\ u[8] = z[2]
              /\ 8 - 1 = 7 /\ 8 # 9
          BY <4>7 DEF Joined
        <4>9. u = BnxtCreateQps(c)
          BY Zenon, <3>1, <3>5, <4>1, <4>3, <4>6 DEF BnxtCreateQps
        <4>10. IsQps(c, u, 8)
          BY Zenon, <2>2, <3>3, <3>4, <4>5, <4>8 DEF IsQps
        <4> QED  BY Zenon, <4>9, <4>10
      <3>6. CASE ~c.defaultDb
        <4>1. PICK y : y = <<DbStep>> BY Zenon
        <4>2. IsSeq(y) /\ Len(y) = 1
          BY Zenon, <4>1, LiteralSeqs
        <4>3. PICK v : v = x \o y BY Zenon
        <4>4. Joined(v, x, 6, y, 1)
          BY Zenon, <3>0, <3>2, <4>2, <4>3, ConcatAt
        <4>5. /\ IsSeq(v) /\ Len(v) = 7 /\ v[1] = x[1] /\ v[2] = x[2] /\ v[3] = x[3]
              /\ v[4] = x[4] /\ v[5] = x[5] /\ v[6] = x[6] /\ v[7] = y[1]
          BY <4>4 DEF Joined
        <4>6. PICK u : u = v \o z BY Zenon
        <4>7. Joined(u, v, 7, z, 2)
          BY Zenon, <3>0, <3>2, <4>5, <4>6, ConcatAt
        <4>8. /\ IsSeq(u) /\ Len(u) = 9 /\ DOMAIN u = 1 .. 9
              /\ u[1] = v[1] /\ u[2] = v[2] /\ u[3] = v[3]
              /\ u[4] = v[4] /\ u[5] = v[5] /\ u[6] = v[6] /\ u[7] = v[7]
              /\ u[8] = z[1] /\ u[9] = z[2] /\ 9 - 1 = 8
          BY <4>7 DEF Joined
        <4>9. u = BnxtCreateQps(c)
          BY Zenon, <3>1, <3>6, <4>1, <4>3, <4>6 DEF BnxtCreateQps, DbStep
        <4>10. y[1] = DbStep
          BY <4>1
        <4>11. IsQps(c, u, 9)
          BY Zenon, <2>2, <3>3, <3>4, <4>5, <4>8, <4>10 DEF IsQps
        <4> QED  BY Zenon, <4>9, <4>11
      <3> QED  BY Zenon, <3>5, <3>6
    <2> QED  BY Zenon, <2>1, <2>2

  \* create_qps gets the umems and fills the attribute block before the QP.
  <1>QpsOk.
      ASSUME NEW c, NEW s, NEW n, IsQps(c, s, n)
      PROVE  /\ CreateOk(c, s) /\ AllFn(s, "create_qps")
             /\ \A i \in DOMAIN s : "qp" \in s[i].gets => i = n
    <2> USE <1>QpsOk
    <2> DEFINE p == OpenDvLibs(c)
    <2>1. /\ TwoNames(p) /\ n \in {7, 8, 9} /\ DOMAIN s = 1 .. n
          /\ p = "bnxt" => n # 7
      <3>1. 7 # 8 /\ 7 # 9
        OBVIOUS
      <3> QED  BY Zenon, <3>1 DEF IsQps, TwoNames
    <2>2. ASSUME NEW i \in DOMAIN s
          PROVE  \/ i = 1 \/ i = 2 \/ i = 3 \/ i = 4 \/ i = 5 \/ i = n - 1 \/ i = n
                 \/ p = "bnxt" /\ i = 6
                 \/ p = "bnxt" /\ n = 9 /\ i = 7
      <3>1. n = 7 \/ p = "bnxt"
        BY Zenon DEF IsQps
      <3> QED  BY <2>1, <2>2, <3>1
    <2>3. /\ n - 1 \in DOMAIN s /\ n \in DOMAIN s
          /\ 3 \in DOMAIN s /\ 5 \in DOMAIN s /\ n - 1 > 3 /\ n - 1 > 5
          /\ 2 \in 1 .. n - 1 /\ 3 \in 1 .. n - 1 /\ 4 \in 1 .. n - 1 /\ 5 \in 1 .. n - 1
          /\ 3 \in 1 .. (n - 1) - 1 /\ 5 \in 1 .. (n - 1) - 1
          /\ p = "bnxt" => 6 \in 1 .. n - 1
      BY <2>1
    <2>4. /\ IsStep(s[1], "create_qps", {}, {"qp struct"}, {<<"qp struct", "qp struct">>}, "leave")
          /\ IsStep(s[2], "create_qps", {}, {"sq buf"}, {<<"sq buf", "sq buf">>}, "leave")
          /\ IsStep(s[3], "create_qps", {}, {"sq umem"}, {}, "leave")
          /\ IsStep(s[4], "create_qps", {}, {"rq buf"}, {<<"rq buf", "rq buf">>}, "leave")
          /\ IsStep(s[5], "create_qps", {}, {"rq umem"}, {}, "leave")
          /\ IsStep(s[n], "create_qps", {}, {"qp"}, {<<"qp", "qp">>}, "leave")
      BY Zenon, FormParts DEF IsQps
    <2>5. IsStep(s[n - 1], "create_qps", {}, {},
                 {<<"sq umem", "sq umem">>, <<"rq umem", "rq umem">>}, "never")
      BY Zenon, FormParts DEF IsQps, FillAttr
    <2>6. /\ p = "bnxt" => IsStep(s[6], "create_qps", {}, {"db attr"}, {<<"db attr", "db attr">>},
                                  "leave")
          /\ p = "bnxt" /\ n = 9 =>
               IsStep(s[7], "create_qps", {"db attr"}, {"db attr", "db region"},
                      {<<"db attr", "db attr">>}, "leave")
      <3>1. p = "bnxt" => s[6] = Gets("create_qps", "db attr", "leave")
        BY Zenon DEF IsQps
      <3>2. p = "bnxt" /\ n = 9 => s[7] = DbStep
        BY Zenon DEF IsQps
      <3> QED  BY Zenon, <3>1, <3>2, FormParts, StepParts DEF DbStep
    <2>7. AllFn(s, "create_qps")
      <3> DEFINE f == "create_qps"
      <3>1. /\ s[1].fn = f /\ s[2].fn = f /\ s[3].fn = f /\ s[4].fn = f /\ s[5].fn = f
            /\ s[n - 1].fn = f /\ s[n].fn = f
        BY Zenon, <2>4, <2>5 DEF IsStep
      <3>2. p = "bnxt" => s[6].fn = f /\ (n = 9 => s[7].fn = f)
        BY Zenon, <2>6 DEF IsStep
      <3>3. ASSUME NEW i \in DOMAIN s PROVE s[i].fn = f
        BY Zenon, <2>2, <3>1, <3>2
      <3> QED  BY Zenon, <3>3 DEF AllFn
    <2>8. ASSUME NEW i \in DOMAIN s, "qp" \in s[i].gets PROVE i = n
      <3>1. /\ s[1].gets = {"qp struct"} /\ s[2].gets = {"sq buf"} /\ s[3].gets = {"sq umem"}
            /\ s[4].gets = {"rq buf"} /\ s[5].gets = {"rq umem"} /\ s[n - 1].gets = {}
        BY Zenon, <2>4, <2>5 DEF IsStep
      <3>2. p = "bnxt" => /\ s[6].gets = {"db attr"}
                          /\ n = 9 => s[7].gets = {"db attr", "db region"}
        BY Zenon, <2>6 DEF IsStep
      <3>3. /\ "qp" \notin s[1].gets /\ "qp" \notin s[2].gets /\ "qp" \notin s[3].gets
            /\ "qp" \notin s[4].gets /\ "qp" \notin s[5].gets /\ "qp" \notin s[n - 1].gets
            /\ p = "bnxt" => "qp" \notin s[6].gets
            /\ p = "bnxt" /\ n = 9 => "qp" \notin s[7].gets
        BY Zenon, <3>1, <3>2
      <3>4. \/ i = 1 \/ i = 2 \/ i = 3 \/ i = 4 \/ i = 5 \/ i = n - 1 \/ i = n
            \/ p = "bnxt" /\ i = 6
            \/ p = "bnxt" /\ n = 9 /\ i = 7
        BY Zenon, <2>2
      <3> QED  BY Zenon, <2>8, <3>3, <3>4
    <2>9. /\ s[n].fn = "create_qps" /\ s[n - 1].fn = "create_qps"
      BY Zenon, <2>3, <2>7 DEF AllFn
    <2>10. /\ Before(s, n - 1, "sq umem") /\ Before(s, n - 1, "rq umem")
           /\ Before(s, n, "sq umem") /\ Before(s, n, "rq umem")
           /\ Before(s, n, "sq buf") /\ Before(s, n, "rq buf")
      BY Zenon, <2>3, <2>9, <1>BeforeGets DEF IsQps
    <2>11. p = "bnxt" => Before(s, n, "db attr")
      <3>1. p = "bnxt" => s[6] = Gets("create_qps", "db attr", "leave")
        BY Zenon DEF IsQps
      <3> QED  BY Zenon, <2>3, <2>9, <3>1, <1>BeforeGets
    <2>12. CreateFacts(c, s, 1) /\ CreateFacts(c, s, 2) /\ CreateFacts(c, s, 4)
      <3>1. \A d \in Needs(c) : d[1] \notin {"qp struct", "sq buf", "rq buf"}
        BY Zenon, <2>1, <1>QueueNeeds
      <3>2. {"qp struct", "sq buf", "rq buf"} \subseteq (CqNames \cup QpNames \cup {"qp"}) \ Umems
        BY Zenon DEF QpNames, Umems
      <3>3. ASSUME NEW i, NEW r \in {"qp struct", "sq buf", "rq buf"},
                   s[i] = Gets("create_qps", r, "leave")
            PROVE  CreateFacts(c, s, i)
        BY Zenon, <2>1, <3>1, <3>2, <3>3, <1>TwoGets
      <3> QED  BY Zenon, <3>3 DEF IsQps
    <2>13. CreateFacts(c, s, n)
      <3>1. \A d \in Needs(c) : d[1] = "qp" => Stands(p, s, n, d)
        BY Zenon, <2>1, <2>10, <1>QueueNeeds DEF Stands
      <3>2. "qp" \in (CqNames \cup QpNames \cup {"qp"}) \ Umems
        BY Zenon DEF Umems
      <3> QED  BY Zenon, <2>1, <2>11, <3>1, <3>2, <1>TwoGets DEF IsQps
    <2>14. CreateFacts(c, s, 3) /\ CreateFacts(c, s, 5)
      <3>1. \A d \in Needs(c) : d[1] \notin Umems
        BY Zenon, <2>1, <1>QueueNeeds DEF Umems
      <3>2. Umems \subseteq KnownOf(p) /\ Umems \cap ({"dbr reg", "mr"} \cup Smoke) = {}
        <4>1. Umems \subseteq QpNames /\ Umems \cap ({"dbr reg", "mr"} \cup Smoke) = {}
          BY Zenon DEF Umems, QpNames, Smoke
        <4> QED  BY Zenon, <2>1, <4>1, <1>KnownTwo
      <3>3. ASSUME NEW i, NEW r \in Umems, i < n - 1,
                   IsStep(s[i], "create_qps", {}, {r}, {}, "leave")
            PROVE  CreateFacts(c, s, i)
        <4>1. CreateKind(p, s[i])
          BY Zenon, <2>1, <3>2, <3>3 DEF IsStep, CreateKind
        <4>2. n - 1 > i /\ n - 1 \in DOMAIN s /\ s[n - 1] = FillAttr
          <5>1. s[n - 1] = FillAttr BY Zenon DEF IsQps
          <5> QED  BY <2>3, <3>3, <5>1
        <4>3. "qp" \notin Umems
          BY Zenon DEF Umems
        <4> QED  BY Zenon, <3>1, <3>3, <4>1, <4>2, <4>3 DEF IsStep, CreateFacts
      <3>4. 3 < n - 1 /\ 5 < n - 1 /\ "sq umem" \in Umems /\ "rq umem" \in Umems
        BY <2>3 DEF Umems
      <3> QED  BY Zenon, <2>4, <3>3, <3>4
    <2>15. CreateFacts(c, s, n - 1)
      <3>1. {<<"sq umem", "sq umem">>, <<"rq umem", "rq umem">>} = {<<r, r>> : r \in Umems}
        BY Zenon DEF Umems
      <3>2. Umems \subseteq KnownOf(p) \ Smoke
        <4>1. Umems \subseteq QpNames \ Smoke
          BY Zenon DEF Umems, QpNames, Smoke
        <4> QED  BY Zenon, <2>1, <4>1, <1>KnownTwo
      <3>3. CreateKind(p, s[n - 1])
        BY Zenon, <2>5, <3>1, <3>2 DEF IsStep, CreateKind
      <3>4. /\ <<"sq umem", "sq umem">>[2] = "sq umem" /\ <<"rq umem", "rq umem">>[2] = "rq umem"
            /\ <<"sq umem", "sq umem">> # ScqAlias /\ <<"rq umem", "rq umem">> # ScqAlias
        BY DEF ScqAlias
      <3> QED  BY Zenon, <2>5, <2>10, <3>3, <3>4 DEF IsStep, CreateFacts
    <2>16. p = "bnxt" => CreateFacts(c, s, 6) /\ (n = 9 => CreateFacts(c, s, 7))
      <3> SUFFICES ASSUME p = "bnxt"
                   PROVE  CreateFacts(c, s, 6) /\ (n = 9 => CreateFacts(c, s, 7))
        BY Zenon
      <3>1. \A d \in Needs(c) : d[1] \notin {"db attr", "db region"}
        BY Zenon, <2>1, <1>QueueNeeds
      <3>2. "db attr" \in KnownOf(p) /\ "db region" \in Unkept(p)
        BY DEF KnownOf, Unkept
      <3>3. /\ "db attr" \notin {"dbr reg", "mr"} \cup Smoke \cup Umems
            /\ "db region" \notin {"dbr reg", "mr"} \cup Smoke \cup Umems
        BY Zenon DEF Smoke, Umems
      <3>4. <<"db attr", "db attr">>[2] = "db attr" /\ <<"db attr", "db attr">> # ScqAlias
        BY DEF ScqAlias
      <3>5. ASSUME NEW i, NEW D, NEW G,
                   IsStep(s[i], "create_qps", D, G, {<<"db attr", "db attr">>}, "leave"),
                   \/ D = {} /\ G = {"db attr"}
                   \/ D = {"db attr"} /\ G = {"db attr", "db region"}
            PROVE  CreateFacts(c, s, i)
        <4>0. G \subseteq {"db attr", "db region"} /\ "db attr" \in G
          BY Zenon, <3>5
        <4>1. CreateKind(p, s[i])
          BY Zenon, <3>2, <3>3, <3>5 DEF IsStep, CreateKind
        <4>2. G \cap Umems = {} /\ "qp" \notin G
          BY Zenon, <3>3, <4>0
        <4> QED  BY Zenon, <3>1, <3>4, <3>5, <4>0, <4>1, <4>2 DEF IsStep, CreateFacts
      <3> QED  BY Zenon, <2>6, <3>5
    <2>17. ASSUME NEW i \in DOMAIN s PROVE CreateFacts(c, s, i)
      BY Zenon, <2>2, <2>12, <2>13, <2>14, <2>15, <2>16
    <2> QED  BY Zenon, <2>7, <2>8, <2>17 DEF CreateOk, IsQps

  \* create_queues of bnxt and ernic.
  <1>TwoNamesQueues.
      ASSUME NEW c, TwoNames(OpenDvLibs(c)), NEW s, NEW t, NEW n, IsCqs(OpenDvLibs(c), s), IsQps(c, t, n)
      PROVE  QueueFacts(c, s \o t)
    <2> USE <1>TwoNamesQueues
    <2> DEFINE u == s \o t
    <2>1. /\ CreateOk(c, s) /\ AllFn(s, "create_cqs") /\ CreateOk(c, t) /\ AllFn(t, "create_qps")
          /\ \A i \in DOMAIN t : "qp" \in t[i].gets => i = n
      BY Zenon, <1>CqsOk, <1>QpsOk
    <2>2. CreateOk(c, u)
      BY Zenon, <2>1, <1>CreateConcat
    <2>3. /\ IsSeq(s) /\ IsSeq(t) /\ Len(s) = 9 /\ Len(t) = n /\ n \in Nat
          /\ DOMAIN s = 1 .. 9 /\ DOMAIN t = 1 .. n
      <3>1. n \in {7, 8, 9}
        BY Zenon DEF IsQps
      <3>2. n \in Nat
        BY <3>1
      <3> QED  BY Zenon, <3>2 DEF IsCqs, IsQps
    <2>4. Joined(u, s, 9, t, n)
      <3>1. 9 \in Nat
        OBVIOUS
      <3> QED  BY Zenon, <2>3, <3>1, ConcatAt
    <2> HIDE DEF u
    <2>5. /\ IsSeq(u) /\ Len(u) = 9 + n /\ DOMAIN u = 1 .. 9 + n
          /\ \A i \in 1 .. 9 : u[i] = s[i]
          /\ \A i \in 1 .. n : u[9 + i] = t[i]
      BY Zenon, <2>4 DEF Joined
    <2>6. ASSUME NEW i \in DOMAIN u
          PROVE  \/ i \in 1 .. 9 /\ i <= 9 /\ u[i] = s[i]
                 \/ i - 9 \in 1 .. n /\ ~(i <= 9) /\ u[i] = t[i - 9]
      BY <2>3, <2>5, <2>6
    <2>7. ASSUME NEW i \in DOMAIN u
          PROVE  u[i].fn = IF i <= 9 THEN "create_cqs" ELSE "create_qps"
      <3>1. \A j \in 1 .. 9 : s[j].fn = "create_cqs"
        BY Zenon, <2>1, <2>3 DEF AllFn
      <3>2. \A j \in 1 .. n : t[j].fn = "create_qps"
        BY Zenon, <2>1, <2>3 DEF AllFn
      <3>3. CASE i \in 1 .. 9 /\ i <= 9 /\ u[i] = s[i]
        BY Zenon, <3>1, <3>3
      <3>4. CASE i - 9 \in 1 .. n /\ ~(i <= 9) /\ u[i] = t[i - 9]
        BY Zenon, <3>2, <3>4
      <3> QED  BY Zenon, <2>6, <3>3, <3>4
    <2>8. TwoParts(u)
      <3>1. 9 \in Nat
        OBVIOUS
      <3>2. "create_cqs" # "create_qps"
        BY Zenon
      <3> QED  BY Zenon, <2>7, <3>1, <3>2 DEF TwoParts
    <2>9. ASSUME NEW i \in 1 .. 9 PROVE "qp" \notin s[i].gets
      <3>1. CreateFacts(c, s, i)
        BY Zenon, <2>1, <2>3 DEF CreateOk
      <3>2. i = 1 \/ i = 2 \/ i = 3 \/ i = 4 \/ i = 5 \/ i = 6 \/ i = 7 \/ i = 8 \/ i = 9
        OBVIOUS
      <3>3. ASSUME NEW r, r # "qp", NEW e, e = Gets("create_cqs", r, "leave")
            PROVE  "qp" \notin e.gets
        <4>1. IsStep(e, "create_cqs", {}, {r}, {<<r, r>>}, "leave")
          BY Zenon, <3>3, FormParts
        <4> QED  BY Zenon, <3>3, <4>1 DEF IsStep
      <3>4. "qp" \notin s[9].gets
        <4>1. IsStep(s[9], "create_cqs", {}, {}, {ScqAlias}, "never")
          BY Zenon, FormParts DEF IsCqs
        <4> QED  BY Zenon, <4>1 DEF IsStep
      <3>6. ASSUME NEW b, b # "qp", NEW f, f # "qp", NEW e, CqBuf(OpenDvLibs(c), e, b, f)
            PROVE  "qp" \notin e.gets
        BY Zenon, <3>6 DEF CqBuf, IsStep
      <3>5. /\ "qp" \notin s[1].gets /\ "qp" \notin s[2].gets /\ "qp" \notin s[3].gets
            /\ "qp" \notin s[4].gets /\ "qp" \notin s[5].gets /\ "qp" \notin s[6].gets
            /\ "qp" \notin s[7].gets /\ "qp" \notin s[8].gets
        BY Zenon, <3>3, <3>6 DEF IsCqs
      <3> QED  BY Zenon, <3>2, <3>4, <3>5
    <2>10. ASSUME NEW i \in DOMAIN u, "qp" \in u[i].gets PROVE i = Len(u)
      <3>1. i - 9 \in 1 .. n /\ u[i] = t[i - 9]
        BY Zenon, <2>6, <2>9, <2>10
      <3>2. i - 9 = n
        BY Zenon, <2>1, <2>3, <2>10, <3>1
      <3>3. i \in 1 .. 9 + n
        BY Zenon, <2>5, <2>10
      <3> QED  BY <2>3, <2>5, <3>2, <3>3
    <2>11. QueueFacts(c, u)
      BY Zenon, <2>2, <2>8, <2>10 DEF QueueFacts
    <2> QED  BY Zenon, <2>11 DEF u

  \* What the CQ and the QP of the other providers stand on.
  <1>PlainNeeds.
      ASSUME NEW c, ~TwoNames(OpenDvLibs(c)), NEW d \in Needs(c)
      PROVE  /\ d[1] = "cq_" => d[2] = "context" \/ (OpenDvLibs(c) = "ionic" /\ d[2] = "pd parent")
             /\ d[1] = "pd parent" => d[2] = "pd"
             /\ d[1] = "qp" =>
                  d[2] \in {"pd", "cq_"} \/ (OpenDvLibs(c) = "ionic" /\ d[2] = "pd parent")
    <2> USE Zenon, <1>PlainNeeds
    <2>1. \/ CommonNeeds(d)
          \/ Mlx5Needs(d)
          \/ OpenDvLibs(c) = "ionic" /\ IonicNeeds(d)
          \/ NoneNeeds(d)
      BY NeedsAre DEF TwoNames
    <2>2. CASE CommonNeeds(d)
      BY <2>2 DEF CommonNeeds, PairIs
    <2>3. CASE Mlx5Needs(d)
      BY <2>3 DEF Mlx5Needs, PairIs
    <2>4. CASE OpenDvLibs(c) = "ionic" /\ IonicNeeds(d)
      BY <2>4 DEF IonicNeeds, PairIs
    <2>5. CASE NoneNeeds(d)
      BY <2>5 DEF NoneNeeds, PairIs
    <2> QED  BY <2>1, <2>2, <2>3, <2>4, <2>5

  \* What the queues of the other providers are made of.
  <1>KnownPlain.
      ASSUME NEW p, ~TwoNames(p), NEW c, p = OpenDvLibs(c)
      PROVE  /\ "cq_" \in KnownOf(p) /\ "qp" \in KnownOf(p)
             /\ p = "ionic" => "pd parent" \in KnownOf(p)
    <2> USE <1>KnownPlain
    <2>1. p \in {"mlx5", "ionic", "none"}
      BY Zenon, ProviderKinds DEF TwoNames
    <2>2. CASE p = "mlx5"
      BY <2>2 DEF KnownOf
    <2>3. CASE p = "ionic"
      BY <2>3 DEF KnownOf
    <2>4. CASE p = "none"
      BY <2>4 DEF KnownOf
    <2> QED  BY Zenon, <2>1, <2>2, <2>3, <2>4

  \* create_queues of mlx5, ionic and of no vendor library.
  <1>PlainQueues.
      ASSUME NEW c, ~TwoNames(OpenDvLibs(c)), NEW s, NEW n,
             NEW f \in {"create_cqs", "create_queues"}, NEW x \in {"leave", "abort"},
             IsPlain(c, s, n, f, x)
      PROVE  QueueFacts(c, s)
    <2> USE <1>PlainQueues
    <2> DEFINE p == OpenDvLibs(c)
    <2>0. n \in {2, 3} /\ DOMAIN s = 1 .. n
      BY Zenon DEF IsPlain
    <2>1. /\ n \in Nat /\ n - 1 \in 1 .. n - 1
          /\ n = 3 => 1 \in 1 .. n - 1 /\ 1 \in 1 .. (n - 1) - 1
      BY <2>0
    <2>2. \A i \in DOMAIN s : i = n \/ i = n - 1 \/ (n = 3 /\ i = 1)
      BY <2>0
    <2>3. n = 3 => s[1] = Gets(f, "pd parent", "leave") /\ p = "ionic"
      <3>1. 2 # 3
        OBVIOUS
      <3> QED  BY Zenon, <3>1 DEF IsPlain
    <2>4. n = 2 => p # "ionic"
      <3>1. 2 # 3
        OBVIOUS
      <3> QED  BY Zenon, <3>1 DEF IsPlain
    <2>5. s[n].fn = f /\ s[n - 1].fn = f /\ (n = 3 => s[1].fn = f)
      <3>1. /\ IsStep(s[n], f, {}, {"qp"}, {<<"qp", "qp">>}, "leave")
            /\ IsStep(s[n - 1], f, {}, {"cq_"}, {<<"cq_", "cq_">>}, x)
        BY Zenon, FormParts DEF IsPlain
      <3>2. n = 3 => IsStep(s[1], f, {}, {"pd parent"}, {<<"pd parent", "pd parent">>}, "leave")
        BY Zenon, <2>3, FormParts
      <3> QED  BY Zenon, <3>1, <3>2 DEF IsStep
    <2>6. ASSUME NEW i \in DOMAIN s PROVE s[i].fn = f
      BY Zenon, <2>2, <2>5
    <2>7. TwoParts(s)
      <3>1. PICK g : g # f
        BY Zenon
      <3>2. \A i \in DOMAIN s : i <= n
        BY <2>0
      <3>3. \A i \in DOMAIN s : s[i].fn = IF i <= n THEN f ELSE g
        BY Zenon, <2>6, <3>2
      <3> QED  BY Zenon, <2>1, <3>1, <3>3 DEF TwoParts
    <2>8. /\ Before(s, n, "cq_")
          /\ n = 3 => Before(s, n, "pd parent") /\ Before(s, n - 1, "pd parent")
      BY Zenon, <2>1, <2>3, <2>5, <1>BeforeGets DEF IsPlain
    <2>9. /\ f \in {"create_cqs", "create_qps", "create_queues"}
          /\ "cq_" \notin {"dbr reg", "mr"} \cup Smoke \cup Umems
          /\ "qp" \notin {"dbr reg", "mr"} \cup Smoke \cup Umems
          /\ "pd parent" \notin {"dbr reg", "mr"} \cup Smoke \cup Umems
          /\ "leave" \in {"leave", "abort"}
      BY Zenon DEF Smoke, Umems
    <2>10. p # "bnxt"
      BY Zenon DEF TwoNames
    <2>11. p = "ionic" => n = 3
      BY Zenon, <2>0, <2>4
    <2>12. CreateFacts(c, s, n)
      <3>1. \A d \in Needs(c) : d[1] = "qp" => Stands(p, s, n, d)
        BY Zenon, <2>8, <2>11, <1>PlainNeeds DEF Stands
      <3>2. "qp" \in KnownOf(p)
        BY Zenon, <1>KnownPlain
      <3> QED  BY Zenon, <2>9, <2>10, <3>1, <3>2, <1>GetsFacts DEF IsPlain
    <2>13. CreateFacts(c, s, n - 1)
      <3>1. \A d \in Needs(c) : d[1] = "cq_" => Stands(p, s, n - 1, d)
        BY Zenon, <2>8, <2>11, <1>PlainNeeds DEF Stands
      <3>2. "cq_" \in KnownOf(p)
        BY Zenon, <1>KnownPlain
      <3> QED  BY Zenon, <2>9, <2>10, <3>1, <3>2, <1>GetsFacts DEF IsPlain
    <2>14. n = 3 => CreateFacts(c, s, 1)
      <3>1. \A d \in Needs(c) : d[1] = "pd parent" => Stands(p, s, 1, d)
        BY Zenon, <1>PlainNeeds DEF Stands
      <3>2. p = "ionic" => "pd parent" \in KnownOf(p)
        BY Zenon, <1>KnownPlain
      <3> QED  BY Zenon, <2>3, <2>9, <2>10, <3>1, <3>2, <1>GetsFacts DEF IsPlain
    <2>15. ASSUME NEW i \in DOMAIN s PROVE CreateFacts(c, s, i)
      BY Zenon, <2>2, <2>12, <2>13, <2>14
    <2>16. ASSUME NEW i \in DOMAIN s, "qp" \in s[i].gets PROVE i = Len(s)
      <3>1. ASSUME NEW r, r # "qp", NEW y, NEW e, e = Gets(f, r, y) PROVE "qp" \notin e.gets
        <4>1. IsStep(e, f, {}, {r}, {<<r, r>>}, y)
          BY Zenon, <3>1, FormParts
        <4> QED  BY Zenon, <3>1, <4>1 DEF IsStep
      <3>2. "qp" \notin s[n - 1].gets /\ (n = 3 => "qp" \notin s[1].gets)
        BY Zenon, <2>3, <3>1 DEF IsPlain
      <3>3. Len(s) = n
        BY Zenon DEF IsPlain
      <3> QED  BY Zenon, <2>2, <2>16, <3>2, <3>3
    <2> QED  BY Zenon, <2>7, <2>15, <2>16 DEF QueueFacts, CreateOk, IsPlain

  <1> SUFFICES ASSUME NEW c
               PROVE  QueueFacts(c, CreateQueues(c)) /\ IsSeq(CreateQueues(c))
    OBVIOUS
  <1>1. CASE OpenDvLibs(c) = "bnxt"
    <2>1. CreateQueues(c) = BnxtCreateCqs(c) \o BnxtCreateQps(c)
      BY Zenon, <1>1 DEF CreateQueues
    <2>2. PICK n : IsQps(c, BnxtCreateQps(c), n)
      BY Zenon, <1>1, <1>QpsAre
    <2>3. QueueFacts(c, BnxtCreateCqs(c) \o BnxtCreateQps(c))
      <3>1. TwoNames(OpenDvLibs(c))
        BY Zenon, <1>1 DEF TwoNames
      <3>2. IsCqs(OpenDvLibs(c), BnxtCreateCqs(c))
        BY Zenon, <1>1, <1>CqsAre
      <3> QED  BY Zenon, <2>2, <3>1, <3>2, <1>TwoNamesQueues
    <2> QED  BY Zenon, <2>1, <2>3 DEF QueueFacts, CreateOk
  <1>2. CASE OpenDvLibs(c) = "ernic"
    <2>1. CreateQueues(c) = ErnicCreateCqs \o ErnicCreateQps
      BY <1>2 DEF CreateQueues
    <2>2. IsQps(c, ErnicCreateQps, 7)
      BY Zenon, <1>2, <1>QpsAre
    <2>3. QueueFacts(c, ErnicCreateCqs \o ErnicCreateQps)
      <3>1. TwoNames(OpenDvLibs(c))
        BY Zenon, <1>2 DEF TwoNames
      <3>2. IsCqs(OpenDvLibs(c), ErnicCreateCqs)
        BY Zenon, <1>2, <1>CqsAre
      <3> QED  BY Zenon, <2>2, <3>1, <3>2, <1>TwoNamesQueues
    <2> QED  BY Zenon, <2>1, <2>3 DEF QueueFacts, CreateOk
  <1>3. CASE OpenDvLibs(c) = "ionic"
    <2>1. PICK y, z, u : /\ y = IonicCreateCqs /\ z = << Gets("create_cqs", "qp", "leave") >>
                         /\ u = y \o z
      BY Zenon
    <2>2. CreateQueues(c) = u
      BY <1>3, <2>1 DEF CreateQueues
    <2>3. IsSeq(y) /\ Len(y) = 2 /\ IsSeq(z) /\ Len(z) = 1
      BY Zenon, <2>1, LiteralSeqs DEF IonicCreateCqs
    <2>4. /\ y[1] = Gets("create_cqs", "pd parent", "leave")
          /\ y[2] = Gets("create_cqs", "cq_", "leave")
          /\ z[1] = Gets("create_cqs", "qp", "leave")
      BY <2>1 DEF IonicCreateCqs
    <2>5. Joined(u, y, 2, z, 1)
      <3>1. 1 \in Nat /\ 2 \in Nat
        OBVIOUS
      <3> QED  BY Zenon, <2>1, <2>3, <3>1, ConcatAt
    <2>6. /\ IsSeq(u) /\ Len(u) = 3 /\ DOMAIN u = 1 .. 3
          /\ u[1] = y[1] /\ u[2] = y[2] /\ u[3] = z[1] /\ 3 - 1 = 2
      BY <2>5 DEF Joined
    <2>7. QueueFacts(c, u)
      <3>1. IsPlain(c, u, 3, "create_cqs", "leave")
        BY Zenon, <1>3, <2>4, <2>6 DEF IsPlain
      <3> QED  BY Zenon, <1>3, <3>1, <1>PlainQueues DEF TwoNames
    <2> QED  BY Zenon, <2>2, <2>6, <2>7
  <1>4. CASE OpenDvLibs(c) \in {"mlx5", "none"}
    <2>1. PICK u : u = << Gets("create_queues", "cq_", "abort"),
                          Gets("create_queues", "qp", "leave") >>
      BY Zenon
    <2>2. CreateQueues(c) = u
      BY <1>4, <2>1 DEF CreateQueues
    <2>3. IsSeq(u) /\ Len(u) = 2
      BY Zenon, <2>1, LiteralSeqs
    <2>4. /\ DOMAIN u = 1 .. 2 /\ u[1] = Gets("create_queues", "cq_", "abort")
          /\ u[2] = Gets("create_queues", "qp", "leave") /\ 2 - 1 = 1
      BY <2>1
    <2>5. QueueFacts(c, u)
      <3>1. IsPlain(c, u, 2, "create_queues", "abort")
        BY Zenon, <1>4, <2>3, <2>4 DEF IsPlain
      <3> QED  BY Zenon, <1>4, <3>1, <1>PlainQueues DEF TwoNames
    <2> QED  BY Zenon, <2>2, <2>3, <2>5
  <1> QED  BY Zenon, <1>1, <1>2, <1>3, <1>4, ProviderKinds

-----------------------------------------------------------------------------
(* The rest of init(), once there is a queue pair.                         *)

ViewAlias == <<"device view", "host qp">>

LateFns == {"setup_qp_loopback", "smoke", "setup_gpu_qp", "initialize", "map bridge", "copy to gpu"}

LateNames == {"host qp", "gpu qp", "smoke buf", "smoke mr", "dbr reg", "sq reg", "cq reg",
              "sq dbr", "cq dbr", "bf reg", "db page", "uar reg"} \cup Bridge

LateKind(c, e) ==
  LET p == OpenDvLibs(c) IN
  /\ e.fn \in LateFns
  /\ e.drops = {} \/ (e.drops = Smoke /\ e.fn = "smoke" /\ e.gets = {} /\ e.sets = {})
  /\ e.gets \subseteq LateNames /\ e.gets \subseteq KnownOf(p) \cup Unkept(p)
  /\ \A x \in e.sets : x = ViewAlias \/ \E r \in e.gets \cap KnownOf(p) : x = <<r, r>>
  /\ \A r \in e.gets : <<r, r>> \in e.sets \/ r \in Unkept(p)
  /\ IF e.fn = "smoke" THEN e.fail = "error" ELSE e.fail # "error" /\ e.gets \cap Smoke = {}

LateFacts(c, s, i) ==
  /\ LateKind(c, s[i])
  /\ s[i].fn = "smoke" => \/ s[i].drops = Smoke
                          \/ i + 1 \in DOMAIN s /\ s[i + 1].fn = "smoke"

LateOk(c, s) == IsSeq(s) /\ \A i \in DOMAIN s : LateFacts(c, s, i)

\* A step of another function than the smoke test.
Quiet1(c, e) == LateKind(c, e) /\ e.fn # "smoke"

LateScript(c) ==
  (IF c.loopback THEN << Calls("setup_qp_loopback", "abort") >> ELSE <<>>)
  \o (IF c.loopback /\ OpenDvLibs(c) = "mlx5" THEN Mlx5SmokeTest ELSE <<>>)
  \o SetupGpuQp(c)

\* After CheckQp init() acquires nothing a clean-up could not handle: only names
\* of that phase, standing on the QP, and the smoke test drops its buffers.
LEMMA LateScriptOk ==
    \A c : /\ LateOk(c, LateScript(c))
           /\ OpenDvLibs(c) # "none" => LateOk(c, InitializeGpuQp(c))
  \* The facts of the late calls hold of two stretches taken together.
  <1>LateConcat.
      ASSUME NEW c, NEW s, NEW t, LateOk(c, s), LateOk(c, t)
      PROVE  LateOk(c, s \o t)
    <2> USE <1>LateConcat
    <2> DEFINE u == s \o t
    <2>0. IsSeq(s) /\ IsSeq(t)
      BY Zenon DEF LateOk
    <2>1. /\ IsSeq(u) /\ Len(s) \in Nat /\ Len(t) \in Nat
          /\ DOMAIN s = 1 .. Len(s) /\ DOMAIN t = 1 .. Len(t)
          /\ DOMAIN u = 1 .. Len(s) + Len(t)
          /\ \A i \in 1 .. Len(s) : u[i] = s[i]
          /\ \A i \in 1 .. Len(t) : u[Len(s) + i] = t[i]
      BY <2>0, ConcatFacts
    <2>2. ASSUME NEW i \in 1 .. Len(s) PROVE LateFacts(c, u, i)
      <3>1. LateFacts(c, s, i) /\ u[i] = s[i]
        BY Zenon, <2>1 DEF LateOk
      <3>2. i + 1 \in DOMAIN s => i + 1 \in DOMAIN u /\ u[i + 1] = s[i + 1]
        BY <2>1
      <3> HIDE DEF u
      <3> QED  BY Zenon, <3>1, <3>2 DEF LateFacts
    <2>3. ASSUME NEW i \in 1 .. Len(t) PROVE LateFacts(c, u, Len(s) + i)
      <3>1. LateFacts(c, t, i) /\ u[Len(s) + i] = t[i]
        BY Zenon, <2>1 DEF LateOk
      <3>2. i + 1 \in DOMAIN t =>
              (Len(s) + i) + 1 \in DOMAIN u /\ u[(Len(s) + i) + 1] = t[i + 1]
        <4>1. Len(s) + (i + 1) = (Len(s) + i) + 1
          BY <2>1
        <4> HIDE DEF u
        <4> QED  BY <2>1, <4>1
      <3> HIDE DEF u
      <3> QED  BY Zenon, <3>1, <3>2 DEF LateFacts
    <2>4. ASSUME NEW i \in DOMAIN u PROVE LateFacts(c, u, i)
      <3>1. \/ i \in 1 .. Len(s)
            \/ i - Len(s) \in 1 .. Len(t) /\ Len(s) + (i - Len(s)) = i
        BY <2>1, <2>4
      <3> HIDE DEF u
      <3> QED  BY Zenon, <3>1, <2>2, <2>3
    <2> QED  BY Zenon, <2>1, <2>4 DEF LateOk

  \* Outside the smoke test the facts are those of each call alone.
  <1>QuietSeqs.
      ASSUME NEW c, NEW s, IsSeq(s), \A i \in DOMAIN s : Quiet1(c, s[i])
      PROVE  LateOk(c, s)
    BY Zenon, <1>QuietSeqs DEF LateOk, LateFacts, Quiet1

  \* The literals of initialize_gpu_qp.
  <1>QuietLiterals.
      ASSUME NEW c
      PROVE  /\ LateOk(c, <<>>)
             /\ \A u : Quiet1(c, u) => LateOk(c, <<u>>)
             /\ \A u, v : Quiet1(c, u) /\ Quiet1(c, v) => LateOk(c, <<u, v>>)
             /\ \A u, v, w : Quiet1(c, u) /\ Quiet1(c, v) /\ Quiet1(c, w) => LateOk(c, <<u, v, w>>)
             /\ \A u, v, w, x : Quiet1(c, u) /\ Quiet1(c, v) /\ Quiet1(c, w) /\ Quiet1(c, x) =>
                  LateOk(c, <<u, v, w, x>>)
    <2>1. LateOk(c, <<>>)
      <3>1. PICK s : s = <<>> BY Zenon
      <3>2. IsSeq(s)
        BY Zenon, <3>1, LiteralSeqs
      <3>3. \A i \in DOMAIN s : Quiet1(c, s[i])
        BY <3>1
      <3> QED  BY Zenon, <3>1, <3>2, <3>3, <1>QuietSeqs
    <2>2. ASSUME NEW u, Quiet1(c, u) PROVE LateOk(c, <<u>>)
      <3>1. PICK s : s = <<u>> BY Zenon
      <3>2. IsSeq(s)
        BY Zenon, <3>1, LiteralSeqs
      <3>3. \A i \in DOMAIN s : Quiet1(c, s[i])
        BY <2>2, <3>1
      <3> QED  BY Zenon, <3>1, <3>2, <3>3, <1>QuietSeqs
    <2>3. ASSUME NEW u, NEW v, Quiet1(c, u), Quiet1(c, v) PROVE LateOk(c, <<u, v>>)
      <3>1. PICK s : s = <<u, v>> BY Zenon
      <3>2. IsSeq(s)
        BY Zenon, <3>1, LiteralSeqs
      <3>3. \A i \in DOMAIN s : Quiet1(c, s[i])
        BY <2>3, <3>1
      <3> QED  BY Zenon, <3>1, <3>2, <3>3, <1>QuietSeqs
    <2>4. ASSUME NEW u, NEW v, NEW w, Quiet1(c, u), Quiet1(c, v), Quiet1(c, w)
          PROVE  LateOk(c, <<u, v, w>>)
      <3>1. PICK s : s = <<u, v, w>> BY Zenon
      <3>2. IsSeq(s)
        BY Zenon, <3>1, LiteralSeqs
      <3>3. \A i \in DOMAIN s : Quiet1(c, s[i])
        BY <2>4, <3>1
      <3> QED  BY Zenon, <3>1, <3>2, <3>3, <1>QuietSeqs
    <2>5. ASSUME NEW u, NEW v, NEW w, NEW x,
                 Quiet1(c, u), Quiet1(c, v), Quiet1(c, w), Quiet1(c, x)
          PROVE  LateOk(c, <<u, v, w, x>>)
      <3>1. PICK s : s = <<u, v, w, x>> BY Zenon
      <3>2. IsSeq(s)
        BY Zenon, <3>1, LiteralSeqs
      <3>3. \A i \in DOMAIN s : Quiet1(c, s[i])
        BY <2>5, <3>1
      <3> QED  BY Zenon, <3>1, <3>2, <3>3, <1>QuietSeqs
    <2> QED  BY Zenon, <2>1, <2>2, <2>3, <2>4, <2>5

  \* A late call that gets one resource.
  <1>QuietForms.
      ASSUME NEW c, NEW f \in LateFns \ {"smoke"}, NEW x, x # "error",
             NEW r \in (KnownOf(OpenDvLibs(c)) \cap LateNames) \ Smoke
      PROVE  Quiet1(c, Gets(f, r, x))
    <2> USE Zenon, <1>QuietForms
    <2>1. PICK e : e = Gets(f, r, x)
      OBVIOUS
    <2>2. IsStep(e, f, {}, {r}, {<<r, r>>}, x)
      BY <2>1, FormParts
    <2>3. Quiet1(c, e)
      BY <2>2 DEF IsStep, Quiet1, LateKind
    <2> QED  BY <2>1, <2>3

  \* The MMIO bridge of ernic, whose addresses stay in locals.
  <1>QuietBridge.
      ASSUME NEW c, OpenDvLibs(c) = "ernic", NEW r \in Bridge
      PROVE  Quiet1(c, GetsLocal("map bridge", r, "leave"))
    <2> USE Zenon, <1>QuietBridge
    <2>1. PICK e : e = GetsLocal("map bridge", r, "leave")
      OBVIOUS
    <2>2. IsStep(e, "map bridge", {}, {r}, {}, "leave")
      BY <2>1, FormParts
    <2>3. r \in Unkept(OpenDvLibs(c)) /\ r \in LateNames /\ "map bridge" \in LateFns
      BY DEF Unkept, LateNames, LateFns
    <2>4. r \notin Smoke
      BY DEF Bridge, Smoke
    <2>5. Quiet1(c, e)
      BY <2>2, <2>3, <2>4 DEF IsStep, Quiet1, LateKind
    <2> QED  BY <2>1, <2>5

  \* A late call that gets nothing, and the assignment of the device view.
  <1>QuietCalls.
      ASSUME NEW c, NEW f \in LateFns \ {"smoke"}, NEW x, x # "error"
      PROVE  Quiet1(c, Calls(f, x)) /\ Quiet1(c, Sets(f, {ViewAlias}))
    <2> USE Zenon, <1>QuietCalls
    <2>1. PICK e, g : e = Calls(f, x) /\ g = Sets(f, {ViewAlias})
      OBVIOUS
    <2>2. IsStep(e, f, {}, {}, {}, x) /\ IsStep(g, f, {}, {}, {ViewAlias}, "never")
      BY <2>1, FormParts
    <2>3. Quiet1(c, e)
      BY <2>2 DEF IsStep, Quiet1, LateKind
    <2>4. Quiet1(c, g)
      BY <2>2 DEF IsStep, Quiet1, LateKind
    <2> QED  BY <2>1, <2>3, <2>4

  \* The names the late steps acquire, by provider.
  <1>KnownLate.
      ASSUME NEW p
      PROVE  /\ {"host qp", "gpu qp"} \subseteq KnownOf(p)
             /\ p = "bnxt" => "dbr reg" \in KnownOf(p)
             /\ p = "mlx5" => Smoke \cup {"sq reg", "cq reg", "sq dbr", "cq dbr", "bf reg"}
                                \subseteq KnownOf(p)
             /\ p = "ionic" => "db page" \in KnownOf(p)
             /\ p = "ernic" => "uar reg" \in KnownOf(p)
    <2>1. {"host qp", "gpu qp"} \subseteq KnownOf(p)
      BY DEF KnownOf
    <2>2. p = "bnxt" => "dbr reg" \in KnownOf(p)
      BY DEF KnownOf
    <2>3. p = "mlx5" => Smoke \cup {"sq reg", "cq reg", "sq dbr", "cq dbr", "bf reg"}
                          \subseteq KnownOf(p)
      BY DEF KnownOf, Smoke
    <2>4. p = "ionic" => "db page" \in KnownOf(p)
      BY DEF KnownOf
    <2>5. p = "ernic" => "uar reg" \in KnownOf(p)
      BY DEF KnownOf
    <2> QED  BY Zenon, <2>1, <2>2, <2>3, <2>4, <2>5

  \* The loopback smoke test of mlx5.
  <1>SmokeTestOk.
      ASSUME NEW c, OpenDvLibs(c) = "mlx5"
      PROVE  LateOk(c, Mlx5SmokeTest)
    <2> USE <1>SmokeTestOk
    <2>1. PICK s : s = Mlx5SmokeTest
      BY Zenon
    <2>2. IsSeq(s)
      BY Zenon, <2>1, LiteralSeqs DEF Mlx5SmokeTest
    <2>3. PICK u, v, w, x : /\ u = Gets("smoke", "smoke buf", "error")
                            /\ v = Gets("smoke", "smoke mr", "error")
                            /\ w = Calls("smoke", "error")
                            /\ x = Step("smoke", Smoke, {}, {}, "error")
      BY Zenon
    <2>15. s = <<u, v, w, x>>
      BY Zenon, <2>1, <2>3 DEF Mlx5SmokeTest
    <2>16. DOMAIN s = 1 .. 4 /\ s[1] = u /\ s[2] = v /\ s[3] = w /\ s[4] = x
      BY <2>15
    <2>4. /\ IsStep(s[1], "smoke", {}, {"smoke buf"}, {<<"smoke buf", "smoke buf">>}, "error")
          /\ IsStep(s[2], "smoke", {}, {"smoke mr"}, {<<"smoke mr", "smoke mr">>}, "error")
          /\ IsStep(s[3], "smoke", {}, {}, {}, "error")
          /\ IsStep(s[4], "smoke", Smoke, {}, {}, "error")
      BY Zenon, <2>3, <2>16, FormParts, StepParts
    <2>5. Smoke \subseteq KnownOf(OpenDvLibs(c)) \cap LateNames /\ "smoke" \in LateFns
      <3>1. Smoke \subseteq KnownOf(OpenDvLibs(c))
        BY Zenon, <1>KnownLate
      <3> QED  BY Zenon, <3>1 DEF Smoke, LateNames, LateFns
    <2>6. LateKind(c, s[1])
      BY Zenon, <2>4, <2>5 DEF IsStep, LateKind, Smoke
    <2>7. LateKind(c, s[2])
      BY Zenon, <2>4, <2>5 DEF IsStep, LateKind, Smoke
    <2>8. LateKind(c, s[3])
      BY Zenon, <2>4, <2>5 DEF IsStep, LateKind
    <2>9. LateKind(c, s[4])
      BY Zenon, <2>4, <2>5 DEF IsStep, LateKind
    <2>10. /\ 1 + 1 \in DOMAIN s /\ s[1 + 1] = s[2] /\ 2 + 1 \in DOMAIN s /\ s[2 + 1] = s[3]
           /\ 3 + 1 \in DOMAIN s /\ s[3 + 1] = s[4]
      BY <2>16
    <2>11. s[2].fn = "smoke" /\ s[3].fn = "smoke" /\ s[4].fn = "smoke" /\ s[4].drops = Smoke
      BY Zenon, <2>4 DEF IsStep
    <2>12. LateFacts(c, s, 1) /\ LateFacts(c, s, 2) /\ LateFacts(c, s, 3) /\ LateFacts(c, s, 4)
      BY Zenon, <2>6, <2>7, <2>8, <2>9, <2>10, <2>11 DEF LateFacts
    <2>13. ASSUME NEW i \in DOMAIN s PROVE i = 1 \/ i = 2 \/ i = 3 \/ i = 4
      BY <2>16, <2>13
    <2>14. LateOk(c, s)
      BY Zenon, <2>2, <2>12, <2>13 DEF LateOk
    <2> QED  BY Zenon, <2>1, <2>14

  \* initialize_gpu_qp of each provider.
  <1>InitializeOk.
      ASSUME NEW c, OpenDvLibs(c) # "none"
      PROVE  LateOk(c, InitializeGpuQp(c))
    <2> USE <1>InitializeOk
    <2> DEFINE view == << Sets("initialize", {ViewAlias}) >>
    <2>0. "initialize" \in LateFns \ {"smoke"} /\ "leave" # "error"
      BY Zenon DEF LateFns
    <2>1. Quiet1(c, Calls("initialize", "leave")) /\ Quiet1(c, Sets("initialize", {ViewAlias}))
      BY Zenon, <2>0, <1>QuietCalls
    <2>2. LateOk(c, view)
      BY Zenon, <2>1, <1>QuietLiterals
    <2>3. ASSUME NEW r \in KnownOf(OpenDvLibs(c)), r \in LateNames \ Smoke
          PROVE  Quiet1(c, Gets("initialize", r, "leave"))
      BY Zenon, <2>0, <2>3, <1>QuietForms
    <2>4. ASSUME OpenDvLibs(c) = "bnxt" PROVE LateOk(c, BnxtInitializeGpuQp)
      <3>1. Quiet1(c, Gets("initialize", "dbr reg", "leave"))
        <4>1. "dbr reg" \in KnownOf(OpenDvLibs(c)) /\ "dbr reg" \in LateNames \ Smoke
          BY Zenon, <2>4, <1>KnownLate DEF LateNames, Smoke
        <4> QED  BY Zenon, <2>3, <4>1
      <3> QED  BY Zenon, <2>1, <3>1, <1>QuietLiterals DEF BnxtInitializeGpuQp
    <2>5. ASSUME OpenDvLibs(c) = "ionic" PROVE LateOk(c, IonicInitializeGpuQp)
      <3>1. Quiet1(c, Gets("initialize", "db page", "leave"))
        <4>1. "db page" \in KnownOf(OpenDvLibs(c)) /\ "db page" \in LateNames \ Smoke
          BY Zenon, <2>5, <1>KnownLate DEF LateNames, Smoke
        <4> QED  BY Zenon, <2>3, <4>1
      <3> QED  BY Zenon, <2>1, <3>1, <1>QuietLiterals DEF IonicInitializeGpuQp
    <2>6. ASSUME OpenDvLibs(c) = "mlx5" PROVE LateOk(c, Mlx5RegisterQueues(c) \o Mlx5LockDoorbell)
      <3>1. ASSUME NEW r \in {"sq reg", "cq reg", "sq dbr", "cq dbr", "bf reg"}
            PROVE  Quiet1(c, Gets("initialize", r, "leave"))
        <4>1. r \in KnownOf(OpenDvLibs(c))
          BY Zenon, <2>6, <1>KnownLate
        <4>2. r \in LateNames \ Smoke
          BY Zenon DEF LateNames, Smoke
        <4> QED  BY Zenon, <2>3, <4>1, <4>2
      <3>2. LateOk(c, << Calls("initialize", "leave"), Gets("initialize", "sq reg", "leave"),
                         Gets("initialize", "cq reg", "leave"), Gets("initialize", "sq dbr", "leave") >>)
        BY Zenon, <2>1, <3>1, <1>QuietLiterals
      <3>3. LateOk(c, IF c.sharedDbr THEN <<>> ELSE << Gets("initialize", "cq dbr", "leave") >>)
        BY Zenon, <3>1, <1>QuietLiterals
      <3>4. LateOk(c, << Calls("initialize", "leave") >>)
        BY Zenon, <2>1, <1>QuietLiterals
      <3>5. LateOk(c, Mlx5RegisterQueues(c))
        BY Zenon, <3>2, <3>3, <3>4, <1>LateConcat DEF Mlx5RegisterQueues
      <3>6. LateOk(c, Mlx5LockDoorbell)
        BY Zenon, <3>1, <1>QuietLiterals DEF Mlx5LockDoorbell
      <3> QED  BY Zenon, <3>5, <3>6, <1>LateConcat
    <2>7. ASSUME OpenDvLibs(c) = "ernic" PROVE LateOk(c, ErnicMapUar(c) \o ErnicMapBridge(c))
      <3>1. Quiet1(c, Gets("initialize", "uar reg", "leave"))
        <4>1. "uar reg" \in KnownOf(OpenDvLibs(c)) /\ "uar reg" \in LateNames \ Smoke
          BY Zenon, <2>7, <1>KnownLate DEF LateNames, Smoke
        <4> QED  BY Zenon, <2>3, <4>1
      <3>3. /\ Quiet1(c, GetsLocal("map bridge", "bridge map", "leave"))
            /\ Quiet1(c, GetsLocal("map bridge", "bridge reg", "leave"))
        BY Zenon, <2>7, <1>QuietBridge DEF Bridge
      <3>2. LateOk(c, ErnicMapUar(c)) /\ LateOk(c, ErnicMapBridge(c))
        BY Zenon, <2>1, <3>1, <3>3, <1>QuietLiterals DEF ErnicMapUar, ErnicMapBridge
      <3> QED  BY Zenon, <3>2, <1>LateConcat
    <2> HIDE DEF view
    <2>8. \/ OpenDvLibs(c) = "bnxt" /\ InitializeGpuQp(c) = BnxtInitializeGpuQp \o view
          \/ OpenDvLibs(c) = "mlx5"
             /\ InitializeGpuQp(c) = (Mlx5RegisterQueues(c) \o Mlx5LockDoorbell) \o view
          \/ OpenDvLibs(c) = "ionic" /\ InitializeGpuQp(c) = IonicInitializeGpuQp \o view
          \/ OpenDvLibs(c) = "ernic"
             /\ InitializeGpuQp(c) = (ErnicMapUar(c) \o ErnicMapBridge(c)) \o view
      BY ProviderKinds DEF InitializeGpuQp, view, ViewAlias
    <2> QED  BY Zenon, <2>2, <2>4, <2>5, <2>6, <2>7, <2>8, <1>LateConcat

  <1> SUFFICES ASSUME NEW c PROVE LateOk(c, LateScript(c))
    BY Zenon, <1>InitializeOk
  <1> USE Zenon
  <1>1. LateOk(c, IF c.loopback THEN << Calls("setup_qp_loopback", "abort") >> ELSE <<>>)
    <2>1. "setup_qp_loopback" \in LateFns \ {"smoke"} /\ "abort" # "error"
      BY DEF LateFns
    <2>2. Quiet1(c, Calls("setup_qp_loopback", "abort"))
      BY <2>1, <1>QuietCalls
    <2> QED  BY <2>2, <1>QuietLiterals
  <1>2. LateOk(c, IF c.loopback /\ OpenDvLibs(c) = "mlx5" THEN Mlx5SmokeTest ELSE <<>>)
    BY <1>SmokeTestOk, <1>QuietLiterals
  <1>3. LateOk(c, SetupGpuQp(c))
    <2>1. CASE OpenDvLibs(c) = "none"
      BY <2>1, <1>QuietLiterals DEF SetupGpuQp
    <2>2. CASE OpenDvLibs(c) # "none"
      <3>1. PICK e : e = Step("setup_gpu_qp", {}, {"host qp", "gpu qp"},
                              {<<"host qp", "host qp">>, <<"gpu qp", "gpu qp">>}, "return")
        OBVIOUS
      <3>2. IsStep(e, "setup_gpu_qp", {}, {"host qp", "gpu qp"},
                   {<<"host qp", "host qp">>, <<"gpu qp", "gpu qp">>}, "return")
        BY <3>1, StepParts
      <3>3. {"host qp", "gpu qp"} \subseteq KnownOf(OpenDvLibs(c))
        BY <1>KnownLate
      <3>4. Quiet1(c, e)
        BY <3>2, <3>3 DEF IsStep, Quiet1, LateKind, LateFns, LateNames, Smoke
      <3>5. "copy to gpu" \in LateFns \ {"smoke"} /\ "forget" # "error"
        BY DEF LateFns
      <3>6. Quiet1(c, Calls("copy to gpu", "forget"))
        BY <3>5, <1>QuietCalls
      <3>7. LateOk(c, <<e>>) /\ LateOk(c, << Calls("copy to gpu", "forget") >>)
        BY <3>4, <3>6, <1>QuietLiterals
      <3>8. SetupGpuQp(c) = <<e>> \o InitializeGpuQp(c) \o << Calls("copy to gpu", "forget") >>
        BY <2>2, <3>1 DEF SetupGpuQp
      <3> QED  BY <2>2, <3>7, <3>8, <1>InitializeOk, <1>LateConcat
    <2> QED  BY <2>1, <2>2
  <1> QED  BY <1>1, <1>2, <1>3, <1>LateConcat DEF LateScript

-----------------------------------------------------------------------------
(* init() from end to end: the device, the queues, the check, the rest.    *)

IsScript(c, s) ==
  LET q == CreateQueues(c)
      t == LateScript(c)
      n == Len(CreateQueues(c))
      m == Len(LateScript(c)) IN
  /\ n \in Nat /\ m \in Nat /\ DOMAIN q = 1 .. n /\ DOMAIN t = 1 .. m
  /\ Len(s) = (n + 4) + m /\ DOMAIN s = 1 .. (n + 4) + m
  /\ s[1] = Gets("open_ib_device", "context", "abort")
  /\ s[2] = Gets("open_ib_device", "pd", "abort")
  /\ s[3] = Calls("open_ib_device", "abort")
  /\ \A i \in 1 .. n : s[i + 3] = q[i]
  /\ s[n + 4] = Calls("check qp", "never")
  /\ \A i \in 1 .. m : s[(n + 4) + i] = t[i]

Assoc(s, t, u) == (s \o t) \o u = s \o (t \o u)

\* init() is open_ib_device, create_queues, CheckQp and the rest.
LEMMA ScriptParts == \A c : IsScript(c, InitScript(c))
  \* Scripts may be joined from either end.
  <1>AssocConcat.
      ASSUME NEW s, NEW t, NEW u, IsSeq(s), IsSeq(t), IsSeq(u)
      PROVE  Assoc(s, t, u)
    <2> USE <1>AssocConcat
    <2> DEFINE X == Elements(s) \cup Elements(t) \cup Elements(u)
    <2>1. s \in Seq(X) /\ t \in Seq(X) /\ u \in Seq(X)
      BY DEF IsSeq
    <2> HIDE DEF X
    <2> QED  BY <2>1 DEF Assoc

  <1> SUFFICES ASSUME NEW c
               PROVE  IsScript(c, InitScript(c))
    OBVIOUS
  <1>1. PICK o, q, k, x, y, z :
          /\ o = OpenIbDevice /\ q = CreateQueues(c) /\ k = << Calls("check qp", "never") >>
          /\ x = (IF c.loopback THEN << Calls("setup_qp_loopback", "abort") >> ELSE <<>>)
          /\ y = (IF c.loopback /\ OpenDvLibs(c) = "mlx5" THEN Mlx5SmokeTest ELSE <<>>)
          /\ z = SetupGpuQp(c)
    BY Zenon
  <1>2. PICK t, s : t = LateScript(c) /\ s = InitScript(c)
    BY Zenon
  <1>3. t = (x \o y) \o z /\ s = ((((o \o q) \o k) \o x) \o y) \o z
    BY Zenon, <1>1, <1>2 DEF LateScript, InitScript
  <1>4. IsSeq(o) /\ Len(o) = 3 /\ IsSeq(k) /\ Len(k) = 1
    BY Zenon, <1>1, LiteralSeqs DEF OpenIbDevice
  <1>5. /\ o[1] = Gets("open_ib_device", "context", "abort")
        /\ o[2] = Gets("open_ib_device", "pd", "abort")
        /\ o[3] = Calls("open_ib_device", "abort")
        /\ k[1] = Calls("check qp", "never")
    BY <1>1 DEF OpenIbDevice
  <1>6. IsSeq(q)
    BY Zenon, <1>1, QueuesOk
  <1>7. IsSeq(t)
    <2>1. LateOk(c, t)
      BY Zenon, <1>2, LateScriptOk
    <2> QED  BY Zenon, <2>1 DEF LateOk
  <1>8. IsSeq(x) /\ IsSeq(y) /\ IsSeq(z)
    <2>1. IsSeq(x)
      BY Zenon, <1>1, LiteralSeqs
    <2>2. IsSeq(y)
      BY Zenon, <1>1, LiteralSeqs DEF Mlx5SmokeTest
    <2>3. IsSeq(z)
      <3>1. CASE OpenDvLibs(c) = "none"
        BY Zenon, <1>1, <3>1, LiteralSeqs DEF SetupGpuQp
      <3>2. CASE OpenDvLibs(c) # "none"
        <4>0. LateOk(c, InitializeGpuQp(c))
          BY Zenon, <3>2, LateScriptOk
        <4>1. IsSeq(InitializeGpuQp(c))
          BY Zenon, <4>0 DEF LateOk
        <4> QED  BY Zenon, <1>1, <3>2, <4>1, LiteralSeqs, ConcatFacts DEF SetupGpuQp
      <3> QED  BY Zenon, <3>1, <3>2
    <2> QED  BY Zenon, <2>1, <2>2, <2>3
  <1>9. PICK h, g : g = o \o q /\ h = g \o k
    BY Zenon
  <1>10. IsSeq(g) /\ IsSeq(h) /\ IsSeq(h \o x) /\ IsSeq(x \o y)
    BY Zenon, <1>4, <1>6, <1>8, <1>9, ConcatFacts
  <1>11. s = h \o t
    <2>1. s = ((h \o x) \o y) \o z
      BY Zenon, <1>3, <1>9
    <2>2. Assoc(h, x, y) /\ Assoc(h, x \o y, z)
      BY Zenon, <1>8, <1>10, <1>AssocConcat
    <2> QED  BY Zenon, <1>3, <2>1, <2>2 DEF Assoc
  <1>12. PICK n, m, l : n = Len(q) /\ m = Len(t) /\ l = Len(h)
    BY Zenon
  <1>13. n \in Nat /\ m \in Nat /\ DOMAIN q = 1 .. n /\ DOMAIN t = 1 .. m
    BY Zenon, <1>6, <1>7, <1>12, ConcatFacts
  <1>14. Joined(g, o, 3, q, n)
    <2>1. 3 \in Nat
      OBVIOUS
    <2> QED  BY Zenon, <1>4, <1>6, <1>9, <1>12, <1>13, <2>1, ConcatAt
  <1>15. Len(g) = 3 + n /\ 3 + n \in Nat
    BY <1>13, <1>14 DEF Joined
  <1>16. Joined(h, g, 3 + n, k, 1)
    <2>1. 1 \in Nat
      OBVIOUS
    <2> QED  BY Zenon, <1>4, <1>9, <1>10, <1>15, <2>1, ConcatAt
  <1>17. l = n + 4 /\ l \in Nat
    BY <1>12, <1>13, <1>16 DEF Joined
  <1>18. Joined(s, h, l, t, m)
    BY Zenon, <1>7, <1>10, <1>11, <1>12, <1>13, <1>17, ConcatAt
  <1>19. /\ Len(s) = (n + 4) + m /\ DOMAIN s = 1 .. (n + 4) + m
         /\ \A i \in 1 .. n + 4 : s[i] = h[i]
         /\ \A i \in 1 .. m : s[(n + 4) + i] = t[i]
    BY Zenon, <1>17, <1>18 DEF Joined
  <1>20. (\A i \in 1 .. 3 + n : h[i] = g[i]) /\ h[(3 + n) + 1] = k[1]
    BY <1>13, <1>16 DEF Joined
  <1>21. (\A i \in 1 .. 3 : g[i] = o[i]) /\ \A i \in 1 .. n : g[3 + i] = q[i]
    BY Zenon, <1>14 DEF Joined
  <1>22. s[1] = o[1] /\ s[2] = o[2] /\ s[3] = o[3] /\ s[n + 4] = k[1]
    BY <1>13, <1>19, <1>20, <1>21
  <1>23. ASSUME NEW i \in 1 .. n PROVE s[i + 3] = q[i]
    <2>1. i + 3 = 3 + i /\ i + 3 \in 1 .. 3 + n /\ i + 3 \in 1 .. n + 4
      BY <1>13
    <2>2. PICK j : j = i + 3
      BY Zenon
    <2>3. s[j] = h[j] /\ h[j] = g[j] /\ g[j] = q[i]
      BY Zenon, <1>19, <1>20, <1>21, <2>1, <2>2
    <2> QED  BY Zenon, <2>2, <2>3
  <1>24. IsScript(c, s)
    BY Zenon, <1>1, <1>2, <1>5, <1>12, <1>13, <1>19, <1>22, <1>23 DEF IsScript
  <1> QED  BY Zenon, <1>2, <1>24

-----------------------------------------------------------------------------
(* The order in which shutdown() releases.                                 *)

\* x has place i of the order.
Here(i, x, k, y) == i = k /\ x = y

BnxtPlace(i, x) ==
  \/ Here(i, x, 1, "host qp")
  \/ Here(i, x, 2, "gpu qp")
  \/ Here(i, x, 3, "qp")
  \/ Here(i, x, 4, "scq cq")
  \/ Here(i, x, 5, "rcq cq")
  \/ Here(i, x, 6, "sq umem")
  \/ Here(i, x, 7, "rq umem")
  \/ Here(i, x, 8, "scq umem")
  \/ Here(i, x, 9, "rcq umem")
  \/ Here(i, x, 10, "dbr reg")
  \/ Here(i, x, 11, "db attr")
  \/ Here(i, x, 12, "sq buf")
  \/ Here(i, x, 13, "rq buf")
  \/ Here(i, x, 14, "qp struct")
  \/ Here(i, x, 15, "scq buf")
  \/ Here(i, x, 16, "scq_")
  \/ Here(i, x, 17, "rcq buf")
  \/ Here(i, x, 18, "rcq_")
  \/ Here(i, x, 19, "qp")
  \/ Here(i, x, 20, "cq_")
  \/ Here(i, x, 21, "mr")
  \/ Here(i, x, 22, "pd parent")
  \/ Here(i, x, 23, "pd")
  \/ Here(i, x, 24, "context")

Mlx5Place(i, x) ==
  \/ Here(i, x, 1, "host qp")
  \/ Here(i, x, 2, "gpu qp")
  \/ Here(i, x, 3, "bf reg")
  \/ Here(i, x, 4, "cq dbr")
  \/ Here(i, x, 5, "sq dbr")
  \/ Here(i, x, 6, "cq reg")
  \/ Here(i, x, 7, "sq reg")
  \/ Here(i, x, 8, "qp")
  \/ Here(i, x, 9, "cq_")
  \/ Here(i, x, 10, "mr")
  \/ Here(i, x, 11, "pd parent")
  \/ Here(i, x, 12, "pd")
  \/ Here(i, x, 13, "context")

PlainPlace(i, x) ==
  \/ Here(i, x, 1, "host qp")
  \/ Here(i, x, 2, "gpu qp")
  \/ Here(i, x, 3, "qp")
  \/ Here(i, x, 4, "cq_")
  \/ Here(i, x, 5, "mr")
  \/ Here(i, x, 6, "pd parent")
  \/ Here(i, x, 7, "pd")
  \/ Here(i, x, 8, "context")

IsBnxtOrder(o) ==
  /\ DOMAIN o = 1 .. 24
  /\ o[1] = "host qp"
  /\ o[2] = "gpu qp"
  /\ o[3] = "qp"
  /\ o[4] = "scq cq"
  /\ o[5] = "rcq cq"
  /\ o[6] = "sq umem"
  /\ o[7] = "rq umem"
  /\ o[8] = "scq umem"
  /\ o[9] = "rcq umem"
  /\ o[10] = "dbr reg"
  /\ o[11] = "db attr"
  /\ o[12] = "sq buf"
  /\ o[13] = "rq buf"
  /\ o[14] = "qp struct"
  /\ o[15] = "scq buf"
  /\ o[16] = "scq_"
  /\ o[17] = "rcq buf"
  /\ o[18] = "rcq_"
  /\ o[19] = "qp"
  /\ o[20] = "cq_"
  /\ o[21] = "mr"
  /\ o[22] = "pd parent"
  /\ o[23] = "pd"
  /\ o[24] = "context"

IsMlx5Order(o) ==
  /\ DOMAIN o = 1 .. 13
  /\ o[1] = "host qp"
  /\ o[2] = "gpu qp"
  /\ o[3] = "bf reg"
  /\ o[4] = "cq dbr"
  /\ o[5] = "sq dbr"
  /\ o[6] = "cq reg"
  /\ o[7] = "sq reg"
  /\ o[8] = "qp"
  /\ o[9] = "cq_"
  /\ o[10] = "mr"
  /\ o[11] = "pd parent"
  /\ o[12] = "pd"
  /\ o[13] = "context"

IsPlainOrder(o) ==
  /\ DOMAIN o = 1 .. 8
  /\ o[1] = "host qp"
  /\ o[2] = "gpu qp"
  /\ o[3] = "qp"
  /\ o[4] = "cq_"
  /\ o[5] = "mr"
  /\ o[6] = "pd parent"
  /\ o[7] = "pd"
  /\ o[8] = "context"

\* The literals of the clean-ups.
LEMMA LongSeqs ==
    ASSUME NEW a1, NEW a2, NEW a3, NEW a4, NEW a5, NEW a6, NEW a7, NEW a8,
           NEW a9, NEW a10, NEW a11, NEW a12, NEW a13, NEW a14, NEW a15, NEW a16
    PROVE  /\ IsSeq(<<a1, a2, a3, a4, a5>>) /\ Len(<<a1, a2, a3, a4, a5>>) = 5
           /\ IsSeq(<<a1, a2, a3, a4, a5, a6>>) /\ Len(<<a1, a2, a3, a4, a5, a6>>) = 6
           /\ IsSeq(<<a1, a2, a3, a4, a5, a6, a7, a8, a9, a10, a11, a12, a13, a14, a15, a16>>)
           /\ Len(<<a1, a2, a3, a4, a5, a6, a7, a8, a9, a10, a11, a12, a13, a14, a15, a16>>) = 16
  BY DEF IsSeq, Elements

\* shutdown() of a provider without a clean-up of its own.
LEMMA PlainOrder ==
    ASSUME NEW c, OpenDvLibs(c) \notin {"bnxt", "mlx5"}
    PROVE  IsPlainOrder(ShutdownOrder(c))
  <1>1. PICK u, v, w : u = << "host qp", "gpu qp" >> /\ v = <<>>
                       /\ w = << "qp", "cq_", "mr", "pd parent", "pd", "context" >>
    BY Zenon
  <1>2. ShutdownOrder(c) = (u \o v) \o w
    BY <1>1 DEF ShutdownOrder
  <1>3. IsSeq(u) /\ Len(u) = 2
    BY Zenon, <1>1, LiteralSeqs
  <1>4. IsSeq(v) /\ Len(v) = 0
    BY Zenon, <1>1, LiteralSeqs
  <1>6. IsSeq(w) /\ Len(w) = 6
    BY Zenon, <1>1, LongSeqs
  <1>7. /\ w[1] = "qp" /\ w[2] = "cq_" /\ w[3] = "mr" /\ w[4] = "pd parent" /\ w[5] = "pd"
        /\ w[6] = "context"
    BY <1>1
  <1>8. PICK x, y : x = u \o v /\ y = x \o w
    BY Zenon
  <1>9. 2 \in Nat /\ 0 \in Nat /\ 6 \in Nat /\ 2 \in Nat /\ 2 + 0 = 2
    OBVIOUS
  <1>10. Joined(x, u, 2, v, 0)
    BY Zenon, <1>3, <1>4, <1>8, <1>9, ConcatAt
  <1>11. IsSeq(x) /\ Len(x) = 2
    BY Zenon, <1>9, <1>10 DEF Joined
  <1>12. Joined(y, x, 2, w, 6)
    BY Zenon, <1>6, <1>8, <1>9, <1>11, ConcatAt

  <1>14. DOMAIN y = 1 .. 8
    BY <1>12 DEF Joined
  <1>20. u[1] = "host qp" /\ u[2] = "gpu qp"
    BY <1>1
  <1>21. x[1] = u[1] /\ x[2] = u[2]
    BY <1>10 DEF Joined
  <1>22. y[1] = x[1] /\ y[2] = x[2]
    BY <1>12 DEF Joined
  <1>23. y[1] = "host qp" /\ y[2] = "gpu qp"
    BY Zenon, <1>20, <1>21, <1>22
  <1>24. y[3] = w[1] /\ y[4] = w[2]
    BY <1>12 DEF Joined
  <1>25. y[3] = "qp" /\ y[4] = "cq_"
    BY Zenon, <1>7, <1>24
  <1>26. y[5] = w[3] /\ y[6] = w[4] /\ y[7] = w[5] /\ y[8] = w[6]
    BY <1>12 DEF Joined
  <1>27. y[5] = "mr" /\ y[6] = "pd parent" /\ y[7] = "pd" /\ y[8] = "context"
    BY Zenon, <1>7, <1>26
  <1>16. IsPlainOrder(y)
    BY Zenon, <1>14, <1>23, <1>25, <1>27 DEF IsPlainOrder
  <1> QED  BY Zenon, <1>2, <1>8, <1>16

\* x comes before place i.
Earlier(o, i, x) == \E j \in DOMAIN o : j < i /\ o[j] = x

OrderFacts(c, o) ==
  LET p == OpenDvLibs(c) IN
  /\ DOMAIN o \subseteq Nat
  /\ \A i \in DOMAIN o : \A d \in Needs(c) : o[i] = d[2] => Earlier(o, i, d[1])
  /\ TwoNames(p) => \A i \in DOMAIN o : o[i] = "cq_" => Earlier(o, i, "qp")
  /\ p = "bnxt" => \A i \in DOMAIN o : o[i] = "cq_" => Earlier(o, i, "scq cq")
  /\ \A i \in DOMAIN o : o[i] = "scq cq" => p = "bnxt"
  /\ \A i \in DOMAIN o : o[i] # "device view"
  /\ \A r \in KnownOf(p) :
       \/ (\E i \in DOMAIN o : o[i] = r) \/ r \in {"buf", "counters"} \cup Smoke
       \/ p = "ernic" \/ (p = "ionic" /\ r = "db page")

\* shutdown() releases whatever stands on a resource before the resource, and has
\* a place for every field except those of ernic and of ionic's doorbell page.
LEMMA OrderOk == \A c : OrderFacts(c, ShutdownOrder(c))
  \* The order of bnxt, whose clean-up runs first.
  <1>BnxtOrder.
      ASSUME NEW c, OpenDvLibs(c) = "bnxt"
      PROVE  IsBnxtOrder(ShutdownOrder(c))
    <2> USE <1>BnxtOrder
    <2>1. PICK u, v, w : u = << "host qp", "gpu qp" >> /\ v = BnxtCleanup
                         /\ w = << "qp", "cq_", "mr", "pd parent", "pd", "context" >>
      BY Zenon
    <2>2. ShutdownOrder(c) = (u \o v) \o w
      BY <2>1 DEF ShutdownOrder
    <2>3. IsSeq(u) /\ Len(u) = 2
      BY Zenon, <2>1, LiteralSeqs
    <2>4. IsSeq(v) /\ Len(v) = 16
      BY Zenon, <2>1, LongSeqs DEF BnxtCleanup
    <2>6. IsSeq(w) /\ Len(w) = 6
      BY Zenon, <2>1, LongSeqs
    <2>7. /\ w[1] = "qp" /\ w[2] = "cq_" /\ w[3] = "mr" /\ w[4] = "pd parent" /\ w[5] = "pd"
          /\ w[6] = "context"
      BY <2>1
    <2>8. PICK x, y : x = u \o v /\ y = x \o w
      BY Zenon
    <2>9. 2 \in Nat /\ 16 \in Nat /\ 6 \in Nat /\ 18 \in Nat /\ 2 + 16 = 18
      OBVIOUS
    <2>10. Joined(x, u, 2, v, 16)
      BY Zenon, <2>3, <2>4, <2>8, <2>9, ConcatAt
    <2>11. IsSeq(x) /\ Len(x) = 18
      BY Zenon, <2>9, <2>10 DEF Joined
    <2>12. Joined(y, x, 18, w, 6)
      BY Zenon, <2>6, <2>8, <2>9, <2>11, ConcatAt

    <2>14. DOMAIN y = 1 .. 24
      BY <2>12 DEF Joined
    <2>20. u[1] = "host qp" /\ u[2] = "gpu qp" /\ v[1] = "qp" /\ v[2] = "scq cq"
      BY <2>1 DEF BnxtCleanup
    <2>21. x[1] = u[1] /\ x[2] = u[2] /\ x[3] = v[1] /\ x[4] = v[2]
      BY <2>10 DEF Joined
    <2>22. y[1] = x[1] /\ y[2] = x[2] /\ y[3] = x[3] /\ y[4] = x[4]
      BY <2>12 DEF Joined
    <2>23. y[1] = "host qp" /\ y[2] = "gpu qp" /\ y[3] = "qp" /\ y[4] = "scq cq"
      BY Zenon, <2>20, <2>21, <2>22
    <2>24. v[3] = "rcq cq" /\ v[4] = "sq umem" /\ v[5] = "rq umem" /\ v[6] = "scq umem"
      BY <2>1 DEF BnxtCleanup
    <2>25. x[5] = v[3] /\ x[6] = v[4] /\ x[7] = v[5] /\ x[8] = v[6]
      BY <2>10 DEF Joined
    <2>26. y[5] = x[5] /\ y[6] = x[6] /\ y[7] = x[7] /\ y[8] = x[8]
      BY <2>12 DEF Joined
    <2>27. y[5] = "rcq cq" /\ y[6] = "sq umem" /\ y[7] = "rq umem" /\ y[8] = "scq umem"
      BY Zenon, <2>24, <2>25, <2>26
    <2>28. v[7] = "rcq umem" /\ v[8] = "dbr reg" /\ v[9] = "db attr" /\ v[10] = "sq buf"
      BY <2>1 DEF BnxtCleanup
    <2>29. x[9] = v[7] /\ x[10] = v[8] /\ x[11] = v[9] /\ x[12] = v[10]
      BY <2>10 DEF Joined
    <2>30. y[9] = x[9] /\ y[10] = x[10] /\ y[11] = x[11] /\ y[12] = x[12]
      BY <2>12 DEF Joined
    <2>31. y[9] = "rcq umem" /\ y[10] = "dbr reg" /\ y[11] = "db attr" /\ y[12] = "sq buf"
      BY Zenon, <2>28, <2>29, <2>30
    <2>32. v[11] = "rq buf" /\ v[12] = "qp struct" /\ v[13] = "scq buf" /\ v[14] = "scq_"
      BY <2>1 DEF BnxtCleanup
    <2>33. x[13] = v[11] /\ x[14] = v[12] /\ x[15] = v[13] /\ x[16] = v[14]
      BY <2>10 DEF Joined
    <2>34. y[13] = x[13] /\ y[14] = x[14] /\ y[15] = x[15] /\ y[16] = x[16]
      BY <2>12 DEF Joined
    <2>35. y[13] = "rq buf" /\ y[14] = "qp struct" /\ y[15] = "scq buf" /\ y[16] = "scq_"
      BY Zenon, <2>32, <2>33, <2>34
    <2>36. v[15] = "rcq buf" /\ v[16] = "rcq_"
      BY <2>1 DEF BnxtCleanup
    <2>37. x[17] = v[15] /\ x[18] = v[16]
      BY <2>10 DEF Joined
    <2>38. y[17] = x[17] /\ y[18] = x[18]
      BY <2>12 DEF Joined
    <2>39. y[17] = "rcq buf" /\ y[18] = "rcq_"
      BY Zenon, <2>36, <2>37, <2>38
    <2>40. y[19] = w[1] /\ y[20] = w[2]
      BY <2>12 DEF Joined
    <2>41. y[19] = "qp" /\ y[20] = "cq_"
      BY Zenon, <2>7, <2>40
    <2>42. y[21] = w[3] /\ y[22] = w[4] /\ y[23] = w[5] /\ y[24] = w[6]
      BY <2>12 DEF Joined
    <2>43. y[21] = "mr" /\ y[22] = "pd parent" /\ y[23] = "pd" /\ y[24] = "context"
      BY Zenon, <2>7, <2>42
    <2>16. IsBnxtOrder(y)
      BY Zenon, <2>14, <2>23, <2>27, <2>31, <2>35, <2>39, <2>41, <2>43 DEF IsBnxtOrder
    <2> QED  BY Zenon, <2>2, <2>8, <2>16

  \* The order of mlx5, whose clean-up runs first.
  <1>Mlx5Order.
      ASSUME NEW c, OpenDvLibs(c) = "mlx5"
      PROVE  IsMlx5Order(ShutdownOrder(c))
    <2> USE <1>Mlx5Order
    <2>1. PICK u, v, w : u = << "host qp", "gpu qp" >> /\ v = Mlx5Cleanup
                         /\ w = << "qp", "cq_", "mr", "pd parent", "pd", "context" >>
      BY Zenon
    <2>2. ShutdownOrder(c) = (u \o v) \o w
      BY <2>1 DEF ShutdownOrder
    <2>3. IsSeq(u) /\ Len(u) = 2
      BY Zenon, <2>1, LiteralSeqs
    <2>4. IsSeq(v) /\ Len(v) = 5
      BY Zenon, <2>1, LongSeqs DEF Mlx5Cleanup
    <2>6. IsSeq(w) /\ Len(w) = 6
      BY Zenon, <2>1, LongSeqs
    <2>7. /\ w[1] = "qp" /\ w[2] = "cq_" /\ w[3] = "mr" /\ w[4] = "pd parent" /\ w[5] = "pd"
          /\ w[6] = "context"
      BY <2>1
    <2>8. PICK x, y : x = u \o v /\ y = x \o w
      BY Zenon
    <2>9. 2 \in Nat /\ 5 \in Nat /\ 6 \in Nat /\ 7 \in Nat /\ 2 + 5 = 7
      OBVIOUS
    <2>10. Joined(x, u, 2, v, 5)
      BY Zenon, <2>3, <2>4, <2>8, <2>9, ConcatAt
    <2>11. IsSeq(x) /\ Len(x) = 7
      BY Zenon, <2>9, <2>10 DEF Joined
    <2>12. Joined(y, x, 7, w, 6)
      BY Zenon, <2>6, <2>8, <2>9, <2>11, ConcatAt

    <2>14. DOMAIN y = 1 .. 13
      BY <2>12 DEF Joined
    <2>20. u[1] = "host qp" /\ u[2] = "gpu qp" /\ v[1] = "bf reg" /\ v[2] = "cq dbr"
      BY <2>1 DEF Mlx5Cleanup
    <2>21. x[1] = u[1] /\ x[2] = u[2] /\ x[3] = v[1] /\ x[4] = v[2]
      BY <2>10 DEF Joined
    <2>22. y[1] = x[1] /\ y[2] = x[2] /\ y[3] = x[3] /\ y[4] = x[4]
      BY <2>12 DEF Joined
    <2>23. y[1] = "host qp" /\ y[2] = "gpu qp" /\ y[3] = "bf reg" /\ y[4] = "cq dbr"
      BY Zenon, <2>20, <2>21, <2>22
    <2>24. v[3] = "sq dbr" /\ v[4] = "cq reg" /\ v[5] = "sq reg"
      BY <2>1 DEF Mlx5Cleanup
    <2>25. x[5] = v[3] /\ x[6] = v[4] /\ x[7] = v[5]
      BY <2>10 DEF Joined
    <2>26. y[5] = x[5] /\ y[6] = x[6] /\ y[7] = x[7]
      BY <2>12 DEF Joined
    <2>27. y[5] = "sq dbr" /\ y[6] = "cq reg" /\ y[7] = "sq reg"
      BY Zenon, <2>24, <2>25, <2>26
    <2>28. y[8] = w[1]
      BY <2>12 DEF Joined
    <2>29. y[8] = "qp"
      BY Zenon, <2>7, <2>28
    <2>30. y[9] = w[2] /\ y[10] = w[3] /\ y[11] = w[4] /\ y[12] = w[5]
      BY <2>12 DEF Joined
    <2>31. y[9] = "cq_" /\ y[10] = "mr" /\ y[11] = "pd parent" /\ y[12] = "pd"
      BY Zenon, <2>7, <2>30
    <2>32. y[13] = w[6]
      BY <2>12 DEF Joined
    <2>33. y[13] = "context"
      BY Zenon, <2>7, <2>32
    <2>16. IsMlx5Order(y)
      BY Zenon, <2>14, <2>23, <2>27, <2>29, <2>31, <2>33 DEF IsMlx5Order
    <2> QED  BY Zenon, <2>2, <2>8, <2>16

  \* Which field is where in the order of bnxt.
  <1>BnxtPlaces.
      ASSUME NEW o, IsBnxtOrder(o), NEW i \in DOMAIN o
      PROVE  BnxtPlace(i, o[i])
    <2> USE <1>BnxtPlaces
    <2>0. i \in 1 .. 24
      BY Zenon DEF IsBnxtOrder
    <2>1. \/ i = 1
          \/ i = 2
          \/ i = 3
          \/ i = 4
          \/ i = 5
          \/ i = 6
          \/ i = 7
          \/ i = 8
          \/ i = 9
          \/ i = 10
          \/ i = 11
          \/ i = 12
          \/ i = 13
          \/ i = 14
          \/ i = 15
          \/ i = 16
          \/ i = 17
          \/ i = 18
          \/ i = 19
          \/ i = 20
          \/ i = 21
          \/ i = 22
          \/ i = 23
          \/ i = 24
      BY <2>0
    <2>2. /\ i = 1 => Here(i, o[i], 1, "host qp")
          /\ i = 2 => Here(i, o[i], 2, "gpu qp")
          /\ i = 3 => Here(i, o[i], 3, "qp")
          /\ i = 4 => Here(i, o[i], 4, "scq cq")
      BY Zenon DEF Here, IsBnxtOrder
    <2>3. /\ i = 5 => Here(i, o[i], 5, "rcq cq")
          /\ i = 6 => Here(i, o[i], 6, "sq umem")
          /\ i = 7 => Here(i, o[i], 7, "rq umem")
          /\ i = 8 => Here(i, o[i], 8, "scq umem")
      BY Zenon DEF Here, IsBnxtOrder
    <2>4. /\ i = 9 => Here(i, o[i], 9, "rcq umem")
          /\ i = 10 => Here(i, o[i], 10, "dbr reg")
          /\ i = 11 => Here(i, o[i], 11, "db attr")
          /\ i = 12 => Here(i, o[i], 12, "sq buf")
      BY Zenon DEF Here, IsBnxtOrder
    <2>5. /\ i = 13 => Here(i, o[i], 13, "rq buf")
          /\ i = 14 => Here(i, o[i], 14, "qp struct")
          /\ i = 15 => Here(i, o[i], 15, "scq buf")
          /\ i = 16 => Here(i, o[i], 16, "scq_")
      BY Zenon DEF Here, IsBnxtOrder
    <2>6. /\ i = 17 => Here(i, o[i], 17, "rcq buf")
          /\ i = 18 => Here(i, o[i], 18, "rcq_")
          /\ i = 19 => Here(i, o[i], 19, "qp")
          /\ i = 20 => Here(i, o[i], 20, "cq_")
      BY Zenon DEF Here, IsBnxtOrder
    <2>7. /\ i = 21 => Here(i, o[i], 21, "mr")
          /\ i = 22 => Here(i, o[i], 22, "pd parent")
          /\ i = 23 => Here(i, o[i], 23, "pd")
          /\ i = 24 => Here(i, o[i], 24, "context")
      BY Zenon DEF Here, IsBnxtOrder
    <2> QED  BY Zenon, <2>1, <2>2, <2>3, <2>4, <2>5, <2>6, <2>7 DEF BnxtPlace

  \* Which field is where in the order of mlx5.
  <1>Mlx5Places.
      ASSUME NEW o, IsMlx5Order(o), NEW i \in DOMAIN o
      PROVE  Mlx5Place(i, o[i])
    <2> USE <1>Mlx5Places
    <2>0. i \in 1 .. 13
      BY Zenon DEF IsMlx5Order
    <2>1. \/ i = 1
          \/ i = 2
          \/ i = 3
          \/ i = 4
          \/ i = 5
          \/ i = 6
          \/ i = 7
          \/ i = 8
          \/ i = 9
          \/ i = 10
          \/ i = 11
          \/ i = 12
          \/ i = 13
      BY <2>0
    <2>2. /\ i = 1 => Here(i, o[i], 1, "host qp")
          /\ i = 2 => Here(i, o[i], 2, "gpu qp")
          /\ i = 3 => Here(i, o[i], 3, "bf reg")
          /\ i = 4 => Here(i, o[i], 4, "cq dbr")
      BY Zenon DEF Here, IsMlx5Order
    <2>3. /\ i = 5 => Here(i, o[i], 5, "sq dbr")
          /\ i = 6 => Here(i, o[i], 6, "cq reg")
          /\ i = 7 => Here(i, o[i], 7, "sq reg")
          /\ i = 8 => Here(i, o[i], 8, "qp")
      BY Zenon DEF Here, IsMlx5Order
    <2>4. /\ i = 9 => Here(i, o[i], 9, "cq_")
          /\ i = 10 => Here(i, o[i], 10, "mr")
          /\ i = 11 => Here(i, o[i], 11, "pd parent")
          /\ i = 12 => Here(i, o[i], 12, "pd")
      BY Zenon DEF Here, IsMlx5Order
    <2>5. /\ i = 13 => Here(i, o[i], 13, "context")
      BY Zenon DEF Here, IsMlx5Order
    <2> QED  BY Zenon, <2>1, <2>2, <2>3, <2>4, <2>5 DEF Mlx5Place

  \* Which field is where in the order of the others.
  <1>PlainPlaces.
      ASSUME NEW o, IsPlainOrder(o), NEW i \in DOMAIN o
      PROVE  PlainPlace(i, o[i])
    <2> USE <1>PlainPlaces
    <2>0. i \in 1 .. 8
      BY Zenon DEF IsPlainOrder
    <2>1. \/ i = 1
          \/ i = 2
          \/ i = 3
          \/ i = 4
          \/ i = 5
          \/ i = 6
          \/ i = 7
          \/ i = 8
      BY <2>0
    <2>2. /\ i = 1 => Here(i, o[i], 1, "host qp")
          /\ i = 2 => Here(i, o[i], 2, "gpu qp")
          /\ i = 3 => Here(i, o[i], 3, "qp")
          /\ i = 4 => Here(i, o[i], 4, "cq_")
      BY Zenon DEF Here, IsPlainOrder
    <2>3. /\ i = 5 => Here(i, o[i], 5, "mr")
          /\ i = 6 => Here(i, o[i], 6, "pd parent")
          /\ i = 7 => Here(i, o[i], 7, "pd")
          /\ i = 8 => Here(i, o[i], 8, "context")
      BY Zenon DEF Here, IsPlainOrder
    <2> QED  BY Zenon, <2>1, <2>2, <2>3 DEF PlainPlace

  \* bnxt releases the user of a resource earlier.
  <1>BnxtEarlier.
      ASSUME NEW o, IsBnxtOrder(o), NEW i \in DOMAIN o, NEW d, o[i] = d[2],
             CommonNeeds(d) \/ BnxtNeeds(d)
      PROVE  Earlier(o, i, d[1])
    <2> USE <1>BnxtEarlier
    <2>1. BnxtPlace(i, d[2])
      BY Zenon, <1>BnxtPlaces
    <2>2. DOMAIN o = 1 .. 24
      BY Zenon DEF IsBnxtOrder
    <2>3. CASE PairIs(d, "qp", "pd")
      <3>1. i = 23
        BY Zenon, <2>1, <2>3 DEF PairIs, BnxtPlace, Here
      <3>2. 3 \in DOMAIN o /\ 3 < i
        BY <2>2, <3>1
      <3> QED  BY Zenon, <2>3, <3>2 DEF Earlier, PairIs, IsBnxtOrder
    <2>4. CASE PairIs(d, "pd", "context")
      <3>1. i = 24
        BY Zenon, <2>1, <2>4 DEF PairIs, BnxtPlace, Here
      <3>2. 23 \in DOMAIN o /\ 23 < i
        BY <2>2, <3>1
      <3> QED  BY Zenon, <2>4, <3>2 DEF Earlier, PairIs, IsBnxtOrder
    <2>5. CASE PairIs(d, "mr", "pd")
      <3>1. i = 23
        BY Zenon, <2>1, <2>5 DEF PairIs, BnxtPlace, Here
      <3>2. 21 \in DOMAIN o /\ 21 < i
        BY <2>2, <3>1
      <3> QED  BY Zenon, <2>5, <3>2 DEF Earlier, PairIs, IsBnxtOrder
    <2>6. CASE PairIs(d, "qp", "scq cq")
      <3>1. i = 4
        BY Zenon, <2>1, <2>6 DEF PairIs, BnxtPlace, Here
      <3>2. 3 \in DOMAIN o /\ 3 < i
        BY <2>2, <3>1
      <3> QED  BY Zenon, <2>6, <3>2 DEF Earlier, PairIs, IsBnxtOrder
    <2>7. CASE PairIs(d, "qp", "rcq cq")
      <3>1. i = 5
        BY Zenon, <2>1, <2>7 DEF PairIs, BnxtPlace, Here
      <3>2. 3 \in DOMAIN o /\ 3 < i
        BY <2>2, <3>1
      <3> QED  BY Zenon, <2>7, <3>2 DEF Earlier, PairIs, IsBnxtOrder
    <2>8. CASE PairIs(d, "qp", "sq umem")
      <3>1. i = 6
        BY Zenon, <2>1, <2>8 DEF PairIs, BnxtPlace, Here
      <3>2. 3 \in DOMAIN o /\ 3 < i
        BY <2>2, <3>1
      <3> QED  BY Zenon, <2>8, <3>2 DEF Earlier, PairIs, IsBnxtOrder
    <2>9. CASE PairIs(d, "qp", "rq umem")
      <3>1. i = 7
        BY Zenon, <2>1, <2>9 DEF PairIs, BnxtPlace, Here
      <3>2. 3 \in DOMAIN o /\ 3 < i
        BY <2>2, <3>1
      <3> QED  BY Zenon, <2>9, <3>2 DEF Earlier, PairIs, IsBnxtOrder
    <2>10. CASE PairIs(d, "qp", "sq buf")
      <3>1. i = 12
        BY Zenon, <2>1, <2>10 DEF PairIs, BnxtPlace, Here
      <3>2. 3 \in DOMAIN o /\ 3 < i
        BY <2>2, <3>1
      <3> QED  BY Zenon, <2>10, <3>2 DEF Earlier, PairIs, IsBnxtOrder
    <2>11. CASE PairIs(d, "qp", "rq buf")
      <3>1. i = 13
        BY Zenon, <2>1, <2>11 DEF PairIs, BnxtPlace, Here
      <3>2. 3 \in DOMAIN o /\ 3 < i
        BY <2>2, <3>1
      <3> QED  BY Zenon, <2>11, <3>2 DEF Earlier, PairIs, IsBnxtOrder
    <2>12. CASE PairIs(d, "scq cq", "scq umem")
      <3>1. i = 8
        BY Zenon, <2>1, <2>12 DEF PairIs, BnxtPlace, Here
      <3>2. 4 \in DOMAIN o /\ 4 < i
        BY <2>2, <3>1
      <3> QED  BY Zenon, <2>12, <3>2 DEF Earlier, PairIs, IsBnxtOrder
    <2>13. CASE PairIs(d, "rcq cq", "rcq umem")
      <3>1. i = 9
        BY Zenon, <2>1, <2>13 DEF PairIs, BnxtPlace, Here
      <3>2. 5 \in DOMAIN o /\ 5 < i
        BY <2>2, <3>1
      <3> QED  BY Zenon, <2>13, <3>2 DEF Earlier, PairIs, IsBnxtOrder
    <2>14. CASE PairIs(d, "scq umem", "scq buf")
      <3>1. i = 15
        BY Zenon, <2>1, <2>14 DEF PairIs, BnxtPlace, Here
      <3>2. 8 \in DOMAIN o /\ 8 < i
        BY <2>2, <3>1
      <3> QED  BY Zenon, <2>14, <3>2 DEF Earlier, PairIs, IsBnxtOrder
    <2>15. CASE PairIs(d, "rcq umem", "rcq buf")
      <3>1. i = 17
        BY Zenon, <2>1, <2>15 DEF PairIs, BnxtPlace, Here
      <3>2. 9 \in DOMAIN o /\ 9 < i
        BY <2>2, <3>1
      <3> QED  BY Zenon, <2>15, <3>2 DEF Earlier, PairIs, IsBnxtOrder
    <2>16. CASE PairIs(d, "rcq cq", "context")
      <3>1. i = 24
        BY Zenon, <2>1, <2>16 DEF PairIs, BnxtPlace, Here
      <3>2. 5 \in DOMAIN o /\ 5 < i
        BY <2>2, <3>1
      <3> QED  BY Zenon, <2>16, <3>2 DEF Earlier, PairIs, IsBnxtOrder
    <2>17. CASE PairIs(d, "dbr reg", "db attr")
      <3>1. i = 11
        BY Zenon, <2>1, <2>17 DEF PairIs, BnxtPlace, Here
      <3>2. 10 \in DOMAIN o /\ 10 < i
        BY <2>2, <3>1
      <3> QED  BY Zenon, <2>17, <3>2 DEF Earlier, PairIs, IsBnxtOrder
    <2> QED  BY Zenon, <2>3, <2>4, <2>5, <2>6, <2>7, <2>8, <2>9, <2>10, <2>11, <2>12, <2>13, <2>14, <2>15, <2>16, <2>17 DEF CommonNeeds, BnxtNeeds

  \* mlx5 releases the user of a resource earlier.
  <1>Mlx5Earlier.
      ASSUME NEW o, IsMlx5Order(o), NEW i \in DOMAIN o, NEW d, o[i] = d[2],
             CommonNeeds(d) \/ Mlx5Needs(d)
      PROVE  Earlier(o, i, d[1])
    <2> USE <1>Mlx5Earlier
    <2>1. Mlx5Place(i, d[2])
      BY Zenon, <1>Mlx5Places
    <2>2. DOMAIN o = 1 .. 13
      BY Zenon DEF IsMlx5Order
    <2>3. CASE PairIs(d, "qp", "pd")
      <3>1. i = 12
        BY Zenon, <2>1, <2>3 DEF PairIs, Mlx5Place, Here
      <3>2. 8 \in DOMAIN o /\ 8 < i
        BY <2>2, <3>1
      <3> QED  BY Zenon, <2>3, <3>2 DEF Earlier, PairIs, IsMlx5Order
    <2>4. CASE PairIs(d, "pd", "context")
      <3>1. i = 13
        BY Zenon, <2>1, <2>4 DEF PairIs, Mlx5Place, Here
      <3>2. 12 \in DOMAIN o /\ 12 < i
        BY <2>2, <3>1
      <3> QED  BY Zenon, <2>4, <3>2 DEF Earlier, PairIs, IsMlx5Order
    <2>5. CASE PairIs(d, "mr", "pd")
      <3>1. i = 12
        BY Zenon, <2>1, <2>5 DEF PairIs, Mlx5Place, Here
      <3>2. 10 \in DOMAIN o /\ 10 < i
        BY <2>2, <3>1
      <3> QED  BY Zenon, <2>5, <3>2 DEF Earlier, PairIs, IsMlx5Order
    <2>6. CASE PairIs(d, "sq reg", "qp")
      <3>1. i = 8
        BY Zenon, <2>1, <2>6 DEF PairIs, Mlx5Place, Here
      <3>2. 7 \in DOMAIN o /\ 7 < i
        BY <2>2, <3>1
      <3> QED  BY Zenon, <2>6, <3>2 DEF Earlier, PairIs, IsMlx5Order
    <2>7. CASE PairIs(d, "sq dbr", "qp")
      <3>1. i = 8
        BY Zenon, <2>1, <2>7 DEF PairIs, Mlx5Place, Here
      <3>2. 5 \in DOMAIN o /\ 5 < i
        BY <2>2, <3>1
      <3> QED  BY Zenon, <2>7, <3>2 DEF Earlier, PairIs, IsMlx5Order
    <2>8. CASE PairIs(d, "bf reg", "qp")
      <3>1. i = 8
        BY Zenon, <2>1, <2>8 DEF PairIs, Mlx5Place, Here
      <3>2. 3 \in DOMAIN o /\ 3 < i
        BY <2>2, <3>1
      <3> QED  BY Zenon, <2>8, <3>2 DEF Earlier, PairIs, IsMlx5Order
    <2>9. CASE PairIs(d, "cq reg", "cq_")
      <3>1. i = 9
        BY Zenon, <2>1, <2>9 DEF PairIs, Mlx5Place, Here
      <3>2. 6 \in DOMAIN o /\ 6 < i
        BY <2>2, <3>1
      <3> QED  BY Zenon, <2>9, <3>2 DEF Earlier, PairIs, IsMlx5Order
    <2>10. CASE PairIs(d, "cq dbr", "cq_")
      <3>1. i = 9
        BY Zenon, <2>1, <2>10 DEF PairIs, Mlx5Place, Here
      <3>2. 4 \in DOMAIN o /\ 4 < i
        BY <2>2, <3>1
      <3> QED  BY Zenon, <2>10, <3>2 DEF Earlier, PairIs, IsMlx5Order
    <2>11. CASE PairIs(d, "qp", "cq_")
      <3>1. i = 9
        BY Zenon, <2>1, <2>11 DEF PairIs, Mlx5Place, Here
      <3>2. 8 \in DOMAIN o /\ 8 < i
        BY <2>2, <3>1
      <3> QED  BY Zenon, <2>11, <3>2 DEF Earlier, PairIs, IsMlx5Order
    <2>12. CASE PairIs(d, "cq_", "context")
      <3>1. i = 13
        BY Zenon, <2>1, <2>12 DEF PairIs, Mlx5Place, Here
      <3>2. 9 \in DOMAIN o /\ 9 < i
        BY <2>2, <3>1
      <3> QED  BY Zenon, <2>12, <3>2 DEF Earlier, PairIs, IsMlx5Order
    <2> QED  BY Zenon, <2>3, <2>4, <2>5, <2>6, <2>7, <2>8, <2>9, <2>10, <2>11, <2>12 DEF CommonNeeds, Mlx5Needs

  \* The others release the user of a resource earlier.
  <1>PlainEarlier.
      ASSUME NEW o, IsPlainOrder(o), NEW i \in DOMAIN o, NEW d, o[i] = d[2],
             CommonNeeds(d) \/ ErnicNeeds(d) \/ IonicNeeds(d) \/ NoneNeeds(d)
      PROVE  Earlier(o, i, d[1])
    <2> USE <1>PlainEarlier
    <2>1. PlainPlace(i, d[2])
      BY Zenon, <1>PlainPlaces
    <2>2. DOMAIN o = 1 .. 8
      BY Zenon DEF IsPlainOrder
    <2>3. CASE PairIs(d, "qp", "pd")
      <3>1. i = 7
        BY Zenon, <2>1, <2>3 DEF PairIs, PlainPlace, Here
      <3>2. 3 \in DOMAIN o /\ 3 < i
        BY <2>2, <3>1
      <3> QED  BY Zenon, <2>3, <3>2 DEF Earlier, PairIs, IsPlainOrder
    <2>4. CASE PairIs(d, "pd", "context")
      <3>1. i = 8
        BY Zenon, <2>1, <2>4 DEF PairIs, PlainPlace, Here
      <3>2. 7 \in DOMAIN o /\ 7 < i
        BY <2>2, <3>1
      <3> QED  BY Zenon, <2>4, <3>2 DEF Earlier, PairIs, IsPlainOrder
    <2>5. CASE PairIs(d, "mr", "pd")
      <3>1. i = 7
        BY Zenon, <2>1, <2>5 DEF PairIs, PlainPlace, Here
      <3>2. 5 \in DOMAIN o /\ 5 < i
        BY <2>2, <3>1
      <3> QED  BY Zenon, <2>5, <3>2 DEF Earlier, PairIs, IsPlainOrder
    <2>6. CASE PairIs(d, "qp", "cq_")
      <3>1. i = 4
        BY Zenon, <2>1, <2>6 DEF PairIs, PlainPlace, Here
      <3>2. 3 \in DOMAIN o /\ 3 < i
        BY <2>2, <3>1
      <3> QED  BY Zenon, <2>6, <3>2 DEF Earlier, PairIs, IsPlainOrder
    <2>7. CASE PairIs(d, "qp", "pd parent")
      <3>1. i = 6
        BY Zenon, <2>1, <2>7 DEF PairIs, PlainPlace, Here
      <3>2. 3 \in DOMAIN o /\ 3 < i
        BY <2>2, <3>1
      <3> QED  BY Zenon, <2>7, <3>2 DEF Earlier, PairIs, IsPlainOrder
    <2>8. CASE PairIs(d, "cq_", "pd parent")
      <3>1. i = 6
        BY Zenon, <2>1, <2>8 DEF PairIs, PlainPlace, Here
      <3>2. 4 \in DOMAIN o /\ 4 < i
        BY <2>2, <3>1
      <3> QED  BY Zenon, <2>8, <3>2 DEF Earlier, PairIs, IsPlainOrder
    <2>9. CASE PairIs(d, "mr", "pd parent")
      <3>1. i = 6
        BY Zenon, <2>1, <2>9 DEF PairIs, PlainPlace, Here
      <3>2. 5 \in DOMAIN o /\ 5 < i
        BY <2>2, <3>1
      <3> QED  BY Zenon, <2>9, <3>2 DEF Earlier, PairIs, IsPlainOrder
    <2>10. CASE PairIs(d, "pd parent", "pd")
      <3>1. i = 7
        BY Zenon, <2>1, <2>10 DEF PairIs, PlainPlace, Here
      <3>2. 6 \in DOMAIN o /\ 6 < i
        BY <2>2, <3>1
      <3> QED  BY Zenon, <2>10, <3>2 DEF Earlier, PairIs, IsPlainOrder
    <2>11. CASE PairIs(d, "cq_", "context")
      <3>1. i = 8
        BY Zenon, <2>1, <2>11 DEF PairIs, PlainPlace, Here
      <3>2. 4 \in DOMAIN o /\ 4 < i
        BY <2>2, <3>1
      <3> QED  BY Zenon, <2>11, <3>2 DEF Earlier, PairIs, IsPlainOrder
    <2>12. CASE PairIs(d, "qp", "scq cq")
      BY Zenon, <2>1, <2>12 DEF PairIs, PlainPlace, Here
    <2>13. CASE PairIs(d, "qp", "rcq cq")
      BY Zenon, <2>1, <2>13 DEF PairIs, PlainPlace, Here
    <2>14. CASE PairIs(d, "qp", "sq umem")
      BY Zenon, <2>1, <2>14 DEF PairIs, PlainPlace, Here
    <2>15. CASE PairIs(d, "qp", "rq umem")
      BY Zenon, <2>1, <2>15 DEF PairIs, PlainPlace, Here
    <2>16. CASE PairIs(d, "qp", "sq buf")
      BY Zenon, <2>1, <2>16 DEF PairIs, PlainPlace, Here
    <2>17. CASE PairIs(d, "qp", "rq buf")
      BY Zenon, <2>1, <2>17 DEF PairIs, PlainPlace, Here
    <2>18. CASE PairIs(d, "scq cq", "scq umem")
      BY Zenon, <2>1, <2>18 DEF PairIs, PlainPlace, Here
    <2>19. CASE PairIs(d, "scq umem", "scq buf")
      BY Zenon, <2>1, <2>19 DEF PairIs, PlainPlace, Here
    <2> QED  BY Zenon, <2>3, <2>4, <2>5, <2>6, <2>7, <2>8, <2>9, <2>10, <2>11, <2>12, <2>13, <2>14, <2>15, <2>16, <2>17, <2>18, <2>19 DEF CommonNeeds, ErnicNeeds, IonicNeeds, NoneNeeds

  <1> SUFFICES ASSUME NEW c
               PROVE  OrderFacts(c, ShutdownOrder(c))
    OBVIOUS
  <1>1. PICK o : o = ShutdownOrder(c)
    BY Zenon
  <1>2. CASE OpenDvLibs(c) = "bnxt"
    <2>1. IsBnxtOrder(o)
      BY Zenon, <1>1, <1>2, <1>BnxtOrder
    <2>2. DOMAIN o = 1 .. 24
      BY Zenon, <2>1 DEF IsBnxtOrder
    <2>3. \A i \in DOMAIN o : BnxtPlace(i, o[i])
      BY Zenon, <2>1, <1>BnxtPlaces
    <2>4. \A d \in Needs(c) : CommonNeeds(d) \/ BnxtNeeds(d)
      BY Zenon, <1>2, NeedsAre
    <2>5. \A i \in DOMAIN o : \A d \in Needs(c) : o[i] = d[2] => Earlier(o, i, d[1])
      BY Zenon, <2>1, <2>4, <1>BnxtEarlier
    <2>6. ASSUME NEW i \in DOMAIN o
          PROVE  (o[i] = "cq_" => i = 20) /\ o[i] # "device view"
      <3>1. BnxtPlace(i, o[i])
        BY Zenon, <2>3
      <3> QED  BY Zenon, <3>1 DEF BnxtPlace, Here
    <2>7. 3 \in DOMAIN o /\ 4 \in DOMAIN o /\ 3 < 20 /\ 4 < 20
      BY <2>2
    <2>8. o[3] = "qp" /\ o[4] = "scq cq"
      BY Zenon, <2>1 DEF IsBnxtOrder
    <2>9. Earlier(o, 20, "qp") /\ Earlier(o, 20, "scq cq")
      BY Zenon, <2>7, <2>8 DEF Earlier
    <2>10. DOMAIN o \subseteq Nat
      BY <2>2
    <2>11. \A k \in 1 .. 24 : k \in DOMAIN o
      BY Zenon, <2>2
    <2>12. KnownOf(OpenDvLibs(c)) =
             {"context", "pd", "qp", "host qp", "gpu qp", "mr", "buf", "counters"}
             \cup (CqNames \cup QpNames \cup {"db attr", "dbr reg"})
      BY Zenon, <1>2 DEF KnownOf
    <2>13. ASSUME NEW r \in KnownOf(OpenDvLibs(c))
           PROVE  (\E i \in DOMAIN o : o[i] = r) \/ r \in {"buf", "counters"}
      <3>1. /\ 1 \in DOMAIN o /\ 2 \in DOMAIN o /\ 3 \in DOMAIN o /\ 4 \in DOMAIN o
            /\ 5 \in DOMAIN o /\ 6 \in DOMAIN o /\ 7 \in DOMAIN o /\ 8 \in DOMAIN o
        BY <2>2
      <3>2. /\ 9 \in DOMAIN o /\ 10 \in DOMAIN o /\ 11 \in DOMAIN o /\ 12 \in DOMAIN o
            /\ 13 \in DOMAIN o /\ 14 \in DOMAIN o /\ 15 \in DOMAIN o /\ 16 \in DOMAIN o
        BY <2>2
      <3>3. /\ 17 \in DOMAIN o /\ 18 \in DOMAIN o /\ 19 \in DOMAIN o /\ 20 \in DOMAIN o
            /\ 21 \in DOMAIN o /\ 22 \in DOMAIN o /\ 23 \in DOMAIN o /\ 24 \in DOMAIN o
        BY <2>2
      <3>4. CASE r \in {"context", "pd", "qp", "host qp", "gpu qp", "mr", "buf", "counters"}
        <4>1. /\ o[24] = "context" /\ o[23] = "pd" /\ o[3] = "qp" /\ o[1] = "host qp"
              /\ o[2] = "gpu qp" /\ o[21] = "mr"
          BY Zenon, <2>1 DEF IsBnxtOrder
        <4> QED  BY Zenon, <3>1, <3>3, <3>4, <4>1
      <3>5. CASE r \in CqNames
        <4>1. /\ o[16] = "scq_" /\ o[18] = "rcq_" /\ o[15] = "scq buf" /\ o[8] = "scq umem"
              /\ o[4] = "scq cq" /\ o[17] = "rcq buf" /\ o[9] = "rcq umem" /\ o[5] = "rcq cq"
          BY Zenon, <2>1 DEF IsBnxtOrder
        <4> QED  BY Zenon, <3>1, <3>2, <3>3, <3>5, <4>1 DEF CqNames
      <3>6. CASE r \in QpNames \cup {"db attr", "dbr reg"}
        <4>1. /\ o[14] = "qp struct" /\ o[12] = "sq buf" /\ o[6] = "sq umem" /\ o[13] = "rq buf"
              /\ o[7] = "rq umem" /\ o[11] = "db attr" /\ o[10] = "dbr reg"
          BY Zenon, <2>1 DEF IsBnxtOrder
        <4> QED  BY Zenon, <3>1, <3>2, <3>6, <4>1 DEF QpNames
      <3> QED  BY Zenon, <2>12, <3>4, <3>5, <3>6
    <2>14. OrderFacts(c, o)
      BY Zenon, <1>2, <2>5, <2>6, <2>9, <2>10, <2>13 DEF OrderFacts
    <2> QED  BY Zenon, <1>1, <2>14
  <1>3. CASE OpenDvLibs(c) = "mlx5"
    <2>1. IsMlx5Order(o)
      BY Zenon, <1>1, <1>3, <1>Mlx5Order
    <2>2. DOMAIN o = 1 .. 13
      BY Zenon, <2>1 DEF IsMlx5Order
    <2>3. \A i \in DOMAIN o : Mlx5Place(i, o[i])
      BY Zenon, <2>1, <1>Mlx5Places
    <2>4. \A d \in Needs(c) : CommonNeeds(d) \/ Mlx5Needs(d)
      BY Zenon, <1>3, NeedsAre
    <2>5. \A i \in DOMAIN o : \A d \in Needs(c) : o[i] = d[2] => Earlier(o, i, d[1])
      BY Zenon, <2>1, <2>4, <1>Mlx5Earlier
    <2>6. ASSUME NEW i \in DOMAIN o
          PROVE  o[i] # "scq cq" /\ o[i] # "device view"
      <3>1. Mlx5Place(i, o[i])
        BY Zenon, <2>3
      <3> QED  BY Zenon, <3>1 DEF Mlx5Place, Here
    <2>10. DOMAIN o \subseteq Nat
      BY <2>2
    <2>12. KnownOf(OpenDvLibs(c)) =
             {"context", "pd", "qp", "host qp", "gpu qp", "mr", "buf", "counters"}
             \cup {"cq_", "smoke buf", "smoke mr", "sq reg", "cq reg", "sq dbr", "cq dbr", "bf reg"}
      BY <1>3 DEF KnownOf
    <2>13. ASSUME NEW r \in KnownOf(OpenDvLibs(c))
           PROVE  (\E i \in DOMAIN o : o[i] = r) \/ r \in {"buf", "counters"} \cup Smoke
      <3>1. /\ 1 \in DOMAIN o /\ 2 \in DOMAIN o /\ 3 \in DOMAIN o /\ 4 \in DOMAIN o
            /\ 5 \in DOMAIN o /\ 6 \in DOMAIN o /\ 7 \in DOMAIN o /\ 8 \in DOMAIN o
            /\ 9 \in DOMAIN o /\ 10 \in DOMAIN o /\ 12 \in DOMAIN o /\ 13 \in DOMAIN o
        BY <2>2
      <3>4. CASE r \in {"context", "pd", "qp", "host qp", "gpu qp", "mr", "buf", "counters"}
        BY Zenon, <2>1, <3>1, <3>4 DEF IsMlx5Order
      <3>5. CASE r \in {"cq_", "smoke buf", "smoke mr", "sq reg", "cq reg", "sq dbr", "cq dbr", "bf reg"}
        BY Zenon, <2>1, <3>1, <3>5 DEF IsMlx5Order, Smoke
      <3> QED  BY Zenon, <2>12, <3>4, <3>5
    <2>14. OrderFacts(c, o)
      BY Zenon, <1>3, <2>5, <2>6, <2>10, <2>13 DEF OrderFacts, TwoNames
    <2> QED  BY Zenon, <1>1, <2>14
  <1>4. CASE OpenDvLibs(c) \in {"ernic", "ionic", "none"}
    <2>1. IsPlainOrder(o)
      BY Zenon, <1>1, <1>4, PlainOrder
    <2>2. DOMAIN o = 1 .. 8
      BY Zenon, <2>1 DEF IsPlainOrder
    <2>3. \A i \in DOMAIN o : PlainPlace(i, o[i])
      BY Zenon, <2>1, <1>PlainPlaces
    <2>4. \A d \in Needs(c) : CommonNeeds(d) \/ ErnicNeeds(d) \/ IonicNeeds(d) \/ NoneNeeds(d)
      BY Zenon, <1>4, NeedsAre
    <2>5. \A i \in DOMAIN o : \A d \in Needs(c) : o[i] = d[2] => Earlier(o, i, d[1])
      BY Zenon, <2>1, <2>4, <1>PlainEarlier
    <2>6. ASSUME NEW i \in DOMAIN o
          PROVE  o[i] # "scq cq" /\ o[i] # "device view" /\ (o[i] = "cq_" => i = 4)
      <3>1. PlainPlace(i, o[i])
        BY Zenon, <2>3
      <3> QED  BY Zenon, <3>1 DEF PlainPlace, Here
    <2>7. 3 \in DOMAIN o /\ 3 < 4
      BY <2>2
    <2>8. o[3] = "qp"
      BY Zenon, <2>1 DEF IsPlainOrder
    <2>9. Earlier(o, 4, "qp")
      BY Zenon, <2>7, <2>8 DEF Earlier
    <2>10. DOMAIN o \subseteq Nat
      BY <2>2
    <2>12. \/ OpenDvLibs(c) = "ernic"
           \/ /\ OpenDvLibs(c) = "ionic"
              /\ KnownOf(OpenDvLibs(c)) =
                   {"context", "pd", "qp", "host qp", "gpu qp", "mr", "buf", "counters"}
                   \cup {"pd parent", "cq_", "db page"}
           \/ /\ OpenDvLibs(c) = "none"
              /\ KnownOf(OpenDvLibs(c)) =
                   {"context", "pd", "qp", "host qp", "gpu qp", "mr", "buf", "counters"}
                   \cup {"cq_"}
      <3>1. CASE OpenDvLibs(c) = "ionic"
        BY <3>1 DEF KnownOf
      <3>2. CASE OpenDvLibs(c) = "none"
        BY <3>2 DEF KnownOf
      <3> QED  BY Zenon, <1>4, <3>1, <3>2
    <2>13. ASSUME NEW r \in KnownOf(OpenDvLibs(c))
           PROVE  \/ (\E i \in DOMAIN o : o[i] = r) \/ r \in {"buf", "counters"}
                  \/ OpenDvLibs(c) = "ernic" \/ (OpenDvLibs(c) = "ionic" /\ r = "db page")
      <3>1. /\ 1 \in DOMAIN o /\ 2 \in DOMAIN o /\ 3 \in DOMAIN o /\ 4 \in DOMAIN o
            /\ 5 \in DOMAIN o /\ 6 \in DOMAIN o /\ 7 \in DOMAIN o /\ 8 \in DOMAIN o
        BY <2>2
      <3>4. CASE r \in {"context", "pd", "qp", "host qp", "gpu qp", "mr", "buf", "counters",
                        "pd parent", "cq_"}
        BY Zenon, <2>1, <3>1, <3>4 DEF IsPlainOrder
      <3> QED  BY Zenon, <2>12, <3>4
    <2>14. OrderFacts(c, o)
      BY Zenon, <1>4, <2>5, <2>6, <2>9, <2>10, <2>13 DEF OrderFacts
    <2> QED  BY Zenon, <1>1, <2>14
  <1> QED  BY Zenon, <1>2, <1>3, <1>4, ProviderKinds

-----------------------------------------------------------------------------
(* The inductive invariant, of the values one process has: c its           *)
(* configuration, a the next step of init(), r the result of init(), L     *)
(* what is live, H what is held, F the faults so far, st its stage and sk  *)
(* its socket.                                                             *)

\* Only known resources exist, and a field names the resource of its name,
\* but for the second name of the send CQ and for the device view.
Shape(c, L, H) ==
  LET p == OpenDvLibs(c) IN
  /\ L \subseteq KnownOf(p) \cup Unkept(p)
  /\ \A x \in H : \/ x = ViewAlias \/ (TwoNames(p) /\ x = ScqAlias)
                  \/ \E r \in KnownOf(p) : x = <<r, r>>

\* The attribute block of the QP is still to be filled.
FillAhead(c, a) ==
  \E k \in DOMAIN CreateQueues(c) : k + 3 >= a /\ CreateQueues(c)[k] = FillAttr

Loose(c, a, r, F, x) ==
  \/ x \in Unkept(OpenDvLibs(c))
  \/ /\ TwoNames(OpenDvLibs(c)) /\ x \in Umems
     /\ F > 0 \/ (r = "running" /\ FillAhead(c, a))

\* What exists has a field, or is one of those that have none.
Kept(c, a, r, L, H, F) == \A x \in L : <<x, x>> \in H \/ Loose(c, a, r, F, x)

InOrder(c, x) == \E i \in DOMAIN ShutdownOrder(c) : ShutdownOrder(c)[i] = x

HeldIn(c, L, H) == \A x \in H : InOrder(c, x[1]) => x[2] \in L

Backed(c, L) == \A d \in Needs(c) : d[1] \in L => d[2] \in L

CheckAt(c) == Len(CreateQueues(c)) + 4

\* The buffers of the smoke test exist only within it.
SmokeIn(c, a, r, H) ==
  \A x \in Smoke : <<x, x>> \in H =>
    /\ r = "running" /\ a - CheckAt(c) \in DOMAIN LateScript(c)
    /\ LateScript(c)[a - CheckAt(c)].fn = "smoke"

Core(c, a, r, L, H, F) ==
  /\ Shape(c, L, H) /\ Kept(c, a, r, L, H, F) /\ HeldIn(c, L, H) /\ Backed(c, L)
  /\ SmokeIn(c, a, r, H)

\* Within a function of create_queues its earlier calls have all succeeded.
FnDone(c, a, L, H) ==
  a - 3 \in DOMAIN CreateQueues(c) =>
    \A j \in 1 .. a - 4 : CreateQueues(c)[j].fn = CreateQueues(c)[a - 3].fn =>
      CreateQueues(c)[j].gets \subseteq L /\ CreateQueues(c)[j].sets \subseteq H

Runs(c, a, L, H) ==
  /\ a <= (CheckAt(c) + Len(LateScript(c))) + 1
  /\ FnDone(c, a, L, H)
  /\ a < CheckAt(c) => "qp" \notin L /\ "dbr reg" \notin L

Built(c, a, L, H) ==
  /\ a >= 2 => "context" \in L
  /\ a >= 3 => "pd" \in L
  /\ a > CheckAt(c) => "qp" \in L
  /\ ScqAlias \in H => {"scq cq", "rcq cq"} \subseteq L
  /\ OpenDvLibs(c) = "bnxt" /\ "qp" \in L => "db attr" \in L

\* What is left when a process is done.
Left(c, r, L, H) ==
  \/ r = "dead"
  \/ L \subseteq {"dv lib"}
  \/ r # "running" /\ \A x \in H : ~InOrder(c, x[1]) /\ x[1] \notin {"buf", "counters"}

Control(c, a, r, L, H, st, sk) ==
  /\ st \in {"init", "run"} /\ r \in {"running", "ok"} => Built(c, a, L, H)
  /\ st = "init" /\ r = "running" => Runs(c, a, L, H)
  /\ st \in {"init", "run"} /\ r = "ok" => a > CheckAt(c)
  /\ st = "run" => r \in {"ok", "dead"}
  /\ st = "cleanup" => r \in {"ok", "error"}
  /\ r = "dead" => L = {} /\ H = {}
  /\ st \in {"init", "run"} => sk # "closed"
  /\ st = "cleanup" /\ sk = "closed" => <<"counters", "counters">> \notin H
  /\ st = "done" => Left(c, r, L, H)

Good(c, a, r, L, H, F, st, sk) ==
  a \in Nat \ {0} /\ Core(c, a, r, L, H, F) /\ Control(c, a, r, L, H, st, sk)

Ready(n) == Good(config_[n], at[n], result[n], live[n], held[n], faults, stage[n], sock[n])

RunInv ==
  /\ config_ \in [Nodes -> BackendConfigs] /\ faults \in Nat
  /\ DOMAIN at = Nodes /\ DOMAIN result = Nodes /\ DOMAIN live = Nodes
  /\ DOMAIN held = Nodes /\ DOMAIN stage = Nodes /\ DOMAIN sock = Nodes
  /\ \A n \in Nodes : Ready(n)

-----------------------------------------------------------------------------
(* A step of one process leaves the others alone.                          *)

\* What is said of one process.
LEMMA NodeIs ==
    ASSUME RunInv, NEW n \in Nodes
    PROVE  /\ Good(config_[n], at[n], result[n], live[n], held[n], faults, stage[n], sock[n])
           /\ config_[n] \in BackendConfigs /\ faults \in Nat
           /\ ProviderOf[config_[n]] = OpenDvLibs(config_[n])
           /\ ScriptOf[config_[n]] = InitScript(config_[n])
           /\ OrderOf[config_[n]] = ShutdownOrder(config_[n])
           /\ NeedsOf[config_[n]] = Needs(config_[n])
  <1> USE Zenon
  <1>1. config_[n] \in BackendConfigs /\ faults \in Nat
    BY DEF RunInv
  <1>2. /\ ProviderOf[config_[n]] = OpenDvLibs(config_[n])
        /\ ScriptOf[config_[n]] = InitScript(config_[n])
    BY <1>1 DEF ProviderOf, ScriptOf
  <1>3. /\ OrderOf[config_[n]] = ShutdownOrder(config_[n])
        /\ NeedsOf[config_[n]] = Needs(config_[n])
    BY <1>1 DEF OrderOf, NeedsOf
  <1> QED  BY <1>1, <1>2, <1>3 DEF RunInv, Ready

Counted(F, F2) == F \in Nat /\ (F2 = F \/ F2 = F + 1)

\* g is f but at n, where it is v.
Upd(g, f, n, v) ==
  DOMAIN g = DOMAIN f /\ (\A m \in DOMAIN f : m # n => g[m] = f[m]) /\ g[n] = v

\* An assignment to the element of one process.
LEMMA UpdParts ==
    ASSUME NEW f, NEW n \in DOMAIN f, NEW v, NEW g
    PROVE  /\ g = [f EXCEPT ![n] = v] => Upd(g, f, n, v)
           /\ g = f => Upd(g, f, n, f[n])
  <1> USE Zenon
  <1>1. Upd([f EXCEPT ![n] = v], f, n, v)
    BY DEF Upd
  <1>2. Upd(f, f, n, f[n])
    BY DEF Upd
  <1> QED  BY <1>1, <1>2

\* Variables that do not change, seen from process n.
LEMMA Same ==
    ASSUME RunInv, NEW n \in Nodes
    PROVE  /\ at' = at => Upd(at', at, n, at[n])
           /\ result' = result => Upd(result', result, n, result[n])
           /\ live' = live => Upd(live', live, n, live[n])
           /\ held' = held => Upd(held', held, n, held[n])
           /\ stage' = stage => Upd(stage', stage, n, stage[n])
           /\ sock' = sock => Upd(sock', sock, n, sock[n])
           /\ faults' = faults => Counted(faults, faults')
           /\ faults' = faults + 1 => Counted(faults, faults')
  <1> USE Zenon
  <1>1. /\ n \in DOMAIN at /\ n \in DOMAIN result /\ n \in DOMAIN live /\ n \in DOMAIN held
        /\ n \in DOMAIN stage /\ n \in DOMAIN sock /\ faults \in Nat
    BY DEF RunInv
  <1>2. (at' = at => Upd(at', at, n, at[n])) /\ (result' = result => Upd(result', result, n, result[n]))
    BY <1>1, UpdParts
  <1>3. (live' = live => Upd(live', live, n, live[n])) /\ (held' = held => Upd(held', held, n, held[n]))
    BY <1>1, UpdParts
  <1>4. (stage' = stage => Upd(stage', stage, n, stage[n])) /\ (sock' = sock => Upd(sock', sock, n, sock[n]))
    BY <1>1, UpdParts
  <1> QED  BY <1>1, <1>2, <1>3, <1>4 DEF Counted

\* Variables that change for process n.
LEMMA Changed ==
    ASSUME RunInv, NEW n \in Nodes, NEW v
    PROVE  /\ at' = [at EXCEPT ![n] = v] => Upd(at', at, n, v)
           /\ result' = [result EXCEPT ![n] = v] => Upd(result', result, n, v)
           /\ live' = [live EXCEPT ![n] = v] => Upd(live', live, n, v)
           /\ held' = [held EXCEPT ![n] = v] => Upd(held', held, n, v)
           /\ stage' = [stage EXCEPT ![n] = v] => Upd(stage', stage, n, v)
           /\ sock' = [sock EXCEPT ![n] = v] => Upd(sock', sock, n, v)
  <1> USE Zenon
  <1>1. /\ n \in DOMAIN at /\ n \in DOMAIN result /\ n \in DOMAIN live /\ n \in DOMAIN held
        /\ n \in DOMAIN stage /\ n \in DOMAIN sock
    BY DEF RunInv
  <1>2. (at' = [at EXCEPT ![n] = v] => Upd(at', at, n, v))
        /\ (result' = [result EXCEPT ![n] = v] => Upd(result', result, n, v))
    BY <1>1, UpdParts
  <1>3. (live' = [live EXCEPT ![n] = v] => Upd(live', live, n, v))
        /\ (held' = [held EXCEPT ![n] = v] => Upd(held', held, n, v))
    BY <1>1, UpdParts
  <1>4. (stage' = [stage EXCEPT ![n] = v] => Upd(stage', stage, n, v))
        /\ (sock' = [sock EXCEPT ![n] = v] => Upd(sock', sock, n, v))
    BY <1>1, UpdParts
  <1> QED  BY <1>2, <1>3, <1>4

\* A further failing call takes no excuse away.
LEMMA LooseStays ==
    ASSUME NEW c, NEW a, NEW r, NEW F, NEW F2, Counted(F, F2), NEW x, Loose(c, a, r, F, x)
    PROVE  Loose(c, a, r, F2, x)
  <1>1. F > 0 => F2 > 0
    BY DEF Counted
  <1> QED  BY Zenon, <1>1 DEF Loose

\* The core of the invariant survives a failing call.
LEMMA CoreStays ==
    ASSUME NEW c, NEW a, NEW r, NEW L, NEW H, NEW F, Core(c, a, r, L, H, F),
           NEW F2, Counted(F, F2)
    PROVE  Core(c, a, r, L, H, F2)
  BY Zenon, LooseStays DEF Core, Kept

\* So does the invariant of a process that does not move.
LEMMA GoodStays ==
    ASSUME NEW c, NEW a, NEW r, NEW L, NEW H, NEW F, NEW st, NEW sk,
           Good(c, a, r, L, H, F, st, sk), NEW F2, Counted(F, F2),
           NEW sk2, sk2 = sk \/ sk2 # "closed"
    PROVE  Good(c, a, r, L, H, F2, st, sk2)
  <1> USE Zenon
  <1>1. Core(c, a, r, L, H, F2)
    BY CoreStays DEF Good
  <1>2. Control(c, a, r, L, H, st, sk2)
    BY DEF Good, Control
  <1> QED  BY <1>1, <1>2 DEF Good

\* The values of process n become these, and those of the others stay.
Moves(n, a, r, L, H, st, sk) ==
  /\ config_' = config_ /\ Counted(faults, faults')
  /\ Upd(at', at, n, a) /\ Upd(result', result, n, r)
  /\ Upd(live', live, n, L) /\ Upd(held', held, n, H)
  /\ Upd(stage', stage, n, st) /\ Upd(sock', sock, n, sk)

\* The faults stay a number.
LEMMA CountedNat ==
    ASSUME NEW F, NEW F2, Counted(F, F2)
    PROVE  F2 \in Nat
  BY DEF Counted

\* A step of process n keeps the invariant if it keeps that of n.
LEMMA NodeStep ==
    ASSUME RunInv, NEW n \in Nodes, NEW a, NEW r, NEW L, NEW H, NEW st, NEW sk,
           Moves(n, a, r, L, H, st, sk), Good(config_[n], a, r, L, H, faults', st, sk)
    PROVE  RunInv'
  <1> USE Zenon
  <1>1. /\ DOMAIN at' = Nodes /\ DOMAIN result' = Nodes /\ DOMAIN live' = Nodes
        /\ DOMAIN held' = Nodes /\ DOMAIN stage' = Nodes /\ DOMAIN sock' = Nodes
    BY DEF RunInv, Moves, Upd
  <1>2. config_' \in [Nodes -> BackendConfigs] /\ faults' \in Nat
    BY CountedNat DEF RunInv, Moves
  <1>3. ASSUME NEW m \in Nodes, m # n PROVE Ready(m)'
    <2>1. /\ at'[m] = at[m] /\ result'[m] = result[m] /\ live'[m] = live[m]
          /\ held'[m] = held[m] /\ stage'[m] = stage[m] /\ sock'[m] = sock[m]
          /\ config_'[m] = config_[m]
      BY <1>3 DEF RunInv, Moves, Upd
    <2>2. Ready(m) /\ Counted(faults, faults')
      BY DEF RunInv, Moves
    <2>3. Good(config_[m], at[m], result[m], live[m], held[m], faults', stage[m], sock[m])
      BY <2>2, GoodStays DEF Ready
    <2> QED  BY <2>1, <2>3 DEF Ready
  <1>4. Ready(n)'
    <2>1. /\ at'[n] = a /\ result'[n] = r /\ live'[n] = L /\ held'[n] = H
          /\ stage'[n] = st /\ sock'[n] = sk /\ config_'[n] = config_[n]
      BY DEF Moves, Upd
    <2> QED  BY <2>1 DEF Ready
  <1> QED  BY <1>1, <1>2, <1>3, <1>4 DEF RunInv

\* Steps that the invariant does not speak of.
LEMMA RunSame ==
    ASSUME RunInv, UNCHANGED <<config_, at, result, live, held, faults, stage, sock>>
    PROVE  RunInv'
  BY Zenon DEF RunInv, Ready

-----------------------------------------------------------------------------
(* The initial states.                                                     *)

InQueues(c, a) == a - 3 \in DOMAIN CreateQueues(c)

\* Where the parts of init() begin and end.
LEMMA ScriptSizes ==
    ASSUME NEW c
    PROVE  /\ Len(CreateQueues(c)) \in Nat /\ Len(LateScript(c)) \in Nat
           /\ DOMAIN CreateQueues(c) = 1 .. Len(CreateQueues(c))
           /\ DOMAIN LateScript(c) = 1 .. Len(LateScript(c))
           /\ CheckAt(c) = Len(CreateQueues(c)) + 4 /\ CheckAt(c) \in Nat /\ CheckAt(c) >= 4
           /\ Len(InitScript(c)) = CheckAt(c) + Len(LateScript(c))
  <1>1. /\ Len(CreateQueues(c)) \in Nat /\ Len(LateScript(c)) \in Nat
        /\ DOMAIN CreateQueues(c) = 1 .. Len(CreateQueues(c))
        /\ DOMAIN LateScript(c) = 1 .. Len(LateScript(c))
        /\ Len(InitScript(c)) = (Len(CreateQueues(c)) + 4) + Len(LateScript(c))
    BY Zenon, ScriptParts DEF IsScript
  <1> QED  BY <1>1 DEF CheckAt

InLate(c, a) == a - CheckAt(c) \in DOMAIN LateScript(c)

\* A step is in create_queues before CheckQp and in the rest after it.
LEMMA ZoneBounds ==
    ASSUME NEW c, NEW a \in Nat \ {0}
    PROVE  /\ InQueues(c, a) => /\ a >= 4 /\ a < CheckAt(c) /\ a - 3 \in Nat \ {0}
                                /\ a - 3 <= Len(CreateQueues(c))
           /\ InLate(c, a) => /\ a > CheckAt(c) /\ a <= CheckAt(c) + Len(LateScript(c))
                              /\ a - CheckAt(c) \in Nat \ {0}
           /\ a >= 4 /\ a < CheckAt(c) => InQueues(c, a)
           /\ a > CheckAt(c) /\ a <= CheckAt(c) + Len(LateScript(c)) => InLate(c, a)
  <1>1. /\ Len(CreateQueues(c)) \in Nat /\ Len(LateScript(c)) \in Nat
        /\ DOMAIN CreateQueues(c) = 1 .. Len(CreateQueues(c))
        /\ DOMAIN LateScript(c) = 1 .. Len(LateScript(c))
        /\ CheckAt(c) = Len(CreateQueues(c)) + 4 /\ CheckAt(c) \in Nat
    BY Zenon, ScriptSizes
  <1> QED  BY <1>1 DEF InQueues, InLate

\* What nothing stands on.
LEMMA NeedsTargets ==
    ASSUME NEW c, NEW d \in Needs(c)
    PROVE  /\ d[2] \notin Smoke \cup {"gpu qp", "buf", "counters"}
           /\ d[2] = "db attr" => d[1] = "dbr reg"
           /\ d[1] \notin {"dv lib", "db region", "context", "buf", "counters"} 
                        \cup Umems \cup Dmabufs \cup Bridge
           /\ d[1] = "pd" => d[2] = "context"
           /\ d[1] = "mr" => d[2] = "pd" \/ (OpenDvLibs(c) = "ionic" /\ d[2] = "pd parent")
  <1> USE Zenon
  <1>1. CASE CommonNeeds(d)
    BY <1>1 DEF CommonNeeds, PairIs, Smoke, Umems, Dmabufs, Bridge
  <1>2. CASE OpenDvLibs(c) = "bnxt" /\ BnxtNeeds(d)
    BY <1>2 DEF BnxtNeeds, PairIs, Smoke, Umems, Dmabufs, Bridge
  <1>3. CASE OpenDvLibs(c) = "ernic" /\ ErnicNeeds(d)
    BY <1>3 DEF ErnicNeeds, PairIs, Smoke, Umems, Dmabufs, Bridge
  <1>4. CASE OpenDvLibs(c) = "mlx5" /\ Mlx5Needs(d)
    BY <1>4 DEF Mlx5Needs, PairIs, Smoke, Umems, Dmabufs, Bridge
  <1>5. CASE OpenDvLibs(c) = "ionic" /\ IonicNeeds(d)
    BY <1>5 DEF IonicNeeds, PairIs, Smoke, Umems, Dmabufs, Bridge
  <1>6. CASE OpenDvLibs(c) = "none" /\ NoneNeeds(d)
    BY <1>6 DEF NoneNeeds, PairIs, Smoke, Umems, Dmabufs, Bridge
  <1> QED  BY <1>1, <1>2, <1>3, <1>4, <1>5, <1>6, NeedsAre

\* A Backend that was built but not initialised.
LEMMA RunInvInit == InitRun => RunInv
  \* init() starts in open_ib_device.
  <1>AtOne.
      ASSUME NEW c
      PROVE  /\ ~(1 >= 2) /\ ~(1 >= 3) /\ ~(1 >= 4) /\ ~(1 > CheckAt(c)) /\ 1 \in Nat \ {0}
             /\ 1 <= (CheckAt(c) + Len(LateScript(c))) + 1
    <2>1. CheckAt(c) \in Nat /\ CheckAt(c) >= 4 /\ Len(LateScript(c)) \in Nat
      BY Zenon, ScriptSizes
    <2> QED  BY <2>1

  \* A new Backend holds its vendor library and nothing else.
  <1>GoodInitial.
      ASSUME NEW c, NEW L, L \subseteq {"dv lib"}, NEW F, NEW st \in {"init", "done"}
      PROVE  Good(c, 1, "running", L, {}, F, st, "none")
    <2> USE Zenon, <1>GoodInitial
    <2>1. Core(c, 1, "running", L, {}, F)
      <3>1. Shape(c, L, {})
        BY DEF Shape, Unkept
      <3>2. Kept(c, 1, "running", L, {}, F)
        BY DEF Kept, Loose, Unkept
      <3>3. Backed(c, L)
        BY NeedsTargets DEF Backed
      <3> QED  BY <3>1, <3>2, <3>3 DEF Core, HeldIn, SmokeIn
    <2>3. /\ ~(1 >= 2) /\ ~(1 >= 3) /\ ~(1 >= 4) /\ ~(1 > CheckAt(c)) /\ 1 \in Nat \ {0}
          /\ 1 <= (CheckAt(c) + Len(LateScript(c))) + 1
      BY <1>AtOne
    <2>4. Built(c, 1, L, {})
      BY <2>3 DEF Built
    <2>5. FnDone(c, 1, L, {})
      <3>1. ~InQueues(c, 1)
        BY <2>3, ZoneBounds
      <3> QED  BY <3>1 DEF FnDone, InQueues
    <2>6. Runs(c, 1, L, {})
      BY <2>3, <2>5 DEF Runs
    <2>7. Control(c, 1, "running", L, {}, st, "none")
      BY <2>4, <2>6 DEF Control, Left
    <2> QED  BY <2>1, <2>3, <2>7 DEF Good

  <1> SUFFICES ASSUME InitRun
               PROVE  RunInv
    OBVIOUS
  <1>1. /\ config_ \in [Nodes -> BackendConfigs] /\ faults = 0
        /\ at = [n \in Nodes |-> 1] /\ result = [n \in Nodes |-> "running"]
        /\ held = [n \in Nodes |-> {}] /\ sock = [n \in Nodes |-> "none"]
        /\ live = [n \in Nodes |-> IF ProviderOf[config_[n]] = "none" THEN {} ELSE {"dv lib"}]
    BY Zenon DEF InitRun, InitBackend
  <1>2. stage = [n \in Nodes |-> IF n = Server /\ config_[n].loopback THEN "done" ELSE "init"]
    BY Zenon DEF InitRun
  <1>3. ASSUME NEW n \in Nodes PROVE Ready(n)
    <2>1. at[n] = 1 /\ result[n] = "running" /\ held[n] = {} /\ sock[n] = "none"
      BY Zenon, <1>1
    <2>2. live[n] \subseteq {"dv lib"}
      BY Zenon, <1>1
    <2>3. stage[n] \in {"init", "done"}
      BY Zenon, <1>2
    <2>4. Good(config_[n], 1, "running", live[n], {}, faults, stage[n], "none")
      BY Zenon, <2>2, <2>3, <1>GoodInitial
    <2> QED  BY Zenon, <2>1, <2>4 DEF Ready
  <1>4. faults \in Nat
    <2>1. 0 \in Nat
      OBVIOUS
    <2> QED  BY Zenon, <1>1, <2>1
  <1>5. /\ DOMAIN at = Nodes /\ DOMAIN result = Nodes /\ DOMAIN live = Nodes
        /\ DOMAIN held = Nodes /\ DOMAIN stage = Nodes /\ DOMAIN sock = Nodes
    BY Zenon, <1>1, <1>2
  <1> QED  BY Zenon, <1>1, <1>3, <1>4, <1>5 DEF RunInv

-----------------------------------------------------------------------------
(* run() starts, a process dies, shutdown() releases.                      *)

\* run() is left for the clean-up.
LEMMA NodeLeaves ==
    \A n \in Nodes :
      /\ RunInv
      /\ InRun(n)
      /\ stage' = [stage EXCEPT ![n] = "cleanup"]
      /\ UNCHANGED <<config_, at, result, live, held, sock>>
      /\ Counted(faults, faults')
      => RunInv'
  \* run() gives up: shutdown() finds what it would have found before.
  <1>GoodLeaves.
      ASSUME NEW c, NEW a, NEW r, NEW L, NEW H, NEW F, NEW sk,
             Good(c, a, r, L, H, F, "run", sk), r # "dead", NEW F2, Counted(F, F2)
      PROVE  Good(c, a, r, L, H, F2, "cleanup", sk)
    <2> USE Zenon, <1>GoodLeaves
    <2>1. Core(c, a, r, L, H, F2)
      BY CoreStays DEF Good
    <2>2. Control(c, a, r, L, H, "cleanup", sk)
      BY DEF Good, Control
    <2> QED  BY <2>1, <2>2 DEF Good

  <1> SUFFICES ASSUME RunInv, NEW n \in Nodes, InRun(n), stage' = [stage EXCEPT ![n] = "cleanup"],
                      UNCHANGED <<config_, at, result, live, held, sock>>, Counted(faults, faults')
               PROVE  RunInv'
    BY Zenon
  <1> USE Zenon
  <1>1. Good(config_[n], at[n], result[n], live[n], held[n], faults, "run", sock[n])
    BY NodeIs DEF InRun
  <1>2. Good(config_[n], at[n], result[n], live[n], held[n], faults', "cleanup", sock[n])
    BY <1>1, <1>GoodLeaves DEF InRun
  <1>3. Moves(n, at[n], result[n], live[n], held[n], "cleanup", sock[n])
    BY Same, Changed DEF Moves
  <1> QED  BY <1>2, <1>3, NodeStep

\* A process dies in init() or in run().
LEMMA NodeDies ==
    \A n \in Nodes :
      /\ RunInv
      /\ stage[n] \in {"init", "run"}
      /\ Die(n)
      /\ UNCHANGED <<config_, at, stage, sock>>
      /\ Counted(faults, faults')
      => RunInv'
  \* Nothing exists.
  <1>CoreEmpty.
      ASSUME NEW c, NEW a, NEW r, NEW F
      PROVE  Core(c, a, r, {}, {}, F)
    BY Zenon DEF Core, Shape, Kept, HeldIn, Backed, SmokeIn

  \* abort() leaves nothing to the process.
  <1>GoodDies.
      ASSUME NEW c, NEW a, NEW r, NEW L, NEW H, NEW F, NEW st \in {"init", "run"}, NEW sk,
             Good(c, a, r, L, H, F, st, sk), NEW F2
      PROVE  Good(c, a, "dead", {}, {}, F2, st, sk)
    <2> USE Zenon, <1>GoodDies
    <2>1. Core(c, a, "dead", {}, {}, F2)
      BY <1>CoreEmpty
    <2>2. Control(c, a, "dead", {}, {}, st, sk)
      BY DEF Good, Control
    <2> QED  BY <2>1, <2>2 DEF Good

  <1> SUFFICES ASSUME RunInv, NEW n \in Nodes, stage[n] \in {"init", "run"}, Die(n),
                      UNCHANGED <<config_, at, stage, sock>>, Counted(faults, faults')
               PROVE  RunInv'
    OBVIOUS
  <1> USE Zenon
  <1>1. Good(config_[n], at[n], result[n], live[n], held[n], faults, stage[n], sock[n])
    BY NodeIs
  <1>2. Good(config_[n], at[n], "dead", {}, {}, faults', stage[n], sock[n])
    BY <1>1, <1>GoodDies
  <1>3. Moves(n, at[n], "dead", {}, {}, stage[n], sock[n])
    BY Same, Changed DEF Moves, Die
  <1> QED  BY <1>2, <1>3, NodeStep

\* What the result of init() leads to.
LeadsTo(r, st) == r \in {"ok", "error"} /\ (st = "cleanup" \/ (st = "run" /\ r = "ok"))

\* run() goes on after init(), or cleans up at once.
LEMMA StartRunKeeps == \A n \in Nodes : RunInv /\ StartRun(n) => RunInv'
  \* What init() leaves is what run() and shutdown() need.
  <1>GoodStarts.
      ASSUME NEW c, NEW a, NEW r, NEW L, NEW H, NEW F, NEW sk,
             Good(c, a, r, L, H, F, "init", sk), NEW st, LeadsTo(r, st)
      PROVE  Good(c, a, r, L, H, F, st, sk)
    <2> USE Zenon, <1>GoodStarts
    <2>0. r \in {"ok", "error"} /\ (st = "cleanup" \/ (st = "run" /\ r = "ok"))
      BY DEF LeadsTo
    <2> USE <2>0
    <2>1. Control(c, a, r, L, H, st, sk)
      BY DEF Good, Control
    <2> QED  BY <2>1 DEF Good

  <1> SUFFICES ASSUME RunInv, NEW n \in Nodes, StartRun(n)
               PROVE  RunInv'
    OBVIOUS
  <1> USE Zenon
  <1>1. /\ Good(config_[n], at[n], result[n], live[n], held[n], faults, "init", sock[n])
        /\ faults' = faults
    BY NodeIs DEF StartRun, backendVars
  <1>2. PICK st : /\ stage' = [stage EXCEPT ![n] = st] /\ result[n] \in {"ok", "error"}
                  /\ st = "cleanup" \/ (st = "run" /\ result[n] = "ok")
    <2>1. CASE result[n] = "error" /\ Leave(n)
      BY <2>1 DEF Leave
    <2>2. CASE /\ result[n] = "ok"
               /\ stage' = [stage EXCEPT ![n] = IF "gpu qp" \in Fields(n) THEN "run" ELSE "cleanup"]
      <3>1. CASE "gpu qp" \in Fields(n)
        BY <2>2, <3>1
      <3>2. CASE "gpu qp" \notin Fields(n)
        BY <2>2, <3>2
      <3> QED  BY <3>1, <3>2
    <2> QED  BY <2>1, <2>2 DEF StartRun
  <1>3. Good(config_[n], at[n], result[n], live[n], held[n], faults', st, sock[n])
    <2>1. Good(config_[n], at[n], result[n], live[n], held[n], faults, st, sock[n])
      <3>1. LeadsTo(result[n], st)
        BY <1>2 DEF LeadsTo
      <3> QED  BY <1>1, <3>1, <1>GoodStarts
    <2> QED  BY <1>1, <2>1
  <1>4. UNCHANGED <<config_, at, result, live, held, faults, sock>>
    BY DEF StartRun, backendVars, tcp
  <1>5. Moves(n, at[n], result[n], live[n], held[n], st, sock[n])
    BY <1>2, <1>4, Same, Changed DEF Moves
  <1> QED  BY <1>3, <1>5, NodeStep

\* The kernel closes what a dead process had.
LEMMA ProcessDiesKeeps == \A n \in Nodes : RunInv /\ ProcessDies(n) => RunInv'
  \* A dead process is done.
  <1>GoodEnds.
      ASSUME NEW c, NEW a, NEW L, NEW H, NEW F, NEW st, NEW sk,
             Good(c, a, "dead", L, H, F, st, sk)
      PROVE  Good(c, a, "dead", L, H, F, "done", "closed")
    <2> USE <1>GoodEnds
    <2>1. Control(c, a, "dead", L, H, "done", "closed")
      BY Zenon DEF Good, Control, Left
    <2> QED  BY Zenon, <2>1 DEF Good

  <1> SUFFICES ASSUME RunInv, NEW n \in Nodes, ProcessDies(n)
               PROVE  RunInv'
    OBVIOUS
  <1> USE Zenon
  <1>1. /\ Good(config_[n], at[n], "dead", live[n], held[n], faults, stage[n], sock[n])
        /\ faults' = faults
    BY NodeIs DEF ProcessDies, backendVars
  <1>2. Good(config_[n], at[n], "dead", live[n], held[n], faults', "done", "closed")
    BY <1>1, <1>GoodEnds
  <1>3. UNCHANGED <<config_, at, result, live, held, faults>> /\ result[n] = "dead"
    BY DEF ProcessDies, backendVars
  <1>4. Moves(n, at[n], "dead", live[n], held[n], "done", "closed")
    BY <1>3, Same, Changed DEF Moves, ProcessDies
  <1> QED  BY <1>2, <1>4, NodeStep

\* A process dies in modify_qp or in its kernel.
LEMMA DeathKeeps ==
    ASSUME RunInv, NEW n \in Nodes, KernelFaults(n) \/ ConnectAborts(n)
    PROVE  RunInv'
  <1> USE Zenon
  <1>1. stage[n] \in {"init", "run"} /\ Die(n)
    BY DEF KernelFaults, ConnectAborts, At, InRun
  <1>2. UNCHANGED <<config_, at, stage, sock>>
    BY DEF KernelFaults, ConnectAborts, runVars, ctl, tcp
  <1>3. faults' = faults \/ faults' = faults + 1
    BY DEF KernelFaults, ConnectAborts
  <1> QED  BY <1>1, <1>2, <1>3, Same, NodeDies

\* The fields that stay when those of N are nulled.
Without(H, N) == {x \in H : x[1] \notin N}

\* The fields that are nulled with f.
NulledWith(c, f) ==
  IF f = "scq cq" /\ OpenDvLibs(c) = "bnxt" THEN {"scq cq", "cq_"}
  ELSE IF f = "host qp" THEN {"host qp", "device view"} ELSE {f}

\* The places of the order whose field is not null.
Pending(o, H) == {i \in DOMAIN o : \E y \in H : y[1] = o[i]}

\* The names that are fields only.
LEMMA NamesOfKnown ==
    ASSUME NEW p
    PROVE  "device view" \notin KnownOf(p) /\ (TwoNames(p) => "cq_" \notin KnownOf(p))
           /\ "dv lib" \notin KnownOf(p)
  <1>1. \A x \in KnownOf(p) :
          \/ x \in {"context", "pd", "qp", "host qp", "gpu qp", "mr", "buf", "counters"}
          \/ x \in CqNames \cup QpNames \cup {"db attr", "dbr reg", "uar reg"}
          \/ p \in {"mlx5", "ionic"} /\ x \in {"cq_", "smoke buf", "smoke mr", "sq reg", "cq reg",
                         "sq dbr", "cq dbr", "bf reg", "pd parent", "db page"}
          \/ ~TwoNames(p) /\ x = "cq_"
    BY DEF KnownOf, TwoNames
  <1> QED  BY Zenon, <1>1 DEF CqNames, QpNames, TwoNames

\* The resources the field f names.
Named(H, f) == {y[2] : y \in {z \in H : z[1] = f}}

\* A field is not null if it names something.
LEMMA FieldIs ==
    ASSUME NEW n, NEW x
    PROVE  x \in Fields(n) <=> \E y \in held[n] : y[1] = x
  BY Zenon DEF Fields

\* shutdown() releases the first field of its order that is not null, or returns.
LEMMA ShutdownKeeps == \A n \in Nodes : RunInv /\ Shutdown(n) => RunInv'
  \* The resource that is released has no user left: all of them come earlier in
  \* the order, and their fields are null. Both names of the send CQ are cleared.
  <1>CoreReleaseNext.
      ASSUME NEW c, NEW a, NEW r, NEW L, NEW H, NEW F, Core(c, a, r, L, H, F),
             NEW o, o = ShutdownOrder(c), Pending(o, H) # {},
             NEW f, f = o[First(Pending(o, H))]
      PROVE  Core(c, a, r, L \ Named(H, f), Without(H, NulledWith(c, f)), F)
    <2> USE <1>CoreReleaseNext
    <2> DEFINE T == Pending(o, H)
               N == NulledWith(c, f)
               R == Named(H, f)
               H2 == Without(H, N)
               p == OpenDvLibs(c)
    <2> USE DEF Named
    <2>0. OrderFacts(c, o)
      BY Zenon, OrderOk
    <2>1. PICK i : i = First(T)
      BY Zenon
    <2>2. i \in T /\ \A j \in T : i <= j
      <3>1. T \in SUBSET Nat
        BY Zenon, <2>0 DEF OrderFacts, Pending
      <3>2. T # {}
        BY Zenon
      <3> HIDE DEF T
      <3> QED  BY Zenon, <2>1, <3>1, <3>2, FirstIsLeast
    <2>3. i \in DOMAIN o /\ o[i] = f /\ i \in Nat
      BY Zenon, <2>0, <2>1, <2>2 DEF Pending, OrderFacts
    <2>4. ASSUME NEW y, Earlier(o, i, y[1]), y \in H PROVE FALSE
      <3>1. PICK j \in DOMAIN o : j < i /\ o[j] = y[1]
        BY Zenon, <2>4 DEF Earlier
      <3>2. j \in T
        BY Zenon, <2>4, <3>1 DEF Pending
      <3>3. i <= j /\ j \in Nat
        BY Zenon, <2>0, <2>2, <3>1, <3>2 DEF OrderFacts
      <3> QED  BY <2>3, <3>1, <3>3
    <2>5. \A x : <<x, x>>[1] = x /\ <<x, x>>[2] = x
      OBVIOUS
    <2>6. ScqAlias[1] = "cq_" /\ ScqAlias[2] = "scq cq"
      BY DEF ScqAlias
    <2>7. ViewAlias[1] = "device view"
      BY DEF ViewAlias
    <2>8. ASSUME NEW y \in H
          PROVE  \/ y = ViewAlias \/ (TwoNames(p) /\ y = ScqAlias)
                 \/ \E x \in KnownOf(p) : PairIs(y, x, x)
      BY Zenon, PairParts DEF Core, Shape
    <2>9. f # "device view" /\ (f = "scq cq" => p = "bnxt")
      BY Zenon, <2>0, <2>3 DEF OrderFacts
    <2>10. ASSUME NEW y \in H, y[1] = f PROVE y[2] = f \/ (TwoNames(p) /\ y = ScqAlias)
      BY Zenon, <2>7, <2>8, <2>9, <2>10 DEF PairIs
    <2>11. ScqAlias \in H /\ f = "cq_" => p # "bnxt"
      <3>1. ASSUME ScqAlias \in H, f = "cq_", p = "bnxt" PROVE FALSE
        <4>1. Earlier(o, i, "scq cq")
          BY Zenon, <2>0, <2>3, <3>1 DEF OrderFacts
        <4>2. InOrder(c, "cq_")
          BY Zenon, <2>3, <3>1 DEF InOrder
        <4>3. "scq cq" \in L
          BY Zenon, <2>6, <3>1, <4>2 DEF Core, HeldIn
        <4>4. ~Loose(c, a, r, F, "scq cq")
          BY Zenon DEF Loose, Unkept, Umems, Dmabufs, Bridge
        <4>5. <<"scq cq", "scq cq">> \in H
          BY Zenon, <4>3, <4>4 DEF Core, Kept
        <4> QED  BY Zenon, <2>4, <2>5, <4>1, <4>5
      <3> QED  BY Zenon, <3>1
    <2>12. f \in N /\ \A x \in N : x = f \/ (x = "cq_" /\ p = "bnxt") \/ x = "device view"
      BY Zenon DEF NulledWith
    <2>13. Shape(c, L \ R, H2)
      BY Zenon DEF Core, Shape, Without
    <2>14. ASSUME NEW x \in L \ R PROVE <<x, x>> \in H2 \/ Loose(c, a, r, F, x)
      <3>1. <<x, x>> \in H \/ Loose(c, a, r, F, x)
        BY Zenon DEF Core, Kept
      <3>2. CASE <<x, x>> \in H
        <4>1. x # f
          BY Zenon, <2>5, <3>2
        <4>2. x \in KnownOf(p) \cup Unkept(p)
          BY Zenon DEF Core, Shape
        <4>3. x # "device view" /\ (p = "bnxt" => x # "cq_")
          BY Zenon, <4>2, NamesOfKnown DEF Unkept, Dmabufs, Bridge, TwoNames
        <4>4. x \notin N
          BY Zenon, <2>12, <4>1, <4>3
        <4> QED  BY Zenon, <2>5, <3>2, <4>4 DEF Without
      <3> QED  BY Zenon, <3>1, <3>2
    <2>15. ASSUME NEW y \in H2, InOrder(c, y[1]) PROVE y[2] \in L \ R
      <3>1. y \in H /\ y[1] \notin N /\ y[2] \in L
        BY Zenon, <2>15 DEF Core, HeldIn, Without
      <3>2. y[1] # f
        BY Zenon, <2>12, <3>1
      <3>3. PICK k \in DOMAIN o : o[k] = y[1]
        BY Zenon, <2>15 DEF InOrder
      <3>4. y[1] # "device view" /\ (y[1] = "scq cq" => p = "bnxt")
        BY Zenon, <2>0, <3>3 DEF OrderFacts
      <3>5. ASSUME NEW z \in H, z[1] = f, z[2] = y[2] PROVE FALSE
        <4>1. z[2] = f \/ (TwoNames(p) /\ z = ScqAlias)
          BY Zenon, <2>10, <3>5
        <4>2. y = ScqAlias \/ \E x \in KnownOf(p) : PairIs(y, x, x)
          BY Zenon, <2>7, <2>8, <3>1, <3>4
        <4>3. CASE z[2] = f
          <5>1. CASE y = ScqAlias
            <6>1. f = "scq cq" /\ p = "bnxt"
              BY Zenon, <2>6, <2>9, <3>5, <4>3, <5>1
            <6>2. "cq_" \in N
              BY Zenon, <6>1 DEF NulledWith
            <6> QED  BY Zenon, <2>6, <3>1, <5>1, <6>2
          <5>2. CASE \E x \in KnownOf(p) : PairIs(y, x, x)
            BY Zenon, <3>2, <3>5, <4>3, <5>2 DEF PairIs
          <5> QED  BY Zenon, <4>2, <5>1, <5>2
        <4>4. CASE z = ScqAlias
          <5>1. f = "cq_" /\ y[2] = "scq cq" /\ p # "bnxt"
            BY Zenon, <2>6, <2>11, <3>5, <4>4
          <5>2. CASE y = ScqAlias
            BY Zenon, <2>6, <3>2, <5>1, <5>2
          <5>3. CASE \E x \in KnownOf(p) : PairIs(y, x, x)
            BY Zenon, <3>4, <5>1, <5>3 DEF PairIs
          <5> QED  BY Zenon, <4>2, <5>2, <5>3
        <4> QED  BY Zenon, <4>1, <4>3, <4>4
      <3> QED  BY Zenon, <3>1, <3>5
    <2>16. ASSUME NEW d \in Needs(c), d[1] \in L \ R PROVE d[2] \in L \ R
      <3>1. d[2] \in L /\ d[1] \in L
        BY Zenon, <2>16 DEF Core, Backed
      <3>2. ~Loose(c, a, r, F, d[1])
        BY Zenon, NeedsTargets DEF Loose, Unkept
      <3>3. <<d[1], d[1]>> \in H
        BY Zenon, <3>1, <3>2 DEF Core, Kept
      <3>4. ~Earlier(o, i, d[1])
        BY Zenon, <2>4, <2>5, <3>3
      <3>5. d[2] # f
        BY Zenon, <2>0, <2>3, <3>4 DEF OrderFacts
      <3>6. ASSUME NEW z \in H, z[1] = f, z[2] = d[2] PROVE FALSE
        <4>1. TwoNames(p) /\ z = ScqAlias
          BY Zenon, <2>10, <3>5, <3>6
        <4>2. f = "cq_" /\ d[2] = "scq cq"
          BY Zenon, <2>6, <3>6, <4>1
        <4>3. d[1] = "qp"
          <5>1. CommonNeeds(d) \/ BnxtNeeds(d) \/ ErnicNeeds(d)
            BY Zenon, <4>1, NeedsAre DEF TwoNames
          <5> QED  BY Zenon, <4>2, <5>1 DEF CommonNeeds, BnxtNeeds, ErnicNeeds, PairIs
        <4>4. Earlier(o, i, "qp")
          BY Zenon, <2>0, <2>3, <4>1, <4>2 DEF OrderFacts
        <4> QED  BY Zenon, <3>4, <4>3, <4>4
      <3> QED  BY Zenon, <3>1, <3>6
    <2>17. SmokeIn(c, a, r, H2)
      BY Zenon DEF Core, SmokeIn, Without
    <2>18. HeldIn(c, L \ R, H2) /\ Kept(c, a, r, L \ R, H2, F) /\ Backed(c, L \ R)
      BY Zenon, <2>14, <2>15, <2>16 DEF HeldIn, Kept, Backed
    <2> QED  BY Zenon, <2>13, <2>17, <2>18 DEF Core

  \* The same, of the whole invariant.
  <1>GoodReleaseNext.
      ASSUME NEW c, NEW a, NEW r, NEW L, NEW H, NEW F, NEW sk,
             Good(c, a, r, L, H, F, "cleanup", sk),
             NEW o, o = ShutdownOrder(c), Pending(o, H) # {},
             NEW f, f = o[First(Pending(o, H))], NEW L2, L2 = L \ Named(H, f)
      PROVE  Good(c, a, r, L2, Without(H, NulledWith(c, f)), F, "cleanup", sk)
    <2> USE Zenon, <1>GoodReleaseNext
    <2> DEFINE H2 == Without(H, NulledWith(c, f))
    <2>1. Core(c, a, r, L2, H2, F)
      BY <1>CoreReleaseNext DEF Good
    <2>2. H2 \subseteq H
      BY DEF Without
    <2> HIDE DEF H2
    <2>3. Control(c, a, r, L2, H2, "cleanup", sk)
      BY <2>2 DEF Good, Control
    <2>4. Good(c, a, r, L2, H2, F, "cleanup", sk)
      BY <2>1, <2>3 DEF Good
    <2> QED  BY <2>4 DEF H2

  \* When every field of the order is null, only what has no field is left.
  <1>GoodDone.
      ASSUME NEW c, NEW a, NEW r, NEW L, NEW H, NEW F,
             Good(c, a, r, L, H, F, "cleanup", "closed"),
             Pending(ShutdownOrder(c), H) = {}, \A y \in H : y[1] # "buf"
      PROVE  Good(c, a, r, L, H, F, "done", "closed")
    <2> USE Zenon, <1>GoodDone
    <2>1. ASSUME NEW x \in H PROVE ~InOrder(c, x[1]) /\ x[1] \notin {"buf", "counters"}
      <3>1. ~InOrder(c, x[1])
        BY DEF InOrder, Pending
      <3>2. \/ x = ViewAlias \/ x = ScqAlias \/ \E y : x = <<y, y>>
        BY DEF Good, Core, Shape
      <3>3. x # <<"counters", "counters">>
        BY DEF Good, Control
      <3>4. x[1] # "counters"
        <4>1. CASE x = ViewAlias
          <5>1. PairIs(x, "device view", "host qp")
            BY <4>1, PairParts DEF ViewAlias
          <5> QED  BY <5>1 DEF PairIs
        <4>2. CASE x = ScqAlias
          <5>1. PairIs(x, "cq_", "scq cq")
            BY <4>2, PairParts DEF ScqAlias
          <5> QED  BY <5>1 DEF PairIs
        <4>3. ASSUME NEW y, x = <<y, y>> PROVE x[1] # "counters"
          <5>1. PairIs(x, y, y)
            BY <4>3, PairParts
          <5> QED  BY <3>3, <4>3, <5>1 DEF PairIs
        <4> QED  BY <3>2, <4>1, <4>2, <4>3
      <3> QED  BY <3>1, <3>4
    <2>2. Left(c, r, L, H)
      BY <2>1 DEF Good, Control, Left
    <2>3. Control(c, a, r, L, H, "done", "closed")
      BY <2>2 DEF Good, Control
    <2> QED  BY <2>3 DEF Good

  \* The fields that are still to be released.
  <1>PendingIs.
      ASSUME RunInv, NEW n \in Nodes
      PROVE  /\ ToRelease(n) = Pending(ShutdownOrder(config_[n]), held[n])
             /\ \A f : Nulled(config_[n], f) = NulledWith(config_[n], f)
    <2> USE <1>PendingIs
    <2>1. OrderOf[config_[n]] = ShutdownOrder(config_[n])
      BY Zenon, NodeIs
    <2>2. ProviderOf[config_[n]] = OpenDvLibs(config_[n])
      BY Zenon, NodeIs
    <2>3. ToRelease(n) = Pending(ShutdownOrder(config_[n]), held[n])
      BY Zenon, <2>1, FieldIs DEF ToRelease, Pending
    <2>4. ASSUME NEW f PROVE Nulled(config_[n], f) = NulledWith(config_[n], f)
      BY <2>2 DEF Nulled, NulledWith
    <2> QED  BY Zenon, <2>3, <2>4

  <1> SUFFICES ASSUME RunInv, NEW n \in Nodes, Shutdown(n)
               PROVE  RunInv'
    OBVIOUS
  <1> USE Zenon
  <1>1. Good(config_[n], at[n], result[n], live[n], held[n], faults, "cleanup", "closed")
    BY NodeIs DEF Shutdown
  <1>2. sock' = sock /\ sock[n] = "closed" /\ stage[n] = "cleanup"
    BY DEF Shutdown, tcp
  <1>3. PICK o : o = ShutdownOrder(config_[n])
    OBVIOUS
  <1>4. ToRelease(n) = Pending(o, held[n]) /\ OrderOf[config_[n]] = o
    BY <1>3, <1>PendingIs, NodeIs
  <1>5. CASE ReleaseNext(n) /\ UNCHANGED stage
    <2>1. PICK f : f = o[First(Pending(o, held[n]))]
      OBVIOUS
    <2>2. Pending(o, held[n]) # {} /\ UNCHANGED <<config_, at, result, faults>>
      BY <1>4, <1>5 DEF ReleaseNext
    <2>3. PICK L2 : L2 = live[n] \ Named(held[n], f)
      OBVIOUS
    <2>4. PICK H2 : H2 = Without(held[n], NulledWith(config_[n], f))
      OBVIOUS
    <2>5. Good(config_[n], at[n], result[n], L2, H2, faults, "cleanup", "closed")
      BY <1>1, <1>3, <2>1, <2>2, <2>3, <2>4, <1>GoodReleaseNext
    <2>6. live' = [live EXCEPT ![n] = L2]
      <3>1. live' = [live EXCEPT ![n] = live[n] \ {y[2] : y \in {z \in held[n] : z[1] = f}}]
        BY <1>4, <1>5, <2>1 DEF ReleaseNext
      <3> QED  BY <2>3, <3>1 DEF Named
    <2>7. held' = [held EXCEPT ![n] = H2]
      <3>1. held' = [held EXCEPT ![n] = {y \in held[n] : y[1] \notin Nulled(config_[n], f)}]
        BY <1>4, <1>5, <2>1 DEF ReleaseNext
      <3>2. Nulled(config_[n], f) = NulledWith(config_[n], f)
        BY <1>PendingIs
      <3> QED  BY <2>4, <3>1, <3>2 DEF Without
    <2>8. Moves(n, at[n], result[n], L2, H2, "cleanup", "closed")
      BY <1>2, <1>5, <2>2, <2>6, <2>7, Same, Changed DEF Moves
    <2>9. faults' = faults
      BY <2>2
    <2> QED  BY <2>5, <2>8, <2>9, NodeStep
  <1>6. CASE /\ ToRelease(n) = {}
             /\ stage' = [stage EXCEPT ![n] = "done"]
             /\ UNCHANGED backendVars
    <2>1. \A y \in held[n] : y[1] # "buf"
      BY FieldIs DEF Shutdown
    <2>2. Good(config_[n], at[n], result[n], live[n], held[n], faults, "done", "closed")
      <3>1. Pending(ShutdownOrder(config_[n]), held[n]) = {}
        BY <1>3, <1>4, <1>6
      <3> QED  BY <1>1, <2>1, <3>1, <1>GoodDone
    <2>3. UNCHANGED <<config_, at, result, live, held, faults>>
      BY <1>6 DEF backendVars
    <2>4. Moves(n, at[n], result[n], live[n], held[n], "done", "closed")
      BY <1>2, <1>6, <2>3, Same, Changed DEF Moves
    <2>5. faults' = faults
      BY <2>3
    <2> QED  BY <2>2, <2>4, <2>5, NodeStep
  <1> QED  BY <1>5, <1>6 DEF Shutdown

-----------------------------------------------------------------------------
(* The steps of run().                                                     *)

\* The TCP connection.
LEMMA TcpKeeps ==
    ASSUME RunInv, NEW n \in Nodes, TcpListen(n) \/ TcpConnect(n)
    PROVE  RunInv'
  <1>1. UNCHANGED <<config_, at, result, live, held, faults, stage>>
    BY Zenon DEF TcpListen, TcpConnect, backendVars, ctl
  <1>2. /\ DOMAIN sock' = Nodes
        /\ \A m \in Nodes : sock'[m] = sock[m] \/ sock'[m] # "closed"
    <2>1. CASE TcpListen(n)
      <3>1. sock' = [sock EXCEPT ![n] = "listen"]
        BY Zenon, <2>1 DEF TcpListen
      <3>2. Upd(sock', sock, n, "listen") /\ DOMAIN sock = Nodes
        BY Zenon, <3>1, Changed DEF RunInv
      <3>3. "listen" # "closed"
        OBVIOUS
      <3> QED  BY Zenon, <3>2, <3>3 DEF Upd
    <2>2. CASE TcpConnect(n)
      <3>1. sock' = [m \in Nodes |-> "open"]
        BY Zenon, <2>2 DEF TcpConnect
      <3>2. "open" # "closed"
        OBVIOUS
      <3> QED  BY Zenon, <3>1, <3>2
    <2> QED  BY Zenon, <2>1, <2>2
  <1>3. ASSUME NEW m \in Nodes PROVE Ready(m)'
    <2>1. Good(config_[m], at[m], result[m], live[m], held[m], faults, stage[m], sock[m])
      BY Zenon, NodeIs
    <2>2. Counted(faults, faults)
      BY Zenon DEF RunInv, Counted
    <2>3. Good(config_[m], at[m], result[m], live[m], held[m], faults, stage[m], sock'[m])
      BY Zenon, <1>2, <2>1, <2>2, GoodStays
    <2> QED  BY Zenon, <1>1, <2>3 DEF Ready
  <1> QED  BY Zenon, <1>1, <1>2, <1>3 DEF RunInv

\* Actions that change nothing the invariant speaks of.
LEMMA QuietKeeps ==
    ASSUME RunInv, NEW n \in Nodes,
           \/ TcpSend(n) \/ TcpRecv(n) \/ ConnectToPeer(n) \/ SetRemoteRkey(n)
           \/ LaunchWrite(n) \/ WriteDone(n) \/ ResetPingPong(n) \/ LaunchPingPong(n)
           \/ PingPongPost(n) \/ PingPongQuiet(n) \/ PingPongSpin(n) \/ PlacePart(n)
    PROVE  RunInv'
  <1> USE Zenon
  <1> DEFINE Still == UNCHANGED <<config_, at, result, live, held, faults, stage, sock>>
  <1>1. CASE TcpSend(n) \/ TcpRecv(n)
    <2>1. Still
      BY <1>1 DEF TcpSend, TcpRecv, backendVars
    <2> QED  BY <2>1, RunSame
  <1>2. CASE ConnectToPeer(n) \/ SetRemoteRkey(n)
    <2>1. Still
      BY <1>2 DEF ConnectToPeer, SetRemoteRkey, backendVars, tcp
    <2> QED  BY <2>1, RunSame
  <1>3. CASE LaunchWrite(n) \/ WriteDone(n)
    <2>1. Still
      BY <1>3 DEF LaunchWrite, WriteDone, backendVars, tcp
    <2> QED  BY <2>1, RunSame
  <1>4. CASE ResetPingPong(n) \/ LaunchPingPong(n)
    <2>1. Still
      BY <1>4 DEF ResetPingPong, LaunchPingPong, backendVars, tcp
    <2> QED  BY <2>1, RunSame
  <1>5. CASE PingPongPost(n) \/ PlacePart(n)
    <2>1. Still
      BY <1>5 DEF PingPongPost, PlacePart, backendVars, ctl, tcp
    <2> QED  BY <2>1, RunSame
  <1>6. CASE PingPongQuiet(n) \/ PingPongSpin(n)
    <2>1. Still
      BY <1>6 DEF PingPongQuiet, PingPongSpin, backendVars, ctl, tcp
    <2> QED  BY <2>1, RunSame
  <1> QED  BY <1>1, <1>2, <1>3, <1>4, <1>5, <1>6

\* Actions that may end run().
LEMMA LeavingKeeps ==
    ASSUME RunInv, NEW n \in Nodes,
           TcpBroken(n) \/ VerifyWrite(n) \/ Refuse(n) \/ CallFails(n) \/ EndRun(n)
    PROVE  RunInv'
  <1> USE Zenon
  <1> DEFINE Still == UNCHANGED <<config_, at, result, live, held, sock>>
  <1>1. /\ faults' = faults => Counted(faults, faults')
        /\ faults' = faults + 1 => Counted(faults, faults')
    BY Same
  <1>2. CASE TcpBroken(n)
    <2>1. Still /\ faults' = faults
      BY <1>2 DEF TcpBroken, backendVars, tcp
    <2>2. \/ InRun(n) /\ stage' = [stage EXCEPT ![n] = "cleanup"]
          \/ stage' = stage
      BY <1>2 DEF TcpBroken, At, Leave
    <2> QED  BY <1>1, <2>1, <2>2, NodeLeaves, RunSame
  <1>3. CASE VerifyWrite(n)
    <2>1. Still /\ faults' = faults
      BY <1>3 DEF VerifyWrite, backendVars, tcp
    <2>2. \/ InRun(n) /\ stage' = [stage EXCEPT ![n] = "cleanup"]
          \/ stage' = stage
      BY <1>3 DEF VerifyWrite, At, Leave
    <2> QED  BY <1>1, <2>1, <2>2, NodeLeaves, RunSame
  <1>4. CASE Refuse(n)
    <2>1. Still /\ faults' = faults
      BY <1>4 DEF Refuse, tcp
    <2>2. \/ InRun(n) /\ stage' = [stage EXCEPT ![n] = "cleanup"]
          \/ stage' = stage
      BY <1>4 DEF Refuse, Leave
    <2> QED  BY <1>1, <2>1, <2>2, NodeLeaves, RunSame
  <1>5. CASE CallFails(n)
    <2>1. Still /\ faults' = faults + 1
      BY <1>5 DEF CallFails, tcp
    <2>2. InRun(n) /\ stage' = [stage EXCEPT ![n] = "cleanup"]
      BY <1>5 DEF CallFails, Leave
    <2> QED  BY <1>1, <2>1, <2>2, NodeLeaves
  <1>6. CASE EndRun(n)
    <2>1. Still /\ faults' = faults
      BY <1>6 DEF EndRun, backendVars, tcp
    <2>2. InRun(n) /\ stage' = [stage EXCEPT ![n] = "cleanup"]
      BY <1>6 DEF EndRun
    <2> QED  BY <1>1, <2>1, <2>2, NodeLeaves
  <1> QED  BY <1>2, <1>3, <1>4, <1>5, <1>6

\* Acquiring G and assigning P keeps the core if G stands on what exists.
LEMMA CoreGrows ==
    ASSUME NEW c, NEW a, NEW r, NEW L, NEW H, NEW F, Core(c, a, r, L, H, F),
           NEW a2, NEW r2, NEW F2, NEW G, NEW P,
           Shape(c, G, P),
           \A x \in G : <<x, x>> \in P \/ Loose(c, a2, r2, F2, x),
           \A x \in L : Loose(c, a, r, F, x) => <<x, x>> \in P \/ Loose(c, a2, r2, F2, x),
           \A x \in P : InOrder(c, x[1]) => x[2] \in L \cup G,
           \A d \in Needs(c) : d[1] \in G => d[2] \in L \cup G,
           SmokeIn(c, a2, r2, H \cup P)
    PROVE  Core(c, a2, r2, L \cup G, H \cup P, F2)
  <1> USE Zenon
  <1>1. Shape(c, L \cup G, H \cup P)
    BY DEF Core, Shape
  <1>2. Kept(c, a2, r2, L \cup G, H \cup P, F2)
    BY DEF Core, Kept
  <1>3. HeldIn(c, L \cup G, H \cup P)
    BY DEF Core, HeldIn
  <1>4. Backed(c, L \cup G)
    BY DEF Core, Backed
  <1> QED  BY <1>1, <1>2, <1>3, <1>4 DEF Core

\* Giving up the names N, on which nothing that stays stands, keeps it too.
LEMMA CoreShrinks ==
    ASSUME NEW c, NEW a, NEW r, NEW L, NEW H, NEW F, Core(c, a, r, L, H, F),
           NEW a2, NEW r2, NEW F2, NEW N,
           "scq cq" \notin N, "host qp" \notin N,
           \A x \in L : Loose(c, a, r, F, x) => Loose(c, a2, r2, F2, x),
           \A d \in Needs(c) : d[2] \in N => d[1] \notin L,
           SmokeIn(c, a2, r2, Without(H, N))
    PROVE  Core(c, a2, r2, L \ N, Without(H, N), F2)
  <1> DEFINE H2 == Without(H, N)
  <1>1. Shape(c, L \ N, H2)
    BY Zenon DEF Core, Shape, Without
  <1>2. ASSUME NEW x \in H, x[1] \notin N PROVE x[2] \notin N
    <2>1. \/ x = ViewAlias \/ x = ScqAlias \/ \E y : x = <<y, y>>
      BY Zenon DEF Core, Shape
    <2>2. CASE x = ViewAlias
      <3>1. PairIs(x, "device view", "host qp")
        BY Zenon, <2>2, PairParts DEF ViewAlias
      <3> QED  BY Zenon, <3>1 DEF PairIs
    <2>3. CASE x = ScqAlias
      <3>1. PairIs(x, "cq_", "scq cq")
        BY Zenon, <2>3, PairParts DEF ScqAlias
      <3> QED  BY Zenon, <3>1 DEF PairIs
    <2>4. ASSUME NEW y, x = <<y, y>> PROVE x[2] \notin N
      <3>1. PairIs(x, y, y)
        BY Zenon, <2>4, PairParts
      <3> QED  BY Zenon, <1>2, <3>1 DEF PairIs
    <2> QED  BY Zenon, <2>1, <2>2, <2>3, <2>4
  <1>3. HeldIn(c, L \ N, H2)
    BY Zenon, <1>2 DEF Core, HeldIn, Without
  <1>4. ASSUME NEW x \in L \ N PROVE <<x, x>> \in H2 \/ Loose(c, a2, r2, F2, x)
    <2>1. <<x, x>>[1] = x
      OBVIOUS
    <2>2. <<x, x>> \in H \/ Loose(c, a, r, F, x)
      BY Zenon DEF Core, Kept
    <2> QED  BY Zenon, <2>1, <2>2 DEF Without
  <1>5. Backed(c, L \ N)
    BY Zenon DEF Core, Backed
  <1> QED  BY Zenon, <1>1, <1>3, <1>4, <1>5 DEF Core, Kept

\* The resources every provider has.
LEMMA KnownRun ==
    ASSUME NEW p
    PROVE  {"context", "pd", "qp", "mr", "buf", "counters"} \subseteq KnownOf(p)
  BY DEF KnownOf

\* run() acquires its buffer, its registration or its counters.
Takes(x, st) == x \in {"buf", "mr", "counters"} /\ st \in {"run", "cleanup"}

\* Freeing the buffer or the counters.
Frees(x, st, r, sk, sk2) ==
  /\ x \in {"buf", "counters"}
  /\ \/ st = "run" /\ r # "dead" /\ sk2 = sk
     \/ st = "cleanup" /\ (sk2 = sk \/ x = "counters")

\* Actions that acquire or free a buffer.
LEMMA BufferKeeps ==
    \A n \in Nodes :
      /\ RunInv
      /\ \/ AllocBuffer(n) \/ RegisterDataBuffer(n) \/ AllocCounters(n) \/ RegisterCopyFails(n)
         \/ CheckErrors(n) \/ CloseSocket(n) \/ FreeBuffer(n)
      => RunInv'
  \* The buffer, its registration and the counters.
  <1>GoodAcquires.
      ASSUME NEW c, NEW a, NEW r, NEW L, NEW H, NEW F, NEW sk,
             Good(c, a, r, L, H, F, "run", sk), r # "dead", NEW F2, Counted(F, F2),
             NEW x, NEW st, Takes(x, st)
      PROVE  Good(c, a, r, L \cup {x}, H \cup {<<x, x>>}, F2, st, sk)
    <2> USE <1>GoodAcquires
    <2>0. x \in {"buf", "mr", "counters"} /\ st \in {"run", "cleanup"}
      BY Zenon DEF Takes
    <2> USE <2>0
    <2>1. r = "ok" /\ Core(c, a, r, L, H, F) /\ Control(c, a, r, L, H, "run", sk)
      BY Zenon DEF Good, Control
    <2>2. a > CheckAt(c) /\ Built(c, a, L, H) /\ sk # "closed" /\ a \in Nat \ {0}
      BY Zenon, <2>1 DEF Control, Good
    <2>3. "qp" \in L /\ "pd" \in L
      <3>1. "qp" \in L
        BY Zenon, <2>2 DEF Built
      <3>2. a >= 3
        <4>1. CheckAt(c) \in Nat /\ CheckAt(c) >= 4
          BY Zenon, ScriptSizes
        <4> QED  BY <2>2, <4>1
      <3> QED  BY Zenon, <2>2, <3>1, <3>2 DEF Built
    <2>4. OpenDvLibs(c) = "ionic" => "pd parent" \in L
      <3>1. ASSUME OpenDvLibs(c) = "ionic" PROVE <<"qp", "pd parent">> \in Needs(c)
        BY <3>1 DEF Needs
      <3>2. <<"qp", "pd parent">>[1] = "qp" /\ <<"qp", "pd parent">>[2] = "pd parent"
        OBVIOUS
      <3> QED  BY Zenon, <2>1, <2>3, <3>1, <3>2 DEF Core, Backed
    <2>5. ASSUME NEW d \in Needs(c), d[1] = x PROVE d[2] \in L
      BY Zenon, <2>3, <2>4, <2>5, NeedsTargets
    <2>6. <<x, x>>[1] = x /\ <<x, x>>[2] = x
      OBVIOUS
    <2>7. Shape(c, {x}, {<<x, x>>})
      <3>1. x \in KnownOf(OpenDvLibs(c))
        BY Zenon, KnownRun
      <3> QED  BY Zenon, <3>1 DEF Shape
    <2>8. SmokeIn(c, a, r, H \cup {<<x, x>>})
      <3>1. ASSUME NEW y \in Smoke, <<y, y>> = <<x, x>> PROVE FALSE
        <4>1. y = x
          BY <3>1
        <4> QED  BY Zenon, <4>1 DEF Smoke
      <3> QED  BY Zenon, <2>1, <3>1 DEF Core, SmokeIn
    <2>9. Core(c, a, r, L \cup {x}, H \cup {<<x, x>>}, F2)
      <3>1. \A y \in L : Loose(c, a, r, F, y) => Loose(c, a, r, F2, y)
        BY Zenon, LooseStays
      <3>2. \A y \in {<<x, x>>} : InOrder(c, y[1]) => y[2] \in L \cup {x}
        BY Zenon, <2>6
      <3> QED  BY Zenon, <2>1, <2>5, <2>7, <2>8, <3>1, <3>2, CoreGrows
    <2>10. ScqAlias # <<x, x>>
      <3>1. PairIs(ScqAlias, "cq_", "scq cq")
        BY Zenon, PairParts DEF ScqAlias
      <3> QED  BY Zenon, <2>6, <3>1 DEF PairIs
    <2>11. Built(c, a, L \cup {x}, H \cup {<<x, x>>})
      BY Zenon, <2>2, <2>10 DEF Built
    <2>12. Control(c, a, r, L \cup {x}, H \cup {<<x, x>>}, st, sk)
      BY Zenon, <2>1, <2>2, <2>11 DEF Control
    <2> QED  BY Zenon, <2>2, <2>9, <2>12 DEF Good

  \* The buffer and the counters are freed by run(), with their fields.
  <1>GoodReleases.
      ASSUME NEW c, NEW a, NEW r, NEW L, NEW H, NEW F, NEW st, NEW sk,
             Good(c, a, r, L, H, F, st, sk), NEW x, NEW sk2, F \in Nat, Frees(x, st, r, sk, sk2)
      PROVE  Good(c, a, r, L \ {x}, Without(H, {x}), F, st, sk2)
    <2> USE <1>GoodReleases
    <2> DEFINE H2 == Without(H, {x})
    <2>0. /\ x \in {"buf", "counters"}
          /\ \/ st = "run" /\ r # "dead" /\ sk2 = sk
             \/ st = "cleanup" /\ (sk2 = sk \/ x = "counters")
      BY Zenon DEF Frees
    <2> USE <2>0
    <2>2. Core(c, a, r, L, H, F) /\ Control(c, a, r, L, H, st, sk) /\ a \in Nat \ {0}
      BY Zenon DEF Good
    <2>3. Core(c, a, r, L \ {x}, H2, F)
      <3>1. SmokeIn(c, a, r, H2)
        BY Zenon, <2>2 DEF Core, SmokeIn, Without
      <3>2. \A d \in Needs(c) : d[2] \in {x} => d[1] \notin L
        BY Zenon, NeedsTargets
      <3>3. "scq cq" \notin {x} /\ "host qp" \notin {x}
        BY Zenon
      <3> QED  BY Zenon, <2>2, <3>1, <3>2, <3>3, CoreShrinks
    <2>4. ASSUME st = "run" PROVE Built(c, a, L \ {x}, H2)
      <3>1. Built(c, a, L, H)
        BY Zenon, <2>2, <2>4 DEF Control
      <3> QED  BY Zenon, <3>1 DEF Built, Without
    <2>5. <<"counters", "counters">>[1] = "counters"
      OBVIOUS
    <2>6. Control(c, a, r, L \ {x}, H2, st, sk2)
      BY Zenon, <2>2, <2>4, <2>5 DEF Control, Without
    <2> QED  BY Zenon, <2>2, <2>3, <2>6 DEF Good

  \* hipMalloc and ibv_reg_mr in run().
  <1>NodeAcquires.
      ASSUME RunInv, NEW n \in Nodes, InRun(n), NEW x \in {"buf", "mr", "counters"},
             NEW st \in {"run", "cleanup"},
             live' = [live EXCEPT ![n] = live[n] \cup {x}],
             held' = [held EXCEPT ![n] = held[n] \cup {<<x, x>>}],
             stage' = [stage EXCEPT ![n] = st] \/ (st = "run" /\ stage' = stage),
             UNCHANGED <<config_, at, result, sock>>, Counted(faults, faults')
      PROVE  RunInv'
    <2> USE Zenon, <1>NodeAcquires
    <2>1. Good(config_[n], at[n], result[n], live[n], held[n], faults, "run", sock[n])
      BY NodeIs DEF InRun
    <2>2. Good(config_[n], at[n], result[n], live[n] \cup {x}, held[n] \cup {<<x, x>>}, faults',
               st, sock[n])
      <3>1. Takes(x, st) /\ result[n] # "dead"
        BY DEF Takes, InRun
      <3> QED  BY <2>1, <3>1, <1>GoodAcquires
    <2>3. Upd(stage', stage, n, st)
      BY Same, Changed DEF InRun
    <2>4. Upd(live', live, n, live[n] \cup {x}) /\ Upd(held', held, n, held[n] \cup {<<x, x>>})
      BY Changed
    <2>5. Upd(at', at, n, at[n]) /\ Upd(result', result, n, result[n]) /\ Upd(sock', sock, n, sock[n])
      BY Same
    <2>6. Moves(n, at[n], result[n], live[n] \cup {x}, held[n] \cup {<<x, x>>}, st, sock[n])
      BY <2>3, <2>4, <2>5 DEF Moves
    <2> QED  BY <2>2, <2>6, NodeStep

  \* hipFree in run().
  <1>NodeReleases.
      ASSUME RunInv, NEW n \in Nodes, NEW x \in {"buf", "counters"}, Release(n, x),
             NEW sk, sock' = [sock EXCEPT ![n] = sk] \/ (sk = sock[n] /\ sock' = sock),
             UNCHANGED stage,
             (InRun(n) /\ sk = sock[n]) \/ (stage[n] = "cleanup" /\ (sk = sock[n] \/ x = "counters"))
      PROVE  RunInv'
    <2> USE Zenon, <1>NodeReleases
    <2>1. /\ Good(config_[n], at[n], result[n], live[n], held[n], faults, stage[n], sock[n])
          /\ faults \in Nat
      BY NodeIs
    <2>2. Good(config_[n], at[n], result[n], live[n] \ {x}, Without(held[n], {x}), faults,
               stage[n], sk)
      <3>1. Frees(x, stage[n], result[n], sock[n], sk)
        BY DEF Frees, InRun
      <3> QED  BY <2>1, <3>1, <1>GoodReleases
    <2>3. Upd(sock', sock, n, sk)
      BY Same, Changed
    <2>4. Upd(live', live, n, live[n] \ {x}) /\ Upd(held', held, n, Without(held[n], {x}))
      <3>1. {y \in held[n] : y[1] # x} = Without(held[n], {x})
        BY DEF Without
      <3>2. /\ live' = [live EXCEPT ![n] = live[n] \ {x}]
            /\ held' = [held EXCEPT ![n] = Without(held[n], {x})]
        BY <3>1 DEF Release
      <3> QED  BY <3>2, Changed
    <2>5. /\ Upd(at', at, n, at[n]) /\ Upd(result', result, n, result[n])
          /\ Upd(stage', stage, n, stage[n]) /\ Counted(faults, faults') /\ faults' = faults
      BY Same DEF Release
    <2>6. Moves(n, at[n], result[n], live[n] \ {x}, Without(held[n], {x}), stage[n], sk)
      BY <2>3, <2>4, <2>5 DEF Moves, Release
    <2> QED  BY <2>2, <2>5, <2>6, NodeStep

  <1> SUFFICES ASSUME RunInv, NEW n \in Nodes,
                      \/ AllocBuffer(n) \/ RegisterDataBuffer(n) \/ AllocCounters(n) \/ RegisterCopyFails(n)
                      \/ CheckErrors(n) \/ CloseSocket(n) \/ FreeBuffer(n)
               PROVE  RunInv'
    OBVIOUS
  <1> USE Zenon
  <1>1. /\ faults' = faults => Counted(faults, faults')
        /\ faults' = faults + 1 => Counted(faults, faults')
    BY Same
  <1>2. ASSUME NEW x \in {"buf", "mr", "counters"}, Acquire(n, {x}), InRun(n),
               UNCHANGED <<stage, sock>>
        PROVE  RunInv'
    <2>1. /\ live' = [live EXCEPT ![n] = live[n] \cup {x}]
          /\ held' = [held EXCEPT ![n] = held[n] \cup {<<x, x>>}]
      <3>1. {<<r, r>> : r \in {x}} = {<<x, x>>}
        OBVIOUS
      <3> QED  BY <1>2, <3>1 DEF Acquire
    <2>2. UNCHANGED <<config_, at, result, faults>>
      BY <1>2 DEF Acquire
    <2> QED  BY <1>1, <1>2, <2>1, <2>2, <1>NodeAcquires
  <1>3. CASE AllocBuffer(n)
    <2>1. Acquire(n, {"buf"}) /\ InRun(n) /\ UNCHANGED <<stage, sock>>
      BY <1>3 DEF AllocBuffer, At, tcp
    <2> QED  BY <1>2, <2>1
  <1>4. CASE RegisterDataBuffer(n)
    <2>1. Acquire(n, {"mr"}) /\ InRun(n) /\ UNCHANGED <<stage, sock>>
      BY <1>4 DEF RegisterDataBuffer, At, tcp
    <2> QED  BY <1>2, <2>1
  <1>5. CASE AllocCounters(n)
    <2>1. Acquire(n, {"counters"}) /\ InRun(n) /\ UNCHANGED <<stage, sock>>
      BY <1>5 DEF AllocCounters, At, tcp
    <2> QED  BY <1>2, <2>1
  <1>6. CASE RegisterCopyFails(n)
    <2>1. InRun(n) /\ faults' = faults + 1 /\ UNCHANGED <<config_, at, result, sock>>
      BY <1>6 DEF RegisterCopyFails, At, tcp
    <2>2. /\ live' = [live EXCEPT ![n] = live[n] \cup {"mr"}]
          /\ held' = [held EXCEPT ![n] = held[n] \cup {<<"mr", "mr">>}]
          /\ stage' = [stage EXCEPT ![n] = "cleanup"]
      BY <1>6 DEF RegisterCopyFails, Leave
    <2> QED  BY <1>1, <2>1, <2>2, <1>NodeAcquires
  <1>7. CASE CheckErrors(n)
    <2>1. InRun(n) /\ sock' = sock
      BY <1>7 DEF CheckErrors, At, tcp
    <2>2. CASE Leave(n) /\ UNCHANGED backendVars
      <3>1. /\ UNCHANGED <<config_, at, result, live, held, faults>>
            /\ stage' = [stage EXCEPT ![n] = "cleanup"]
        BY <2>2 DEF backendVars, Leave
      <3> QED  BY <1>1, <2>1, <3>1, NodeLeaves
    <2>3. CASE Release(n, "counters") /\ UNCHANGED stage
      BY <2>1, <2>3, <1>NodeReleases
    <2> QED  BY <1>7, <2>2, <2>3 DEF CheckErrors
  <1>8. CASE CloseSocket(n)
    <2>1. /\ stage[n] = "cleanup" /\ Release(n, "counters") /\ UNCHANGED stage
          /\ sock' = [sock EXCEPT ![n] = "closed"]
      BY <1>8 DEF CloseSocket, ctl
    <2> QED  BY <2>1, <1>NodeReleases
  <1>9. CASE FreeBuffer(n)
    <2>1. stage[n] = "cleanup" /\ Release(n, "buf") /\ UNCHANGED stage /\ sock' = sock
      BY <1>9 DEF FreeBuffer, ctl, tcp
    <2> QED  BY <2>1, <1>NodeReleases
  <1> QED  BY <1>3, <1>4, <1>5, <1>6, <1>7, <1>8, <1>9

-----------------------------------------------------------------------------
(* A call of init() that succeeds.                                         *)

\* What a call of this part stands on is there once the queue pair is.
LateNeed(p, x) == x = "qp" \/ (p = "bnxt" /\ x = "db attr") \/ (p = "mlx5" /\ x = "cq_")

\* The next call of init(), by where it is.
OpenCall(a, e) ==
  \/ a = 1 /\ e = Gets("open_ib_device", "context", "abort")
  \/ a = 2 /\ e = Gets("open_ib_device", "pd", "abort")
  \/ a = 3 /\ e = Calls("open_ib_device", "abort")

QueueCall(c, a, e) == InQueues(c, a) /\ e = CreateQueues(c)[a - 3]

CheckCall(c, a, e) == a = CheckAt(c) /\ e = Calls("check qp", "never")

LateCall(c, a, e) == InLate(c, a) /\ e = LateScript(c)[a - CheckAt(c)]

\* A call after CheckQp, and what follows it in the smoke test.
LEMMA LateCalls ==
    ASSUME NEW c, NEW a \in Nat \ {0}, NEW e, LateCall(c, a, e)
    PROVE  /\ LateKind(c, e)
           /\ e.fn = "smoke" => \/ e.drops = Smoke
                                \/ /\ InLate(c, a + 1)
                                   /\ LateScript(c)[(a + 1) - CheckAt(c)].fn = "smoke"
  <1>0. LateOk(c, LateScript(c))
    BY Zenon, LateScriptOk
  <1>1. LateFacts(c, LateScript(c), a - CheckAt(c))
    BY Zenon, <1>0 DEF LateOk, LateCall, InLate
  <1>2. (a - CheckAt(c)) + 1 = (a + 1) - CheckAt(c)
    <2>1. CheckAt(c) \in Nat
      BY Zenon, ScriptSizes
    <2> QED  BY <2>1
  <1> QED  BY Zenon, <1>1, <1>2 DEF LateFacts, LateCall, InLate

\* CheckQp is no call.
LEMMA CheckCalls ==
    ASSUME NEW c, NEW a, NEW e, CheckCall(c, a, e)
    PROVE  e.fn = "check qp" /\ e.fail = "never"
  <1>1. IsStep(e, "check qp", {}, {}, {}, "never")
    BY Zenon, FormParts DEF CheckCall
  <1> QED  BY Zenon, <1>1 DEF IsStep

\* Facts about the next call.
LEMMA QueueCalls ==
    ASSUME NEW c, NEW a \in Nat \ {0}, NEW e, QueueCall(c, a, e)
    PROVE  /\ CreateFacts(c, CreateQueues(c), a - 3) /\ CreateKind(OpenDvLibs(c), e)
           /\ "qp" \in e.gets => a + 1 = CheckAt(c)
  <1>1. QueueFacts(c, CreateQueues(c)) /\ a - 3 \in DOMAIN CreateQueues(c)
    BY Zenon, QueuesOk DEF QueueCall, InQueues
  <1>2. CreateFacts(c, CreateQueues(c), a - 3)
    BY Zenon, <1>1 DEF QueueFacts, CreateOk
  <1>3. CreateKind(OpenDvLibs(c), e)
    BY Zenon, <1>2 DEF CreateFacts, QueueCall
  <1>4. "qp" \in e.gets => a - 3 = Len(CreateQueues(c))
    BY Zenon, <1>1 DEF QueueFacts, QueueCall
  <1>5. CheckAt(c) = Len(CreateQueues(c)) + 4 /\ Len(CreateQueues(c)) \in Nat
    BY Zenon, ScriptSizes
  <1>6. a - 3 = Len(CreateQueues(c)) => a + 1 = CheckAt(c)
    BY <1>5
  <1> QED  BY Zenon, <1>2, <1>3, <1>4, <1>6

\* The attribute block is filled after the umems and before the QP.
LEMMA FillAheadFacts ==
    ASSUME NEW c, NEW a \in Nat \ {0}
    PROVE  /\ FillAhead(c, a) /\ ~(InQueues(c, a) /\ CreateQueues(c)[a - 3] = FillAttr)
                => FillAhead(c, a + 1)
           /\ FillAhead(c, a) => a < CheckAt(c)
           /\ \A e : QueueCall(c, a, e) /\ "qp" \in e.gets => ~FillAhead(c, a)
           /\ \A e : QueueCall(c, a, e) /\ e.gets \cap Umems # {} => FillAhead(c, a + 1)
  <1>1. PICK q, n : q = CreateQueues(c) /\ n = Len(CreateQueues(c))
    BY Zenon
  <1>2. n \in Nat /\ DOMAIN q = 1 .. n /\ CheckAt(c) = n + 4
    BY Zenon, <1>1, ScriptSizes
  <1>3. ASSUME NEW k \in DOMAIN q, k + 3 >= a, q[k] = FillAttr
        PROVE  /\ a < CheckAt(c)
               /\ k = a - 3 \/ k + 3 >= a + 1
    <2>1. k \in 1 .. n
      BY Zenon, <1>2
    <2> QED  BY <1>2, <1>3, <2>1
  <1>4. ASSUME FillAhead(c, a), ~(InQueues(c, a) /\ CreateQueues(c)[a - 3] = FillAttr)
        PROVE  FillAhead(c, a + 1)
    BY Zenon, <1>1, <1>3, <1>4 DEF FillAhead, InQueues
  <1>5. FillAhead(c, a) => a < CheckAt(c)
    BY Zenon, <1>1, <1>3 DEF FillAhead
  <1>6. ASSUME NEW e, QueueCall(c, a, e), "qp" \in e.gets, NEW k \in DOMAIN q, k + 3 >= a,
               q[k] = FillAttr
        PROVE  FALSE
    <2>1. a + 1 = CheckAt(c)
      BY Zenon, <1>6, QueueCalls
    <2>2. k \in 1 .. n
      BY Zenon, <1>2
    <2>3. k = a - 3
      BY <1>2, <1>6, <2>1, <2>2
    <2>4. e = FillAttr
      BY Zenon, <1>1, <1>6, <2>3 DEF QueueCall
    <2>5. IsStep(e, "create_qps", {}, {}, {<<"sq umem", "sq umem">>, <<"rq umem", "rq umem">>}, "never")
      BY Zenon, <2>4, FormParts DEF FillAttr
    <2> QED  BY Zenon, <1>6, <2>5 DEF IsStep
  <1>7. ASSUME NEW e, QueueCall(c, a, e), e.gets \cap Umems # {} PROVE FillAhead(c, a + 1)
    <2>1. CreateFacts(c, q, a - 3)
      BY Zenon, <1>1, <1>7, QueueCalls
    <2>2. PICK k \in DOMAIN q : k > a - 3 /\ q[k] = FillAttr
      BY Zenon, <1>1, <1>7, <2>1 DEF CreateFacts, QueueCall
    <2>3. k \in 1 .. n
      BY Zenon, <1>2
    <2>4. k + 3 >= a + 1
      BY <1>2, <2>2, <2>3
    <2> QED  BY Zenon, <1>1, <2>2, <2>4 DEF FillAhead
  <1> QED  BY Zenon, <1>1, <1>4, <1>5, <1>6, <1>7 DEF FillAhead

\* Past create_queues no umem is waiting for the attribute block.
LEMMA LooseLate ==
    ASSUME NEW c, NEW a \in Nat \ {0}, a >= CheckAt(c), NEW r, NEW F, NEW F2, Counted(F, F2),
           NEW x, Loose(c, a, r, F, x), NEW a2, NEW r2
    PROVE  Loose(c, a2, r2, F2, x)
  <1>1. F > 0 => F2 > 0
    BY DEF Counted
  <1>2. CheckAt(c) \in Nat
    BY Zenon, ScriptSizes
  <1>3. ~(a < CheckAt(c))
    BY <1>2
  <1>4. ~FillAhead(c, a)
    BY Zenon, <1>3, FillAheadFacts
  <1> QED  BY Zenon, <1>1, <1>4 DEF Loose

\* What the invariant says while init() is in progress.
LEMMA InitParts ==
    ASSUME NEW c, NEW a, NEW L, NEW H, NEW F, NEW sk,
           Good(c, a, "running", L, H, F, "init", sk)
    PROVE  /\ a \in Nat \ {0} /\ Core(c, a, "running", L, H, F) /\ Built(c, a, L, H)
           /\ Runs(c, a, L, H) /\ sk # "closed"
  BY Zenon DEF Good, Control

\* The invariant within init(), from its parts.
LEMMA InitBack ==
    ASSUME NEW c, NEW a \in Nat \ {0}, NEW L, NEW H, NEW F, NEW sk, sk # "closed",
           Core(c, a, "running", L, H, F), Built(c, a, L, H), Runs(c, a, L, H)
    PROVE  Good(c, a, "running", L, H, F, "init", sk)
  BY Zenon DEF Good, Control

\* A umem without a field has one coming until the attribute block is filled.
LEMMA LooseNext ==
    ASSUME NEW c, NEW a \in Nat \ {0}, ~(InQueues(c, a) /\ CreateQueues(c)[a - 3] = FillAttr),
           NEW F, NEW x, Loose(c, a, "running", F, x)
    PROVE  Loose(c, a + 1, "running", F, x)
  BY Zenon, FillAheadFacts DEF Loose

\* The second name of the send CQ, and the device view.
LEMMA AliasParts ==
    ASSUME TRUE
    PROVE  /\ \A x : <<x, x>> # ScqAlias /\ <<x, x>>[1] = x /\ <<x, x>>[2] = x
           /\ \A x, y : <<x, x>> = <<y, y>> => x = y
           /\ ScqAlias[1] = "cq_" /\ ScqAlias[2] = "scq cq"
           /\ ViewAlias[1] = "device view" /\ ViewAlias[2] = "host qp" /\ ViewAlias # ScqAlias
           /\ \A x : <<x, x>> # ViewAlias
  BY DEF ScqAlias, ViewAlias

\* open_ib_device acquires the context, then the protection domain.
OpenGets(a) == IF a = 1 THEN {"context"} ELSE IF a = 2 THEN {"pd"} ELSE {}

\* A field of the name of a known resource names that resource.
LEMMA ShapeNames ==
    ASSUME NEW c, NEW L, NEW H, Shape(c, L, H), NEW y \in H
    PROVE  /\ y[1] # "cq_" /\ y[1] # "device view" => y = <<y[1], y[1]>>
           /\ y[1] = "cq_" /\ TwoNames(OpenDvLibs(c)) => y = ScqAlias
           /\ \A x : y = <<x, x>> => y[1] = x /\ y[2] = x
  <1> USE Zenon
  <1>1. y = ViewAlias \/ y = ScqAlias \/ \E r \in KnownOf(OpenDvLibs(c)) : y = <<r, r>>
    BY DEF Shape
  <1>2. \A x : y = <<x, x>> => y[1] = x /\ y[2] = x
    BY AliasParts
  <1>3. y[1] # "cq_" /\ y[1] # "device view" => y = <<y[1], y[1]>>
    BY <1>1, <1>2, AliasParts
  <1>4. ASSUME y[1] = "cq_", TwoNames(OpenDvLibs(c)) PROVE y = ScqAlias
    <2>1. y # ViewAlias
      BY <1>4, AliasParts
    <2>2. ASSUME NEW r \in KnownOf(OpenDvLibs(c)), y = <<r, r>> PROVE FALSE
      BY <1>2, <1>4, <2>2, NamesOfKnown
    <2> QED  BY <1>1, <2>1, <2>2
  <1> QED  BY <1>2, <1>3, <1>4

\* What a step of create_queues gives up it acquires again.
Renews(L, H, e) ==
  /\ (L \ e.drops) \cup e.gets = L \cup e.gets
  /\ Without(H, e.drops) \cup e.sets = H \cup e.sets

\* Positions within create_queues.
LEMMA QueueNumbers ==
    ASSUME NEW c, NEW a \in Nat \ {0}, InQueues(c, a)
    PROVE  /\ a + 1 \in Nat \ {0} /\ a >= 2 /\ a >= 3 /\ a < CheckAt(c) /\ ~(a + 1 > CheckAt(c))
           /\ a + 1 <= (CheckAt(c) + Len(LateScript(c))) + 1 /\ ~InLate(c, a)
           /\ (a + 1 < CheckAt(c) => a + 1 # CheckAt(c))
  <1>1. a >= 4 /\ a < CheckAt(c) /\ (InLate(c, a) => a > CheckAt(c))
    BY Zenon, ZoneBounds
  <1>2. CheckAt(c) \in Nat /\ Len(LateScript(c)) \in Nat
    BY Zenon, ScriptSizes
  <1> QED  BY <1>1, <1>2

\* Filling the attribute block gives the umems their fields.
LEMMA FillSets ==
    ASSUME NEW e, e = FillAttr
    PROVE  e.drops = {} /\ e.gets = {} /\ \A x \in Umems : <<x, x>> \in e.sets
  <1>1. IsStep(e, "create_qps", {}, {}, {<<"sq umem", "sq umem">>, <<"rq umem", "rq umem">>}, "never")
    BY Zenon, FormParts DEF FillAttr
  <1> QED  BY Zenon, <1>1 DEF IsStep, Umems

\* A call of create_queues that succeeds.
LEMMA GoodQueues ==
    \A c, a, L, H, F, sk, e :
      /\ Good(c, a, "running", L, H, F, "init", sk)
      /\ QueueCall(c, a, e)
      /\ "qp" \in e.gets => \E y \in H : y[1] = "cq_"
      => Good(c, a + 1, "running", (L \ e.drops) \cup e.gets, Without(H, e.drops) \cup e.sets,
              F, "init", sk)
  \* Its function has then done one call more.
  <1>FnNext.
      ASSUME NEW c, NEW a \in Nat \ {0}, NEW e, QueueCall(c, a, e),
             NEW L, NEW H, FnDone(c, a, L, H), NEW G, NEW P,
             e.gets \subseteq L \cup G, e.sets \subseteq H \cup P
      PROVE  FnDone(c, a + 1, L \cup G, H \cup P)
    <2> USE <1>FnNext
    <2>1. PICK q, n : q = CreateQueues(c) /\ n = Len(CreateQueues(c))
      BY Zenon
    <2>2. n \in Nat /\ DOMAIN q = 1 .. n /\ CheckAt(c) = n + 4
      BY Zenon, <2>1, ScriptSizes
    <2>3. PICK i : i = a - 3
      BY Zenon
    <2>4. i \in DOMAIN q /\ e = q[i]
      BY Zenon, <2>1, <2>3 DEF QueueCall, InQueues
    <2>5. i \in 1 .. n /\ (a + 1) - 3 = i + 1 /\ (a + 1) - 4 = i /\ a - 4 = i - 1
      BY <2>2, <2>3, <2>4
    <2>6. PICK m \in Nat : \E f, g : f # g /\ \A k \in DOMAIN q : q[k].fn = IF k <= m THEN f ELSE g
      <3>1. QueueFacts(c, q)
        BY Zenon, <2>1, QueuesOk
      <3>2. TwoParts(q)
        BY Zenon, <3>1 DEF QueueFacts
      <3> QED  BY Zenon, <3>2 DEF TwoParts
    <2>7. PICK f, g : f # g /\ \A k \in DOMAIN q : q[k].fn = IF k <= m THEN f ELSE g
      BY Zenon, <2>6
    <2>8. ASSUME i + 1 \in DOMAIN q, NEW j \in 1 .. i, q[j].fn = q[i + 1].fn
          PROVE  q[j].gets \subseteq L \cup G /\ q[j].sets \subseteq H \cup P
      <3>1. CASE j = i
        BY Zenon, <2>4, <3>1
      <3>2. CASE j # i
        <4>1. j \in 1 .. i - 1 /\ j \in DOMAIN q
          BY <2>2, <2>5, <2>8, <3>2
        <4>2. (i <= m => j <= m) /\ (i + 1 <= m => i <= m)
          BY <2>2, <2>5, <4>1
        <4>3. q[j].fn = (IF j <= m THEN f ELSE g) /\ q[i].fn = (IF i <= m THEN f ELSE g)
              /\ q[i + 1].fn = (IF i + 1 <= m THEN f ELSE g)
          BY Zenon, <2>4, <2>7, <2>8, <4>1
        <4>4. ~(i <= m) /\ j <= m => ~(i + 1 <= m)
          BY <2>5, <4>1
        <4>5. q[j].fn = q[i].fn
          BY Zenon, <2>7, <2>8, <4>2, <4>3, <4>4
        <4>6. q[j].gets \subseteq L /\ q[j].sets \subseteq H
          BY Zenon, <2>1, <2>3, <2>4, <2>5, <4>1, <4>5 DEF FnDone
        <4> QED  BY Zenon, <4>6
      <3> QED  BY Zenon, <3>1, <3>2
    <2> QED  BY Zenon, <2>1, <2>5, <2>8 DEF FnDone

  \* What it replaces it acquires again.
  <1>QueueRenews.
      ASSUME NEW c, NEW L, NEW H, Shape(c, L, H), NEW e, CreateKind(OpenDvLibs(c), e)
      PROVE  Renews(L, H, e)
    <2> USE Zenon, <1>QueueRenews
    <2>1. CASE e.drops = {}
      BY <2>1 DEF Without, Renews
    <2>2. CASE e.drops = {"db attr"} /\ "db attr" \in e.gets /\ <<"db attr", "db attr">> \in e.sets
      <3>1. ASSUME NEW y \in H, y[1] = "db attr" PROVE y \in e.sets
        <4>1. y = <<y[1], y[1]>>
          BY <3>1, ShapeNames
        <4>2. y = <<"db attr", "db attr">>
          BY <3>1, <4>1
        <4> QED  BY <2>2, <4>2
      <3>2. (L \ e.drops) \cup e.gets = L \cup e.gets
        BY <2>2
      <3>3. Without(H, e.drops) \cup e.sets = H \cup e.sets
        BY <2>2, <3>1 DEF Without
      <3> QED  BY <3>2, <3>3 DEF Renews
    <2> QED  BY <2>1, <2>2 DEF CreateKind

  \* Within a function what its earlier calls acquired exists.
  <1>BeforeLives.
      ASSUME NEW c, NEW a \in Nat \ {0}, InQueues(c, a), NEW L, NEW H, FnDone(c, a, L, H),
             NEW x, Before(CreateQueues(c), a - 3, x)
      PROVE  x \in L
    <2> USE <1>BeforeLives
    <2>1. (a - 3) - 1 = a - 4
      OBVIOUS
    <2> QED  BY Zenon, <2>1 DEF Before, FnDone, InQueues

  <1> SUFFICES ASSUME NEW c, NEW a, NEW L, NEW H, NEW F, NEW sk, NEW e,
                      Good(c, a, "running", L, H, F, "init", sk), QueueCall(c, a, e),
                      "qp" \in e.gets => \E y \in H : y[1] = "cq_"
               PROVE  Good(c, a + 1, "running", (L \ e.drops) \cup e.gets, Without(H, e.drops) \cup e.sets,
                           F, "init", sk)
    OBVIOUS
  <1> USE Zenon
  <1> DEFINE p == OpenDvLibs(c)
             G == e.gets
             P == e.sets
  <1>1. /\ a \in Nat \ {0} /\ Core(c, a, "running", L, H, F) /\ Built(c, a, L, H)
        /\ Runs(c, a, L, H) /\ sk # "closed"
    BY InitParts
  <1>2. InQueues(c, a) /\ e = CreateQueues(c)[a - 3]
    BY DEF QueueCall
  <1>3. /\ a + 1 \in Nat \ {0} /\ a >= 2 /\ a >= 3 /\ a < CheckAt(c) /\ ~(a + 1 > CheckAt(c))
        /\ a + 1 <= (CheckAt(c) + Len(LateScript(c))) + 1 /\ ~InLate(c, a)
        /\ (a + 1 < CheckAt(c) => a + 1 # CheckAt(c))
    BY <1>1, <1>2, QueueNumbers
  <1>4. /\ CreateFacts(c, CreateQueues(c), a - 3) /\ CreateKind(p, e)
        /\ "qp" \in G => a + 1 = CheckAt(c)
    BY <1>1, QueueCalls
  <1>5. Shape(c, L, H)
    BY <1>1 DEF Core
  <1>6. (L \ e.drops) \cup G = L \cup G /\ Without(H, e.drops) \cup P = H \cup P
    <2>1. Renews(L, H, e)
      BY <1>4, <1>5, <1>QueueRenews
    <2> QED  BY <2>1 DEF Renews
  <1>8. \A x : Before(CreateQueues(c), a - 3, x) => x \in L
    BY <1>1, <1>2, <1>BeforeLives DEF Runs
  <1>9. "context" \in L /\ "pd" \in L
    BY <1>1, <1>3 DEF Built
  <1>10. \A y \in P : (TwoNames(p) /\ y = ScqAlias) \/ \E r \in KnownOf(p) \ Smoke : y = <<r, r>>
    BY <1>4 DEF CreateKind
  <1>11. \A y \in P : y[2] \in L \cup G
    BY <1>2, <1>4, <1>8 DEF CreateFacts
  <1>12. TwoNames(p) /\ "qp" \in G => "scq cq" \in L /\ "rcq cq" \in L
    <2>1. TwoNames(p) /\ "qp" \in G => ScqAlias \in H
      BY <1>5, ShapeNames
    <2> QED  BY <1>1, <2>1 DEF Built
  <1>13. Core(c, a + 1, "running", L \cup G, H \cup P, F)
    <2>1. Shape(c, G, P)
      <3>1. G \subseteq KnownOf(p) \cup Unkept(p)
        BY <1>4 DEF CreateKind
      <3> QED  BY <1>10, <3>1 DEF Shape
    <2>2. ASSUME NEW x \in L, Loose(c, a, "running", F, x)
          PROVE  <<x, x>> \in P \/ Loose(c, a + 1, "running", F, x)
      <3>1. CASE e = FillAttr
        BY <2>2, <3>1, FillSets DEF Loose
      <3>2. CASE e # FillAttr
        BY <1>1, <1>2, <2>2, <3>2, LooseNext
      <3> QED  BY <3>1, <3>2
    <2>3. ASSUME NEW x \in G PROVE <<x, x>> \in P \/ Loose(c, a + 1, "running", F, x)
      <3>1. <<x, x>> \in P \/ x \in Unkept(p) \/ (TwoNames(p) /\ x \in Umems)
        BY <1>4 DEF CreateKind
      <3>2. x \in Umems => FillAhead(c, a + 1)
        BY <1>1, FillAheadFacts
      <3> QED  BY <3>1, <3>2 DEF Loose
    <2>4. ASSUME NEW d \in Needs(c), d[1] \in G PROVE d[2] \in L \cup G
      <3>1. Stands(p, CreateQueues(c), a - 3, d)
        BY <1>2, <1>4, <2>4 DEF CreateFacts
      <3> QED  BY <1>8, <1>9, <1>12, <2>4, <3>1 DEF Stands
    <2>5. SmokeIn(c, a + 1, "running", H \cup P)
      <3>1. ASSUME NEW x \in Smoke, <<x, x>> \in H PROVE FALSE
        BY <1>1, <1>3, <3>1 DEF Core, SmokeIn, InLate
      <3>2. ASSUME NEW x \in Smoke, <<x, x>> \in P PROVE FALSE
        BY <1>10, <3>2, AliasParts
      <3> QED  BY <3>1, <3>2 DEF SmokeIn
    <2> QED  BY <1>1, <1>11, <2>1, <2>2, <2>3, <2>4, <2>5, CoreGrows
  <1>14. ScqAlias \in P => {"scq cq", "rcq cq"} \subseteq L \cup G
    <2>1. ScqAlias \in P => "rcq cq" \in L
      BY <1>2, <1>4, <1>8 DEF CreateFacts
    <2>2. ScqAlias \in P => "scq cq" \in L \cup G
      BY <1>11, AliasParts
    <2> QED  BY <2>1, <2>2
  <1>15. p = "bnxt" /\ "qp" \in G => "db attr" \in L
    BY <1>2, <1>4, <1>8 DEF CreateFacts
  <1>16. Built(c, a + 1, L \cup G, H \cup P)
    <2>1. ScqAlias \in H \cup P => {"scq cq", "rcq cq"} \subseteq L \cup G
      BY <1>1, <1>14 DEF Built
    <2>2. p = "bnxt" /\ "qp" \in L \cup G => "db attr" \in L \cup G
      BY <1>1, <1>15 DEF Built
    <2> QED  BY <1>3, <1>9, <2>1, <2>2 DEF Built
  <1>17. Runs(c, a + 1, L \cup G, H \cup P)
    <2>1. FnDone(c, a + 1, L \cup G, H \cup P)
      BY <1>1, <1>FnNext DEF Runs
    <2>2. "dbr reg" \notin G
      BY <1>4 DEF CreateKind
    <2> QED  BY <1>1, <1>3, <1>4, <2>1, <2>2 DEF Runs
  <1>18. Good(c, a + 1, "running", L \cup G, H \cup P, F, "init", sk)
    BY <1>1, <1>3, <1>13, <1>16, <1>17, InitBack
  <1> QED  BY <1>6, <1>18

\* Past the check of the queue pair.
LEMMA LateNumbers ==
    ASSUME NEW c, NEW b \in Nat \ {0}, b > CheckAt(c)
    PROVE  b >= 2 /\ b >= 3 /\ ~(b < CheckAt(c)) /\ ~InQueues(c, b)
  <1>1. InQueues(c, b) => b < CheckAt(c)
    BY Zenon, ZoneBounds
  <1>2. CheckAt(c) \in Nat /\ CheckAt(c) >= 4
    BY Zenon, ScriptSizes
  <1> QED  BY <1>1, <1>2

\* Past CheckQp nothing is asked of create_queues any more.
LEMMA RunsLate ==
    ASSUME NEW c, NEW b \in Nat \ {0}, b > CheckAt(c),
           b <= (CheckAt(c) + Len(LateScript(c))) + 1, NEW L, NEW H
    PROVE  Runs(c, b, L, H)
  <1>1. ~(b < CheckAt(c)) /\ ~InQueues(c, b)
    BY Zenon, LateNumbers
  <1> QED  BY Zenon, <1>1 DEF Runs, FnDone, InQueues

\* The late calls leave the device, the PD, the queues and the QP alone.
LEMMA BuiltLate ==
    ASSUME NEW c, NEW a \in Nat \ {0}, a > CheckAt(c), NEW L, NEW H, Built(c, a, L, H),
           NEW b, NEW L2, NEW H2,
           \A x \in {"context", "pd", "qp", "scq cq", "rcq cq", "db attr"} : x \in L => x \in L2,
           ScqAlias \in H2 => ScqAlias \in H
    PROVE  Built(c, b, L2, H2)
  <1> USE Zenon
  <1>1. a >= 2 /\ a >= 3
    BY LateNumbers
  <1>2. "context" \in L2 /\ "pd" \in L2 /\ "qp" \in L2 /\ "qp" \in L
    BY <1>1 DEF Built
  <1>3. ScqAlias \in H2 => {"scq cq", "rcq cq"} \subseteq L2
    BY DEF Built
  <1>4. OpenDvLibs(c) = "bnxt" => "db attr" \in L2
    BY <1>2 DEF Built
  <1> QED  BY <1>2, <1>3, <1>4 DEF Built

\* Positions after CheckQp.
LEMMA LateNext ==
    ASSUME NEW c, NEW a \in Nat \ {0}, InLate(c, a)
    PROVE  /\ a > CheckAt(c) /\ a >= CheckAt(c) /\ a + 1 \in Nat \ {0} /\ a + 1 > CheckAt(c)
           /\ a + 1 <= (CheckAt(c) + Len(LateScript(c))) + 1
  <1>1. a > CheckAt(c) /\ a <= CheckAt(c) + Len(LateScript(c))
    BY Zenon, ZoneBounds
  <1>2. CheckAt(c) \in Nat /\ Len(LateScript(c)) \in Nat
    BY Zenon, ScriptSizes
  <1> QED  BY <1>1, <1>2

\* Where a process in init() is.
LEMMA InitNode ==
    \A n \in Nodes :
      /\ RunInv
      /\ stage[n] = "init"
      /\ Running(n)
      => /\ Good(config_[n], at[n], "running", live[n], held[n], faults, "init", sock[n])
         /\ result[n] = "running" /\ faults \in Nat
         /\ NextStep(n) = InitScript(config_[n])[at[n]]
         /\ \/ OpenCall(at[n], NextStep(n)) \/ QueueCall(config_[n], at[n], NextStep(n))
            \/ CheckCall(config_[n], at[n], NextStep(n)) \/ LateCall(config_[n], at[n], NextStep(n))
  \* A step of init() is in one of its four parts.
  <1>Zones.
      ASSUME NEW c, NEW a \in Nat \ {0}, a <= Len(InitScript(c)), NEW e, e = InitScript(c)[a]
      PROVE  OpenCall(a, e) \/ QueueCall(c, a, e) \/ CheckCall(c, a, e) \/ LateCall(c, a, e)
    <2> USE <1>Zones
    <2>1. PICK s, q, t, n, m : /\ s = InitScript(c) /\ q = CreateQueues(c) /\ t = LateScript(c)
                               /\ n = Len(CreateQueues(c)) /\ m = Len(LateScript(c))
      BY Zenon
    <2>2. /\ n \in Nat /\ m \in Nat /\ DOMAIN q = 1 .. n /\ DOMAIN t = 1 .. m
          /\ Len(s) = (n + 4) + m
          /\ \A i \in 1 .. n : s[i + 3] = q[i]
          /\ \A i \in 1 .. m : s[(n + 4) + i] = t[i]
      BY Zenon, <2>1, ScriptParts DEF IsScript
    <2>3. /\ s[1] = Gets("open_ib_device", "context", "abort")
          /\ s[2] = Gets("open_ib_device", "pd", "abort")
          /\ s[3] = Calls("open_ib_device", "abort")
          /\ s[n + 4] = Calls("check qp", "never")
      BY Zenon, <2>1, ScriptParts DEF IsScript
    <2>4. CheckAt(c) = n + 4
      BY Zenon, <2>1 DEF CheckAt
    <2>5. a <= (n + 4) + m
      BY Zenon, <2>1, <2>2
    <2>6. PICK i, j : i = a - 3 /\ j = a - (n + 4)
      BY Zenon
    <2>7. \/ a = 1 \/ a = 2 \/ a = 3 \/ a = n + 4
          \/ i \in 1 .. n /\ i + 3 = a
          \/ j \in 1 .. m /\ (n + 4) + j = a
      BY <2>2, <2>5, <2>6
    <2>8. CASE a = 1 \/ a = 2 \/ a = 3
      BY Zenon, <2>1, <2>3, <2>8 DEF OpenCall
    <2>9. CASE a = n + 4
      BY Zenon, <2>1, <2>3, <2>4, <2>9 DEF CheckCall
    <2>10. CASE i \in 1 .. n /\ i + 3 = a
      <3>1. s[a] = q[i]
        BY Zenon, <2>2, <2>10
      <3> QED  BY Zenon, <2>1, <2>2, <2>6, <2>10, <3>1 DEF QueueCall, InQueues
    <2>11. CASE j \in 1 .. m /\ (n + 4) + j = a
      <3>1. s[a] = t[j]
        BY Zenon, <2>2, <2>11
      <3> QED  BY Zenon, <2>1, <2>2, <2>4, <2>6, <2>11, <3>1 DEF LateCall, InLate
    <2> QED  BY Zenon, <2>7, <2>8, <2>9, <2>10, <2>11

  <1> SUFFICES ASSUME RunInv, NEW n \in Nodes, stage[n] = "init", Running(n)
               PROVE  /\ Good(config_[n], at[n], "running", live[n], held[n], faults, "init", sock[n])
                      /\ result[n] = "running" /\ faults \in Nat
                      /\ NextStep(n) = InitScript(config_[n])[at[n]]
                      /\ \/ OpenCall(at[n], NextStep(n)) \/ QueueCall(config_[n], at[n], NextStep(n))
                         \/ CheckCall(config_[n], at[n], NextStep(n)) \/ LateCall(config_[n], at[n], NextStep(n))
    OBVIOUS
  <1> USE Zenon
  <1>1. /\ Good(config_[n], at[n], "running", live[n], held[n], faults, "init", sock[n])
        /\ result[n] = "running"
    BY NodeIs DEF Running
  <1>2. at[n] \in Nat \ {0}
    BY <1>1, InitParts
  <1>3. ScriptOf[config_[n]] = InitScript(config_[n]) /\ faults \in Nat
    BY NodeIs
  <1>4. NextStep(n) = InitScript(config_[n])[at[n]] /\ at[n] <= Len(InitScript(config_[n]))
    BY <1>3 DEF NextStep, Running
  <1> QED  BY <1>1, <1>2, <1>3, <1>4, <1>Zones

\* A step of init() to the values a, r, L and H.
LEMMA InitMoves ==
    ASSUME RunInv, NEW n \in Nodes, stage[n] = "init", UNCHANGED <<config_, stage, sock>>,
           NEW a, NEW r, NEW L, NEW H, Counted(faults, faults'),
           Upd(at', at, n, a), Upd(result', result, n, r), Upd(live', live, n, L),
           Upd(held', held, n, H),
           Good(config_[n], a, r, L, H, faults', "init", sock[n])
    PROVE  RunInv'
  <1>1. Moves(n, a, r, L, H, "init", sock[n])
    BY Zenon, Same DEF Moves
  <1> QED  BY Zenon, <1>1, NodeStep

\* A call of init() succeeds.
LEMMA InitStepOkKeeps ==
    \A n \in Nodes :
      /\ RunInv
      /\ stage[n] = "init"
      /\ UNCHANGED <<stage, sock>>
      /\ InitStepOk(n)
      => RunInv'
  \* What the late resources stand on: the QP, a doorbell attribute or a CQ.
  <1>LateNeeds.
      ASSUME NEW c, NEW d \in Needs(c), d[1] \in LateNames
      PROVE  LateNeed(OpenDvLibs(c), d[2])
    <2> USE Zenon, <1>LateNeeds
    <2>1. CASE CommonNeeds(d)
      BY <2>1 DEF CommonNeeds, PairIs, LateNames, Bridge
    <2>2. CASE OpenDvLibs(c) = "bnxt" /\ BnxtNeeds(d)
      BY <2>2 DEF BnxtNeeds, PairIs, LateNames, Bridge, LateNeed
    <2>3. CASE OpenDvLibs(c) = "ernic" /\ ErnicNeeds(d)
      BY <2>3 DEF ErnicNeeds, PairIs, LateNames, Bridge
    <2>4. CASE OpenDvLibs(c) = "mlx5" /\ Mlx5Needs(d)
      BY <2>4 DEF Mlx5Needs, PairIs, LateNames, Bridge, LateNeed
    <2>5. CASE OpenDvLibs(c) = "ionic" /\ IonicNeeds(d)
      BY <2>5 DEF IonicNeeds, PairIs, LateNames, Bridge
    <2>6. CASE OpenDvLibs(c) = "none" /\ NoneNeeds(d)
      BY <2>6 DEF NoneNeeds, PairIs, LateNames, Bridge
    <2> QED  BY <2>1, <2>2, <2>3, <2>4, <2>5, <2>6, NeedsAre

  \* open_ib_device gets the context, then the PD.
  <1>OpenParts.
      ASSUME NEW a, NEW e, OpenCall(a, e)
      PROVE  e.drops = {} /\ e.gets = OpenGets(a) /\ e.sets = {<<x, x>> : x \in OpenGets(a)}
    <2> USE <1>OpenParts
    <2>0. 1 # 2 /\ 1 # 3 /\ 2 # 3
      OBVIOUS
    <2>1. CASE a = 1 /\ e = Gets("open_ib_device", "context", "abort")
      <3>1. IsStep(e, "open_ib_device", {}, {"context"}, {<<"context", "context">>}, "abort")
        BY Zenon, <2>1, FormParts
      <3>2. OpenGets(a) = {"context"}
        BY Zenon, <2>1 DEF OpenGets
      <3> QED  BY Zenon, <3>1, <3>2 DEF IsStep
    <2>2. CASE a = 2 /\ e = Gets("open_ib_device", "pd", "abort")
      <3>1. IsStep(e, "open_ib_device", {}, {"pd"}, {<<"pd", "pd">>}, "abort")
        BY Zenon, <2>2, FormParts
      <3>2. OpenGets(a) = {"pd"}
        BY Zenon, <2>0, <2>2 DEF OpenGets
      <3> QED  BY Zenon, <3>1, <3>2 DEF IsStep
    <2>3. CASE a = 3 /\ e = Calls("open_ib_device", "abort")
      <3>1. IsStep(e, "open_ib_device", {}, {}, {}, "abort")
        BY Zenon, <2>3, FormParts
      <3>2. OpenGets(a) = {}
        BY Zenon, <2>0, <2>3 DEF OpenGets
      <3> QED  BY Zenon, <3>1, <3>2 DEF IsStep
    <2> QED  BY Zenon, <2>1, <2>2, <2>3 DEF OpenCall

  \* Positions within open_ib_device.
  <1>OpenNumbers.
      ASSUME NEW c, NEW a, a = 1 \/ a = 2 \/ a = 3
      PROVE  /\ a \in Nat \ {0} /\ a + 1 \in Nat \ {0} /\ ~(a >= 4) /\ ~(a > CheckAt(c))
             /\ ~(a + 1 > CheckAt(c)) /\ a < CheckAt(c)
             /\ (a + 1 >= 3 => a >= 2) /\ (a >= 3 => a = 3) /\ (a + 1 >= 3 => a = 2 \/ a >= 3)
             /\ a + 1 >= 2 => a = 1 \/ a >= 2
             /\ a + 1 <= (CheckAt(c) + Len(LateScript(c))) + 1
             /\ a + 1 >= 4 => (a + 1) - 4 = 0
             /\ (a + 1 < CheckAt(c) => a < CheckAt(c))
    <2> USE <1>OpenNumbers
    <2>1. CheckAt(c) \in Nat /\ CheckAt(c) >= 4 /\ Len(LateScript(c)) \in Nat
      BY Zenon, ScriptSizes
    <2> QED  BY <2>1

  \* A call of open_ib_device that succeeds.
  <1>GoodOpens.
      ASSUME NEW c, NEW a, NEW L, NEW H, NEW F, NEW sk, NEW e,
             Good(c, a, "running", L, H, F, "init", sk), OpenCall(a, e)
      PROVE  Good(c, a + 1, "running", L \cup e.gets, H \cup e.sets, F, "init", sk)
    <2> USE <1>GoodOpens
    <2> DEFINE G == e.gets
               P == e.sets
    <2>0. a = 1 \/ a = 2 \/ a = 3
      BY Zenon DEF OpenCall
    <2>1. /\ a \in Nat \ {0} /\ a + 1 \in Nat \ {0} /\ ~(a >= 4) /\ ~(a > CheckAt(c))
          /\ ~(a + 1 > CheckAt(c)) /\ a < CheckAt(c)
          /\ (a + 1 >= 3 => a = 2 \/ a >= 3) /\ (a + 1 >= 2 => a = 1 \/ a >= 2)
          /\ a + 1 <= (CheckAt(c) + Len(LateScript(c))) + 1
          /\ a + 1 >= 4 => (a + 1) - 4 = 0
      BY Zenon, <2>0, <1>OpenNumbers
    <2>2. ~InQueues(c, a) /\ ~InLate(c, a) /\ (InQueues(c, a + 1) => a + 1 >= 4)
      BY Zenon, <2>1, ZoneBounds
    <2>3. /\ Core(c, a, "running", L, H, F) /\ Built(c, a, L, H) /\ Runs(c, a, L, H)
          /\ sk # "closed"
      BY Zenon, InitParts
    <2>4. G = OpenGets(a) /\ P = {<<x, x>> : x \in OpenGets(a)}
      BY Zenon, <1>OpenParts
    <2>5. \A x \in G : x = "context" \/ x = "pd"
      BY Zenon, <2>4 DEF OpenGets
    <2>6. \A y \in P : \E x \in G : y = <<x, x>>
      BY Zenon, <2>4
    <2>7. \A x \in G : <<x, x>> \in P
      BY Zenon, <2>4
    <2>8. (a = 1 => "context" \in G) /\ (a = 2 => "pd" \in G)
      <3>1. 1 # 2
        OBVIOUS
      <3> QED  BY Zenon, <2>4, <3>1 DEF OpenGets
    <2>9. "pd" \in G => a >= 2
      <3>1. 2 >= 2
        OBVIOUS
      <3>2. a = 2 => a >= 2
        BY Zenon, <3>1
      <3>3. a = 1 => \A x \in G : x = "context"
        BY Zenon, <2>4 DEF OpenGets
      <3>4. a = 3 => G = {}
        <4>1. 3 # 1 /\ 3 # 2
          OBVIOUS
        <4> QED  BY Zenon, <2>4, <4>1 DEF OpenGets
      <3>5. a = 1 => "pd" \notin G
        BY Zenon, <3>3
      <3>6. a = 3 => "pd" \notin G
        BY Zenon, <3>4
      <3> QED  BY Zenon, <2>0, <3>2, <3>5, <3>6
    <2>10. Core(c, a + 1, "running", L \cup G, H \cup P, F)
      <3>1. Shape(c, G, P)
        <4>1. G \subseteq KnownOf(OpenDvLibs(c))
          BY Zenon, <2>5, KnownRun
        <4> QED  BY Zenon, <2>6, <4>1 DEF Shape
      <3>2. \A x \in L : Loose(c, a, "running", F, x) => Loose(c, a + 1, "running", F, x)
        BY Zenon, <2>1, <2>2, LooseNext
      <3>3. \A y \in P : y[2] \in L \cup G
        BY Zenon, <2>6, AliasParts
      <3>4. ASSUME NEW d \in Needs(c), d[1] \in G PROVE d[2] \in L \cup G
        <4>1. d[1] # "context"
          BY Zenon, NeedsTargets
        <4>2. d[1] = "pd"
          BY Zenon, <2>5, <3>4, <4>1
        <4>3. d[2] = "context"
          BY Zenon, <4>2, NeedsTargets
        <4>4. "context" \in L
          BY Zenon, <2>3, <2>9, <3>4, <4>2 DEF Built
        <4> QED  BY Zenon, <4>3, <4>4
      <3>5. SmokeIn(c, a + 1, "running", H \cup P)
        <4>1. ASSUME NEW x \in Smoke, <<x, x>> \in H PROVE FALSE
          BY Zenon, <2>2, <2>3, <4>1 DEF Core, SmokeIn, InLate
        <4>2. ASSUME NEW x \in Smoke, <<x, x>> \in P PROVE FALSE
          <5>1. x \in G
            BY Zenon, <2>6, <4>2, AliasParts
          <5> QED  BY Zenon, <2>5, <5>1 DEF Smoke
        <4> QED  BY Zenon, <4>1, <4>2 DEF SmokeIn
      <3> QED  BY Zenon, <2>3, <2>7, <3>1, <3>2, <3>3, <3>4, <3>5, CoreGrows
    <2>11. ScqAlias \notin P
      BY Zenon, <2>6, AliasParts
    <2>12. "qp" \notin G /\ "dbr reg" \notin G
      BY Zenon, <2>5
    <2> HIDE DEF G, P
    <2>13. Built(c, a + 1, L \cup G, H \cup P)
      BY Zenon, <2>1, <2>3, <2>8, <2>11, <2>12 DEF Built
    <2>14. FnDone(c, a + 1, L \cup G, H \cup P)
      <3>1. ASSUME InQueues(c, a + 1), NEW j \in 1 .. (a + 1) - 4 PROVE FALSE
        <4>1. (a + 1) - 4 = 0
          BY Zenon, <2>1, <2>2, <3>1
        <4>2. j \in 1 .. 0
          BY Zenon, <3>1, <4>1
        <4> QED  BY <4>2
      <3> QED  BY Zenon, <3>1 DEF FnDone, InQueues
    <2>15. Runs(c, a + 1, L \cup G, H \cup P)
      BY Zenon, <2>1, <2>3, <2>12, <2>14 DEF Runs
    <2>16. Good(c, a + 1, "running", L \cup G, H \cup P, F, "init", sk)
      BY Zenon, <2>1, <2>3, <2>10, <2>13, <2>15, InitBack
    <2> QED  BY Zenon, <2>16 DEF G, P

  \* A late call that succeeds.
  <1>GoodLates.
      ASSUME NEW c, NEW a, NEW L, NEW H, NEW F \in Nat, NEW sk, NEW e,
             Good(c, a, "running", L, H, F, "init", sk), LateCall(c, a, e)
      PROVE  Good(c, a + 1, "running", (L \ e.drops) \cup e.gets, Without(H, e.drops) \cup e.sets,
                  F, "init", sk)
    <2> USE <1>GoodLates
    <2> DEFINE p == OpenDvLibs(c)
               G == e.gets
               P == e.sets
    <2>1. /\ a \in Nat \ {0} /\ Core(c, a, "running", L, H, F) /\ Built(c, a, L, H)
          /\ sk # "closed"
      BY Zenon, InitParts
    <2>2. InLate(c, a) /\ e = LateScript(c)[a - CheckAt(c)]
      BY Zenon DEF LateCall
    <2>3. /\ a > CheckAt(c) /\ a >= CheckAt(c) /\ a + 1 \in Nat \ {0} /\ a + 1 > CheckAt(c)
          /\ a + 1 <= (CheckAt(c) + Len(LateScript(c))) + 1
      BY Zenon, <2>1, <2>2, LateNext
    <2>4. /\ LateKind(c, e)
          /\ e.fn = "smoke" => \/ e.drops = Smoke
                               \/ /\ InLate(c, a + 1)
                                  /\ LateScript(c)[(a + 1) - CheckAt(c)].fn = "smoke"
      BY Zenon, <2>1, LateCalls
    <2>5. Counted(F, F)
      BY Zenon DEF Counted
    <2>6. \A x \in L : Loose(c, a, "running", F, x) => Loose(c, a + 1, "running", F, x)
      BY Zenon, <2>1, <2>3, <2>5, LooseLate
    <2>7. CASE e.drops = Smoke /\ G = {} /\ P = {}
      <3>1. SmokeIn(c, a + 1, "running", Without(H, Smoke))
        <4>1. \A x \in Smoke : <<x, x>> \notin Without(H, Smoke)
          BY Zenon, AliasParts DEF Without
        <4> QED  BY Zenon, <4>1 DEF SmokeIn
      <3>2. \A d \in Needs(c) : d[2] \notin Smoke
        BY Zenon, NeedsTargets
      <3>3. \A x \in {"context", "pd", "qp", "scq cq", "rcq cq", "db attr"} : x \notin Smoke
        BY Zenon DEF Smoke
      <3>4. "scq cq" \notin Smoke /\ "host qp" \notin Smoke
        BY Zenon DEF Smoke
      <3>5. Core(c, a + 1, "running", L \ Smoke, Without(H, Smoke), F)
        BY Zenon, <2>1, <2>6, <3>1, <3>2, <3>4, CoreShrinks
      <3>6. Built(c, a + 1, L \ Smoke, Without(H, Smoke))
        <4>1. ScqAlias \in Without(H, Smoke) => ScqAlias \in H
          BY Zenon DEF Without
        <4> QED  BY Zenon, <2>1, <2>3, <3>3, <4>1, BuiltLate
      <3>7. Runs(c, a + 1, L \ Smoke, Without(H, Smoke))
        BY Zenon, <2>3, RunsLate
      <3>8. Good(c, a + 1, "running", L \ Smoke, Without(H, Smoke), F, "init", sk)
        BY Zenon, <2>1, <2>3, <3>5, <3>6, <3>7, InitBack
      <3>9. (L \ e.drops) \cup G = L \ Smoke /\ Without(H, e.drops) \cup P = Without(H, Smoke)
        BY Zenon, <2>7
      <3> QED  BY Zenon, <3>8, <3>9
    <2>8. CASE e.drops = {}
      <3>1. G \subseteq KnownOf(p) \cup Unkept(p) /\ G \subseteq LateNames
        BY Zenon, <2>4 DEF LateKind
      <3>2. \A y \in P : y = ViewAlias \/ \E x \in G \cap KnownOf(p) : y = <<x, x>>
        BY Zenon, <2>4 DEF LateKind
      <3>3. \A x \in G : <<x, x>> \in P \/ Loose(c, a + 1, "running", F, x)
        BY Zenon, <2>4 DEF LateKind, Loose
      <3>4. Shape(c, G, P)
        BY Zenon, <3>1, <3>2 DEF Shape
      <3>5. \A y \in P : InOrder(c, y[1]) => y[2] \in L \cup G
        <4>1. ~InOrder(c, "device view")
          <5>1. OrderFacts(c, ShutdownOrder(c))
            BY Zenon, OrderOk
          <5> QED  BY Zenon, <5>1 DEF InOrder, OrderFacts
        <4> QED  BY Zenon, <3>2, <4>1, AliasParts
      <3>6. ASSUME NEW d \in Needs(c), d[1] \in G PROVE d[2] \in L \cup G
        <4>1. LateNeed(p, d[2])
          BY Zenon, <3>1, <3>6, <1>LateNeeds
        <4>2. "qp" \in L
          BY Zenon, <2>1, <2>3 DEF Built
        <4>3. p = "bnxt" => "db attr" \in L
          BY Zenon, <2>1, <4>2 DEF Built
        <4>4. p = "mlx5" => "cq_" \in L
          <5>1. p = "mlx5" => <<"qp", "cq_">> \in Needs(c)
            BY Zenon DEF Needs
          <5>2. <<"qp", "cq_">>[1] = "qp" /\ <<"qp", "cq_">>[2] = "cq_"
            OBVIOUS
          <5> QED  BY Zenon, <2>1, <4>2, <5>1, <5>2 DEF Core, Backed
        <4> QED  BY Zenon, <4>1, <4>2, <4>3, <4>4 DEF LateNeed
      <3>7. SmokeIn(c, a + 1, "running", H \cup P)
        <4>1. ASSUME NEW x \in Smoke, <<x, x>> \in H PROVE e.fn = "smoke"
          BY Zenon, <2>1, <2>2, <4>1 DEF Core, SmokeIn
        <4>2. ASSUME NEW x \in Smoke, <<x, x>> \in P PROVE e.fn = "smoke"
          <5>1. x \in G
            BY Zenon, <3>2, <4>2, AliasParts
          <5> QED  BY Zenon, <2>4, <4>2, <5>1 DEF LateKind
        <4>3. e.drops # Smoke
          BY Zenon, <2>8 DEF Smoke
        <4>4. ASSUME NEW x \in Smoke, <<x, x>> \in H \cup P
              PROVE  InLate(c, a + 1) /\ LateScript(c)[(a + 1) - CheckAt(c)].fn = "smoke"
          BY Zenon, <2>4, <4>1, <4>2, <4>3, <4>4
        <4> QED  BY Zenon, <4>4 DEF SmokeIn, InLate
      <3>8. Core(c, a + 1, "running", L \cup G, H \cup P, F)
        BY Zenon, <2>1, <2>6, <3>3, <3>4, <3>5, <3>6, <3>7, CoreGrows
      <3>9. Built(c, a + 1, L \cup G, H \cup P)
        <4>1. ScqAlias \in H \cup P => ScqAlias \in H
          BY Zenon, <3>2, AliasParts
        <4> QED  BY Zenon, <2>1, <2>3, <4>1, BuiltLate
      <3>10. Runs(c, a + 1, L \cup G, H \cup P)
        BY Zenon, <2>3, RunsLate
      <3>11. Good(c, a + 1, "running", L \cup G, H \cup P, F, "init", sk)
        BY Zenon, <2>1, <2>3, <3>8, <3>9, <3>10, InitBack
      <3>12. (L \ e.drops) \cup G = L \cup G /\ Without(H, e.drops) \cup P = H \cup P
        BY Zenon, <2>8 DEF Without
      <3> QED  BY Zenon, <3>11, <3>12
    <2> QED  BY Zenon, <2>4, <2>7, <2>8 DEF LateKind

  <1> SUFFICES ASSUME RunInv, NEW n \in Nodes, stage[n] = "init", UNCHANGED <<stage, sock>>, InitStepOk(n)
               PROVE  RunInv'
    OBVIOUS
  <1> USE Zenon
  <1> DEFINE e == NextStep(n)
  <1>1. /\ e.fn \notin {"check qp", "setup_qp_loopback"} /\ Possible(n, e) /\ Running(n)
        /\ UNCHANGED <<config_, result, faults>>
    BY DEF InitStepOk
  <1>2. PICK L2 : L2 = (live[n] \ e.drops) \cup e.gets
    OBVIOUS
  <1>3. PICK H2 : H2 = Without(held[n], e.drops) \cup e.sets
    OBVIOUS
  <1>4. live' = [live EXCEPT ![n] = L2] /\ at' = [at EXCEPT ![n] = at[n] + 1]
    BY <1>2 DEF InitStepOk
  <1>5. held' = [held EXCEPT ![n] = H2]
    <2>1. Without(held[n], e.drops) = {y \in held[n] : y[1] \notin e.drops}
      BY DEF Without
    <2> QED  BY <1>3, <2>1 DEF InitStepOk
  <1>6. /\ Good(config_[n], at[n], "running", live[n], held[n], faults, "init", sock[n])
        /\ result[n] = "running" /\ faults \in Nat
    BY <1>1, InitNode
  <1>7. Good(config_[n], at[n] + 1, "running", L2, H2, faults, "init", sock[n])
    <2>1. CASE OpenCall(at[n], e)
      <3>1. e.drops = {}
        BY <2>1, <1>OpenParts
      <3>2. L2 = live[n] \cup e.gets
        BY <1>2, <3>1
      <3>3. H2 = held[n] \cup e.sets
        BY <1>3, <3>1 DEF Without
      <3> QED  BY <1>6, <2>1, <3>2, <3>3, <1>GoodOpens
    <2>2. CASE QueueCall(config_[n], at[n], e)
      <3>1. "qp" \in e.gets => \E y \in held[n] : y[1] = "cq_"
        BY <1>1, FieldIs DEF Possible
      <3> QED  BY <1>2, <1>3, <1>6, <2>2, <3>1, GoodQueues
    <2>3. CASE CheckCall(config_[n], at[n], e)
      BY <1>1, <2>3, CheckCalls
    <2>4. CASE LateCall(config_[n], at[n], e)
      BY <1>2, <1>3, <1>6, <2>4, <1>GoodLates
    <2> QED  BY <1>1, <2>1, <2>2, <2>3, <2>4, InitNode
  <1>8. /\ Upd(at', at, n, at[n] + 1) /\ Upd(live', live, n, L2) /\ Upd(held', held, n, H2)
    BY <1>4, <1>5, Changed
  <1>9. Upd(result', result, n, "running") /\ Counted(faults, faults')
    BY <1>1, <1>6, Same
  <1>10. Good(config_[n], at[n] + 1, "running", L2, H2, faults', "init", sock[n])
    BY <1>1, <1>7
  <1> QED  BY <1>1, <1>8, <1>9, <1>10, InitMoves

-----------------------------------------------------------------------------
(* A call of init() that fails.                                            *)

\* A failing call of open_ib_device aborts.
LEMMA OpenCalls ==
    ASSUME NEW a, NEW e, OpenCall(a, e)
    PROVE  e.fn = "open_ib_device" /\ e.fail = "abort"
  <1> USE Zenon
  <1>1. ASSUME NEW r, e = Gets("open_ib_device", r, "abort")
        PROVE  e.fn = "open_ib_device" /\ e.fail = "abort"
    <2>1. IsStep(e, "open_ib_device", {}, {r}, {<<r, r>>}, "abort")
      BY <1>1, FormParts
    <2> QED  BY <2>1 DEF IsStep
  <1>2. ASSUME e = Calls("open_ib_device", "abort")
        PROVE  e.fn = "open_ib_device" /\ e.fail = "abort"
    <2>1. IsStep(e, "open_ib_device", {}, {}, {}, "abort")
      BY <1>2, FormParts
    <2> QED  BY <2>1 DEF IsStep
  <1> QED  BY <1>1, <1>2 DEF OpenCall

AfterIn(s, a, f) ==
  LET later == {i \in a .. Len(s) : s[i].fn # f}
  IN  IF later = {} THEN Len(s) + 1 ELSE First(later)

\* b is the first place after a of another function.
IsAfter(s, a, b) ==
  /\ b \in Nat /\ b > a /\ b <= Len(s) + 1
  /\ \A j \in a .. b - 1 : s[j].fn = s[a].fn
  /\ b <= Len(s) => s[b].fn # s[a].fn

\* Only within the smoke test are its buffers held.
LEMMA NoSmoke ==
    ASSUME NEW c, NEW a, NEW H, SmokeIn(c, a, "running", H), NEW e, LateCall(c, a, e),
           e.fn # "smoke"
    PROVE  \A x \in Smoke : <<x, x>> \notin H
  BY Zenon DEF SmokeIn, LateCall

\* A late call that acquires nothing: it gives up at most the GPU QueuePair.
LEMMA GoodMoves ==
    ASSUME NEW c, NEW a, NEW L, NEW H, NEW F, NEW sk, NEW e,
           Good(c, a, "running", L, H, F, "init", sk), LateCall(c, a, e), e.fn # "smoke",
           NEW b \in Nat \ {0}, b > CheckAt(c), b <= (CheckAt(c) + Len(LateScript(c))) + 1,
           NEW N, N \subseteq {"gpu qp"}, NEW F2, Counted(F, F2)
    PROVE  Good(c, b, "running", L \ N, Without(H, N), F2, "init", sk)
  <1> USE Zenon
  <1>1. /\ a \in Nat \ {0} /\ Core(c, a, "running", L, H, F) /\ Built(c, a, L, H)
        /\ sk # "closed"
    BY InitParts
  <1>2. InLate(c, a) /\ a > CheckAt(c)
    BY <1>1, ZoneBounds DEF LateCall
  <1>3. a >= CheckAt(c)
    BY <1>1, <1>2, LateNext
  <1>4. \A x \in L : Loose(c, a, "running", F, x) => Loose(c, b, "running", F2, x)
    BY <1>1, <1>3, LooseLate
  <1>5. SmokeIn(c, b, "running", Without(H, N))
    <2>1. \A x \in Smoke : <<x, x>> \notin H
      BY <1>1, NoSmoke DEF Core
    <2> QED  BY <2>1 DEF SmokeIn, Without
  <1>6. \A d \in Needs(c) : d[2] \notin N
    BY NeedsTargets
  <1>7. Core(c, b, "running", L \ N, Without(H, N), F2)
    <2>1. "scq cq" \notin N /\ "host qp" \notin N
      OBVIOUS
    <2> QED  BY <1>1, <1>4, <1>5, <1>6, <2>1, CoreShrinks
  <1>8. Built(c, b, L \ N, Without(H, N))
    <2>1. \A x \in {"context", "pd", "qp", "scq cq", "rcq cq", "db attr"} : x \in L => x \in L \ N
      OBVIOUS
    <2>2. ScqAlias \in Without(H, N) => ScqAlias \in H
      BY DEF Without
    <2> QED  BY <1>1, <1>2, <2>1, <2>2, BuiltLate
  <1>9. Runs(c, b, L \ N, Without(H, N))
    BY RunsLate
  <1> QED  BY <1>1, <1>7, <1>8, <1>9, InitBack

\* init() goes on elsewhere with what it has.
LEMMA CoreMoves ==
    ASSUME NEW c, NEW a, NEW r, NEW L, NEW H, NEW F, Core(c, a, r, L, H, F),
           NEW a2, NEW r2, NEW F2,
           \A x \in L : Loose(c, a, r, F, x) => Loose(c, a2, r2, F2, x),
           \A x \in Smoke : <<x, x>> \notin H
    PROVE  Core(c, a2, r2, L, H, F2)
  BY Zenon DEF Core, Kept, SmokeIn

\* init() returns 0.
LEMMA GoodOk ==
    ASSUME NEW c, NEW a, NEW L, NEW H, NEW F, NEW sk,
           Good(c, a, "running", L, H, F, "init", sk), a > CheckAt(c), a >= CheckAt(c),
           \A x \in Smoke : <<x, x>> \notin H, NEW F2, Counted(F, F2)
    PROVE  Good(c, a, "ok", L, H, F2, "init", sk)
  <1> USE Zenon
  <1>1. /\ a \in Nat \ {0} /\ Core(c, a, "running", L, H, F) /\ Built(c, a, L, H)
        /\ sk # "closed"
    BY InitParts
  <1>2. \A x \in L : Loose(c, a, "running", F, x) => Loose(c, a, "ok", F2, x)
    BY <1>1, LooseLate
  <1>3. Core(c, a, "ok", L, H, F2)
    BY <1>1, <1>2, CoreMoves
  <1> QED  BY <1>1, <1>3 DEF Good, Control

\* init() goes on with the next call.
LEMMA OnwardKeeps ==
    ASSUME RunInv, NEW n \in Nodes, stage[n] = "init", UNCHANGED <<config_, stage, sock>>,
           Running(n), LateCall(config_[n], at[n], NextStep(n)), NextStep(n).fn # "smoke",
           NEW N, N \subseteq {"gpu qp"}, Upd(live', live, n, live[n] \ N),
           Upd(held', held, n, Without(held[n], N)),
           at' = [at EXCEPT ![n] = at[n] + 1], UNCHANGED result, Counted(faults, faults')
    PROVE  RunInv'
  <1> USE Zenon
  <1>1. /\ Good(config_[n], at[n], "running", live[n], held[n], faults, "init", sock[n])
        /\ result[n] = "running"
    BY InitNode
  <1>2. at[n] \in Nat \ {0}
    BY <1>1, InitParts
  <1>3. PICK b : b = at[n] + 1
    OBVIOUS
  <1>4. /\ b \in Nat \ {0} /\ b > CheckAt(config_[n])
        /\ b <= (CheckAt(config_[n]) + Len(LateScript(config_[n]))) + 1
    BY <1>2, <1>3, LateNext DEF LateCall
  <1>5. Good(config_[n], b, "running", live[n] \ N, Without(held[n], N), faults', "init", sock[n])
    BY <1>1, <1>4, GoodMoves
  <1>6. Upd(at', at, n, b)
    BY <1>3, Changed
  <1>7. Upd(result', result, n, "running")
    BY <1>1, Same
  <1> QED  BY <1>5, <1>6, <1>7, InitMoves

\* A call of init() fails: it aborts, leaves its function, returns from init()
\* or returns an error, as the checks of that file do.
LEMMA InitStepFailsKeeps ==
    \A n \in Nodes :
      /\ RunInv
      /\ stage[n] = "init"
      /\ UNCHANGED <<stage, sock>>
      /\ InitStepFails(n)
      => RunInv'
  \* Where init() goes on after leaving a function.
  <1>AfterFacts.
      ASSUME NEW s, Len(s) \in Nat, NEW a \in 1 .. Len(s), NEW b, b = AfterIn(s, a, s[a].fn)
      PROVE  IsAfter(s, a, b)
    <2> USE <1>AfterFacts
    <2> DEFINE later == {i \in a .. Len(s) : s[i].fn # s[a].fn}
    <2>1. CASE later = {}
      <3>1. b = Len(s) + 1
        BY Zenon, <2>1 DEF AfterIn
      <3>2. \A j \in a .. Len(s) : s[j].fn = s[a].fn
        BY Zenon, <2>1
      <3>3. b - 1 = Len(s)
        BY <3>1
      <3>4. \A j \in a .. b - 1 : s[j].fn = s[a].fn
        BY Zenon, <3>2, <3>3
      <3>5. b \in Nat /\ b > a /\ b <= Len(s) + 1 /\ ~(b <= Len(s))
        BY <3>1
      <3> QED  BY Zenon, <3>4, <3>5 DEF IsAfter
    <2>2. CASE later # {}
      <3>0. b = First(later)
        BY Zenon, <2>2 DEF AfterIn
      <3>1. later \in SUBSET Nat
        OBVIOUS
      <3>2. b \in later /\ \A j \in later : b <= j
        BY Zenon, <2>2, <3>0, <3>1, FirstIsLeast
      <3>3. b \in a .. Len(s) /\ s[b].fn # s[a].fn
        BY Zenon, <3>2
      <3>4. b # a
        BY Zenon, <3>3
      <3>5. b \in Nat /\ b > a /\ b <= Len(s) + 1
        BY <3>3, <3>4
      <3>6. ASSUME NEW j \in a .. b - 1 PROVE s[j].fn = s[a].fn
        <4>1. j \in a .. Len(s) /\ ~(b <= j)
          BY <3>3
        <4> QED  BY Zenon, <3>2, <4>1
      <3> QED  BY Zenon, <3>3, <3>5, <3>6 DEF IsAfter
    <2> QED  BY Zenon, <2>1, <2>2

  \* Leaving a function of create_queues leads to the next one, or to the check.
  <1>LeaveQueues.
      ASSUME NEW c, NEW a \in Nat \ {0}, NEW e, QueueCall(c, a, e), e = InitScript(c)[a],
             NEW b, b = AfterIn(InitScript(c), a, e.fn)
      PROVE  /\ b \in Nat \ {0} /\ b > a /\ b <= CheckAt(c)
             /\ \A L, H : FnDone(c, b, L, H)
    <2> USE <1>LeaveQueues
    <2>1. PICK s, q, n, k : /\ s = InitScript(c) /\ q = CreateQueues(c) /\ k = CheckAt(c)
                            /\ n = Len(CreateQueues(c))
      BY Zenon
    <2>2. n \in Nat /\ DOMAIN q = 1 .. n /\ k = n + 4
      BY Zenon, <2>1, ScriptSizes
    <2>3. a >= 4 /\ a < k
      BY Zenon, <2>1, ZoneBounds DEF QueueCall
    <2>4. Len(s) = k + Len(LateScript(c)) /\ Len(LateScript(c)) \in Nat
      BY Zenon, <2>1, ScriptSizes
    <2>5. a \in 1 .. Len(s) /\ k \in 1 .. Len(s) /\ Len(s) \in Nat
      BY <2>2, <2>3, <2>4
    <2>6. /\ b \in Nat /\ b > a /\ b <= Len(s) + 1
          /\ \A j \in a .. b - 1 : s[j].fn = s[a].fn
          /\ b <= Len(s) => s[b].fn # s[a].fn
      <3>1. IsAfter(s, a, b)
        BY Zenon, <2>1, <2>5, <1>AfterFacts
      <3> QED  BY Zenon, <3>1 DEF IsAfter
    <2>7. s[k].fn # s[a].fn
      <3>1. s[k] = Calls("check qp", "never")
        BY Zenon, <2>1, ScriptParts DEF IsScript, CheckAt
      <3>2. CheckCall(c, k, s[k])
        BY Zenon, <2>1, <3>1 DEF CheckCall
      <3>3. s[k].fn = "check qp"
        BY Zenon, <3>2, CheckCalls
      <3>4. CreateKind(OpenDvLibs(c), s[a])
        BY Zenon, <2>1, QueueCalls
      <3> QED  BY Zenon, <3>3, <3>4 DEF CreateKind
    <2>8. b <= k
      <3>1. k \in a .. b - 1 => FALSE
        BY Zenon, <2>6, <2>7
      <3> QED  BY <2>2, <2>3, <2>6, <3>1
    <2>9. \A j \in 1 .. n : s[j + 3] = q[j]
      BY Zenon, <2>1, ScriptParts DEF IsScript
    <2>10. PICK i, i2 : i = a - 3 /\ i2 = b - 3
      BY Zenon
    <2>11. PICK m \in Nat : \E f, g : f # g /\ \A j \in DOMAIN q : q[j].fn = IF j <= m THEN f ELSE g
      <3>1. QueueFacts(c, q)
        BY Zenon, <2>1, QueuesOk
      <3>2. TwoParts(q)
        BY Zenon, <3>1 DEF QueueFacts
      <3> QED  BY Zenon, <3>2 DEF TwoParts
    <2>12. PICK f, g : f # g /\ \A j \in DOMAIN q : q[j].fn = IF j <= m THEN f ELSE g
      BY Zenon, <2>11
    <2>13. ASSUME i2 \in DOMAIN q, NEW j \in 1 .. b - 4, q[j].fn = q[i2].fn PROVE FALSE
      <3>1. /\ i \in 1 .. n /\ i2 \in 1 .. n /\ j \in 1 .. n /\ i < i2 /\ j < i2
            /\ i + 3 = a /\ i2 + 3 = b /\ j \in Nat
        BY <2>2, <2>3, <2>6, <2>10, <2>13
      <3>2. q[i] = s[a] /\ q[i2] = s[b] /\ q[j] = s[j + 3]
        BY Zenon, <2>9, <3>1
      <3>3. b <= Len(s)
        BY <2>2, <2>4, <2>5, <2>6, <3>1
      <3>4. q[i2].fn # q[i].fn
        BY Zenon, <2>6, <3>2, <3>3
      <3>5. ~(j + 3 \in a .. b - 1)
        BY Zenon, <2>6, <2>13, <3>2, <3>4
      <3>6. j < i
        BY <2>2, <2>3, <2>6, <3>1, <3>5
      <3>7. q[j].fn = (IF j <= m THEN f ELSE g) /\ q[i].fn = (IF i <= m THEN f ELSE g)
            /\ q[i2].fn = (IF i2 <= m THEN f ELSE g)
        BY Zenon, <2>2, <2>12, <3>1
      <3>8. (i <= m => j <= m) /\ (i2 <= m => i <= m)
        BY <3>1, <3>6
      <3> QED  BY Zenon, <2>12, <2>13, <3>4, <3>7, <3>8
    <2>14. ASSUME NEW L, NEW H PROVE FnDone(c, b, L, H)
      BY Zenon, <2>1, <2>10, <2>13 DEF FnDone
    <2>15. b \in Nat \ {0}
      BY <2>3, <2>6
    <2> QED  BY Zenon, <2>1, <2>6, <2>8, <2>14, <2>15

  \* Leaving a later function leads on, and not past the end.
  <1>LeaveLate.
      ASSUME NEW c, NEW a \in Nat \ {0}, NEW e, LateCall(c, a, e), e = InitScript(c)[a],
             NEW b, b = AfterIn(InitScript(c), a, e.fn)
      PROVE  /\ b \in Nat \ {0} /\ b > a /\ b > CheckAt(c)
             /\ b <= (CheckAt(c) + Len(LateScript(c))) + 1
    <2> USE <1>LeaveLate
    <2>1. PICK s : s = InitScript(c)
      BY Zenon
    <2>2. a > CheckAt(c) /\ a <= CheckAt(c) + Len(LateScript(c))
      BY Zenon, ZoneBounds DEF LateCall
    <2>3. /\ Len(s) = CheckAt(c) + Len(LateScript(c)) /\ Len(LateScript(c)) \in Nat
          /\ CheckAt(c) \in Nat
      BY Zenon, <2>1, ScriptSizes
    <2>4. a \in 1 .. Len(s) /\ Len(s) \in Nat
      BY <2>2, <2>3
    <2>5. b \in Nat /\ b > a /\ b <= Len(s) + 1
      <3>1. IsAfter(s, a, b)
        BY Zenon, <2>1, <2>4, <1>AfterFacts
      <3> QED  BY Zenon, <3>1 DEF IsAfter
    <2> QED  BY <2>2, <2>3, <2>5

  \* After a failing call the umems may have no field.
  <1>LooseFault.
      ASSUME NEW c, NEW a, NEW r, NEW F \in Nat, NEW x, Loose(c, a, r, F, x), NEW a2, NEW r2
      PROVE  Loose(c, a2, r2, F + 1, x)
    <2> USE <1>LooseFault
    <2>1. F + 1 > 0
      OBVIOUS
    <2> QED  BY Zenon, <2>1 DEF Loose

  \* init() returns true without the rest.
  <1>GoodReturnsEarly.
      ASSUME NEW c, NEW a, NEW L, NEW H, NEW F, NEW sk, NEW e,
             Good(c, a, "running", L, H, F, "init", sk), LateCall(c, a, e), e.fn # "smoke",
             NEW F2, Counted(F, F2)
      PROVE  Good(c, a, "ok", L, H, F2, "init", sk)
    <2> USE Zenon, <1>GoodReturnsEarly
    <2>1. a \in Nat \ {0} /\ Core(c, a, "running", L, H, F)
      BY InitParts
    <2>2. a > CheckAt(c) /\ a >= CheckAt(c)
      BY <2>1, LateNext DEF LateCall
    <2>3. \A x \in Smoke : <<x, x>> \notin H
      BY <2>1, NoSmoke DEF Core
    <2> QED  BY <2>2, <2>3, GoodOk

  \* A failing call of the smoke test: init() returns -1.
  <1>GoodSmokeFails.
      ASSUME NEW c, NEW a, NEW L, NEW H, NEW F, NEW sk, NEW e,
             Good(c, a, "running", L, H, F, "init", sk), LateCall(c, a, e),
             NEW F2, Counted(F, F2)
      PROVE  Good(c, a, "error", L \ Smoke, Without(H, Smoke), F2, "init", sk)
    <2> USE Zenon, <1>GoodSmokeFails
    <2>1. a \in Nat \ {0} /\ Core(c, a, "running", L, H, F) /\ sk # "closed"
      BY InitParts
    <2>2. a >= CheckAt(c)
      BY <2>1, LateNext DEF LateCall
    <2>3. \A x \in L : Loose(c, a, "running", F, x) => Loose(c, a, "error", F2, x)
      BY <2>1, <2>2, LooseLate
    <2>4. SmokeIn(c, a, "error", Without(H, Smoke))
      <3>1. \A x \in Smoke : <<x, x>> \notin Without(H, Smoke)
        BY AliasParts DEF Without
      <3> QED  BY <3>1 DEF SmokeIn
    <2>5. \A d \in Needs(c) : d[2] \notin Smoke
      BY NeedsTargets
    <2>6. "scq cq" \notin Smoke /\ "host qp" \notin Smoke
      BY DEF Smoke
    <2>7. Core(c, a, "error", L \ Smoke, Without(H, Smoke), F2)
      BY <2>1, <2>3, <2>4, <2>5, <2>6, CoreShrinks
    <2> QED  BY <2>1, <2>7 DEF Good, Control

  \* A function of create_queues is left.
  <1>GoodLeavesQueues.
      ASSUME NEW c, NEW a, NEW L, NEW H, NEW F \in Nat, NEW sk, NEW e,
             Good(c, a, "running", L, H, F, "init", sk), QueueCall(c, a, e), e = InitScript(c)[a],
             NEW b, b = AfterIn(InitScript(c), a, e.fn),
             NEW F2, F2 = F + 1 \/ (F2 = F /\ "qp" \in e.gets)
      PROVE  Good(c, b, "running", L \ e.drops, Without(H, e.drops), F2, "init", sk)
    <2> USE <1>GoodLeavesQueues
    <2> DEFINE N == e.drops
    <2>1. /\ a \in Nat \ {0} /\ Core(c, a, "running", L, H, F) /\ Built(c, a, L, H)
          /\ Runs(c, a, L, H) /\ sk # "closed"
      BY Zenon, InitParts
    <2>2. a >= 2 /\ a >= 3 /\ a < CheckAt(c) /\ ~InLate(c, a)
      BY Zenon, <2>1, QueueNumbers DEF QueueCall
    <2>3. b \in Nat \ {0} /\ b <= CheckAt(c) /\ \A L2, H2 : FnDone(c, b, L2, H2)
      BY Zenon, <2>1, <1>LeaveQueues
    <2>4. ~(b > CheckAt(c)) /\ b <= (CheckAt(c) + Len(LateScript(c))) + 1
      <3>1. CheckAt(c) \in Nat /\ Len(LateScript(c)) \in Nat
        BY Zenon, ScriptSizes
      <3>2. b \in Nat /\ b <= CheckAt(c)
        BY Zenon, <2>3
      <3> HIDE <2>1, <2>3
      <3> QED  BY <3>1, <3>2
    <2>5. N \subseteq {"db attr"}
      <3>1. CreateKind(OpenDvLibs(c), e)
        BY Zenon, <2>1, QueueCalls
      <3> QED  BY Zenon, <3>1 DEF CreateKind
    <2>6. \A x \in L : Loose(c, a, "running", F, x) => Loose(c, b, "running", F2, x)
      <3>1. CASE F2 = F + 1
        BY Zenon, <3>1, <1>LooseFault
      <3>2. CASE F2 = F /\ "qp" \in e.gets
        <4>1. ~FillAhead(c, a)
          BY Zenon, <2>1, <3>2, FillAheadFacts
        <4> QED  BY Zenon, <3>2, <4>1 DEF Loose
      <3> QED  BY Zenon, <3>1, <3>2
    <2>7. "qp" \notin L /\ "dbr reg" \notin L
      BY Zenon, <2>1, <2>2 DEF Runs
    <2>8. \A d \in Needs(c) : d[2] \in N => d[1] \notin L
      BY Zenon, <2>5, <2>7, NeedsTargets
    <2>9. SmokeIn(c, b, "running", Without(H, N))
      <3>1. \A x \in Smoke : <<x, x>> \notin H
        BY Zenon, <2>1, <2>2 DEF Core, SmokeIn, InLate
      <3> QED  BY Zenon, <3>1 DEF SmokeIn, Without
    <2>10. "scq cq" \notin N /\ "host qp" \notin N
      BY Zenon, <2>5
    <2>11. Core(c, b, "running", L \ N, Without(H, N), F2)
      BY Zenon, <2>1, <2>6, <2>8, <2>9, <2>10, CoreShrinks
    <2>12. Built(c, b, L \ N, Without(H, N))
      <3>1. "context" \in L \ N /\ "pd" \in L \ N
        BY Zenon, <2>1, <2>2, <2>5 DEF Built
      <3>2. ScqAlias \in Without(H, N) => {"scq cq", "rcq cq"} \subseteq L \ N
        <4>1. ScqAlias \in Without(H, N) => ScqAlias \in H
          BY Zenon DEF Without
        <4>2. ScqAlias \in H => "scq cq" \in L /\ "rcq cq" \in L
          BY Zenon, <2>1 DEF Built
        <4>3. "rcq cq" \notin N
          BY Zenon, <2>5
        <4> QED  BY Zenon, <2>10, <4>1, <4>2, <4>3
      <3> QED  BY Zenon, <2>4, <2>7, <3>1, <3>2 DEF Built
    <2>13. Runs(c, b, L \ N, Without(H, N))
      BY Zenon, <2>3, <2>4, <2>7 DEF Runs
    <2> QED  BY Zenon, <2>1, <2>3, <2>11, <2>12, <2>13, InitBack

  \* The next function, of process n.
  <1>AfterIs.
      ASSUME RunInv, NEW n \in Nodes, NEW f
      PROVE  After(n, f) = AfterIn(InitScript(config_[n]), at[n], f)
    <2> USE <1>AfterIs
    <2>1. ScriptOf[config_[n]] = InitScript(config_[n])
      BY Zenon, NodeIs
    <2> QED  BY Zenon, <2>1 DEF After, AfterIn

  \* What is given up.
  <1>GiveUpIs.
      ASSUME RunInv, NEW n \in Nodes, NEW N, GiveUp(n, N)
      PROVE  Upd(live', live, n, live[n] \ N) /\ Upd(held', held, n, Without(held[n], N))
    <2> USE Zenon, <1>GiveUpIs
    <2>1. Without(held[n], N) = {y \in held[n] : y[1] \notin N}
      BY DEF Without
    <2>2. live' = [live EXCEPT ![n] = live[n] \ N] /\ held' = [held EXCEPT ![n] = Without(held[n], N)]
      BY <2>1 DEF GiveUp
    <2> QED  BY <2>2, Changed

  \* What a failing call of init() may do, by where it is.
  <1>FailKinds.
      ASSUME RunInv, NEW n \in Nodes, stage[n] = "init", Running(n), NEW e, e = NextStep(n)
      PROVE  /\ e.fail = "leave" =>
                  QueueCall(config_[n], at[n], e) \/ LateCall(config_[n], at[n], e)
             /\ e.fail \in {"error", "return", "forget"} => LateCall(config_[n], at[n], e)
             /\ LateCall(config_[n], at[n], e) =>
                  /\ e.fail # "error" => e.fn # "smoke" /\ e.drops = {}
    <2> USE Zenon, <1>FailKinds
    <2>1. \/ OpenCall(at[n], e) \/ QueueCall(config_[n], at[n], e)
          \/ CheckCall(config_[n], at[n], e) \/ LateCall(config_[n], at[n], e)
      BY InitNode
    <2>2. at[n] \in Nat \ {0}
      BY InitNode, InitParts
    <2>3. OpenCall(at[n], e) => e.fail = "abort"
      BY OpenCalls
    <2>4. CheckCall(config_[n], at[n], e) => e.fail = "never"
      BY CheckCalls
    <2>5. QueueCall(config_[n], at[n], e) => e.fail \in {"leave", "abort", "never"}
      BY <2>2, QueueCalls DEF CreateKind
    <2>6. LateCall(config_[n], at[n], e) => LateKind(config_[n], e)
      BY <2>2, LateCalls
    <2>7. LateKind(config_[n], e) /\ e.fail # "error" => e.fn # "smoke" /\ e.drops = {}
      BY DEF LateKind
    <2>8. e.fail = "leave" => QueueCall(config_[n], at[n], e) \/ LateCall(config_[n], at[n], e)
      BY <2>1, <2>3, <2>4
    <2>9. e.fail \in {"error", "return", "forget"} => LateCall(config_[n], at[n], e)
      <3>1. CASE e.fail = "error" \/ e.fail = "return"
        BY <2>1, <2>3, <2>4, <2>5, <3>1
      <3>2. CASE e.fail = "forget"
        BY <2>1, <2>3, <2>4, <2>5, <3>2
      <3> QED  BY <3>1, <3>2
    <2> QED  BY <2>6, <2>7, <2>8, <2>9

  \* A function is left.
  <1>LeaveKeeps.
      ASSUME RunInv, NEW n \in Nodes, stage[n] = "init", UNCHANGED <<config_, stage, sock>>,
             Running(n), NEW e, e = NextStep(n), e.fail = "leave", GiveUp(n, e.drops),
             at' = [at EXCEPT ![n] = After(n, e.fn)], UNCHANGED result,
             faults' = faults + 1 \/ (faults' = faults /\ "qp" \in e.gets)
      PROVE  RunInv'
    <2> USE <1>LeaveKeeps
    <2>1. /\ Good(config_[n], at[n], "running", live[n], held[n], faults, "init", sock[n])
          /\ result[n] = "running" /\ faults \in Nat /\ e = InitScript(config_[n])[at[n]]
      BY Zenon, InitNode
    <2>2. PICK b : b = AfterIn(InitScript(config_[n]), at[n], e.fn)
      BY Zenon
    <2>3. Counted(faults, faults')
      BY Zenon, Same
    <2>4. Good(config_[n], b, "running", live[n] \ e.drops, Without(held[n], e.drops), faults',
               "init", sock[n])
      <3>1. CASE QueueCall(config_[n], at[n], e)
        BY Zenon, <2>1, <2>2, <3>1, <1>GoodLeavesQueues
      <3>2. CASE LateCall(config_[n], at[n], e)
        <4>1. at[n] \in Nat \ {0}
          BY Zenon, <2>1, InitParts
        <4>2. /\ b \in Nat \ {0} /\ b > CheckAt(config_[n])
              /\ b <= (CheckAt(config_[n]) + Len(LateScript(config_[n]))) + 1
          BY Zenon, <2>1, <2>2, <3>2, <4>1, <1>LeaveLate
        <4>3. "leave" # "error"
          OBVIOUS
        <4>4. e.fn # "smoke" /\ e.drops = {}
          BY Zenon, <3>2, <4>3, <1>FailKinds
        <4>5. e.drops \subseteq {"gpu qp"}
          BY Zenon, <4>4
        <4> QED  BY Zenon, <2>1, <2>3, <3>2, <4>2, <4>4, <4>5, GoodMoves
      <3> QED  BY Zenon, <3>1, <3>2, <1>FailKinds
    <2>5. Upd(at', at, n, b)
      BY Zenon, <2>2, <1>AfterIs, Changed
    <2>6. Upd(result', result, n, "running")
      BY Zenon, <2>1, Same
    <2>7. Upd(live', live, n, live[n] \ e.drops) /\ Upd(held', held, n, Without(held[n], e.drops))
      BY Zenon, <1>GiveUpIs
    <2> QED  BY Zenon, <2>3, <2>4, <2>5, <2>6, <2>7, InitMoves

  \* The smoke test fails: its buffers are dropped and init() returns false.
  <1>ErrorKeeps.
      ASSUME RunInv, NEW n \in Nodes, stage[n] = "init", UNCHANGED <<config_, stage, sock>>,
             Running(n), NextStep(n).fail = "error", GiveUp(n, Smoke), UNCHANGED at,
             result' = [result EXCEPT ![n] = "error"], Counted(faults, faults')
      PROVE  RunInv'
    <2> USE Zenon, <1>ErrorKeeps
    <2>1. Good(config_[n], at[n], "running", live[n], held[n], faults, "init", sock[n])
      BY InitNode
    <2>2. LateCall(config_[n], at[n], NextStep(n))
      BY <1>FailKinds
    <2>3. Good(config_[n], at[n], "error", live[n] \ Smoke, Without(held[n], Smoke), faults',
               "init", sock[n])
      BY <2>1, <2>2, <1>GoodSmokeFails
    <2>4. Upd(at', at, n, at[n]) /\ Upd(result', result, n, "error")
      BY Same, Changed
    <2>5. Upd(live', live, n, live[n] \ Smoke) /\ Upd(held', held, n, Without(held[n], Smoke))
      BY <1>GiveUpIs
    <2> QED  BY <2>3, <2>4, <2>5, InitMoves

  \* setup_gpu_qp returns and init() succeeds without a device view.
  <1>ReturnKeeps.
      ASSUME RunInv, NEW n \in Nodes, stage[n] = "init", UNCHANGED <<config_, stage, sock>>,
             Running(n), NextStep(n).fail = "return", UNCHANGED <<at, live, held>>,
             result' = [result EXCEPT ![n] = "ok"], Counted(faults, faults')
      PROVE  RunInv'
    <2> USE <1>ReturnKeeps
    <2>1. Good(config_[n], at[n], "running", live[n], held[n], faults, "init", sock[n])
      BY Zenon, InitNode
    <2>2. LateCall(config_[n], at[n], NextStep(n))
      BY Zenon, <1>FailKinds
    <2>3. NextStep(n).fn # "smoke"
      <3>1. "return" # "error"
        OBVIOUS
      <3> QED  BY Zenon, <2>2, <3>1, <1>FailKinds
    <2>4. Good(config_[n], at[n], "ok", live[n], held[n], faults', "init", sock[n])
      BY Zenon, <2>1, <2>2, <2>3, <1>GoodReturnsEarly
    <2>5. Upd(at', at, n, at[n]) /\ Upd(live', live, n, live[n]) /\ Upd(held', held, n, held[n])
      BY Zenon, Same
    <2>6. Upd(result', result, n, "ok")
      BY Zenon, Changed
    <2> QED  BY Zenon, <2>4, <2>5, <2>6, InitMoves

  <1> SUFFICES ASSUME RunInv, NEW n \in Nodes, stage[n] = "init", UNCHANGED <<stage, sock>>, InitStepFails(n)
               PROVE  RunInv'
    OBVIOUS
  <1> USE Zenon
  <1> DEFINE e == NextStep(n)
  <1>1. Running(n) /\ config_' = config_
    BY DEF InitStepFails
  <1>2. faults' = faults + 1 \/ (faults' = faults /\ "qp" \in e.gets)
    BY DEF InitStepFails, Possible
  <1>3. Counted(faults, faults')
    BY <1>2, Same
  <1>4. CASE e.fail = "abort" /\ Die(n) /\ UNCHANGED at
    BY <1>1, <1>3, <1>4, NodeDies
  <1>5. CASE /\ e.fail = "leave" /\ GiveUp(n, e.drops)
             /\ at' = [at EXCEPT ![n] = After(n, e.fn)] /\ UNCHANGED result
    BY <1>1, <1>2, <1>5, <1>LeaveKeeps
  <1>6. CASE /\ e.fail = "error" /\ GiveUp(n, Smoke)
             /\ result' = [result EXCEPT ![n] = "error"] /\ UNCHANGED at
    BY <1>1, <1>3, <1>6, <1>ErrorKeeps
  <1>7. CASE /\ e.fail = "return" /\ result' = [result EXCEPT ![n] = "ok"]
             /\ UNCHANGED <<at, live, held>>
    BY <1>1, <1>3, <1>7, <1>ReturnKeeps
  <1>8. CASE /\ e.fail = "forget" /\ GiveUp(n, {"gpu qp"})
             /\ at' = [at EXCEPT ![n] = at[n] + 1] /\ UNCHANGED result
    <2>1. PICK N : N = {"gpu qp"}
      OBVIOUS
    <2>2. N \subseteq {"gpu qp"}
      BY <2>1
    <2>3. LateCall(config_[n], at[n], e)
      BY <1>1, <1>8, <1>FailKinds
    <2>4. e.fail # "error"
      BY <1>8
    <2>5. e.fn # "smoke"
      BY <1>1, <2>3, <2>4, <1>FailKinds
    <2>6. Upd(live', live, n, live[n] \ N) /\ Upd(held', held, n, Without(held[n], N))
      BY <1>8, <2>1, <1>GiveUpIs
    <2> QED  BY <1>1, <1>3, <1>8, <2>2, <2>3, <2>5, <2>6, OnwardKeeps
  <1> QED  BY <1>4, <1>5, <1>6, <1>7, <1>8 DEF InitStepFails

-----------------------------------------------------------------------------
(* The other steps of init().                                              *)

\* The part of init() a step is in, by its function.
LEMMA FnZones ==
    ASSUME RunInv, NEW n \in Nodes, stage[n] = "init", Running(n), NEW e, e = NextStep(n)
    PROVE  /\ e.fn = "check qp" => CheckCall(config_[n], at[n], e)
           /\ e.fn = "setup_qp_loopback" => LateCall(config_[n], at[n], e)
           /\ e = FillAttr => QueueCall(config_[n], at[n], e)
  <1> USE Zenon
  <1>1. \/ OpenCall(at[n], e) \/ QueueCall(config_[n], at[n], e)
        \/ CheckCall(config_[n], at[n], e) \/ LateCall(config_[n], at[n], e)
    BY InitNode
  <1>2. at[n] \in Nat \ {0}
    BY InitNode, InitParts
  <1>3. OpenCall(at[n], e) => e.fn = "open_ib_device"
    BY OpenCalls
  <1>4. CheckCall(config_[n], at[n], e) => e.fn = "check qp"
    BY CheckCalls
  <1>5. QueueCall(config_[n], at[n], e) => e.fn \in {"create_cqs", "create_qps", "create_queues"}
    BY <1>2, QueueCalls DEF CreateKind
  <1>6. LateCall(config_[n], at[n], e) => e.fn \in LateFns
    BY <1>2, LateCalls DEF LateKind
  <1>7. "check qp" \notin LateFns /\ "create_qps" \notin LateFns
    BY DEF LateFns
  <1>8. e = FillAttr => e.fn = "create_qps"
    BY FormFn DEF FillAttr
  <1>9. e.fn = "check qp" => CheckCall(config_[n], at[n], e)
    BY <1>1, <1>3, <1>5, <1>6, <1>7
  <1>10. e.fn = "setup_qp_loopback" => LateCall(config_[n], at[n], e)
    BY <1>1, <1>3, <1>4, <1>5
  <1>11. e.fn = "create_qps" => QueueCall(config_[n], at[n], e)
    BY <1>1, <1>3, <1>4, <1>6, <1>7
  <1> QED  BY <1>8, <1>9, <1>10, <1>11

\* bnxt_create_qps copies the umems from its locals to the attribute block.
LEMMA FillAttrKeeps ==
    ASSUME RunInv, NEW n \in Nodes, stage[n] = "init", UNCHANGED <<stage, sock>>, FillAttrStep(n)
    PROVE  RunInv'
  <1> USE Zenon
  <1> DEFINE e == NextStep(n)
  <1>1. Running(n) /\ e = FillAttr /\ UNCHANGED <<config_, faults>>
    BY DEF FillAttrStep
  <1>2. Counted(faults, faults')
    BY <1>1, Same
  <1>3. CASE Die(n) /\ UNCHANGED at
    BY <1>1, <1>2, <1>3, NodeDies
  <1>4. CASE /\ held' = [held EXCEPT ![n] = held[n] \cup e.sets]
             /\ at' = [at EXCEPT ![n] = at[n] + 1] /\ UNCHANGED <<result, live>>
    <2>1. /\ Good(config_[n], at[n], "running", live[n], held[n], faults, "init", sock[n])
          /\ result[n] = "running"
      BY <1>1, InitNode
    <2>2. QueueCall(config_[n], at[n], e)
      BY <1>1, FnZones
    <2>3. e.drops = {} /\ e.gets = {}
      BY <1>1, FillSets
    <2>4. Good(config_[n], at[n] + 1, "running", (live[n] \ e.drops) \cup e.gets,
               Without(held[n], e.drops) \cup e.sets, faults, "init", sock[n])
      <3>1. "qp" \notin e.gets
        BY <2>3
      <3> QED  BY <2>1, <2>2, <3>1, GoodQueues
    <2>5. (live[n] \ e.drops) \cup e.gets = live[n]
      BY <2>3
    <2>6. Without(held[n], e.drops) \cup e.sets = held[n] \cup e.sets
      BY <2>3 DEF Without
    <2>7. Good(config_[n], at[n] + 1, "running", live[n], held[n] \cup e.sets, faults',
               "init", sock[n])
      BY <1>1, <2>4, <2>5, <2>6
    <2>8. Upd(held', held, n, held[n] \cup e.sets) /\ Upd(at', at, n, at[n] + 1)
      BY <1>4, Changed
    <2>9. Upd(result', result, n, "running") /\ Upd(live', live, n, live[n])
      BY <1>4, <2>1, Same
    <2> QED  BY <1>1, <1>2, <2>7, <2>8, <2>9, InitMoves
  <1> QED  BY <1>3, <1>4 DEF FillAttrStep

\* init() goes on if there is a QP, and returns false otherwise.
LEMMA CheckQpKeeps ==
    \A n \in Nodes :
      /\ RunInv
      /\ stage[n] = "init"
      /\ UNCHANGED <<stage, sock>>
      /\ CheckQp(n)
      => RunInv'
  \* shutdown() has a place for the QP.
  <1>QpInOrder.
      ASSUME NEW c
      PROVE  InOrder(c, "qp")
    <2>1. CASE OpenDvLibs(c) \in {"bnxt", "mlx5"}
      <3>1. OrderFacts(c, ShutdownOrder(c))
        BY Zenon, OrderOk
      <3>2. "qp" \in KnownOf(OpenDvLibs(c))
        BY Zenon, KnownRun
      <3>3. "qp" \notin {"buf", "counters"} \cup Smoke
        BY Zenon DEF Smoke
      <3> QED  BY Zenon, <2>1, <3>1, <3>2, <3>3 DEF OrderFacts, InOrder
    <2>2. CASE OpenDvLibs(c) \notin {"bnxt", "mlx5"}
      <3>1. IsPlainOrder(ShutdownOrder(c))
        BY Zenon, <2>2, PlainOrder
      <3>2. 3 \in 1 .. 8
        OBVIOUS
      <3> QED  BY Zenon, <3>1, <3>2 DEF IsPlainOrder, InOrder
    <2> QED  BY Zenon, <2>1, <2>2

  \* The position of CheckQp.
  <1>CheckNumbers.
      ASSUME NEW c, NEW a \in Nat \ {0}, a = CheckAt(c)
      PROVE  /\ a >= CheckAt(c) /\ a >= 2 /\ a >= 3 /\ a + 1 \in Nat \ {0} /\ a + 1 > CheckAt(c)
             /\ a + 1 <= (CheckAt(c) + Len(LateScript(c))) + 1 /\ ~InLate(c, a)
    <2> USE <1>CheckNumbers
    <2>1. InLate(c, a) => a > CheckAt(c)
      BY Zenon, ZoneBounds
    <2>2. CheckAt(c) \in Nat /\ Len(LateScript(c)) \in Nat /\ CheckAt(c) >= 4
      BY Zenon, ScriptSizes
    <2> QED  BY <2>1, <2>2

  \* The check finds the field of the queue pair.
  <1>GoodChecks.
      ASSUME NEW c, NEW a, NEW L, NEW H, NEW F \in Nat, NEW sk, NEW e,
             Good(c, a, "running", L, H, F, "init", sk), CheckCall(c, a, e)
      PROVE  /\ (\E y \in H : y[1] = "qp") => Good(c, a + 1, "running", L, H, F, "init", sk)
             /\ Good(c, a, "error", L, H, F, "init", sk)
    <2> USE Zenon, <1>GoodChecks
    <2>1. /\ a \in Nat \ {0} /\ Core(c, a, "running", L, H, F) /\ Built(c, a, L, H)
          /\ sk # "closed"
      BY InitParts
    <2>2. /\ a >= CheckAt(c) /\ a >= 2 /\ a >= 3 /\ a + 1 \in Nat \ {0} /\ a + 1 > CheckAt(c)
          /\ a + 1 <= (CheckAt(c) + Len(LateScript(c))) + 1 /\ ~InLate(c, a)
      BY <2>1, <1>CheckNumbers DEF CheckCall
    <2>3. Counted(F, F)
      BY DEF Counted
    <2>4. \A x \in L : \A a2, r2 : Loose(c, a, "running", F, x) => Loose(c, a2, r2, F, x)
      BY <2>1, <2>2, <2>3, LooseLate
    <2>5. \A x \in Smoke : <<x, x>> \notin H
      BY <2>1, <2>2 DEF Core, SmokeIn, InLate
    <2>6. Core(c, a + 1, "running", L, H, F) /\ Core(c, a, "error", L, H, F)
      BY <2>1, <2>4, <2>5, CoreMoves
    <2>7. ASSUME NEW y \in H, y[1] = "qp" PROVE Good(c, a + 1, "running", L, H, F, "init", sk)
      <3>1. y = <<y[1], y[1]>>
        BY <2>1, <2>7, ShapeNames DEF Core
      <3>2. y[2] = "qp"
        BY <2>7, <3>1, AliasParts
      <3>3. "qp" \in L
        BY <2>1, <2>7, <3>2, <1>QpInOrder DEF Core, HeldIn
      <3>4. Built(c, a + 1, L, H)
        BY <2>1, <2>2, <3>3 DEF Built
      <3>5. Runs(c, a + 1, L, H)
        BY <2>2, RunsLate
      <3> QED  BY <2>1, <2>2, <2>6, <3>4, <3>5, InitBack
    <2>8. Good(c, a, "error", L, H, F, "init", sk)
      BY <2>1, <2>6 DEF Good, Control
    <2> QED  BY <2>7, <2>8

  <1> SUFFICES ASSUME RunInv, NEW n \in Nodes, stage[n] = "init", UNCHANGED <<stage, sock>>, CheckQp(n)
               PROVE  RunInv'
    OBVIOUS
  <1> USE Zenon
  <1>1. Running(n) /\ NextStep(n).fn = "check qp" /\ UNCHANGED <<config_, live, held, faults>>
    BY DEF CheckQp
  <1>2. /\ Good(config_[n], at[n], "running", live[n], held[n], faults, "init", sock[n])
        /\ result[n] = "running" /\ faults \in Nat
    BY <1>1, InitNode
  <1>3. CheckCall(config_[n], at[n], NextStep(n))
    BY <1>1, FnZones
  <1>4. Upd(live', live, n, live[n]) /\ Upd(held', held, n, held[n]) /\ Counted(faults, faults')
    BY <1>1, Same
  <1>5. CASE "qp" \in Fields(n) /\ at' = [at EXCEPT ![n] = at[n] + 1] /\ UNCHANGED result
    <2>1. \E y \in held[n] : y[1] = "qp"
      BY <1>5, FieldIs
    <2>2. Good(config_[n], at[n] + 1, "running", live[n], held[n], faults, "init", sock[n])
      BY <1>2, <1>3, <2>1, <1>GoodChecks
    <2>3. Good(config_[n], at[n] + 1, "running", live[n], held[n], faults', "init", sock[n])
      BY <1>1, <2>2
    <2>4. Upd(at', at, n, at[n] + 1) /\ Upd(result', result, n, "running")
      BY <1>2, <1>5, Same, Changed
    <2> QED  BY <1>1, <1>4, <2>3, <2>4, InitMoves
  <1>6. CASE result' = [result EXCEPT ![n] = "error"] /\ UNCHANGED at
    <2>1. Good(config_[n], at[n], "error", live[n], held[n], faults, "init", sock[n])
      BY <1>2, <1>3, <1>GoodChecks
    <2>2. Good(config_[n], at[n], "error", live[n], held[n], faults', "init", sock[n])
      BY <1>1, <2>1
    <2>3. Upd(at', at, n, at[n]) /\ Upd(result', result, n, "error")
      BY <1>6, Same, Changed
    <2> QED  BY <1>1, <1>4, <2>2, <2>3, InitMoves
  <1> QED  BY <1>5, <1>6 DEF CheckQp

\* The QP is connected to itself.
LEMMA SetupQpLoopbackKeeps ==
    ASSUME RunInv, NEW n \in Nodes, stage[n] = "init", UNCHANGED <<stage, sock>>,
           SetupQpLoopback(n)
    PROVE  RunInv'
  <1> USE Zenon
  <1>1. /\ Running(n) /\ NextStep(n).fn = "setup_qp_loopback"
        /\ UNCHANGED <<config_, result, live, held, faults>>
        /\ at' = [at EXCEPT ![n] = at[n] + 1]
    BY DEF SetupQpLoopback
  <1>2. LateCall(config_[n], at[n], NextStep(n))
    BY <1>1, FnZones
  <1>3. NextStep(n).fn # "smoke"
    BY <1>1
  <1>4. PICK N : N = {}
    OBVIOUS
  <1>5. Upd(live', live, n, live[n] \ N) /\ Upd(held', held, n, Without(held[n], N))
    <2>1. live[n] \ N = live[n] /\ Without(held[n], N) = held[n]
      BY <1>4 DEF Without
    <2> QED  BY <1>1, <2>1, Same
  <1>6. Counted(faults, faults') /\ N \subseteq {"gpu qp"}
    BY <1>1, <1>4, Same
  <1> QED  BY <1>1, <1>2, <1>3, <1>5, <1>6, OnwardKeeps

\* init() returns true.
LEMMA InitReturnsKeeps ==
    \A n \in Nodes :
      /\ RunInv
      /\ stage[n] = "init"
      /\ UNCHANGED <<stage, sock>>
      /\ InitReturns(n)
      => RunInv'
  \* What init() leaves.
  <1>GoodReturns.
      ASSUME NEW c, NEW a, NEW L, NEW H, NEW F \in Nat, NEW sk,
             Good(c, a, "running", L, H, F, "init", sk), a > Len(InitScript(c))
      PROVE  Good(c, a, "ok", L, H, F, "init", sk)
    <2> USE <1>GoodReturns
    <2>1. a \in Nat \ {0} /\ Core(c, a, "running", L, H, F)
      BY Zenon, InitParts
    <2>2. a > CheckAt(c) /\ a >= CheckAt(c) /\ ~InLate(c, a)
      <3>1. InLate(c, a) => a <= CheckAt(c) + Len(LateScript(c))
        BY Zenon, <2>1, ZoneBounds
      <3>2. /\ Len(InitScript(c)) = CheckAt(c) + Len(LateScript(c))
            /\ CheckAt(c) \in Nat /\ Len(LateScript(c)) \in Nat
        BY Zenon, ScriptSizes
      <3>3. a \in Nat
        BY Zenon, <2>1
      <3> HIDE <2>1
      <3> QED  BY <3>1, <3>2, <3>3
    <2>3. \A x \in Smoke : <<x, x>> \notin H
      BY Zenon, <2>1, <2>2 DEF Core, SmokeIn, InLate
    <2>4. Counted(F, F)
      BY Zenon DEF Counted
    <2> QED  BY Zenon, <2>2, <2>3, <2>4, GoodOk

  <1> SUFFICES ASSUME RunInv, NEW n \in Nodes, stage[n] = "init", UNCHANGED <<stage, sock>>, InitReturns(n)
               PROVE  RunInv'
    OBVIOUS
  <1> USE Zenon
  <1>1. /\ result[n] = "running" /\ UNCHANGED <<config_, at, live, held, faults>>
        /\ result' = [result EXCEPT ![n] = "ok"]
    BY DEF InitReturns
  <1>2. /\ Good(config_[n], at[n], "running", live[n], held[n], faults, "init", sock[n])
        /\ faults \in Nat
    BY <1>1, NodeIs
  <1>3. at[n] > Len(InitScript(config_[n]))
    BY NodeIs DEF InitReturns
  <1>4. Good(config_[n], at[n], "ok", live[n], held[n], faults, "init", sock[n])
    BY <1>2, <1>3, <1>GoodReturns
  <1>5. Good(config_[n], at[n], "ok", live[n], held[n], faults', "init", sock[n])
    BY <1>1, <1>4
  <1>6. Upd(at', at, n, at[n]) /\ Upd(live', live, n, live[n]) /\ Upd(held', held, n, held[n])
        /\ Counted(faults, faults')
    BY <1>1, Same
  <1>7. Upd(result', result, n, "ok")
    BY <1>1, Changed
  <1> QED  BY <1>1, <1>5, <1>6, <1>7, InitMoves

\* The steps of init().
LEMMA BackendStepKeeps ==
    ASSUME RunInv, NEW n \in Nodes, BackendStep(n)
    PROVE  RunInv'
  <1> USE Zenon
  <1>1. stage[n] = "init" /\ UNCHANGED <<stage, sock>>
    BY DEF BackendStep, runVars, ctl, tcp
  <1>2. \/ InitStepOk(n) \/ InitStepFails(n) \/ FillAttrStep(n) \/ CheckQp(n)
        \/ SetupQpLoopback(n) \/ InitReturns(n)
    BY DEF BackendStep
  <1> QED  BY <1>1, <1>2, InitStepOkKeeps, InitStepFailsKeeps, FillAttrKeeps,
                CheckQpKeeps, SetupQpLoopbackKeeps, InitReturnsKeeps

-----------------------------------------------------------------------------
(* The theorems.                                                           *)

\* Every action keeps the invariant.
LEMMA RunInvNext ==
    ASSUME RunInv, [RunNext]_allVars
    PROVE  RunInv'
  <1> USE Zenon
  <1>1. CASE UNCHANGED allVars
    <2>1. UNCHANGED <<config_, at, result, live, held, faults, stage, sock>>
      BY <1>1 DEF allVars, backendVars, runVars, ctl, tcp
    <2> QED  BY <2>1, RunSame
  <1>2. ASSUME NEW n \in Nodes, HostStep(n) PROVE RunInv'
    <2>1. CASE \/ BackendStep(n) \/ StartRun(n) \/ ProcessDies(n) \/ Shutdown(n)
               \/ TcpListen(n) \/ TcpConnect(n)
      BY <2>1, BackendStepKeeps, StartRunKeeps, ProcessDiesKeeps, ShutdownKeeps, TcpKeeps
    <2>2. CASE \/ AllocBuffer(n) \/ RegisterDataBuffer(n) \/ AllocCounters(n)
               \/ CheckErrors(n) \/ CloseSocket(n) \/ FreeBuffer(n)
      BY <2>2, BufferKeeps
    <2>3. CASE TcpBroken(n) \/ VerifyWrite(n) \/ EndRun(n)
      BY <2>3, LeavingKeeps
    <2>4. CASE \/ TcpSend(n) \/ TcpRecv(n) \/ ConnectToPeer(n) \/ SetRemoteRkey(n)
               \/ LaunchWrite(n) \/ WriteDone(n) \/ ResetPingPong(n) \/ LaunchPingPong(n)
      BY <2>4, QuietKeeps
    <2> QED  BY <1>2, <2>1, <2>2, <2>3, <2>4 DEF HostStep
  <1>3. ASSUME NEW n \in Nodes, GpuStep(n) PROVE RunInv'
    BY <1>3, QuietKeeps, DeathKeeps DEF GpuStep
  <1>4. ASSUME NEW n \in Nodes, NicStep(n) PROVE RunInv'
    BY <1>4, QuietKeeps, LeavingKeeps DEF NicStep
  <1>5. ASSUME NEW n \in Nodes, CallFails(n) \/ RegisterCopyFails(n) \/ ConnectAborts(n)
        PROVE  RunInv'
    BY <1>5, LeavingKeeps, BufferKeeps, DeathKeeps
  <1> QED  BY <1>1, <1>2, <1>3, <1>4, <1>5 DEF RunNext, Progress

\* Every call of init() and every release of shutdown() keeps the fields, the
\* resources and the position in init() consistent, however far init() got.
THEOREM RunInvariant == RunSpec => []RunInv
  <1>1. InitRun => RunInv
    BY Zenon, RunInvInit
  <1>2. RunInv /\ [RunNext]_allVars => RunInv'
    BY Zenon, RunInvNext
  <1> QED  BY <1>1, <1>2, PTL DEF RunSpec

\* No resource exists without those it was created on: whichever call of init()
\* fails, shutdown() releases a CQ, a PD or a umem only after the QP that uses it.
THEOREM NothingStandsOnNothing == RunSpec => []QpBacked
  <1>1. RunInv => QpBacked
    <2>1. ASSUME RunInv, NEW n \in Nodes, NEW d \in NeedsOf[config_[n]], d[1] \in live[n]
          PROVE  d[2] \in live[n]
      <3>1. d \in Needs(config_[n])
        BY Zenon, <2>1, NodeIs
      <3>2. Backed(config_[n], live[n])
        BY Zenon, <2>1, NodeIs DEF Good, Core
      <3> QED  BY Zenon, <2>1, <3>1, <3>2 DEF Backed
    <2> QED  BY Zenon, <2>1 DEF QpBacked
  <1> QED  BY <1>1, RunInvariant, PTL

\* A field that shutdown() would release names a resource that exists: nothing is
\* released twice, although bnxt and ernic have two names for the send CQ.
THEOREM FieldsNameTheLiving == RunSpec => []HeldLive
  <1>1. RunInv => HeldLive
    <2>1. ASSUME RunInv, NEW n \in Nodes, NEW y \in held[n],
                 y[1] \in Elements(OrderOf[config_[n]])
          PROVE  y[2] \in live[n]
      <3>1. InOrder(config_[n], y[1])
        BY Zenon, <2>1, NodeIs DEF Elements, InOrder
      <3>2. HeldIn(config_[n], live[n], held[n])
        BY Zenon, <2>1, NodeIs DEF Good, Core
      <3> QED  BY Zenon, <3>1, <3>2 DEF HeldIn
    <2> QED  BY Zenon, <2>1 DEF HeldLive
  <1> QED  BY <1>1, RunInvariant, PTL

\* What a process may leave behind.
Remains(p, H, F) ==
  {"dv lib"} \cup
      (CASE p = "bnxt" -> {"scq dmabuf", "rcq dmabuf", "db region"}
                          \cup (IF F > 0 THEN {"sq umem", "rq umem"} ELSE {})
         [] p = "ionic" -> {"db page"}
         [] p = "ernic" -> {y[2] : y \in H} \cup {"bridge map", "bridge reg"}
                           \cup (IF F > 0 THEN {"sq umem", "rq umem"} ELSE {})
         [] OTHER -> {})

\* What may remain, by provider.
LEMMA RemainsHas ==
    ASSUME NEW p, NEW H, NEW F
    PROVE  /\ "dv lib" \in Remains(p, H, F)
           /\ p = "bnxt" => Dmabufs \cup {"db region"} \subseteq Remains(p, H, F)
           /\ TwoNames(p) /\ F > 0 => Umems \subseteq Remains(p, H, F)
           /\ p = "ionic" => "db page" \in Remains(p, H, F)
           /\ p = "ernic" => Bridge \subseteq Remains(p, H, F) /\ \A y \in H : y[2] \in Remains(p, H, F)
  <1>1. "dv lib" \in Remains(p, H, F)
    BY Zenon DEF Remains
  <1>2. p = "bnxt" => Dmabufs \cup {"db region"} \subseteq Remains(p, H, F)
    BY DEF Remains, Dmabufs
  <1>3. p = "ionic" => "db page" \in Remains(p, H, F)
    BY DEF Remains
  <1>4. p = "ernic" => Bridge \subseteq Remains(p, H, F) /\ \A y \in H : y[2] \in Remains(p, H, F)
    BY DEF Remains, Bridge
  <1>5. (p = "bnxt" \/ p = "ernic") /\ F > 0 => Umems \subseteq Remains(p, H, F)
    BY DEF Remains, Umems
  <1> QED  BY Zenon, <1>1, <1>2, <1>3, <1>4, <1>5 DEF TwoNames

\* Only that is left of a process that is done.
LEMMA DoneLeaves ==
    ASSUME NEW c, NEW a, NEW r, NEW L, NEW H, NEW F, NEW sk,
           Good(c, a, r, L, H, F, "done", sk)
    PROVE  L \subseteq Remains(OpenDvLibs(c), H, F)
  <1> USE Zenon
  <1> DEFINE p == OpenDvLibs(c)
  <1>1. Core(c, a, r, L, H, F) /\ Left(c, r, L, H) /\ (r = "dead" => L = {})
    BY DEF Good, Control
  <1>2. CASE r = "dead"
    BY <1>1, <1>2
  <1>3. CASE L \subseteq {"dv lib"}
    BY <1>3, RemainsHas
  <1>4. CASE r # "running" /\ \A y \in H : ~InOrder(c, y[1]) /\ y[1] \notin {"buf", "counters"}
    <2>1. ASSUME NEW x \in L, Loose(c, a, r, F, x) PROVE x \in Remains(p, H, F)
      <3>1. \/ x = "dv lib" \/ (p = "bnxt" /\ x \in Dmabufs \cup {"db region"})
            \/ (p = "ernic" /\ x \in Bridge) \/ (TwoNames(p) /\ x \in Umems /\ F > 0)
        BY <1>4, <2>1 DEF Loose, Unkept
      <3> QED  BY <3>1, RemainsHas
    <2>2. ASSUME NEW x \in L, <<x, x>> \in H PROVE x \in Remains(p, H, F)
      <3>1. <<x, x>>[1] = x /\ <<x, x>>[2] = x
        BY AliasParts
      <3>2. x \in KnownOf(p)
        <4>1. \E k \in KnownOf(p) : <<x, x>> = <<k, k>>
          BY <1>1, <2>2, AliasParts DEF Core, Shape
        <4> QED  BY <4>1, AliasParts
      <3>3. ~InOrder(c, x) /\ x \notin {"buf", "counters"}
        BY <1>4, <2>2, <3>1
      <3>4. x \notin Smoke
        BY <1>1, <1>4, <2>2 DEF Core, SmokeIn
      <3>5. p = "ernic" \/ (p = "ionic" /\ x = "db page")
        <4>1. OrderFacts(c, ShutdownOrder(c))
          BY OrderOk
        <4> QED  BY <3>2, <3>3, <3>4, <4>1 DEF OrderFacts, InOrder
      <3> QED  BY <2>2, <3>1, <3>5, RemainsHas
    <2> QED  BY <1>1, <2>1, <2>2 DEF Core, Kept
  <1> QED  BY <1>1, <1>2, <1>3, <1>4 DEF Left

\* Once run() has returned only what shutdown() has no field for is left of a
\* process: whatever failed on the way, its provider's clean-up released the rest.
THEOREM RunCleansUp == RunSpec => []ShutdownReleases
  <1>1. RunInv => ShutdownReleases
    <2>1. ASSUME RunInv, NEW n \in Nodes, stage[n] = "done"
          PROVE  live[n] \subseteq Remains(ProviderOf[config_[n]], held[n], faults)
      <3>1. /\ Good(config_[n], at[n], result[n], live[n], held[n], faults, "done", sock[n])
            /\ ProviderOf[config_[n]] = OpenDvLibs(config_[n])
        BY Zenon, <2>1, NodeIs
      <3> QED  BY Zenon, <3>1, DoneLeaves
    <2> QED  BY Zenon, <2>1 DEF ShutdownReleases, Remains
  <1> QED  BY <1>1, RunInvariant, PTL
=============================================================================
