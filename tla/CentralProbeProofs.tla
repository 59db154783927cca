------------------------- MODULE CentralProbeProofs -------------------------
(***************************************************************************)
(* The types of CentralProbe, that every worker is recorded, and that      *)
(* every selected pod is probed at rest, for all pods, probes and bounds.  *)
(*                                                                         *)
(* The statuses of a probe are what removes workers later, so              *)
(* WorkersAreRecorded has to follow the pods found from the moment their   *)
(* workers are started to the Update that writes them: Tracked says in     *)
(* whose status, in whose turn or among which orphans the pod of each      *)
(* worker is meanwhile. RestIsExact has to know what the loop has still to *)
(* do when it is not at rest (Settled), and that an Update of a copy takes *)
(* effect only when the copy is the last version (CopiesAreLast).          *)
(***************************************************************************)
EXTENDS CentralProbe, SequenceTheorems, FiniteSetTheorems, TLAPS

\* A version of an object has statuses only with the finalizer.
Sane == {v \in ProbeVersion : v.ours \/ v.statuses = <<>>}
\* What Reconcile has still to process: a probe, and the copy it listed.
Turn == [probe : Probes, copy : Sane]

\* The pods, and the versions on their way to the cache.
PodsOK ==
    /\ pods \in [Names -> PodVersion \cup {Absent}]
    /\ podNews \in [Names -> Seq(PodVersion \cup {Absent})]
    /\ lastUid \in 0 .. MaxUid

\* The probes, and the versions on their way to the cache.
ProbesOK ==
    /\ probes \in [Probes -> Sane \cup {Absent}]
    /\ probeNews \in [Probes -> Seq(Sane \cup {Absent})]

\* Where the loop of Reconcile is, with which turns left.
LoopOK ==
    /\ pc \in {"idle", "next", "finalize", "release", "status"}
    /\ todo \in Seq(Turn) /\ failed \in BOOLEAN
    /\ (pc = "idle" => todo = <<>> /\ ~failed)
    /\ (pc \in {"finalize", "release", "status"} => todo # <<>>)
    /\ (pc \in {"release", "status"} => todo[1].copy.ours)
    /\ held \subseteq Probes
    /\ listed \in Statuses /\ (pc \in {"idle", "next", "release"} => listed = <<>>)

\* The workers belong to pods that existed.
WorkersOK ==
    /\ registered \subseteq UIDs /\ running \subseteq Worker(UIDs)
    /\ orphans \subseteq UIDs /\ spoiled \subseteq UIDs

\* A held copy is the last version, and each object is processed once in a turn.
CopiesAreLast ==
    /\ \A i \in DOMAIN todo : todo[i].probe \in held => Probe(todo[i].probe) = todo[i].copy
    /\ \A i, j \in DOMAIN todo : todo[i].probe = todo[j].probe => i = j

\* The UIDs whose worker could still be told to stop, and was not.
Active == {w.key : w \in {z \in running : z.mapped /\ ~z.stopping}}

\* The pods that some status names.
InStatus == UNION {Range(Probe(c).statuses) : c \in {d \in Probes : Probe(d) # Absent}}

\* The UIDs of the entries that have no pod.
Dropped(old, found) == {old[n] : n \in DOMAIN old \ DOMAIN found}

\* Between the calls of the prober and the update that tells of them: what the update
\* takes out of the object was told to stop.
Tracked ==
    /\ pc # "status" => Active \subseteq InStatus \cup orphans
    /\ pc = "release" => Active \cap Range(todo[1].copy.statuses) = {}
    /\ pc = "status" =>
          /\ Active \cap Dropped(todo[1].copy.statuses, listed) = {}
          /\ Active \subseteq InStatus \cup orphans \cup Range(listed)
          /\ Range(listed) \subseteq Range(Updated(todo[1].copy.statuses, listed)) \cup orphans

\* A worker of pod u that is in the map under u and was not told to stop.
Own(u) == \E w \in running : w.key = u /\ w.pod = u /\ ~w.stopping

\* The controller is bound to take another turn.
Due ==
    \/ queued \/ retry \/ failed \/ pc \in {"finalize", "release", "status"}
    \/ \E n \in Names : podNews[n] # <<>>
    \/ \E c \in Probes : probeNews[c] # <<>>

\* The statuses of the object are of the pods found, and these are probed.
Exact(v) ==
    /\ DOMAIN v.statuses = DOMAIN Found(v.selector)
    /\ \A u \in Range(Found(v.selector)) : Own(u) \/ u \in spoiled

\* Unless another turn is due, every probe is exact or still to process, from the copy
\* that the cache has.
Settled ==
    Due \/ /\ \A i \in DOMAIN todo : todo[i].copy = probes[todo[i].probe]
           /\ \A c \in {d \in Probes : Wants(d)} :
                 (\E i \in DOMAIN todo : todo[i].probe = c) \/ Exact(probes[c])

\* The inductive invariant.
IInv ==
    /\ PodsOK /\ ProbesOK /\ LoopOK /\ WorkersOK
    /\ CopiesAreLast /\ Tracked /\ Settled
-----------------------------------------------------------------------------
(* Versions on their way to a cache.                                       *)

\* The newest version of an object is one of its versions, in the view or on its way.
LEMMA NewestTyped ==
    ASSUME NEW K, NEW T, NEW view \in [K -> T], NEW news \in [K -> Seq(T)], NEW k \in K
    PROVE  Newest(view, news, k) \in T
<1>1. news[k] \in Seq(T) /\ view[k] \in T
  OBVIOUS
<1>2. CASE news[k] # <<>>
  <2>1. Len(news[k]) \in 1 .. Len(news[k])
    BY <1>1, <1>2, EmptySeq, LenProperties
  <2> QED BY <1>1, <1>2, <2>1, ElementOfSeq DEF Newest
<1> QED BY <1>1, <1>2 DEF Newest

\* A version joins those on their way to the cache.
Extended(news, k, v) == [news EXCEPT ![k] = Append(@, v)]
\* The cache sees the next version ...
SeenBy(view, news, k) == [view EXCEPT ![k] = Head(news[k])]
\* ... which is no longer on its way.
LeftOf(news, k) == [news EXCEPT ![k] = Tail(@)]

\* What is written is the last version, and that of nothing else.
WrittenAsLast(K, T, view, news, k, v) ==
    /\ Extended(news, k, v) \in [K -> Seq(T)] /\ Extended(news, k, v)[k] # <<>>
    /\ Newest(view, Extended(news, k, v), k) = v
    /\ \A j \in K \ {k} : Newest(view, Extended(news, k, v), j) = Newest(view, news, j)

\* A version that is written is the newest one of its object, and changes no other's.
LEMMA NewestWritten ==
    ASSUME NEW K, NEW T, NEW view \in [K -> T], NEW news \in [K -> Seq(T)], NEW k \in K,
           NEW v \in T
    PROVE  WrittenAsLast(K, T, view, news, k, v)
<1> DEFINE after == Extended(news, k, v)
<1>1. /\ Append(news[k], v) \in Seq(T) /\ Append(news[k], v) # <<>>
      /\ Len(Append(news[k], v)) = Len(news[k]) + 1
      /\ Append(news[k], v)[Len(news[k]) + 1] = v
  BY AppendProperties
<1>2. after[k] = Append(news[k], v) /\ \A j \in K \ {k} : after[j] = news[j]
  BY DEF Extended
<1>3. after \in [K -> Seq(T)]
  BY <1>1 DEF Extended
<1> QED BY <1>1, <1>2, <1>3 DEF Newest, WrittenAsLast

\* A delivery leaves the last versions as they are.
SeenWithoutChange(K, T, view, news, k) ==
    /\ SeenBy(view, news, k) \in [K -> T] /\ LeftOf(news, k) \in [K -> Seq(T)]
    /\ \A j \in K : Newest(SeenBy(view, news, k), LeftOf(news, k), j) = Newest(view, news, j)

\* A version that the cache sees is no newer: the newest ones stay.
LEMMA NewestDelivered ==
    ASSUME NEW K, NEW T, NEW view \in [K -> T], NEW news \in [K -> Seq(T)], NEW k \in K,
           news[k] # <<>>
    PROVE  SeenWithoutChange(K, T, view, news, k)
<1> DEFINE s == news[k]
           seen == SeenBy(view, news, k)
           after == LeftOf(news, k)
<1>1. s \in Seq(T) /\ s # <<>> /\ Len(s) \in Nat \ {0}
  BY EmptySeq
<1>2. /\ Head(s) \in T /\ Tail(s) \in Seq(T) /\ Len(Tail(s)) = Len(s) - 1
      /\ \A i \in 1 .. Len(Tail(s)) : Tail(s)[i] = s[i + 1]
  BY <1>1, HeadTailProperties
<1>3. Head(s) = s[1]
  BY <1>1
<1>4. seen \in [K -> T] /\ after \in [K -> Seq(T)]
  BY <1>2 DEF SeenBy, LeftOf
<1>5. seen[k] = Head(s) /\ after[k] = Tail(s)
  BY DEF SeenBy, LeftOf
<1>6. \A j \in K \ {k} : seen[j] = view[j] /\ after[j] = news[j]
  BY DEF SeenBy, LeftOf
<1>7. Newest(seen, after, k) = s[Len(s)]
  <2>1. CASE Tail(s) = <<>>
    <3>1. Len(Tail(s)) = 0
      BY <2>1, Len(<<>>) = 0
    <3>2. Len(s) = 1
      BY <3>1, <1>1, <1>2
    <3> QED BY <2>1, <3>2, <1>3, <1>5 DEF Newest
  <2>2. CASE Tail(s) # <<>>
    <3>1. Len(Tail(s)) \in Nat \ {0}
      BY <2>2, <1>2, EmptySeq
    <3>2. Tail(s)[Len(Tail(s))] = s[Len(Tail(s)) + 1]
      BY <3>1, <1>2
    <3>3. Tail(s)[Len(Tail(s))] = s[Len(s)]
      BY <3>2, <3>1, <1>1, <1>2
    <3> QED BY <2>2, <3>3, <1>5 DEF Newest
  <2> QED BY <2>1, <2>2
<1>8. Newest(view, news, k) = s[Len(s)]
  BY DEF Newest
<1>9. \A j \in K \ {k} : Newest(seen, after, j) = Newest(view, news, j)
  BY <1>6 DEF Newest
<1> HIDE DEF s, seen, after
<1>10. \A j \in K : Newest(seen, after, j) = Newest(view, news, j)
  BY <1>7, <1>8, <1>9
<1> QED BY <1>4, <1>10 DEF seen, after, SeenWithoutChange

\* The newest version of a pod is a version.
LEMMA PodTyped == ASSUME PodsOK, NEW n \in Names PROVE Pod(n) \in PodVersion \cup {Absent}
BY NewestTyped DEF PodsOK, Pod

\* The newest version of a probe is a sane version.
LEMMA ProbeTyped == ASSUME ProbesOK, NEW c \in Probes PROVE Probe(c) \in Sane \cup {Absent}
BY NewestTyped DEF ProbesOK, Probe

\* An update of an object.
LEMMA PutProbeEffect ==
    ASSUME ProbesOK, NEW c \in Probes, NEW v \in Sane \cup {Absent}, PutProbe(c, v)
    PROVE  /\ ProbesOK' /\ Probe(c)' = v
           /\ \A d \in Probes \ {c} : Probe(d)' = Probe(d)
           /\ probeNews'[c] # <<>>
<1>1. probes' = probes /\ probeNews' = Extended(probeNews, c, v)
  BY DEF PutProbe, Extended
<1>2. WrittenAsLast(Probes, Sane \cup {Absent}, probes, probeNews, c, v)
  BY NewestWritten DEF ProbesOK
<1> QED BY <1>1, <1>2 DEF ProbesOK, Probe, WrittenAsLast
-----------------------------------------------------------------------------
(* Statuses.                                                               *)

\* Statuses map names of pods to UIDs.
LEMMA StatusesProperties ==
    ASSUME NEW f \in Statuses
    PROVE  DOMAIN f \subseteq Names /\ f \in [DOMAIN f -> UIDs] /\ Range(f) \subseteq UIDs
BY DEF Statuses, Range

\* A probe begins with no statuses.
LEMMA EmptyStatuses == <<>> \in Statuses /\ Range(<<>>) = {} /\ DOMAIN <<>> = {}
<1>1. DOMAIN <<>> = {}
  OBVIOUS
<1>2. <<>> \in [{} -> UIDs]
  OBVIOUS
<1> QED BY <1>1, <1>2 DEF Statuses, Range

\* The statuses written are of the pods found, and only of them.
LEMMA UpdatedTyped ==
    ASSUME NEW old \in Statuses, NEW found \in Statuses
    PROVE  Updated(old, found) \in Statuses /\ DOMAIN Updated(old, found) = DOMAIN found
<1>1. Updated(old, found) \in [DOMAIN found -> UIDs]
  BY StatusesProperties DEF Updated
<1> QED BY <1>1, StatusesProperties DEF Statuses

\* What an update of the statuses leaves out was dropped, or is an entry that the pod of
\* the same name had already.
LEMMA UpdatedRange ==
    ASSUME NEW old \in Statuses, NEW found \in Statuses
    PROVE  Range(old) \subseteq Range(Updated(old, found)) \cup Dropped(old, found)
BY StatusesProperties DEF Updated, Dropped, Range

\* The pods found are statuses.
LEMMA FoundTyped ==
    ASSUME PodsOK, NEW S
    PROVE  Found(S) \in Statuses
<1> DEFINE D == {m \in Names : Selects(S, pods[m])}
<1>1. \A n \in D : pods[n] \in PodVersion
  BY DEF PodsOK, Selects
<1>2. \A n \in D : pods[n].uid \in UIDs
  BY <1>1 DEF PodVersion
<1>3. Found(S) \in [D -> UIDs]
  BY <1>2 DEF Found
<1> QED BY <1>3 DEF Statuses
-----------------------------------------------------------------------------
(* The calls of the prober.                                                *)

\* Being told to stop changes nothing else of a worker.
LEMMA WorkerFields ==
    ASSUME NEW w \in Worker(UIDs), NEW R
    PROVE  LET z == [w EXCEPT !.stopping = @ \/ Stops(w, R)]
           IN  /\ z \in Worker(UIDs)
               /\ z.key = w.key /\ z.pod = w.pod /\ z.mapped = w.mapped
               /\ z.stopping <=> w.stopping \/ (w.mapped /\ w.key \in R)
BY DEF Worker, Stops

\* RemovePods stops the workers of the pods given and leaves the others.
LEMMA RemovePodsEffect ==
    ASSUME WorkersOK, NEW R, RemovePods(R)
    PROVE  /\ registered' = registered /\ running' \subseteq Worker(UIDs)
           /\ Active' \subseteq Active \ R
           /\ \A u : Own(u) /\ u \notin R => Own(u)'
<1> DEFINE Stopped(w) == [w EXCEPT !.stopping = @ \/ Stops(w, R)]
<1>1. running' = {Stopped(w) : w \in running} /\ registered' = registered
  BY DEF RemovePods
<1>2. \A w \in running :
         /\ Stopped(w) \in Worker(UIDs)
         /\ Stopped(w).key = w.key /\ Stopped(w).pod = w.pod /\ Stopped(w).mapped = w.mapped
         /\ Stopped(w).stopping <=> w.stopping \/ (w.mapped /\ w.key \in R)
  BY WorkerFields DEF WorkersOK
<1> HIDE DEF Stopped
<1>3. running' \subseteq Worker(UIDs)
  BY <1>1, <1>2
<1>4. Active' \subseteq Active \ R
  BY <1>1, <1>2 DEF Active
<1>5. \A u : Own(u) /\ u \notin R => Own(u)'
  BY <1>1, <1>2 DEF Own
<1> QED BY <1>1, <1>3, <1>4, <1>5

\* After the calls of a turn, every pod found has a worker of its own, or is one whose
\* worker another pod's call spoiled.
LEMMA CallsEffect ==
    ASSUME WorkersOK, NEW found \in Statuses, NEW gone, Calls(found, gone)
    PROVE  /\ registered' \subseteq UIDs /\ running' \subseteq Worker(UIDs) /\ spoiled' \subseteq UIDs
           /\ Active' \subseteq (Active \cup Range(found)) \ gone
           /\ \A u : Own(u) /\ u \notin gone => Own(u)'
           /\ \A u \in Range(found) : Own(u)' \/ u \in spoiled'
           /\ \A u \in spoiled : Own(u)' \/ u \in spoiled'
<1> DEFINE Stopped(w) == [w EXCEPT !.stopping = @ \/ Stops(w, gone)]
<1>1. Range(found) \subseteq UIDs
  BY StatusesProperties
<1>2. PICK new \in SUBSET Worker(UIDs) :
         /\ \A w \in new : w.key \in Range(found)
         /\ running' = {Stopped(w) : w \in running \cup new}
  <2>1. CASE found = <<>> /\ RemovePods(gone)
    <3>1. running' = {Stopped(w) : w \in running \cup {}}
      BY <2>1 DEF RemovePods
    <3> QED BY <3>1
  <2>2. CASE \E p \in Range(found) : AddAndRemove(Range(found), p, gone)
    <3>1. PICK p \in Range(found) : AddAndRemove(Range(found), p, gone)
      BY <2>2
    <3> DEFINE new == {NewWorker(u, p) : u \in Range(found) \ registered}
    <3>2. new \in SUBSET Worker(UIDs)
      <4>1. \A u \in Range(found) : NewWorker(u, p) \in Worker(UIDs)
        BY <1>1 DEF NewWorker, Worker
      <4> QED BY <4>1
    <3>3. \A w \in new : w.key \in Range(found)
      BY DEF NewWorker
    <3>4. running' = {Stopped(w) : w \in running \cup new}
      BY <3>1 DEF AddAndRemove
    <3> HIDE DEF new
    <3> QED BY <3>2, <3>3, <3>4
  <2> QED BY <2>1, <2>2 DEF Calls
<1>3. \A w \in running \cup new :
         /\ Stopped(w) \in Worker(UIDs)
         /\ Stopped(w).key = w.key /\ Stopped(w).pod = w.pod /\ Stopped(w).mapped = w.mapped
         /\ Stopped(w).stopping <=> w.stopping \/ (w.mapped /\ w.key \in gone)
  BY WorkerFields DEF WorkersOK
<1> HIDE DEF Stopped
<1>4. running' \subseteq Worker(UIDs)
  BY <1>2, <1>3
<1>5. Active' \subseteq (Active \cup Range(found)) \ gone
  BY <1>2, <1>3 DEF Active
<1>6. \A u : Own(u) /\ u \notin gone => Own(u)'
  BY <1>2, <1>3 DEF Own
<1>7. registered' \subseteq UIDs
  BY <1>1 DEF Calls, RemovePods, AddAndRemove, WorkersOK
<1>8. spoiled' = (spoiled \ Range(found)) \cup {u \in Range(found) : ~Served(u, running')}
  BY DEF Calls
<1>9. \A u : Served(u, running') => Own(u)'
  BY DEF Served, Own
<1>10. spoiled' \subseteq UIDs
  BY <1>1, <1>8 DEF WorkersOK
<1> QED BY <1>4, <1>5, <1>6, <1>7, <1>8, <1>9, <1>10

\* A worker that ends was not active, and it takes others out of the map at most.
LEMMA WorkerExitsEffect ==
    ASSUME WorkersOK, NEW w \in running, WorkerExits(w)
    PROVE  /\ registered' \subseteq UIDs /\ running' \subseteq Worker(UIDs)
           /\ Active' \subseteq Active /\ \A u : Own(u) => Own(u)'
<1> DEFINE Left(z) == [z EXCEPT !.mapped = @ /\ z.key # w.pod]
<1>1. running' = {Left(z) : z \in running \ {w}} /\ registered' \subseteq registered /\ w.stopping
  BY DEF WorkerExits
<1>2. \A z \in running :
         /\ Left(z) \in Worker(UIDs)
         /\ Left(z).key = z.key /\ Left(z).pod = z.pod /\ (Left(z).stopping <=> z.stopping)
         /\ Left(z).mapped => z.mapped
  BY DEF WorkersOK, Worker
<1> HIDE DEF Left
<1>3. Active' \subseteq Active
  BY <1>1, <1>2 DEF Active
<1>4. \A u : Own(u) => Own(u)'
  BY <1>1, <1>2 DEF Own
<1> QED BY <1>1, <1>2, <1>3, <1>4 DEF WorkersOK
-----------------------------------------------------------------------------
(* The parts of the invariant, and what they depend on.                    *)

\* A sane version is there and has statuses.
LEMMA SaneIsPresent == \A v \in Sane : v # Absent /\ v.statuses \in Statuses
BY ProbeAssumption DEF Sane, ProbeVersion, ProbeAssumption

\* A pod is in a status when some probe tells of it.
LEMMA InStatusIsTold == \A u : u \in InStatus <=> \E c \in Probes : u \in Told(c)
BY DEF InStatus, Told

\* What a probe tells of follows from its newest version.
LEMMA ToldFollows ==
    /\ \A c : Probe(c)' = Probe(c) => Told(c)' = Told(c)
    /\ \A c : Probe(c) \in Sane => Told(c) = Range(Probe(c).statuses)
    /\ \A c : Probe(c)' \in Sane => Told(c)' = Range(Probe(c)'.statuses)
BY SaneIsPresent DEF Told

\* What the objects tell of changes with the objects alone.
LEMMA InStatusKept ==
    ASSUME \A c \in Probes : Probe(c)' = Probe(c)
    PROVE  InStatus' = InStatus
<1>1. \A c \in Probes : Told(c)' = Told(c)
  BY ToldFollows
<1>2. \A u : u \in InStatus' <=> \E c \in Probes : u \in Told(c)'
  BY DEF InStatus, Told
<1>3. \A u : u \in InStatus <=> \E c \in Probes : u \in Told(c)
  BY InStatusIsTold
<1> QED BY <1>1, <1>2, <1>3

\* A turn is of a probe, with a sane copy.
LEMMA TurnTyped ==
    ASSUME LoopOK, NEW i \in DOMAIN todo
    PROVE  todo[i].probe \in Probes /\ todo[i].copy \in Sane
<1>1. todo \in [1 .. Len(todo) -> Turn]
  BY LenProperties DEF LoopOK
<1>2. todo[i] \in Turn
  BY <1>1
<1> QED BY <1>2 DEF Turn

\* A copy that is the last version stays so as long as nobody writes the probe.
LEMMA CopiesKept ==
    ASSUME CopiesAreLast, LoopOK, todo' = todo, held' \subseteq held,
           \A c \in Probes : c \in held' => Probe(c)' = Probe(c)
    PROVE  CopiesAreLast'
<1>1. \A c \in Probes : c \in held' => Newest(probes', probeNews', c) = Newest(probes, probeNews, c)
  BY DEF Probe
<1> QED BY <1>1, TurnTyped DEF CopiesAreLast, Probe

\* The object in process is done with: only its version may have changed.
LEMMA CopiesOfRest ==
    ASSUME CopiesAreLast, LoopOK, todo # <<>>, todo' = Tail(todo), held' = held,
           \A c \in Probes \ {todo[1].probe} : Probe(c)' = Probe(c)
    PROVE  CopiesAreLast'
<1>1. /\ Len(todo) \in Nat \ {0} /\ Len(todo') = Len(todo) - 1
      /\ DOMAIN todo = 1 .. Len(todo) /\ DOMAIN todo' = 1 .. Len(todo')
      /\ \A i \in 1 .. Len(todo') : todo'[i] = todo[i + 1]
  BY EmptySeq, LenProperties, HeadTailProperties DEF LoopOK
<1>2. \A i \in DOMAIN todo : todo[i].probe \in Probes
  BY TurnTyped
<1>3. \A i \in DOMAIN todo' : i + 1 \in DOMAIN todo /\ i + 1 # 1 /\ 1 \in DOMAIN todo
  BY <1>1
<1>4. \A c \in Probes \ {todo[1].probe} :
         Newest(probes', probeNews', c) = Newest(probes, probeNews, c)
  BY DEF Probe
<1>5. ASSUME NEW i \in DOMAIN todo', todo'[i].probe \in held'
      PROVE  Newest(probes', probeNews', todo'[i].probe) = todo'[i].copy
  <2>1. todo[i + 1].probe \in Probes \ {todo[1].probe} /\ todo'[i] = todo[i + 1]
    BY <1>1, <1>2, <1>3 DEF CopiesAreLast
  <2>2. Newest(probes, probeNews, todo[i + 1].probe) = todo[i + 1].copy
    BY <1>3, <1>5, <2>1 DEF CopiesAreLast, Probe
  <2> QED BY <1>4, <2>1, <2>2
<1>6. ASSUME NEW i \in DOMAIN todo', NEW j \in DOMAIN todo', todo'[i].probe = todo'[j].probe
      PROVE  i = j
  <2>1. i + 1 = j + 1
    BY <1>1, <1>3, <1>6 DEF CopiesAreLast
  <2> QED BY <2>1, <1>1
<1> QED BY <1>5, <1>6 DEF CopiesAreLast, Probe

\* Tracked depends on the loop, the workers and the statuses only.
LEMMA TrackedKept ==
    ASSUME Tracked, pc' = pc, todo' = todo, listed' = listed, orphans' = orphans,
           Active' \subseteq Active, InStatus' = InStatus
    PROVE  Tracked'
BY DEF Tracked, Dropped, Updated, Range

\* A step that leaves the controller as it was, and takes no probe from a pod.
LEMMA SettledKept ==
    ASSUME Settled, UNCHANGED <<podVars, probeVars, queueVars, pc, todo, failed>>,
           \A u : Own(u) => Own(u)' \/ u \in spoiled',
           \A u \in spoiled : Own(u)' \/ u \in spoiled'
    PROVE  Settled'
<1>1. Due => Due'
  BY DEF Due, podVars, probeVars, queueVars
<1>2. \A c \in Probes : Exact(probes[c]) => Exact(probes[c])'
  BY DEF Exact, Found, Selects, podVars, probeVars
<1>3. \A c \in Probes : Wants(c)' <=> Wants(c)
  BY DEF Wants, Probe, Newest, probeVars
<1> QED BY <1>1, <1>2, <1>3 DEF Settled, probeVars
-----------------------------------------------------------------------------
(* The invariant holds at first, and users, caches and workers keep it.    *)

\* The inductive invariant holds at first.
LEMMA InitInv == Init => IInv
<1> SUFFICES ASSUME Init PROVE IInv
  OBVIOUS
<1> USE ProbeAssumption DEF ProbeAssumption, Init
<1>1. PodsOK
  <2>1. <<>> \in Seq(PodVersion \cup {Absent})
    BY EmptySeq
  <2> QED BY <2>1 DEF PodsOK
<1>2. ProbesOK
  <2>1. <<>> \in Seq(Sane \cup {Absent})
    BY EmptySeq
  <2> QED BY <2>1 DEF ProbesOK
<1>3. LoopOK
  <2>1. <<>> \in Seq(Turn)
    BY EmptySeq
  <2> QED BY <2>1, EmptyStatuses DEF LoopOK
<1>4. WorkersOK
  BY DEF WorkersOK, ProberInit
<1>5. CopiesAreLast
  BY DEF CopiesAreLast
<1>6. Tracked
  BY DEF Tracked, Active, ProberInit
<1>7. Settled
  BY DEF Settled, Wants, Probe, Newest
<1> QED BY <1>1, <1>2, <1>3, <1>4, <1>5, <1>6, <1>7 DEF IInv

\* Users create, change and delete pods.
LEMMA UserPodKeeps ==
    ASSUME IInv, NEW n \in Names, NEW v \in PodVersion \cup {Absent}, UserPod(n, v),
           lastUid' \in 0 .. MaxUid
    PROVE  IInv'
<1>1. UNCHANGED <<pods, probeVars, queueVars, loopVars, workerVars>>
  BY DEF UserPod
<1>2. podNews' = Extended(podNews, n, v)
  BY DEF UserPod, Extended
<1>3. WrittenAsLast(Names, PodVersion \cup {Absent}, pods, podNews, n, v)
  BY NewestWritten DEF IInv, PodsOK
<1>4. PodsOK' /\ podNews'[n] # <<>>
  BY <1>1, <1>2, <1>3 DEF IInv, PodsOK, WrittenAsLast
<1>5. \A c \in Probes : Probe(c)' = Probe(c)
  BY <1>1 DEF Probe, Newest, probeVars
<1>6. ProbesOK' /\ LoopOK' /\ WorkersOK'
  BY <1>1 DEF IInv, ProbesOK, LoopOK, WorkersOK, probeVars, loopVars, workerVars, proberVars, history
<1>7. CopiesAreLast'
  BY <1>1, <1>5, CopiesKept DEF IInv, loopVars
<1>8. Active' = Active
  BY <1>1 DEF Active, workerVars, proberVars
<1>9. Tracked'
  BY <1>1, <1>5, <1>8, InStatusKept, TrackedKept DEF IInv, loopVars, workerVars, history
<1>10. Settled'
  BY <1>4 DEF Settled, Due
<1> QED BY <1>4, <1>6, <1>7, <1>9, <1>10 DEF IInv

\* What users do to an object leaves its statuses, unless it goes and had none.
LEMMA UserProbeKeeps ==
    ASSUME IInv, NEW c \in Probes, NEW v \in Sane \cup {Absent}, UserProbe(c, v),
           Told(c) \subseteq (IF v = Absent THEN {} ELSE Range(v.statuses))
    PROVE  IInv'
<1>1. /\ PutProbe(c, v) /\ held' = held \ {c}
      /\ UNCHANGED <<podVars, queueVars, pc, todo, failed, listed, workerVars>>
  BY DEF UserProbe
<1>2. /\ ProbesOK' /\ Probe(c)' = v /\ \A d \in Probes \ {c} : Probe(d)' = Probe(d)
      /\ probeNews'[c] # <<>>
  BY <1>1, PutProbeEffect DEF IInv
<1>3. PodsOK' /\ LoopOK' /\ WorkersOK'
  BY <1>1 DEF IInv, PodsOK, LoopOK, WorkersOK, podVars, workerVars, proberVars, history
<1>4. CopiesAreLast'
  BY <1>1, <1>2, CopiesKept DEF IInv
<1>5. Active' = Active
  BY <1>1 DEF Active, workerVars, proberVars
<1>6. InStatus \subseteq InStatus'
  <2>1. \A d \in Probes : Told(d) \subseteq Told(d)'
    BY <1>2, ToldFollows DEF Told
  <2>2. \A u : u \in InStatus' <=> \E d \in Probes : u \in Told(d)'
    BY DEF InStatus, Told
  <2> QED BY <2>1, <2>2, InStatusIsTold
<1>7. Tracked'
  BY <1>1, <1>5, <1>6 DEF IInv, Tracked, Dropped, Updated, Range, workerVars, history
<1>8. Settled'
  BY <1>2 DEF Settled, Due
<1> QED BY <1>2, <1>3, <1>4, <1>7, <1>8 DEF IInv

\* Users do, with the pods and with the probes.
LEMMA UsersKeep == ASSUME IInv, Users PROVE IInv'
<1> USE ProbeAssumption DEF ProbeAssumption
<1>0. lastUid \in 0 .. MaxUid
  BY DEF IInv, PodsOK
<1>1. ASSUME NEW n \in Names, NEW l \in Labels, CreatePod(n, l)
      PROVE  IInv'
  <2>1. lastUid' = lastUid + 1 /\ lastUid < MaxUid
    BY <1>1 DEF CreatePod
  <2>2. [uid |-> lastUid', label |-> l] \in PodVersion
    BY <2>1, <1>0 DEF PodVersion, UIDs
  <2>3. lastUid' \in 0 .. MaxUid
    BY <2>1, <1>0
  <2> QED BY <1>1, <2>2, <2>3, UserPodKeeps DEF CreatePod
<1>2. ASSUME NEW n \in Names, NEW l \in Labels, Relabel(n, l)
      PROVE  IInv'
  <2>1. Pod(n) \in PodVersion
    BY <1>2, PodTyped DEF IInv, Relabel
  <2>2. [Pod(n) EXCEPT !.label = l] \in PodVersion
    BY <2>1 DEF PodVersion
  <2> QED BY <1>0, <1>2, <2>2, UserPodKeeps DEF Relabel
<1>3. ASSUME NEW n \in Names, DeletePod(n)
      PROVE  IInv'
  BY <1>0, <1>3, UserPodKeeps DEF DeletePod
<1>4. ASSUME NEW c \in Probes, NEW S \in Selectors, CreateProbe(c, S)
      PROVE  IInv'
  <2>1. NewProbe(S) \in Sane
    BY EmptyStatuses DEF NewProbe, Sane, ProbeVersion
  <2>2. Told(c) = {}
    BY <1>4 DEF CreateProbe, Told
  <2> QED BY <1>4, <2>1, <2>2, SaneIsPresent, UserProbeKeeps DEF CreateProbe
<1>5. ASSUME NEW c \in Probes, NEW S \in Selectors, EditProbe(c, S)
      PROVE  IInv'
  <2> DEFINE v == [Probe(c) EXCEPT !.selector = S]
  <2>1. Probe(c) \in Sane
    BY <1>5, ProbeTyped DEF IInv, EditProbe
  <2>2. v \in Sane /\ v.statuses = Probe(c).statuses
    BY <2>1 DEF Sane, ProbeVersion
  <2>3. Told(c) = Range(v.statuses)
    BY <2>1, <2>2, ToldFollows
  <2>4. UserProbe(c, v)
    BY <1>5 DEF EditProbe
  <2> HIDE DEF v
  <2> QED BY <2>2, <2>3, <2>4, SaneIsPresent, UserProbeKeeps
<1>6. ASSUME NEW c \in Probes, DeleteProbe(c)
      PROVE  IInv'
  <2>1. Probe(c) \in Sane
    BY <1>6, ProbeTyped DEF IInv, DeleteProbe
  <2>2. CASE Probe(c).ours
    <3> DEFINE v == [Probe(c) EXCEPT !.deleting = TRUE]
    <3>1. v \in Sane /\ v.statuses = Probe(c).statuses
      BY <2>1 DEF Sane, ProbeVersion
    <3>2. Told(c) = Range(v.statuses)
      BY <2>1, <3>1, ToldFollows
    <3>3. UserProbe(c, v)
      BY <1>6, <2>2 DEF DeleteProbe
    <3> HIDE DEF v
    <3> QED BY <3>1, <3>2, <3>3, SaneIsPresent, UserProbeKeeps
  <2>3. CASE ~Probe(c).ours
    <3>1. Probe(c).statuses = <<>>
      BY <2>1, <2>3 DEF Sane
    <3>2. Told(c) = {}
      BY <2>1, <3>1, ToldFollows, EmptyStatuses
    <3>3. UserProbe(c, Absent)
      BY <1>6, <2>3 DEF DeleteProbe
    <3> QED BY <3>2, <3>3, UserProbeKeeps
  <2> QED BY <2>2, <2>3
<1> QED BY <1>1, <1>2, <1>3, <1>4, <1>5, <1>6 DEF Users

\* A worker that was told to stop ends.
LEMMA WorkerEndsKeeps == ASSUME IInv, WorkerEnds PROVE IInv'
<1>1. /\ UNCHANGED <<podVars, probeVars, queueVars, loopVars, history, bounds>>
      /\ \E w \in running : WorkerExits(w)
  BY DEF WorkerEnds
<1>2. /\ registered' \subseteq UIDs /\ running' \subseteq Worker(UIDs)
      /\ Active' \subseteq Active /\ \A u : Own(u) => Own(u)'
  BY <1>1, WorkerExitsEffect DEF IInv
<1>3. PodsOK' /\ ProbesOK' /\ LoopOK' /\ WorkersOK'
  BY <1>1, <1>2
  DEF IInv, PodsOK, ProbesOK, LoopOK, WorkersOK, podVars, probeVars, loopVars, history
<1>4. \A c \in Probes : Probe(c)' = Probe(c)
  BY <1>1 DEF Probe, Newest, probeVars
<1>5. CopiesAreLast'
  BY <1>1, <1>4, CopiesKept DEF IInv, loopVars
<1>6. Tracked'
  BY <1>1, <1>2, <1>4, InStatusKept, TrackedKept DEF IInv, loopVars, history
<1>7. Settled'
  BY <1>1, <1>2, SettledKept DEF IInv, loopVars, history
<1> QED BY <1>3, <1>5, <1>6, <1>7 DEF IInv

\* A cache sees the next version, and a retry becomes due.
LEMMA CachesKeep ==
    ASSUME IInv, RetryDue \/ (\E n \in Names : DeliverPod(n)) \/ \E c \in Probes : DeliverProbe(c)
    PROVE  IInv'
<1>1. UNCHANGED <<loopVars, workerVars, bounds>> /\ queued' = TRUE
  BY DEF RetryDue, DeliverPod, DeliverProbe
<1>2. PodsOK'
  <2>1. CASE UNCHANGED podVars
    BY <2>1 DEF IInv, PodsOK, podVars
  <2>2. ASSUME NEW n \in Names, DeliverPod(n)
        PROVE  PodsOK'
    <3>1. /\ pods' = SeenBy(pods, podNews, n) /\ podNews' = LeftOf(podNews, n)
          /\ lastUid' = lastUid /\ podNews[n] # <<>>
      BY <2>2 DEF DeliverPod, SeenBy, LeftOf
    <3>2. SeenWithoutChange(Names, PodVersion \cup {Absent}, pods, podNews, n)
      BY <3>1, NewestDelivered DEF IInv, PodsOK
    <3> QED BY <3>1, <3>2 DEF IInv, PodsOK, SeenWithoutChange
  <2> QED BY <2>1, <2>2 DEF RetryDue, DeliverProbe
<1>3. ProbesOK' /\ \A c \in Probes : Probe(c)' = Probe(c)
  <2>1. CASE UNCHANGED probeVars
    BY <2>1 DEF IInv, ProbesOK, Probe, Newest, probeVars
  <2>2. ASSUME NEW c \in Probes, DeliverProbe(c)
        PROVE  ProbesOK' /\ \A d \in Probes : Probe(d)' = Probe(d)
    <3>1. /\ probes' = SeenBy(probes, probeNews, c) /\ probeNews' = LeftOf(probeNews, c)
          /\ probeNews[c] # <<>>
      BY <2>2 DEF DeliverProbe, SeenBy, LeftOf
    <3>2. SeenWithoutChange(Probes, Sane \cup {Absent}, probes, probeNews, c)
      BY <3>1, NewestDelivered DEF IInv, ProbesOK
    <3> QED BY <3>1, <3>2 DEF ProbesOK, SeenWithoutChange, Probe
  <2> QED BY <2>1, <2>2 DEF RetryDue, DeliverPod
<1>4. LoopOK' /\ WorkersOK'
  BY <1>1 DEF IInv, LoopOK, WorkersOK, loopVars, workerVars, proberVars, history
<1>5. CopiesAreLast'
  BY <1>1, <1>3, CopiesKept DEF IInv, loopVars
<1>6. Active' = Active
  BY <1>1 DEF Active, workerVars, proberVars
<1>7. Tracked'
  BY <1>1, <1>3, <1>6, InStatusKept, TrackedKept DEF IInv, loopVars, workerVars, history
<1>8. Settled'
  BY <1>1 DEF Settled, Due
<1> QED BY <1>2, <1>3, <1>4, <1>5, <1>7, <1>8 DEF IInv

\* The process stops and starts again, without workers.
LEMMA CrashKeeps == ASSUME IInv, Crash PROVE IInv'
<1>1. /\ pods' = [n \in Names |-> Pod(n)] /\ podNews' = [n \in Names |-> <<>>]
      /\ probes' = [c \in Probes |-> Probe(c)] /\ probeNews' = [c \in Probes |-> <<>>]
      /\ queued' = TRUE /\ lastUid' = lastUid /\ registered' = {} /\ running' = {}
      /\ pc' = "idle" /\ todo' = <<>> /\ held' = {} /\ failed' = FALSE /\ listed' = <<>>
      /\ orphans' = {} /\ spoiled' = {}
  BY DEF Crash, ProberGone
<1>2. PodsOK'
  <2>1. <<>> \in Seq(PodVersion \cup {Absent})
    BY EmptySeq
  <2> QED BY <1>1, <2>1, PodTyped DEF IInv, PodsOK
<1>3. ProbesOK'
  <2>1. <<>> \in Seq(Sane \cup {Absent})
    BY EmptySeq
  <2> QED BY <1>1, <2>1, ProbeTyped DEF IInv, ProbesOK
<1>4. LoopOK'
  <2>1. <<>> \in Seq(Turn)
    BY EmptySeq
  <2> QED BY <1>1, <2>1, EmptyStatuses DEF LoopOK
<1>5. WorkersOK' /\ CopiesAreLast' /\ Settled'
  BY <1>1 DEF WorkersOK, CopiesAreLast, Settled, Due
<1>6. Tracked'
  BY <1>1 DEF Tracked, Active
<1> QED BY <1>2, <1>3, <1>4, <1>5, <1>6 DEF IInv
-----------------------------------------------------------------------------
(* A turn of the controller.                                               *)

\* The objects listed in some order are listed once each.
LEMMA ListedOnce ==
    ASSUME NEW S, IsFiniteSet(S), NEW o \in [1 .. Cardinality(S) -> S], Range(o) = S
    PROVE  /\ Cardinality(S) \in Nat
           /\ \A i, j \in 1 .. Cardinality(S) : o[i] = o[j] => i = j
<1>1. Cardinality(S) \in Nat
  BY FS_CardinalityType
<1>2. IsFiniteSet(1 .. Cardinality(S)) /\ Cardinality(1 .. Cardinality(S)) = Cardinality(S)
  BY <1>1, FS_Interval
<1>3. o \in Surjection(1 .. Cardinality(S), S)
  BY DEF Surjection, Range
<1>4. o \in Injection(1 .. Cardinality(S), S)
  BY <1>2, <1>3, FS_SurjSameCardinalityImpliesInj
<1> QED BY <1>1, <1>4 DEF Injection, IsInjective

\* Reconcile lists the probes.
LEMMA BeginKeeps == ASSUME IInv, Begin PROVE IInv'
<1> DEFINE known == {c \in Probes : probes[c] # Absent}
<1>1. PICK o \in [1 .. Cardinality(known) -> known] :
         /\ Range(o) = known
         /\ todo' = [i \in DOMAIN o |-> [probe |-> o[i], copy |-> probes[o[i]]]]
  BY DEF Begin
<1>2. /\ pc = "idle" /\ queued' = FALSE /\ held' = {c \in Probes : probeNews[c] = <<>>}
      /\ pc' = "next" /\ failed' = FALSE
      /\ UNCHANGED <<podVars, probeVars, retry, listed, workerVars, bounds>>
  BY DEF Begin
<1>3. IsFiniteSet(known)
  BY ProbeAssumption, FS_Subset DEF ProbeAssumption
<1>4. /\ Cardinality(known) \in Nat
      /\ \A i, j \in 1 .. Cardinality(known) : o[i] = o[j] => i = j
  BY <1>1, <1>3, ListedOnce
<1>5. DOMAIN o = 1 .. Cardinality(known) /\ \A i \in DOMAIN o : o[i] \in known
  OBVIOUS
<1> DEFINE n == Cardinality(known)
<1>6. \A i \in 1 .. n : [probe |-> o[i], copy |-> probes[o[i]]] \in Turn
  <2>1. \A c \in known : c \in Probes /\ probes[c] \in Sane
    BY DEF IInv, ProbesOK
  <2> QED BY <1>5, <2>1 DEF Turn
<1>7. /\ DOMAIN todo' = 1 .. n
      /\ \A i \in 1 .. n : todo'[i].probe = o[i] /\ todo'[i].copy = probes[o[i]]
  BY <1>1, <1>5
<1>8. todo' \in Seq(Turn)
  <2> HIDE DEF n
  <2>1. todo' = [i \in 1 .. n |-> [probe |-> o[i], copy |-> probes[o[i]]]]
    BY <1>1, <1>5 DEF n
  <2>2. todo' \in [1 .. n -> Turn]
    BY <1>6, <2>1
  <2> QED BY <1>4, <2>2, SeqDef DEF n
<1>9. PodsOK' /\ ProbesOK' /\ WorkersOK'
  BY <1>2
  DEF IInv, PodsOK, ProbesOK, WorkersOK, podVars, probeVars, workerVars, proberVars, history
<1>10. LoopOK'
  BY <1>2, <1>8 DEF IInv, LoopOK
<1>11. CopiesAreLast'
  BY <1>2, <1>4, <1>5, <1>7 DEF CopiesAreLast, Probe, Newest, probeVars
<1>12. Tracked'
  <2>1. Active' = Active
    BY <1>2 DEF Active, workerVars, proberVars
  <2>2. InStatus' = InStatus
    BY <1>2, InStatusKept DEF Probe, Newest, probeVars
  <2> QED BY <1>2, <2>1, <2>2 DEF IInv, Tracked, workerVars, history
<1>13. Settled'
  <2> SUFFICES ASSUME ~Due'
               PROVE  /\ \A i \in DOMAIN todo' : todo'[i].copy = probes'[todo'[i].probe]
                      /\ \A c \in Probes : Wants(c)' => \E i \in DOMAIN todo' : todo'[i].probe = c
    BY DEF Settled
  <2>1. \A c \in Probes : probeNews[c] = <<>> /\ Probe(c)' = probes[c]
    BY <1>2 DEF Due, Probe, Newest, probeVars
  <2>2. \A c \in Probes : Wants(c)' => c \in known
    BY <2>1 DEF Wants
  <2>3. \A c \in known : \E i \in DOMAIN o : o[i] = c
    BY <1>1 DEF Range
  <2> QED BY <1>2, <1>5, <1>7, <2>2, <2>3 DEF probeVars
<1> QED BY <1>9, <1>10, <1>11, <1>12, <1>13 DEF IInv

\* Reconcile returns.
LEMMA EndKeeps == ASSUME IInv, End PROVE IInv'
<1>1. /\ pc = "next" /\ todo = <<>> /\ pc' = "idle" /\ retry' = (retry \/ failed)
      /\ failed' = FALSE /\ held' = {}
      /\ UNCHANGED <<podVars, probeVars, queued, todo, listed, workerVars, bounds>>
  BY DEF End
<1>2. PodsOK' /\ ProbesOK' /\ WorkersOK'
  BY <1>1
  DEF IInv, PodsOK, ProbesOK, WorkersOK, podVars, probeVars, workerVars, proberVars, history
<1>3. LoopOK'
  BY <1>1 DEF IInv, LoopOK
<1>4. CopiesAreLast'
  BY <1>1, CopiesKept DEF IInv
<1>5. Tracked'
  <2>1. Active' = Active
    BY <1>1 DEF Active, workerVars, proberVars
  <2>2. InStatus' = InStatus
    BY <1>1, InStatusKept DEF Probe, Newest, probeVars
  <2> QED BY <1>1, <2>1, <2>2 DEF IInv, Tracked, workerVars, history
<1>6. Settled'
  <2>1. Due => Due'
    BY <1>1 DEF Due, podVars, probeVars
  <2>2. \A c \in Probes : Exact(probes[c]) => Exact(probes[c])'
    BY <1>1 DEF Exact, Found, Selects, Own, podVars, probeVars, workerVars, proberVars, history
  <2>3. \A c \in Probes : Wants(c)' <=> Wants(c)
    BY <1>1 DEF Wants, Probe, Newest, probeVars
  <2> QED BY <1>1, <2>1, <2>2, <2>3 DEF IInv, Settled, probeVars
<1> QED BY <1>2, <1>3, <1>4, <1>5, <1>6 DEF IInv

\* The turn of a probe ends, with or without an error.
LEMMA ReturnEffect ==
    ASSUME LoopOK, todo # <<>>, NEW err \in BOOLEAN, Return(err)
    PROVE  /\ LoopOK' /\ pc' = "next" /\ todo' = Tail(todo) /\ held' = held /\ listed' = <<>>
           /\ failed' = (failed \/ err)
<1>1. Tail(todo) \in Seq(Turn)
  BY HeadTailProperties DEF LoopOK
<1> QED BY <1>1, EmptyStatuses DEF LoopOK, Return

\* The turn under way is that of a probe.
LEMMA FirstTurn ==
    ASSUME LoopOK, todo # <<>>
    PROVE  1 \in DOMAIN todo /\ todo[1].probe \in Probes /\ todo[1].copy \in Sane
<1>1. Len(todo) \in Nat \ {0} /\ DOMAIN todo = 1 .. Len(todo)
  BY EmptySeq, LenProperties DEF LoopOK
<1>2. 1 \in DOMAIN todo
  BY <1>1
<1> QED BY <1>2, TurnTyped

\* The calls of the prober, and what is kept of them for the update of the status.
LEMMA RegisterKeeps ==
    ASSUME IInv, todo # <<>>, pc \in {"next", "finalize"},
           NEW c, c = todo[1].probe, NEW v \in Sane, v.ours, NEW found \in Statuses,
           Register(c, v, found),
           c \in held => Probe(c)' = v,
           \A d \in Probes \ {c} : Probe(d)' = Probe(d),
           InStatus' = InStatus
    PROVE  LoopOK' /\ WorkersOK' /\ CopiesAreLast' /\ Tracked'
<1> DEFINE gone == Dropped(v.statuses, found)
<1>1. c \in Probes /\ 1 \in DOMAIN todo
  BY FirstTurn DEF IInv
<1>2. Calls(found, gone)
  BY DEF Register, Dropped
<1>3. /\ registered' \subseteq UIDs /\ running' \subseteq Worker(UIDs) /\ spoiled' \subseteq UIDs
      /\ Active' \subseteq (Active \cup Range(found)) \ gone
  BY <1>2, CallsEffect DEF IInv
<1>4. Range(found) \subseteq UIDs
  BY StatusesProperties
<1>5. Active \subseteq InStatus \cup orphans
  BY DEF IInv, Tracked
<1> HIDE DEF gone
<1>6. CASE DOMAIN found = DOMAIN v.statuses
  <2>1. Return(FALSE) /\ orphans' = orphans \cup (Range(found) \ Told(c))
    BY <1>6 DEF Register
  <2>2. LoopOK' /\ pc' = "next" /\ todo' = Tail(todo) /\ held' = held
    BY <2>1, ReturnEffect DEF IInv
  <2>3. WorkersOK'
    BY <1>3, <1>4, <2>1 DEF IInv, WorkersOK
  <2>4. CopiesAreLast'
    BY <2>2, CopiesOfRest DEF IInv
  <2>5. Told(c) \subseteq InStatus
    BY <1>1, InStatusIsTold
  <2>6. Tracked'
    BY <1>3, <1>5, <2>1, <2>2, <2>5 DEF Tracked
  <2> QED BY <2>2, <2>3, <2>4, <2>6
<1>7. CASE DOMAIN found # DOMAIN v.statuses
  <2>1. /\ orphans' = orphans \cup (Range(found) \ Range(Updated(v.statuses, found)))
        /\ pc' = "status" /\ todo' = [todo EXCEPT ![1].copy = v] /\ listed' = found
        /\ held' = held /\ failed' = failed
    BY <1>7 DEF Register
  <2> DEFINE t == [todo[1] EXCEPT !.copy = v]
  <2>2. todo[1] \in Turn /\ 1 \in 1 .. Len(todo) /\ DOMAIN todo = 1 .. Len(todo)
    <3>1. DOMAIN todo = 1 .. Len(todo) /\ todo \in [1 .. Len(todo) -> Turn]
      BY LenProperties DEF IInv, LoopOK
    <3> QED BY <1>1, <3>1
  <2>3. t \in Turn /\ t.probe = c /\ t.copy = v
    BY <2>2 DEF Turn
  <2>4. todo' = [todo EXCEPT ![1] = t]
    BY <2>1
  <2> HIDE DEF t
  <2>5. /\ todo' \in Seq(Turn) /\ DOMAIN todo' = DOMAIN todo /\ todo' # <<>>
        /\ todo'[1] = t /\ \A i \in DOMAIN todo \ {1} : todo'[i] = todo[i]
    <3>1. [todo EXCEPT ![1] = t] \in Seq(Turn)
      BY <2>2, <2>3, ExceptSeq DEF IInv, LoopOK
    <3> QED BY <1>1, <2>4, <3>1
  <2>6. LoopOK'
    BY <2>1, <2>3, <2>5 DEF IInv, LoopOK
  <2>7. WorkersOK'
    BY <1>3, <1>4, <2>1 DEF IInv, WorkersOK
  <2>8. \A i \in DOMAIN todo : todo'[i].probe = todo[i].probe
    BY <2>3, <2>5
  <2>9. CopiesAreLast'
    <3>1. ASSUME NEW i \in DOMAIN todo', todo'[i].probe \in held'
          PROVE  Newest(probes', probeNews', todo'[i].probe) = todo'[i].copy
      <4>1. CASE i = 1
        BY <4>1, <2>1, <2>3, <2>5, <3>1 DEF Probe
      <4>2. CASE i # 1
        <5>1. i \in DOMAIN todo /\ todo'[i] = todo[i] /\ todo[i].probe # c
          BY <1>1, <2>5, <4>2 DEF IInv, CopiesAreLast
        <5>2. todo[i].probe \in Probes \ {c}
          BY <5>1, TurnTyped DEF IInv
        <5>3. Newest(probes', probeNews', todo[i].probe) = Newest(probes, probeNews, todo[i].probe)
          BY <5>2 DEF Probe
        <5>4. Newest(probes, probeNews, todo[i].probe) = todo[i].copy
          BY <5>1, <2>1, <3>1 DEF IInv, CopiesAreLast, Probe
        <5> QED BY <5>1, <5>3, <5>4
      <4> QED BY <4>1, <4>2
    <3>2. \A i, j \in DOMAIN todo' : todo'[i].probe = todo'[j].probe => i = j
      BY <2>5, <2>8 DEF IInv, CopiesAreLast
    <3> QED BY <3>1, <3>2 DEF CopiesAreLast, Probe
  <2>10. todo'[1].copy = v
    BY <2>3, <2>5
  <2>11. Tracked'
    <3>1. Active' \cap gone = {} /\ Active' \subseteq InStatus' \cup orphans' \cup Range(found)
      BY <1>3, <1>5, <2>1
    <3>2. Range(found) \subseteq Range(Updated(v.statuses, found)) \cup orphans'
      BY <2>1
    <3>3. Dropped(todo[1].copy.statuses, listed)' = gone
      BY <2>1, <2>10 DEF gone, Dropped
    <3>4. Updated(todo[1].copy.statuses, listed)' = Updated(v.statuses, found)
      BY <2>1, <2>10 DEF Updated
    <3>5. Range(Updated(todo[1].copy.statuses, listed))' = Range(Updated(v.statuses, found))
      BY <3>4 DEF Range
    <3>6. Range(listed)' = Range(found)
      BY <2>1 DEF Range
    <3> QED BY <2>1, <3>1, <3>2, <3>3, <3>5, <3>6 DEF Tracked
  <2> QED BY <2>6, <2>7, <2>9, <2>11
<1> QED BY <1>6, <1>7

\* A turn of an object whose statuses name the pods there are tells the prober only to add.
LEMMA RegisterSettles ==
    ASSUME IInv, Settled, ~Due', todo # <<>>, pc = "next",
           NEW c, c = todo[1].probe, NEW v \in Sane, v = todo[1].copy, v.ours,
           Register(c, v, Found(v.selector)),
           UNCHANGED <<podVars, probeVars, queueVars>>
    PROVE  Settled'
<1> DEFINE found == Found(v.selector)
<1>1. found \in Statuses
  BY FoundTyped DEF IInv
<1>2. DOMAIN found = DOMAIN v.statuses
  BY DEF Register, Due
<1>3. Return(FALSE) /\ Calls(found, {})
  <2>1. {v.statuses[n] : n \in DOMAIN v.statuses \ DOMAIN found} = {}
    BY <1>2
  <2> QED BY <1>2, <2>1 DEF Register
<1>4. /\ \A u : Own(u) => Own(u)'
      /\ \A u \in Range(found) : Own(u)' \/ u \in spoiled'
      /\ \A u \in spoiled : Own(u)' \/ u \in spoiled'
  BY <1>1, <1>3, CallsEffect DEF IInv
<1>5. pc' = "next" /\ todo' = Tail(todo) /\ failed' = failed
  BY <1>3, ReturnEffect DEF IInv, LoopOK
<1>6. ~Due
  BY <1>5 DEF Due, podVars, probeVars, queueVars
<1>7. c \in Probes /\ v = probes[c]
  BY <1>6, FirstTurn DEF IInv, Settled
<1>8. /\ DOMAIN todo = 1 .. Len(todo) /\ DOMAIN todo' = 1 .. Len(todo')
      /\ Len(todo) \in Nat \ {0} /\ Len(todo') = Len(todo) - 1
      /\ \A i \in 1 .. Len(todo') : todo'[i] = todo[i + 1]
  BY <1>5, EmptySeq, LenProperties, HeadTailProperties DEF IInv, LoopOK
<1>9. \A i \in DOMAIN todo' : todo'[i].copy = probes'[todo'[i].probe]
  BY <1>6, <1>8 DEF Settled, probeVars
<1>10. \A d \in Probes : Exact(probes[d]) => Exact(probes[d])'
  BY <1>4 DEF Exact, Found, Selects, podVars, probeVars
<1>11. Exact(probes[c])'
  <2>1. \A S : Found(S)' = Found(S)
    BY DEF Found, Selects, podVars
  <2>2. DOMAIN v.statuses = DOMAIN Found(v.selector)'
    BY <1>2, <2>1
  <2>3. \A u \in Range(found) : Own(u)' \/ u \in spoiled'
    BY <1>4
  <2>4. probes' = probes /\ Found(v.selector)' = found
    BY <2>1 DEF probeVars
  <2> HIDE DEF found
  <2>5. Range(Found(v.selector)') = Range(found)
    BY <2>4
  <2> QED BY <1>7, <2>2, <2>3, <2>4, <2>5 DEF Exact, Range
<1>12. \A d \in Probes : Wants(d)' <=> Wants(d)
  BY DEF Wants, Probe, Newest, probeVars
<1>13. ASSUME NEW d \in Probes, Wants(d)', ~(\E i \in DOMAIN todo' : todo'[i].probe = d)
       PROVE  Exact(probes[d])'
  <2>1. CASE d = c
    BY <2>1, <1>11
  <2>2. CASE d # c
    <3>1. \A i \in DOMAIN todo : todo[i].probe # d
      <4> SUFFICES ASSUME NEW i \in DOMAIN todo, todo[i].probe = d PROVE FALSE
        OBVIOUS
      <4>1. i # 1
        BY <2>2
      <4>2. i - 1 \in DOMAIN todo' /\ todo'[i - 1] = todo[i]
        BY <1>8, <4>1
      <4> QED BY <1>13, <4>2
    <3>2. Exact(probes[d])
      BY <1>6, <1>12, <1>13, <3>1 DEF Settled
    <3> QED BY <1>10, <3>2
  <2> QED BY <2>1, <2>2
<1> QED BY <1>9, <1>13 DEF Settled, probeVars

\* The turn of a probe begins: its pods are found and its workers called.
LEMMA ProcessKeeps == ASSUME IInv, Process PROVE IInv'
<1>0. PICK c, v : c = todo[1].probe /\ v = todo[1].copy
  OBVIOUS
<1>1. pc = "next" /\ todo # <<>> /\ UNCHANGED <<podVars, probeVars, queueVars, bounds>>
  BY DEF Process
<1>2. 1 \in DOMAIN todo /\ c \in Probes /\ v \in Sane /\ v.statuses \in Statuses
  BY <1>0, <1>1, FirstTurn, SaneIsPresent DEF IInv
<1>3. PodsOK' /\ ProbesOK'
  BY <1>1 DEF IInv, PodsOK, ProbesOK, podVars, probeVars
<1>4. \A d \in Probes : Probe(d)' = Probe(d)
  BY <1>1 DEF Probe, Newest, probeVars
<1>5. InStatus' = InStatus
  BY <1>4, InStatusKept
<1>6. listed = <<>>
  BY <1>1 DEF IInv, LoopOK
<1>7. CASE /\ v.deleting /\ v.ours
           /\ RemovePods(Range(v.statuses)) /\ pc' = "release"
           /\ UNCHANGED <<todo, held, failed, listed, history>>
  <2>1. /\ registered' = registered /\ running' \subseteq Worker(UIDs)
        /\ Active' \subseteq Active \ Range(v.statuses)
    BY <1>7, RemovePodsEffect DEF IInv
  <2>2. LoopOK' /\ WorkersOK'
    BY <1>0, <1>1, <1>6, <1>7, <2>1 DEF IInv, LoopOK, WorkersOK, history
  <2>3. CopiesAreLast'
    BY <1>4, <1>7, CopiesKept DEF IInv
  <2>4. Tracked'
    BY <1>0, <1>1, <1>5, <1>7, <2>1 DEF IInv, Tracked, history, Range
  <2>5. Settled'
    BY <1>7 DEF Settled, Due
  <2> QED BY <1>3, <2>2, <2>3, <2>4, <2>5 DEF IInv
<1>8. CASE v.deleting /\ ~v.ours /\ Return(FALSE) /\ UNCHANGED workerVars
  <2>1. LoopOK' /\ pc' = "next" /\ todo' = Tail(todo) /\ held' = held /\ failed' = failed
    BY <1>1, <1>8, ReturnEffect DEF IInv, LoopOK
  <2>2. WorkersOK'
    BY <1>8 DEF IInv, WorkersOK, workerVars, proberVars, history
  <2>3. CopiesAreLast'
    BY <1>0, <1>1, <1>4, <2>1, CopiesOfRest DEF IInv
  <2>4. Tracked'
    BY <1>1, <1>5, <1>8, <2>1 DEF IInv, Tracked, Active, workerVars, proberVars, history
  <2>5. Settled'
    <3> SUFFICES ASSUME ~Due' PROVE Settled'
      BY DEF Settled
    <3>1. ~Due
      BY <1>1, <2>1 DEF Due, podVars, probeVars, queueVars
    <3>2. /\ DOMAIN todo = 1 .. Len(todo) /\ DOMAIN todo' = 1 .. Len(todo')
          /\ Len(todo) \in Nat \ {0} /\ Len(todo') = Len(todo) - 1
          /\ \A i \in 1 .. Len(todo') : todo'[i] = todo[i + 1]
      BY <1>1, <2>1, EmptySeq, LenProperties, HeadTailProperties DEF IInv, LoopOK
    <3>3. \A i \in DOMAIN todo' : todo'[i].copy = probes'[todo'[i].probe]
      BY <1>1, <3>1, <3>2 DEF IInv, Settled, probeVars
    <3>4. \A d \in Probes : Exact(probes[d]) => Exact(probes[d])'
      BY <1>1, <1>8
      DEF Exact, Found, Selects, Own, podVars, probeVars, workerVars, proberVars, history
    <3>5. \A d \in Probes : Wants(d)' <=> Wants(d)
      BY <1>4 DEF Wants
    <3>6. v = probes[c] /\ ~Wants(c)
      BY <1>0, <1>2, <1>8, <3>1, SaneIsPresent DEF IInv, Settled, Wants, Probe, Newest, Due
    <3>7. ASSUME NEW d \in Probes, Wants(d)', ~(\E i \in DOMAIN todo' : todo'[i].probe = d)
          PROVE  Exact(probes[d])'
      <4>1. \A i \in DOMAIN todo : todo[i].probe # d
        <5> SUFFICES ASSUME NEW i \in DOMAIN todo, todo[i].probe = d PROVE FALSE
          OBVIOUS
        <5>1. i # 1
          BY <1>0, <3>5, <3>6, <3>7
        <5>2. i - 1 \in DOMAIN todo' /\ todo'[i - 1] = todo[i]
          BY <3>2, <5>1
        <5> QED BY <3>7, <5>2
      <4>2. Exact(probes[d])
        BY <3>1, <3>5, <3>7, <4>1 DEF IInv, Settled
      <4> QED BY <3>4, <4>2
    <3> QED BY <1>1, <3>3, <3>7 DEF Settled, probeVars
  <2> QED BY <1>3, <2>1, <2>2, <2>3, <2>4, <2>5 DEF IInv
<1>9. CASE /\ ~v.deleting /\ ~v.ours /\ listed' = Found(v.selector) /\ pc' = "finalize"
           /\ UNCHANGED <<todo, held, failed, workerVars>>
  <2>1. listed' \in Statuses
    BY <1>9, FoundTyped DEF IInv
  <2>2. LoopOK' /\ WorkersOK'
    BY <1>1, <1>9, <2>1 DEF IInv, LoopOK, WorkersOK, workerVars, proberVars, history
  <2>3. CopiesAreLast'
    BY <1>4, <1>9, CopiesKept DEF IInv
  <2>4. Tracked'
    BY <1>1, <1>5, <1>9 DEF IInv, Tracked, Active, workerVars, proberVars, history
  <2>5. Settled'
    BY <1>9 DEF Settled, Due
  <2> QED BY <1>3, <2>2, <2>3, <2>4, <2>5 DEF IInv
<1>10. CASE ~v.deleting /\ v.ours /\ Register(c, v, Found(v.selector))
  <2>1. Found(v.selector) \in Statuses
    BY FoundTyped DEF IInv
  <2>2. c \in held => Probe(c)' = v
    BY <1>0, <1>2, <1>4 DEF IInv, CopiesAreLast
  <2>3. LoopOK' /\ WorkersOK' /\ CopiesAreLast' /\ Tracked'
    BY <1>0, <1>1, <1>2, <1>4, <1>5, <1>10, <2>1, <2>2, RegisterKeeps
  <2>4. Settled'
    <3>1. CASE Due'
      BY <3>1 DEF Settled
    <3>2. CASE ~Due'
      BY <1>0, <1>1, <1>2, <1>10, <3>2, RegisterSettles DEF IInv
    <3> QED BY <3>1, <3>2
  <2> QED BY <1>3, <2>3, <2>4 DEF IInv
<1> QED BY <1>0, <1>7, <1>8, <1>9, <1>10 DEF Process

\* An update that is not known to have been done: it may have been, if the copy was the
\* last version.
LEMMA FailedEffect ==
    ASSUME IInv, NEW c \in Probes, NEW v \in Sane \cup {Absent}, Refused(c) \/ Unanswered(c, v)
    PROVE  /\ ProbesOK' /\ \A d \in Probes \ {c} : Probe(d)' = Probe(d)
           /\ Probe(c)' = Probe(c) \/ (c \in held /\ Probe(c)' = v)
<1>1. CASE UNCHANGED probeVars
  BY <1>1 DEF IInv, ProbesOK, Probe, Newest, probeVars
<1>2. CASE c \in held /\ PutProbe(c, v)
  BY <1>2, PutProbeEffect DEF IInv
<1> QED BY <1>1, <1>2 DEF Refused, Unanswered

\* processCentralProbe returns after an update: the last version is new, or there was an
\* error.
LEMMA ReturnSettles ==
    ASSUME IInv, Return(TRUE) \/ \E d \in Probes : probeNews'[d] # <<>>
    PROVE  Settled'
BY DEF Settled, Due, Return

\* The Update that adds the finalizer.
LEMMA AddFinalizerKeeps == ASSUME IInv, AddFinalizer PROVE IInv'
<1>1. PICK c, v : c = todo[1].probe /\ v = [todo[1].copy EXCEPT !.ours = TRUE]
  OBVIOUS
<1>2. pc = "finalize" /\ todo # <<>> /\ UNCHANGED <<podVars, queueVars, acts>>
  BY DEF AddFinalizer, IInv, LoopOK
<1>3. 1 \in DOMAIN todo /\ c \in Probes /\ todo[1].copy \in Sane
  BY <1>1, <1>2, FirstTurn DEF IInv
<1>4. v \in Sane /\ v.ours /\ v.statuses = todo[1].copy.statuses
  BY <1>1, <1>3 DEF Sane, ProbeVersion
<1>5. PodsOK'
  BY <1>2 DEF IInv, PodsOK, podVars
<1>6. c \in held => Probe(c) = todo[1].copy
  BY <1>1, <1>3 DEF IInv, CopiesAreLast
<1>7. ASSUME \A d \in Probes \ {c} : Probe(d)' = Probe(d),
             Probe(c)' = Probe(c) \/ (c \in held /\ Probe(c)' = v)
      PROVE  InStatus' = InStatus
  <2>1. Told(c)' = Told(c)
    BY <1>3, <1>4, <1>6, <1>7, ToldFollows
  <2>2. \A d \in Probes : Told(d)' = Told(d)
    BY <1>7, <2>1, ToldFollows
  <2>3. \A u : u \in InStatus' <=> \E d \in Probes : u \in Told(d)'
    BY DEF InStatus, Told
  <2> QED BY <2>2, <2>3, InStatusIsTold
<1>8. CASE c \in held /\ PutProbe(c, v) /\ Register(c, v, listed)
  <2>1. /\ ProbesOK' /\ Probe(c)' = v /\ \A d \in Probes \ {c} : Probe(d)' = Probe(d)
        /\ probeNews'[c] # <<>>
    BY <1>3, <1>4, <1>8, PutProbeEffect DEF IInv
  <2>2. LoopOK' /\ WorkersOK' /\ CopiesAreLast' /\ Tracked'
    BY <1>1, <1>2, <1>4, <1>7, <1>8, <2>1, RegisterKeeps DEF IInv, LoopOK
  <2>3. Settled'
    BY <1>3, <2>1, ReturnSettles
  <2> QED BY <1>5, <2>1, <2>2, <2>3 DEF IInv
<1>9. CASE (Refused(c) \/ Unanswered(c, v)) /\ Return(TRUE) /\ UNCHANGED workerVars
  <2>1. /\ ProbesOK' /\ \A d \in Probes \ {c} : Probe(d)' = Probe(d)
        /\ Probe(c)' = Probe(c) \/ (c \in held /\ Probe(c)' = v)
    BY <1>3, <1>4, <1>9, FailedEffect
  <2>2. LoopOK' /\ pc' = "next" /\ todo' = Tail(todo) /\ held' = held
    BY <1>2, <1>9, ReturnEffect DEF IInv
  <2>3. WorkersOK'
    BY <1>9 DEF IInv, WorkersOK, workerVars, proberVars, history
  <2>4. CopiesAreLast'
    BY <1>1, <1>2, <2>1, <2>2, CopiesOfRest DEF IInv
  <2>5. Tracked'
    BY <1>2, <1>7, <1>9, <2>1, <2>2
    DEF IInv, Tracked, Active, workerVars, proberVars, history
  <2>6. Settled'
    BY <1>9, ReturnSettles
  <2> QED BY <1>5, <2>1, <2>2, <2>3, <2>4, <2>5, <2>6 DEF IInv
<1> QED BY <1>1, <1>8, <1>9 DEF AddFinalizer

\* The Update that removes the finalizer, after the workers were removed.
LEMMA RemoveFinalizerKeeps == ASSUME IInv, RemoveFinalizer PROVE IInv'
<1>1. PICK c : c = todo[1].probe
  OBVIOUS
<1>2. pc = "release" /\ todo # <<>> /\ UNCHANGED <<podVars, queueVars, workerVars, acts>>
  BY DEF RemoveFinalizer, IInv, LoopOK
<1>3. 1 \in DOMAIN todo /\ c \in Probes /\ todo[1].copy \in Sane
  BY <1>1, <1>2, FirstTurn DEF IInv
<1>4. c \in held => Told(c) = Range(todo[1].copy.statuses)
  BY <1>1, <1>3, ToldFollows DEF IInv, CopiesAreLast
<1>5. /\ ProbesOK' /\ \A d \in Probes \ {c} : Probe(d)' = Probe(d)
      /\ Probe(c)' = Probe(c) \/ (c \in held /\ Probe(c)' = Absent)
      /\ Return(TRUE) \/ (Return(FALSE) /\ probeNews'[c] # <<>>)
  <2>1. CASE c \in held /\ PutProbe(c, Absent) /\ Return(FALSE)
    BY <1>3, <2>1, PutProbeEffect DEF IInv
  <2>2. CASE (Refused(c) \/ Unanswered(c, Absent)) /\ Return(TRUE)
    BY <1>3, <2>2, FailedEffect
  <2> QED BY <1>1, <2>1, <2>2 DEF RemoveFinalizer
<1>6. PodsOK' /\ WorkersOK'
  BY <1>2 DEF IInv, PodsOK, WorkersOK, podVars, workerVars, proberVars, history
<1>7. LoopOK' /\ pc' = "next" /\ todo' = Tail(todo) /\ held' = held
  BY <1>2, <1>5, ReturnEffect DEF IInv
<1>8. CopiesAreLast'
  BY <1>1, <1>2, <1>5, <1>7, CopiesOfRest DEF IInv
<1>9. Tracked'
  <2>1. Active' = Active /\ orphans' = orphans
    BY <1>2 DEF Active, workerVars, proberVars, history
  <2>2. /\ Active \subseteq InStatus \cup orphans
        /\ Active \cap Range(todo[1].copy.statuses) = {}
    BY <1>2 DEF IInv, Tracked
  <2>3. Told(c)' = Told(c) \/ Active \cap Told(c) = {}
    BY <1>4, <1>5, <2>2, ToldFollows
  <2>4. \A d \in Probes \ {c} : Told(d)' = Told(d)
    BY <1>5, ToldFollows
  <2>5. \A u : u \in InStatus' <=> \E d \in Probes : u \in Told(d)'
    BY DEF InStatus, Told
  <2>6. Active \subseteq InStatus' \cup orphans
    BY <1>3, <2>2, <2>3, <2>4, <2>5, InStatusIsTold
  <2> QED BY <1>7, <2>1, <2>6 DEF Tracked
<1>10. Settled'
  BY <1>3, <1>5, ReturnSettles
<1> QED BY <1>5, <1>6, <1>7, <1>8, <1>9, <1>10 DEF IInv

\* The Update of the statuses.
LEMMA UpdateStatusKeeps == ASSUME IInv, UpdateStatus PROVE IInv'
<1>1. PICK c, v : c = todo[1].probe /\ v = [todo[1].copy EXCEPT !.statuses = Updated(@, listed)]
  OBVIOUS
<1>2. /\ pc = "status" /\ todo # <<>> /\ todo[1].copy.ours
      /\ UNCHANGED <<podVars, queueVars, proberVars, spoiled, acts>>
  BY DEF UpdateStatus, IInv, LoopOK
<1>3. PICK old \in Statuses, found \in Statuses : old = todo[1].copy.statuses /\ found = listed
  BY <1>2, FirstTurn, SaneIsPresent DEF IInv, LoopOK
<1>4. 1 \in DOMAIN todo /\ c \in Probes /\ todo[1].copy \in Sane
  BY <1>1, <1>2, FirstTurn DEF IInv
<1>5. v \in Sane /\ v.statuses = Updated(old, found)
  <2>1. Updated(old, found) \in Statuses
    BY UpdatedTyped
  <2> QED BY <1>1, <1>2, <1>3, <1>4, <2>1 DEF Sane, ProbeVersion
<1> DEFINE RU == Range(Updated(old, found))
<1>6. c \in held => Told(c) = Range(old)
  BY <1>1, <1>3, <1>4, ToldFollows DEF IInv, CopiesAreLast
<1>7. /\ ProbesOK' /\ \A d \in Probes \ {c} : Probe(d)' = Probe(d)
      /\ \/ /\ Return(FALSE) /\ c \in held /\ Probe(c)' = v
            /\ probeNews'[c] # <<>> /\ orphans' = orphans \ RU
         \/ /\ Return(TRUE)
            /\ Probe(c)' = Probe(c) \/ (c \in held /\ Probe(c)' = v)
            /\ orphans' = orphans \cup (Range(found) \ Told(c))
  <2>1. CASE /\ c \in held /\ PutProbe(c, v) /\ Return(FALSE)
             /\ orphans' = orphans \ Range(v.statuses)
    BY <1>4, <1>5, <2>1, PutProbeEffect DEF IInv
  <2>2. CASE /\ Refused(c) \/ Unanswered(c, v)
             /\ Return(TRUE) /\ orphans' = orphans \cup (Range(found) \ Told(c))
    BY <1>4, <1>5, <2>2, FailedEffect
  <2>3. \/ /\ c \in held /\ PutProbe(c, v) /\ Return(FALSE)
           /\ orphans' = orphans \ Range(v.statuses)
        \/ /\ Refused(c) \/ Unanswered(c, v)
           /\ Return(TRUE) /\ orphans' = orphans \cup (Range(found) \ Told(c))
    BY <1>1, <1>3 DEF UpdateStatus
  <2> QED BY <2>1, <2>2, <2>3
<1>8. PodsOK' /\ WorkersOK'
  <2>1. orphans' \subseteq UIDs
    BY <1>7, StatusesProperties DEF IInv, WorkersOK
  <2> QED BY <1>2, <2>1 DEF IInv, PodsOK, WorkersOK, podVars, proberVars
<1>9. LoopOK' /\ pc' = "next" /\ todo' = Tail(todo) /\ held' = held
  BY <1>2, <1>7, ReturnEffect DEF IInv
<1>10. CopiesAreLast'
  BY <1>1, <1>2, <1>7, <1>9, CopiesOfRest DEF IInv
<1>11. Tracked'
  <2>1. Active' = Active
    BY <1>2 DEF Active, proberVars
  <2>2. /\ Active \cap Dropped(old, found) = {}
        /\ Active \subseteq InStatus \cup orphans \cup Range(found)
        /\ Range(found) \subseteq RU \cup orphans
    BY <1>2, <1>3 DEF IInv, Tracked
  <2>3. Range(old) \subseteq RU \cup Dropped(old, found)
    BY UpdatedRange
  <2>4. \A d \in Probes \ {c} : Told(d)' = Told(d)
    BY <1>7, ToldFollows
  <2>5. \A u : u \in InStatus' <=> \E d \in Probes : u \in Told(d)'
    BY DEF InStatus, Told
  <2>6. Probe(c)' = v => Told(c)' = RU
    BY <1>5, ToldFollows
  <2>7. Probe(c)' = Probe(c) => Told(c)' = Told(c)
    BY ToldFollows
  <2> HIDE DEF RU
  <2>8. CASE c \in held /\ Probe(c)' = v
    <3>1. \A u \in Active : u \in InStatus => u \in InStatus'
      BY <1>4, <1>6, <2>2, <2>3, <2>4, <2>5, <2>6, <2>8, InStatusIsTold
    <3>2. RU \subseteq InStatus'
      BY <1>4, <2>5, <2>6, <2>8
    <3>3. orphans \subseteq orphans' \cup RU
      BY <1>7
    <3>4. Active \subseteq InStatus' \cup orphans'
      BY <2>2, <3>1, <3>2, <3>3
    <3> QED BY <1>9, <2>1, <3>4 DEF Tracked
  <2>9. CASE ~(c \in held /\ Probe(c)' = v)
    <3>1. /\ orphans' = orphans \cup (Range(found) \ Told(c)) /\ Probe(c)' = Probe(c)
      BY <1>7, <2>9
    <3>2. InStatus' = InStatus
      BY <1>7, <3>1, InStatusKept
    <3>3. Told(c) \subseteq InStatus
      BY <1>4, InStatusIsTold
    <3>4. Active \subseteq InStatus' \cup orphans'
      BY <2>2, <3>1, <3>2, <3>3
    <3> QED BY <1>9, <2>1, <3>4 DEF Tracked
  <2> QED BY <2>8, <2>9
<1>12. Settled'
  BY <1>4, <1>7, ReturnSettles
<1> QED BY <1>7, <1>8, <1>9, <1>10, <1>11, <1>12 DEF IInv

\* Nothing changes.
LEMMA StutterKeeps == ASSUME IInv, UNCHANGED vars PROVE IInv'
<1>1. /\ UNCHANGED <<podVars, probeVars, queueVars, loopVars, workerVars, bounds>>
  BY DEF vars
<1>2. PodsOK' /\ ProbesOK' /\ LoopOK' /\ WorkersOK'
  BY <1>1
  DEF IInv, PodsOK, ProbesOK, LoopOK, WorkersOK, podVars, probeVars, loopVars, workerVars,
      proberVars, history
<1>3. /\ \A c \in Probes : Probe(c)' = Probe(c)
      /\ Active' = Active /\ \A u : Own(u) => Own(u)'
  BY <1>1 DEF Probe, Newest, Active, Own, probeVars, workerVars, proberVars
<1>4. CopiesAreLast'
  BY <1>1, <1>3, CopiesKept DEF IInv, loopVars
<1>5. Tracked'
  BY <1>1, <1>3, InStatusKept, TrackedKept DEF IInv, loopVars, workerVars, history
<1>6. Settled'
  BY <1>1, <1>3, SettledKept DEF IInv, loopVars, workerVars, history
<1> QED BY <1>2, <1>4, <1>5, <1>6 DEF IInv
-----------------------------------------------------------------------------
(* The theorems.                                                           *)

\* Every step keeps the inductive invariant.
LEMMA StepKeeps == ASSUME IInv, [Next]_vars PROVE IInv'
<1>1. CASE WorkerStep
  BY <1>1, BeginKeeps, EndKeeps, ProcessKeeps, AddFinalizerKeeps, RemoveFinalizerKeeps,
     UpdateStatusKeeps DEF WorkerStep
<1> QED
  BY <1>1, UsersKeep, WorkerEndsKeeps, CachesKeep, CrashKeeps, StutterKeeps DEF Next

\* The inductive invariant, for every number of pods, objects, labels, acts and failures.
THEOREM Invariance == Spec => []IInv
<1>1. Init => IInv
  BY InitInv
<1>2. IInv /\ [Next]_vars => IInv'
  BY StepKeeps
<1> QED BY <1>1, <1>2, PTL DEF Spec

\* Every variable holds a value of its kind: the loop of Reconcile never indexes a list
\* that it has used up, and no status names what is not a pod.
THEOREM TypeCorrect == Spec => []TypeOK
<1>1. IInv => TypeOK
  <2> SUFFICES ASSUME IInv PROVE TypeOK
    OBVIOUS
  <2>1. Sane \subseteq ProbeVersion
    BY DEF Sane
  <2>2. \A c \in Probes : probeNews[c] \in Seq(ProbeVersion \cup {Absent})
    <3>1. \A c \in Probes : probeNews[c] \in Seq(Sane \cup {Absent})
      BY DEF IInv, ProbesOK
    <3> QED BY <2>1, <3>1, SeqMonotonic
  <2>3. todo \in Seq([probe : Probes, copy : ProbeVersion])
    <3>1. Turn \subseteq [probe : Probes, copy : ProbeVersion]
      BY <2>1 DEF Turn
    <3> QED BY <3>1, SeqMonotonic DEF IInv, LoopOK
  <2> QED
    BY <2>1, <2>2, <2>3 DEF IInv, TypeOK, PodsOK, ProbesOK, LoopOK, WorkersOK
<1> QED BY <1>1, Invariance, PTL

\* No worker escapes: whatever conflicts with users, failed updates and crashes come
\* between the calls of the prober and the update of the status, what could still be told
\* to stop is named by a status, or is one of the orphans that the code makes by design.
THEOREM WorkersStayRecorded == Spec => []WorkersAreRecorded
<1>1. IInv => WorkersAreRecorded
  <2> SUFFICES ASSUME IInv PROVE Active \subseteq Recorded \cup orphans
    BY DEF WorkersAreRecorded, Active
  <2>1. InStatus \subseteq Recorded
    BY DEF InStatus, Recorded
  <2>2. pc = "status" => Range(Updated(todo[1].copy.statuses, listed)) \subseteq Recorded
    BY DEF Recorded
  <2> QED BY <2>1, <2>2 DEF IInv, Tracked
<1> QED BY <1>1, Invariance, PTL

\* At rest the selected pods are probed, but for those a turn spoiled, and the statuses
\* name just them: no event, conflict, error or other object's turn is lost.
THEOREM RestStaysExact == Spec => []RestIsExact
<1>1. IInv => RestIsExact
  <2> SUFFICES ASSUME IInv, Rest
               PROVE  /\ SelectedUIDs \subseteq Probed \cup spoiled
                      /\ \A c \in {d \in Probes : Wants(d)} :
                            DOMAIN Probe(c).statuses =
                                {n \in Names : Selects(Probe(c).selector, Pod(n))}
    BY DEF RestIsExact
  <2>1. /\ \A c \in Probes : Probe(c) = probes[c]
        /\ \A n \in Names : Pod(n) = pods[n]
    BY DEF Rest, Probe, Pod, Newest
  <2>2. ~Due /\ todo = <<>>
    BY DEF Rest, Due, IInv, LoopOK
  <2>3. \A c \in Probes : Wants(c) => Exact(probes[c])
    BY <2>2 DEF IInv, Settled
  <2>4. \A S : /\ DOMAIN Found(S) = {n \in Names : Selects(S, Pod(n))}
               /\ \A n \in DOMAIN Found(S) : Pod(n).uid \in Range(Found(S))
    BY <2>1 DEF Found, Range
  <2>5. \A u : Own(u) => u \in Probed
    BY DEF Own, Probed
  <2>6. ASSUME NEW n \in Names, Selected(n)
        PROVE  Pod(n).uid \in Probed \cup spoiled
    <3>1. PICK c \in Probes : Wants(c) /\ Selects(Probe(c).selector, Pod(n))
      BY <2>6 DEF Selected
    <3>2. Exact(probes[c]) /\ n \in DOMAIN Found(probes[c].selector)
      BY <2>1, <2>3, <2>4, <3>1
    <3> QED BY <2>4, <2>5, <3>2 DEF Exact
  <2> QED BY <2>1, <2>3, <2>4, <2>6 DEF SelectedUIDs, Exact
<1> QED BY <1>1, Invariance, PTL
=============================================================================
