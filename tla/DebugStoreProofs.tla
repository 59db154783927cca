-------------------------- MODULE DebugStoreProofs --------------------------
(***************************************************************************)
(* The types of DebugStore, that pages are whole, that events are kept,    *)
(* and that at rest the store has what the caches show.                    *)
(*                                                                         *)
(* A worker that has written a document still has its index to write, and  *)
(* a worker that has read a set still has to write it back: JobInv says    *)
(* what holds in between. RestIsStored needs that a UID is never used      *)
(* twice (UidsOnce), that a worker at work has the last version or is      *)
(* queued again (JobsCurrent), and what each worker has left to write      *)
(* (Settled).                                                              *)
(***************************************************************************)
EXTENDS DebugStore, TLAPS

\* The document of u is in table t, or its Put failed.
HasDoc(t, u) == docs[t][u] # None \/ <<"doc", t, u>> \in unwritten
\* The document of event e is there, or its Put failed.
HasEvent(e) == e \in eventDocs \/ <<"event", e>> \in unwritten

\* What a worker has in hand has its document, and the set it has read is the one that is
\* stored, or was not read at all.
JobInv ==
    /\ \A c \in Tables : job[c] # Idle => HasDoc(c, job[c].version.uid)
    /\ job["event"] # Idle => HasEvent(job["event"].event)
    /\ job["event"].at = "write" =>
          /\ job["event"].set \subseteq eventsOf[job["event"].subject]
          /\ ~job["event"].blind => eventsOf[job["event"].subject] \subseteq job["event"].set

\* The inductive invariant of the pages.
IInv == TypeOK /\ JobInv /\ NamesLeadToDocuments
-----------------------------------------------------------------------------
\* A worker is idle or has a field "at" that says what is next.
LEMMA JobCases ==
    ASSUME NEW j \in Jobs
    PROVE  \/ j = Idle /\ j.at = "idle"
           \/ j # Idle /\ j.at = "index" /\ j.key \in Objects /\ j.version \in Version
<1>1. CASE j = Idle
  BY <1>1 DEF Idle
<1>2. CASE j \in [at : {"index"}, key : Objects, version : Version]
  <2>1. j.at = "index" /\ j.key \in Objects /\ j.version \in Version
    BY <1>2
  <2>2. Idle.at = "idle"
    BY DEF Idle
  <2> QED BY <2>1, <2>2
<1> QED BY <1>1, <1>2 DEF Jobs

\* The same of the worker of events.
LEMMA EventJobCases ==
    ASSUME NEW j \in EventJobs
    PROVE  \/ j = Idle /\ j.at = "idle"
           \/ /\ j # Idle /\ j.at = "read" /\ j.event \in Events /\ j.subject \in Subjects
           \/ /\ j # Idle /\ j.at = "write" /\ j.event \in Events /\ j.subject \in Subjects
              /\ j.set \subseteq Events /\ j.blind \in BOOLEAN
<1>1. Idle.at = "idle"
  BY DEF Idle
<1>2. CASE j = Idle
  BY <1>1, <1>2
<1>3. CASE j \in [at : {"read"}, event : Events, subject : Subjects]
  <2>1. j.at = "read" /\ j.event \in Events /\ j.subject \in Subjects
    BY <1>3
  <2> QED BY <2>1, <1>1
<1>4. CASE j \in [at : {"write"}, event : Events, subject : Subjects,
                  set : SUBSET Events, blind : BOOLEAN]
  <2>1. /\ j.at = "write" /\ j.event \in Events /\ j.subject \in Subjects
        /\ j.set \subseteq Events /\ j.blind \in BOOLEAN
    BY <1>4
  <2> QED BY <2>1, <1>1
<1> QED BY <1>2, <1>3, <1>4 DEF EventJobs

\* The entries of the tables are told apart.
LEMMA EntriesDiffer ==
    /\ \A t, u, c, n : <<"doc", t, u>> # <<"index", c, n>>
    /\ \A t, u, e : <<"doc", t, u>> # <<"event", e>> /\ <<"doc", t, u>> # <<"events", e>>
    /\ \A e, c, n : <<"event", e>> # <<"index", c, n>>
    /\ \A e, f : <<"event", e>> # <<"events", f>>
  OBVIOUS

\* It holds at first.
LEMMA InitInv == Init => IInv
  <1> SUFFICES ASSUME Init PROVE IInv
    OBVIOUS
  <1> USE DEF Init
  <1>1. TypeOK
    <2>1. real \in [Objects -> Version \cup {None}] /\ seen \in [Objects -> Version \cup {None}]
      OBVIOUS
    <2>2. job \in [Controllers -> Jobs \cup EventJobs] /\ job["event"] = Idle
          /\ \A c \in Tables : job[c] = Idle
      BY DEF Jobs, EventJobs, Controllers, Tables
    <2> QED BY <2>1, <2>2, StoreAssumption DEF TypeOK, Jobs, EventJobs, StoreAssumption
  <1>2. JobInv
    BY DEF JobInv, Controllers, Tables, Idle
  <1>3. NamesLeadToDocuments
    BY DEF NamesLeadToDocuments
  <1> QED BY <1>1, <1>2, <1>3 DEF IInv
-----------------------------------------------------------------------------
(* The types.                                                              *)

\* What users and the cluster do keeps the types ...
LEMMA ClusterTyped == ASSUME TypeOK, Cluster PROVE TypeOK'
  <1> USE StoreAssumption DEF StoreAssumption
  <1>1. /\ UNCHANGED <<seen, seenEvents, queue, docs, index, eventDocs, eventsOf, job, failures, crashes>>
        /\ acts' = acts + 1 /\ acts' \in 0 .. MaxActs /\ acts \in Nat
    BY DEF Cluster, TypeOK, cacheVars, storeVars, bounds
  <1>2. /\ real' \in [Objects -> Version \cup {None}] /\ lastUid' \in 0 .. MaxUid
        /\ \A k \in Objects : real'[k] # None => real'[k].rev <= acts'
        /\ realEvents' \in [Events -> Subjects \cup {NoSubject, None}]
    <2>0. \A k \in Objects : real[k] # None => real[k].rev \in Nat /\ real[k].rev <= acts'
      BY <1>1 DEF TypeOK, Version
    <2>1. CASE \E k \in Objects : Create(k)
      <3>1. PICK k \in Objects : Create(k)
        BY <2>1
      <3>2. [uid |-> lastUid', rev |-> 1] \in Version /\ lastUid' \in 0 .. MaxUid
        BY <3>1, <1>1 DEF Create, TypeOK, Version, UIDs
      <3>3. [uid |-> lastUid', rev |-> 1].rev <= acts'
        BY <1>1
      <3>4. real' = [real EXCEPT ![k] = [uid |-> lastUid', rev |-> 1]] /\ UNCHANGED realEvents
        BY <3>1 DEF Create
      <3>5. real' \in [Objects -> Version \cup {None}]
        BY <3>2, <3>4 DEF TypeOK
      <3>6. \A o \in Objects : real'[o] # None => real'[o].rev <= acts'
        BY <3>3, <3>4, <2>0 DEF TypeOK
      <3> QED BY <3>2, <3>4, <3>5, <3>6 DEF TypeOK
    <2>2. CASE \E k \in Objects : Change(k)
      <3>1. PICK k \in Objects : Change(k)
        BY <2>2
      <3>2. real[k] \in Version /\ real[k].rev <= acts
        BY <3>1 DEF Change, TypeOK
      <3>3. [real[k] EXCEPT !.rev = @ + 1] \in Version /\ [real[k] EXCEPT !.rev = @ + 1].rev <= acts'
        BY <3>2, <1>1 DEF Version
      <3>4. CASE real' = [real EXCEPT ![k].rev = @ + 1]
        <4>1. real'[k] = [real[k] EXCEPT !.rev = @ + 1]
          BY <3>4 DEF TypeOK
        <4>2. real' = [real EXCEPT ![k] = [real[k] EXCEPT !.rev = @ + 1]]
          BY <3>4
        <4>3. real' \in [Objects -> Version \cup {None}]
          BY <3>3, <4>2 DEF TypeOK
        <4>4. \A o \in Objects : real'[o] # None => real'[o].rev <= acts'
          BY <3>3, <4>2, <2>0 DEF TypeOK
        <4> QED BY <3>1, <4>3, <4>4 DEF Change, TypeOK
      <3>5. CASE real' = [real EXCEPT ![k] = None]
        <4>1. real' \in [Objects -> Version \cup {None}]
          BY <3>5 DEF TypeOK
        <4>2. \A o \in Objects : real'[o] # None => real'[o].rev <= acts'
          BY <3>5, <2>0 DEF TypeOK
        <4> QED BY <3>1, <4>1, <4>2 DEF Change, TypeOK
      <3> QED BY <3>1, <3>4, <3>5 DEF Change
    <2>3. CASE \E e \in Events : Report(e)
      <3>1. PICK e \in Events : Report(e)
        BY <2>3
      <3>2. \A k \in Objects : real[k] # None =>
               (IF k \in Pods THEN <<"pod", real[k].uid>> ELSE <<"node", Name[k]>>) \in Subjects
        BY DEF TypeOK, Version, Subjects, Names
      <3>3. realEvents' \in [Events -> Subjects \cup {NoSubject, None}]
        BY ZenonT(60), <3>1, <3>2 DEF Report, TypeOK
      <3> QED BY <3>1, <3>3, <2>0 DEF Report, TypeOK
    <2> QED BY <2>1, <2>2, <2>3 DEF Cluster
  <1> QED BY <1>1, <1>2 DEF TypeOK

\* ... so does what the caches see ...
LEMMA CachesTyped == ASSUME TypeOK, Caches PROVE TypeOK'
  <1>1. /\ UNCHANGED <<real, realEvents, lastUid, acts, docs, index, eventDocs, eventsOf, job, failures, crashes>>
    BY DEF Caches, clusterVars, storeVars, bounds
  <1>2. /\ seen' \in [Objects -> Version \cup {None}] /\ queue' \subseteq Objects \cup Events
        /\ seenEvents' \in [Events -> Subjects \cup {NoSubject, None}]
    <2>1. CASE \E k \in Objects : Deliver(k)
      BY <2>1 DEF Deliver, TypeOK
    <2>2. CASE \E e \in Events : DeliverEvent(e)
      BY <2>2 DEF DeliverEvent, TypeOK
    <2> QED BY <2>1, <2>2 DEF Caches
  <1> QED BY <1>1, <1>2 DEF TypeOK

\* A write leaves either the new table or the old one, and counts its failures.
LEMMA PutCases ==
    ASSUME failures \in 0 .. MaxFailures, MaxFailures \in Nat,
           NEW tab, NEW tab2, NEW v, NEW d, Put(tab, tab2, v, d)
    PROVE  /\ failures' \in 0 .. MaxFailures
           /\ \/ tab2 = v /\ unwritten' = unwritten \ {d}
              \/ tab2 = tab /\ unwritten' = unwritten \cup {d}
  BY DEF Put

\* ... and a Put, which may fail ...
LEMMA PutTyped ==
    ASSUME TypeOK, NEW S, NEW tab \in S, NEW tab2, NEW v \in S, NEW d, Put(tab, tab2, v, d)
    PROVE  tab2 \in S /\ failures' \in 0 .. MaxFailures
<1>1. failures \in 0 .. MaxFailures /\ MaxFailures \in Nat
  BY StoreAssumption DEF TypeOK, StoreAssumption
<1> QED BY <1>1, PutCases

\* The jobs of the workers.
JobsTyped ==
    /\ job \in [Controllers -> Jobs \cup EventJobs] /\ job["event"] \in EventJobs
    /\ \A c \in Tables : job[c] \in Jobs /\ (job[c] # Idle => Table(job[c].key) = c)

\* Giving a worker a job of its kind.
LEMMA GiveTyped ==
    ASSUME JobsTyped, NEW c \in Controllers, NEW j, Give(c, j),
           c \in Tables => j \in Jobs /\ (j # Idle => Table(j.key) = c),
           c = "event" => j \in EventJobs
    PROVE  JobsTyped'
<1>1. j \in Jobs \cup EventJobs
  BY DEF Controllers, Tables
<1>2. job' = [job EXCEPT ![c] = j]
  BY DEF Give
<1>3. job' \in [Controllers -> Jobs \cup EventJobs]
  BY <1>1, <1>2 DEF JobsTyped
<1>4. job'["event"] \in EventJobs
  BY <1>2 DEF JobsTyped, Controllers
<1>5. \A d \in Tables : job'[d] \in Jobs /\ (job'[d] # Idle => Table(job'[d].key) = d)
  BY <1>2 DEF JobsTyped, Controllers, Tables
<1> QED BY <1>3, <1>4, <1>5 DEF JobsTyped

\* Every object is kept in a table, by its controller.
LEMMA TablesOfKeys == \A k \in Objects : Table(k) \in Tables /\ Table(k) \in Controllers
  BY DEF Table, Tables, Controllers

\* ... the document of an object ...
LEMMA SaveDocTyped == ASSUME TypeOK, NEW k \in Objects, SaveDoc(k), UNCHANGED clusterVars PROVE TypeOK'
  <1> USE StoreAssumption DEF StoreAssumption
  <1>1. /\ UNCHANGED <<real, realEvents, lastUid, acts, seen, seenEvents, index, eventDocs, eventsOf, crashes>>
        /\ queue' \subseteq Objects \cup Events
    BY DEF SaveDoc, Start, clusterVars, TypeOK
  <1>2. seen[k] \in Version /\ seen[k].uid \in UIDs /\ seen[k].rev \in 1 .. MaxActs
    BY DEF SaveDoc, TypeOK, Version
  <1>3. [docs EXCEPT ![Table(k)][seen[k].uid] = seen[k].rev] \in [Tables -> [UIDs -> 1 .. MaxActs \cup {None}]]
    BY <1>2, TablesOfKeys DEF TypeOK
  <1>4. docs' \in [Tables -> [UIDs -> 1 .. MaxActs \cup {None}]] /\ failures' \in 0 .. MaxFailures
    <2>1. Put(docs, docs', [docs EXCEPT ![Table(k)][seen[k].uid] = seen[k].rev],
              <<"doc", Table(k), seen[k].uid>>)
      BY DEF SaveDoc
    <2>2. docs \in [Tables -> [UIDs -> 1 .. MaxActs \cup {None}]]
      BY DEF TypeOK
    <2> QED BY <1>3, <2>1, <2>2, PutTyped
  <1>5. JobsTyped'
    <2> DEFINE j == [at |-> "index", key |-> k, version |-> seen[k]]
    <2>1. j \in Jobs /\ Table(j.key) = Table(k)
      BY <1>2 DEF Jobs
    <2>2. Give(Table(k), j) /\ JobsTyped /\ Table(k) # "event"
      BY DEF SaveDoc, TypeOK, JobsTyped, Table
    <2> HIDE DEF j
    <2> QED BY <2>1, <2>2, GiveTyped, TablesOfKeys
  <1> QED BY <1>1, <1>4, <1>5 DEF TypeOK, JobsTyped

\* ... the index entry of its name ...
LEMMA SaveIndexTyped == ASSUME TypeOK, NEW c \in Tables, SaveIndex(c), UNCHANGED clusterVars PROVE TypeOK'
  <1> USE StoreAssumption DEF StoreAssumption
  <1>1. UNCHANGED <<real, realEvents, lastUid, acts, seen, seenEvents, queue, docs, eventDocs, eventsOf, crashes>>
    BY DEF SaveIndex, clusterVars, cacheVars
  <1>2. job[c].key \in Objects /\ job[c].version.uid \in UIDs
    BY JobCases DEF SaveIndex, TypeOK, Version
  <1>3. [index EXCEPT ![c][Name[job[c].key]] = job[c].version.uid] \in [Tables -> [Names -> UIDs \cup {None}]]
    BY <1>2 DEF TypeOK, Names
  <1>4. index' \in [Tables -> [Names -> UIDs \cup {None}]] /\ failures' \in 0 .. MaxFailures
    <2> DEFINE n == Name[job[c].key]
    <2>1. Put(index, index', [index EXCEPT ![c][n] = job[c].version.uid], <<"index", c, n>>)
      BY DEF SaveIndex
    <2>2. index \in [Tables -> [Names -> UIDs \cup {None}]]
      BY DEF TypeOK
    <2> QED BY <1>3, <2>1, <2>2, PutTyped
  <1>5. JobsTyped'
    <2>1. Give(c, Idle) /\ JobsTyped /\ Idle \in Jobs /\ c \in Controllers /\ c # "event"
      BY DEF SaveIndex, TypeOK, JobsTyped, Jobs, Tables, Controllers
    <2> QED BY <2>1, GiveTyped
  <1> QED BY <1>1, <1>4, <1>5 DEF TypeOK, JobsTyped

\* What an event is about, when it is not neither, is a subject.
LEMMA SubjectsTyped ==
    ASSUME TypeOK, NEW e \in Events, seenEvents[e] # None, seenEvents[e] # NoSubject
    PROVE  seenEvents[e] \in Subjects
  BY DEF TypeOK

\* ... the document of an event ...
LEMMA SaveEventTyped == ASSUME TypeOK, NEW e \in Events, SaveEvent(e), UNCHANGED clusterVars PROVE TypeOK'
  <1> USE StoreAssumption DEF StoreAssumption
  <1>1. /\ UNCHANGED <<real, realEvents, lastUid, acts, seen, seenEvents, docs, index, eventsOf, crashes>>
        /\ queue' \subseteq Objects \cup Events
    BY DEF SaveEvent, Start, clusterVars, TypeOK
  <1>2. eventDocs' \subseteq Events /\ failures' \in 0 .. MaxFailures
    BY PutCases DEF SaveEvent, TypeOK
  <1>3. JobsTyped'
    <2> DEFINE j == [at |-> "read", event |-> e, subject |-> seenEvents[e]]
    <2>1. "event" \in Controllers /\ "event" \notin Tables /\ Idle \in EventJobs /\ JobsTyped
      BY DEF Controllers, Tables, EventJobs, TypeOK, JobsTyped
    <2>2. CASE seenEvents[e] = NoSubject
      BY <2>1, <2>2, GiveTyped DEF SaveEvent
    <2>3. CASE seenEvents[e] # NoSubject
      <3>1. j \in EventJobs
        BY <2>3, SubjectsTyped DEF SaveEvent, EventJobs
      <3>2. Give("event", j)
        BY <2>3 DEF SaveEvent
      <3> HIDE DEF j
      <3> QED BY <2>1, <3>1, <3>2, GiveTyped
    <2> QED BY <2>2, <2>3
  <1> QED BY <1>1, <1>2, <1>3 DEF TypeOK, JobsTyped

\* ... the read of the set of events of an object ...
LEMMA ReadEventsTyped == ASSUME TypeOK, ReadEvents, UNCHANGED clusterVars PROVE TypeOK'
  <1> USE StoreAssumption DEF StoreAssumption
  <1> DEFINE b == job["event"]
  <1>1. UNCHANGED <<real, realEvents, lastUid, acts, seen, seenEvents, queue, docs, index, eventDocs, eventsOf, crashes>>
    BY DEF ReadEvents, clusterVars, cacheVars, storeVars
  <1>2. b.event \in Events /\ b.subject \in Subjects
    BY EventJobCases DEF ReadEvents, TypeOK
  <1>3. PICK a \in Answers(eventsOf[b.subject]) :
           /\ Give("event", [at |-> "write", event |-> b.event, subject |-> b.subject,
                             set |-> a.value, blind |-> a.blind])
           /\ failures' = failures + a.cost
    BY DEF ReadEvents
  <1>4. a.value \subseteq Events /\ a.blind \in BOOLEAN /\ failures + a.cost \in 0 .. MaxFailures
    <2>1. eventsOf[b.subject] \subseteq Events /\ failures \in 0 .. MaxFailures
      BY <1>2 DEF TypeOK
    <2>2. \/ a = [value |-> eventsOf[b.subject], blind |-> FALSE, cost |-> 0]
          \/ failures < MaxFailures /\ a = [value |-> {}, blind |-> TRUE, cost |-> 1]
      BY <1>3 DEF Answers
    <2> HIDE DEF b
    <2>3. CASE a = [value |-> eventsOf[b.subject], blind |-> FALSE, cost |-> 0]
      <3>1. a.value = eventsOf[b.subject] /\ a.blind = FALSE /\ a.cost = 0
        BY <2>3
      <3>2. MaxFailures \in Nat
        OBVIOUS
      <3>3. failures \in Nat /\ failures + 0 = failures
        BY <2>1, <3>2
      <3>4. failures + a.cost = failures
        BY <3>1, <3>3
      <3> QED BY <2>1, <3>1, <3>4
    <2>4. CASE failures < MaxFailures /\ a = [value |-> {}, blind |-> TRUE, cost |-> 1]
      <3>1. a.value = {} /\ a.blind = TRUE /\ a.cost = 1
        BY <2>4
      <3>2. MaxFailures \in Nat
        OBVIOUS
      <3> QED BY <2>1, <2>4, <3>1, <3>2
    <2> QED BY <2>2, <2>3, <2>4
  <1>5. JobsTyped'
    <2> DEFINE j == [at |-> "write", event |-> b.event, subject |-> b.subject,
                     set |-> a.value, blind |-> a.blind]
    <2>1. j \in EventJobs
      <3> HIDE DEF b
      <3> QED BY <1>2, <1>4 DEF EventJobs
    <2>2. "event" \in Controllers /\ "event" \notin Tables /\ JobsTyped /\ Give("event", j)
      BY <1>3 DEF Controllers, Tables, TypeOK, JobsTyped
    <2> HIDE DEF j
    <2> QED BY <2>1, <2>2, GiveTyped
  <1> QED BY <1>1, <1>3, <1>4, <1>5 DEF TypeOK, JobsTyped

\* ... its write, with the event added ...
LEMMA WriteEventsTyped == ASSUME TypeOK, WriteEvents, UNCHANGED clusterVars PROVE TypeOK'
  <1> USE StoreAssumption DEF StoreAssumption
  <1> DEFINE b == job["event"]
  <1>1. UNCHANGED <<real, realEvents, lastUid, acts, seen, seenEvents, queue, docs, index, eventDocs, crashes>>
    BY DEF WriteEvents, clusterVars, cacheVars
  <1>2. b.event \in Events /\ b.subject \in Subjects /\ b.set \subseteq Events
    BY EventJobCases DEF WriteEvents, TypeOK
  <1>3. [eventsOf EXCEPT ![b.subject] = b.set \cup {b.event}] \in [Subjects -> SUBSET Events]
    BY <1>2 DEF TypeOK
  <1>4. eventsOf' \in [Subjects -> SUBSET Events] /\ failures' \in 0 .. MaxFailures
    <2>1. Put(eventsOf, eventsOf', [eventsOf EXCEPT ![b.subject] = b.set \cup {b.event}],
              <<"events", b.subject>>)
      BY DEF WriteEvents
    <2>2. eventsOf \in [Subjects -> SUBSET Events]
      BY DEF TypeOK
    <2> QED BY <1>3, <2>1, <2>2, PutTyped
  <1>5. JobsTyped'
    <2>1. "event" \in Controllers /\ "event" \notin Tables /\ JobsTyped
          /\ Idle \in EventJobs /\ Give("event", Idle)
      BY DEF WriteEvents, Controllers, Tables, TypeOK, JobsTyped, EventJobs
    <2> QED BY <2>1, GiveTyped
  <1> QED BY <1>1, <1>4, <1>5 DEF TypeOK, JobsTyped

\* ... a restart ...
LEMMA CrashTyped == ASSUME TypeOK, Crash PROVE TypeOK'
  <1>1. JobsTyped'
    BY DEF Crash, JobsTyped, Jobs, EventJobs, Controllers, Tables
  <1>2. /\ UNCHANGED <<real, realEvents, lastUid, acts, docs, index, eventDocs, eventsOf, failures>>
        /\ seen' = real /\ seenEvents' = realEvents /\ queue' \subseteq Objects \cup Events
    BY DEF Crash, clusterVars, storeVars
  <1>3. crashes' \in 0 .. MaxCrashes
    BY StoreAssumption DEF Crash, TypeOK, StoreAssumption
  <1> QED BY <1>1, <1>2, <1>3 DEF TypeOK, JobsTyped

\* ... and an object or event that is gone.
LEMMA GoneTyped ==
    ASSUME TypeOK, UNCHANGED clusterVars,
           (\E k \in Objects : Gone(k)) \/ (\E e \in Events : GoneEvent(e))
    PROVE  TypeOK'
<1>1. /\ UNCHANGED <<clusterVars, seen, seenEvents, storeVars, job, bounds>>
      /\ queue' \subseteq queue
  BY DEF Gone, GoneEvent, Start
<1> QED BY <1>1 DEF TypeOK, clusterVars, storeVars, bounds

\* Every step keeps the types.
LEMMA StepTyped == ASSUME TypeOK, [Next]_vars PROVE TypeOK'
<1>1. CASE UNCHANGED vars
  BY <1>1 DEF TypeOK, vars, clusterVars, cacheVars, storeVars, bounds
<1>2. CASE Reconcilers
  <2>1. UNCHANGED clusterVars
    BY <1>2 DEF Reconcilers
  <2>2. CASE \E k \in Objects : SaveDoc(k)
    BY <2>1, <2>2, SaveDocTyped
  <2>3. CASE \E c \in Tables : SaveIndex(c)
    BY <2>1, <2>3, SaveIndexTyped
  <2>4. CASE \E e \in Events : SaveEvent(e)
    BY <2>1, <2>4, SaveEventTyped
  <2>5. CASE ReadEvents
    BY <2>1, <2>5, ReadEventsTyped
  <2>6. CASE WriteEvents
    BY <2>1, <2>6, WriteEventsTyped
  <2>7. CASE (\E k \in Objects : Gone(k)) \/ (\E e \in Events : GoneEvent(e))
    BY <2>1, <2>7, GoneTyped
  <2> QED BY <1>2, <2>2, <2>3, <2>4, <2>5, <2>6, <2>7 DEF Reconcilers
<1> QED BY <1>1, <1>2, ClusterTyped, CachesTyped, CrashTyped DEF Next

\* The variables of the debug store keep their types in every reachable state, for any
\* number of pods, nodes and events (the reconcilers of controllers/core).
THEOREM TypesHold == Spec => []TypeOK
<1>1. Init => TypeOK
  BY InitInv DEF IInv
<1> QED BY <1>1, StepTyped, PTL DEF Spec
-----------------------------------------------------------------------------
(* Documents stay: nothing that has one, or whose write failed, loses that. *)

\* No document goes away.
Stay ==
    /\ \A t \in Tables, u \in UIDs : HasDoc(t, u) => HasDoc(t, u)'
    /\ \A e \in Events : HasEvent(e) => HasEvent(e)'

\* A write of another table neither touches the documents nor forgets that one failed.
LEMMA OtherPutStays ==
    ASSUME NEW tab, NEW tab2, NEW v, NEW d, Put(tab, tab2, v, d),
           UNCHANGED <<docs, eventDocs>>,
           \A t, u : <<"doc", t, u>> # d, \A e : <<"event", e>> # d
    PROVE  Stay
<1>1. unwritten \ {d} \subseteq unwritten'
  BY DEF Put
<1> QED BY <1>1 DEF Stay, HasDoc, HasEvent

\* A document is saved over an older one only.
LEMMA SaveDocStays ==
    ASSUME TypeOK, NEW k \in Objects, SaveDoc(k)
    PROVE  Stay /\ HasDoc(Table(k), seen[k].uid)'
<1> DEFINE t0 == Table(k)
           u0 == seen[k].uid
           d0 == <<"doc", t0, u0>>
<1>1. t0 \in Tables /\ u0 \in UIDs /\ seen[k].rev # None
  <2>1. seen[k] \in Version
    BY DEF SaveDoc, TypeOK
  <2>2. seen[k].uid \in UIDs /\ seen[k].rev \in Nat
    BY <2>1 DEF Version
  <2> QED BY <2>2, TablesOfKeys, StoreAssumption DEF StoreAssumption
<1>2. Put(docs, docs', [docs EXCEPT ![t0][u0] = seen[k].rev], d0)
  BY DEF SaveDoc
<1>3. docs \in [Tables -> [UIDs -> 1 .. MaxActs \cup {None}]] /\ UNCHANGED eventDocs
  BY DEF TypeOK, SaveDoc
<1>4. CASE docs' = [docs EXCEPT ![t0][u0] = seen[k].rev] /\ unwritten' = unwritten \ {d0}
  <2> HIDE DEF t0, u0
  <2>1. docs'[t0][u0] # None
    BY <1>1, <1>3, <1>4
  <2>2. \A t \in Tables, u \in UIDs : <<t, u>> # <<t0, u0>> => docs'[t][u] = docs[t][u]
    BY <1>1, <1>3, <1>4
  <2>3. \A t \in Tables, u \in UIDs : HasDoc(t, u) => HasDoc(t, u)'
    <3> SUFFICES ASSUME NEW t \in Tables, NEW u \in UIDs, HasDoc(t, u) PROVE HasDoc(t, u)'
      OBVIOUS
    <3>1. CASE t = t0 /\ u = u0
      BY <2>1, <3>1 DEF HasDoc
    <3>2. CASE ~(t = t0 /\ u = u0)
      <4>1. <<"doc", t, u>> # d0
        BY <3>2
      <4>2. <<t, u>> # <<t0, u0>>
        BY <3>2
      <4> QED BY <2>2, <4>1, <4>2, <1>4 DEF HasDoc
    <3> QED BY <3>1, <3>2
  <2>4. \A e \in Events : HasEvent(e) => HasEvent(e)'
    <3>1. \A e : <<"event", e>> # d0
      OBVIOUS
    <3> QED BY <3>1, <1>3, <1>4 DEF HasEvent
  <2>5. HasDoc(t0, u0)'
    BY <2>1 DEF HasDoc, t0, u0, SaveDoc
  <2> QED BY <2>3, <2>4, <2>5 DEF Stay, t0, u0
<1>5. CASE docs' = docs /\ unwritten' = unwritten \cup {d0}
  <2>1. HasDoc(t0, u0)'
    BY <1>5 DEF HasDoc, SaveDoc
  <2> QED BY <1>3, <1>5, <2>1 DEF Stay, HasDoc, HasEvent
<1> QED BY <1>2, <1>4, <1>5 DEF Put

\* An event is saved, and nothing else goes away.
LEMMA SaveEventStays ==
    ASSUME NEW e \in Events, SaveEvent(e)
    PROVE  Stay /\ HasEvent(e)'
<1>1. Put(eventDocs, eventDocs', eventDocs \cup {e}, <<"event", e>>) /\ UNCHANGED docs
  BY DEF SaveEvent
<1>2. e \in eventDocs' \/ <<"event", e>> \in unwritten'
  BY <1>1 DEF Put
<1>3. eventDocs \subseteq eventDocs' /\ unwritten \ {<<"event", e>>} \subseteq unwritten'
  BY <1>1 DEF Put
<1> QED BY <1>1, <1>2, <1>3, EntriesDiffer DEF Stay, HasDoc, HasEvent

\* A step that leaves the documents and the failed writes alone.
LEMMA SameStays == ASSUME UNCHANGED <<docs, eventDocs, unwritten>> PROVE Stay
  BY DEF Stay, HasDoc, HasEvent

\* Every step.
LEMMA StepStays == ASSUME TypeOK, [Next]_vars PROVE Stay
<1>1. CASE UNCHANGED storeVars
  BY <1>1, SameStays DEF storeVars
<1>2. CASE \E k \in Objects : SaveDoc(k)
  BY <1>2, SaveDocStays
<1>3. ASSUME NEW c \in Tables, SaveIndex(c) PROVE Stay
  <2> DEFINE n == Name[job[c].key]
  <2>1. Put(index, index', [index EXCEPT ![c][n] = job[c].version.uid], <<"index", c, n>>)
        /\ UNCHANGED <<docs, eventDocs>>
    BY <1>3 DEF SaveIndex
  <2> HIDE DEF n
  <2>2. (\A t, u : <<"doc", t, u>> # <<"index", c, n>>) /\ \A e : <<"event", e>> # <<"index", c, n>>
    BY EntriesDiffer
  <2> QED BY <2>1, <2>2, OtherPutStays
<1>4. CASE \E e \in Events : SaveEvent(e)
  BY <1>4, SaveEventStays
<1>5. CASE WriteEvents
  <2> DEFINE b == job["event"]
  <2>1. Put(eventsOf, eventsOf', [eventsOf EXCEPT ![b.subject] = b.set \cup {b.event}],
            <<"events", b.subject>>)
        /\ UNCHANGED <<docs, eventDocs>>
    BY <1>5 DEF WriteEvents
  <2> HIDE DEF b
  <2>2. (\A t, u : <<"doc", t, u>> # <<"events", b.subject>>)
        /\ \A e : <<"event", e>> # <<"events", b.subject>>
    BY EntriesDiffer
  <2> QED BY <2>1, <2>2, OtherPutStays
<1> QED
  BY <1>1, <1>2, <1>3, <1>4, <1>5
  DEF Next, vars, Cluster, Caches, Crash, Reconcilers, Gone, GoneEvent, ReadEvents
-----------------------------------------------------------------------------
(* The inductive invariant.                                                *)

\* A step of the others keeps what a worker has in hand.
LEMMA SameJobs ==
    ASSUME IInv, Stay, UNCHANGED <<job, eventsOf>>
    PROVE  JobInv'
<1>1. \A c \in Tables : job[c] # Idle => job[c].version.uid \in UIDs
  BY JobCases DEF IInv, TypeOK, Version
<1>2. job["event"] # Idle => job["event"].event \in Events
  BY EventJobCases DEF IInv, TypeOK
<1>3. \A c \in Tables : job[c] # Idle => HasDoc(c, job[c].version.uid)'
  BY <1>1 DEF IInv, JobInv, Stay, HasDoc
<1>4. job["event"] # Idle => HasEvent(job["event"].event)'
  BY <1>2 DEF IInv, JobInv, Stay, HasEvent
<1> QED BY <1>3, <1>4 DEF IInv, JobInv, HasDoc, HasEvent

\* The same for a worker of pods or nodes that gets a job.
LEMMA TableJob ==
    ASSUME IInv, Stay, UNCHANGED eventsOf, NEW c \in Tables, NEW j, Give(c, j),
           j # Idle => \E u \in UIDs : j.version.uid = u /\ HasDoc(c, u)'
    PROVE  JobInv'
<1>1. job' = [job EXCEPT ![c] = j] /\ job \in [Controllers -> Jobs \cup EventJobs]
  BY DEF Give, IInv, TypeOK
<1>2. job'["event"] = job["event"]
  BY <1>1 DEF Controllers, Tables
<1>3. \A d \in Tables : job'[d] = IF d = c THEN j ELSE job[d]
  BY <1>1 DEF Controllers, Tables
<1>4. \A d \in Tables : job[d] # Idle => job[d].version.uid \in UIDs
  BY JobCases DEF IInv, TypeOK, Version
<1>5. job["event"] # Idle => job["event"].event \in Events
  BY EventJobCases DEF IInv, TypeOK
<1>7. \A d \in Tables : job'[d] # Idle => HasDoc(d, job[d].version.uid)'
  BY <1>3, <1>4 DEF IInv, JobInv, Stay, HasDoc
<1>8. job'["event"] # Idle => HasEvent(job["event"].event)'
  BY <1>2, <1>5 DEF IInv, JobInv, Stay, HasEvent
<1> QED BY <1>2, <1>3, <1>7, <1>8 DEF IInv, JobInv, HasDoc, HasEvent

\* And for the worker of events.
LEMMA EventJob ==
    ASSUME IInv, Stay, NEW j, Give("event", j),
           j # Idle => \E e \in Events : j.event = e /\ HasEvent(e)',
           j.at = "write" => /\ j.set \subseteq eventsOf'[j.subject]
                             /\ ~j.blind => eventsOf'[j.subject] \subseteq j.set
    PROVE  JobInv'
<1>1. job' = [job EXCEPT !["event"] = j] /\ job \in [Controllers -> Jobs \cup EventJobs]
  BY DEF Give, IInv, TypeOK
<1>2. job'["event"] = j
  BY <1>1 DEF Controllers
<1>3. \A d \in Tables : job'[d] = job[d]
  BY <1>1 DEF Controllers, Tables
<1>4. \A d \in Tables : job[d] # Idle => job[d].version.uid \in UIDs
  BY JobCases DEF IInv, TypeOK, Version
<1>5. \A d \in Tables : job'[d] # Idle => HasDoc(d, job[d].version.uid)'
  BY <1>3, <1>4 DEF IInv, JobInv, Stay, HasDoc
<1>6. job'["event"] # Idle => HasEvent(job["event"].event)'
  BY <1>2 DEF HasEvent
<1> QED BY <1>2, <1>5, <1>6 DEF JobInv, HasDoc, HasEvent

\* Every step keeps what the jobs under way have done.
LEMMA StepJobs == ASSUME IInv, [Next]_vars PROVE JobInv'
<1> USE DEF IInv
<1>0. Stay
  BY StepStays
<1>1. CASE UNCHANGED <<job, eventsOf>>
  BY <1>0, <1>1, SameJobs
<1>2. ASSUME NEW k \in Objects, SaveDoc(k) PROVE JobInv'
  <2> DEFINE j == [at |-> "index", key |-> k, version |-> seen[k]]
  <2>1. Give(Table(k), j) /\ UNCHANGED eventsOf /\ j.version.uid = seen[k].uid
    BY <1>2 DEF SaveDoc
  <2>2. HasDoc(Table(k), seen[k].uid)' /\ UNCHANGED seen
    BY <1>2, SaveDocStays DEF SaveDoc
  <2>3. \E u \in UIDs : j.version.uid = u /\ HasDoc(Table(k), u)'
    <3>1. seen[k].uid \in UIDs
      BY <1>2 DEF SaveDoc, TypeOK, Version
    <3> QED BY <2>2, <3>1 DEF HasDoc
  <2> HIDE DEF j
  <2> QED BY <1>0, <2>1, <2>3, TableJob, TablesOfKeys
<1>3. ASSUME NEW c \in Tables, SaveIndex(c) PROVE JobInv'
  BY <1>0, <1>3, TableJob DEF SaveIndex
<1>4. ASSUME NEW e \in Events, SaveEvent(e) PROVE JobInv'
  <2> DEFINE j == [at |-> "read", event |-> e, subject |-> seenEvents[e]]
  <2>1. HasEvent(e)'
    BY <1>4, SaveEventStays
  <2>2. CASE Give("event", Idle)
    BY <1>0, <2>2, EventJob DEF Idle
  <2>3. CASE Give("event", j)
    <3>1. j.event = e /\ j.at = "read"
      OBVIOUS
    <3> HIDE DEF j
    <3> QED BY <1>0, <2>1, <2>3, <3>1, EventJob
  <2> QED BY <1>4, <2>2, <2>3 DEF SaveEvent
<1>5. CASE ReadEvents
  <2> DEFINE b == job["event"]
  <2>1. UNCHANGED eventsOf /\ \E e \in Events : b.event = e /\ HasEvent(e)'
    <3>1. b # Idle /\ b.event \in Events
      BY <1>5, EventJobCases DEF ReadEvents, TypeOK, Idle
    <3>2. HasEvent(b.event)
      BY <3>1 DEF JobInv
    <3> QED BY <1>0, <1>5, <3>1, <3>2 DEF Stay, ReadEvents, storeVars
  <2>2. PICK a \in Answers(eventsOf[b.subject]) :
           Give("event", [at |-> "write", event |-> b.event, subject |-> b.subject,
                          set |-> a.value, blind |-> a.blind])
    BY <1>5 DEF ReadEvents
  <2>3. a.value \subseteq eventsOf[b.subject] /\ (~a.blind => a.value = eventsOf[b.subject])
    <3> HIDE DEF b
    <3>1. \/ a = [value |-> eventsOf[b.subject], blind |-> FALSE, cost |-> 0]
          \/ a = [value |-> {}, blind |-> TRUE, cost |-> 1]
      BY <2>2 DEF Answers
    <3> QED BY <3>1
  <2> DEFINE j == [at |-> "write", event |-> b.event, subject |-> b.subject,
                   set |-> a.value, blind |-> a.blind]
  <2>4. /\ j.event = b.event /\ j.subject = b.subject /\ j.set = a.value /\ j.blind = a.blind
        /\ Give("event", j)
    BY <2>2
  <2> HIDE DEF b, j
  <2> QED BY <1>0, <2>1, <2>3, <2>4, EventJob
<1>6. CASE WriteEvents
  BY <1>0, <1>6, EventJob DEF WriteEvents, Idle
<1>7. CASE Crash
  BY <1>7 DEF Crash, JobInv, Controllers, Tables, Idle
<1> QED
  BY <1>1, <1>2, <1>3, <1>4, <1>5, <1>6, <1>7
  DEF Next, vars, storeVars, Cluster, Caches, Reconcilers, Gone, GoneEvent

\* Every step keeps that names lead to documents.
LEMMA StepNames == ASSUME IInv, [Next]_vars PROVE NamesLeadToDocuments'
<1> USE DEF IInv
<1>0. Stay
  BY StepStays
<1>1. ASSUME UNCHANGED index PROVE
        \A t \in Tables, n \in Names : index'[t][n] # None => HasDoc(t, index[t][n])'
  <2>1. \A t \in Tables, n \in Names : index[t][n] # None =>
           index[t][n] \in UIDs /\ HasDoc(t, index[t][n])
    BY DEF TypeOK, NamesLeadToDocuments, Page, HasDoc
  <2> QED BY <1>0, <1>1, <2>1 DEF Stay, HasDoc
<1>2. ASSUME UNCHANGED eventsOf PROVE
        \A s \in Subjects : \A e \in eventsOf'[s] : HasEvent(e)'
  <2>1. \A s \in Subjects : \A e \in eventsOf[s] : e \in Events /\ HasEvent(e)
    BY DEF TypeOK, NamesLeadToDocuments, HasEvent
  <2> QED BY <1>0, <1>2, <2>1 DEF Stay, HasEvent
<1>3. ASSUME NEW c \in Tables, SaveIndex(c) PROVE
        \A t \in Tables, n \in Names : index'[t][n] # None => HasDoc(t, index[t][n])'
  <2> DEFINE m == Name[job[c].key]
             u == job[c].version.uid
  <2>1. u \in UIDs /\ HasDoc(c, u)
    <3>1. job[c] # Idle /\ job[c].version \in Version
      BY <1>3, JobCases DEF SaveIndex, TypeOK, Idle
    <3> QED BY <3>1 DEF JobInv, Version
  <2>2. index' = [index EXCEPT ![c][m] = u] \/ index' = index
    BY <1>3 DEF SaveIndex, Put
  <2>3. CASE index' = [index EXCEPT ![c][m] = u]
    <3> HIDE DEF m, u
    <3>1. \A t \in Tables, n \in Names : index'[t][n] # index[t][n] => t = c /\ index'[t][n] = u
      BY <2>3 DEF TypeOK
    <3>2. \A t \in Tables, n \in Names : index[t][n] # None =>
             index[t][n] \in UIDs /\ HasDoc(t, index[t][n])
      BY DEF TypeOK, NamesLeadToDocuments, Page, HasDoc
    <3> QED BY <1>0, <2>1, <3>1, <3>2 DEF Stay, HasDoc
  <2> QED BY <1>1, <2>2, <2>3
<1>4. CASE WriteEvents
  <2> DEFINE b == job["event"]
  <2>1. b.event \in Events /\ b.subject \in Subjects /\ HasEvent(b.event)
        /\ b.set \subseteq eventsOf[b.subject]
    <3>1. b # Idle /\ b.event \in Events /\ b.subject \in Subjects
      BY <1>4, EventJobCases DEF WriteEvents, TypeOK, Idle
    <3> QED BY <1>4, <3>1 DEF JobInv, WriteEvents
  <2>2. eventsOf' = [eventsOf EXCEPT ![b.subject] = b.set \cup {b.event}] \/ eventsOf' = eventsOf
    BY <1>4 DEF WriteEvents, Put
  <2>3. UNCHANGED index
    BY <1>4 DEF WriteEvents
  <2> HIDE DEF b
  <2>4. \A s \in Subjects : eventsOf'[s] \subseteq eventsOf[s] \cup {b.event}
    BY <2>1, <2>2 DEF TypeOK
  <2>5. \A s \in Subjects : \A e \in eventsOf[s] : e \in Events /\ HasEvent(e)
    BY DEF TypeOK, NamesLeadToDocuments, HasEvent
  <2>6. \A s \in Subjects : \A e \in eventsOf'[s] : e \in Events /\ HasEvent(e)
    BY <2>1, <2>4, <2>5
  <2>7. \A s \in Subjects : \A e \in eventsOf'[s] : HasEvent(e)'
    BY <1>0, <2>6 DEF Stay, HasEvent
  <2> QED BY <1>1, <2>3, <2>7 DEF NamesLeadToDocuments, Page, HasDoc, HasEvent
<1>5. CASE \E c \in Tables : SaveIndex(c)
  <2>1. PICK c \in Tables : SaveIndex(c)
    BY <1>5
  <2> QED BY <1>2, <1>3, <2>1 DEF SaveIndex, NamesLeadToDocuments, Page, HasDoc, HasEvent
<1>6. CASE UNCHANGED <<index, eventsOf>>
  BY <1>1, <1>2, <1>6 DEF NamesLeadToDocuments, Page, HasDoc, HasEvent
<1> QED
  BY <1>4, <1>5, <1>6
  DEF Next, vars, storeVars, Cluster, Caches, Crash, Reconcilers, Gone, GoneEvent, SaveDoc,
      SaveEvent, ReadEvents

\* The invariant holds in every reachable state: what a worker has in hand has its
\* document, and the set it has read is the one that is stored.
THEOREM InvHolds == Spec => []IInv
<1>1. IInv /\ [Next]_vars => IInv'
  BY StepTyped, StepJobs, StepNames DEF IInv
<1> QED BY <1>1, InitInv, PTL DEF Spec
-----------------------------------------------------------------------------
(* What the pages and the reconcilers promise.                             *)

\* A name that leads to a document makes a page whole.
LEMMA NamesMakePagesWhole == ASSUME TypeOK, NamesLeadToDocuments PROVE PagesAreWhole
<1> SUFFICES ASSUME NEW k \in Pods
             PROVE  LET p == DebugPod(k)
                        n == NodeOf[k]
                        Missed(s, shown) == {e \in eventsOf[s] \ shown : <<"event", e>> \notin unwritten}
                    IN  /\ p.kind = "error" => <<"doc", "pod", index["pod"][Name[k]]>> \in unwritten
                        /\ p.kind = "page" =>
                              /\ Missed(<<"pod", p.uid>>, p.events) = {}
                              /\ p.node = None /\ index["node"][n] # None =>
                                    <<"doc", "node", index["node"][n]>> \in unwritten
                              /\ p.node # None => Missed(<<"node", n>>, p.nodeEvents) = {}
  BY DEF PagesAreWhole
<1> DEFINE u == index["pod"][Name[k]]
           n == NodeOf[k]
<1>1. Name[k] \in Names /\ n \in Names /\ "pod" \in Tables /\ "node" \in Tables
  BY StoreAssumption DEF Names, Objects, Tables, StoreAssumption
<1>2. \A s \in Subjects : {e \in eventsOf[s] \ Shown(s) : <<"event", e>> \notin unwritten} = {}
  BY DEF NamesLeadToDocuments, Shown
<1>3. CASE u = None
  BY <1>3 DEF DebugPod
<1>4. CASE u # None /\ Page("pod", Name[k]) = None
  <2>1. DebugPod(k).kind = "error"
    BY <1>4 DEF DebugPod
  <2> QED BY <1>1, <1>4, <2>1 DEF NamesLeadToDocuments
<1>5. CASE u # None /\ Page("pod", Name[k]) # None
  <2> DEFINE node == Page("node", n)
             nodeEvents == IF node = None THEN {} ELSE Shown(<<"node", n>>)
  <2>1. DebugPod(k) = [kind |-> "page", uid |-> u, events |-> Shown(<<"pod", u>>),
                       node |-> node, nodeEvents |-> nodeEvents]
    BY <1>5 DEF DebugPod
  <2>2. <<"pod", u>> \in Subjects /\ <<"node", n>> \in Subjects
    BY <1>1, <1>5 DEF Subjects, TypeOK
  <2>3. node = None /\ index["node"][n] # None => <<"doc", "node", index["node"][n]>> \in unwritten
    BY <1>1 DEF NamesLeadToDocuments
  <2>4. node # None => nodeEvents = Shown(<<"node", n>>)
    OBVIOUS
  <2> HIDE DEF node, nodeEvents, u, n
  <2>5. /\ DebugPod(k).kind = "page" /\ DebugPod(k).uid = u /\ DebugPod(k).node = node
        /\ DebugPod(k).events = Shown(<<"pod", u>>) /\ DebugPod(k).nodeEvents = nodeEvents
    BY <2>1
  <2> QED BY <1>2, <2>2, <2>3, <2>4, <2>5 DEF n
<1> QED BY <1>3, <1>4, <1>5

\* Whoever asks for a pod by name, at any moment and after any crash, gets a page that
\* lacks something only because a write failed (pkg/debugapi/debugpod.go).
THEOREM PagesHold == Spec => []PagesAreWhole
  BY InvHolds, NamesMakePagesWhole, PTL DEF IInv

\* No step of the reconcilers forgets an event of a pod or a node, except the write after a
\* read that failed (controllers/core/event_controller.go).
THEOREM EventsHold == Spec => EventsAreKept
<1> DEFINE Kept == \A s \in Subjects :
              \/ eventsOf[s] \subseteq eventsOf'[s]
              \/ job["event"].at = "write" /\ job["event"].blind
<1>1. ASSUME IInv, [Next]_vars PROVE Kept
  <2>1. CASE WriteEvents
    <3> DEFINE b == job["event"]
    <3>1. eventsOf' = [eventsOf EXCEPT ![b.subject] = b.set \cup {b.event}] \/ eventsOf' = eventsOf
      BY <2>1 DEF WriteEvents, Put
    <3>2. b.at = "write" /\ (~b.blind => eventsOf[b.subject] \subseteq b.set)
      BY <1>1, <2>1 DEF WriteEvents, IInv, JobInv
    <3>3. eventsOf \in [Subjects -> SUBSET Events]
      BY <1>1 DEF IInv, TypeOK
    <3> QED BY <3>1, <3>2, <3>3
  <2>2. CASE UNCHANGED eventsOf
    BY <2>2
  <2> QED
    BY <1>1, <2>1, <2>2
    DEF Next, vars, storeVars, Cluster, Caches, Crash, Reconcilers, Gone, GoneEvent, SaveDoc,
        SaveIndex, SaveEvent, ReadEvents
<1>2. IInv /\ [Next]_vars => [Kept]_vars
  BY <1>1
<1> QED BY <1>2, InvHolds, PTL DEF Spec, EventsAreKept
-----------------------------------------------------------------------------
(* What is left in the store when the reconcilers rest.  A version that    *)
(* the cache has is either still in the queue, or its document has been    *)
(* written and its name is written or in the hands of the worker           *)
(* (Settled).  The others keep that true because no two objects ever share *)
(* a UID (UidsOnce), and what a worker has in hand is the version of the   *)
(* cache unless its key is queued again (JobsCurrent).                     *)

\* The UIDs of the versions of k that can still be written.
Own(k) == {v.uid : v \in {real[k], seen[k]} \ {None}}

\* No UID belongs to two objects, and the next one is new.
UidsOnce ==
    /\ \A k \in Objects : \A u \in Own(k) : u <= lastUid
    /\ \A k, o \in Objects : k # o => Own(k) \cap Own(o) = {}

\* The version a worker writes is the last one seen, unless the object is queued again.
JobsCurrent ==
    \A c \in Tables :
       job[c] # Idle /\ job[c].key \notin queue => job[c].version = seen[job[c].key]

\* The document of the last version seen of k is written, or its Put failed.
DocDone(k) ==
    \/ docs[Table(k)][seen[k].uid] = seen[k].rev
    \/ <<"doc", Table(k), seen[k].uid>> \in unwritten

\* The name of k leads to it, or its Put failed, or another object of the name may have
\* it.
NameDone(k) ==
    \/ index[Table(k)][Name[k]] = seen[k].uid
    \/ <<"index", Table(k), Name[k]>> \in unwritten
    \/ \E o \in Objects \ {k} : Table(o) = Table(k) /\ Name[o] = Name[k]

\* The worker is between the document of k and its index entry.
InHand(k) == job[Table(k)] # Idle /\ job[Table(k)].key = k

\* An object that is not queued is written, up to what its worker has still to do.
Settled ==
    \A k \in Objects :
       k \notin queue /\ seen[k] # None => DocDone(k) /\ (NameDone(k) \/ InHand(k))

\* The inductive invariant of RestIsStored.
RestInv == UidsOnce /\ JobsCurrent /\ Settled

\* It holds at first.
LEMMA InitRest == Init => RestInv
<1> SUFFICES ASSUME Init PROVE RestInv
  OBVIOUS
<1>1. \A k \in Objects : Own(k) = {}
  BY DEF Init, Own
<1>2. (\A c \in Tables : job[c] = Idle) /\ \A k \in Objects : seen[k] = None
  BY DEF Init, Controllers, Tables
<1> QED BY <1>1, <1>2 DEF RestInv, UidsOnce, JobsCurrent, Settled

\* Every step keeps that UIDs are used once.
LEMMA StepUids == ASSUME TypeOK, UidsOnce, [Next]_vars PROVE UidsOnce'
<1> USE StoreAssumption DEF StoreAssumption
<1>0. lastUid \in Nat /\ \A k \in Objects : Own(k) \subseteq Nat
  BY DEF TypeOK, Own, Version, UIDs
<1>1. ASSUME lastUid' = lastUid, \A k \in Objects : Own(k)' \subseteq Own(k) PROVE UidsOnce'
  BY <1>1 DEF UidsOnce
<1>2. CASE Cluster
  <2>1. ASSUME NEW k \in Objects, Create(k) PROVE UidsOnce'
    <3>1. /\ lastUid' = lastUid + 1 /\ UNCHANGED seen
          /\ real' = [real EXCEPT ![k] = [uid |-> lastUid', rev |-> 1]]
      BY <1>2, <2>1 DEF Create, Cluster, cacheVars
    <3>2. [uid |-> lastUid', rev |-> 1].uid = lastUid'
      OBVIOUS
    <3>3. real'[k] = [uid |-> lastUid', rev |-> 1] /\ \A o \in Objects \ {k} : real'[o] = real[o]
      BY <3>1 DEF TypeOK
    <3>4. Own(k)' \subseteq Own(k) \cup {lastUid'}
      BY <3>1, <3>2, <3>3 DEF Own
    <3>5. \A o \in Objects \ {k} : Own(o)' = Own(o)
      BY <3>1, <3>3 DEF Own
    <3>6. \A o \in Objects : lastUid' \notin Own(o)
      BY <1>0, <3>1 DEF UidsOnce
    <3>7. \A o \in Objects : \A u \in Own(o) : u <= lastUid'
      BY <1>0, <3>1 DEF UidsOnce
    <3>8. \A o \in Objects : \A u \in Own(o)' : u <= lastUid'
      BY <1>0, <3>1, <3>4, <3>5, <3>7
    <3>9. \A o, p \in Objects : o # p => Own(o)' \cap Own(p)' = {}
      BY <3>4, <3>5, <3>6 DEF UidsOnce
    <3> QED BY <3>8, <3>9 DEF UidsOnce
  <2>2. ASSUME NEW k \in Objects, Change(k) PROVE UidsOnce'
    <3>1. UNCHANGED <<lastUid, seen>> /\ real[k] # None
          /\ \/ real' = [real EXCEPT ![k].rev = @ + 1]
             \/ real' = [real EXCEPT ![k] = None]
      BY <1>2, <2>2 DEF Change, Cluster, cacheVars
    <3>2. real'[k] = None \/ real'[k] = [real[k] EXCEPT !.rev = @ + 1]
      BY <3>1 DEF TypeOK
    <3>3. real'[k] # None => real'[k].uid = real[k].uid
      BY <3>1, <3>2 DEF TypeOK, Version
    <3>4. \A o \in Objects \ {k} : real'[o] = real[o]
      BY <3>1 DEF TypeOK
    <3>5. \A o \in Objects : Own(o)' \subseteq Own(o)
      BY <3>1, <3>3, <3>4 DEF Own
    <3> QED BY <1>1, <3>1, <3>5
  <2>3. CASE UNCHANGED <<real, lastUid>>
    BY <1>1, <1>2, <2>3 DEF Own, Cluster, cacheVars
  <2> QED BY <1>2, <2>1, <2>2, <2>3 DEF Cluster, Report
<1>3. CASE Caches
  <2>1. ASSUME NEW k \in Objects, Deliver(k) PROVE UidsOnce'
    <3>1. seen' = [seen EXCEPT ![k] = real[k]] /\ UNCHANGED <<real, lastUid>>
      BY <1>3, <2>1 DEF Deliver, Caches, clusterVars
    <3>2. \A o \in Objects : seen'[o] \in {seen[o], real[o]}
      BY <3>1 DEF TypeOK
    <3>3. \A o \in Objects : Own(o)' \subseteq Own(o)
      BY <3>1, <3>2 DEF Own
    <3> QED BY <1>1, <3>1, <3>3
  <2>2. CASE UNCHANGED seen
    BY <1>1, <1>3, <2>2 DEF Own, Caches, clusterVars
  <2> QED BY <1>3, <2>1, <2>2 DEF Caches, DeliverEvent
<1>4. CASE Crash
  BY <1>1, <1>4 DEF Own, Crash, clusterVars
<1>5. CASE UNCHANGED <<real, seen, lastUid>>
  BY <1>1, <1>5 DEF Own
<1> QED
  BY <1>2, <1>3, <1>4, <1>5
  DEF Next, vars, clusterVars, cacheVars, Reconcilers, Gone, SaveDoc, SaveIndex, GoneEvent,
      SaveEvent, ReadEvents, WriteEvents

\* Whatever leaves what the reconcilers write, and takes no object out of the queue, keeps
\* what is settled.
LEMMA SettledStays ==
    ASSUME RestInv, UNCHANGED <<docs, index, job>>,
           \A t, u : <<"doc", t, u>> \in unwritten => <<"doc", t, u>> \in unwritten',
           \A t, n : <<"index", t, n>> \in unwritten => <<"index", t, n>> \in unwritten',
           \A k \in Objects : k \in queue => k \in queue',
           \A k \in Objects : k \notin queue' => seen'[k] = seen[k],
           \A c \in Tables : job[c] # Idle => job[c].key \in Objects
    PROVE  JobsCurrent' /\ Settled'
<1>1. JobsCurrent'
  BY DEF RestInv, JobsCurrent
<1>2. ASSUME NEW k \in Objects, k \notin queue', seen'[k] # None
      PROVE  DocDone(k)' /\ (NameDone(k)' \/ InHand(k)')
  <2>1. k \notin queue /\ seen'[k] = seen[k]
    BY <1>2
  <2>2. DocDone(k) /\ (NameDone(k) \/ InHand(k))
    BY <1>2, <2>1 DEF RestInv, Settled
  <2>3. DocDone(k)'
    BY <2>1, <2>2 DEF DocDone
  <2>4. NameDone(k)' \/ InHand(k)'
    BY <2>1, <2>2 DEF NameDone, InHand
  <2> QED BY <2>3, <2>4
<1> QED BY <1>1, <1>2 DEF Settled

\* The document of a version in the cache is written.
LEMMA SaveDocSettles ==
    ASSUME TypeOK, RestInv, NEW k \in Objects, SaveDoc(k)
    PROVE  JobsCurrent' /\ Settled'
<1> DEFINE c == Table(k)
           u == seen[k].uid
           j == [at |-> "index", key |-> k, version |-> seen[k]]
<1>1. /\ seen[k] # None /\ job[c] = Idle /\ queue' = queue \ {k}
      /\ UNCHANGED <<seen, index>> /\ job' = [job EXCEPT ![c] = j]
      /\ Put(docs, docs', [docs EXCEPT ![c][u] = seen[k].rev], <<"doc", c, u>>)
  BY DEF SaveDoc, Start, Give
<1>2. c \in Tables /\ c \in Controllers /\ u \in UIDs /\ u \in Own(k)
  BY <1>1, TablesOfKeys DEF TypeOK, Version, Own
<1>3. j.key = k /\ j.version = seen[k] /\ j # Idle
  BY DEF Idle
<1> HIDE DEF c, u, j
<1>4. job'[c] = j /\ \A d \in Tables \ {c} : job'[d] = job[d]
  BY <1>1, <1>2 DEF TypeOK, Controllers, Tables
<1>5. JobsCurrent'
  <2>1. ASSUME NEW d \in Tables \ {c}, job'[d] # Idle, job'[d].key \notin queue'
        PROVE  job'[d].version = seen'[job'[d].key]
    <3>1. job[d] # Idle /\ Table(job[d].key) = d
      BY <1>4, <2>1 DEF TypeOK
    <3>2. job[d].key # k
      BY <2>1, <3>1 DEF c
    <3> QED BY <1>1, <1>4, <2>1, <3>1, <3>2 DEF RestInv, JobsCurrent
  <2> QED BY <1>1, <1>3, <1>4, <2>1 DEF JobsCurrent
<1>6. (\A t, v : <<"doc", t, v>> \in unwritten /\ <<t, v>> # <<c, u>> => <<"doc", t, v>> \in unwritten')
      /\ \A t, n : <<"index", t, n>> \in unwritten => <<"index", t, n>> \in unwritten'
  BY <1>1 DEF Put
<1>7. ASSUME NEW o \in Objects, o \notin queue', seen'[o] # None
      PROVE  DocDone(o)' /\ (NameDone(o)' \/ InHand(o)')
  <2>1. CASE o = k
    <3>1. docs'[c][u] = seen[k].rev \/ <<"doc", c, u>> \in unwritten'
      BY <1>1, <1>2 DEF Put, TypeOK
    <3>2. DocDone(o)'
      BY <1>1, <2>1, <3>1 DEF DocDone, c, u
    <3>3. InHand(o)'
      BY <1>3, <1>4, <2>1 DEF InHand, c
    <3> QED BY <3>2, <3>3
  <2>2. CASE o # k
    <3>1. o \notin queue /\ seen[o] # None
      BY <1>1, <1>7, <2>2
    <3>2. DocDone(o) /\ (NameDone(o) \/ InHand(o))
      BY <3>1 DEF RestInv, Settled
    <3>3. seen[o].uid # u /\ seen[o].uid \in UIDs /\ Table(o) \in Tables
      <4>1. seen[o].uid \in Own(o) /\ Own(o) \cap Own(k) = {}
        BY <2>2, <3>1 DEF RestInv, UidsOnce, Own
      <4>2. seen[o] \in Version
        BY <3>1 DEF TypeOK
      <4> QED BY <1>2, <4>1, <4>2, TablesOfKeys DEF Version
    <3>4. docs'[Table(o)][seen[o].uid] = docs[Table(o)][seen[o].uid]
      BY <1>1, <1>2, <3>3 DEF Put, TypeOK
    <3>5. DocDone(o)'
      BY <1>1, <1>6, <3>2, <3>3, <3>4 DEF DocDone
    <3>6. NameDone(o) => NameDone(o)'
      BY <1>1, <1>6 DEF NameDone
    <3>7. InHand(o) => InHand(o)'
      BY <1>1, <1>4, <3>3 DEF InHand
    <3> QED BY <3>2, <3>5, <3>6, <3>7
  <2> QED BY <2>1, <2>2
<1> QED BY <1>5, <1>7 DEF Settled

\* The UID is written under the name.
LEMMA SaveIndexSettles ==
    ASSUME TypeOK, RestInv, NEW c \in Tables, SaveIndex(c)
    PROVE  JobsCurrent' /\ Settled'
<1> DEFINE k == job[c].key
           u == job[c].version.uid
<1>1. /\ UNCHANGED <<seen, queue, docs>> /\ job' = [job EXCEPT ![c] = Idle]
      /\ Put(index, index', [index EXCEPT ![c][Name[k]] = u], <<"index", c, Name[k]>>)
  BY DEF SaveIndex, Give, cacheVars
<1>2. job[c] # Idle /\ k \in Objects /\ Table(k) = c /\ Name[k] \in Names
  BY JobCases DEF SaveIndex, TypeOK, Idle, Names
<1>3. k \notin queue => u = seen[k].uid
  BY <1>2 DEF RestInv, JobsCurrent
<1> HIDE DEF k, u
<1>4. job'[c] = Idle /\ \A d \in Tables \ {c} : job'[d] = job[d]
  BY <1>1 DEF TypeOK, Controllers, Tables
<1>5. JobsCurrent'
  BY <1>1, <1>4 DEF RestInv, JobsCurrent
<1>6. (\A t, v : <<"doc", t, v>> \in unwritten => <<"doc", t, v>> \in unwritten')
      /\ \A t, n : <<"index", t, n>> \in unwritten /\ <<t, n>> # <<c, Name[k]>>
                      => <<"index", t, n>> \in unwritten'
  BY <1>1 DEF Put
<1>7. ASSUME NEW o \in Objects, o \notin queue', seen'[o] # None
      PROVE  DocDone(o)' /\ (NameDone(o)' \/ InHand(o)')
  <2>1. DocDone(o) /\ (NameDone(o) \/ InHand(o)) /\ o \notin queue
    BY <1>1, <1>7 DEF RestInv, Settled
  <2>2. DocDone(o)'
    BY <1>1, <1>6, <2>1 DEF DocDone
  <2>3. CASE o = k
    <3>1. index'[c][Name[k]] = u \/ <<"index", c, Name[k]>> \in unwritten'
      BY <1>1, <1>2 DEF Put, TypeOK
    <3>2. u = seen'[o].uid
      BY <1>1, <1>3, <2>1, <2>3
    <3> QED BY <1>2, <2>2, <2>3, <3>1, <3>2 DEF NameDone
  <2>4. CASE o # k /\ Table(o) = c /\ Name[o] = Name[k]
    <3>1. NameDone(o)'
      BY <1>2, <2>4 DEF NameDone
    <3> QED BY <2>2, <3>1
  <2>5. CASE o # k /\ ~(Table(o) = c /\ Name[o] = Name[k])
    <3>1. Table(o) \in Tables /\ Name[o] \in Names
      BY TablesOfKeys DEF Names
    <3>2. index'[Table(o)][Name[o]] = index[Table(o)][Name[o]]
      BY <1>1, <1>2, <2>5, <3>1 DEF Put, TypeOK
    <3>3. NameDone(o) => NameDone(o)'
      BY <1>1, <1>6, <2>5, <3>2 DEF NameDone
    <3>4. InHand(o) => InHand(o)'
      <4>1. InHand(o) => Table(o) # c
        BY <2>5 DEF InHand, k
      <4> QED BY <1>4, <3>1, <4>1 DEF InHand
    <3> QED BY <2>1, <2>2, <3>3, <3>4
  <2> QED BY <2>3, <2>4, <2>5
<1> QED BY <1>5, <1>7 DEF Settled

\* Another table is written, by the worker of events.
LEMMA EventPutSettles ==
    ASSUME TypeOK, RestInv, UNCHANGED <<docs, index, seen>>,
           \A t, u : <<"doc", t, u>> \in unwritten => <<"doc", t, u>> \in unwritten',
           \A t, n : <<"index", t, n>> \in unwritten => <<"index", t, n>> \in unwritten',
           \A c \in Tables : job'[c] = job[c],
           \A k \in Objects : k \in queue => k \in queue'
    PROVE  JobsCurrent' /\ Settled'
<1>1. JobsCurrent'
  <2>1. \A c \in Tables : job[c] # Idle => job[c].key \in Objects
    BY JobCases DEF TypeOK
  <2> QED BY <2>1 DEF RestInv, JobsCurrent
<1>2. ASSUME NEW k \in Objects, k \notin queue', seen'[k] # None
      PROVE  DocDone(k)' /\ (NameDone(k)' \/ InHand(k)')
  <2>1. DocDone(k) /\ (NameDone(k) \/ InHand(k)) /\ Table(k) \in Tables
    BY <1>2, TablesOfKeys DEF RestInv, Settled
  <2> QED BY <2>1 DEF DocDone, NameDone, InHand
<1> QED BY <1>1, <1>2 DEF Settled

\* Every step keeps the rest of it.
LEMMA StepRest == ASSUME TypeOK, RestInv, [Next]_vars PROVE JobsCurrent' /\ Settled'
<1>0. \A c \in Tables : job[c] # Idle => job[c].key \in Objects
  BY JobCases DEF TypeOK
<1>e. "event" \in Controllers /\ "event" \notin Tables /\ Objects \cap Events = {}
  BY StoreAssumption DEF Controllers, Tables, StoreAssumption
<1>1. CASE UNCHANGED <<docs, index, job, unwritten, seen, queue>>
  BY <1>0, <1>1, SettledStays
<1>2. CASE Caches
  <2>1. UNCHANGED <<docs, index, job, unwritten>>
    BY <1>2 DEF Caches, storeVars
  <2>2. ASSUME NEW k \in Objects, Deliver(k) PROVE JobsCurrent' /\ Settled'
    <3>1. queue' = queue \cup {k} /\ seen' = [seen EXCEPT ![k] = real[k]]
      BY <2>2 DEF Deliver
    <3>2. \A o \in Objects : o \notin queue' => seen'[o] = seen[o]
      BY <3>1 DEF TypeOK
    <3> QED BY <1>0, <2>1, <3>1, <3>2, SettledStays
  <2>3. ASSUME NEW e \in Events, DeliverEvent(e) PROVE JobsCurrent' /\ Settled'
    BY <1>0, <2>1, <2>3, SettledStays DEF DeliverEvent
  <2> QED BY <1>2, <2>2, <2>3 DEF Caches
<1>3. CASE \E k \in Objects : SaveDoc(k)
  BY <1>3, SaveDocSettles
<1>4. CASE \E c \in Tables : SaveIndex(c)
  BY <1>4, SaveIndexSettles
<1>5. ASSUME NEW k \in Objects, Gone(k) PROVE JobsCurrent' /\ Settled'
  <2>1. /\ queue' = queue \ {k} /\ seen[k] = None /\ job[Table(k)] = Idle
        /\ UNCHANGED <<seen, docs, index, unwritten, job>>
    BY <1>5 DEF Gone, Start, storeVars
  <2>2. JobsCurrent'
    <3>1. \A c \in Tables : job[c] # Idle => job[c].key # k
      BY <2>1 DEF TypeOK
    <3> QED BY <2>1, <3>1 DEF RestInv, JobsCurrent
  <2>3. Settled'
    BY <2>1 DEF RestInv, Settled, DocDone, NameDone, InHand
  <2> QED BY <2>2, <2>3
<1>6. ASSUME NEW e \in Events, SaveEvent(e) PROVE JobsCurrent' /\ Settled'
  <2>1. /\ queue' = queue \ {e} /\ UNCHANGED <<seen, docs, index>>
        /\ Put(eventDocs, eventDocs', eventDocs \cup {e}, <<"event", e>>)
        /\ \E j : Give("event", j)
    BY <1>6 DEF SaveEvent, Start
  <2>2. \A k \in Objects : k \in queue => k \in queue'
    BY <1>e, <2>1
  <2>3. \A c \in Tables : job'[c] = job[c]
    BY <1>e, <2>1 DEF Give, TypeOK, Controllers
  <2>4. (\A t, u : <<"doc", t, u>> \in unwritten => <<"doc", t, u>> \in unwritten')
        /\ \A t, n : <<"index", t, n>> \in unwritten => <<"index", t, n>> \in unwritten'
    BY <2>1 DEF Put
  <2> QED BY <2>1, <2>2, <2>3, <2>4, EventPutSettles
<1>7. ASSUME NEW e \in Events, GoneEvent(e) PROVE JobsCurrent' /\ Settled'
  <2>1. queue' = queue \ {e} /\ UNCHANGED <<seen, docs, index, unwritten, job>>
    BY <1>7 DEF GoneEvent, Start, storeVars
  <2>2. \A k \in Objects : k \in queue => k \in queue'
    BY <1>e, <2>1
  <2> QED BY <1>0, <2>1, <2>2, SettledStays
<1>8. CASE ReadEvents
  <2>1. /\ UNCHANGED <<seen, queue, docs, index, unwritten>>
        /\ \E j : Give("event", j)
    BY <1>8 DEF ReadEvents, cacheVars, storeVars
  <2>2. \A c \in Tables : job'[c] = job[c]
    BY <1>e, <2>1 DEF Give, TypeOK, Controllers
  <2> QED BY <2>1, <2>2, EventPutSettles
<1>9. CASE WriteEvents
  <2> DEFINE s == job["event"].subject
  <2>1. /\ UNCHANGED <<seen, queue, docs, index>> /\ Give("event", Idle)
        /\ \E v : Put(eventsOf, eventsOf', v, <<"events", s>>)
    BY <1>9 DEF WriteEvents, cacheVars
  <2> HIDE DEF s
  <2>2. \A c \in Tables : job'[c] = job[c]
    BY <1>e, <2>1 DEF Give, TypeOK, Controllers
  <2>3. (\A t, u : <<"doc", t, u>> \in unwritten => <<"doc", t, u>> \in unwritten')
        /\ \A t, n : <<"index", t, n>> \in unwritten => <<"index", t, n>> \in unwritten'
    BY <2>1 DEF Put
  <2> QED BY <2>1, <2>2, <2>3, EventPutSettles
<1>10. CASE Crash
  <2>1. /\ seen' = real /\ \A k \in Objects : real[k] # None => k \in queue'
        /\ \A c \in Tables : job'[c] = Idle
    BY <1>10 DEF Crash, Controllers, Tables
  <2> QED BY <2>1 DEF JobsCurrent, Settled
<1> QED
  BY <1>1, <1>2, <1>3, <1>4, <1>5, <1>6, <1>7, <1>8, <1>9, <1>10
  DEF Next, vars, Cluster, cacheVars, storeVars, Reconcilers

\* When nothing is left to do, every pod and node that exists is in the store with its last
\* version, and under its name: whatever the order of the three workers, wherever a crash
\* stopped them, and however often a key was queued while its worker was busy
\* (controllers/core/pod_controller.go, node_controller.go).
THEOREM RestStaysStored == Spec => []RestIsStored
<1>1. IInv /\ RestInv /\ [Next]_vars => RestInv'
  BY StepUids, StepRest DEF IInv, RestInv
<1>2. ASSUME RestInv PROVE RestIsStored
  <2>1. ASSUME Rest, NEW k \in Objects, real[k] # None PROVE Stored(Table(k), k)
    <3>1. k \notin queue /\ seen[k] = real[k] /\ job[Table(k)] = Idle
      BY <2>1, TablesOfKeys DEF Rest
    <3>2. DocDone(k) /\ NameDone(k)
      BY <1>2, <2>1, <3>1 DEF RestInv, Settled, InHand
    <3> QED BY <3>1, <3>2 DEF Stored, DocDone, NameDone
  <2> QED BY <2>1 DEF RestIsStored
<1> QED BY <1>1, <1>2, InvHolds, InitRest, PTL DEF Spec
=============================================================================
