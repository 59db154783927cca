----------------------------- MODULE DebugStore -----------------------------
(***************************************************************************)
(* The store behind the debug pages: the Pod, Node and Event reconcilers   *)
(* (controllers/core) write every version they see into LevelDB            *)
(* (pkg/utils/leveldb.go), and the handlers of pkg/debugapi find their way *)
(* through it from the name of a pod to its document, its events, and its  *)
(* node.                                                                   *)
(*                                                                         *)
(* A document is written under the UID, and then the UID under the name;   *)
(* the events of a pod or node are a set that is read, extended and        *)
(* written back.  Nothing is ever deleted, and every error of the store is *)
(* ignored.  Each controller has one worker.  The store survives the       *)
(* process.  The caches and LevelDB are external.  A Reconcile reads its   *)
(* object once, so that a cache may as well jump to the last version.      *)
(***************************************************************************)
EXTENDS Naturals, FiniteSets

CONSTANTS
    Pods, Nodes,   \* keys of pods (namespace and name) and nodes
    Name,          \* the name in each key
    NodeOf,        \* the name of the node a pod runs on
    Events,        \* UIDs of events
    None,
    MaxUid,        \* bound: pods and nodes created
    MaxActs,       \* bound: changes in the cluster
    MaxFailures,   \* bound: reads and writes of the store that fail
    MaxCrashes

Objects == Pods \cup Nodes
Tables == {"pod", "node"}
Table(k) == IF k \in Pods THEN "pod" ELSE "node"
Controllers == {"pod", "node", "event"}
UIDs == 1 .. MaxUid
Names == {Name[k] : k \in Objects}
Version == [uid : UIDs, rev : 1 .. MaxActs]

\* What an event can be about: a pod by its UID, a node by its name, or neither.
Subjects == ({"pod"} \X UIDs) \cup ({"node"} \X Names)
NoSubject == <<"other", None>>

ASSUME StoreAssumption ==
    /\ IsFiniteSet(Events) /\ Pods \cap Nodes = {} /\ NodeOf \in [Pods -> Names]
    /\ Objects \cap Events = {}  \* they have different queues in the code
    /\ {MaxUid, MaxActs, MaxFailures, MaxCrashes} \subseteq Nat
    /\ None \notin Nat /\ None \notin Version /\ None \notin Subjects \cup {NoSubject}

VARIABLES
    real, seen,          \* pods and nodes in the API server, and in the cache
    realEvents,          \* what each event is about, in the API server
    seenEvents,          \* and in the cache
    queue,               \* pods, nodes and events that wait for a Reconcile
    docs, index,         \* the tables by UID and by name, of pods and of nodes
    eventDocs,           \* the events that have a document
    eventsOf,            \* the tables of events by subject
    job,                 \* for each worker, what it has in hand
    lastUid,
    unwritten,           \* history: what the last write of failed
    acts, failures, crashes

clusterVars == <<real, realEvents, lastUid, acts>>
cacheVars == <<seen, seenEvents, queue>>
storeVars == <<docs, index, eventDocs, eventsOf, unwritten>>
bounds == <<failures, crashes>>
vars == <<clusterVars, cacheVars, storeVars, job, bounds>>

Idle == [at |-> "idle"]

Init ==
    /\ real = [k \in Objects |-> None] /\ seen = real
    /\ realEvents = [e \in Events |-> None] /\ seenEvents = realEvents
    /\ queue = {} /\ lastUid = 0
    /\ docs = [t \in Tables |-> [u \in UIDs |-> None]]
    /\ index = [t \in Tables |-> [n \in Names |-> None]]
    /\ eventDocs = {} /\ eventsOf = [s \in Subjects |-> {}]
    /\ job = [c \in Controllers |-> Idle]
    /\ unwritten = {} /\ acts = 0 /\ failures = 0 /\ crashes = 0
-----------------------------------------------------------------------------
(* The cluster and its caches.                                             *)

Create(k) ==
    /\ real[k] = None /\ lastUid < MaxUid /\ lastUid' = lastUid + 1
    /\ real' = [real EXCEPT ![k] = [uid |-> lastUid', rev |-> 1]]
    /\ UNCHANGED realEvents

Change(k) ==
    /\ real[k] # None
    /\ \/ real' = [real EXCEPT ![k].rev = @ + 1]
       \/ real' = [real EXCEPT ![k] = None]
    /\ UNCHANGED <<lastUid, realEvents>>

\* Somebody reports on a pod, a node or something else, or an old event goes.
Report(e) ==
    /\ \/ /\ realEvents[e] = None
          /\ \/ \E k \in {o \in Objects : real[o] # None} :
                   realEvents' = [realEvents EXCEPT ![e] =
                       IF k \in Pods THEN <<"pod", real[k].uid>> ELSE <<"node", Name[k]>>]
             \/ realEvents' = [realEvents EXCEPT ![e] = NoSubject]
       \/ realEvents[e] # None /\ realEvents' = [realEvents EXCEPT ![e] = None]
    /\ UNCHANGED <<real, lastUid>>

Cluster ==
    /\ acts < MaxActs /\ acts' = acts + 1
    /\ (\E k \in Objects : Create(k) \/ Change(k)) \/ \E e \in Events : Report(e)
    /\ UNCHANGED <<cacheVars, storeVars, job, bounds>>

Deliver(k) ==
    /\ seen[k] # real[k] /\ seen' = [seen EXCEPT ![k] = real[k]]
    /\ queue' = queue \cup {k} /\ UNCHANGED seenEvents

DeliverEvent(e) ==
    /\ seenEvents[e] # realEvents[e]
    /\ seenEvents' = [seenEvents EXCEPT ![e] = realEvents[e]]
    /\ queue' = queue \cup {e} /\ UNCHANGED seen

Caches ==
    /\ (\E k \in Objects : Deliver(k)) \/ \E e \in Events : DeliverEvent(e)
    /\ UNCHANGED <<clusterVars, storeVars, job, bounds>>
-----------------------------------------------------------------------------
(* LevelDB: utils.Set writes or fails, utils.Get answers or fails.         *)

\* Set for entry d of the table tab, of which v is the contents after it.
Put(tab, tab2, v, d) ==
    \/ tab2 = v /\ unwritten' = unwritten \ {d} /\ UNCHANGED failures
    \/ /\ failures < MaxFailures /\ failures' = failures + 1
       /\ tab2 = tab /\ unwritten' = unwritten \cup {d}

\* Get of a value: the value, or nothing when it fails, which nobody tells apart.
Answers(v) ==
    {[value |-> v, blind |-> FALSE, cost |-> 0]}
    \cup (IF failures < MaxFailures THEN {[value |-> {}, blind |-> TRUE, cost |-> 1]} ELSE {})
-----------------------------------------------------------------------------
(* The reconcilers.                                                        *)

Give(c, j) == job' = [job EXCEPT ![c] = j]
Start(c, k) == job[c] = Idle /\ k \in queue /\ queue' = queue \ {k}

\* An object that is gone: the store keeps what it has.
Gone(k) ==
    /\ Start(Table(k), k) /\ seen[k] = None
    /\ UNCHANGED <<seen, seenEvents, storeVars, job, bounds>>

\* Seeded fault: the UID is written under the name before there is a document.
SaveIndexFirst(k) ==
    /\ Start(Table(k), k) /\ seen[k] # None
    /\ Put(index, index', [index EXCEPT ![Table(k)][Name[k]] = seen[k].uid],
           <<"index", Table(k), Name[k]>>)
    /\ Give(Table(k), [at |-> "index", key |-> k, version |-> seen[k]])
    /\ UNCHANGED <<seen, seenEvents, docs, eventDocs, eventsOf, crashes>>

\* The document of the version in the cache.
SaveDoc(k) ==
    /\ Start(Table(k), k) /\ seen[k] # None
    /\ Put(docs, docs', [docs EXCEPT ![Table(k)][seen[k].uid] = seen[k].rev],
           <<"doc", Table(k), seen[k].uid>>)
    /\ Give(Table(k), [at |-> "index", key |-> k, version |-> seen[k]])
    /\ UNCHANGED <<seen, seenEvents, index, eventDocs, eventsOf, crashes>>

\* Seeded fault: a name that is there already keeps its UID.
SaveIndexOnce(c) ==
    /\ job[c].at = "index"
    /\ LET n == Name[job[c].key]
       IN  IF index[c][n] # None THEN UNCHANGED <<index, unwritten, failures>>
           ELSE Put(index, index', [index EXCEPT ![c][n] = job[c].version.uid],
                    <<"index", c, n>>)
    /\ Give(c, Idle)
    /\ UNCHANGED <<cacheVars, docs, eventDocs, eventsOf, crashes>>

\* The UID under the name, which is without the namespace.
SaveIndex(c) ==
    /\ job[c].at = "index"
    /\ LET n == Name[job[c].key]
       IN  Put(index, index', [index EXCEPT ![c][n] = job[c].version.uid],
               <<"index", c, n>>)
    /\ Give(c, Idle)
    /\ UNCHANGED <<cacheVars, docs, eventDocs, eventsOf, crashes>>

GoneEvent(e) ==
    /\ Start("event", e) /\ seenEvents[e] = None
    /\ UNCHANGED <<seen, seenEvents, storeVars, job, bounds>>

\* Seeded fault: what is about neither a pod nor a node is indexed too.
SaveEventOfAny(e) ==
    /\ Start("event", e) /\ seenEvents[e] # None
    /\ Put(eventDocs, eventDocs', eventDocs \cup {e}, <<"event", e>>)
    /\ Give("event", [at |-> "read", event |-> e, subject |-> seenEvents[e]])
    /\ UNCHANGED <<seen, seenEvents, docs, index, eventsOf, crashes>>

\* The document of the event; the index follows if it is about a pod or a node.
SaveEvent(e) ==
    /\ Start("event", e) /\ seenEvents[e] # None
    /\ Put(eventDocs, eventDocs', eventDocs \cup {e}, <<"event", e>>)
    /\ IF seenEvents[e] = NoSubject THEN Give("event", Idle)
       ELSE Give("event", [at |-> "read", event |-> e, subject |-> seenEvents[e]])
    /\ UNCHANGED <<seen, seenEvents, docs, index, eventsOf, crashes>>

\* An error leaves the set empty, as if the subject had no events.
ReadEvents ==
    /\ job["event"].at = "read"
    /\ \E a \in Answers(eventsOf[job["event"].subject]) :
          /\ Give("event", [at |-> "write", event |-> job["event"].event,
                            subject |-> job["event"].subject,
                            set |-> a.value, blind |-> a.blind])
          /\ failures' = failures + a.cost
    /\ UNCHANGED <<cacheVars, storeVars, crashes>>

\* Seeded fault: the set that was read is not extended but replaced.
WriteEventsAlone ==
    /\ job["event"].at = "write"
    /\ LET s == job["event"].subject
       IN  Put(eventsOf, eventsOf', [eventsOf EXCEPT ![s] = {job["event"].event}],
               <<"events", s>>)
    /\ Give("event", Idle)
    /\ UNCHANGED <<cacheVars, docs, index, eventDocs, crashes>>

WriteEvents ==
    /\ job["event"].at = "write"
    /\ LET s == job["event"].subject
       IN  Put(eventsOf, eventsOf',
               [eventsOf EXCEPT ![s] = job["event"].set \cup {job["event"].event}],
               <<"events", s>>)
    /\ Give("event", Idle)
    /\ UNCHANGED <<cacheVars, docs, index, eventDocs, crashes>>

Reconcilers ==
    /\ \/ \E k \in Objects : Gone(k) \/ SaveDoc(k)
       \/ \E c \in Tables : SaveIndex(c)
       \/ \E e \in Events : GoneEvent(e) \/ SaveEvent(e)
       \/ ReadEvents \/ WriteEvents
    /\ UNCHANGED clusterVars

\* The process ends and starts again: it lists what exists, and the store is still there.
Crash ==
    /\ crashes < MaxCrashes /\ crashes' = crashes + 1
    /\ seen' = real /\ seenEvents' = realEvents
    /\ queue' = {k \in Objects : real[k] # None} \cup {e \in Events : realEvents[e] # None}
    /\ job' = [c \in Controllers |-> Idle]
    /\ UNCHANGED <<clusterVars, storeVars, failures>>

Next == Cluster \/ Caches \/ Reconcilers \/ Crash

Spec == Init /\ [][Next]_vars
-----------------------------------------------------------------------------
(* The pages.  A page reads the store once per step of its way.  Documents *)
(* are never removed, so that what it finds behind a UID that it has read  *)
(* before is what it would have found at that moment, or newer.            *)

\* /podyaml and /nodeyaml: the document of a name, None when there is none.
Page(t, n) == IF index[t][n] = None THEN None ELSE docs[t][index[t][n]]

\* The events behind a subject that a page can show.
Shown(s) == eventsOf[s] \cap eventDocs

\* /debugpod by the name of a pod: without an entry the page is empty; without a document
\* the handler fails, because nothing is no JSON; a node without a document is an empty one.
DebugPod(k) ==
    IF index["pod"][Name[k]] = None THEN [kind |-> "empty"]
    ELSE IF Page("pod", Name[k]) = None THEN [kind |-> "error"]
    ELSE [kind |-> "page", uid |-> index["pod"][Name[k]],
          events |-> Shown(<<"pod", index["pod"][Name[k]]>>),
          node |-> Page("node", NodeOf[k]),
          nodeEvents |-> IF Page("node", NodeOf[k]) = None THEN {}
                         ELSE Shown(<<"node", NodeOf[k]>>)]
-----------------------------------------------------------------------------
(* Properties                                                              *)

Jobs == {Idle} \cup [at : {"index"}, key : Objects, version : Version]
EventJobs ==
    {Idle} \cup [at : {"read"}, event : Events, subject : Subjects]
    \cup [at : {"write"}, event : Events, subject : Subjects, set : SUBSET Events,
          blind : BOOLEAN]

\* Every variable holds a value of its kind, and a worker of pods has a pod in hand.
TypeOK ==
    /\ real \in [Objects -> Version \cup {None}] /\ seen \in [Objects -> Version \cup {None}]
    /\ realEvents \in [Events -> Subjects \cup {NoSubject, None}]
    /\ seenEvents \in [Events -> Subjects \cup {NoSubject, None}]
    /\ queue \subseteq Objects \cup Events /\ lastUid \in 0 .. MaxUid
    /\ docs \in [Tables -> [UIDs -> 1 .. MaxActs \cup {None}]]
    /\ index \in [Tables -> [Names -> UIDs \cup {None}]]
    /\ eventDocs \subseteq Events /\ eventsOf \in [Subjects -> SUBSET Events]
    /\ job \in [Controllers -> Jobs \cup EventJobs] /\ job["event"] \in EventJobs
    /\ \A c \in Tables : job[c] \in Jobs /\ (job[c] # Idle => Table(job[c].key) = c)
    /\ \A k \in Objects : real[k] # None => real[k].rev <= acts
    /\ acts \in 0 .. MaxActs /\ failures \in 0 .. MaxFailures /\ crashes \in 0 .. MaxCrashes

\* Behind a name there is a document, and behind the event of a subject too, unless the
\* document could not be written.
NamesLeadToDocuments ==
    /\ \A t \in Tables, n \in Names :
          index[t][n] # None =>
              Page(t, n) # None \/ <<"doc", t, index[t][n]>> \in unwritten
    /\ \A s \in Subjects :
          \A e \in eventsOf[s] : e \in eventDocs \/ <<"event", e>> \in unwritten

\* Whoever asks for a pod by name gets it whole, whatever the reconcilers are doing and
\* wherever a crash has stopped them: the handler fails, leaves the node empty or misses an
\* event that the store has for the pod or the node only if a write failed.
PagesAreWhole ==
    \A k \in Pods :
       LET p == DebugPod(k)
           n == NodeOf[k]
           Missed(s, shown) == {e \in eventsOf[s] \ shown : <<"event", e>> \notin unwritten}
       IN  /\ p.kind = "error" => <<"doc", "pod", index["pod"][Name[k]]>> \in unwritten
           /\ p.kind = "page" =>
                 /\ Missed(<<"pod", p.uid>>, p.events) = {}
                 /\ p.node = None /\ index["node"][n] # None =>
                       <<"doc", "node", index["node"][n]>> \in unwritten
                 /\ p.node # None => Missed(<<"node", n>>, p.nodeEvents) = {}

\* Events of a subject are added to those it has, and none of them is forgotten, unless
\* they could not be read.
EventsAreKept ==
    [][\A s \in Subjects :
          \/ eventsOf[s] \subseteq eventsOf'[s]
          \/ job["event"].at = "write" /\ job["event"].blind]_vars

Rest ==
    /\ queue = {} /\ seen = real /\ seenEvents = realEvents
    /\ \A c \in Controllers : job[c] = Idle

Stored(t, k) ==
    /\ docs[t][real[k].uid] = real[k].rev \/ <<"doc", t, real[k].uid>> \in unwritten
    /\ \/ index[t][Name[k]] = real[k].uid
       \/ <<"index", t, Name[k]>> \in unwritten
       \/ \E o \in Objects \ {k} : Table(o) = t /\ Name[o] = Name[k]

\* When the reconcilers have nothing to do, every pod and node is in the store with its
\* last version, under its name too unless one of another namespace has that name; what
\* could not be written is not written again.
RestIsStored == Rest => \A k \in Objects : real[k] # None => Stored(Table(k), k)
=============================================================================
