-------------------------- MODULE ResourceTracker --------------------------
(***************************************************************************)
(* The tracker that follows every selected object through the state        *)
(* machine of one ResourceStateTransition: the resourceReconciler          *)
(* (controllers/slo/resource_reconciler.go) and its ResourceStates         *)
(* (controllers/slo/resource_state.go).                                    *)
(*                                                                         *)
(* The goroutines are the informer's handlers, the workers of the queue,   *)
(* one sweeper, and for each ResourceState a dispatcher and a timer.  A    *)
(* step is what one of them does between two accesses to state another one *)
(* can change.  Each goroutine stops for good when the process panics.     *)
(*                                                                         *)
(* A queue item is {operation, pointer}, never equal to another one, so    *)
(* the workqueue neither merges items nor keeps two items of one object    *)
(* from being processed at the same time.                                  *)
(***************************************************************************)
EXTENDS TransitionTable, ChangeEvents, Integers, FiniteSets, FiniteSetsExt,
        Functions

CONSTANTS
    Workers,       \* the goroutines running runWorker (workerNumber of them)
    UIDs,          \* the objects that ever exist
    NameOf,        \* the namespaced name of each; a name can be used again
    NoName,
    Handler,       \* stands for the informer's handler in `panic`
    TimerEvent,    \* spec.timer.eventName
    HasTimer,      \* spec.timer # nil
    PatchMayFail,  \* whether CreateTwoWayMergePatch can return an error
    MayStop,       \* whether the controller ever stops this tracker
    ChanCap,       \* capacity of ResourceState.incoming
    MaxRev,        \* bound: versions the informer delivers between two restarts
    MaxStates      \* bound: ResourceStates created between two restarts

Names == {NameOf[u] : u \in UIDs}
Instances == 1 .. MaxStates
Versions == [rev : 1 .. MaxRev, body : Objects]
NoEvent == [op |-> "none"]
QueueItems == [op : {"ADD", "Update", "DELETE"}, uid : UIDs,
               version : Versions \cup {NoObject}]

ASSUME TrackerAssumption ==
    /\ UIDs # {} /\ NameOf \in [UIDs -> STRING]
    /\ NoName \notin Names /\ Handler \notin Names /\ Handler # NoName
    /\ TimerEvent \in STRING
    /\ {HasTimer, PatchMayFail, MayStop} \subseteq BOOLEAN
    /\ ChanCap \in Nat \ {0} /\ MaxRev \in Nat \ {0} /\ MaxStates \in Nat \ {0}
    /\ NoObject \notin Versions /\ NoEvent \notin QueueItems

VARIABLES
    \* the informer's view of the cluster, and the workqueue
    live,          \* the objects in the informer's store
    latest,        \* the last version delivered of each object
    kindKnown,     \* is the selected kind in client-go's scheme?
    queue,         \* the active items, oldest first
    delayed,       \* the items that wait for a rate-limited retry
    closed,        \* stopCh of the reconciler is closed
    \* the workers
    pc, taken,     \* where each is in Reconcile, and with which item
    target,        \* the ResourceState it is to send to
    older,         \* the older namesakes it has still to stop
    \* the store and the ResourceStates, numbered as they are created
    resourceMap,   \* UID -> ResourceState, 0 if none
    owner,         \* the UID each ResourceState was created for, in order
    resource,      \* ResourceState.Resource
    incoming,      \* ResourceState.incoming
    pending,       \* the parsed events StartDispatching has still to fire
    running,       \* StartDispatching runs
    timer,         \* StartTimer: "off", "armed" or "done"
    stopped,       \* Stopped is set and stopCh closed
    closer,        \* which goroutine is between these two tests in enter_state
    \* the state machines and their metrics
    fsm, gauge, entered,
    sweepList,     \* what the sweeper has still to visit of its List()
    \* crash
    panic,         \* the name whose handling crashed the process, Handler, or NoName
    \* history, read by properties only
    told,          \* the objects the handlers have heard of and not heard to be gone
    returned,      \* those whose ADD came before the tracker was done with their
                   \* earlier life
    disturbed      \* names of which two workers had an event at once, or whose
                   \* DELETE found the ResourceState of another object

clusterVars == <<live, latest, told, returned, kindKnown, closed>>
queueVars   == <<queue, delayed>>
workerVars  == <<pc, taken, target, older>>
dispatchVars == <<resource, incoming, pending, running>>
machineVars == <<fsm, gauge, entered, closer>>
vars == <<clusterVars, queueVars, workerVars, resourceMap, owner, dispatchVars,
          timer, stopped, machineVars, sweepList, panic, disturbed>>

Born == 1 .. Len(owner)
Name(i) == NameOf[owner[i]]
Mapped == {resourceMap[u] : u \in UIDs} \ {0}
Up == panic = NoName
-----------------------------------------------------------------------------
Init ==
    /\ live = {} /\ latest = [u \in UIDs |-> NoObject] /\ closed = FALSE
    /\ queue = <<>> /\ delayed = {}
    /\ pc = [w \in Workers |-> "idle"] /\ taken = [w \in Workers |-> NoEvent]
    /\ target = [w \in Workers |-> 0] /\ older = [w \in Workers |-> {}]
    /\ resourceMap = [u \in UIDs |-> 0] /\ owner = <<>>
    /\ resource = [i \in Instances |-> NoObject]
    /\ incoming = [i \in Instances |-> <<>>]
    /\ pending = [i \in Instances |-> {}]
    /\ running = [i \in Instances |-> FALSE]
    /\ timer = [i \in Instances |-> "off"]
    /\ stopped = [i \in Instances |-> FALSE]
    /\ closer = [i \in Instances |-> "none"]
    /\ fsm = [i \in Instances |-> BeginState]
    /\ gauge = [s \in States |-> 0] /\ entered = [s \in States |-> 0]
    /\ sweepList = {}
    /\ kindKnown \in BOOLEAN /\ panic = NoName
    /\ told = {} /\ returned = {} /\ disturbed = {}

\* An unrecovered panic ends the process and every goroutine in it; the restarted
\* one lists the cluster anew.  Versions count from there.
Crash(n) ==
    /\ live' = {} /\ latest' = [u \in UIDs |-> NoObject] /\ closed' = FALSE
    /\ queue' = <<>> /\ delayed' = {}
    /\ pc' = [w \in Workers |-> "idle"] /\ taken' = [w \in Workers |-> NoEvent]
    /\ target' = [w \in Workers |-> 0] /\ older' = [w \in Workers |-> {}]
    /\ resourceMap' = [u \in UIDs |-> 0] /\ owner' = <<>>
    /\ resource' = [i \in Instances |-> NoObject]
    /\ incoming' = [i \in Instances |-> <<>>]
    /\ pending' = [i \in Instances |-> {}]
    /\ running' = [i \in Instances |-> FALSE]
    /\ timer' = [i \in Instances |-> "off"]
    /\ stopped' = [i \in Instances |-> FALSE]
    /\ closer' = [i \in Instances |-> "none"]
    /\ fsm' = [i \in Instances |-> BeginState]
    /\ gauge' = [s \in States |-> 0] /\ entered' = [s \in States |-> 0]
    /\ sweepList' = {} /\ told' = {} /\ returned' = {}
    /\ panic' = n /\ UNCHANGED <<kindKnown, disturbed>>

Restart ==
    /\ ~Up /\ panic' = NoName /\ disturbed' = {}
    /\ UNCHANGED <<clusterVars, queueVars, workerVars, resourceMap, owner,
                   dispatchVars, timer, stopped, machineVars, sweepList>>
-----------------------------------------------------------------------------
(* The informer's handlers, called one at a time.                          *)

\* The resourceVersion of the next change anywhere in the cluster.
NextRev == 1 + Max({0} \cup {latest[u].rev : u \in {v \in UIDs : latest[v] # NoObject}})
NextVersion(b) == [rev |-> NextRev, body |-> b]

Enqueue(o, u, v) ==
    /\ Up /\ ~closed
    /\ queue' = Append(queue, [op |-> o, uid |-> u, version |-> v])
    /\ UNCHANGED <<kindKnown, closed, delayed, workerVars, resourceMap, owner,
                   dispatchVars, timer, stopped, machineVars, sweepList, panic>>

\* Another object has the name since: u is gone for good.
Succeeded(u) ==
    \E v \in UIDs : /\ NameOf[v] = NameOf[u] /\ latest[v] # NoObject
                     /\ latest[u] # NoObject /\ latest[v].rev > latest[u].rev

\* u has a ResourceState in the map, or an item of it is under way.
InHand(u) ==
    \/ resourceMap[u] # 0
    \/ \E k \in DOMAIN queue : queue[k].uid = u
    \/ \E e \in delayed : e.uid = u
    \/ \E w \in Workers : pc[w] # "idle" /\ taken[w].uid = u

\* The handlers hear of u for the first time, or again.
Appears(u, b) ==
    /\ ~Succeeded(u) /\ NextRev <= MaxRev
    /\ latest' = [latest EXCEPT ![u] = NextVersion(b)]
    /\ told' = told \cup {u}
    /\ returned' = IF InHand(u) THEN returned \cup {u} ELSE returned \ {u}
    /\ UNCHANGED disturbed

\* A new object, or one whose labels match the selector again.
InformerAdd(u, b) ==
    /\ \A v \in live : NameOf[v] # NameOf[u]
    /\ live' = live \cup {u}
    /\ Appears(u, b)
    /\ Enqueue("ADD", u, NextVersion(b))

InformerUpdate(u, b) ==
    /\ u \in live /\ NextRev <= MaxRev
    /\ latest' = [latest EXCEPT ![u] = NextVersion(b)]
    /\ Enqueue("Update", u, NextVersion(b))
    /\ UNCHANGED <<live, told, returned, disturbed>>

\* An object that was deleted, or whose labels match the selector no longer.
InformerDelete(u) ==
    /\ u \in live
    /\ live' = live \ {u} /\ told' = told \ {u}
    /\ Enqueue("DELETE", u, latest[u])
    /\ UNCHANGED <<latest, returned, disturbed>>

\* After a broken watch the list shows another object under the same name: the
\* store sees one object that changed, and nobody hears that u is gone.
InformerReplace(u, v, b) ==
    /\ u \in live /\ v \notin live /\ NameOf[u] = NameOf[v]
    /\ live' = (live \ {u}) \cup {v}
    /\ Appears(v, b)
    /\ Enqueue("Update", v, NextVersion(b))

\* After a broken watch the list lacks u: the handler gets a
\* DeletedFinalStateUnknown, which fails the type assertion of Enqueue.
InformerTombstone(u) ==
    /\ Up /\ ~closed /\ u \in live
    /\ Crash(Handler)

\* Stop: the informer and the sweeper end, the queue shuts down.  Nothing tells
\* the ResourceStates.
Stop ==
    /\ Up /\ MayStop /\ ~closed
    /\ closed' = TRUE
    /\ UNCHANGED <<live, latest, told, returned, kindKnown, queueVars, workerVars,
                   resourceMap, owner, dispatchVars, timer, stopped, machineVars,
                   sweepList, panic, disturbed>>
-----------------------------------------------------------------------------
(* The workers: processNextWorkItem and Reconcile.                         *)

Subject(w) == NameOf[taken[w].uid]

\* Reconcile returned: the item is forgotten and the worker asks for another.
Finish(w) ==
    /\ pc' = [pc EXCEPT ![w] = "idle"]
    /\ taken' = [taken EXCEPT ![w] = NoEvent]
    /\ target' = [target EXCEPT ![w] = 0]
    /\ older' = [older EXCEPT ![w] = {}]

Goto(w, label) == pc' = [pc EXCEPT ![w] = label]

\* The end of the loop over the older namesakes, or another turn of it.
NextOlder(w, rest) ==
    IF rest = {} THEN Finish(w)
    ELSE /\ Goto(w, "stop") /\ older' = [older EXCEPT ![w] = rest]
         /\ UNCHANGED <<taken, target>>

\* Seeded fault: the queue hands out the newest item.
TakeNewest(w) ==
    /\ Up /\ pc[w] = "idle" /\ queue # <<>>
    /\ taken' = [taken EXCEPT ![w] = queue[Len(queue)]]
    /\ queue' = SubSeq(queue, 1, Len(queue) - 1)
    /\ Goto(w, IF queue[Len(queue)].op = "DELETE" THEN "index" ELSE "lookup")
    /\ disturbed' = disturbed \cup
          {n \in {NameOf[queue[Len(queue)].uid]} :
              \E x \in Workers : pc[x] # "idle" /\ Subject(x) = n}
    /\ UNCHANGED <<clusterVars, delayed, target, older, resourceMap, owner,
                   dispatchVars, timer, stopped, machineVars, sweepList, panic>>

Take(w) ==
    /\ Up /\ pc[w] = "idle" /\ queue # <<>>
    /\ taken' = [taken EXCEPT ![w] = Head(queue)]
    /\ queue' = Tail(queue)
    /\ Goto(w, IF Head(queue).op = "DELETE" THEN "index" ELSE "lookup")
    /\ disturbed' = disturbed \cup
          {n \in {NameOf[Head(queue).uid]} :
              \E x \in Workers : pc[x] # "idle" /\ Subject(x) = n}
    /\ UNCHANGED <<clusterVars, delayed, target, older, resourceMap, owner,
                   dispatchVars, timer, stopped, machineVars, sweepList, panic>>

\* DELETE finds every ResourceState of the name, the latest created first.
ByIndex(w) ==
    LET found == {i \in Mapped : Name(i) = Subject(w)}
    IN  /\ Up /\ pc[w] = "index"
        /\ IF found = {} THEN Finish(w)
           ELSE /\ target' = [target EXCEPT ![w] = Max(found)]
                /\ older' = [older EXCEPT ![w] = found \ {Max(found)}]
                /\ Goto(w, "check") /\ UNCHANGED taken
        /\ disturbed' = disturbed \cup
              {n \in {Subject(w)} : \E i \in found : owner[i] # taken[w].uid}
        /\ UNCHANGED <<clusterVars, queueVars, resourceMap, owner, dispatchVars,
                       timer, stopped, machineVars, sweepList, panic>>

\* ADD and Update find the ResourceState of the UID, or make one: in BeginState,
\* with an empty channel, not yet in the map.
LookupHit(w) ==
    /\ Up /\ pc[w] = "lookup" /\ resourceMap[taken[w].uid] # 0
    /\ target' = [target EXCEPT ![w] = resourceMap[taken[w].uid]]
    /\ Goto(w, "check")
    /\ UNCHANGED <<clusterVars, queueVars, taken, older, resourceMap, owner,
                   dispatchVars, timer, stopped, machineVars, sweepList, panic,
                   disturbed>>

\* Seeded fault: the new ResourceState is numbered from 0.
LookupMissOffByOne(w) ==
    /\ Up /\ pc[w] = "lookup" /\ resourceMap[taken[w].uid] = 0
    /\ kindKnown /\ Len(owner) < MaxStates
    /\ owner' = Append(owner, taken[w].uid)
    /\ target' = [target EXCEPT ![w] = Len(owner)]
    /\ Goto(w, "add")
    /\ UNCHANGED <<clusterVars, queueVars, taken, older, resourceMap,
                   dispatchVars, timer, stopped, machineVars, sweepList, panic,
                   disturbed>>

LookupMiss(w) ==
    /\ Up /\ pc[w] = "lookup" /\ resourceMap[taken[w].uid] = 0
    /\ kindKnown /\ Len(owner) < MaxStates
    /\ owner' = Append(owner, taken[w].uid)
    /\ target' = [target EXCEPT ![w] = Len(owner) + 1]
    /\ Goto(w, "add")
    /\ UNCHANGED <<clusterVars, queueVars, taken, older, resourceMap,
                   dispatchVars, timer, stopped, machineVars, sweepList, panic,
                   disturbed>>

\* NewResourceState fails for a kind client-go's scheme does not have: the item
\* comes back after a while, unless the queue has shut down.
LookupFails(w) ==
    /\ Up /\ pc[w] = "lookup" /\ resourceMap[taken[w].uid] = 0 /\ ~kindKnown
    /\ delayed' = IF closed THEN delayed ELSE delayed \cup {taken[w]}
    /\ Finish(w)
    /\ UNCHANGED <<clusterVars, queue, resourceMap, owner, dispatchVars, timer,
                   stopped, machineVars, sweepList, panic, disturbed>>

RetryDue(e) ==
    /\ Up /\ e \in delayed
    /\ delayed' = delayed \ {e}
    /\ queue' = IF closed THEN queue ELSE Append(queue, e)
    /\ UNCHANGED <<clusterVars, workerVars, resourceMap, owner, dispatchVars,
                   timer, stopped, machineVars, sweepList, panic, disturbed>>

\* Seeded fault: the dispatcher is not started.
AddStateOnly(w) ==
    LET i == target[w]
    IN  /\ Up /\ pc[w] = "add"
        /\ resourceMap' = [resourceMap EXCEPT ![owner[i]] = i]
        /\ timer' = [timer EXCEPT ![i] = IF HasTimer THEN "armed" ELSE "off"]
        /\ Goto(w, "check")
        /\ UNCHANGED <<clusterVars, queueVars, taken, target, older, owner,
                       dispatchVars, stopped, machineVars, sweepList, panic,
                       disturbed>>

\* resourceMap.Add and the two go statements.
AddState(w) ==
    LET i == target[w]
    IN  /\ Up /\ pc[w] = "add"
        /\ resourceMap' = [resourceMap EXCEPT ![owner[i]] = i]
        /\ running' = [running EXCEPT ![i] = TRUE]
        /\ timer' = [timer EXCEPT ![i] = IF HasTimer THEN "armed" ELSE "off"]
        /\ Goto(w, "check")
        /\ UNCHANGED <<clusterVars, queueVars, taken, target, older, owner,
                       resource, incoming, pending, stopped, machineVars,
                       sweepList, panic, disturbed>>

\* EnqueueEvent, up to its early return.
Check(w) ==
    /\ Up /\ pc[w] = "check"
    /\ IF stopped[target[w]]
       THEN NextOlder(w, older[w])
       ELSE Goto(w, "send") /\ UNCHANGED <<taken, target, older>>
    /\ UNCHANGED <<clusterVars, queueVars, resourceMap, owner, dispatchVars, timer,
                   stopped, machineVars, sweepList, panic, disturbed>>

\* The send on incoming; DELETE sends nil.  It blocks while the channel is full.
Send(w) ==
    LET i == target[w]
        e == taken[w]
    IN  /\ Up /\ pc[w] = "send" /\ Len(incoming[i]) < ChanCap
        /\ incoming' = [incoming EXCEPT ![i] =
                           Append(@, IF e.op = "DELETE" THEN NoObject ELSE e.version)]
        /\ NextOlder(w, older[w])
        /\ UNCHANGED <<clusterVars, queueVars, resourceMap, owner, resource,
                       pending, running, timer, stopped, machineVars, sweepList,
                       panic, disturbed>>

\* StopDispatching of an older namesake reads Stopped ...
StopOlder(w) ==
    /\ Up /\ pc[w] = "stop"
    /\ Goto(w, IF stopped[Max(older[w])] THEN "unmap" ELSE "close")
    /\ UNCHANGED <<clusterVars, queueVars, taken, target, older, resourceMap,
                   owner, dispatchVars, timer, stopped, machineVars, sweepList,
                   panic, disturbed>>

\* ... then sets it and closes stopCh, which panics when it was closed meanwhile.
CloseOlder(w) ==
    LET i == Max(older[w])
    IN  /\ Up /\ pc[w] = "close"
        /\ IF stopped[i] THEN Crash(Name(i))
           ELSE /\ stopped' = [stopped EXCEPT ![i] = TRUE]
                /\ Goto(w, "unmap")
                /\ UNCHANGED <<clusterVars, queueVars, taken, target, older,
                               resourceMap, owner, dispatchVars, timer,
                               machineVars, sweepList, panic, disturbed>>

\* resourceMap.Delete of the UID found in Resource: a nil Resource panics.
UnmapOlder(w) ==
    LET i == Max(older[w])
    IN  /\ Up /\ pc[w] = "unmap"
        /\ IF resource[i] = NoObject THEN Crash(Name(i))
           ELSE /\ resourceMap' = [resourceMap EXCEPT ![owner[i]] = 0]
                /\ NextOlder(w, older[w] \ {i})
                /\ UNCHANGED <<clusterVars, queueVars, owner, dispatchVars, timer,
                               stopped, machineVars, sweepList, panic, disturbed>>
-----------------------------------------------------------------------------
(* The state machine of a ResourceState.  fsm.Event holds eventMu until the *)
(* enter_state callback returned: nobody fires while a closer is at work.   *)

\* Event 0 of a ResourceState is the default DeletedEvent, the others are the
\* rules of spec.events.
EventName(k) == IF k = 0 THEN DeletedEvent ELSE Rules[k].name

\* Seeded faults: the callback does not stop a deleted machine; it counts the state
\* entered and not the state left.
EnterStateNeverStops(i, dst, who) ==
    /\ fsm' = [fsm EXCEPT ![i] = dst]
    /\ entered' = [entered EXCEPT ![dst] = IF Silent(dst) THEN @ ELSE @ + 1]
    /\ gauge' = [gauge EXCEPT ![dst] = @ + 1, ![fsm[i]] = @ - 1]
    /\ UNCHANGED closer

EnterStateOnlyInc(i, dst, who) ==
    /\ fsm' = [fsm EXCEPT ![i] = dst]
    /\ entered' = [entered EXCEPT ![dst] = IF Silent(dst) THEN @ ELSE @ + 1]
    /\ gauge' = [gauge EXCEPT ![dst] = @ + 1]
    /\ closer' = [closer EXCEPT ![i] =
                     IF dst = DeletedState /\ ~stopped[i] THEN who ELSE @]

\* The callback counts, and finds the machine deleted and not yet stopped.
EnterState(i, dst, who) ==
    /\ fsm' = [fsm EXCEPT ![i] = dst]
    /\ entered' = [entered EXCEPT ![dst] = IF Silent(dst) THEN @ ELSE @ + 1]
    /\ gauge' = [gauge EXCEPT ![dst] = @ + 1, ![fsm[i]] = @ - 1]
    /\ closer' = [closer EXCEPT ![i] =
                     IF dst = DeletedState /\ ~stopped[i] THEN who ELSE @]

Fire(i, ev, who) ==
    /\ closer[i] = "none"
    /\ \/ Moves(ev, fsm[i]) = {} /\ UNCHANGED machineVars
       \/ \E dst \in Moves(ev, fsm[i]) : EnterState(i, dst, who)

\* The rest of the callback: set Stopped and close stopCh.
CloseSelf(i, who) ==
    /\ Up /\ closer[i] = who
    /\ IF stopped[i] THEN Crash(Name(i))
       ELSE /\ stopped' = [stopped EXCEPT ![i] = TRUE]
            /\ closer' = [closer EXCEPT ![i] = "none"]
            /\ UNCHANGED <<clusterVars, queueVars, workerVars, resourceMap, owner,
                           dispatchVars, timer, fsm, gauge, entered, sweepList,
                           panic, disturbed>>
-----------------------------------------------------------------------------
(* StartDispatching: a select between incoming and stopCh, and the events. *)

BodyOf(v) == IF v = NoObject THEN NoObject ELSE v.body

\* Seeded fault: a nil resource yields no event.
ParsedEventsNilIgnored(old, new) ==
    IF new = NoObject THEN {{}}
    ELSE {MatchedRules(BodyOf(old), BodyOf(new))}
            \cup (IF PatchMayFail THEN {{}} ELSE {})

\* parseEvents; an error gives no events and is ignored.
ParsedEvents(old, new) ==
    IF new = NoObject THEN {{0}}
    ELSE {MatchedRules(BodyOf(old), BodyOf(new))}
            \cup (IF PatchMayFail THEN {{}} ELSE {})

Dispatching(i) == running[i] /\ pending[i] = {} /\ closer[i] # "dispatcher"

\* Seeded fault: the version received does not become the resource.
ReceiveKeepsResource(i) ==
    /\ Up /\ Dispatching(i) /\ incoming[i] # <<>>
    /\ incoming' = [incoming EXCEPT ![i] = Tail(@)]
    /\ \E evs \in ParsedEvents(resource[i], Head(incoming[i])) :
          pending' = [pending EXCEPT ![i] = evs]
    /\ UNCHANGED <<clusterVars, queueVars, workerVars, resourceMap, owner,
                   resource, running, timer, stopped, machineVars, sweepList,
                   panic, disturbed>>

Receive(i) ==
    LET new == Head(incoming[i])
    IN  /\ Up /\ Dispatching(i) /\ incoming[i] # <<>>
        /\ incoming' = [incoming EXCEPT ![i] = Tail(@)]
        /\ \E evs \in ParsedEvents(resource[i], new) :
              pending' = [pending EXCEPT ![i] = evs]
        /\ resource' = [resource EXCEPT ![i] = IF new = NoObject THEN @ ELSE new]
        /\ UNCHANGED <<clusterVars, queueVars, workerVars, resourceMap, owner,
                       running, timer, stopped, machineVars, sweepList, panic,
                       disturbed>>

FireNext(i) ==
    /\ Up /\ pending[i] # {}
    /\ Fire(i, EventName(Min(pending[i])), "dispatcher")
    /\ pending' = [pending EXCEPT ![i] = @ \ {Min(@)}]
    /\ UNCHANGED <<clusterVars, queueVars, workerVars, resourceMap, owner,
                   resource, incoming, running, timer, stopped, sweepList, panic,
                   disturbed>>

ExitDispatcher(i) ==
    /\ Up /\ Dispatching(i) /\ stopped[i]
    /\ running' = [running EXCEPT ![i] = FALSE]
    /\ UNCHANGED <<clusterVars, queueVars, workerVars, resourceMap, owner,
                   resource, incoming, pending, timer, stopped, machineVars,
                   sweepList, panic, disturbed>>

(* StartTimer: one event, or none when stopCh closes first.                *)

TimerDone(i) ==
    /\ Up /\ timer[i] = "armed" /\ timer' = [timer EXCEPT ![i] = "done"]
    /\ UNCHANGED <<clusterVars, queueVars, workerVars, resourceMap, owner,
                   dispatchVars, stopped, sweepList, panic, disturbed>>

TimerFires(i) == TimerDone(i) /\ Fire(i, TimerEvent, "timer")

TimerStops(i) == TimerDone(i) /\ stopped[i] /\ UNCHANGED machineVars
-----------------------------------------------------------------------------
(* The sweeper: List(), then for each one Stopped the map entry goes.      *)

SweepTick ==
    /\ Up /\ ~closed /\ sweepList = {}
    /\ sweepList' = Mapped
    /\ UNCHANGED <<clusterVars, queueVars, workerVars, resourceMap, owner,
                   dispatchVars, timer, stopped, machineVars, panic, disturbed>>

\* Seeded fault: the sweeper does not look at Stopped.
SweepVisitUnconditional(i) ==
    /\ Up /\ i \in sweepList
    /\ IF resource[i] = NoObject THEN Crash(Name(i))
       ELSE /\ resourceMap' = [resourceMap EXCEPT ![owner[i]] = 0]
            /\ sweepList' = sweepList \ {i}
            /\ UNCHANGED <<clusterVars, queueVars, workerVars, owner, dispatchVars,
                           timer, stopped, machineVars, panic, disturbed>>

SweepVisit(i) ==
    /\ Up /\ i \in sweepList
    /\ IF stopped[i] /\ resource[i] = NoObject THEN Crash(Name(i))
       ELSE /\ resourceMap' = IF stopped[i] THEN [resourceMap EXCEPT ![owner[i]] = 0]
                                            ELSE resourceMap
            /\ sweepList' = sweepList \ {i}
            /\ UNCHANGED <<clusterVars, queueVars, workerVars, owner, dispatchVars,
                           timer, stopped, machineVars, panic, disturbed>>
-----------------------------------------------------------------------------
Informer ==
    \/ \E u \in UIDs, b \in Objects : InformerAdd(u, b) \/ InformerUpdate(u, b)
    \/ \E u \in UIDs : InformerDelete(u) \/ InformerTombstone(u)
    \/ \E u, v \in UIDs, b \in Objects : InformerReplace(u, v, b)

WorkerStep(w) ==
    \/ Take(w) \/ ByIndex(w) \/ LookupHit(w) \/ LookupMiss(w) \/ LookupFails(w)
    \/ AddState(w) \/ Check(w) \/ Send(w)
    \/ StopOlder(w) \/ CloseOlder(w) \/ UnmapOlder(w)

DispatcherStep(i) ==
    Receive(i) \/ FireNext(i) \/ CloseSelf(i, "dispatcher") \/ ExitDispatcher(i)

TimerStep(i) == TimerFires(i) \/ CloseSelf(i, "timer") \/ TimerStops(i)

Sweep == SweepTick \/ \E i \in Instances : SweepVisit(i)

Next ==
    \/ Informer \/ Stop \/ Restart \/ Sweep
    \/ \E w \in Workers : WorkerStep(w)
    \/ \E e \in delayed : RetryDue(e)
    \/ \E i \in Instances : DispatcherStep(i) \/ TimerStep(i)

Spec == Init /\ [][Next]_vars

\* Every goroutine that can take a step takes one in the end, and the tickers keep
\* ticking.  Which case of a select it takes is not said, and nothing makes the
\* cluster change or the process restart.
Fairness ==
    /\ \A w \in Workers : WF_vars(WorkerStep(w))
    /\ \A i \in Instances : WF_vars(DispatcherStep(i)) /\ WF_vars(TimerStep(i))
    /\ WF_vars(Sweep)

FairSpec == Spec /\ Fairness
-----------------------------------------------------------------------------
(* Properties                                                              *)

ClusterOK ==
    /\ live \subseteq UIDs /\ told \subseteq UIDs /\ returned \subseteq UIDs
    /\ latest \in [UIDs -> Versions \cup {NoObject}]
    /\ kindKnown \in BOOLEAN /\ closed \in BOOLEAN
    /\ queue \in Seq(QueueItems) /\ delayed \subseteq QueueItems

WorkersOK ==
    /\ pc \in [Workers -> {"idle", "index", "lookup", "add", "check", "send",
                           "stop", "close", "unmap"}]
    /\ taken \in [Workers -> QueueItems \cup {NoEvent}]
    /\ target \in [Workers -> {0} \cup Born]
    /\ older \in [Workers -> SUBSET Born]
    /\ \A w \in Workers :
          /\ pc[w] # "idle" => taken[w] \in QueueItems
          /\ pc[w] \in {"add", "check", "send"} => target[w] \in Born
          /\ pc[w] \in {"stop", "close", "unmap"} => older[w] # {}

StatesOK ==
    /\ owner \in Seq(UIDs) /\ Len(owner) <= MaxStates
    /\ resourceMap \in [UIDs -> {0} \cup Born]
    /\ resource \in [Instances -> Versions \cup {NoObject}]
    /\ incoming \in [Instances -> Seq(Versions \cup {NoObject})]
    /\ pending \in [Instances -> SUBSET ({0} \cup DOMAIN Rules)]
    /\ running \in [Instances -> BOOLEAN]
    /\ timer \in [Instances -> {"off", "armed", "done"}]
    /\ sweepList \subseteq Born

MachinesOK ==
    /\ stopped \in [Instances -> BOOLEAN]
    /\ closer \in [Instances -> {"none", "dispatcher", "timer"}]
    /\ fsm \in [Instances -> States]
    /\ gauge \in [States -> Int] /\ entered \in [States -> Nat]

HistoryOK == panic \in Names \cup {NoName, Handler} /\ disturbed \subseteq Names

\* Every variable holds a value of its kind; a worker past its lookup has a target
\* that was created, and one in the loop over older namesakes has one left.
TypeOK == ClusterOK /\ WorkersOK /\ StatesOK /\ MachinesOK /\ HistoryOK

\* A machine in DeletedState is stopped, or its closer is about to stop it: the
\* sweeper, which looks only at Stopped, gets to see every deleted object.
DeletedGetsStopped ==
    \A i \in Instances :
        fsm[i] = DeletedState => stopped[i] \/ closer[i] # "none"

\* Outside the informer's handler, the process crashes while it handles a name only if
\* two workers had events of the name at once, or a DELETE of the name found another
\* object's ResourceState: the second close of stopCh and the nil Resource both need
\* one or the other.  In the handler any DeletedFinalStateUnknown crashes it, whatever
\* went before (InformerTombstone): of that the property says nothing.
PanicsOnlyWhenDisturbed == panic \in Names => panic \in disturbed

\* Nothing is under way for name n: no item, no worker, no dispatcher.
Settled(n) ==
    /\ \A k \in DOMAIN queue : NameOf[queue[k].uid] # n
    /\ \A e \in delayed : NameOf[e.uid] # n
    /\ \A w \in Workers : pc[w] # "idle" => Subject(w) # n
    /\ \A i \in Born : running[i] /\ Name(i) = n =>
          incoming[i] = <<>> /\ pending[i] = {} /\ closer[i] = "none"

\* The machine is in DeletedState, and its goroutines are told to end.
Ended(i) == fsm[i] = DeletedState /\ stopped[i]

\* One ResourceState of the object has not ended: it is in the map, dispatching, and
\* has the object's last version.
TrackedExactly(u) ==
    \E i \in Born :
        /\ resourceMap[u] = i /\ running[i] /\ ~stopped[i] /\ resource[i] = latest[u]
        /\ \A j \in Born : owner[j] = u /\ j # i => Ended(j)

\* The object came back while the tracker was not done with its earlier life, and its
\* ADD went to the ResourceState that ended: nothing tracks it.
Lost(u) == u \in returned /\ \A i \in Born : owner[i] = u => Ended(i)

\* A deleted object's machine has ended.  DeletedEvent has no transition from
\* BeginState: a machine that had not left it stays there, or where its timer takes
\* it, and is never stopped.
Released(i) == Ended(i) \/ fsm[i] \in {BeginState} \cup Moves(TimerEvent, BeginState)

\* As long as no two workers had events of a name at once and no DELETE found another
\* object's ResourceState, the tracker, once it has caught up, agrees with what the
\* informer's handlers were told of every object of the name, but for an object that
\* came back too early: a label change takes it out of the selector and back, and
\* EnqueueEvent drops its ADD at Stopped, or a DeletedEvent still to be fired ends the
\* ResourceState that got it.  Such an object is tracked exactly or not at all.
UndisturbedTracking ==
    \A n \in Names \ disturbed : kindKnown /\ Settled(n) =>
        \A u \in {v \in UIDs : NameOf[v] = n} :
            IF u \in told THEN TrackedExactly(u) \/ Lost(u)
            ELSE \A i \in Born : owner[i] = u => Released(i)

\* The dispatcher never replaces a version by an earlier one, as long as no two
\* workers had events of the name at once and no DELETE found another object's
\* ResourceState, however often the object leaves the selector and comes back.
VersionsAdvance ==
    [][\A i \in Born :
        LET old == resource[i]
            new == resource'[i]
        IN  i \in 1 .. Len(owner') /\ old # NoObject /\ Name(i) \notin disturbed'
               => new.rev >= old.rev]_vars

\* Nothing but a crash takes a machine out of DeletedState: a late timer or a
\* version still in the channel cannot bring a deleted object back.
DeletedIsTerminal ==
    [][\A i \in Instances :
        fsm[i] = DeletedState /\ panic' = NoName => fsm'[i] = DeletedState]_vars

\* The gauges and counters are those of a census of the machines.
Metrics == INSTANCE TransitionMetrics WITH current <- [i \in Born |-> fsm[i]]

MetricsAreACensus == Metrics!Spec

\* README.md:121 says of pod_state_num "number of pods which stays in the given
\* state".  Once every name is settled, the gauges of the states a pod can stay in
\* (all but BeginState and DeletedState) should not sum to more than the pods.
StateNumIsNumberOfPods ==
    (\A n \in Names : Settled(n)) =>
        FoldFunctionOnSet(LAMBDA x, y : x + y, 0, gauge,
                          States \ {BeginState, DeletedState}) <= Cardinality(live)

\* README.md:121 again, for the pods that are there: with events that take every new
\* object out of BeginState, and once every name is settled, each live pod should stay
\* in some state.
LivePodsStayInAState ==
    kindKnown /\ (\A n \in Names : Settled(n)) =>
        FoldFunctionOnSet(LAMBDA x, y : x + y, 0, gauge,
                          States \ {BeginState, DeletedState}) >= Cardinality(live)

\* The map entry of a deleted machine goes in the end, unless the tracker is
\* stopped: the sweeper outlives every race with the workers.
DeletedIsReclaimed ==
    \A i \in Instances, u \in UIDs :
        fsm[i] = DeletedState /\ resourceMap[u] = i
            ~> resourceMap[u] # i \/ closed \/ ~Up

\* A send on a full channel ends, unless the ResourceState was stopped after its
\* Stopped was read.
StuckOnStopped(w) == pc[w] = "send" /\ stopped[target[w]]

SendEnds ==
    \A w \in Workers : pc[w] = "send" ~> pc[w] # "send" \/ StuckOnStopped(w)

\* Every version of an object reaches its machine or is overtaken by a later one,
\* unless the name is disturbed, the object came back too early and is lost, or some
\* worker is stuck.
VersionsArrive ==
    \A u \in UIDs, r \in 1 .. MaxRev :
        u \in live /\ kindKnown /\ latest[u].rev = r
            ~> \/ \E i \in Born : owner[i] = u /\ resource[i] # NoObject
                                                /\ resource[i].rev >= r
               \/ NameOf[u] \in disturbed \/ Lost(u) \/ ~Up
               \/ \E w \in Workers : StuckOnStopped(w)
-----------------------------------------------------------------------------
(* Hypotheses of theorems: the configuration does not use the names that     *)
(* the state machine reserves, which the CRD does not forbid.                *)

\* The timer of a machine that has received nothing does not take it to
\* DeletedState.  Where it may, the sweeper meets a stopped ResourceState whose
\* Resource is nil, and crashes without any race.
TimerDoesNotDelete == DeletedState \notin Moves(TimerEvent, BeginState)

\* The names of the machine's own state and event are used for nothing else.  Where
\* they are, a live object's machine may be stopped, or a deleted one's left behind.
NamesAreReserved ==
    /\ \A t \in DOMAIN Transitions : /\ Transitions[t].target # DeletedState
                                     /\ Transitions[t].event # DeletedEvent
                                     /\ DeletedState \notin Transitions[t].source
    /\ \A k \in DOMAIN Rules : Rules[k].name # DeletedEvent
    /\ TimerEvent # DeletedEvent
=============================================================================
