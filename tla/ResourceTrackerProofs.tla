----------------------- MODULE ResourceTrackerProofs -----------------------
(***************************************************************************)
(* Theorems about ResourceTracker, for every value of its constants: the   *)
(* transition table, the types, deleted machines, the metrics              *)
(* (ResourceTracker implements TransitionMetrics: the gauge that the       *)
(* callbacks count up and down is a census of the machines), crashes, the  *)
(* order of versions, and what is tracked.                                 *)
(*                                                                         *)
(* The last three hold for an undisturbed name (no two workers had events  *)
(* of it at once, no DELETE found another object's ResourceState), and     *)
(* each has an inductive invariant that follows an event through the       *)
(* process. PInv: who works on a name is alone with it, and a              *)
(* ResourceState that was told nothing is about to be told a version, so   *)
(* that it is not stopped. VInv: the versions of an object are in order in *)
(* its ResourceState, its worker and the queue. TInv: an object has at     *)
(* most one ResourceState that goes on, in the map, which has been or will *)
(* be told the last change; the others have ended.                         *)
(***************************************************************************)
EXTENDS ResourceTracker, WellFoundedInduction, FiniteSetTheorems, TLAPS
-----------------------------------------------------------------------------
(* Maxima of bounded sets of naturals.                                     *)

\* A nonempty set of numbers up to n has a maximum.
LEMMA BoundedHasMaximum ==
    ASSUME NEW n \in Nat, NEW S \in SUBSET (0 .. n), S # {}
    PROVE  \E x \in S : \A y \in S : y <= x
<1> DEFINE Bounds == {m \in Nat : \A y \in S : y <= m}
<1>1. n \in Bounds
  OBVIOUS
<1>2. PICK m \in Bounds : \A k \in Bounds : m <= k
  <2>1. PICK m \in Bounds : \A k \in Bounds : ~(<<k, m>> \in OpToRel(<, Nat))
    BY <1>1, NatLessThanWellFounded, WFMin
  <2>2. \A k \in Bounds : ~(k < m)
    BY <2>1 DEF OpToRel
  <2> QED
    BY <2>2, SMT
<1>3. m \in S
  <2>1. SUFFICES ASSUME m \notin S PROVE FALSE
    OBVIOUS
  <2>2. PICK y \in S : TRUE
    OBVIOUS
  <2>3. \A z \in S : z <= m - 1
    BY <2>1
  <2>4. m - 1 \in Bounds
    BY <2>2, <2>3
  <2> QED
    BY <1>2, <2>4
<1> QED
  BY <1>3

\* LatestOf picks a member of a nonempty set of indices, and the largest one.
LEMMA LatestOfIsLargest ==
    ASSUME NEW n \in Nat, NEW S \in SUBSET (0 .. n), S # {}
    PROVE  LatestOf(S) \in S /\ \A t \in S : t <= LatestOf(S)
BY BoundedHasMaximum DEF LatestOf
-----------------------------------------------------------------------------
\* The transitions an event is looked up in are positions of the list.
LEMMA AcceptingIsBounded ==
    ASSUME NEW ev, NEW s
    PROVE  Accepting(ev, s) \in SUBSET (0 .. Len(Transitions))
BY TransitionsAssumption DEF Accepting

\* An event leads to a state of the machine, or nowhere.
LEMMA MovesAreStates ==
    ASSUME NEW ev, NEW s
    PROVE  Moves(ev, s) \subseteq States
<1>1. CASE ev = DeletedEvent /\ s \in AllStates
  BY <1>1 DEF Moves, Destination, States
<1>2. CASE ~(ev = DeletedEvent /\ s \in AllStates) /\ Accepting(ev, s) = {}
  BY <1>2 DEF Moves, Destination
<1>3. CASE ~(ev = DeletedEvent /\ s \in AllStates) /\ Accepting(ev, s) # {}
  <2>1. LatestOf(Accepting(ev, s)) \in Accepting(ev, s)
    <3>1. Len(Transitions) \in Nat
      BY TransitionsAssumption
    <3> QED
      BY <1>3, <3>1, AcceptingIsBounded, LatestOfIsLargest
  <2>2. LatestOf(Accepting(ev, s)) \in DOMAIN Transitions
    BY <2>1 DEF Accepting
  <2>3. Transitions[LatestOf(Accepting(ev, s))].target \in AllStates
    BY <2>2 DEF AllStates
  <2> QED
    BY <1>3, <2>3 DEF Moves, Destination, States
<1> QED
  BY <1>1, <1>2, <1>3

\* When no transition of the list leaves DeletedState, no event whatever does: the
\* default transition has it as its target, and one that leads to the current state
\* is none.
THEOREM DeletedIsFinal ==
    ASSUME DeletedIsNoSource, NEW ev
    PROVE  Moves(ev, DeletedState) = {}
<1>1. Accepting(ev, DeletedState) = {}
  BY DEF DeletedIsNoSource, Accepting
<1> QED
  BY <1>1 DEF Moves, Destination

\* DeletedEvent leads to DeletedState from every target, also when a transition of
\* the list sends the same event elsewhere.
THEOREM DeletedEventWins ==
    ASSUME NEW s \in AllStates \ {DeletedState}
    PROVE  Moves(DeletedEvent, s) = {DeletedState}
BY DEF Moves, Destination

\* From BeginState it leads nowhere, unless the list says so: an object deleted
\* before its first event keeps its machine where it is.
THEOREM DeletedEventIsLostInBeginState ==
    ASSUME BeginState \notin AllStates,
           \A t \in DOMAIN Transitions : Transitions[t].event # DeletedEvent
    PROVE  Moves(DeletedEvent, BeginState) = {}
<1>1. Accepting(DeletedEvent, BeginState) = {}
  BY DEF Accepting
<1> QED
  BY <1>1 DEF Moves, Destination
-----------------------------------------------------------------------------
(* The choices that the steps make.                                        *)

\* The maximum of a nonempty set of numbers up to n is one of its members.
LEMMA MaxIsLargest ==
    ASSUME NEW n \in Nat, NEW S \in SUBSET (0 .. n), S # {}
    PROVE  Max(S) \in S /\ \A y \in S : y <= Max(S)
<1>1. \E x \in S : \A y \in S : x >= y
  BY BoundedHasMaximum
<1> QED
  BY <1>1 DEF Max

\* The latest created of some ResourceStates is one of them.
LEMMA MaxOK ==
    ASSUME StatesOK, NEW S \in SUBSET Born, S # {}
    PROVE  Max(S) \in S
<1>1. Len(owner) \in Nat /\ S \in SUBSET (0 .. Len(owner))
  BY DEF StatesOK, Born
<1> QED
  BY <1>1, MaxIsLargest

\* The next version is a version as long as the bound allows one.
LEMMA NextVersionOK ==
    ASSUME ClusterOK, NextRev <= MaxRev, NEW b \in Objects
    PROVE  NextVersion(b) \in Versions
<1> DEFINE Revs == {0} \cup {latest[u].rev : u \in {v \in UIDs : latest[v] # NoObject}}
<1>1. Revs \in SUBSET (0 .. MaxRev)
  BY TrackerAssumption DEF ClusterOK, Versions
<1>2. Max(Revs) \in 0 .. MaxRev
  BY <1>1, MaxIsLargest, TrackerAssumption
<1>3. NextRev \in 1 .. MaxRev
  BY <1>2, TrackerAssumption DEF NextRev
<1> QED
  BY <1>3 DEF NextVersion, Versions

\* The name of a ResourceState that was created is the name of an object.
LEMMA NameOK ==
    ASSUME StatesOK, NEW i \in Born
    PROVE  Name(i) \in Names
BY DEF StatesOK, Born, Name, Names
-----------------------------------------------------------------------------
(* Type correctness.  A panic names the object of the ResourceState that   *)
(* met it, so that one must have been created: what was not is idle.       *)

\* A ResourceState that was not created yet does nothing.
UnbornIdle ==
    \A i \in Instances \ Born :
        /\ fsm[i] = BeginState /\ closer[i] = "none"
        /\ ~running[i] /\ pending[i] = {} /\ timer[i] = "off"

\* The inductive invariant of the types.
IInv == TypeOK /\ UnbornIdle

\* Each part of the invariant depends on some of the variables only.
LEMMA ClusterKept == ClusterOK /\ UNCHANGED <<clusterVars, queueVars>> => ClusterOK'
BY DEF ClusterOK, clusterVars, queueVars

\* The part about the workers reads their variables and the owners.
LEMMA WorkersKept == WorkersOK /\ UNCHANGED <<workerVars, owner>> => WorkersOK'
BY DEF WorkersOK, workerVars, Born

\* The part about the created ResourceStates reads what was created and mapped.
LEMMA StatesKept ==
    StatesOK /\ UNCHANGED <<owner, resourceMap, dispatchVars, timer, sweepList>>
        => StatesOK'
BY DEF StatesOK, dispatchVars, Born

\* The part about the machines reads theirs and the stop channels.
LEMMA MachinesKept == MachinesOK /\ UNCHANGED <<stopped, machineVars>> => MachinesOK'
BY DEF MachinesOK, machineVars

\* The part about the recorded history reads the history only.
LEMMA HistoryKept == HistoryOK /\ UNCHANGED <<panic, disturbed>> => HistoryOK'
BY DEF HistoryOK

\* The part about instances not created yet reads the state of the instances only.
LEMMA IdleKept ==
    UnbornIdle /\ UNCHANGED <<owner, fsm, closer, running, pending, timer>>
        => UnbornIdle'
BY DEF UnbornIdle, Born

\* The empty memory is well typed.
LEMMA InitOK == Init => IInv
<1> SUFFICES ASSUME Init PROVE IInv
  OBVIOUS
<1>1. ClusterOK
  <2>1. queue \in Seq(QueueItems)
    BY DEF Init
  <2>2. latest \in [UIDs -> Versions \cup {NoObject}] /\ live \subseteq UIDs
    BY DEF Init
  <2>4. told \subseteq UIDs /\ returned \subseteq UIDs
    BY DEF Init
  <2>3. kindKnown \in BOOLEAN /\ closed \in BOOLEAN /\ delayed \subseteq QueueItems
    BY DEF Init
  <2> QED
    BY <2>1, <2>2, <2>3, <2>4 DEF ClusterOK
<1>2. WorkersOK
  BY DEF Init, WorkersOK, Born
<1>3. StatesOK
  BY TrackerAssumption DEF Init, StatesOK, Born
<1>4. MachinesOK
  BY DEF Init, MachinesOK, States
<1>5. HistoryOK /\ UnbornIdle
  BY DEF Init, HistoryOK, UnbornIdle
<1> QED
  BY <1>1, <1>2, <1>3, <1>4, <1>5 DEF IInv, TypeOK

\* So is the memory after a crash.
LEMMA CrashOK ==
    ASSUME IInv, NEW n \in Names \cup {Handler}, Crash(n)
    PROVE  IInv'
<1>1. ClusterOK'
  <2>1. (queue \in Seq(QueueItems))'
    BY DEF Crash
  <2>2. (latest \in [UIDs -> Versions \cup {NoObject}] /\ live \subseteq UIDs)'
    BY DEF Crash
  <2>3. (kindKnown \in BOOLEAN /\ closed \in BOOLEAN)'
    BY DEF Crash, IInv, TypeOK, ClusterOK
  <2>4. (delayed \subseteq QueueItems)'
    BY DEF Crash
  <2>5. (told \subseteq UIDs /\ returned \subseteq UIDs)'
    BY DEF Crash
  <2> QED
    BY <2>1, <2>2, <2>3, <2>4, <2>5 DEF ClusterOK
<1>2. WorkersOK'
  BY DEF Crash, WorkersOK, Born
<1>3. StatesOK'
  BY TrackerAssumption DEF Crash, StatesOK, Born
<1>4. MachinesOK'
  BY DEF Crash, MachinesOK, States
<1>5. HistoryOK' /\ UnbornIdle'
  BY DEF Crash, HistoryOK, UnbornIdle, IInv, TypeOK
<1> QED
  BY <1>1, <1>2, <1>3, <1>4, <1>5 DEF IInv, TypeOK

\* The end of a turn of the loop over older namesakes.
LEMMA NextOlderOK ==
    ASSUME WorkersOK, NEW w \in Workers, pc[w] # "idle", NEW rest \in SUBSET Born,
           NextOlder(w, rest), UNCHANGED owner
    PROVE  WorkersOK'
<1>1. CASE rest = {}
  BY <1>1 DEF WorkersOK, Born, NextOlder, Finish
<1>2. CASE rest # {}
  <2>1. taken[w] \in QueueItems
    BY DEF WorkersOK
  <2> QED
    BY ZenonT(60), <1>2, <2>1 DEF WorkersOK, Born, NextOlder, Goto
<1> QED
  BY <1>1, <1>2

\* An event keeps the machines and the metrics well typed ...
LEMMA FireOK ==
    ASSUME MachinesOK, NEW i \in Instances, NEW ev,
           NEW who \in {"dispatcher", "timer"}, Fire(i, ev, who), UNCHANGED stopped
    PROVE  MachinesOK'
<1>1. CASE UNCHANGED machineVars
  BY <1>1, MachinesKept
<1>2. ASSUME NEW dst \in Moves(ev, fsm[i]), EnterState(i, dst, who)
      PROVE  MachinesOK'
  <2>1. dst \in States /\ fsm[i] \in States
    BY MovesAreStates DEF MachinesOK
  <2>2. fsm' \in [Instances -> States] /\ stopped' \in [Instances -> BOOLEAN]
    BY <1>2, <2>1 DEF MachinesOK, EnterState
  <2>3. gauge' \in [States -> Int]
    BY <1>2, <2>1 DEF MachinesOK, EnterState
  <2>4. entered' \in [States -> Nat]
    BY <1>2, <2>1 DEF MachinesOK, EnterState
  <2>5. closer' \in [Instances -> {"none", "dispatcher", "timer"}]
    BY <1>2, <2>1 DEF MachinesOK, EnterState
  <2> QED
    BY <2>2, <2>3, <2>4, <2>5 DEF MachinesOK
<1> QED
  BY <1>1, <1>2 DEF Fire

\* ... and touches no machine but its own.
LEMMA FireKeepsUnborn ==
    ASSUME MachinesOK, NEW i \in Instances, NEW ev, NEW who, Fire(i, ev, who),
           NEW j \in Instances \ {i}
    PROVE  fsm'[j] = fsm[j] /\ closer'[j] = closer[j]
BY DEF MachinesOK, Fire, EnterState, machineVars

\* Every step keeps the invariant, one step of the proof per action of Next.
LEMMA NextOK == IInv /\ [Next]_vars => IInv'
<1>1. ASSUME IInv, NEW u \in UIDs, NEW b \in Objects, InformerAdd(u, b)
     PROVE  IInv'
  <2>1. ClusterOK'
    BY <1>1, NextVersionOK, TrackerAssumption DEF IInv, TypeOK, ClusterOK,
       QueueItems, InformerAdd, Appears, Enqueue
  <2> QED
    BY <1>1, <2>1, WorkersKept, StatesKept, MachinesKept, HistoryKept,
       IdleKept DEF IInv, TypeOK, clusterVars, queueVars, workerVars,
       dispatchVars, machineVars, InformerAdd, Appears, Enqueue
<1>2. ASSUME IInv, NEW u \in UIDs, NEW b \in Objects, InformerUpdate(u, b)
     PROVE  IInv'
  <2>1. ClusterOK'
    BY <1>2, NextVersionOK DEF IInv, TypeOK, ClusterOK, QueueItems,
       InformerUpdate, Enqueue
  <2> QED
    BY <1>2, <2>1, WorkersKept, StatesKept, MachinesKept, HistoryKept,
       IdleKept DEF IInv, TypeOK, clusterVars, queueVars, workerVars,
       dispatchVars, machineVars, InformerUpdate, Enqueue
<1>3. ASSUME IInv, NEW u \in UIDs, InformerDelete(u)
     PROVE  IInv'
  <2>1. ClusterOK'
    BY <1>3 DEF IInv, TypeOK, ClusterOK, QueueItems, InformerDelete, Enqueue
  <2> QED
    BY <1>3, <2>1, WorkersKept, StatesKept, MachinesKept, HistoryKept,
       IdleKept DEF IInv, TypeOK, clusterVars, queueVars, workerVars,
       dispatchVars, machineVars, InformerDelete, Enqueue
<1>4. ASSUME IInv, NEW u \in UIDs, InformerTombstone(u)
     PROVE  IInv'
  BY <1>4, CrashOK DEF InformerTombstone
<1>5. ASSUME IInv, NEW u \in UIDs, NEW v \in UIDs, NEW b \in Objects, InformerReplace(u, v, b)
     PROVE  IInv'
  <2>1. ClusterOK'
    BY <1>5, NextVersionOK DEF IInv, TypeOK, ClusterOK, QueueItems,
       InformerReplace, Appears, Enqueue
  <2> QED
    BY <1>5, <2>1, WorkersKept, StatesKept, MachinesKept, HistoryKept,
       IdleKept DEF IInv, TypeOK, clusterVars, queueVars, workerVars,
       dispatchVars, machineVars, InformerReplace, Appears, Enqueue
<1>6. ASSUME IInv, Stop
     PROVE  IInv'
  <2>1. ClusterOK'
    BY <1>6 DEF IInv, TypeOK, ClusterOK, queueVars, Stop
  <2> QED
    BY <1>6, <2>1, WorkersKept, StatesKept, MachinesKept, HistoryKept,
       IdleKept DEF IInv, TypeOK, clusterVars, queueVars, workerVars,
       dispatchVars, machineVars, Stop
<1>7. ASSUME IInv, Restart
     PROVE  IInv'
  <2>1. HistoryOK'
    BY <1>7 DEF IInv, TypeOK, HistoryOK, Restart
  <2> QED
    BY <1>7, <2>1, ClusterKept, WorkersKept, StatesKept, MachinesKept,
       IdleKept DEF IInv, TypeOK, clusterVars, queueVars, workerVars,
       dispatchVars, machineVars, Restart
<1>8. ASSUME IInv, SweepTick
     PROVE  IInv'
  <2>1. StatesOK'
    BY <1>8 DEF IInv, TypeOK, StatesOK, Born, Mapped, dispatchVars, SweepTick
  <2> QED
    BY <1>8, <2>1, ClusterKept, WorkersKept, MachinesKept, HistoryKept,
       IdleKept DEF IInv, TypeOK, clusterVars, queueVars, workerVars,
       dispatchVars, machineVars, SweepTick
<1>9. ASSUME IInv, NEW i \in Instances, SweepVisit(i)
     PROVE  IInv'
  <2>1. i \in Born
    BY <1>9 DEF IInv, StatesOK, TypeOK, SweepVisit
  <2>2. CASE stopped[i] /\ resource[i] = NoObject
    BY <1>9, <2>1, <2>2, NameOK, CrashOK DEF IInv, TypeOK, HistoryOK,
       SweepVisit
  <2>3. CASE ~(stopped[i] /\ resource[i] = NoObject)
    <3>1. StatesOK'
      BY <1>9, <2>1, <2>3 DEF IInv, TypeOK, StatesOK, Born, dispatchVars,
         SweepVisit
    <3> QED
      BY <1>9, <2>3, <3>1, ClusterKept, WorkersKept, MachinesKept,
         HistoryKept, IdleKept DEF IInv, TypeOK, clusterVars, queueVars,
         workerVars, dispatchVars, machineVars, SweepVisit
  <2> QED
    BY <2>2, <2>3
<1>10. ASSUME IInv, NEW w \in Workers, Take(w)
     PROVE  IInv'
  <2>1. ClusterOK'
    BY <1>10 DEF IInv, TypeOK, ClusterOK, clusterVars, Take
  <2>2. WorkersOK'
    BY <1>10 DEF IInv, TypeOK, ClusterOK, WorkersOK, Born, Take, Goto
  <2>3. HistoryOK'
    <3>1. Head(queue) \in QueueItems
      BY <1>10 DEF IInv, TypeOK, ClusterOK, Take
    <3>2. NameOf[Head(queue).uid] \in Names
      BY <3>1 DEF QueueItems, Names
    <3> QED
      BY <1>10, <3>2 DEF IInv, TypeOK, HistoryOK, Take
  <2> QED
    BY <1>10, <2>1, <2>2, <2>3, StatesKept, MachinesKept, IdleKept DEF IInv,
       TypeOK, clusterVars, queueVars, workerVars, dispatchVars, machineVars,
       Take
<1>11. ASSUME IInv, NEW w \in Workers, ByIndex(w)
     PROVE  IInv'
  <2>1. WorkersOK'
    <3> DEFINE found == {i \in Mapped : Name(i) = Subject(w)}
    <3>1. CASE found = {}
      BY <1>11, <3>1 DEF IInv, TypeOK, WorkersOK, Born, ByIndex, Finish
    <3>2. CASE found # {}
      <4>1. found \in SUBSET Born
        BY <1>11 DEF IInv, TypeOK, StatesOK, Mapped, Born
      <4>2. Max(found) \in Born
        BY <1>11, <3>2, <4>1, MaxOK DEF IInv, TypeOK
      <4>3. /\ target' = [target EXCEPT ![w] = Max(found)]
            /\ older' = [older EXCEPT ![w] = found \ {Max(found)}]
            /\ pc' = [pc EXCEPT ![w] = "check"] /\ UNCHANGED <<taken, owner>>
        BY <1>11, <3>2 DEF ByIndex, Goto
      <4>4. taken[w] \in QueueItems
        BY <1>11 DEF IInv, TypeOK, WorkersOK, ByIndex
      <4> HIDE DEF found
      <4> QED
        BY <1>11, <4>1, <4>2, <4>3, <4>4 DEF IInv, TypeOK, WorkersOK, Born
    <3> QED
      BY <3>1, <3>2
  <2>2. HistoryOK'
    BY <1>11 DEF IInv, TypeOK, WorkersOK, HistoryOK, Names, QueueItems,
       Subject, ByIndex
  <2> QED
    BY <1>11, <2>1, <2>2, ClusterKept, StatesKept, MachinesKept, IdleKept DEF
       IInv, TypeOK, clusterVars, queueVars, workerVars, dispatchVars,
       machineVars, ByIndex
<1>12. ASSUME IInv, NEW w \in Workers, LookupHit(w)
     PROVE  IInv'
  <2>1. WorkersOK'
    BY <1>12 DEF IInv, TypeOK, WorkersOK, StatesOK, QueueItems, Born,
       LookupHit, Goto
  <2> QED
    BY <1>12, <2>1, ClusterKept, StatesKept, MachinesKept, HistoryKept,
       IdleKept DEF IInv, TypeOK, clusterVars, queueVars, workerVars,
       dispatchVars, machineVars, LookupHit
<1>13. ASSUME IInv, NEW w \in Workers, LookupMiss(w)
     PROVE  IInv'
  <2>1. WorkersOK'
    BY <1>13 DEF IInv, TypeOK, WorkersOK, StatesOK, QueueItems, Born,
       LookupMiss, Goto
  <2>2. StatesOK'
    <3>1. taken[w].uid \in UIDs
      BY <1>13 DEF IInv, TypeOK, WorkersOK, QueueItems, LookupMiss
    <3>2. owner \in Seq(UIDs) /\ owner' = Append(owner, taken[w].uid)
      BY <1>13 DEF IInv, TypeOK, StatesOK, LookupMiss
    <3>3. owner' \in Seq(UIDs) /\ Len(owner') = Len(owner) + 1 /\ Born \subseteq Born'
      BY <3>1, <3>2 DEF Born
    <3>4. Len(owner') <= MaxStates
      BY <1>13, <3>2, <3>3, TrackerAssumption DEF LookupMiss
    <3>5. resourceMap' \in [UIDs -> {0} \cup Born'] /\ sweepList' \subseteq Born'
      BY <1>13, <3>3 DEF IInv, TypeOK, StatesOK, LookupMiss
    <3> QED
      BY <1>13, <3>3, <3>4, <3>5
         DEF IInv, TypeOK, StatesOK, dispatchVars, LookupMiss
  <2>3. UnbornIdle'
    BY <1>13 DEF IInv, TypeOK, StatesOK, UnbornIdle, Born, machineVars,
       dispatchVars, LookupMiss
  <2> QED
    BY <1>13, <2>1, <2>2, <2>3, ClusterKept, MachinesKept, HistoryKept DEF
       IInv, TypeOK, clusterVars, queueVars, workerVars, dispatchVars,
       machineVars, LookupMiss
<1>14. ASSUME IInv, NEW w \in Workers, LookupFails(w)
     PROVE  IInv'
  <2>1. ClusterOK'
    BY <1>14 DEF IInv, TypeOK, ClusterOK, WorkersOK, clusterVars, LookupFails
  <2>2. WorkersOK'
    BY <1>14 DEF IInv, TypeOK, WorkersOK, Born, LookupFails, Finish
  <2> QED
    BY <1>14, <2>1, <2>2, StatesKept, MachinesKept, HistoryKept, IdleKept DEF
       IInv, TypeOK, clusterVars, queueVars, workerVars, dispatchVars,
       machineVars, LookupFails
<1>15. ASSUME IInv, NEW e \in delayed, RetryDue(e)
     PROVE  IInv'
  <2>1. ClusterOK'
    BY <1>15 DEF IInv, TypeOK, ClusterOK, clusterVars, RetryDue
  <2> QED
    BY <1>15, <2>1, WorkersKept, StatesKept, MachinesKept, HistoryKept,
       IdleKept DEF IInv, TypeOK, clusterVars, queueVars, workerVars,
       dispatchVars, machineVars, RetryDue
<1>16. ASSUME IInv, NEW w \in Workers, AddState(w)
     PROVE  IInv'
  <2>1. WorkersOK'
    BY <1>16 DEF IInv, TypeOK, WorkersOK, Born, AddState, Goto
  <2>2. StatesOK'
    BY <1>16 DEF IInv, TypeOK, WorkersOK, StatesOK, Born, AddState
  <2>3. UnbornIdle'
    BY <1>16 DEF IInv, TypeOK, WorkersOK, UnbornIdle, Born, machineVars,
       AddState
  <2> QED
    BY <1>16, <2>1, <2>2, <2>3, ClusterKept, MachinesKept, HistoryKept DEF
       IInv, TypeOK, clusterVars, queueVars, workerVars, dispatchVars,
       machineVars, AddState
<1>17. ASSUME IInv, NEW w \in Workers, Check(w)
     PROVE  IInv'
  <2>1. WorkersOK'
    BY <1>17, NextOlderOK DEF IInv, TypeOK, WorkersOK, Born, Check, Goto
  <2> QED
    BY <1>17, <2>1, ClusterKept, StatesKept, MachinesKept, HistoryKept,
       IdleKept DEF IInv, TypeOK, clusterVars, queueVars, workerVars,
       dispatchVars, machineVars, Check
<1>18. ASSUME IInv, NEW w \in Workers, Send(w)
     PROVE  IInv'
  <2>1. WorkersOK'
    BY <1>18, NextOlderOK DEF IInv, TypeOK, WorkersOK, Send
  <2>2. StatesOK'
    <3> DEFINE v == IF taken[w].op = "DELETE" THEN NoObject ELSE taken[w].version
    <3>1. v \in Versions \cup {NoObject}
      BY <1>18 DEF IInv, TypeOK, WorkersOK, QueueItems, Send
    <3>2. incoming' = [incoming EXCEPT ![target[w]] = Append(@, v)]
      BY <1>18 DEF Send
    <3>3. incoming' \in [Instances -> Seq(Versions \cup {NoObject})]
      <4> DEFINE Item == Versions \cup {NoObject}
      <4>1. incoming \in [Instances -> Seq(Item)]
        BY <1>18 DEF IInv, TypeOK, StatesOK
      <4>2. v \in Item
        BY <3>1
      <4> HIDE DEF v, Item
      <4>3. \A i \in Instances : Append(incoming[i], v) \in Seq(Item)
        BY <4>1, <4>2
      <4>4. incoming' \in [Instances -> Seq(Item)]
        BY <3>2, <4>1, <4>3
      <4> QED
        BY <4>4 DEF Item
    <3> QED
      BY <1>18, <3>3 DEF IInv, TypeOK, StatesOK, Born, Send
  <2> QED
    BY <1>18, <2>1, <2>2, ClusterKept, MachinesKept, HistoryKept, IdleKept DEF
       IInv, TypeOK, clusterVars, queueVars, workerVars, dispatchVars,
       machineVars, Send
<1>19. ASSUME IInv, NEW w \in Workers, StopOlder(w)
     PROVE  IInv'
  <2>1. WorkersOK'
    BY <1>19 DEF IInv, TypeOK, WorkersOK, Born, StopOlder, Goto
  <2> QED
    BY <1>19, <2>1, ClusterKept, StatesKept, MachinesKept, HistoryKept,
       IdleKept DEF IInv, TypeOK, clusterVars, queueVars, workerVars,
       dispatchVars, machineVars, StopOlder
<1>20. ASSUME IInv, NEW w \in Workers, CloseOlder(w)
     PROVE  IInv'
  <2>1. Max(older[w]) \in Born
    BY <1>20, MaxOK DEF IInv, TypeOK, WorkersOK, CloseOlder
  <2>2. CASE stopped[Max(older[w])]
    BY <1>20, <2>1, <2>2, NameOK, CrashOK DEF IInv, TypeOK, HistoryOK,
       CloseOlder
  <2>3. CASE ~(stopped[Max(older[w])])
    <3>1. WorkersOK'
      BY <1>20, <2>1, <2>3 DEF IInv, TypeOK, WorkersOK, Born, CloseOlder, Goto
    <3>2. MachinesOK'
      BY <1>20, <2>1, <2>3 DEF IInv, TypeOK, MachinesOK, machineVars,
         CloseOlder
    <3> QED
      BY <1>20, <2>3, <3>1, <3>2, ClusterKept, StatesKept, HistoryKept,
         IdleKept DEF IInv, TypeOK, clusterVars, queueVars, workerVars,
         dispatchVars, machineVars, CloseOlder
  <2> QED
    BY <2>2, <2>3
<1>21. ASSUME IInv, NEW w \in Workers, UnmapOlder(w)
     PROVE  IInv'
  <2>1. Max(older[w]) \in Born
    BY <1>21, MaxOK DEF IInv, TypeOK, WorkersOK, UnmapOlder
  <2>2. CASE resource[Max(older[w])] = NoObject
    BY <1>21, <2>1, <2>2, NameOK, CrashOK DEF IInv, TypeOK, HistoryOK,
       UnmapOlder
  <2>3. CASE ~(resource[Max(older[w])] = NoObject)
    <3>1. WorkersOK'
      BY <1>21, <2>1, <2>3, NextOlderOK DEF IInv, TypeOK, WorkersOK,
         UnmapOlder
    <3>2. StatesOK'
      BY <1>21, <2>1, <2>3 DEF IInv, TypeOK, StatesOK, Born, dispatchVars,
         UnmapOlder
    <3> QED
      BY <1>21, <2>3, <3>1, <3>2, ClusterKept, MachinesKept, HistoryKept,
         IdleKept DEF IInv, TypeOK, clusterVars, queueVars, workerVars,
         dispatchVars, machineVars, UnmapOlder
  <2> QED
    BY <2>2, <2>3
<1>22. ASSUME IInv, NEW i \in Instances, Receive(i)
     PROVE  IInv'
  <2>1. StatesOK'
    BY <1>22 DEF IInv, TypeOK, StatesOK, Born, ParsedEvents, MatchedRules,
       Receive
  <2>2. UnbornIdle'
    BY <1>22 DEF IInv, TypeOK, StatesOK, UnbornIdle, Dispatching, machineVars,
       Born, Receive
  <2> QED
    BY <1>22, <2>1, <2>2, ClusterKept, WorkersKept, MachinesKept, HistoryKept
       DEF IInv, TypeOK, clusterVars, queueVars, workerVars, dispatchVars,
       machineVars, Receive
<1>23. ASSUME IInv, NEW i \in Instances, FireNext(i)
     PROVE  IInv'
  <2>1. StatesOK'
    BY <1>23 DEF IInv, TypeOK, StatesOK, Born, FireNext
  <2>2. MachinesOK'
    BY <1>23, FireOK DEF IInv, TypeOK, FireNext
  <2>3. UnbornIdle'
    BY ZenonT(60), <1>23, FireKeepsUnborn DEF IInv, TypeOK, StatesOK, UnbornIdle, Born,
       FireNext
  <2> QED
    BY <1>23, <2>1, <2>2, <2>3, ClusterKept, WorkersKept, HistoryKept DEF
       IInv, TypeOK, clusterVars, queueVars, workerVars, dispatchVars,
       machineVars, FireNext
<1>24. ASSUME IInv, NEW i \in Instances, NEW who \in {"dispatcher", "timer"}, CloseSelf(i, who)
     PROVE  IInv'
  <2>1. i \in Born
    BY <1>24 DEF IInv, UnbornIdle, MachinesOK, TypeOK, CloseSelf
  <2>2. CASE stopped[i]
    BY <1>24, <2>1, <2>2, NameOK, CrashOK DEF IInv, TypeOK, HistoryOK,
       CloseSelf
  <2>3. CASE ~(stopped[i])
    <3>1. MachinesOK'
      BY <1>24, <2>1, <2>3 DEF IInv, TypeOK, MachinesOK, CloseSelf
    <3>2. UnbornIdle'
      BY <1>24, <2>1, <2>3 DEF IInv, TypeOK, MachinesOK, UnbornIdle, Born,
         dispatchVars, CloseSelf
    <3> QED
      BY <1>24, <2>3, <3>1, <3>2, ClusterKept, WorkersKept, StatesKept,
         HistoryKept DEF IInv, TypeOK, clusterVars, queueVars, workerVars,
         dispatchVars, machineVars, CloseSelf
  <2> QED
    BY <2>2, <2>3
<1>25. ASSUME IInv, NEW i \in Instances, ExitDispatcher(i)
     PROVE  IInv'
  <2>1. StatesOK'
    BY <1>25 DEF IInv, TypeOK, StatesOK, Born, ExitDispatcher
  <2>2. UnbornIdle'
    BY <1>25 DEF IInv, TypeOK, StatesOK, UnbornIdle, Born, machineVars,
       ExitDispatcher
  <2> QED
    BY <1>25, <2>1, <2>2, ClusterKept, WorkersKept, MachinesKept, HistoryKept
       DEF IInv, TypeOK, clusterVars, queueVars, workerVars, dispatchVars,
       machineVars, ExitDispatcher
<1>26. ASSUME IInv, NEW i \in Instances, TimerFires(i)
     PROVE  IInv'
  <2>1. StatesOK'
    BY <1>26 DEF IInv, TypeOK, StatesOK, Born, dispatchVars, TimerFires,
       TimerDone
  <2>2. MachinesOK'
    BY <1>26, FireOK DEF IInv, TypeOK, TimerFires, TimerDone
  <2>3. UnbornIdle'
    BY ZenonT(60), <1>26, FireKeepsUnborn DEF IInv, TypeOK, StatesOK, UnbornIdle, Born,
       dispatchVars, TimerFires, TimerDone
  <2> QED
    BY <1>26, <2>1, <2>2, <2>3, ClusterKept, WorkersKept, HistoryKept DEF
       IInv, TypeOK, clusterVars, queueVars, workerVars, dispatchVars,
       machineVars, TimerFires, TimerDone
<1>27. ASSUME IInv, NEW i \in Instances, TimerStops(i)
     PROVE  IInv'
  <2>1. StatesOK'
    BY <1>27 DEF IInv, TypeOK, StatesOK, Born, dispatchVars, TimerStops,
       TimerDone
  <2>2. UnbornIdle'
    BY <1>27 DEF IInv, TypeOK, StatesOK, UnbornIdle, Born, dispatchVars,
       machineVars, TimerStops, TimerDone
  <2> QED
    BY <1>27, <2>1, <2>2, ClusterKept, WorkersKept, MachinesKept, HistoryKept
       DEF IInv, TypeOK, clusterVars, queueVars, workerVars, dispatchVars,
       machineVars, TimerStops, TimerDone
<1>28. ASSUME IInv, UNCHANGED vars
     PROVE  IInv'
  BY <1>28, ClusterKept, WorkersKept, StatesKept, MachinesKept, HistoryKept, IdleKept
     DEF IInv, TypeOK, vars, dispatchVars, machineVars
<1> QED
  BY <1>1, <1>2, <1>3, <1>4, <1>5, <1>6, <1>7, <1>8, <1>9, <1>10, <1>11, <1>12,
     <1>13, <1>14, <1>15, <1>16, <1>17, <1>18, <1>19, <1>20, <1>21, <1>22, <1>23,
     <1>24, <1>25, <1>26, <1>27, <1>28
  DEF Next, Informer, Sweep, WorkerStep, DispatcherStep, TimerStep

\* The invariant holds in every reachable state.
LEMMA AlwaysIInv == Spec => []IInv
BY InitOK, NextOK, PTL DEF Spec

\* Every variable keeps its type: for every number of workers, objects, versions
\* and ResourceStates, every table of transitions and every list of events.
THEOREM TypeCorrect == Spec => []TypeOK
<1>1. IInv => TypeOK
  BY DEF IInv
<1> QED
  BY <1>1, AlwaysIInv, PTL
-----------------------------------------------------------------------------
(* What any step does to the state machines.                               *)

\* A crash forgets every machine.
Forgotten ==
    /\ fsm' = [i \in Instances |-> BeginState] /\ owner' = <<>>
    /\ stopped' = [i \in Instances |-> FALSE]
    /\ closer' = [i \in Instances |-> "none"]
    /\ gauge' = [s \in States |-> 0] /\ entered' = [s \in States |-> 0]
    /\ panic' # NoName

\* An event is fired at a machine.
Fired ==
    /\ \E i \in Born, who \in {"dispatcher", "timer"} : \E ev : Fire(i, ev, who)
    /\ UNCHANGED <<stopped, owner>>

\* A ResourceState is created.
Created ==
    /\ UNCHANGED <<machineVars, stopped>> /\ Len(owner) < MaxStates
    /\ \E u \in UIDs : owner' = Append(owner, u)

\* Somebody stops a ResourceState, or nothing happens to any.
OnlyStopped ==
    /\ UNCHANGED <<fsm, gauge, entered, owner>>
    /\ \A i \in Instances : /\ stopped[i] => stopped'[i]
                            /\ closer'[i] = closer[i] \/ stopped'[i]

\* After a crash there is no ResourceState, hence no machine in DeletedState.
LEMMA CrashForgets ==
    ASSUME NEW n \in Names \cup {Handler}, Crash(n)
    PROVE  Forgotten
BY TrackerAssumption DEF Crash, Forgotten

\* A step that fires no event leaves every machine stopped if it was.
LEMMA UntouchedMachines == UNCHANGED <<machineVars, stopped, owner>> => OnlyStopped
BY DEF machineVars, OnlyStopped

\* A ResourceState that was created is one of the instances of the bound.
LEMMA BornAreInstances == StatesOK => Born \subseteq Instances
BY TrackerAssumption DEF StatesOK, Born, Instances

\* A crash empties the memory; otherwise an event is fired at one machine, or a machine
\* is created, or the machines stay where they are.
LEMMA MachineStep ==
    ASSUME IInv, [Next]_vars
    PROVE  Forgotten \/ Fired \/ Created \/ OnlyStopped
<1>1. CASE Informer
  <2>1. ASSUME NEW u \in UIDs, InformerTombstone(u) PROVE Forgotten
    BY <2>1, CrashForgets DEF InformerTombstone, Names
  <2>2. ASSUME NEW u \in UIDs, NEW b \in Objects, InformerAdd(u, b) \/ InformerUpdate(u, b)
        PROVE  OnlyStopped
    BY <2>2, UntouchedMachines DEF InformerAdd, InformerUpdate, Enqueue
  <2>3. ASSUME NEW u \in UIDs, InformerDelete(u) PROVE OnlyStopped
    BY <2>3, UntouchedMachines DEF InformerDelete, Enqueue
  <2>4. ASSUME NEW u \in UIDs, NEW v \in UIDs, NEW b \in Objects, InformerReplace(u, v, b)
        PROVE  OnlyStopped
    BY <2>4, UntouchedMachines DEF InformerReplace, Enqueue
  <2> QED
    BY <1>1, <2>1, <2>2, <2>3, <2>4 DEF Informer
<1>2. CASE Stop \/ Restart \/ SweepTick
  BY <1>2, UntouchedMachines DEF Stop, Restart, SweepTick
<1>3. ASSUME NEW i \in Instances, SweepVisit(i) PROVE Forgotten \/ OnlyStopped
  <2>1. i \in Born
    BY <1>3 DEF IInv, TypeOK, StatesOK, SweepVisit
  <2> QED
    BY <1>3, <2>1, NameOK, CrashForgets, UntouchedMachines DEF SweepVisit, IInv, TypeOK
<1>4. ASSUME NEW w \in Workers, WorkerStep(w) PROVE Forgotten \/ Created \/ OnlyStopped
  <2>1. CASE Take(w) \/ ByIndex(w) \/ LookupHit(w) \/ LookupFails(w) \/ AddState(w)
                \/ Check(w) \/ Send(w) \/ StopOlder(w)
    BY <2>1, UntouchedMachines DEF Take, ByIndex, LookupHit, LookupFails, AddState,
       Check, Send, StopOlder
  <2>2. CASE LookupMiss(w)
    <3>1. taken[w].uid \in UIDs
      BY <2>2 DEF IInv, TypeOK, WorkersOK, QueueItems, LookupMiss
    <3> QED
      BY <2>2, <3>1 DEF LookupMiss, Created
  <2>3. CASE CloseOlder(w)
    <3>1. Max(older[w]) \in Born
      BY <2>3, MaxOK DEF IInv, TypeOK, WorkersOK, CloseOlder
    <3>2. CASE stopped[Max(older[w])]
      BY <2>3, <3>1, <3>2, NameOK, CrashForgets DEF CloseOlder, IInv, TypeOK
    <3>3. CASE ~stopped[Max(older[w])]
      <4>1. /\ stopped' = [stopped EXCEPT ![Max(older[w])] = TRUE]
            /\ UNCHANGED <<fsm, gauge, entered, owner, closer>>
        BY <2>3, <3>3 DEF CloseOlder, machineVars
      <4> QED
        BY <4>1 DEF OnlyStopped, IInv, TypeOK, MachinesOK
    <3> QED
      BY <3>2, <3>3
  <2>4. CASE UnmapOlder(w)
    <3>1. Max(older[w]) \in Born
      BY <2>4, MaxOK DEF IInv, TypeOK, WorkersOK, UnmapOlder
    <3> QED
      BY <2>4, <3>1, NameOK, CrashForgets, UntouchedMachines
         DEF UnmapOlder, IInv, TypeOK
  <2> QED
    BY <1>4, <2>1, <2>2, <2>3, <2>4 DEF WorkerStep
<1>5. ASSUME NEW e \in delayed, RetryDue(e) PROVE OnlyStopped
  BY <1>5, UntouchedMachines DEF RetryDue
<1>6. ASSUME NEW i \in Instances, NEW who \in {"dispatcher", "timer"}, CloseSelf(i, who)
      PROVE  Forgotten \/ OnlyStopped
  <2>1. i \in Born
    BY <1>6 DEF IInv, UnbornIdle, CloseSelf
  <2>2. CASE stopped[i]
    BY <1>6, <2>1, <2>2, NameOK, CrashForgets DEF CloseSelf, IInv, TypeOK
  <2>3. CASE ~stopped[i]
    <3>1. /\ stopped' = [stopped EXCEPT ![i] = TRUE]
          /\ closer' = [closer EXCEPT ![i] = "none"]
          /\ UNCHANGED <<fsm, gauge, entered, owner>>
      BY <1>6, <2>3 DEF CloseSelf
    <3> QED
      BY <3>1 DEF OnlyStopped, IInv, TypeOK, MachinesOK
  <2> QED
    BY <2>2, <2>3
<1>7. ASSUME NEW i \in Instances, FireNext(i) PROVE Fired
  <2>1. i \in Born
    BY <1>7 DEF IInv, UnbornIdle, FireNext
  <2> QED
    BY <1>7, <2>1 DEF FireNext, Fired
<1>8. ASSUME NEW i \in Instances, TimerFires(i) PROVE Fired
  <2>1. i \in Born
    BY <1>8 DEF IInv, UnbornIdle, TimerFires, TimerDone
  <2> QED
    BY <1>8, <2>1 DEF TimerFires, TimerDone, Fired
<1>9. ASSUME NEW i \in Instances, Receive(i) \/ ExitDispatcher(i) \/ TimerStops(i)
      PROVE  OnlyStopped
  BY <1>9, UntouchedMachines DEF Receive, ExitDispatcher, TimerStops, TimerDone
<1>10. CASE UNCHANGED vars
  BY <1>10, UntouchedMachines DEF vars
<1> QED
  BY <1>1, <1>2, <1>3, <1>4, <1>5, <1>6, <1>7, <1>8, <1>9, <1>10
  DEF Next, Sweep, DispatcherStep, TimerStep
-----------------------------------------------------------------------------
\* A machine in DeletedState is stopped, or the goroutine that took it there is about to
\* stop it: no order of its dispatcher, its timer, the workers and the sweeper leaves
\* one that the sweeper would never reclaim.
THEOREM DeletedAlwaysGetsStopped == Spec => []DeletedGetsStopped
<1>1. Init => DeletedGetsStopped
  BY TransitionsAssumption DEF Init, DeletedGetsStopped
<1>2. ASSUME IInv, [Next]_vars, DeletedGetsStopped
      PROVE  DeletedGetsStopped'
  <2>1. CASE Forgotten
    BY <2>1, TransitionsAssumption DEF Forgotten, DeletedGetsStopped
  <2>2. CASE Fired
    <3>1. PICK i \in Born, who \in {"dispatcher", "timer"} : \E ev : Fire(i, ev, who)
      BY <2>2 DEF Fired
    <3>2. stopped' = stopped /\ i \in Instances
      BY <1>2, <2>2, BornAreInstances DEF Fired, IInv, TypeOK
    <3>3. CASE UNCHANGED machineVars
      BY <1>2, <3>2, <3>3 DEF DeletedGetsStopped, machineVars
    <3>4. ASSUME NEW dst, EnterState(i, dst, who)
          PROVE  DeletedGetsStopped'
      <4>1. ASSUME NEW j \in Instances, j # i, fsm'[j] = DeletedState
            PROVE  stopped'[j] \/ closer'[j] # "none"
        BY <1>2, <3>2, <3>4, <4>1
           DEF EnterState, IInv, TypeOK, MachinesOK, DeletedGetsStopped
      <4>2. ASSUME fsm'[i] = DeletedState
            PROVE  stopped'[i] \/ closer'[i] # "none"
        BY <1>2, <3>2, <3>4, <4>2
           DEF EnterState, IInv, TypeOK, MachinesOK
      <4> QED
        BY <4>1, <4>2 DEF DeletedGetsStopped
    <3> QED
      BY <3>1, <3>3, <3>4 DEF Fire
  <2>3. CASE Created
    BY <1>2, <2>3 DEF Created, machineVars, DeletedGetsStopped
  <2>4. CASE OnlyStopped
    BY <1>2, <2>4 DEF OnlyStopped, DeletedGetsStopped
  <2> QED
    BY <1>2, <2>1, <2>2, <2>3, <2>4, MachineStep
<1> QED
  BY <1>1, <1>2, AlwaysIInv, PTL DEF Spec

\* A machine leaves DeletedState in a crash only, when no transition of the list has
\* DeletedState among its sources.
THEOREM DeletedStaysDeleted ==
    ASSUME DeletedIsNoSource
    PROVE  Spec => DeletedIsTerminal
<1> DEFINE Stays == \A i \in Instances :
                       fsm[i] = DeletedState /\ panic' = NoName
                          => fsm'[i] = DeletedState
<1>1. ASSUME IInv, [Next]_vars
      PROVE  Stays
  <2>1. CASE Forgotten
    BY <2>1 DEF Forgotten
  <2>2. CASE Fired
    <3>1. PICK i \in Born, who \in {"dispatcher", "timer"} : \E ev : Fire(i, ev, who)
      BY <2>2 DEF Fired
    <3>2. PICK ev : Fire(i, ev, who)
      BY <3>1
    <3>3. CASE UNCHANGED machineVars
      BY <3>3 DEF machineVars
    <3>4. ASSUME NEW dst \in Moves(ev, fsm[i]), EnterState(i, dst, who)
          PROVE  Stays
      <4>1. fsm[i] # DeletedState
        BY <3>4, DeletedIsFinal
      <4> QED
        BY <1>1, <3>4, <4>1 DEF EnterState, IInv, TypeOK, MachinesOK
    <3> QED
      BY <3>2, <3>3, <3>4 DEF Fire
  <2>3. CASE Created \/ OnlyStopped
    BY <2>3 DEF Created, OnlyStopped, machineVars
  <2> QED
    BY <1>1, <2>1, <2>2, <2>3, MachineStep
<1> HIDE DEF Stays
<1>2. IInv /\ [Next]_vars => [Stays]_vars
  BY <1>1
<1>3. Spec => [][Stays]_vars
  BY <1>2, AlwaysIInv, PTL DEF Spec
<1> QED
  BY <1>3 DEF DeletedIsTerminal, Stays
-----------------------------------------------------------------------------
(* TransitionMetrics.                                                      *)

\* The machines as TransitionMetrics sees them.
Current == [i \in Born |-> fsm[i]]

\* The gauge is the census of the machines.
GaugeIsCensus == gauge = Metrics!Census(Current)

-----------------------------------------------------------------------------
\* The instance counts with its own copy of Cardinality.
LEMMA SameCardinality ==
    ASSUME NEW S
    PROVE  Metrics!Cardinality(S) = Cardinality(S)
BY DEF Metrics!Cardinality, Cardinality, Metrics!IsFiniteSet, IsFiniteSet

\* Only finitely many ResourceStates have been created.
LEMMA BornIsFinite ==
    ASSUME StatesOK
    PROVE  IsFiniteSet(Born) /\ Cardinality(Born) = Len(owner)
<1>1. Len(owner) \in Nat
  BY DEF StatesOK
<1>2. /\ IsFiniteSet(1 .. Len(owner))
      /\ Cardinality(1 .. Len(owner)) = IF 1 > Len(owner) THEN 0 ELSE Len(owner) - 1 + 1
  <2>1. 1 \in Int /\ Len(owner) \in Int
    BY <1>1
  <2> QED
    BY <2>1, FS_Interval, Zenon
<1>3. (IF 1 > Len(owner) THEN 0 ELSE Len(owner) - 1 + 1) = Len(owner)
  BY <1>1
<1> QED
  BY <1>2, <1>3 DEF Born

\* Those in one state are finitely many.
LEMMA InStateIsFinite ==
    ASSUME StatesOK, NEW c, DOMAIN c = Born, NEW s
    PROVE  /\ IsFiniteSet(Metrics!InState(c, s))
           /\ Cardinality(Metrics!InState(c, s)) \in Nat
<1>1. Metrics!InState(c, s) \in SUBSET Born
  BY DEF Metrics!InState
<1> QED
  BY <1>1, BornIsFinite, FS_Subset, FS_CardinalityType

\* Nobody tracked, nobody counted.
LEMMA EmptyCensus ==
    ASSUME NEW c, c = [i \in {} |-> BeginState]
    PROVE  Metrics!Census(c) = [s \in States |-> 0]
<1>1. \A s \in States : Metrics!InState(c, s) = {}
  BY DEF Metrics!InState
<1>2. Cardinality({}) = 0 /\ DOMAIN c = {}
  BY FS_EmptySet
<1>3. Metrics!Census(c) =
         [s \in States |-> Cardinality({})
                              - (IF s = BeginState THEN Cardinality({}) ELSE 0)]
  BY <1>1, <1>2, SameCardinality DEF Metrics!Census
<1> QED
  BY <1>2, <1>3

\* A move takes one machine out of the census of a state and into that of another.
LEMMA MoveCensus ==
    ASSUME StatesOK, NEW c \in [Born -> States], NEW i \in Born, NEW dst \in States,
           dst # c[i], NEW d, d = [c EXCEPT ![i] = dst]
    PROVE  Metrics!Census(d) = [Metrics!Census(c) EXCEPT ![dst] = @ + 1, ![c[i]] = @ - 1]
<1> DEFINE In(f, s) == Metrics!InState(f, s)
<1>1. In(d, dst) = In(c, dst) \cup {i} /\ i \notin In(c, dst)
  BY DEF Metrics!InState
<1>2. In(d, c[i]) = In(c, c[i]) \ {i} /\ i \in In(c, c[i])
  BY DEF Metrics!InState
<1>3. \A s \in States \ {dst, c[i]} : In(d, s) = In(c, s)
  BY DEF Metrics!InState
<1>4. \A s \in States : IsFiniteSet(In(c, s)) /\ Cardinality(In(c, s)) \in Nat
  BY InStateIsFinite
<1>5. Cardinality(In(d, dst)) = Cardinality(In(c, dst)) + 1
  <2>1. IsFiniteSet(In(c, dst))
    BY <1>4
  <2> HIDE DEF In
  <2> QED
    BY <1>1, <2>1, FS_AddElement
<1>6. Cardinality(In(d, c[i])) = Cardinality(In(c, c[i])) - 1
  <2>1. IsFiniteSet(In(c, c[i]))
    BY <1>4
  <2> HIDE DEF In
  <2> QED
    BY <1>2, <2>1, FS_RemoveElement
<1>7. DOMAIN c = Born /\ DOMAIN d = Born
  OBVIOUS
<1> DEFINE Base(s) == IF s = BeginState THEN Cardinality(Born) ELSE 0
<1>8. ASSUME NEW f, DOMAIN f = Born
      PROVE  Metrics!Census(f) = [s \in States |-> Cardinality(In(f, s)) - Base(s)]
  BY <1>8, SameCardinality DEF Metrics!Census
<1>9. \A s \in States : Base(s) \in Nat
  BY BornIsFinite, FS_CardinalityType
<1> DEFINE E == Metrics!Census(c)
           F == Metrics!Census(d)
<1>10. /\ E = [s \in States |-> Cardinality(In(c, s)) - Base(s)]
       /\ F = [s \in States |-> Cardinality(In(d, s)) - Base(s)]
  BY <1>7, <1>8
<1> HIDE DEF In, Base, E, F
<1>11. c[i] \in States /\ c[i] # dst
  OBVIOUS
<1>12. F[dst] = E[dst] + 1
  BY <1>4, <1>5, <1>9, <1>10
<1>13. F[c[i]] = E[c[i]] - 1
  BY <1>4, <1>6, <1>9, <1>10, <1>11
<1>14. \A s \in States \ {dst, c[i]} : F[s] = E[s]
  BY <1>3, <1>10
<1>15. F = [E EXCEPT ![dst] = @ + 1, ![c[i]] = @ - 1]
  BY <1>10, <1>11, <1>12, <1>13, <1>14
<1> QED
  BY <1>15 DEF E, F
-----------------------------------------------------------------------------
\* A machine is created in BeginState.
LEMMA CreatedCurrent ==
    ASSUME IInv, Created
    PROVE  /\ Len(owner) + 1 \in Instances \ Born
           /\ Current' = [j \in Born \cup {Len(owner) + 1} |->
                             IF j = Len(owner) + 1 THEN BeginState ELSE Current[j]]
<1>1. /\ Len(owner') = Len(owner) + 1 /\ Len(owner) \in Nat
      /\ Len(owner) + 1 \in 1 .. MaxStates
  BY TrackerAssumption DEF IInv, TypeOK, StatesOK, Created
<1>2. Born' = Born \cup {Len(owner) + 1} /\ Len(owner) + 1 \in Instances \ Born
  BY <1>1 DEF Born, Instances
<1>3. fsm' = fsm /\ fsm[Len(owner) + 1] = BeginState
  BY <1>2 DEF Created, machineVars, IInv, UnbornIdle
<1> QED
  BY <1>2, <1>3 DEF Current

\* It adds to the census of BeginState what it adds to the machines.
LEMMA CreatedCensus ==
    ASSUME StatesOK, NEW c \in [Born -> States], NEW n, n \notin Born,
           NEW d, d = [j \in Born \cup {n} |-> IF j = n THEN BeginState ELSE c[j]]
    PROVE  Metrics!Census(d) = Metrics!Census(c)
<1> DEFINE In(f, s) == Metrics!InState(f, s)
<1>1. DOMAIN c = Born /\ DOMAIN d = Born \cup {n}
  OBVIOUS
<1>2. In(d, BeginState) = In(c, BeginState) \cup {n} /\ n \notin In(c, BeginState)
  BY DEF Metrics!InState
<1>3. \A s \in States \ {BeginState} : In(d, s) = In(c, s)
  BY DEF Metrics!InState
<1>4. IsFiniteSet(In(c, BeginState)) /\ Cardinality(In(c, BeginState)) \in Nat
  BY <1>1, InStateIsFinite
<1>5. /\ IsFiniteSet(Born) /\ Cardinality(Born) \in Nat
      /\ Cardinality(Born \cup {n}) = Cardinality(Born) + 1
  BY BornIsFinite, FS_CardinalityType, FS_AddElement
<1>6. Cardinality(In(d, BeginState)) = Cardinality(In(c, BeginState)) + 1
  <2> HIDE DEF In
  <2> QED
    BY <1>2, <1>4, FS_AddElement
<1> DEFINE Base(f, s) == IF s = BeginState THEN Cardinality(DOMAIN f) ELSE 0
<1>7. ASSUME NEW f
      PROVE  Metrics!Census(f) = [s \in States |-> Cardinality(In(f, s)) - Base(f, s)]
  BY SameCardinality DEF Metrics!Census
<1>8. \A s \in States : Cardinality(In(d, s)) - Base(d, s)
                          = Cardinality(In(c, s)) - Base(c, s)
  <2>1. ASSUME NEW s \in States \ {BeginState}
        PROVE  In(d, s) = In(c, s) /\ Base(d, s) = Base(c, s)
    BY <1>3
  <2>2. Cardinality(In(d, BeginState)) - Base(d, BeginState)
           = Cardinality(In(c, BeginState)) - Base(c, BeginState)
    BY <1>1, <1>4, <1>5, <1>6
  <2> HIDE DEF In, Base
  <2> QED
    BY <2>1, <2>2
<1> HIDE DEF In, Base
<1> QED
  BY <1>7, <1>8
-----------------------------------------------------------------------------
\* Only the events of the table lead anywhere.
LEMMA MovesOnEvents ==
    ASSUME NEW ev, NEW s, Moves(ev, s) # {}
    PROVE  ev \in Events
BY DEF Moves, Destination, Accepting, Events

\* An event moves the machine it is fired at, and the gauge with it.
LEMMA EnterStateMoves ==
    ASSUME IInv, GaugeIsCensus, NEW i \in Born, NEW ev, NEW who,
           NEW dst \in Moves(ev, fsm[i]), EnterState(i, dst, who), UNCHANGED owner
    PROVE  Metrics!Move(i, ev, dst) /\ GaugeIsCensus'
<1>1. i \in Instances /\ Born \subseteq Instances
  BY BornAreInstances DEF IInv, TypeOK
<1>2. dst \in States /\ dst # fsm[i] /\ fsm[i] \in States
  BY <1>1, MovesAreStates DEF Moves, IInv, TypeOK, MachinesOK
<1>3. Current \in [Born -> States] /\ Current[i] = fsm[i]
  BY <1>1 DEF Current, IInv, TypeOK, MachinesOK
<1>4. Current' = [Current EXCEPT ![i] = dst]
  BY <1>1 DEF Current, EnterState, Born, IInv, TypeOK, MachinesOK
<1>5. gauge' = [gauge EXCEPT ![dst] = @ + 1, ![fsm[i]] = @ - 1]
  BY DEF EnterState
<1>6. Metrics!Census(Current') = [Metrics!Census(Current) EXCEPT ![dst] = @ + 1,
                                                                 ![fsm[i]] = @ - 1]
  <2> DEFINE C == Current
             D == Current'
  <2>1. StatesOK /\ dst # C[i] /\ C \in [Born -> States] /\ D = [C EXCEPT ![i] = dst]
    BY <1>2, <1>3, <1>4 DEF IInv, TypeOK
  <2> HIDE DEF C, D
  <2>2. Metrics!Census(D) = [Metrics!Census(C) EXCEPT ![dst] = @ + 1, ![C[i]] = @ - 1]
    BY <1>2, <2>1, MoveCensus
  <2> QED
    BY <1>3, <2>2 DEF C, D
<1>7. gauge' = Metrics!Census(Current')
  BY <1>5, <1>6 DEF GaugeIsCensus
<1>8. entered' = [entered EXCEPT ![dst] = IF Silent(dst) THEN @ ELSE @ + 1]
  BY DEF EnterState
<1>9. dst \in Moves(ev, Current[i])
  BY <1>3
<1> QED
  BY <1>4, <1>7, <1>8, <1>9 DEF Metrics!Move, GaugeIsCensus, Current

\* Every step is a step of TransitionMetrics, or leaves it alone.
LEMMA CensusStep ==
    ASSUME IInv, GaugeIsCensus, [Next]_vars
    PROVE  [Metrics!Next]_(Metrics!vars) /\ GaugeIsCensus'
<1>1. CASE Forgotten
  <2>1. Current' = [i \in {} |-> BeginState]
    BY <1>1 DEF Forgotten, Current, Born
  <2>2. Metrics!Reset
    BY <1>1, <2>1 DEF Forgotten, Metrics!Reset, Current
  <2>3. Metrics!Census(Current') = [s \in States |-> 0]
    BY <2>1, EmptyCensus
  <2> QED
    BY <1>1, <2>2, <2>3 DEF Metrics!Next, Forgotten, GaugeIsCensus
<1>2. CASE Fired
  <2>1. PICK i \in Born, who \in {"dispatcher", "timer"} : \E ev : Fire(i, ev, who)
    BY <1>2 DEF Fired
  <2>2. PICK ev : Fire(i, ev, who)
    BY <2>1
  <2>3. UNCHANGED owner
    BY <1>2 DEF Fired
  <2>4. CASE UNCHANGED machineVars
    BY <2>3, <2>4 DEF machineVars, Metrics!vars, GaugeIsCensus, Current, Born
  <2>5. ASSUME NEW dst \in Moves(ev, fsm[i]), EnterState(i, dst, who)
        PROVE  Metrics!Next /\ GaugeIsCensus'
    <3>1. Metrics!Move(i, ev, dst) /\ GaugeIsCensus'
      BY <2>3, <2>5, EnterStateMoves
    <3>2. ev \in Events /\ dst \in States /\ i \in DOMAIN Current
      BY <2>5, MovesOnEvents, MovesAreStates DEF Current
    <3> QED
      BY <3>1, <3>2 DEF Metrics!Next, Current
  <2> QED
    BY <2>2, <2>4, <2>5 DEF Fire
<1>3. CASE Created
  <2>0. PICK n \in Instances \ Born : n = Len(owner) + 1
    BY <1>3, CreatedCurrent
  <2>1. /\ n \in Instances \ Born
        /\ Current' = [j \in Born \cup {n} |-> IF j = n THEN BeginState ELSE Current[j]]
    BY <1>3, <2>0, CreatedCurrent
  <2>2. Current \in [Born -> States] /\ StatesOK /\ DOMAIN Current = Born
    BY BornAreInstances DEF Current, IInv, TypeOK, MachinesOK
  <2>3. UNCHANGED <<gauge, entered>>
    BY <1>3 DEF Created, machineVars
  <2>4. Metrics!Census(Current') = Metrics!Census(Current)
    BY <2>1, <2>2, CreatedCensus
  <2>5. GaugeIsCensus'
    BY <2>3, <2>4 DEF GaugeIsCensus
  <2>6. Metrics!Track(n)
    BY <2>1, <2>2, <2>3, <2>5 DEF Metrics!Track, GaugeIsCensus, Current
  <2>7. Metrics!Next
    BY <2>1, <2>6 DEF Metrics!Next
  <2> QED
    BY <2>5, <2>7
<1>4. CASE OnlyStopped
  BY <1>4 DEF OnlyStopped, Metrics!vars, GaugeIsCensus, Current, Born
<1> QED
  BY <1>1, <1>2, <1>3, <1>4, MachineStep

\* A fresh process: no gauge was set and nothing is tracked.
LEMMA CensusInit == Init => Metrics!Init /\ GaugeIsCensus
<1> SUFFICES ASSUME Init PROVE Metrics!Init /\ GaugeIsCensus
  OBVIOUS
<1>1. Current = [i \in {} |-> BeginState]
  BY DEF Init, Current, Born
<1>2. Metrics!Census(Current) = [s \in States |-> 0]
  BY <1>1, EmptyCensus
<1> QED
  BY <1>1, <1>2 DEF Init, Metrics!Init, GaugeIsCensus, Current

\* The tracker implements TransitionMetrics: the machines walk the table, the counters
\* count entries, and what Inc and Dec leave in the gauge is the census of the machines,
\* whatever the goroutines do and however many there are.
THEOREM MetricsRefinement == Spec => MetricsAreACensus
<1>1. Init => Metrics!Init /\ GaugeIsCensus
  BY CensusInit
<1>2. IInv /\ GaugeIsCensus /\ [Next]_vars
         => [Metrics!Next]_(Metrics!vars) /\ GaugeIsCensus'
  BY CensusStep
<1> QED
  BY <1>1, <1>2, AlwaysIInv, PTL DEF Spec, MetricsAreACensus, Metrics!Spec
-----------------------------------------------------------------------------
(* PanicsOnlyWhenDisturbed.                                                *)

\* Worker w has an item.
Busy(w) == pc[w] # "idle"

\* The memory of a process that has just started.
Empty ==
    /\ queue = <<>> /\ delayed = {} /\ owner = <<>> /\ sweepList = {}
    /\ live = {} /\ told = {}
    /\ \A w \in Workers : ~Busy(w) /\ older[w] = {}
    /\ \A u \in UIDs : latest[u] = NoObject /\ resourceMap[u] = 0
    /\ \A i \in Instances : resource[i] = NoObject /\ incoming[i] = <<>> /\ ~stopped[i]

\* A process that crashed has nothing left.
DownIsEmpty == ~Up => Empty

\* Every item carries a version of its object.
Versioned ==
    /\ \A k \in DOMAIN queue : queue[k].version # NoObject
    /\ \A e \in delayed : e.version # NoObject
    /\ \A w \in Workers : Busy(w) => taken[w].version # NoObject
    /\ \A u \in live : latest[u] # NoObject

\* Two workers never handle one name, unless it is disturbed.
Alone ==
    \A w, x \in Workers :
        w # x /\ Busy(w) /\ Busy(x) /\ Subject(w) = Subject(x) => Subject(w) \in disturbed

\* What a worker holds fits the item it took.
TargetsOK ==
    \A w \in Workers :
        /\ pc[w] \in {"lookup", "add"} => taken[w].op # "DELETE"
        /\ pc[w] = "index" => taken[w].op = "DELETE"
        /\ pc[w] \in {"add", "check", "send"} =>
              /\ Name(target[w]) = Subject(w)
              /\ taken[w].op # "DELETE" => owner[target[w]] = taken[w].uid
        /\ older[w] # {} => Busy(w) /\ Subject(w) \in disturbed
        /\ \A i \in older[w] : Name(i) = Subject(w)

\* The map leads from a UID to a ResourceState created for it.
MapOK == \A u \in UIDs : resourceMap[u] # 0 => owner[resourceMap[u]] = u

\* Nobody stops a ResourceState while another goroutine is about to, unless its name
\* is disturbed.
CloserOK ==
    \A i \in Born : closer[i] # "none" /\ stopped[i] => Name(i) \in disturbed

\* A ResourceState that is not in the map yet is known to its worker only.
AddFresh ==
    \A w \in Workers : pc[w] = "add" =>
        /\ timer[target[w]] = "off"
        /\ \A u \in UIDs : resourceMap[u] # target[w]
        /\ \A x \in Workers \ {w} : pc[x] = "add" => target[x] # target[w]

\* A ResourceState that was not created yet has been told nothing.
UnbornFresh ==
    \A i \in Instances \ Born :
        resource[i] = NoObject /\ incoming[i] = <<>> /\ ~stopped[i]

\* Worker w is to send a version to ResourceState i.
Sending(w, i) ==
    pc[w] \in {"add", "check", "send"} /\ target[w] = i /\ taken[w].op # "DELETE"

\* A ResourceState without a Resource has not left the start, and the first thing
\* that it will be sent, or was sent, is an object and not nil.
StartOK ==
    TimerDoesNotDelete => \A i \in Born : Name(i) \notin disturbed /\ resource[i] = NoObject =>
        /\ ~stopped[i] /\ closer[i] = "none" /\ fsm[i] # DeletedState /\ pending[i] = {}
        /\ timer[i] # "done" => fsm[i] = BeginState
        /\ incoming[i] = <<>> => \E w \in Workers : Sending(w, i)
        /\ incoming[i] # <<>> => incoming[i][1] # NoObject

\* PanicsOnlyWhenDisturbed, for a timer that does not delete.
PanicsOK == TimerDoesNotDelete => PanicsOnlyWhenDisturbed

\* The inductive invariant of the crashes.
PInv ==
    /\ DownIsEmpty /\ Versioned /\ Alone /\ TargetsOK /\ MapOK /\ CloserOK
    /\ AddFresh /\ UnbornFresh /\ StartOK /\ PanicsOK

\* A disturbed name stays disturbed.
Grow == disturbed \subseteq disturbed'

\* Each part depends on some of the variables, and on disturbed in one direction.
LEMMA KeepVersioned == Versioned /\ UNCHANGED <<queue, delayed, pc, taken, live, latest>>
                         => Versioned'
BY DEF Versioned, Busy

\* ... and the workers ...
LEMMA KeepAlone == Alone /\ UNCHANGED <<pc, taken>> /\ Grow => Alone'
BY DEF Alone, Busy, Subject, Grow

\* ... and their targets ...
LEMMA KeepTargets == TargetsOK /\ UNCHANGED <<workerVars, owner>> /\ Grow => TargetsOK'
BY DEF TargetsOK, Busy, Subject, Grow, Name, workerVars

\* ... and the map ...
LEMMA KeepMap == MapOK /\ UNCHANGED <<resourceMap, owner>> => MapOK'
BY DEF MapOK

\* ... and the closers ...
LEMMA KeepCloser == CloserOK /\ UNCHANGED <<closer, stopped, owner>> /\ Grow => CloserOK'
BY DEF CloserOK, Grow, Name, Born

\* ... and the ResourceStates about to enter the map ...
LEMMA KeepAddFresh == AddFresh /\ UNCHANGED <<pc, target, timer, resourceMap>> => AddFresh'
BY DEF AddFresh

\* ... and those not created ...
LEMMA KeepUnborn == UnbornFresh /\ UNCHANGED <<owner, resource, incoming, stopped>>
                      => UnbornFresh'
BY DEF UnbornFresh, Born

\* ... and those that were told nothing.
LEMMA KeepStart ==
    StartOK /\ UNCHANGED <<owner, dispatchVars, stopped, closer, fsm, timer, pc, target, taken>>
            /\ Grow => StartOK'
BY DEF StartOK, Sending, Grow, Name, Born, dispatchVars

\* The first steps of a process find every part true.
LEMMA EmptyIsFine ==
    ASSUME IInv', Empty'
    PROVE  /\ Versioned' /\ Alone' /\ TargetsOK' /\ MapOK' /\ CloserOK'
           /\ AddFresh' /\ UnbornFresh' /\ StartOK'
<1>1. Versioned' /\ Alone' /\ MapOK' /\ AddFresh' /\ UnbornFresh'
  BY DEF Empty, Versioned, Alone, MapOK, AddFresh, UnbornFresh, Busy
<1>2. TargetsOK'
  BY DEF Empty, TargetsOK, Busy
<1>3. Born' = {}
  BY DEF Empty, Born
<1>4. CloserOK' /\ StartOK'
  BY <1>3 DEF CloserOK, StartOK
<1> QED
  BY <1>1, <1>2, <1>4

\* A crash empties the process.
LEMMA CrashEmpties == ASSUME NEW n, Crash(n) PROVE Empty'
BY DEF Crash, Empty, Busy

\* A crash keeps the invariant when the name it names is disturbed.
LEMMA CrashPanics ==
    ASSUME IInv', NEW n, Crash(n), TimerDoesNotDelete /\ n \in Names => n \in disturbed
    PROVE  PInv'
BY EmptyIsFine, CrashEmpties DEF Crash, PInv, DownIsEmpty, PanicsOK, PanicsOnlyWhenDisturbed

\* Steps that neither crash nor end a crash.
LEMMA UpStaysUp == ASSUME Up, UNCHANGED panic PROVE DownIsEmpty' /\ PanicsOK'
BY TrackerAssumption DEF Up, DownIsEmpty, PanicsOK, PanicsOnlyWhenDisturbed

\* Items arrive: from the informer or from the rate limiter.
LEMMA ArrivalPanics ==
    ASSUME PInv, Up, Versioned', Grow,
           UNCHANGED <<workerVars, resourceMap, owner, dispatchVars, timer, stopped,
                       machineVars, sweepList, panic>>
    PROVE  PInv'
<1>1. UNCHANGED <<pc, taken, target, closer, fsm, resource, incoming>>
  BY DEF workerVars, dispatchVars, machineVars
<1> QED
  BY <1>1, KeepAlone, KeepTargets, KeepMap, KeepCloser, KeepAddFresh, KeepUnborn,
     KeepStart, UpStaysUp DEF PInv

\* The handlers of the informer keep it ...
LEMMA InformerPanics ==
    ASSUME IInv, PInv, IInv', Informer
    PROVE  PInv'
<1>1. ASSUME NEW u \in UIDs, NEW v \in Versions, NEW o, Enqueue(o, u, v), Grow,
             \A x \in live' : latest'[x] # NoObject
      PROVE  PInv'
  <2>1. v # NoObject
    BY TrackerAssumption
  <2>2. Versioned'
    <3>1. queue \in Seq(QueueItems)
      BY DEF IInv, TypeOK, ClusterOK
    <3>2. \A k \in DOMAIN queue' : queue'[k].version # NoObject
      BY <1>1, <2>1, <3>1 DEF Enqueue, PInv, Versioned
    <3> QED
      BY <1>1, <3>2 DEF Enqueue, PInv, Versioned, workerVars, Busy
  <2> QED
    BY <1>1, <2>2, ArrivalPanics DEF Enqueue
<1>2. /\ latest \in [UIDs -> Versions \cup {NoObject}] /\ live \subseteq UIDs
      /\ NoObject \notin Versions /\ \A x \in live : latest[x] # NoObject
  BY TrackerAssumption DEF IInv, TypeOK, ClusterOK, PInv, Versioned
<1>3. ASSUME NEW u \in UIDs, NEW b \in Objects, InformerAdd(u, b) \/ InformerUpdate(u, b)
      PROVE  PInv'
  <2>1. NextVersion(b) \in Versions
    BY <1>3, NextVersionOK DEF IInv, TypeOK, InformerAdd, InformerUpdate, Appears
  <2>2. CASE InformerAdd(u, b)
    <3>1. Grow
      BY <2>2 DEF InformerAdd, Appears, Grow
    <3>2. \A x \in live' : latest'[x] # NoObject
      <4>1. live' = live \cup {u} /\ latest' = [latest EXCEPT ![u] = NextVersion(b)]
        BY <2>2 DEF InformerAdd, Appears
      <4> QED
        BY <1>2, <2>1, <4>1
    <3>3. Enqueue("ADD", u, NextVersion(b))
      BY <2>2 DEF InformerAdd
    <3> QED
      BY <1>1, <2>1, <3>1, <3>2, <3>3
  <2>3. CASE InformerUpdate(u, b)
    BY <1>1, <1>2, <2>1, <2>3 DEF InformerUpdate, Grow
  <2> QED
    BY <1>3, <2>2, <2>3
<1>4. ASSUME NEW u \in UIDs, NEW v \in UIDs, NEW b \in Objects, InformerReplace(u, v, b)
      PROVE  PInv'
  <2>1. NextVersion(b) \in Versions
    BY <1>4, NextVersionOK DEF IInv, TypeOK, InformerReplace, Appears
  <2> QED
    BY <1>1, <1>2, <1>4, <2>1 DEF InformerReplace, Appears, Grow
<1>5. ASSUME NEW u \in UIDs, InformerDelete(u)
      PROVE  PInv'
  <2>1. latest[u] \in Versions
    BY <1>2, <1>5 DEF InformerDelete
  <2> QED
    BY <1>1, <1>2, <1>5, <2>1 DEF InformerDelete, Grow
<1>6. ASSUME NEW u \in UIDs, InformerTombstone(u)
      PROVE  PInv'
  BY <1>6, CrashPanics, TrackerAssumption DEF InformerTombstone
<1> QED
  BY <1>3, <1>4, <1>5, <1>6 DEF Informer

\* ... and an item that comes back.
LEMMA RetryPanics ==
    ASSUME IInv, PInv, NEW e \in delayed, RetryDue(e)
    PROVE  PInv'
<1>1. queue \in Seq(QueueItems) /\ e \in QueueItems
  BY DEF IInv, TypeOK, ClusterOK
<1>2. \A k \in DOMAIN queue' : queue'[k].version # NoObject
  BY <1>1 DEF RetryDue, PInv, Versioned
<1>3. Versioned'
  BY <1>2 DEF RetryDue, PInv, Versioned, workerVars, clusterVars, Busy
<1> QED
  BY <1>3, ArrivalPanics DEF RetryDue, Grow


\* A worker that goes on with its item, or drops it, meets no other worker.
GoesOn(w) ==
    /\ Busy(w)
    /\ pc' = [pc EXCEPT ![w] = pc'[w]] /\ taken' = [taken EXCEPT ![w] = taken'[w]]
    /\ target' = [target EXCEPT ![w] = target'[w]]
    /\ older' = [older EXCEPT ![w] = older'[w]]
    /\ \/ pc'[w] = "idle" /\ older'[w] = {}
       \/ Busy(w)' /\ taken'[w] = taken[w]

\* Reconcile returns.
LEMMA FinishGoesOn ==
    ASSUME IInv, NEW w \in Workers, Busy(w), Finish(w)
    PROVE  GoesOn(w) /\ pc'[w] = "idle" /\ older'[w] = {}
BY DEF IInv, TypeOK, WorkersOK, Finish, GoesOn

\* The loop over the older namesakes takes another turn, or ends.
LEMMA NextOlderGoesOn ==
    ASSUME IInv, NEW w \in Workers, Busy(w), NEW rest, NextOlder(w, rest)
    PROVE  GoesOn(w) /\ pc'[w] \in {"idle", "stop"} /\ older'[w] = rest
<1>1. CASE rest = {}
  BY <1>1, FinishGoesOn DEF NextOlder
<1>2. CASE rest # {}
  BY <1>2 DEF IInv, TypeOK, WorkersOK, NextOlder, Goto, GoesOn, Busy
<1> QED
  BY <1>1, <1>2

\* A worker goes on to its next step.
LEMMA GotoGoesOn ==
    ASSUME IInv, NEW w \in Workers, Busy(w), NEW label, Goto(w, label), label # "idle",
           UNCHANGED <<taken, target, older>>
    PROVE  GoesOn(w) /\ pc'[w] = label /\ target'[w] = target[w] /\ older'[w] = older[w]
BY DEF IInv, TypeOK, WorkersOK, Goto, GoesOn, Busy

\* Going on leaves a worker alone with its name ...
LEMMA GoesOnAlone ==
    ASSUME IInv, NEW w \in Workers, GoesOn(w), Grow, Alone
    PROVE  Alone'
<1>1. \A x \in Workers \ {w} : pc'[x] = pc[x] /\ taken'[x] = taken[x]
  BY DEF IInv, TypeOK, WorkersOK, GoesOn
<1>2. \A x \in Workers : Busy(x)' => Busy(x) /\ taken'[x] = taken[x]
  BY <1>1 DEF GoesOn, Busy
<1> QED
  BY <1>2 DEF Alone, Subject, Grow

\* ... and its item with a version ...
LEMMA GoesOnVersioned ==
    ASSUME IInv, NEW w \in Workers, GoesOn(w), Versioned, UNCHANGED <<queue, delayed, live, latest>>
    PROVE  Versioned'
<1>1. \A x \in Workers \ {w} : pc'[x] = pc[x] /\ taken'[x] = taken[x]
  BY DEF IInv, TypeOK, WorkersOK, GoesOn
<1>2. \A x \in Workers : Busy(x)' => Busy(x) /\ taken'[x] = taken[x]
  BY <1>1 DEF GoesOn, Busy
<1> QED
  BY <1>2 DEF Versioned

\* What its new place has to fit.
TargetFits(w) ==
    /\ pc[w] \in {"lookup", "add"} => taken[w].op # "DELETE"
    /\ pc[w] = "index" => taken[w].op = "DELETE"
    /\ pc[w] \in {"add", "check", "send"} =>
          /\ Name(target[w]) = Subject(w)
          /\ taken[w].op # "DELETE" => owner[target[w]] = taken[w].uid
    /\ older[w] # {} => Busy(w) /\ Subject(w) \in disturbed
    /\ \A i \in older[w] : Name(i) = Subject(w)

\* ... and, if its target fits, every target fitting ...
LEMMA GoesOnTargets ==
    ASSUME IInv, NEW w \in Workers, GoesOn(w), Grow, TargetsOK, TargetFits(w)', UNCHANGED owner
    PROVE  TargetsOK'
<1>1. \A x \in Workers \ {w} : /\ pc'[x] = pc[x] /\ taken'[x] = taken[x]
                               /\ target'[x] = target[x] /\ older'[x] = older[x]
  BY DEF IInv, TypeOK, WorkersOK, GoesOn
<1> QED
  BY <1>1 DEF TargetsOK, TargetFits, Busy, Subject, Name, Grow

\* ... and, if it does not add one, every ResourceState to add fresh ...
LEMMA GoesOnAddFresh ==
    ASSUME IInv, NEW w \in Workers, GoesOn(w), AddFresh, pc'[w] # "add", UNCHANGED timer,
           \A u \in UIDs : resourceMap'[u] \in {0, resourceMap[u]}
    PROVE  AddFresh'
<1>1. \A x \in Workers \ {w} : pc'[x] = pc[x] /\ target'[x] = target[x]
  BY DEF IInv, TypeOK, WorkersOK, GoesOn
<1>2. \A x \in Workers : pc[x] = "add" => target[x] # 0
  BY DEF IInv, TypeOK, WorkersOK, Born, StatesOK
<1> QED
  BY <1>1, <1>2 DEF AddFresh

\* ... and, if it still sends what it was to send, every ResourceState to be told.
LEMMA GoesOnStart ==
    ASSUME IInv, NEW w \in Workers, GoesOn(w), StartOK, Grow,
           \A i \in Born : Sending(w, i) /\ ~stopped[i] /\ incoming[i] = <<>> => Sending(w, i)',
           UNCHANGED <<owner, dispatchVars, stopped, closer, fsm, timer>>
    PROVE  StartOK'
<1>1. \A x \in Workers \ {w} : /\ pc'[x] = pc[x] /\ taken'[x] = taken[x]
                               /\ target'[x] = target[x]
  BY DEF IInv, TypeOK, WorkersOK, GoesOn
<1>2. UNCHANGED <<owner, resource, incoming, pending, stopped, closer, fsm, timer>>
  BY DEF dispatchVars
<1>3. Born' = Born /\ \A i \in Born : Name(i)' = Name(i)
  BY DEF Name, Born
<1> SUFFICES ASSUME TimerDoesNotDelete, NEW i \in Born, Name(i) \notin disturbed',
                    resource[i] = NoObject
             PROVE  /\ ~stopped[i] /\ closer[i] = "none" /\ fsm[i] # DeletedState /\ pending[i] = {}
                    /\ timer[i] # "done" => fsm[i] = BeginState
                    /\ incoming[i] = <<>> => \E x \in Workers : Sending(x, i)'
                    /\ incoming[i] # <<>> => incoming[i][1] # NoObject
  BY <1>2, <1>3 DEF StartOK
<1>4. Name(i) \notin disturbed
  BY DEF Grow
<1>5. \A x \in Workers \ {w} : Sending(x, i) => Sending(x, i)'
  BY <1>1 DEF Sending
<1>6. ~stopped[i] /\ incoming[i] = <<>> => \E x \in Workers : Sending(x, i)'
  BY <1>4, <1>5 DEF StartOK
<1> QED
  BY <1>4, <1>6 DEF StartOK


\* Parts that the steps of the workers leave alone.
LEMMA WorkerPanics ==
    ASSUME IInv, PInv, Up, NEW w \in Workers, GoesOn(w), Grow,
           TargetFits(w)', MapOK', AddFresh', StartOK', CloserOK', UnbornFresh',
           UNCHANGED <<queue, delayed, live, latest, owner, panic>>
    PROVE  PInv'
BY GoesOnAlone, GoesOnVersioned, GoesOnTargets, UpStaysUp DEF PInv

\* A worker takes an item.
LEMMA TakePanics ==
    ASSUME IInv, PInv, NEW w \in Workers, Take(w)
    PROVE  PInv'
<1> DEFINE e == Head(queue)
<1>1. /\ queue # <<>> /\ queue \in Seq(QueueItems) /\ pc[w] = "idle"
      /\ e = queue[1] /\ e \in QueueItems /\ queue' \in Seq(QueueItems)
      /\ \A k \in DOMAIN queue' : queue'[k] = queue[k + 1] /\ k + 1 \in DOMAIN queue
      /\ 1 \in DOMAIN queue
  BY DEF IInv, TypeOK, ClusterOK, Take
<1>2. /\ \A x \in Workers \ {w} : pc'[x] = pc[x] /\ taken'[x] = taken[x]
      /\ taken'[w] = e /\ pc'[w] \in {"index", "lookup"}
      /\ pc'[w] = "index" <=> e.op = "DELETE"
      /\ UNCHANGED <<target, older>> /\ older[w] = {}
  BY <1>1 DEF IInv, TypeOK, WorkersOK, Take, Goto, PInv, TargetsOK, Busy
<1>3. /\ UNCHANGED <<live, latest, delayed, target, older, resourceMap, owner, timer,
                     stopped, closer, fsm, resource, incoming, pending, panic>>
      /\ Up
  BY DEF Take, clusterVars, dispatchVars, machineVars
<1>4. Grow
  BY DEF Take, Grow
<1>5. Versioned'
  BY <1>1, <1>2, <1>3 DEF PInv, Versioned, Busy
<1>6. Alone'
  <2>1. \A x \in Workers \ {w} : Busy(x) /\ Subject(x) = NameOf[e.uid]
                                    => NameOf[e.uid] \in disturbed'
    BY DEF Take, Busy
  <2> SUFFICES ASSUME NEW x \in Workers, NEW y \in Workers, x # y, Busy(x)', Busy(y)',
                      Subject(x)' = Subject(y)'
               PROVE  Subject(x)' \in disturbed'
    BY DEF Alone
  <2>2. CASE x # w /\ y # w
    BY <1>2, <1>4, <2>2 DEF PInv, Alone, Busy, Subject, Grow
  <2>3. CASE x = w
    <3>1. Busy(y) /\ Subject(y) = NameOf[e.uid] /\ Subject(x)' = NameOf[e.uid]
      BY <1>2, <2>3 DEF Busy, Subject
    <3> QED
      BY <2>1, <2>3, <3>1
  <2>4. CASE y = w
    <3>1. Busy(x) /\ Subject(x) = NameOf[e.uid] /\ Subject(x)' = NameOf[e.uid]
      BY <1>2, <2>4 DEF Busy, Subject
    <3> QED
      BY <2>1, <2>4, <3>1
  <2> QED
    BY <2>2, <2>3, <2>4
<1>7. TargetsOK'
  BY <1>2, <1>3, <1>4 DEF PInv, TargetsOK, Busy, Subject, Name, Grow
<1>8. AddFresh'
  BY <1>2, <1>3 DEF PInv, AddFresh
<1>9. StartOK'
  <2>1. \A i \in Born, x \in Workers : Sending(x, i) => Sending(x, i)'
    BY <1>1, <1>2, <1>3 DEF Sending
  <2>2. Born' = Born /\ \A i \in Born : Name(i)' = Name(i)
    BY <1>3 DEF Name, Born
  <2> QED
    BY <1>3, <1>4, <2>1, <2>2 DEF PInv, StartOK, Grow
<1> QED
  BY <1>3, <1>4, <1>5, <1>6, <1>7, <1>8, <1>9, KeepMap, KeepCloser, KeepUnborn, UpStaysUp
  DEF PInv

\* DELETE finds the ResourceStates of the name.
LEMMA ByIndexPanics ==
    ASSUME IInv, PInv, NEW w \in Workers, ByIndex(w)
    PROVE  PInv'
<1> DEFINE found == {i \in Mapped : Name(i) = Subject(w)}
<1>1. /\ UNCHANGED <<queue, delayed, live, latest, resourceMap, owner, dispatchVars,
                     timer, stopped, closer, fsm, panic>>
      /\ UNCHANGED <<resource, incoming>>
      /\ Up /\ Busy(w) /\ pc[w] = "index" /\ Grow /\ w \in Workers
  BY DEF ByIndex, clusterVars, queueVars, machineVars, dispatchVars, Busy, Grow
<1>2. taken[w].op = "DELETE"
  BY <1>1 DEF PInv, TargetsOK
<1>3. GoesOn(w) /\ TargetFits(w)' /\ pc'[w] # "add"
  <2>1. CASE found = {}
    <3>1. GoesOn(w) /\ pc'[w] = "idle" /\ older'[w] = {}
      BY <1>1, <2>1, FinishGoesOn DEF ByIndex
    <3> QED
      BY <3>1 DEF TargetFits
  <2>2. CASE found # {}
    <3>1. found \in SUBSET Born
      BY DEF IInv, TypeOK, StatesOK, Mapped, Born
    <3>2. Max(found) \in found
      BY <2>2, <3>1, MaxOK DEF IInv, TypeOK
    <3> HIDE DEF found
    <3>3. /\ target' = [target EXCEPT ![w] = Max(found)]
          /\ older' = [older EXCEPT ![w] = found \ {Max(found)}]
          /\ pc' = [pc EXCEPT ![w] = "check"] /\ UNCHANGED <<taken, owner>>
          /\ (\E i \in found : owner[i] # taken[w].uid) => Subject(w) \in disturbed'
      BY <2>2 DEF ByIndex, Goto, found
    <3>4. /\ target'[w] = Max(found) /\ older'[w] = found \ {Max(found)} /\ pc'[w] = "check"
          /\ taken'[w] = taken[w]
      BY <3>3 DEF IInv, TypeOK, WorkersOK
    <3>5. GoesOn(w)
      <4>1. taken \in [Workers -> QueueItems \cup {NoEvent}]
        BY DEF IInv, TypeOK, WorkersOK
      <4>2. Busy(w) /\ Busy(w)'
        BY <1>1, <3>4 DEF Busy
      <4> QED
        BY <3>3, <3>4, <4>1, <4>2 DEF GoesOn
    <3>6. found \ {Max(found)} # {} => Subject(w) \in disturbed'
      <4>1. \A i \in found : i = resourceMap[owner[i]]
        BY DEF found, Mapped, PInv, MapOK
      <4> QED
        BY <3>2, <3>3, <4>1
    <3>7. \A i \in found : Name(i)' = Subject(w)
      BY <3>3 DEF found, Name
    <3>8. Subject(w)' = Subject(w) /\ Busy(w)'
      BY <3>4 DEF Subject, Busy
    <3> QED
      BY <1>2, <3>2, <3>4, <3>5, <3>6, <3>7, <3>8 DEF TargetFits
  <2> QED
    BY <2>1, <2>2
<1>4. AddFresh'
  BY <1>1, <1>3, GoesOnAddFresh DEF PInv
<1>5. StartOK'
  <2>1. \A i \in Born : ~Sending(w, i)
    BY <1>1 DEF Sending
  <2> QED
    BY <1>1, <1>3, <2>1, GoesOnStart DEF PInv
<1> QED
  BY <1>1, <1>3, <1>4, <1>5, WorkerPanics, KeepMap, KeepCloser, KeepUnborn DEF PInv

\* ADD and Update find the ResourceState of the UID ...
LEMMA LookupHitPanics ==
    ASSUME IInv, PInv, NEW w \in Workers, LookupHit(w)
    PROVE  PInv'
<1>1. /\ UNCHANGED <<queue, delayed, live, latest, resourceMap, owner, dispatchVars,
                     timer, stopped, closer, fsm, panic, taken, older>>
      /\ UNCHANGED <<resource, incoming>>
      /\ Up /\ Busy(w) /\ pc[w] = "lookup" /\ Grow
  BY DEF LookupHit, clusterVars, queueVars, machineVars, dispatchVars, Busy, Grow
<1>2. /\ target' = [target EXCEPT ![w] = resourceMap[taken[w].uid]]
      /\ pc' = [pc EXCEPT ![w] = "check"]
      /\ target'[w] = resourceMap[taken[w].uid] /\ pc'[w] = "check"
  BY DEF LookupHit, Goto, IInv, TypeOK, WorkersOK
<1>3. taken[w].uid \in UIDs /\ owner[resourceMap[taken[w].uid]] = taken[w].uid
  BY DEF LookupHit, IInv, TypeOK, WorkersOK, QueueItems, PInv, MapOK
<1>4. GoesOn(w)
  BY <1>1, <1>2 DEF GoesOn, Busy, IInv, TypeOK, WorkersOK
<1>5. TargetFits(w)'
  <2>1. older[w] # {} => Subject(w) \in disturbed
    BY DEF PInv, TargetsOK
  <2>2. \A i \in older[w] : Name(i) = Subject(w)
    BY DEF PInv, TargetsOK
  <2>3. Subject(w)' = Subject(w) /\ Busy(w)'
    BY <1>1, <1>2 DEF Subject, Busy
  <2> QED
    BY <1>1, <1>2, <1>3, <2>1, <2>2, <2>3 DEF TargetFits, Name, Subject, Grow
<1>6. AddFresh'
  BY <1>1, <1>2, <1>4, GoesOnAddFresh DEF PInv
<1>7. StartOK'
  <2>1. \A i \in Born : ~Sending(w, i)
    BY <1>1 DEF Sending
  <2> QED
    BY <1>1, <1>4, <2>1, GoesOnStart DEF PInv
<1> QED
  BY <1>1, <1>4, <1>5, <1>6, <1>7, WorkerPanics, KeepMap, KeepCloser, KeepUnborn DEF PInv


\* ... or make one ...
LEMMA LookupMissPanics ==
    ASSUME IInv, PInv, NEW w \in Workers, LookupMiss(w)
    PROVE  PInv'
<1> DEFINE u == taken[w].uid
<1>0. PICK n : n = Len(owner) + 1
  OBVIOUS
<1>1. /\ UNCHANGED <<queue, delayed, live, latest, resourceMap, dispatchVars,
                     timer, stopped, closer, fsm, panic, taken, older>>
      /\ UNCHANGED <<resource, incoming, pending>>
      /\ Up /\ Busy(w) /\ pc[w] = "lookup" /\ Grow
  BY DEF LookupMiss, clusterVars, queueVars, machineVars, dispatchVars, Busy, Grow
<1>2. /\ target' = [target EXCEPT ![w] = n] /\ pc' = [pc EXCEPT ![w] = "add"]
      /\ target'[w] = n /\ pc'[w] = "add"
      /\ \A x \in Workers \ {w} : pc'[x] = pc[x] /\ target'[x] = target[x]
  BY <1>0 DEF LookupMiss, Goto, IInv, TypeOK, WorkersOK
<1>3. u \in UIDs /\ taken[w].op # "DELETE"
  BY <1>1 DEF IInv, TypeOK, WorkersOK, QueueItems, Busy, PInv, TargetsOK
<1>4. GoesOn(w)
  BY <1>1, <1>2 DEF GoesOn, Busy, IInv, TypeOK, WorkersOK
<1>5. /\ Born' = Born \cup {n} /\ n \notin Born /\ owner'[n] = u /\ n \in Instances
      /\ \A i \in Born : owner'[i] = owner[i] /\ Name(i)' = Name(i)
  <2>1. owner \in Seq(UIDs) /\ owner' = Append(owner, u) /\ Len(owner) < MaxStates
    BY DEF LookupMiss, IInv, TypeOK, StatesOK
  <2> QED
    BY <1>0, <1>3, <2>1, TrackerAssumption DEF Born, Instances, Name
<1>6. TargetsOK'
  <2>1. \A x \in Workers : target[x] \in {0} \cup Born /\ older[x] \subseteq Born
    BY DEF IInv, TypeOK, WorkersOK
  <2>2. \A x \in Workers : pc[x] \in {"add", "check", "send"} => target[x] \in Born
    BY DEF IInv, TypeOK, WorkersOK
  <2> SUFFICES ASSUME NEW x \in Workers PROVE TargetFits(x)'
    BY DEF TargetsOK, TargetFits
  <2>3. TargetFits(x)
    BY DEF PInv, TargetsOK, TargetFits
  <2>4. Subject(x)' = Subject(x) /\ (Busy(x) => Busy(x)')
    BY <1>1, <1>2 DEF Subject, Busy
  <2>5. \A i \in older'[x] : Name(i)' = Subject(x)'
    BY <1>1, <1>5, <2>1, <2>3, <2>4 DEF TargetFits
  <2>6. CASE x = w
    <3>1. Name(n)' = Subject(x)'
      BY <1>1, <1>5, <2>6 DEF Name, Subject
    <3> QED
      BY <1>1, <1>2, <1>3, <1>5, <2>3, <2>4, <2>5, <2>6, <3>1 DEF TargetFits, Grow
  <2>7. CASE x # w
    BY <1>1, <1>2, <1>5, <2>2, <2>3, <2>4, <2>5, <2>7 DEF TargetFits, Grow
  <2> QED
    BY <2>6, <2>7
<1>7. MapOK'
  BY <1>1, <1>5 DEF PInv, MapOK, IInv, TypeOK, StatesOK
<1>8. CloserOK'
  <2>1. closer[n] = "none"
    BY <1>5 DEF IInv, UnbornIdle
  <2> QED
    BY <1>1, <1>5, <2>1 DEF PInv, CloserOK, Grow
<1>9. AddFresh'
  <2>1. timer[n] = "off"
    BY <1>5 DEF IInv, UnbornIdle
  <2>2. \A x \in Workers : pc[x] = "add" => target[x] \in Born
    BY DEF IInv, TypeOK, WorkersOK
  <2>3. \A v \in UIDs : resourceMap[v] # n
    BY <1>5 DEF IInv, TypeOK, StatesOK, Born
  <2> QED
    BY <1>1, <1>2, <1>5, <2>1, <2>2, <2>3 DEF PInv, AddFresh
<1>10. UnbornFresh'
  BY <1>1, <1>5 DEF PInv, UnbornFresh
<1>11. StartOK'
  <2> SUFFICES ASSUME TimerDoesNotDelete, NEW i \in Born', Name(i)' \notin disturbed',
                    resource[i] = NoObject
             PROVE  /\ ~stopped[i] /\ closer[i] = "none" /\ fsm[i] # DeletedState /\ pending[i] = {}
                    /\ timer[i] # "done" => fsm[i] = BeginState
                    /\ incoming[i] = <<>> => \E x \in Workers : Sending(x, i)'
                    /\ incoming[i] # <<>> => incoming[i][1] # NoObject
    BY <1>1 DEF StartOK
  <2>1. CASE i = n
    <3>1. /\ ~stopped[i] /\ incoming[i] = <<>> /\ closer[i] = "none" /\ fsm[i] = BeginState
          /\ pending[i] = {}
      BY <1>5, <2>1 DEF PInv, UnbornFresh, IInv, UnbornIdle
    <3>2. Sending(w, i)'
      BY <1>1, <1>2, <1>3, <2>1 DEF Sending
    <3> QED
      BY <3>1, <3>2, TransitionsAssumption
  <2>2. CASE i # n
    <3>1. i \in Born /\ Name(i) \notin disturbed
      BY <1>1, <1>5, <2>2 DEF Grow
    <3>2. \A x \in Workers : Sending(x, i) => Sending(x, i)'
      BY <1>1, <1>2 DEF Sending
    <3> QED
      BY <3>1, <3>2 DEF PInv, StartOK
  <2> QED
    BY <2>1, <2>2
<1> QED
  BY <1>1, <1>4, <1>6, <1>7, <1>8, <1>9, <1>10, <1>11, GoesOnAlone, GoesOnVersioned, UpStaysUp
  DEF PInv

\* ... or fail to.
LEMMA LookupFailsPanics ==
    ASSUME IInv, PInv, NEW w \in Workers, LookupFails(w)
    PROVE  PInv'
<1>1. /\ UNCHANGED <<queue, live, latest, resourceMap, owner, dispatchVars,
                     timer, stopped, closer, fsm, panic>>
      /\ UNCHANGED <<resource, incoming>>
      /\ Up /\ Busy(w) /\ pc[w] = "lookup" /\ Grow
  BY DEF LookupFails, clusterVars, machineVars, dispatchVars, Busy, Grow
<1>2. GoesOn(w) /\ pc'[w] = "idle" /\ older'[w] = {}
  BY <1>1, FinishGoesOn DEF LookupFails
<1>3. TargetsOK'
  BY <1>1, <1>2, GoesOnTargets DEF PInv, TargetFits
<1>4. Versioned'
  <2>1. \A x \in Workers : Busy(x)' => Busy(x) /\ taken'[x] = taken[x]
    BY <1>2 DEF GoesOn, Busy, IInv, TypeOK, WorkersOK
  <2>2. taken[w].version # NoObject
    BY <1>1 DEF PInv, Versioned
  <2>3. delayed' \subseteq delayed \cup {taken[w]}
    BY DEF LookupFails
  <2> QED
    BY <1>1, <2>1, <2>2, <2>3 DEF PInv, Versioned
<1>5. AddFresh'
  BY <1>1, <1>2, GoesOnAddFresh DEF PInv
<1>6. StartOK'
  <2>1. \A i \in Born : ~Sending(w, i)
    BY <1>1 DEF Sending
  <2> QED
    BY <1>1, <1>2, <2>1, GoesOnStart DEF PInv
<1> QED
  BY <1>1, <1>2, <1>3, <1>4, <1>5, <1>6, GoesOnAlone, UpStaysUp, KeepMap, KeepCloser,
     KeepUnborn DEF PInv

\* The ResourceState enters the map.
LEMMA AddStatePanics ==
    ASSUME IInv, PInv, NEW w \in Workers, AddState(w)
    PROVE  PInv'
<1> DEFINE i == target[w]
<1>1. /\ UNCHANGED <<queue, delayed, live, latest, owner, stopped, closer, fsm, panic>>
      /\ UNCHANGED <<resource, incoming, pending, taken, target, older>>
      /\ Up /\ Busy(w) /\ pc[w] = "add" /\ Grow
  BY DEF AddState, clusterVars, queueVars, machineVars, Busy, Grow
<1>2. GoesOn(w) /\ pc'[w] = "check"
  BY <1>1, GotoGoesOn DEF AddState
<1>3. i \in Born /\ owner[i] = taken[w].uid /\ owner[i] \in UIDs /\ i \in Instances
  BY <1>1, BornAreInstances
  DEF IInv, TypeOK, WorkersOK, PInv, TargetsOK, QueueItems, Busy
<1>4. /\ resourceMap' = [resourceMap EXCEPT ![owner[i]] = i]
      /\ timer' = [timer EXCEPT ![i] = IF HasTimer THEN "armed" ELSE "off"]
      /\ timer[i] = "off"
  BY <1>1 DEF AddState, PInv, AddFresh
<1>5. TargetFits(w)'
  <2>1. TargetFits(w) /\ TargetFits(w)
    BY DEF PInv, TargetsOK, TargetFits
  <2>2. Subject(w)' = Subject(w) /\ Busy(w)' /\ \A j \in Born : Name(j)' = Name(j)
    BY <1>1, <1>2 DEF Subject, Busy, Name
  <2>3. older[w] \subseteq Born
    BY DEF IInv, TypeOK, WorkersOK
  <2> QED
    BY <1>1, <1>2, <1>3, <2>1, <2>2, <2>3 DEF TargetFits, Grow
<1>6. MapOK'
  BY <1>1, <1>3, <1>4 DEF PInv, MapOK, IInv, TypeOK, StatesOK
<1>7. AddFresh'
  <2>1. \A x \in Workers \ {w} : pc'[x] = pc[x] /\ target'[x] = target[x]
    BY <1>2 DEF GoesOn, IInv, TypeOK, WorkersOK
  <2>2. \A x \in Workers \ {w} : pc[x] = "add" => target[x] # i /\ target[x] \in Instances
    BY <1>1, BornAreInstances DEF PInv, AddFresh, IInv, TypeOK, WorkersOK
  <2> SUFFICES ASSUME NEW x \in Workers, pc'[x] = "add"
               PROVE  /\ timer'[target'[x]] = "off"
                      /\ \A u \in UIDs : resourceMap'[u] # target'[x]
                      /\ \A y \in Workers \ {x} : pc'[y] = "add" => target'[y] # target'[x]
    BY DEF AddFresh
  <2>3. x # w /\ pc[x] = "add" /\ target'[x] = target[x] /\ target[x] # i
    BY <1>2, <2>1, <2>2
  <2>4. timer'[target[x]] = "off"
    BY <1>4, <2>2, <2>3 DEF PInv, AddFresh, IInv, TypeOK, StatesOK
  <2>5. \A u \in UIDs : resourceMap'[u] # target[x]
    BY <1>4, <2>3 DEF PInv, AddFresh, IInv, TypeOK, StatesOK
  <2>6. \A y \in Workers \ {x} : pc'[y] = "add" => target'[y] # target[x]
    BY <1>2, <2>1, <2>3 DEF PInv, AddFresh
  <2> QED
    BY <2>3, <2>4, <2>5, <2>6
<1>8. StartOK'
  <2>1. \A x \in Workers, j \in Born : Sending(x, j) => Sending(x, j)'
    BY <1>1, <1>2 DEF Sending, GoesOn, IInv, TypeOK, WorkersOK
  <2>2. \A j \in Born : timer'[j] # "done" => timer[j] # "done"
    BY <1>3, <1>4, BornAreInstances DEF IInv, TypeOK, StatesOK
  <2>3. Born' = Born /\ \A j \in Born : Name(j)' = Name(j)
    BY <1>1 DEF Born, Name
  <2> QED
    BY <1>1, <2>1, <2>2, <2>3 DEF PInv, StartOK, Grow
<1> QED
  BY <1>1, <1>2, <1>5, <1>6, <1>7, <1>8, WorkerPanics, KeepCloser, KeepUnborn DEF PInv

\* EnqueueEvent reads Stopped.
LEMMA CheckPanics ==
    ASSUME IInv, PInv, NEW w \in Workers, Check(w)
    PROVE  PInv'
<1>1. /\ UNCHANGED <<queue, delayed, live, latest, resourceMap, owner, dispatchVars,
                     timer, stopped, closer, fsm, panic>>
      /\ UNCHANGED <<resource, incoming>>
      /\ Up /\ Busy(w) /\ pc[w] = "check" /\ Grow
  BY DEF Check, clusterVars, queueVars, machineVars, dispatchVars, Busy, Grow
<1>2. TargetFits(w)
  BY DEF PInv, TargetsOK, TargetFits
<1>3. /\ GoesOn(w) /\ TargetFits(w)' /\ pc'[w] # "add"
      /\ ~stopped[target[w]] => /\ pc'[w] = "send"
                                /\ UNCHANGED <<taken, target>>
  <2>1. CASE stopped[target[w]]
    <3>1. GoesOn(w) /\ pc'[w] \in {"idle", "stop"} /\ older'[w] = older[w]
      BY <1>1, <2>1, NextOlderGoesOn DEF Check
    <3> QED
      BY <1>1, <1>2, <2>1, <3>1 DEF TargetFits, GoesOn, Busy, Subject, Name, Grow
  <2>2. CASE ~stopped[target[w]]
    <3>1. GoesOn(w) /\ pc'[w] = "send" /\ target'[w] = target[w] /\ older'[w] = older[w]
      BY <1>1, <2>2, GotoGoesOn DEF Check
    <3>2. UNCHANGED <<taken, target>>
      BY <2>2 DEF Check
    <3> QED
      BY <1>1, <1>2, <2>2, <3>1, <3>2 DEF TargetFits, Busy, Subject, Name, Grow
  <2> QED
    BY <2>1, <2>2
<1>4. AddFresh'
  BY <1>1, <1>3, GoesOnAddFresh DEF PInv
<1>5. StartOK'
  <2>1. \A i \in Born : Sending(w, i) /\ ~stopped[i] => Sending(w, i)'
    BY <1>3 DEF Sending
  <2> QED
    BY <1>1, <1>3, <2>1, GoesOnStart DEF PInv
<1> QED
  BY <1>1, <1>3, <1>4, <1>5, WorkerPanics, KeepMap, KeepCloser, KeepUnborn DEF PInv


\* It sends: the first thing a ResourceState is told is a version, unless its name is
\* disturbed.
LEMMA SendPanics ==
    ASSUME IInv, PInv, NEW w \in Workers, Send(w)
    PROVE  PInv'
<1> DEFINE i == target[w]
           v == IF taken[w].op = "DELETE" THEN NoObject ELSE taken[w].version
<1>1. /\ UNCHANGED <<queue, delayed, live, latest, resourceMap, owner, resource, pending,
                     timer, stopped, closer, fsm, panic>>
      /\ Up /\ Busy(w) /\ pc[w] = "send" /\ Grow /\ i \in Born /\ i \in Instances
  BY BornAreInstances
  DEF Send, clusterVars, queueVars, machineVars, Busy, Grow, IInv, TypeOK, WorkersOK
<1>2. GoesOn(w) /\ pc'[w] \in {"idle", "stop"} /\ older'[w] = older[w]
  BY <1>1, NextOlderGoesOn DEF Send
<1>3. TargetFits(w)'
  <2>1. TargetFits(w)
    BY DEF PInv, TargetsOK, TargetFits
  <2> QED
    BY <1>1, <1>2, <2>1 DEF TargetFits, GoesOn, Busy, Subject, Name, Grow
<1>4. AddFresh'
  BY <1>1, <1>2, GoesOnAddFresh DEF PInv
<1>5. \A j \in Instances : /\ j # i => incoming'[j] = incoming[j]
                           /\ incoming'[i] = Append(incoming[i], v)
                           /\ incoming[i] \in Seq(Versions \cup {NoObject})
  BY <1>1 DEF Send, IInv, TypeOK, StatesOK
<1>6. UnbornFresh'
  BY <1>1, <1>5 DEF PInv, UnbornFresh, Born
<1>7. StartOK'
  <2> SUFFICES ASSUME TimerDoesNotDelete, NEW j \in Born, Name(j) \notin disturbed',
                    resource[j] = NoObject
             PROVE  /\ ~stopped[j] /\ closer[j] = "none" /\ fsm[j] # DeletedState /\ pending[j] = {}
                    /\ timer[j] # "done" => fsm[j] = BeginState
                    /\ incoming'[j] = <<>> => \E x \in Workers : Sending(x, j)'
                    /\ incoming'[j] # <<>> => incoming'[j][1] # NoObject
    BY <1>1 DEF StartOK, Name, Born
  <2>1. Name(j) \notin disturbed
    BY <1>1 DEF Grow
  <2>2. CASE j = i
    <3>1. incoming[i] = <<>> => v # NoObject
      <4>1. ASSUME incoming[i] = <<>> PROVE taken[w].op # "DELETE"
        <5>1. PICK x \in Workers : Sending(x, i)
          BY <2>1, <2>2, <4>1 DEF PInv, StartOK
        <5>2. Name(i) = Subject(w) /\ Name(i) = Subject(x) /\ Busy(x)
          BY <1>1, <5>1 DEF PInv, TargetsOK, Sending, Busy
        <5>3. x = w
          BY <1>1, <2>1, <2>2, <5>2 DEF PInv, Alone
        <5> QED
          BY <5>1, <5>3 DEF Sending
      <4>2. taken[w].version # NoObject
        BY <1>1 DEF PInv, Versioned
      <4> QED
        BY <4>1, <4>2
    <3>2. incoming'[i] # <<>> /\ incoming'[i][1] # NoObject
      <4>1. incoming[i] # <<>> => incoming[i][1] # NoObject
        BY <2>1, <2>2 DEF PInv, StartOK
      <4> QED
        BY SMTT(30), <1>1, <1>5, <3>1, <4>1
    <3> QED
      BY <2>1, <2>2, <3>2 DEF PInv, StartOK
  <2>3. CASE j # i
    <3>1. \A x \in Workers : Sending(x, j) => Sending(x, j)'
      BY <1>2, <2>3 DEF Sending, GoesOn, IInv, TypeOK, WorkersOK
    <3>2. incoming'[j] = incoming[j]
      BY <1>1, <1>5, <2>3, BornAreInstances DEF IInv, TypeOK
    <3> QED
      BY <2>1, <3>1, <3>2 DEF PInv, StartOK
  <2> QED
    BY <2>2, <2>3
<1> QED
  BY <1>1, <1>2, <1>3, <1>4, <1>6, <1>7, WorkerPanics, KeepMap, KeepCloser DEF PInv

\* A worker that stops older namesakes handles a disturbed name.
LEMMA OlderAreDisturbed ==
    ASSUME IInv, PInv, NEW w \in Workers, pc[w] \in {"stop", "close", "unmap"}
    PROVE  /\ Max(older[w]) \in Born /\ Max(older[w]) \in older[w]
           /\ Name(Max(older[w])) = Subject(w) /\ Subject(w) \in disturbed
<1>1. older[w] # {} /\ older[w] \in SUBSET Born
  BY DEF IInv, TypeOK, WorkersOK
<1>2. Max(older[w]) \in older[w]
  BY <1>1, MaxOK DEF IInv, TypeOK
<1> QED
  BY <1>1, <1>2 DEF PInv, TargetsOK

\* The loop over the older namesakes, which is the one that crashes.
LEMMA OlderPanics ==
    ASSUME IInv, PInv, IInv', NEW w \in Workers,
           StopOlder(w) \/ CloseOlder(w) \/ UnmapOlder(w)
    PROVE  PInv'
<1> DEFINE i == Max(older[w])
<1>1. /\ Up /\ Busy(w) /\ pc[w] \in {"stop", "close", "unmap"}
      /\ i \in Born /\ i \in older[w] /\ Name(i) = Subject(w) /\ Subject(w) \in disturbed
      /\ i \in Instances /\ Name(i) \in Names
  <2>1. Up /\ pc[w] \in {"stop", "close", "unmap"}
    BY DEF StopOlder, CloseOlder, UnmapOlder
  <2> QED
    BY <2>1, OlderAreDisturbed, BornAreInstances, NameOK DEF IInv, TypeOK, Busy
<1>2. TargetFits(w)
  BY DEF PInv, TargetsOK, TargetFits
<1>3. ASSUME Crash(Name(i)) PROVE PInv'
  BY <1>1, <1>3, CrashPanics
<1>4. \A j \in Born : ~Sending(w, j)
  BY <1>1 DEF Sending
<1>5. CASE StopOlder(w)
  <2>1. /\ UNCHANGED <<queue, delayed, live, latest, resourceMap, owner, dispatchVars,
                       timer, stopped, closer, fsm, panic, taken, target, older, disturbed>>
        /\ UNCHANGED <<resource, incoming>> /\ Grow
    BY <1>5 DEF StopOlder, clusterVars, queueVars, machineVars, dispatchVars, Grow
  <2>2. GoesOn(w) /\ pc'[w] \in {"unmap", "close"}
    BY <1>1, <1>5, <2>1, GotoGoesOn DEF StopOlder
  <2>3. TargetFits(w)'
    BY <1>2, <2>1, <2>2 DEF TargetFits, Busy, Subject, Name
  <2>4. AddFresh' /\ StartOK'
    BY <1>4, <2>1, <2>2, GoesOnAddFresh, GoesOnStart DEF PInv
  <2> QED
    BY <1>1, <2>1, <2>2, <2>3, <2>4, WorkerPanics, KeepMap, KeepCloser, KeepUnborn DEF PInv
<1>6. CASE CloseOlder(w) /\ ~stopped[i]
  <2>1. /\ UNCHANGED <<queue, delayed, live, latest, resourceMap, owner, dispatchVars,
                       timer, closer, fsm, panic, taken, target, older, disturbed>>
        /\ UNCHANGED <<resource, incoming, pending>> /\ Grow
        /\ stopped' = [stopped EXCEPT ![i] = TRUE] /\ Goto(w, "unmap")
    BY <1>6 DEF CloseOlder, clusterVars, queueVars, machineVars, dispatchVars, Grow
  <2>2. GoesOn(w) /\ pc'[w] = "unmap"
    BY <1>1, <2>1, GotoGoesOn
  <2>3. TargetFits(w)'
    BY <1>2, <2>1, <2>2 DEF TargetFits, Busy, Subject, Name
  <2>4. AddFresh'
    BY <2>1, <2>2, GoesOnAddFresh DEF PInv
  <2>5. \A j \in Instances : j # i => stopped'[j] = stopped[j]
    BY <2>1 DEF IInv, TypeOK, MachinesOK
  <2>6. CloserOK' /\ UnbornFresh'
    BY <1>1, <2>1, <2>5, BornAreInstances
    DEF PInv, CloserOK, UnbornFresh, Born, Name, IInv, TypeOK
  <2>7. StartOK'
    <3>1. \A x \in Workers, j \in Born : Sending(x, j) => Sending(x, j)'
      BY <1>4, <2>2 DEF Sending, GoesOn, IInv, TypeOK, WorkersOK
    <3>2. Born' = Born /\ \A j \in Born : Name(j)' = Name(j)
      BY <2>1 DEF Born, Name
    <3>3. \A j \in Born : Name(j) \notin disturbed => stopped'[j] = stopped[j]
      BY <1>1, <2>5, BornAreInstances DEF IInv, TypeOK
    <3> QED
      BY <2>1, <3>1, <3>2, <3>3 DEF PInv, StartOK
  <2> QED
    BY <1>1, <2>1, <2>2, <2>3, <2>4, <2>6, <2>7, WorkerPanics, KeepMap DEF PInv
<1>7. CASE UnmapOlder(w) /\ resource[i] # NoObject
  <2>1. /\ UNCHANGED <<queue, delayed, live, latest, owner, dispatchVars,
                       timer, stopped, closer, fsm, panic, disturbed>>
        /\ UNCHANGED <<resource, incoming>> /\ Grow
        /\ resourceMap' = [resourceMap EXCEPT ![owner[i]] = 0]
        /\ NextOlder(w, older[w] \ {i})
    BY <1>7 DEF UnmapOlder, clusterVars, queueVars, machineVars, dispatchVars, Grow
  <2>2. GoesOn(w) /\ pc'[w] \in {"idle", "stop"} /\ older'[w] = older[w] \ {i}
    BY <1>1, <2>1, NextOlderGoesOn
  <2>3. TargetFits(w)'
    BY <1>1, <1>2, <2>1, <2>2 DEF TargetFits, Busy, Subject, Name, GoesOn
  <2>4. \A u \in UIDs : resourceMap'[u] \in {0, resourceMap[u]}
    BY <2>1 DEF IInv, TypeOK, StatesOK
  <2>5. MapOK' /\ AddFresh' /\ StartOK'
    BY <1>4, <2>1, <2>2, <2>4, GoesOnAddFresh, GoesOnStart DEF PInv, MapOK
  <2> QED
    BY <1>1, <2>1, <2>2, <2>3, <2>5, WorkerPanics, KeepCloser, KeepUnborn DEF PInv
<1> QED
  BY <1>3, <1>5, <1>6, <1>7 DEF CloseOlder, UnmapOlder

\* Steps of a ResourceState: its dispatcher and its timer.
MachineOnly ==
    /\ UNCHANGED <<clusterVars, queueVars, workerVars, resourceMap, owner, sweepList, panic,
                   disturbed>>

\* A step of a machine, a dispatcher or a timer keeps the invariant when it keeps these
\* parts of it.
LEMMA MachinePanics ==
    ASSUME IInv, PInv, Up, MachineOnly, AddFresh', CloserOK', UnbornFresh', StartOK'
    PROVE  PInv'
<1>1. /\ UNCHANGED <<queue, delayed, pc, taken, live, latest, resourceMap, owner, panic,
                     workerVars>>
      /\ Grow
  BY DEF MachineOnly, clusterVars, queueVars, workerVars, Grow
<1> QED
  BY <1>1, KeepVersioned, KeepAlone, KeepTargets, KeepMap, UpStaysUp DEF PInv

\* What may become of one ResourceState: the others stay as they are.
LEMMA StartStep ==
    ASSUME IInv, PInv, MachineOnly, NEW i \in Instances,
           \A j \in Instances \ {i} :
              /\ resource'[j] = resource[j] /\ incoming'[j] = incoming[j]
              /\ pending'[j] = pending[j] /\ stopped'[j] = stopped[j]
              /\ closer'[j] = closer[j] /\ fsm'[j] = fsm[j] /\ timer'[j] = timer[j],
           TimerDoesNotDelete /\ i \in Born /\ Name(i) \notin disturbed /\ resource'[i] = NoObject =>
              /\ resource[i] = NoObject /\ incoming'[i] = incoming[i]
              /\ ~stopped'[i] /\ closer'[i] = "none" /\ fsm'[i] # DeletedState
              /\ pending'[i] = {}
              /\ timer'[i] # "done" => fsm'[i] = BeginState
    PROVE  StartOK'
<1>1. /\ Born' = Born /\ \A j \in Born : Name(j)' = Name(j)
      /\ \A x \in Workers, j \in Born : Sending(x, j) => Sending(x, j)'
      /\ disturbed' = disturbed /\ Born \subseteq Instances
  BY BornAreInstances DEF MachineOnly, workerVars, Born, Name, Sending, IInv, TypeOK
<1> QED
  BY <1>1 DEF PInv, StartOK


\* The dispatcher receives.
LEMMA ReceivePanics ==
    ASSUME IInv, PInv, NEW i \in Instances, Receive(i)
    PROVE  PInv'
<1>1. /\ MachineOnly /\ Up /\ running[i] /\ incoming[i] # <<>> /\ pending[i] = {}
      /\ UNCHANGED <<stopped, closer, fsm, timer, pc, target, resourceMap, owner>> /\ Grow
  BY DEF Receive, Dispatching, MachineOnly, clusterVars, queueVars, workerVars, machineVars, Grow
<1>2. i \in Born
  BY <1>1 DEF IInv, UnbornIdle
<1>3. /\ incoming[i] \in Seq(Versions \cup {NoObject}) /\ Head(incoming[i]) = incoming[i][1]
      /\ \A j \in Instances \ {i} : /\ resource'[j] = resource[j] /\ incoming'[j] = incoming[j]
                                    /\ pending'[j] = pending[j]
      /\ resource'[i] = IF incoming[i][1] = NoObject THEN resource[i] ELSE incoming[i][1]
  <2>1. incoming[i] \in Seq(Versions \cup {NoObject}) /\ Head(incoming[i]) = incoming[i][1]
    BY <1>1 DEF IInv, TypeOK, StatesOK
  <2>2. \A j \in Instances \ {i} : /\ resource'[j] = resource[j] /\ incoming'[j] = incoming[j]
                                   /\ pending'[j] = pending[j]
    BY DEF Receive, IInv, TypeOK, StatesOK
  <2>3. resource'[i] = IF incoming[i][1] = NoObject THEN resource[i] ELSE incoming[i][1]
    BY <2>1 DEF Receive, IInv, TypeOK, StatesOK
  <2> QED
    BY <2>1, <2>2, <2>3
<1>4. TimerDoesNotDelete /\ Name(i) \notin disturbed => resource'[i] # NoObject
  BY <1>1, <1>2, <1>3 DEF PInv, StartOK
<1>5. StartOK'
  BY <1>1, <1>3, <1>4, StartStep
<1>6. UnbornFresh'
  BY <1>1, <1>2, <1>3 DEF PInv, UnbornFresh, Born
<1> QED
  BY <1>1, <1>5, <1>6, MachinePanics, KeepCloser, KeepAddFresh DEF PInv

\* An event is fired at one machine.
LEMMA FireOnce ==
    ASSUME IInv, NEW i \in Instances, NEW ev, NEW who \in {"dispatcher", "timer"},
           Fire(i, ev, who)
    PROVE  /\ \A j \in Instances \ {i} : fsm'[j] = fsm[j] /\ closer'[j] = closer[j]
           /\ closer[i] = "none"
           /\ fsm'[i] = fsm[i] \/ fsm'[i] \in Moves(ev, fsm[i])
           /\ closer'[i] = IF fsm'[i] = DeletedState /\ fsm[i] # DeletedState /\ ~stopped[i]
                           THEN who ELSE "none"
<1>1. CASE Moves(ev, fsm[i]) = {} /\ UNCHANGED machineVars
  BY <1>1 DEF Fire, machineVars
<1>2. ASSUME NEW dst \in Moves(ev, fsm[i]), EnterState(i, dst, who)
      PROVE  /\ \A j \in Instances \ {i} : fsm'[j] = fsm[j] /\ closer'[j] = closer[j]
             /\ fsm'[i] = dst /\ dst # fsm[i]
             /\ closer'[i] = IF dst = DeletedState /\ ~stopped[i] THEN who ELSE closer[i]
  BY <1>2 DEF EnterState, IInv, TypeOK, MachinesOK, Moves
<1> QED
  BY <1>1, <1>2 DEF Fire

\* Events do not reach a closer before it has stopped the machine.
LEMMA FireCloses ==
    ASSUME IInv, PInv, NEW i \in Instances, NEW ev, NEW who \in {"dispatcher", "timer"},
           Fire(i, ev, who), UNCHANGED <<stopped, owner, disturbed>>
    PROVE  CloserOK'
<1>1. Born' = Born /\ Born \subseteq Instances /\ \A j \in Born : Name(j)' = Name(j)
  BY BornAreInstances DEF Born, Name, IInv, TypeOK
<1>2. closer'[i] # "none" => ~stopped[i]
  BY FireOnce
<1>3. \A j \in Instances \ {i} : closer'[j] = closer[j]
  BY FireOnce
<1> QED
  BY <1>1, <1>2, <1>3 DEF PInv, CloserOK

\* It fires the next event.
LEMMA FireNextPanics ==
    ASSUME IInv, PInv, NEW i \in Instances, FireNext(i)
    PROVE  PInv'
<1>1. /\ MachineOnly /\ Up /\ pending[i] # {}
      /\ UNCHANGED <<stopped, timer, pc, target, resourceMap, owner, resource, incoming>>
  BY DEF FireNext, MachineOnly, clusterVars, queueVars, workerVars, machineVars
<1>2. CloserOK'
  BY <1>1, FireCloses DEF FireNext, MachineOnly
<1>3. /\ \A j \in Instances \ {i} : fsm'[j] = fsm[j] /\ closer'[j] = closer[j]
      /\ \A j \in Instances \ {i} : pending'[j] = pending[j]
  BY FireOnce DEF FireNext, IInv, TypeOK, StatesOK
<1>4. TimerDoesNotDelete /\ i \in Born /\ Name(i) \notin disturbed => resource[i] # NoObject
  BY <1>1 DEF PInv, StartOK
<1>5. StartOK'
  BY <1>1, <1>3, <1>4, StartStep
<1> QED
  BY <1>1, <1>2, <1>5, MachinePanics, KeepAddFresh, KeepUnborn DEF PInv

\* The timer fires.
LEMMA TimerFiresPanics ==
    ASSUME IInv, PInv, NEW i \in Instances, TimerFires(i)
    PROVE  PInv'
<1>1. /\ MachineOnly /\ Up /\ timer[i] = "armed"
      /\ UNCHANGED <<stopped, pc, target, resourceMap, owner, resource, incoming, pending>>
      /\ timer' = [timer EXCEPT ![i] = "done"] /\ Fire(i, TimerEvent, "timer")
  BY DEF TimerFires, TimerDone, MachineOnly, clusterVars, queueVars, workerVars, dispatchVars
<1>2. CloserOK'
  BY <1>1, FireCloses DEF MachineOnly
<1>3. \A j \in Instances : timer'[j] = IF j = i THEN "done" ELSE timer[j]
  BY <1>1 DEF IInv, TypeOK, StatesOK
<1>4. AddFresh'
  <2>1. \A w \in Workers : pc[w] = "add" => target[w] \in Instances
    BY BornAreInstances DEF IInv, TypeOK, WorkersOK
  <2>2. \A w \in Workers : pc[w] = "add" => timer'[target[w]] = timer[target[w]]
    BY <1>1, <1>3, <2>1 DEF PInv, AddFresh
  <2> QED
    BY <1>1, <2>2 DEF PInv, AddFresh
<1>5. StartOK'
  <2>1. ASSUME TimerDoesNotDelete, i \in Born, Name(i) \notin disturbed, resource[i] = NoObject
        PROVE  closer'[i] = "none" /\ fsm'[i] # DeletedState
    <3>1. ~stopped[i] /\ fsm[i] = BeginState
      BY <1>1, <2>1 DEF PInv, StartOK
    <3>2. fsm'[i] # DeletedState
      BY <1>1, <2>1, <3>1, FireOnce, TransitionsAssumption DEF TimerDoesNotDelete
    <3> QED
      BY <1>1, <3>2, FireOnce
  <2>2. \A j \in Instances \ {i} : fsm'[j] = fsm[j] /\ closer'[j] = closer[j]
    BY <1>1, FireOnce
  <2>3. TimerDoesNotDelete /\ i \in Born /\ Name(i) \notin disturbed /\ resource[i] = NoObject =>
          ~stopped[i] /\ pending[i] = {}
    BY DEF PInv, StartOK
  <2> QED
    BY <1>1, <1>3, <2>1, <2>2, <2>3, StartStep
<1> QED
  BY <1>1, <1>2, <1>4, <1>5, MachinePanics, KeepUnborn DEF PInv

\* The dispatcher ends, and the timer does.
LEMMA StopsPanics ==
    ASSUME IInv, PInv, NEW i \in Instances, ExitDispatcher(i) \/ TimerStops(i)
    PROVE  PInv'
<1>1. /\ MachineOnly /\ Up /\ stopped[i]
      /\ UNCHANGED <<stopped, closer, fsm, pc, target, resourceMap, owner, resource, incoming,
                     pending>>
      /\ timer' = timer \/ (timer[i] = "armed" /\ timer' = [timer EXCEPT ![i] = "done"])
  BY DEF ExitDispatcher, TimerStops, TimerDone, MachineOnly, clusterVars, queueVars, workerVars,
         machineVars, dispatchVars
<1>2. \A j \in Instances \ {i} : timer'[j] = timer[j]
  BY <1>1 DEF IInv, TypeOK, StatesOK
<1>3. AddFresh'
  <2>1. \A w \in Workers : pc[w] = "add" => target[w] \in Instances
    BY BornAreInstances DEF IInv, TypeOK, WorkersOK
  <2>2. \A w \in Workers : pc[w] = "add" => timer'[target[w]] = timer[target[w]]
    BY <1>1, <1>2, <2>1 DEF PInv, AddFresh
  <2> QED
    BY <1>1, <2>2 DEF PInv, AddFresh
<1>4. StartOK'
  <2>1. TimerDoesNotDelete /\ i \in Born /\ Name(i) \notin disturbed => resource[i] # NoObject
    BY <1>1 DEF PInv, StartOK
  <2> QED
    BY <1>1, <1>2, <2>1, StartStep
<1>5. CloserOK' /\ UnbornFresh'
  BY <1>1 DEF PInv, CloserOK, UnbornFresh, Born, Name, MachineOnly
<1> QED
  BY <1>1, <1>3, <1>4, <1>5, MachinePanics

\* A machine in DeletedState stops its ResourceState, which nobody else did.
LEMMA CloseSelfPanics ==
    ASSUME IInv, PInv, IInv', NEW i \in Instances, NEW who \in {"dispatcher", "timer"},
           CloseSelf(i, who)
    PROVE  PInv'
<1>1. i \in Born /\ closer[i] # "none" /\ Up
  BY DEF IInv, UnbornIdle, CloseSelf
<1>2. CASE stopped[i]
  <2>1. Name(i) \in disturbed /\ Name(i) \in Names
    BY <1>1, <1>2, NameOK DEF PInv, CloserOK, IInv, TypeOK
  <2> QED
    BY <1>2, <2>1, CrashPanics DEF CloseSelf
<1>3. CASE ~stopped[i]
  <2>1. /\ MachineOnly
        /\ UNCHANGED <<fsm, timer, pc, target, resourceMap, owner, resource, incoming, pending>>
        /\ \A j \in Instances \ {i} : stopped'[j] = stopped[j] /\ closer'[j] = closer[j]
        /\ closer'[i] = "none"
    BY <1>3 DEF CloseSelf, MachineOnly, clusterVars, queueVars, workerVars, dispatchVars,
                IInv, TypeOK, MachinesOK
  <2>2. StartOK'
    <3>1. TimerDoesNotDelete /\ Name(i) \notin disturbed => resource[i] # NoObject
      BY <1>1 DEF PInv, StartOK
    <3> QED
      BY <2>1, <3>1, StartStep
  <2>3. CloserOK' /\ UnbornFresh'
    BY <1>1, <2>1, BornAreInstances
    DEF PInv, CloserOK, UnbornFresh, Born, Name, MachineOnly, IInv, TypeOK
  <2> QED
    BY <1>1, <2>1, <2>2, <2>3, MachinePanics, KeepAddFresh DEF PInv
<1> QED
  BY <1>2, <1>3

\* The sweeper meets a stopped ResourceState, which was told a version.
LEMMA SweepPanics ==
    ASSUME IInv, PInv, IInv', Sweep
    PROVE  PInv'
<1>1. ASSUME Up, UNCHANGED <<clusterVars, queueVars, workerVars, owner, dispatchVars, timer,
                             stopped, machineVars, panic, disturbed>>,
             \A u \in UIDs : resourceMap'[u] \in {0, resourceMap[u]}
      PROVE  PInv'
  <2>1. /\ UNCHANGED <<queue, delayed, pc, taken, target, live, latest, closer, fsm,
                       resource, incoming>> /\ Grow
    BY <1>1 DEF clusterVars, queueVars, workerVars, dispatchVars, machineVars, Grow
  <2>2. AddFresh'
    <3>1. \A w \in Workers : pc[w] = "add" => target[w] # 0
      BY DEF IInv, TypeOK, WorkersOK, Born, StatesOK
    <3> QED
      BY <1>1, <2>1, <3>1 DEF PInv, AddFresh
  <2>3. MapOK'
    BY <1>1 DEF PInv, MapOK
  <2> QED
    BY <1>1, <2>1, <2>2, <2>3, KeepVersioned, KeepAlone, KeepTargets, KeepCloser, KeepUnborn,
       KeepStart, UpStaysUp DEF PInv
<1>2. CASE SweepTick
  BY <1>1, <1>2 DEF SweepTick
<1>3. ASSUME NEW i \in Instances, SweepVisit(i) PROVE PInv'
  <2>1. i \in Born /\ Up
    BY <1>3 DEF SweepVisit, IInv, TypeOK, StatesOK
  <2>2. CASE stopped[i] /\ resource[i] = NoObject
    <3>1. Name(i) \in Names /\ (TimerDoesNotDelete => Name(i) \in disturbed)
      BY <2>1, <2>2, NameOK DEF PInv, StartOK, IInv, TypeOK
    <3> QED
      BY <1>3, <2>2, <3>1, CrashPanics DEF SweepVisit
  <2>3. CASE ~(stopped[i] /\ resource[i] = NoObject)
    <3>1. \A u \in UIDs : resourceMap'[u] \in {0, resourceMap[u]}
      BY <1>3, <2>3 DEF SweepVisit, IInv, TypeOK, StatesOK
    <3> QED
      BY <1>1, <1>3, <2>1, <2>3, <3>1 DEF SweepVisit
  <2> QED
    BY <2>2, <2>3
<1> QED
  BY <1>2, <1>3 DEF Sweep

\* Nothing changes but that the process stops asking, starts again, or stutters.
LEMMA IdlePanics ==
    ASSUME IInv, PInv, IInv', Stop \/ Restart \/ UNCHANGED vars
    PROVE  PInv'
<1>1. CASE Stop
  <2>1. Versioned'
    BY <1>1, KeepVersioned DEF Stop, queueVars, workerVars, PInv
  <2> QED
    BY <1>1, <2>1, ArrivalPanics DEF Stop, Grow
<1>2. CASE Restart
  <2>1. Empty'
    BY <1>2 DEF Restart, PInv, DownIsEmpty, Empty, clusterVars, queueVars, workerVars,
                dispatchVars, Busy
  <2> QED
    BY <1>2, <2>1, EmptyIsFine, TrackerAssumption DEF Restart, PInv, DownIsEmpty, PanicsOK, PanicsOnlyWhenDisturbed, Up
<1>3. CASE UNCHANGED vars
  <2>1. /\ UNCHANGED <<queue, delayed, pc, taken, target, older, live, latest, closer, fsm,
                       resource, incoming, resourceMap, owner, timer, stopped, sweepList,
                       panic, disturbed, told, workerVars, dispatchVars>> /\ Grow
    BY <1>3 DEF vars, clusterVars, queueVars, workerVars, dispatchVars, machineVars, Grow
  <2>2. DownIsEmpty' /\ PanicsOK'
    BY <2>1 DEF PInv, DownIsEmpty, PanicsOK, PanicsOnlyWhenDisturbed, Empty, Up, Busy
  <2> QED
    BY <2>1, <2>2, KeepVersioned, KeepAlone, KeepTargets, KeepMap, KeepCloser, KeepAddFresh,
       KeepUnborn, KeepStart DEF PInv
<1> QED
  BY <1>1, <1>2, <1>3

\* The invariant holds at first.
LEMMA InitPanics == Init => PInv
<1> SUFFICES ASSUME Init PROVE PInv
  OBVIOUS
<1>1. Empty /\ Born = {} /\ Up
  BY DEF Init, Empty, Busy, Born, Up
<1>2. Versioned /\ Alone /\ MapOK /\ AddFresh /\ UnbornFresh
  BY <1>1 DEF Empty, Versioned, Alone, MapOK, AddFresh, UnbornFresh, Busy
<1>3. TargetsOK
  BY <1>1 DEF Empty, TargetsOK, Busy
<1>4. CloserOK /\ StartOK
  BY <1>1 DEF CloserOK, StartOK
<1> QED
  BY <1>1, <1>2, <1>3, <1>4, TrackerAssumption
  DEF Init, PInv, DownIsEmpty, PanicsOK, PanicsOnlyWhenDisturbed, Up

\* Every step keeps it.
LEMMA NextPanics == ASSUME IInv, PInv, [Next]_vars PROVE PInv'
<1>1. IInv'
  BY NextOK
<1>2. ASSUME NEW w \in Workers, WorkerStep(w) PROVE PInv'
  BY <1>1, <1>2, TakePanics, ByIndexPanics, LookupHitPanics, LookupMissPanics,
     LookupFailsPanics, AddStatePanics, CheckPanics, SendPanics, OlderPanics DEF WorkerStep
<1>3. ASSUME NEW i \in Instances, DispatcherStep(i) \/ TimerStep(i) PROVE PInv'
  BY <1>1, <1>3, ReceivePanics, FireNextPanics, CloseSelfPanics, TimerFiresPanics, StopsPanics
  DEF DispatcherStep, TimerStep
<1> QED
  BY <1>1, <1>2, <1>3, InformerPanics, RetryPanics, SweepPanics, IdlePanics DEF Next

\* It holds in every state.
LEMMA AlwaysPInv == Spec => []PInv
<1>1. IInv /\ PInv /\ [Next]_vars => PInv'
  BY NextPanics
<1> QED
  BY <1>1, InitPanics, AlwaysIInv, PTL DEF Spec

\* Outside the informer's handler, the process crashes only while it handles a name of
\* which two workers had events at once, or whose DELETE found another object's
\* ResourceState: it closes stopCh again, or meets a nil Resource at an older namesake or
\* in the sweeper.  No other sequence of events, restarts, label changes or retries ends
\* it.  A timer whose event led from BeginState to DeletedState would stop a
\* ResourceState that was told nothing yet.
THEOREM CrashesAreDisturbed ==
    ASSUME TimerDoesNotDelete
    PROVE  Spec => []PanicsOnlyWhenDisturbed
<1>1. PInv => PanicsOnlyWhenDisturbed
  BY DEF PInv, PanicsOK
<1> QED
  BY <1>1, AlwaysPInv, PTL
-----------------------------------------------------------------------------
(* VersionsAdvance.  The versions of an object are in order from its       *)
(* ResourceState through the worker and the queue to the informer's store. *)

\* Not later than the last version delivered.
Seen(v, u) == latest[u] # NoObject /\ v.rev <= latest[u].rev

\* A process either never makes a ResourceState or never retries an item.
KindOK ==
    /\ kindKnown => delayed = {}
    /\ ~kindKnown => owner = <<>>

\* The items of an object are in the order of its versions, the worker's before the
\* queue's.
QueueInOrder ==
    /\ \A k \in DOMAIN queue :
          /\ Seen(queue[k].version, queue[k].uid)
          /\ \A j \in DOMAIN queue :
                j <= k /\ queue[j].uid = queue[k].uid
                   => queue[j].version.rev <= queue[k].version.rev
    /\ \A w \in Workers : Busy(w) =>
          /\ Seen(taken[w].version, taken[w].uid)
          /\ \A k \in DOMAIN queue :
                queue[k].uid = taken[w].uid
                   => taken[w].version.rev <= queue[k].version.rev

\* A version that object u's ResourceState has got is overtaken by no later item.
NotAhead(v, u) ==
    v # NoObject =>
        /\ Seen(v, u)
        /\ \A k \in DOMAIN queue : queue[k].uid = u => v.rev <= queue[k].version.rev
        /\ \A w \in Workers : Busy(w) /\ taken[w].uid = u => v.rev <= taken[w].version.rev

\* Version v is not later than x, if both are there.
Ordered(v, x) == v # NoObject /\ x # NoObject => v.rev <= x.rev

\* The versions of a ResourceState are in order, and none is ahead of the worker's and
\* the queue's.
ToldInOrder(i) ==
    /\ NotAhead(resource[i], owner[i])
    /\ \A k \in DOMAIN incoming[i] :
          /\ NotAhead(incoming[i][k], owner[i])
          /\ Ordered(resource[i], incoming[i][k])
          /\ \A j \in DOMAIN incoming[i] : j <= k => Ordered(incoming[i][j], incoming[i][k])

\* The inductive invariant of VersionsAdvance.
VInv ==
    /\ KindOK
    /\ kindKnown => /\ QueueInOrder
                    /\ \A i \in Born : Name(i) \notin disturbed => ToldInOrder(i)

\* A process that has just started has nothing out of order.
LEMMA EmptyIsInOrder == ASSUME Empty' PROVE VInv'
<1>1. Born' = {}
  BY DEF Empty, Born
<1> QED
  BY <1>1 DEF Empty, VInv, KindOK, QueueInOrder, Busy

\* Steps after which no more is under way than before.
LEMMA QuietVersions ==
    ASSUME VInv, Grow, UNCHANGED <<kindKnown, delayed, queue, latest, owner, resource, incoming>>,
           \A w \in Workers : Busy(w)' => Busy(w) /\ taken'[w] = taken[w]
    PROVE  VInv'
<1>1. QueueInOrder => QueueInOrder'
  BY DEF QueueInOrder, Seen
<1>2. Born' = Born /\ \A i \in Born : Name(i)' = Name(i) /\ owner'[i] = owner[i]
  BY DEF Born, Name
<1>3. \A i \in Born : ToldInOrder(i) => ToldInOrder(i)'
  <2>1. ASSUME NEW v, NEW u, NotAhead(v, u) PROVE NotAhead(v, u)'
    BY <2>1 DEF NotAhead, Seen
  <2> QED
    BY <2>1 DEF ToldInOrder, Ordered
<1>4. KindOK'
  BY DEF VInv, KindOK
<1> QED
  BY <1>1, <1>2, <1>3, <1>4 DEF VInv, Grow

\* The worker that goes on with its item, or drops it, is one such step.
LEMMA GoesOnVersions ==
    ASSUME IInv, VInv, NEW w \in Workers, GoesOn(w), Grow,
           UNCHANGED <<kindKnown, delayed, queue, latest, owner, resource, incoming>>
    PROVE  VInv'
<1>1. \A x \in Workers \ {w} : pc'[x] = pc[x] /\ taken'[x] = taken[x]
  BY DEF IInv, TypeOK, WorkersOK, GoesOn
<1>2. \A x \in Workers : Busy(x)' => Busy(x) /\ taken'[x] = taken[x]
  BY <1>1 DEF GoesOn, Busy
<1> QED
  BY <1>2, QuietVersions

\* The next version is later than every one delivered.
LEMMA NextIsLater ==
    ASSUME ClusterOK, NEW u \in UIDs, latest[u] # NoObject, NEW b \in Objects
    PROVE  latest[u].rev <= NextVersion(b).rev
<1> DEFINE Revs == {0} \cup {latest[x].rev : x \in {y \in UIDs : latest[y] # NoObject}}
<1>1. Revs \in SUBSET (0 .. MaxRev) /\ latest[u].rev \in Revs /\ MaxRev \in Nat
  BY TrackerAssumption DEF ClusterOK, Versions
<1>2. Max(Revs) \in 0 .. MaxRev /\ latest[u].rev <= Max(Revs)
  <2> HIDE DEF Revs
  <2>1. Revs # {}
    BY <1>1
  <2> QED
    BY <1>1, <2>1, MaxIsLargest
<1>3. NextRev = 1 + Max(Revs)
  BY DEF NextRev
<1>4. latest[u].rev \in Nat
  BY <1>1
<1> QED
  BY <1>2, <1>3, <1>4 DEF NextVersion

\* The informer enqueues a version not earlier than the others of the object.
LEMMA EnqueueInOrder ==
    ASSUME IInv, PInv, VInv, IInv', NEW o, NEW u \in UIDs, NEW v \in Versions,
           Enqueue(o, u, v), Grow,
           \A x \in UIDs : latest[x] # NoObject =>
               latest'[x] # NoObject /\ latest[x].rev <= latest'[x].rev,
           latest'[u] # NoObject, v.rev <= latest'[u].rev,
           latest[u] # NoObject => latest[u].rev <= v.rev
    PROVE  VInv'
<1> DEFINE Later(x, y) == latest'[y] # NoObject /\ x.rev <= latest'[y].rev
<1>1. /\ UNCHANGED <<kindKnown, delayed, owner, resource, incoming, pc, taken>>
      /\ queue' = Append(queue, [op |-> o, uid |-> u, version |-> v])
  BY DEF Enqueue, workerVars, dispatchVars
<1>2. /\ queue \in Seq(QueueItems) /\ DOMAIN queue = 1 .. Len(queue) /\ Len(queue) \in Nat
      /\ DOMAIN queue' = 1 .. Len(queue) + 1
      /\ \A k \in DOMAIN queue : queue'[k] = queue[k]
      /\ queue'[Len(queue) + 1].uid = u /\ queue'[Len(queue) + 1].version = v
  BY <1>1 DEF IInv, TypeOK, ClusterOK
<1>3. \A x \in UIDs : /\ latest[x] # NoObject => latest[x].rev \in Nat
                      /\ latest'[x] # NoObject => latest'[x].rev \in Nat
  BY DEF IInv, TypeOK, ClusterOK, Versions
<1>4. ASSUME NEW x \in Versions, NEW y \in UIDs, Seen(x, y)
      PROVE  Later(x, y) /\ (y = u => x.rev <= v.rev)
  <2>1. x.rev \in Nat /\ v.rev \in Nat
    BY DEF Versions
  <2> QED
    BY <1>3, <1>4, <2>1 DEF Seen
<1>5. /\ \A k \in DOMAIN queue : queue[k].uid \in UIDs /\ queue[k].version \in Versions
      /\ \A w \in Workers : Busy(w) => taken[w].uid \in UIDs /\ taken[w].version \in Versions
  <2>1. \A k \in DOMAIN queue : queue[k] \in QueueItems
    BY <1>2
  <2>2. \A w \in Workers : Busy(w) => taken[w] \in QueueItems
    BY DEF IInv, TypeOK, WorkersOK, Busy
  <2> QED
    BY <2>1, <2>2 DEF QueueItems, PInv, Versioned
<1>6. v.rev <= v.rev /\ Later(v, u)
  BY DEF Versions
<1>7. QueueInOrder => QueueInOrder'
  <2> SUFFICES ASSUME QueueInOrder PROVE QueueInOrder'
    OBVIOUS
  <2>1. \A k \in DOMAIN queue : Seen(queue[k].version, queue[k].uid)
    BY DEF QueueInOrder
  <2>2. \A k \in DOMAIN queue' : Later(queue'[k].version, queue'[k].uid)
    <3> TAKE k \in DOMAIN queue'
    <3>1. CASE k \in DOMAIN queue
      BY <1>2, <1>4, <1>5, <2>1, <3>1
    <3>2. CASE k = Len(queue) + 1
      BY <1>2, <1>6, <3>2
    <3> QED
      BY <1>2, <3>1, <3>2
  <2>3. \A k \in DOMAIN queue', j \in DOMAIN queue' :
           j <= k /\ queue'[j].uid = queue'[k].uid
              => queue'[j].version.rev <= queue'[k].version.rev
    <3> TAKE k \in DOMAIN queue', j \in DOMAIN queue'
    <3>1. CASE k \in DOMAIN queue /\ j \in DOMAIN queue
      BY <1>2, <3>1 DEF QueueInOrder
    <3>2. CASE k = Len(queue) + 1 /\ j \in DOMAIN queue
      BY <1>2, <1>4, <1>5, <2>1, <3>2
    <3>3. CASE k = Len(queue) + 1 /\ j = Len(queue) + 1
      BY <1>2, <1>6, <3>3
    <3>4. CASE k \in DOMAIN queue /\ j = Len(queue) + 1
      BY <1>2, <3>4
    <3> QED
      BY <1>2, <3>1, <3>2, <3>3, <3>4
  <2>4. \A w \in Workers : Busy(w)' =>
          /\ Later(taken'[w].version, taken'[w].uid)
          /\ \A k \in DOMAIN queue' :
                queue'[k].uid = taken'[w].uid
                   => taken'[w].version.rev <= queue'[k].version.rev
    <3> TAKE w \in Workers
    <3> HAVE Busy(w)'
    <3>1. /\ Busy(w) /\ Seen(taken[w].version, taken[w].uid) /\ taken'[w] = taken[w]
          /\ \A k \in DOMAIN queue :
                queue[k].uid = taken[w].uid => taken[w].version.rev <= queue[k].version.rev
      BY <1>1 DEF QueueInOrder, Busy
    <3>2. /\ Later(taken[w].version, taken[w].uid)
          /\ taken[w].uid = u => taken[w].version.rev <= v.rev
      <4>1. taken[w].version \in Versions /\ taken[w].uid \in UIDs
        BY <1>5, <3>1
      <4> QED
        BY <1>4, <3>1, <4>1
    <3> QED
      <4>1. \A k \in DOMAIN queue' : queue'[k].uid = taken[w].uid
                                         => taken[w].version.rev <= queue'[k].version.rev
        BY <1>2, <3>1, <3>2
      <4> QED
        BY <3>1, <3>2, <4>1
  <2> QED
    BY <2>2, <2>3, <2>4 DEF QueueInOrder, Seen
<1>8. \A i \in Born : ToldInOrder(i) => ToldInOrder(i)'
  <2>1. ASSUME NEW x \in Versions \cup {NoObject}, NEW y \in UIDs, NotAhead(x, y)
        PROVE  NotAhead(x, y)'
    <3> SUFFICES ASSUME x # NoObject PROVE NotAhead(x, y)'
      BY DEF NotAhead
    <3>1. /\ x \in Versions /\ Seen(x, y)
          /\ \A k \in DOMAIN queue : queue[k].uid = y => x.rev <= queue[k].version.rev
          /\ \A w \in Workers : Busy(w) /\ taken[w].uid = y => x.rev <= taken[w].version.rev
      BY <2>1 DEF NotAhead
    <3>2. Later(x, y) /\ (y = u => x.rev <= v.rev)
      BY <1>4, <3>1
    <3>3. \A w \in Workers : Busy(w)' <=> Busy(w)
      BY <1>1 DEF Busy
    <3>4. \A k \in DOMAIN queue' : queue'[k].uid = y => x.rev <= queue'[k].version.rev
      BY <1>2, <3>1, <3>2
    <3> QED
      BY <1>1, <3>1, <3>2, <3>3, <3>4 DEF NotAhead, Seen
  <2> SUFFICES ASSUME NEW i \in Born, ToldInOrder(i) PROVE ToldInOrder(i)'
    OBVIOUS
  <2>2. /\ owner[i] \in UIDs /\ resource[i] \in Versions \cup {NoObject}
        /\ \A k \in DOMAIN incoming[i] : incoming[i][k] \in Versions \cup {NoObject}
    <3>1. i \in Instances /\ StatesOK
      BY BornAreInstances DEF IInv, TypeOK
    <3>2. incoming[i] \in Seq(Versions \cup {NoObject})
      BY <3>1 DEF StatesOK
    <3> QED
      BY <3>1, <3>2 DEF Born, StatesOK
  <2> QED
    BY <1>1, <2>1, <2>2 DEF ToldInOrder, Ordered
<1>9. Born' = Born /\ \A i \in Born : Name(i)' = Name(i)
  BY <1>1 DEF Born, Name
<1>10. KindOK'
  BY <1>1 DEF VInv, KindOK
<1> QED
  BY <1>1, <1>7, <1>8, <1>9, <1>10 DEF VInv, Grow

\* The handlers of the informer enqueue what is not earlier than all before.
LEMMA InformerVersions ==
    ASSUME IInv, PInv, VInv, IInv', Informer
    PROVE  VInv'
<1>1. /\ latest \in [UIDs -> Versions \cup {NoObject}] /\ NoObject \notin Versions
      /\ \A x \in UIDs : latest[x] # NoObject => latest[x].rev \in Nat
  BY TrackerAssumption DEF IInv, TypeOK, ClusterOK, Versions
<1>2. ASSUME NEW o, NEW u \in UIDs, NEW b \in Objects, Enqueue(o, u, NextVersion(b)), Grow,
             NextRev <= MaxRev, latest' = [latest EXCEPT ![u] = NextVersion(b)]
      PROVE  VInv'
  <2>1. NextVersion(b) \in Versions
    BY <1>2, NextVersionOK DEF IInv, TypeOK
  <2>2. PICK v \in Versions : v = NextVersion(b)
    BY <2>1
  <2>3. \A x \in UIDs : latest[x] # NoObject => latest[x].rev <= v.rev
    BY <2>2, NextIsLater DEF IInv, TypeOK
  <2>4. v.rev \in Nat
    BY DEF Versions
  <2>5. \A x \in UIDs : latest'[x] = IF x = u THEN v ELSE latest[x]
    BY <1>1, <1>2, <2>2
  <2>6. Enqueue(o, u, v)
    BY <1>2, <2>2
  <2>7. v # NoObject
    BY <1>1
  <2>8. \A x \in UIDs : latest[x] # NoObject =>
           latest'[x] # NoObject /\ latest[x].rev <= latest'[x].rev
    BY <1>1, <2>3, <2>5, <2>7
  <2>9. latest'[u] # NoObject /\ v.rev <= latest'[u].rev
    BY <2>4, <2>5, <2>7
  <2> QED
    BY <1>2, <2>3, <2>6, <2>8, <2>9, EnqueueInOrder
<1>3. ASSUME NEW u \in UIDs, NEW b \in Objects, InformerAdd(u, b) PROVE VInv'
  BY <1>2, <1>3 DEF InformerAdd, Appears, Grow
<1>4. ASSUME NEW u \in UIDs, NEW b \in Objects, InformerUpdate(u, b) PROVE VInv'
  BY <1>2, <1>4 DEF InformerUpdate, Grow
<1>5. ASSUME NEW u \in UIDs, NEW v \in UIDs, NEW b \in Objects, InformerReplace(u, v, b)
      PROVE  VInv'
  BY <1>2, <1>5 DEF InformerReplace, Appears, Grow
<1>6. ASSUME NEW u \in UIDs, InformerDelete(u) PROVE VInv'
  <2>1. /\ latest' = latest /\ latest[u] # NoObject /\ Enqueue("DELETE", u, latest[u])
        /\ Grow
    BY <1>6 DEF InformerDelete, PInv, Versioned, Grow
  <2>2. latest[u] \in Versions /\ \A x \in UIDs : latest[x] # NoObject =>
                                        latest[x].rev <= latest[x].rev
    BY <1>1, <2>1
  <2> QED
    BY <2>1, <2>2, EnqueueInOrder
<1>7. ASSUME NEW u \in UIDs, InformerTombstone(u) PROVE VInv'
  BY <1>7, CrashEmpties, EmptyIsInOrder DEF InformerTombstone
<1> QED
  BY <1>3, <1>4, <1>5, <1>6, <1>7 DEF Informer

\* The item taken was the oldest of the queue.
LEMMA TakeVersions ==
    ASSUME IInv, PInv, VInv, NEW w \in Workers, Take(w)
    PROVE  VInv'
<1>1. /\ queue # <<>> /\ queue \in Seq(QueueItems) /\ 1 \in DOMAIN queue
      /\ Head(queue) = queue[1] /\ DOMAIN queue \subseteq Nat \ {0}
      /\ \A k \in DOMAIN queue' : queue'[k] = queue[k + 1] /\ k + 1 \in DOMAIN queue
                                 /\ k \in Nat
  BY DEF IInv, TypeOK, ClusterOK, Take
<1>2. /\ UNCHANGED <<kindKnown, delayed, latest, owner, resource, incoming>>
      /\ Grow /\ ~Busy(w)
  BY DEF Take, clusterVars, dispatchVars, Grow, Busy
<1>3. \A x \in Workers : taken'[x] = IF x = w THEN queue[1] ELSE taken[x]
  BY <1>1 DEF Take, IInv, TypeOK, WorkersOK
<1>4. \A x \in Workers \ {w} : pc'[x] = pc[x]
  BY DEF Take, Goto, IInv, TypeOK, WorkersOK
<1>5. \A x \in Workers : Busy(x)' => x = w \/ Busy(x)
  BY <1>4 DEF Busy
<1>6. QueueInOrder => QueueInOrder'
  <2> SUFFICES ASSUME QueueInOrder PROVE QueueInOrder'
    OBVIOUS
  <2>1. \A k \in DOMAIN queue' :
          /\ Seen(queue'[k].version, queue'[k].uid)
          /\ \A j \in DOMAIN queue' :
                j <= k /\ queue'[j].uid = queue'[k].uid
                   => queue'[j].version.rev <= queue'[k].version.rev
    BY <1>1 DEF QueueInOrder
  <2>2. ASSUME NEW x \in Workers, Busy(x)'
        PROVE  /\ Seen(taken'[x].version, taken'[x].uid)
               /\ \A k \in DOMAIN queue' :
                     queue'[k].uid = taken'[x].uid
                        => taken'[x].version.rev <= queue'[k].version.rev
    <3>1. CASE x = w
      BY <1>1, <1>3, <3>1 DEF QueueInOrder
    <3>2. CASE x # w
      BY <1>1, <1>3, <1>5, <2>2, <3>2 DEF QueueInOrder
    <3> QED
      BY <3>1, <3>2
  <2> QED
    BY <1>2, <2>1, <2>2 DEF QueueInOrder, Seen
<1>7. \A i \in Born : ToldInOrder(i) => ToldInOrder(i)'
  <2>1. ASSUME NEW v, NEW u, NotAhead(v, u) PROVE NotAhead(v, u)'
    <3> SUFFICES ASSUME v # NoObject PROVE NotAhead(v, u)'
      BY DEF NotAhead
    <3>1. \A k \in DOMAIN queue' : queue'[k].uid = u => v.rev <= queue'[k].version.rev
      BY <1>1, <2>1 DEF NotAhead
    <3>2. \A x \in Workers : Busy(x)' /\ taken'[x].uid = u => v.rev <= taken'[x].version.rev
      BY <1>1, <1>3, <1>5, <2>1 DEF NotAhead
    <3> QED
      BY <1>2, <2>1, <3>1, <3>2 DEF NotAhead, Seen
  <2> QED
    BY <1>2, <2>1 DEF ToldInOrder, Ordered
<1>8. Born' = Born /\ \A i \in Born : Name(i)' = Name(i)
  BY <1>2 DEF Born, Name
<1>9. KindOK'
  BY <1>2 DEF VInv, KindOK
<1> QED
  BY <1>2, <1>6, <1>7, <1>8, <1>9 DEF VInv, Grow

\* A new ResourceState has been told nothing.
LEMMA LookupMissVersions ==
    ASSUME IInv, PInv, VInv, NEW w \in Workers, LookupMiss(w)
    PROVE  VInv'
<1>0. PICK n : n = Len(owner) + 1
  OBVIOUS
<1>1. /\ UNCHANGED <<kindKnown, delayed, queue, latest, resource, incoming, taken, disturbed>>
      /\ kindKnown /\ pc[w] = "lookup"
  BY DEF LookupMiss, clusterVars, queueVars, dispatchVars
<1>2. /\ \A x \in Workers : Busy(x)' => Busy(x)
      /\ taken[w].uid \in UIDs
  BY <1>1 DEF LookupMiss, Goto, IInv, TypeOK, WorkersOK, Busy, QueueItems
<1>3. /\ Born' = Born \cup {n} /\ n \in Instances \ Born
      /\ \A i \in Born : owner'[i] = owner[i] /\ Name(i)' = Name(i)
  <2>1. /\ owner \in Seq(UIDs) /\ owner' = Append(owner, taken[w].uid)
        /\ Len(owner) < MaxStates
    BY DEF LookupMiss, IInv, TypeOK, StatesOK
  <2> QED
    BY <1>0, <1>2, <2>1, TrackerAssumption DEF Born, Instances, Name
<1>4. QueueInOrder'
  BY <1>1, <1>2 DEF VInv, QueueInOrder, Seen
<1>5. \A i \in Born : ToldInOrder(i) => ToldInOrder(i)'
  <2>1. ASSUME NEW v, NEW u, NotAhead(v, u) PROVE NotAhead(v, u)'
    BY <1>1, <1>2, <2>1 DEF NotAhead, Seen
  <2> QED
    BY <1>1, <1>3, <2>1 DEF ToldInOrder, Ordered
<1>6. ToldInOrder(n)'
  <2>1. resource'[n] = NoObject /\ incoming'[n] = <<>>
    BY <1>1, <1>3 DEF PInv, UnbornFresh
  <2> QED
    BY <2>1 DEF ToldInOrder, NotAhead
<1> QED
  BY <1>1, <1>3, <1>4, <1>5, <1>6 DEF VInv, KindOK

\* A retry is due only where no ResourceState is ever made.
LEMMA RetryVersions ==
    ASSUME VInv, NEW e \in delayed, RetryDue(e)
    PROVE  VInv'
BY DEF VInv, KindOK, RetryDue, clusterVars

\* A failed lookup happens only in a process that makes no ResourceState.
LEMMA LookupFailsVersions ==
    ASSUME VInv, NEW w \in Workers, LookupFails(w)
    PROVE  VInv'
BY DEF VInv, KindOK, LookupFails, clusterVars

\* The version sent is not earlier than those the ResourceState has got, and only
\* its worker handles the object.
LEMMA SendVersions ==
    ASSUME IInv, PInv, VInv, NEW w \in Workers, Send(w)
    PROVE  VInv'
<1>0. PICK i \in Born : i = target[w]
  BY DEF Send, IInv, TypeOK, WorkersOK
<1>1. /\ UNCHANGED <<kindKnown, queue, delayed, latest, owner, resource, disturbed>>
      /\ Busy(w) /\ pc[w] = "send" /\ i \in Instances
  BY <1>0, BornAreInstances
  DEF Send, clusterVars, queueVars, Busy, IInv, TypeOK
<1>2. GoesOn(w)
  BY <1>1, NextOlderGoesOn DEF Send
<1>3. PICK v \in Versions \cup {NoObject} :
          /\ incoming'[i] = Append(incoming[i], v)
          /\ incoming[i] \in Seq(Versions \cup {NoObject})
          /\ \A j \in Instances \ {i} : incoming'[j] = incoming[j]
          /\ v # NoObject => taken[w].op # "DELETE" /\ v = taken[w].version
  <2>1. taken[w] \in QueueItems
    BY <1>1 DEF IInv, TypeOK, WorkersOK, Busy
  <2>2. taken[w].version \in Versions \cup {NoObject}
    BY <2>1 DEF QueueItems
  <2> QED
    BY <1>0, <1>1, <2>2 DEF Send, IInv, TypeOK, StatesOK
<1>4. \A x \in Workers : Busy(x)' => Busy(x) /\ taken'[x] = taken[x]
  BY <1>2 DEF GoesOn, Busy, IInv, TypeOK, WorkersOK
<1>5. QueueInOrder => QueueInOrder'
  BY <1>1, <1>4 DEF QueueInOrder, Seen
<1>6. ASSUME NEW x, NEW u, NotAhead(x, u) PROVE NotAhead(x, u)'
  BY <1>1, <1>4, <1>6 DEF NotAhead, Seen
<1>7. Born' = Born /\ Born \subseteq Instances /\ \A j \in Born : Name(j)' = Name(j)
  BY <1>1, BornAreInstances DEF Born, Name, IInv, TypeOK
<1>8. ASSUME NEW j \in Born, j # i, ToldInOrder(j) PROVE ToldInOrder(j)'
  BY <1>1, <1>3, <1>6, <1>7, <1>8 DEF ToldInOrder, Ordered
<1>9. ASSUME kindKnown, Name(i) \notin disturbed, ToldInOrder(i) PROVE ToldInOrder(i)'
  <2>1. QueueInOrder
    BY <1>9 DEF VInv
  <2>2. v # NoObject => owner[i] = taken[w].uid /\ Name(i) = Subject(w)
    BY <1>0, <1>1, <1>3 DEF PInv, TargetsOK
  <2>3. NotAhead(v, owner[i])
    <3> SUFFICES ASSUME v # NoObject PROVE NotAhead(v, owner[i])
      BY DEF NotAhead
    <3>1. v = taken[w].version /\ v.rev \in Nat
      BY <1>3 DEF Versions
    <3>2. ASSUME NEW x \in Workers, Busy(x), taken[x].uid = owner[i]
          PROVE  x = w
      <4>1. Subject(x) = Subject(w)
        BY <2>2, <3>2 DEF Subject
      <4> QED
        BY <1>1, <1>9, <2>2, <3>2, <4>1 DEF PInv, Alone
    <3>3. /\ Seen(taken[w].version, taken[w].uid)
          /\ \A k \in DOMAIN queue : queue[k].uid = taken[w].uid
                                        => taken[w].version.rev <= queue[k].version.rev
      BY <1>1, <2>1 DEF QueueInOrder
    <3> QED
      BY <2>2, <3>1, <3>2, <3>3 DEF NotAhead
  <2>4. \A x : NotAhead(x, owner[i]) => Ordered(x, v)
    BY <1>1, <1>3, <2>2 DEF NotAhead, Ordered
  <2>5. Ordered(v, v)
    BY DEF Ordered, Versions
  <2>6. /\ DOMAIN incoming'[i] = DOMAIN incoming[i] \cup {Len(incoming[i]) + 1}
        /\ DOMAIN incoming[i] = 1 .. Len(incoming[i]) /\ Len(incoming[i]) \in Nat
        /\ \A k \in DOMAIN incoming[i] : incoming'[i][k] = incoming[i][k]
        /\ incoming'[i][Len(incoming[i]) + 1] = v
    BY <1>3
  <2>7. \A k \in DOMAIN incoming'[i] :
          /\ NotAhead(incoming'[i][k], owner[i])
          /\ Ordered(resource[i], incoming'[i][k])
    <3>1. NotAhead(resource[i], owner[i]) /\ \A k \in DOMAIN incoming[i] :
             NotAhead(incoming[i][k], owner[i]) /\ Ordered(resource[i], incoming[i][k])
      BY <1>9 DEF ToldInOrder
    <3> QED
      BY <2>3, <2>4, <2>6, <3>1
  <2>8. \A k \in DOMAIN incoming'[i], j \in DOMAIN incoming'[i] :
          j <= k => Ordered(incoming'[i][j], incoming'[i][k])
    <3> TAKE k \in DOMAIN incoming'[i], j \in DOMAIN incoming'[i]
    <3>1. CASE k = Len(incoming[i]) + 1
      BY <2>4, <2>5, <2>6, <2>7, <3>1
    <3>2. CASE k \in DOMAIN incoming[i] /\ j \in DOMAIN incoming[i]
      BY <1>9, <2>6, <3>2 DEF ToldInOrder
    <3> QED
      BY <2>6, <3>1, <3>2
  <2> DEFINE Kept(x, u) == x # NoObject =>
                 /\ latest'[u] # NoObject /\ x.rev <= latest'[u].rev
                 /\ \A k \in DOMAIN queue' : queue'[k].uid = u => x.rev <= queue'[k].version.rev
                 /\ \A y \in Workers : Busy(y)' /\ taken'[y].uid = u
                                           => x.rev <= taken'[y].version.rev
  <2>9. ASSUME NEW x, NEW u, NotAhead(x, u) PROVE Kept(x, u)
    BY <1>1, <1>4, <2>9 DEF NotAhead, Seen
  <2>10. Kept(resource'[i], owner'[i])
    BY <1>1, <1>9, <2>9 DEF ToldInOrder
  <2>11. \A k \in DOMAIN incoming'[i] : Kept(incoming'[i][k], owner'[i])
    BY <1>1, <2>7, <2>9
  <2> QED
    BY <1>1, <2>7, <2>8, <2>10, <2>11 DEF ToldInOrder, Ordered, NotAhead, Seen
<1>10. KindOK'
  BY <1>1 DEF VInv, KindOK
<1> QED
  BY <1>1, <1>5, <1>7, <1>8, <1>9, <1>10 DEF VInv

\* The version received is at the head of the others.
LEMMA ReceiveVersions ==
    ASSUME IInv, PInv, VInv, NEW i \in Instances, Receive(i)
    PROVE  /\ VInv'
           /\ i \in Born /\ Name(i) \notin disturbed => Ordered(resource[i], resource'[i])
<1>1. /\ UNCHANGED <<kindKnown, queue, delayed, latest, owner, pc, taken, disturbed>>
      /\ incoming[i] # <<>> /\ incoming[i] \in Seq(Versions \cup {NoObject})
      /\ i \in Born
  BY DEF Receive, Dispatching, clusterVars, queueVars, workerVars, IInv, UnbornIdle, TypeOK,
         StatesOK
<1>2. /\ 1 \in DOMAIN incoming[i] /\ Head(incoming[i]) = incoming[i][1]
      /\ \A k \in DOMAIN Tail(incoming[i]) :
            /\ Tail(incoming[i])[k] = incoming[i][k + 1] /\ k + 1 \in DOMAIN incoming[i]
            /\ k \in Nat /\ 1 <= k + 1
  BY <1>1
<1>3. /\ \A j \in Instances \ {i} : resource'[j] = resource[j] /\ incoming'[j] = incoming[j]
      /\ incoming'[i] = Tail(incoming[i])
      /\ resource'[i] = IF incoming[i][1] = NoObject THEN resource[i] ELSE incoming[i][1]
  BY <1>2 DEF Receive, IInv, TypeOK, StatesOK
<1>4. /\ KindOK'
      /\ QueueInOrder => QueueInOrder'
      /\ \A x, u : NotAhead(x, u) => NotAhead(x, u)'
  BY <1>1 DEF QueueInOrder, Seen, VInv, KindOK, NotAhead, Busy
<1>5. Born' = Born /\ Born \subseteq Instances /\ \A j \in Born : Name(j)' = Name(j)
  BY <1>1, BornAreInstances DEF Born, Name, IInv, TypeOK
<1>6. ASSUME NEW j \in Born, ToldInOrder(j), j # i PROVE ToldInOrder(j)'
  BY <1>1, <1>3, <1>4, <1>5, <1>6 DEF ToldInOrder, Ordered
<1>7. ASSUME ToldInOrder(i) PROVE ToldInOrder(i)' /\ Ordered(resource[i], resource'[i])
  <2>1. /\ \A k \in DOMAIN incoming[i] :
              /\ NotAhead(incoming[i][k], owner[i]) /\ Ordered(resource[i], incoming[i][k])
              /\ \A j \in DOMAIN incoming[i] : j <= k => Ordered(incoming[i][j], incoming[i][k])
        /\ NotAhead(resource[i], owner[i])
    BY <1>7 DEF ToldInOrder
  <2>2. Ordered(resource[i], resource'[i])
    <3>1. Ordered(resource[i], resource[i])
      BY DEF Ordered, IInv, TypeOK, StatesOK, Versions
    <3> QED
      BY <1>2, <1>3, <2>1, <3>1
  <2>3. NotAhead(resource'[i], owner'[i])
    BY <1>1, <1>2, <1>3, <2>1
  <2>4. \A k \in DOMAIN incoming'[i] :
          /\ NotAhead(incoming'[i][k], owner'[i])
          /\ Ordered(resource'[i], incoming'[i][k])
          /\ \A j \in DOMAIN incoming'[i] :
                j <= k => Ordered(incoming'[i][j], incoming'[i][k])
    BY <1>1, <1>2, <1>3, <2>1
  <2>5. ToldInOrder(i)'
    BY <1>1, <2>3, <2>4 DEF ToldInOrder, Ordered, NotAhead, Seen, Busy
  <2> QED
    BY <2>2, <2>5
<1>8. VInv'
  <2>1. \A j \in Born : ToldInOrder(j) => ToldInOrder(j)'
    BY <1>6, <1>7
  <2>2. UNCHANGED <<kindKnown, disturbed>>
    BY <1>1
  <2> QED
    BY <1>4, <1>5, <2>1, <2>2 DEF VInv
<1>9. ASSUME Name(i) \notin disturbed PROVE Ordered(resource[i], resource'[i])
  <2>1. kindKnown
    BY <1>1 DEF VInv, KindOK, Born
  <2> QED
    BY <1>1, <1>7, <1>9, <2>1 DEF VInv
<1> QED
  BY <1>8, <1>9

\* The other steps of a worker leave the versions where they are.
LEMMA WorkerVersions ==
    ASSUME IInv, PInv, VInv, NEW w \in Workers, WorkerStep(w)
    PROVE  VInv'
<1>1. CASE Take(w) \/ LookupMiss(w) \/ LookupFails(w) \/ Send(w)
  BY <1>1, TakeVersions, LookupMissVersions, LookupFailsVersions, SendVersions
<1>2. CASE ByIndex(w) \/ LookupHit(w) \/ AddState(w) \/ Check(w) \/ StopOlder(w)
  <2>1. /\ UNCHANGED <<kindKnown, delayed, queue, latest, owner, resource, incoming>>
        /\ Grow /\ Busy(w)
    BY <1>2 DEF ByIndex, LookupHit, AddState, Check, StopOlder, clusterVars, queueVars,
                dispatchVars, Grow, Busy
  <2>2. \A x \in Workers : Busy(x)' => Busy(x) /\ taken'[x] = taken[x]
    <3>1. CASE Finish(w)
      BY <3>1 DEF Finish, Busy, IInv, TypeOK, WorkersOK
    <3>2. CASE UNCHANGED taken /\ \A x \in Workers \ {w} : pc'[x] = pc[x]
      BY <2>1, <3>2 DEF Busy
    <3>3. Finish(w) \/ (UNCHANGED taken /\ \A x \in Workers \ {w} : pc'[x] = pc[x])
      BY <1>2 DEF ByIndex, LookupHit, AddState, Check, StopOlder, NextOlder, Goto,
                  IInv, TypeOK, WorkersOK
    <3> QED
      BY <3>1, <3>2, <3>3
  <2> QED
    BY <2>1, <2>2, QuietVersions
<1>3. CASE CloseOlder(w) \/ UnmapOlder(w)
  <2> DEFINE i == Max(older[w])
  <2>1. CASE Crash(Name(i))
    BY <2>1, CrashEmpties, EmptyIsInOrder
  <2>2. CASE ~Crash(Name(i))
    <3>1. /\ UNCHANGED <<kindKnown, delayed, queue, latest, owner, resource, incoming>>
          /\ Grow /\ Busy(w)
      BY <1>3, <2>2 DEF CloseOlder, UnmapOlder, clusterVars, queueVars, dispatchVars, Grow, Busy
    <3>2. CASE Finish(w)
      BY <3>1, <3>2, FinishGoesOn, GoesOnVersions
    <3>3. CASE UNCHANGED taken /\ \A x \in Workers \ {w} : pc'[x] = pc[x]
      BY <3>1, <3>3, QuietVersions DEF Busy
    <3>4. Finish(w) \/ (UNCHANGED taken /\ \A x \in Workers \ {w} : pc'[x] = pc[x])
      BY <1>3, <2>2 DEF CloseOlder, UnmapOlder, NextOlder, Goto, IInv, TypeOK, WorkersOK
    <3> QED
      BY <3>2, <3>3, <3>4
  <2> QED
    BY <2>1, <2>2
<1> QED
  BY <1>1, <1>2, <1>3 DEF WorkerStep

\* So do the machines, unless one crashes, and the sweeper.
LEMMA RestVersions ==
    ASSUME PInv, VInv,
           \/ \E i \in Instances : \/ FireNext(i) \/ ExitDispatcher(i) \/ TimerStep(i)
                                   \/ CloseSelf(i, "dispatcher")
           \/ Sweep \/ Stop \/ Restart \/ UNCHANGED vars
    PROVE  VInv'
<1>1. CASE Empty'
  BY <1>1, EmptyIsInOrder
<1>2. CASE /\ UNCHANGED <<kindKnown, delayed, queue, latest, owner, resource, incoming, pc, taken>>
           /\ Grow
  BY <1>2, QuietVersions DEF Busy
<1>3. ASSUME NEW i \in Instances, FireNext(i) \/ ExitDispatcher(i) \/ TimerStep(i)
                                  \/ CloseSelf(i, "dispatcher")
      PROVE  VInv'
  BY <1>1, <1>2, <1>3, CrashEmpties
  DEF FireNext, ExitDispatcher, TimerStep, TimerFires, TimerStops, TimerDone, CloseSelf,
      clusterVars, queueVars, dispatchVars, workerVars, Grow
<1>4. CASE Sweep
  BY <1>1, <1>2, <1>4, CrashEmpties
  DEF Sweep, SweepTick, SweepVisit, clusterVars, queueVars, dispatchVars, workerVars, Grow
<1>5. CASE Restart
  BY <1>1, <1>5
  DEF Restart, PInv, DownIsEmpty, Empty, clusterVars, queueVars, dispatchVars, workerVars, Busy
<1>6. CASE Stop \/ UNCHANGED vars
  BY <1>2, <1>6
  DEF Stop, vars, clusterVars, queueVars, dispatchVars, workerVars, Grow
<1> QED
  BY <1>3, <1>4, <1>5, <1>6

\* Every step keeps the versions in order.
LEMMA NextVersions == ASSUME IInv, PInv, VInv, [Next]_vars PROVE VInv'
<1>1. IInv'
  BY SMTT(30), NextOK
<1> QED
  BY <1>1, InformerVersions, RetryVersions, WorkerVersions, ReceiveVersions, RestVersions
  DEF Next, DispatcherStep, TimerStep

\* The resources change only where a version is received, or in a crash.
LEMMA ResourcesKept ==
    ASSUME [Next]_vars
    PROVE  \/ \E i \in Instances : Receive(i)
           \/ UNCHANGED resource
           \/ owner' = <<>>
BY ZenonT(60) DEF Next, vars, Informer, InformerAdd, InformerUpdate, InformerDelete, InformerTombstone,
   InformerReplace, Enqueue, Stop, Restart, Sweep, SweepTick, SweepVisit, WorkerStep, Take,
   ByIndex, LookupHit, LookupMiss, LookupFails, AddState, Check, Send, StopOlder, CloseOlder,
   UnmapOlder, RetryDue, DispatcherStep, FireNext, CloseSelf, ExitDispatcher, TimerStep,
   TimerFires, TimerStops, TimerDone, Crash, dispatchVars

\* The versions of every object stay in order.
LEMMA AlwaysVInv == Spec => []VInv
<1>1. Init => VInv
  <2>1. Init => Born = {}
    BY DEF Init, Born
  <2> QED
    BY <2>1 DEF Init, VInv, KindOK, QueueInOrder, Busy
<1>2. IInv /\ PInv /\ VInv /\ [Next]_vars => VInv'
  BY NextVersions
<1> QED
  BY <1>1, <1>2, AlwaysIInv, AlwaysPInv, PTL DEF Spec

\* The dispatcher never replaces a version by an earlier one, as long as no two workers
\* had events of the name at once and no DELETE found another object's ResourceState:
\* the queue hands the versions of an object out in the informer's order, and one worker
\* at a time passes them on, however often the object leaves the selector.
THEOREM VersionsNeverGoBack == Spec => VersionsAdvance
<1> DEFINE Advance(i) ==
        LET old == resource[i]
            new == resource'[i]
        IN  i \in 1 .. Len(owner') /\ old # NoObject /\ Name(i) \notin disturbed'
               => new.rev >= old.rev
<1>1. ASSUME IInv, PInv, VInv, [Next]_vars, NEW i \in Born PROVE Advance(i)
  <2> SUFFICES ASSUME i \in 1 .. Len(owner'), resource[i] # NoObject, Name(i) \notin disturbed'
               PROVE  resource'[i].rev >= resource[i].rev
    OBVIOUS
  <2>1. i \in Instances /\ resource[i] \in Versions
    BY <1>1, BornAreInstances DEF IInv, TypeOK, StatesOK
  <2>2. CASE resource'[i] = resource[i]
    BY <2>1, <2>2 DEF Versions
  <2>3. ASSUME NEW j \in Instances, Receive(j) PROVE resource'[i].rev >= resource[i].rev
    <3>1. disturbed' = disturbed
      BY <2>3 DEF Receive
    <3>2. CASE i = j
      <4>1. Ordered(resource[i], resource'[i])
        BY <1>1, <2>3, <3>1, <3>2, ReceiveVersions
      <4>2. resource'[i] \in Versions
        <5>1. resource'[i] \in Versions \cup {NoObject}
          BY <1>1, NextOK, <2>1 DEF IInv, TypeOK, StatesOK
        <5>2. resource'[i] # NoObject
          BY <2>1, <2>3, <3>2 DEF Receive, IInv, TypeOK, StatesOK
        <5> QED
          BY <5>1, <5>2
      <4> QED
        BY <2>1, <4>1, <4>2, TrackerAssumption DEF Ordered, Versions
    <3>3. CASE i # j
      BY <1>1, <2>1, <2>2, <2>3, <3>3 DEF Receive, IInv, TypeOK, StatesOK
    <3> QED
      BY <3>2, <3>3
  <2>4. CASE UNCHANGED resource
    BY <2>2, <2>4
  <2>5. CASE owner' = <<>>
    BY <2>5
  <2> QED
    BY <1>1, <2>3, <2>4, <2>5, ResourcesKept
<1>2. IInv /\ PInv /\ VInv /\ [Next]_vars => [\A i \in Born : Advance(i)]_vars
  BY <1>1
<1> QED
  BY <1>2, AlwaysIInv, AlwaysPInv, AlwaysVInv, PTL DEF Spec, VersionsAdvance
-----------------------------------------------------------------------------
(* UndisturbedTracking.  TInv follows every object of an undisturbed name  *)
(* from the informer's handlers, through the queue and the worker, to the  *)
(* channel, the events and the machine of its ResourceStates, of which all *)
(* but one are gone.                                                       *)

\* Worker w has an item of object u.
Handles(w, u) == Busy(w) /\ taken[w].uid = u
\* An item of u is in the queue.
Queued(u) == \E k \in DOMAIN queue : queue[k].uid = u
\* An item of u is with some worker.
Handled(u) == \E w \in Workers : Handles(w, u)

\* Object u is there, and the tracker was done with any earlier life of it.
Steady(u) == u \in told /\ u \notin returned

\* An object in the informer's store was told of, with a version.
ToldOK(u) == (u \in live => u \in told) /\ (u \in told => latest[u] # NoObject)

\* The item of what the handlers were last told of u.
IsLast(e, u) == e.version = latest[u] /\ (e.op = "DELETE" <=> u \notin told)

\* The last item of u in the queue is that one; no other deletes it, unless it returned.
QueueEnd(u) ==
    \A k \in DOMAIN queue : queue[k].uid = u =>
        IF \E j \in DOMAIN queue : k < j /\ queue[j].uid = u
        THEN u \notin returned => queue[k].op # "DELETE"
        ELSE IsLast(queue[k], u)

\* So it is with a worker's item when the queue has none.  It found u's own
\* ResourceState, which only the sweeper takes out of the map, or makes the only one.
WorkerEnd(u) ==
    \A w \in Workers : Handles(w, u) =>
        /\ IF Queued(u) THEN u \notin returned => taken[w].op # "DELETE"
                        ELSE IsLast(taken[w], u)
        /\ pc[w] = "add" => resourceMap[u] = 0
        /\ pc[w] \in {"check", "send"} =>
              owner[target[w]] = u /\ resourceMap[u] \in {0, target[w]}

\* An item in the queue will make the ResourceState of u if there is none.
Waiting(u) == \E k \in DOMAIN queue : queue[k].uid = u /\ queue[k].op # "DELETE"

\* ResourceState i is made but not yet in the map.
Adding(i) == \E w \in Workers : pc[w] = "add" /\ target[w] = i

\* The machine is in DeletedState, and its dispatcher has stopped it or is about to.
Gone(i) ==
    /\ fsm[i] = DeletedState /\ ~Adding(i)
    /\ stopped[i] \/ (closer[i] = "dispatcher" /\ running[i])

\* A steady object has a ResourceState in the map that is not gone, or will get one.
Represented(u) ==
    Steady(u) => IF resourceMap[u] # 0 THEN ~Gone(resourceMap[u])
                 ELSE \/ Waiting(u)
                      \/ \E w \in Workers : Handles(w, u) /\ pc[w] \in {"lookup", "add"}

\* What the sweeper has listed is what the map leads to.
ListedOK(u) == \A i \in sweepList : owner[i] = u => resourceMap[u] = i

\* The line of u, from the informer to the map.
LineOK(u) == ToldOK(u) /\ QueueEnd(u) /\ WorkerEnd(u) /\ Represented(u) /\ ListedOK(u)

\* ResourceState i is in the map and dispatching, or fresh and about to be.
Attached(i) ==
    \/ resourceMap[owner[i]] = i /\ running[i]
    \/ Adding(i) /\ pending[i] = {} /\ incoming[i] = <<>>

\* The last version it was told.
LastTold(i) == IF incoming[i] = <<>> THEN resource[i] ELSE incoming[i][Len(incoming[i])]

\* The deletion of its object is in its channel, to be fired, or was ignored in BeginState.
ToldNil(i) ==
    \/ incoming[i] # <<>> /\ incoming[i][Len(incoming[i])] = NoObject
    \/ incoming[i] = <<>> /\ pending[i] = {0}
    \/ /\ incoming[i] = <<>> /\ pending[i] = {}
       /\ \/ fsm[i] = BeginState
          \/ fsm[i] \in Moves(TimerEvent, BeginState) /\ timer[i] = "done"

\* No deletion is on its way to i.
NilFree(i) == 0 \notin pending[i] /\ \A k \in DOMAIN incoming[i] : incoming[i][k] # NoObject

\* It was told what the informer's handlers were told.
UpToDate(i) ==
    IF owner[i] \in told THEN LastTold(i) = latest[owner[i]] ELSE ToldNil(i)

\* It follows its object, steady or not, and is up to date once nothing is under way.
Serving(i) ==
    /\ ~stopped[i] /\ closer[i] = "none" /\ fsm[i] # DeletedState /\ Attached(i)
    /\ Steady(owner[i]) => NilFree(i)
    /\ ~Queued(owner[i]) /\ ~Handled(owner[i]) => UpToDate(i)

\* Every ResourceState is gone, or serving and the only one of its object that is not.
StateOK(i) ==
    \/ Gone(i)
    \/ Serving(i) /\ \A j \in Born : owner[j] = owner[i] /\ j # i => Gone(j)

\* Object u is tracked.
Tracks(u) == LineOK(u) /\ \A i \in Born : owner[i] = u => StateOK(i)

\* The inductive invariant of UndisturbedTracking.
TInv == kindKnown => \A u \in UIDs : NameOf[u] \notin disturbed => Tracks(u)

\* Only the default transition leads to DeletedState.
LEMMA OnlyDeletedEventDeletes ==
    ASSUME NamesAreReserved, NEW ev, ev # DeletedEvent, NEW s
    PROVE  DeletedState \notin Moves(ev, s)
<1>1. CASE Accepting(ev, s) = {}
  BY <1>1 DEF Moves, Destination
<1>2. CASE Accepting(ev, s) # {}
  <2>1. LatestOf(Accepting(ev, s)) \in Accepting(ev, s)
    <3>1. Len(Transitions) \in Nat
      BY TransitionsAssumption
    <3> QED
      BY <1>2, <3>1, AcceptingIsBounded, LatestOfIsLargest
  <2>2. Transitions[LatestOf(Accepting(ev, s))].target # DeletedState
    BY <2>1 DEF Accepting, NamesAreReserved
  <2> QED
    BY <2>2 DEF Moves, Destination
<1> QED
  BY <1>1, <1>2

\* It is defined in every state but BeginState, which it may lack.
LEMMA DeletedEventDeletes ==
    ASSUME NamesAreReserved, NEW s \in States, s # DeletedState
    PROVE  \/ Moves(DeletedEvent, s) = {DeletedState}
           \/ Moves(DeletedEvent, s) = {} /\ s = BeginState
<1>1. Accepting(DeletedEvent, s) = {}
  BY DEF Accepting, NamesAreReserved
<1> QED
  BY <1>1 DEF Moves, Destination, States

\* Nothing leads out of DeletedState.
LEMMA ReservedIsNoSource == NamesAreReserved => DeletedIsNoSource
BY DEF NamesAreReserved, DeletedIsNoSource, SourcesOf, AllStates

\* The informer's handlers hear nothing of object u.
SameNews(u) ==
    /\ latest'[u] = latest[u] /\ (u \in told' <=> u \in told)
    /\ (u \in returned' <=> u \in returned) /\ (u \in live' => u \in live)

\* What becomes of the items of an object when another one's item comes or goes.
SameItems(u) ==
    /\ Queued(u)' <=> Queued(u)
    /\ QueueEnd(u) => QueueEnd(u)'
    /\ Waiting(u) => Waiting(u)'

\* Nothing becomes of them when the queue stays.
LEMMA QueueSame ==
    ASSUME NEW u, UNCHANGED queue, SameNews(u)
    PROVE  SameItems(u)
BY DEF SameItems, Queued, QueueEnd, Waiting, IsLast, SameNews

\* Another object's item comes.
LEMMA AppendOther ==
    ASSUME queue \in Seq(QueueItems), NEW u, NEW e \in QueueItems, e.uid # u,
           queue' = Append(queue, e), SameNews(u)
    PROVE  SameItems(u)
<1>1. /\ DOMAIN queue' = DOMAIN queue \cup {Len(queue) + 1}
      /\ \A k \in DOMAIN queue : queue'[k] = queue[k]
      /\ queue'[Len(queue) + 1] = e
  OBVIOUS
<1>2. \A k \in DOMAIN queue' : queue'[k].uid = u => k \in DOMAIN queue /\ queue'[k] = queue[k]
  BY <1>1
<1>3. Queued(u)' <=> Queued(u)
  BY <1>1, <1>2 DEF Queued
<1>4. Waiting(u) => Waiting(u)'
  BY <1>1 DEF Waiting
<1>5. QueueEnd(u) => QueueEnd(u)'
  BY <1>1, <1>2 DEF QueueEnd, IsLast, SameNews
<1> QED
  BY <1>3, <1>4, <1>5 DEF SameItems

\* The queue without its head.
Shifted ==
    /\ \A k \in DOMAIN queue' : /\ queue'[k] = queue[k + 1] /\ k + 1 \in DOMAIN queue
                                /\ k \in Nat /\ k + 1 # 1
    /\ \A k \in DOMAIN queue : k # 1 =>
          1 < k /\ \E j \in DOMAIN queue' : k = j + 1 /\ queue'[j] = queue[k]
    /\ 1 \in DOMAIN queue /\ DOMAIN queue \subseteq Nat /\ Head(queue) = queue[1]

\* Taking the head shifts the queue by one.
LEMMA TailShifts ==
    ASSUME queue \in Seq(QueueItems), queue # <<>>, queue' = Tail(queue)
    PROVE  Shifted
<1>1. /\ \A k \in DOMAIN queue' : queue'[k] = queue[k + 1] /\ k + 1 \in DOMAIN queue /\ k \in Nat
      /\ \A k \in DOMAIN queue : k # 1 => k - 1 \in DOMAIN queue' /\ k = (k - 1) + 1
      /\ 1 \in DOMAIN queue /\ DOMAIN queue \subseteq Nat /\ Head(queue) = queue[1]
      /\ \A k \in DOMAIN queue : k # 1 => 1 < k
  OBVIOUS
<1> QED
  BY <1>1 DEF Shifted

\* The last item of u is still the last one when the head is taken ...
LEMMA TailEnd ==
    ASSUME queue \in Seq(QueueItems), queue # <<>>, queue' = Tail(queue), NEW u, QueueEnd(u),
           SameNews(u)
    PROVE  QueueEnd(u)'
<1> SUFFICES ASSUME NEW k \in DOMAIN queue', queue'[k].uid = u
             PROVE  IF \E j \in DOMAIN queue' : k < j /\ queue'[j].uid = u
                    THEN u \notin returned => queue'[k].op # "DELETE"
                    ELSE IsLast(queue'[k], u)
  BY DEF QueueEnd, IsLast, SameNews
<1>0. Shifted
  BY TailShifts
<1>1. (\E j \in DOMAIN queue' : k < j /\ queue'[j].uid = u)
        <=> (\E j \in DOMAIN queue : k + 1 < j /\ queue[j].uid = u)
  <2>1. ASSUME NEW j \in DOMAIN queue', k < j, queue'[j].uid = u
        PROVE  \E m \in DOMAIN queue : k + 1 < m /\ queue[m].uid = u
    <3>1. j + 1 \in DOMAIN queue /\ queue[j + 1].uid = u /\ j \in Nat /\ k \in Nat
      BY <1>0, <2>1 DEF Shifted
    <3> QED
      BY <2>1, <3>1
  <2>2. ASSUME NEW j \in DOMAIN queue, k + 1 < j, queue[j].uid = u
        PROVE  \E m \in DOMAIN queue' : k < m /\ queue'[m].uid = u
    <3>1. k \in Nat /\ j # 1
      BY <1>0, <2>2 DEF Shifted
    <3>2. PICK m \in DOMAIN queue' : j = m + 1 /\ queue'[m] = queue[j]
      BY <1>0, <3>1 DEF Shifted
    <3>3. m \in Nat
      BY <1>0 DEF Shifted
    <3> QED
      BY <2>2, <3>1, <3>2, <3>3
  <2> QED
    BY <2>1, <2>2
<1> QED
  BY <1>0, <1>1 DEF QueueEnd, Shifted

\* ... and nothing else becomes of u's items when the head is another object's.
LEMMA TailOther ==
    ASSUME queue \in Seq(QueueItems), queue # <<>>, NEW u, queue[1].uid # u,
           queue' = Tail(queue), SameNews(u)
    PROVE  SameItems(u)
<1>0. Shifted
  BY TailShifts
<1>1. Queued(u)' <=> Queued(u)
  BY <1>0 DEF Queued, Shifted
<1>2. Waiting(u) => Waiting(u)'
  BY <1>0 DEF Waiting, Shifted
<1> QED
  BY <1>1, <1>2, TailEnd DEF SameItems

\* A ResourceState with its goroutines and machine stays as it is.
SameState(i) ==
    /\ owner'[i] = owner[i]
    /\ resource'[i] = resource[i] /\ incoming'[i] = incoming[i]
    /\ pending'[i] = pending[i] /\ running'[i] = running[i] /\ timer'[i] = timer[i]
    /\ stopped'[i] = stopped[i] /\ closer'[i] = closer[i] /\ fsm'[i] = fsm[i]

\* A step that concerns neither an item nor a ResourceState of object u.
OthersOnly(u) ==
    /\ SameNews(u) /\ SameItems(u)
    /\ resourceMap'[u] = resourceMap[u] /\ sweepList' \subseteq sweepList \cup Mapped
    /\ \A y \in Workers : /\ Handles(y, u)' <=> Handles(y, u)
                          /\ Handles(y, u) => /\ pc'[y] = pc[y] /\ taken'[y] = taken[y]
                                              /\ target'[y] = target[y]
    /\ Born \subseteq Born'
    /\ \A i \in Born : owner'[i] = owner[i]
    /\ \A i \in Born' \ Born : owner'[i] # u
    /\ \A i \in Born : owner[i] = u => SameState(i)

\* A worker that adds a ResourceState handles its object.
LEMMA AddingHandles ==
    ASSUME PInv, NEW i, Adding(i)
    PROVE  \E w \in Workers : Handles(w, owner[i]) /\ pc[w] = "add" /\ target[w] = i
BY DEF PInv, TargetsOK, Adding, Handles, Busy

\* An object's ResourceStates are added as before when its workers stay where they are.
LEMMA SameAdding ==
    ASSUME PInv, PInv', NEW i, owner'[i] = owner[i],
           \A y \in Workers :
              /\ Handles(y, owner[i])' <=> Handles(y, owner[i])
              /\ Handles(y, owner[i]) => pc'[y] = pc[y] /\ target'[y] = target[y]
    PROVE  Adding(i)' <=> Adding(i)
<1>1. ASSUME Adding(i) PROVE Adding(i)'
  <2>1. PICK w \in Workers : Handles(w, owner[i]) /\ pc[w] = "add" /\ target[w] = i
    BY <1>1, AddingHandles
  <2> QED
    BY <2>1 DEF Adding
<1>2. ASSUME Adding(i)' PROVE Adding(i)
  <2>1. PICK w \in Workers : pc'[w] = "add" /\ target'[w] = i
    BY <1>2 DEF Adding
  <2>2. Handles(w, owner[i])'
    BY <2>1 DEF PInv, TargetsOK, Handles, Busy
  <2>3. pc'[w] = pc[w] /\ target'[w] = target[w]
    BY <2>2
  <2> QED
    BY <2>1, <2>3 DEF Adding
<1> QED
  BY <1>1, <1>2

\* What the sweeper lists anew is what the map leads to.
LEMMA ListedStays ==
    ASSUME IInv, PInv, NEW u \in UIDs, ListedOK(u), resourceMap'[u] = resourceMap[u],
           sweepList' \subseteq sweepList \cup Mapped, \A i \in Born : owner'[i] = owner[i]
    PROVE  ListedOK(u)'
<1> SUFFICES ASSUME NEW i \in sweepList', owner'[i] = u PROVE resourceMap[u] = i
  BY DEF ListedOK
<1>1. CASE i \in sweepList
  BY <1>1 DEF ListedOK, IInv, TypeOK, StatesOK
<1>2. CASE i \in Mapped
  <2>1. PICK v \in UIDs : resourceMap[v] = i /\ i # 0
    BY <1>2 DEF Mapped
  <2>2. i \in Born
    BY <2>1 DEF IInv, TypeOK, StatesOK
  <2> QED
    BY <2>1, <2>2 DEF PInv, MapOK
<1> QED
  BY <1>1, <1>2

\* Such a step keeps u tracked.
LEMMA OthersKeepTracks ==
    ASSUME IInv, PInv, PInv', NEW u \in UIDs, Tracks(u), OthersOnly(u)
    PROVE  Tracks(u)'
<1>1. /\ Queued(u)' <=> Queued(u)
      /\ \A y \in Workers : Handles(y, u)' <=> Handles(y, u)
      /\ Handled(u)' <=> Handled(u)
      /\ Steady(u)' <=> Steady(u)
  BY DEF OthersOnly, SameItems, SameNews, Handled, Steady
<1>2. \A i \in Born : owner[i] = u => SameState(i) /\ owner'[i] = u /\ (Adding(i)' <=> Adding(i))
                                      /\ (Gone(i)' <=> Gone(i))
  <2> SUFFICES ASSUME NEW i \in Born, owner[i] = u
               PROVE  SameState(i) /\ owner'[i] = u /\ (Adding(i)' <=> Adding(i))
                      /\ (Gone(i)' <=> Gone(i))
    OBVIOUS
  <2>1. SameState(i) /\ owner'[i] = u
    BY DEF OthersOnly
  <2>2. Adding(i)' <=> Adding(i)
    BY SameAdding DEF OthersOnly
  <2> QED
    BY <2>1, <2>2 DEF Gone, SameState
<1>3. LineOK(u)'
  <2>1. QueueEnd(u)' /\ ToldOK(u)'
    BY DEF OthersOnly, SameItems, SameNews, Tracks, LineOK, ToldOK
  <2>2. WorkerEnd(u)'
    <3>1. \A w \in Workers : Handles(w, u) /\ pc[w] \in {"check", "send"}
                               => owner'[target[w]] = u
      BY DEF OthersOnly, Tracks, LineOK, WorkerEnd, IInv, TypeOK, WorkersOK
    <3> QED
      BY <1>1, <3>1 DEF OthersOnly, SameNews, Tracks, LineOK, WorkerEnd, IsLast
  <2>3. Represented(u)'
    <3> SUFFICES ASSUME Steady(u)
                 PROVE  IF resourceMap[u] # 0 THEN ~Gone(resourceMap[u])'
                        ELSE \/ Waiting(u)'
                             \/ \E w \in Workers : Handles(w, u)' /\ pc'[w] \in {"lookup", "add"}
      BY <1>1 DEF OthersOnly, Represented
    <3>1. CASE resourceMap[u] # 0
      <4>1. resourceMap[u] \in Born /\ owner[resourceMap[u]] = u
        BY <3>1 DEF PInv, MapOK, IInv, TypeOK, StatesOK
      <4>2. PICK i \in Born : i = resourceMap[u] /\ i = resourceMap'[u] /\ owner[i] = u
        BY <4>1 DEF OthersOnly
      <4>3. ~Gone(i) /\ (Gone(i)' <=> Gone(i))
        BY <1>2, <3>1, <4>2 DEF Tracks, LineOK, Represented
      <4> QED
        BY <3>1, <4>2, <4>3
    <3>2. CASE resourceMap[u] = 0
      BY <1>1, <3>2 DEF OthersOnly, SameItems, Tracks, LineOK, Represented
    <3> QED
      BY <3>1, <3>2
  <2>4. ListedOK(u)'
    BY ListedStays DEF OthersOnly, Tracks, LineOK
  <2> QED
    BY <2>1, <2>2, <2>3, <2>4 DEF LineOK
<1>4. ASSUME NEW i \in Born, owner[i] = u PROVE StateOK(i)'
  <2>1. StateOK(i)
    BY <1>4 DEF Tracks
  <2>2. SameState(i) /\ owner'[i] = u /\ (Adding(i)' <=> Adding(i)) /\ (Gone(i)' <=> Gone(i))
    BY <1>2, <1>4
  <2>3. Serving(i) => Serving(i)'
    <3>1. Attached(i) => Attached(i)'
      BY <1>4, <2>2 DEF OthersOnly, Attached, SameState
    <3>2. NilFree(i) => NilFree(i)'
      BY <2>2 DEF NilFree, SameState
    <3>3. UpToDate(i) => UpToDate(i)'
      BY <1>4, <2>2 DEF UpToDate, LastTold, ToldNil, SameState, OthersOnly, SameNews
    <3> QED
      BY <1>1, <1>4, <2>2, <3>1, <3>2, <3>3 DEF Serving, SameState
  <2>4. \A j \in Born' : owner'[j] = u => j \in Born /\ owner[j] = u
    BY DEF OthersOnly
  <2> QED
    BY <1>2, <1>4, <2>1, <2>2, <2>3, <2>4 DEF StateOK
<1>5. \A i \in Born' : owner'[i] = u => i \in Born /\ owner[i] = u
  BY DEF OthersOnly
<1> QED
  BY <1>3, <1>4, <1>5 DEF Tracks

\* An object that nothing is in hand of has no ResourceState but those that are gone.
LEMMA NotInHand ==
    ASSUME IInv, PInv, NEW u \in UIDs, Tracks(u), ~InHand(u)
    PROVE  ~Queued(u) /\ ~Handled(u) /\ \A i \in Born : owner[i] = u => Gone(i)
<1>1. ~Queued(u) /\ ~Handled(u) /\ resourceMap[u] = 0
  BY DEF InHand, Queued, Handled, Handles, Busy
<1>2. ASSUME NEW i \in Born, owner[i] = u PROVE ~Attached(i)
  <2>1. i # 0
    BY DEF Born
  <2> QED
    BY <1>1, <1>2, <2>1, AddingHandles DEF Attached, Handled
<1> QED
  BY <1>1, <1>2 DEF Tracks, StateOK, Serving

\* The informer enqueues the last version of an object, and DELETE when it is gone.
LEMMA EnqueueTracks ==
    ASSUME IInv, PInv, PInv', NEW u \in UIDs, NEW v \in Versions, NEW o, Enqueue(o, u, v),
           kindKnown, Tracks(u), latest'[u] = v, o = "DELETE" <=> u \notin told',
           u \in live' => u \in told',
           \/ u \in returned'
           \/ ~InHand(u) /\ o # "DELETE"
           \/ u \in told /\ (u \in returned' <=> u \in returned)
    PROVE  Tracks(u)'
<1>0. PICK n : n = Len(queue) + 1
  OBVIOUS
<1>1. /\ queue \in Seq(QueueItems) /\ v # NoObject
      /\ queue' = Append(queue, [op |-> o, uid |-> u, version |-> v])
  BY TrackerAssumption DEF IInv, TypeOK, ClusterOK, Enqueue
<1>2. /\ DOMAIN queue' = DOMAIN queue \cup {n} /\ n \notin DOMAIN queue
      /\ \A k \in DOMAIN queue : queue'[k] = queue[k] /\ k < n /\ k \in Nat
      /\ queue'[n].op = o /\ queue'[n].uid = u /\ queue'[n].version = v
      /\ n \in Nat
  BY <1>0, <1>1
<1>3. UNCHANGED <<pc, taken, target, owner, resourceMap, resource, incoming, pending, running,
                  timer, stopped, closer, fsm, sweepList>>
  BY DEF Enqueue, workerVars, dispatchVars, machineVars
<1>4. Queued(u)' /\ Born' = Born
  BY <1>2, <1>3 DEF Queued, Born
<1>5. ~InHand(u) => ~Queued(u) /\ ~Handled(u) /\ \A i \in Born : owner[i] = u => Gone(i)
  BY NotInHand
<1>6. /\ \A i : Gone(i)' <=> Gone(i)
      /\ \A i : Attached(i)' <=> Attached(i)
      /\ \A i : NilFree(i)' <=> NilFree(i)
      /\ \A w \in Workers : Handles(w, u)' <=> Handles(w, u)
  BY <1>3 DEF Gone, Attached, NilFree, Adding, Handles, Busy
<1>7. QueueEnd(u)'
  <2> SUFFICES ASSUME NEW k \in DOMAIN queue', queue'[k].uid = u
               PROVE  IF \E j \in DOMAIN queue' : k < j /\ queue'[j].uid = u
                      THEN u \notin returned' => queue'[k].op # "DELETE"
                      ELSE /\ queue'[k].version = latest'[u]
                           /\ queue'[k].op = "DELETE" <=> u \notin told'
    BY DEF QueueEnd, IsLast
  <2>1. CASE k = n
    <3>1. ~\E j \in DOMAIN queue' : k < j
      BY <1>2, <2>1
    <3> QED
      BY <1>2, <2>1, <3>1
  <2>2. CASE k # n
    <3>1. k \in DOMAIN queue /\ queue'[k] = queue[k] /\ k < n
      BY <1>2, <2>2
    <3>2. ASSUME u \notin returned' PROVE queue[k].op # "DELETE"
      <4>1. u \in told /\ u \notin returned
        BY <1>5, <3>1, <3>2 DEF Queued
      <4> QED
        BY <3>1, <4>1 DEF Tracks, LineOK, QueueEnd, IsLast
    <3> QED
      BY <1>2, <3>1, <3>2
  <2> QED
    BY <2>1, <2>2
<1>8. WorkerEnd(u)'
  <2>1. ASSUME NEW w \in Workers, Handles(w, u), u \notin returned' PROVE taken[w].op # "DELETE"
    <3>1. u \in told /\ u \notin returned
      BY <1>5, <2>1 DEF Handled
    <3> QED
      BY <2>1, <3>1 DEF Tracks, LineOK, WorkerEnd, IsLast
  <2> QED
    BY <1>3, <1>4, <1>6, <2>1 DEF Tracks, LineOK, WorkerEnd
<1>9. Represented(u)'
  <2> SUFFICES ASSUME Steady(u)'
               PROVE  IF resourceMap[u] # 0 THEN ~Gone(resourceMap[u]) ELSE Waiting(u)'
    BY <1>3, <1>6 DEF Represented
  <2>1. Waiting(u)'
    BY <1>2 DEF Waiting, Steady
  <2>2. ASSUME resourceMap[u] # 0 PROVE Steady(u)
    BY <2>2 DEF Steady, InHand
  <2> QED
    BY <2>1, <2>2 DEF Tracks, LineOK, Represented
<1>10. ToldOK(u)' /\ ListedOK(u)'
  BY <1>1, <1>3 DEF ToldOK, ListedOK, Tracks, LineOK
<1>11. ASSUME NEW i \in Born, owner[i] = u PROVE StateOK(i)'
  <2>1. CASE Gone(i)
    BY <1>6, <2>1 DEF StateOK
  <2>2. CASE ~Gone(i)
    <3>1. Serving(i) /\ \A j \in Born : owner[j] = u /\ j # i => Gone(j)
      BY <1>11, <2>2 DEF Tracks, StateOK
    <3>2. Steady(u)' => Steady(u)
      BY <1>5, <1>11, <2>2 DEF Steady
    <3>3. Serving(i)'
      BY <1>3, <1>4, <1>6, <1>11, <3>1, <3>2 DEF Serving
    <3> QED
      BY <1>3, <1>4, <1>6, <1>11, <3>1, <3>3 DEF StateOK
  <2> QED
    BY <2>1, <2>2
<1> QED
  BY <1>3, <1>4, <1>7, <1>8, <1>9, <1>10, <1>11 DEF Tracks, LineOK

\* Nothing changes for the other objects.
LEMMA EnqueueKeepsTracks ==
    ASSUME IInv, PInv, PInv', NEW u \in UIDs, Tracks(u), NEW x \in UIDs \ {u},
           NEW v \in Versions, NEW o \in {"ADD", "Update", "DELETE"},
           Enqueue(o, x, v), SameNews(u)
    PROVE  Tracks(u)'
<1>1. SameItems(u)
  <2>1. [op |-> o, uid |-> x, version |-> v] \in QueueItems
    BY DEF QueueItems
  <2> QED
    BY <2>1, AppendOther DEF Enqueue, IInv, TypeOK, ClusterOK
<1>2. UNCHANGED <<pc, taken, target, owner, resourceMap, resource, incoming, pending, running,
                  timer, stopped, closer, fsm, sweepList>>
  BY DEF Enqueue, workerVars, dispatchVars, machineVars
<1>3. OthersOnly(u)
  BY <1>1, <1>2 DEF OthersOnly, SameState, Handles, Busy, Born
<1> QED
  BY <1>3, OthersKeepTracks

\* A crash leaves nothing to track.
LEMMA EmptyTracks == ASSUME Empty' PROVE TInv'
<1>1. Born' = {}
  BY DEF Empty, Born
<1> QED
  BY <1>1 DEF Empty, TInv, Tracks, LineOK, QueueEnd, WorkerEnd, Represented, Handles, Steady,
     ToldOK, ListedOK

\* The handlers of the informer, for the objects of names that stay undisturbed.
LEMMA InformerTracks ==
    ASSUME IInv, PInv, TInv, IInv', PInv', Informer
    PROVE  TInv'
<1>1. ASSUME NEW x \in UIDs, NEW v \in Versions, NEW o \in {"ADD", "Update", "DELETE"},
             Enqueue(o, x, v), UNCHANGED disturbed, latest' = [latest EXCEPT ![x] = v],
             \A u \in UIDs \ {x} : /\ u \in told' <=> u \in told
                                   /\ u \in returned' <=> u \in returned
                                   /\ u \in live' => u \in live,
             ToldOK(x) => /\ o = "DELETE" <=> x \notin told'
                          /\ x \in live' => x \in told'
                          /\ \/ x \in returned'
                             \/ ~InHand(x) /\ o # "DELETE"
                             \/ x \in told /\ (x \in returned' <=> x \in returned)
      PROVE  TInv'
  <2> SUFFICES ASSUME kindKnown, NEW u \in UIDs, NameOf[u] \notin disturbed' PROVE Tracks(u)'
    BY <1>1 DEF TInv, Enqueue
  <2>1. Tracks(u) /\ latest \in [UIDs -> Versions \cup {NoObject}]
    BY <1>1 DEF TInv, IInv, TypeOK, ClusterOK
  <2>2. CASE u = x
    <3>1. ToldOK(u)
      BY <2>1 DEF Tracks, LineOK
    <3>2. latest'[u] = v
      BY <1>1, <2>1, <2>2
    <3> QED
      BY <1>1, <2>1, <2>2, <3>1, <3>2, EnqueueTracks
  <2>3. CASE u # x
    <3>1. SameNews(u)
      BY <1>1, <2>1, <2>3 DEF SameNews
    <3> QED
      BY <1>1, <2>1, <2>3, <3>1, EnqueueKeepsTracks
  <2> QED
    BY <2>2, <2>3
<1>2. ASSUME NEW b \in Objects, NextRev <= MaxRev PROVE NextVersion(b) \in Versions
  BY <1>2, NextVersionOK DEF IInv, TypeOK
<1>3. live \subseteq UIDs /\ latest \in [UIDs -> Versions \cup {NoObject}]
  BY DEF IInv, TypeOK, ClusterOK
<1>4. ASSUME NEW u \in UIDs, NEW b \in Objects, NEW o \in {"ADD", "Update"}, Appears(u, b),
             Enqueue(o, u, NextVersion(b)), \A x \in UIDs \ {u} : x \in live' => x \in live
      PROVE  TInv'
  <2>1. NextVersion(b) \in Versions
    BY <1>2, <1>4 DEF Appears
  <2>2. /\ told' = told \cup {u} /\ UNCHANGED disturbed
        /\ latest' = [latest EXCEPT ![u] = NextVersion(b)]
        /\ returned' = IF InHand(u) THEN returned \cup {u} ELSE returned \ {u}
    BY <1>4 DEF Appears
  <2> QED
    BY <1>1, <1>4, <2>1, <2>2
<1>5. ASSUME NEW u \in UIDs, NEW b \in Objects, InformerUpdate(u, b) PROVE TInv'
  <2>1. NextVersion(b) \in Versions
    BY <1>2, <1>5 DEF InformerUpdate
  <2>2. /\ u \in live /\ Enqueue("Update", u, NextVersion(b))
        /\ UNCHANGED <<live, told, returned, disturbed>>
        /\ latest' = [latest EXCEPT ![u] = NextVersion(b)]
    BY <1>5 DEF InformerUpdate
  <2>3. ToldOK(u) => u \in told
    BY <2>2 DEF ToldOK
  <2> QED
    BY <1>1, <2>1, <2>2, <2>3
<1>6. ASSUME NEW u \in UIDs, InformerDelete(u) PROVE TInv'
  <2>1. latest[u] \in Versions /\ latest' = [latest EXCEPT ![u] = latest[u]]
    BY <1>3, <1>6 DEF InformerDelete, PInv, Versioned
  <2>2. /\ u \in live /\ live' = live \ {u} /\ told' = told \ {u}
        /\ Enqueue("DELETE", u, latest[u]) /\ UNCHANGED <<returned, disturbed>>
    BY <1>6 DEF InformerDelete
  <2>3. ToldOK(u) => u \in told
    BY <2>2 DEF ToldOK
  <2> QED
    BY <1>1, <2>1, <2>2, <2>3
<1>7. ASSUME NEW u \in UIDs, NEW b \in Objects, InformerAdd(u, b) PROVE TInv'
  BY <1>4, <1>7 DEF InformerAdd
<1>8. ASSUME NEW u \in UIDs, NEW v \in UIDs, NEW b \in Objects, InformerReplace(u, v, b)
      PROVE  TInv'
  BY <1>4, <1>8 DEF InformerReplace
<1>9. ASSUME NEW u \in UIDs, InformerTombstone(u) PROVE TInv'
  BY <1>9, CrashEmpties, EmptyTracks DEF InformerTombstone
<1> QED
  BY <1>5, <1>6, <1>7, <1>8, <1>9 DEF Informer

\* The oldest item goes to a worker, which is the only one of the name.
LEMMA TakeTracks ==
    ASSUME IInv, PInv, PInv', TInv, NEW w \in Workers, Take(w)
    PROVE  TInv'
<1> DEFINE x == queue[1].uid
<1>1. /\ queue # <<>> /\ queue \in Seq(QueueItems) /\ queue' = Tail(queue)
      /\ Head(queue) = queue[1] /\ 1 \in DOMAIN queue /\ x \in UIDs
  <2>1. queue # <<>> /\ queue \in Seq(QueueItems) /\ queue' = Tail(queue)
    BY DEF IInv, TypeOK, ClusterOK, Take
  <2>2. Head(queue) = queue[1] /\ 1 \in DOMAIN queue
    BY <2>1, TailShifts DEF Shifted
  <2>3. queue[1] \in QueueItems
    BY <2>1, <2>2
  <2> QED
    BY <2>1, <2>2, <2>3 DEF QueueItems
<1>0. Shifted
  BY <1>1, TailShifts
<1>2. UNCHANGED <<kindKnown, live, latest, told, returned, owner, resourceMap, target, resource,
                  incoming, pending, running, timer, stopped, closer, fsm, sweepList>>
  BY DEF Take, clusterVars, dispatchVars, machineVars
<1>3. /\ ~Busy(w) /\ taken'[w] = queue[1] /\ Grow /\ Busy(w)'
      /\ pc'[w] = IF queue[1].op = "DELETE" THEN "index" ELSE "lookup"
      /\ \A y \in Workers \ {w} : pc'[y] = pc[y] /\ taken'[y] = taken[y]
      /\ \A y \in Workers \ {w} : Busy(y) /\ Subject(y) = NameOf[x] => NameOf[x] \in disturbed'
  BY <1>1 DEF Take, Goto, Busy, Grow, IInv, TypeOK, WorkersOK
<1> SUFFICES ASSUME kindKnown, NEW u \in UIDs, NameOf[u] \notin disturbed' PROVE Tracks(u)'
  BY <1>2 DEF TInv
<1>4. Tracks(u) /\ SameNews(u)
  BY <1>2, <1>3 DEF TInv, Grow, SameNews
<1>5. ASSUME u # x PROVE Tracks(u)'
  <2>1. SameItems(u)
    BY <1>1, <1>4, <1>5, TailOther
  <2>2. \A y \in Workers : /\ Handles(y, u)' <=> Handles(y, u)
                           /\ Handles(y, u) => pc'[y] = pc[y] /\ taken'[y] = taken[y]
    BY <1>3, <1>5 DEF Handles, Busy
  <2>3. OthersOnly(u)
    BY <1>2, <1>4, <2>1, <2>2 DEF OthersOnly, SameState, Born
  <2> QED
    BY <1>4, <2>3, OthersKeepTracks
<1>6. ASSUME u = x PROVE Tracks(u)'
  <2>1. /\ \A y \in Workers : ~Handles(y, u)
        /\ \A y \in Workers : Handles(y, u)' => y = w
        /\ Handles(w, u)'
    <3>1. \A y \in Workers \ {w} : Handles(y, u) => Busy(y) /\ Subject(y) = NameOf[x]
      BY <1>6 DEF Handles, Subject
    <3>2. \A y \in Workers : ~Handles(y, u)
      BY <1>3, <1>6, <3>1 DEF Handles
    <3> QED
      BY <1>3, <1>6, <3>2 DEF Handles, Busy
  <2>2. QueueEnd(u)'
    BY <1>1, <1>4, TailEnd DEF Tracks, LineOK
  <2>3. IF Queued(u)' THEN u \notin returned => queue[1].op # "DELETE" ELSE IsLast(queue[1], u)
    <3>1. Queued(u)' <=> \E j \in DOMAIN queue : 1 < j /\ queue[j].uid = u
      BY <1>0 DEF Queued, Shifted
    <3> QED
      BY <1>1, <1>4, <1>6, <3>1 DEF Tracks, LineOK, QueueEnd
  <2>4. WorkerEnd(u)'
    BY <1>2, <1>3, <2>1, <2>3 DEF WorkerEnd, IsLast
  <2>5. \A i : Adding(i)' <=> Adding(i)
    BY <1>2, <1>3 DEF Adding, Busy
  <2>6. \A i : Gone(i)' <=> Gone(i)
    BY <1>2, <2>5 DEF Gone
  <2>7. Represented(u)'
    <3>1. ASSUME NEW k \in DOMAIN queue, queue[k].uid = u, queue[k].op # "DELETE"
          PROVE  Waiting(u)' \/ (Handles(w, u)' /\ pc'[w] = "lookup")
      <4>1. CASE k = 1
        BY <1>3, <2>1, <3>1, <4>1
      <4>2. CASE k # 1
        BY <1>0, <3>1, <4>2 DEF Waiting, Shifted
      <4> QED
        BY <4>1, <4>2
    <3> QED
      BY <1>2, <1>4, <2>1, <2>6, <3>1
      DEF Tracks, LineOK, Represented, Waiting, Steady
  <2>8. ASSUME NEW i \in Born, owner[i] = u PROVE StateOK(i)'
    <3>1. Handled(u)'
      BY <2>1 DEF Handled
    <3>2. Serving(i) => Serving(i)'
      BY <1>2, <2>5, <2>8, <3>1 DEF Serving, Attached, Steady, NilFree
    <3> QED
      BY <1>2, <1>4, <2>6, <2>8, <3>2 DEF Tracks, StateOK, Born
  <2> QED
    BY <1>2, <1>4, <2>2, <2>4, <2>7, <2>8 DEF Tracks, LineOK, ToldOK, ListedOK, Born
<1> QED
  BY <1>5, <1>6

\* A step of a worker, for the objects it does not handle.
LEMMA WorkerKeepsOthers ==
    ASSUME IInv, PInv, PInv', NEW w \in Workers, GoesOn(w),
           UNCHANGED <<queue, live, latest, told, returned, sweepList>>,
           NEW u \in UIDs, u # taken[w].uid, Tracks(u), resourceMap'[u] = resourceMap[u],
           Born \subseteq Born', \A i \in Born : owner'[i] = owner[i],
           \A i \in Born' \ Born : owner'[i] # u,
           \A i \in Born : owner[i] = u => SameState(i)
    PROVE  Tracks(u)'
<1>1. \A y \in Workers \ {w} : /\ pc'[y] = pc[y] /\ taken'[y] = taken[y]
                               /\ target'[y] = target[y]
  BY DEF IInv, TypeOK, WorkersOK, GoesOn
<1>2. ~Handles(w, u) /\ ~Handles(w, u)'
  BY DEF GoesOn, Handles, Busy
<1>3. \A y \in Workers : /\ Handles(y, u)' <=> Handles(y, u)
                         /\ Handles(y, u) => /\ pc'[y] = pc[y] /\ taken'[y] = taken[y]
                                             /\ target'[y] = target[y]
  BY <1>1, <1>2 DEF Handles, Busy
<1>4. SameNews(u) /\ SameItems(u)
  BY QueueSame DEF SameNews
<1>5. OthersOnly(u)
  BY <1>3, <1>4 DEF OthersOnly
<1> QED
  BY <1>5, OthersKeepTracks

\* The object that a worker handles, while its name is undisturbed.
LEMMA WorkerIsAlone ==
    ASSUME PInv, NEW w \in Workers, Busy(w), Subject(w) \notin disturbed
    PROVE  \A y \in Workers : Handles(y, taken[w].uid) => y = w
BY DEF PInv, Alone, Handles, Subject

\* What a worker at work on an undisturbed object knows of it.
LEMMA TargetIsItsOwn ==
    ASSUME IInv, PInv, TInv, kindKnown, NEW w \in Workers, pc[w] \in {"add", "check", "send"},
           Subject(w) \notin disturbed
    PROVE  /\ target[w] \in Born /\ owner[target[w]] = taken[w].uid
           /\ taken[w].uid \in UIDs /\ Handles(w, taken[w].uid)
           /\ StateOK(target[w])
           /\ pc[w] = "add" => resourceMap[taken[w].uid] = 0
           /\ pc[w] # "add" => resourceMap[taken[w].uid] \in {0, target[w]}
<1>1. /\ target[w] \in Born /\ taken[w].uid \in UIDs /\ Handles(w, taken[w].uid) /\ Busy(w)
  BY DEF IInv, TypeOK, WorkersOK, QueueItems, Handles, Busy
<1>2. Tracks(taken[w].uid)
  BY <1>1 DEF TInv, Subject
<1>3. owner[target[w]] = taken[w].uid
  BY <1>1, <1>2 DEF Tracks, LineOK, WorkerEnd, PInv, TargetsOK
<1> QED
  BY <1>1, <1>2, <1>3 DEF Tracks, LineOK, WorkerEnd

\* While no worker of object u is at "add", a ResourceState of u that serves is in the map.
LEMMA ServingIsMapped ==
    ASSUME PInv, NEW u, \A y \in Workers : Handles(y, u) => pc[y] # "add",
           NEW i, owner[i] = u, Serving(i)
    PROVE  resourceMap[u] = i /\ running[i] /\ ~Adding(i)
BY AddingHandles DEF Serving, Attached

\* A worker goes on with its object, to check or to send.
LEMMA OwnGoesOn ==
    ASSUME IInv, PInv, PInv', TInv, kindKnown, NEW w \in Workers, GoesOn(w), Busy(w)',
           taken'[w] = taken[w], pc[w] # "add", Subject(w) \notin disturbed,
           pc[w] = "lookup" => resourceMap[taken[w].uid] # 0,
           pc'[w] \in {"check", "send"},
           owner[target'[w]] = taken[w].uid, resourceMap[taken[w].uid] \in {0, target'[w]},
           UNCHANGED <<queue, live, latest, told, returned, owner, resourceMap, resource,
                       incoming, pending, running, timer, stopped, closer, fsm, sweepList>>
    PROVE  Tracks(taken[w].uid)'
<1> DEFINE x == taken[w].uid
<1>1. /\ Busy(w) /\ x \in UIDs /\ Handles(w, x) /\ Handles(w, x)'
      /\ \A y \in Workers : Handles(y, x) => y = w
  BY WorkerIsAlone DEF GoesOn, IInv, TypeOK, WorkersOK, Busy, QueueItems, Handles
<1>2. \A y \in Workers \ {w} : pc'[y] = pc[y] /\ taken'[y] = taken[y] /\ target'[y] = target[y]
  BY DEF IInv, TypeOK, WorkersOK, GoesOn
<1>3. PICK u : u = x
  OBVIOUS
<1> HIDE DEF x
<1>4. Tracks(u) /\ SameNews(u)
  BY <1>1, <1>3 DEF TInv, Subject, SameNews, x
<1>5. \A y \in Workers : Handles(y, u)' => y = w
  BY <1>1, <1>2, <1>3 DEF Handles, Busy
<1>6. SameItems(u)
  BY <1>4, QueueSame
<1>7. QueueEnd(u)' /\ (Queued(u)' <=> Queued(u))
  BY <1>4, <1>6 DEF SameItems, Tracks, LineOK
<1>8. WorkerEnd(u)'
  <2>1. IF Queued(u) THEN u \notin returned => taken[w].op # "DELETE" ELSE IsLast(taken[w], u)
    BY <1>1, <1>3, <1>4 DEF Tracks, LineOK, WorkerEnd
  <2> QED
    BY <1>3, <1>5, <1>7, <2>1 DEF WorkerEnd, IsLast, x
<1>9. \A i : (Adding(i)' <=> Adding(i)) /\ (Gone(i)' <=> Gone(i))
  <2>1. \A i : Adding(i)' <=> Adding(i)
    BY <1>2 DEF Adding
  <2> QED
    BY <2>1 DEF Gone
<1>10. Represented(u)'
  <2>1. CASE resourceMap[u] = 0
    <3>1. \A y \in Workers : ~(Handles(y, u) /\ pc[y] \in {"lookup", "add"})
      BY <1>1, <1>3, <2>1 DEF x
    <3> QED
      BY <1>4, <1>6, <2>1, <3>1 DEF Tracks, LineOK, Represented, SameItems, Steady
  <2>2. CASE resourceMap[u] # 0
    BY <1>4, <1>9, <2>2 DEF Tracks, LineOK, Represented, Steady
  <2> QED
    BY <2>1, <2>2
<1>11. ASSUME NEW j \in Born, owner[j] = u PROVE StateOK(j)'
  <2>1. Handled(u)'
    BY <1>1, <1>3 DEF Handled, Handles, Busy, x
  <2>2. Serving(j) => Serving(j)'
    BY <1>9, <1>11, <2>1 DEF Serving, Attached, Steady, NilFree
  <2> QED
    BY <1>4, <1>9, <1>11, <2>2 DEF Tracks, StateOK, Born
<1> QED
  BY <1>3, <1>4, <1>7, <1>8, <1>10, <1>11 DEF Tracks, LineOK, ToldOK, ListedOK, Born, x

\* A worker is done with an object; what its ResourceStates served, they serve still.
LEMMA OwnFinishes ==
    ASSUME IInv, PInv, PInv', TInv, kindKnown, NEW w \in Workers, Busy(w), Finish(w),
           pc[w] # "add", Subject(w) \notin disturbed,
           pc[w] = "lookup" => resourceMap[taken[w].uid] # 0,
           UNCHANGED <<queue, live, latest, told, returned, owner, resourceMap, running,
                       stopped, closer, fsm, sweepList>>,
           NEW u, u = taken[w].uid,
           \A j \in Born : owner[j] = u /\ Serving(j) => Serving(j)'
    PROVE  Tracks(u)'
<1>1. /\ u \in UIDs /\ Handles(w, u) /\ \A y \in Workers : Handles(y, u) => y = w
  BY WorkerIsAlone DEF IInv, TypeOK, WorkersOK, Busy, QueueItems, Handles
<1>2. /\ \A y \in Workers \ {w} : pc'[y] = pc[y] /\ taken'[y] = taken[y] /\ target'[y] = target[y]
      /\ pc'[w] = "idle"
  BY DEF IInv, TypeOK, WorkersOK, Finish
<1>3. Tracks(u) /\ SameNews(u)
  BY <1>1 DEF TInv, Subject, SameNews
<1>4. \A y \in Workers : ~Handles(y, u)'
  BY <1>1, <1>2 DEF Handles, Busy
<1>5. SameItems(u)
  BY <1>3, QueueSame
<1>6. QueueEnd(u)' /\ WorkerEnd(u)'
  BY <1>3, <1>4, <1>5 DEF SameItems, Tracks, LineOK, WorkerEnd
<1>7. \A i : (Adding(i)' <=> Adding(i)) /\ (Gone(i)' <=> Gone(i))
  <2>1. \A i : Adding(i)' <=> Adding(i)
    BY <1>2 DEF Adding
  <2> QED
    BY <2>1 DEF Gone
<1>8. Represented(u)'
  <2>1. CASE resourceMap[u] = 0
    <3>1. \A y \in Workers : ~(Handles(y, u) /\ pc[y] \in {"lookup", "add"})
      BY <1>1, <2>1
    <3> QED
      BY <1>3, <1>5, <2>1, <3>1 DEF Tracks, LineOK, Represented, SameItems, Steady
  <2>2. CASE resourceMap[u] # 0
    BY <1>3, <1>7, <2>2 DEF Tracks, LineOK, Represented, Steady
  <2> QED
    BY <2>1, <2>2
<1>9. ASSUME NEW j \in Born, owner[j] = u PROVE StateOK(j)'
  BY <1>3, <1>7, <1>9 DEF Tracks, StateOK, Born
<1> QED
  BY <1>3, <1>6, <1>8, <1>9 DEF Tracks, LineOK, ToldOK, ListedOK, Born

\* DELETE finds the ResourceState of its object, and no other of the name.
LEMMA ByIndexTracks ==
    ASSUME IInv, PInv, PInv', TInv, NEW w \in Workers, ByIndex(w)
    PROVE  TInv'
<1> DEFINE found == {i \in Mapped : Name(i) = Subject(w)}
           x == taken[w].uid
<1>1. /\ UNCHANGED <<kindKnown, queue, live, latest, told, returned, owner, resourceMap, resource,
                     incoming, pending, running, timer, stopped, closer, fsm, sweepList>>
      /\ pc[w] = "index" /\ Busy(w) /\ Grow
      /\ taken[w] \in QueueItems /\ x \in UIDs
  <2>1. pc[w] = "index"
    BY DEF ByIndex
  <2> QED
    BY <2>1 DEF ByIndex, clusterVars, queueVars, dispatchVars, machineVars, Busy, Grow, IInv,
         TypeOK, WorkersOK, QueueItems
<1>2. found \in SUBSET Born
  BY DEF IInv, TypeOK, StatesOK, Mapped, Born
<1>3. found # {} => Max(found) \in found
  BY <1>2, MaxOK DEF IInv, TypeOK
<1>4. /\ found = {} => GoesOn(w) /\ Finish(w)
      /\ found # {} => /\ GoesOn(w) /\ Busy(w)' /\ pc'[w] = "check" /\ taken'[w] = taken[w]
                       /\ target'[w] = Max(found)
  <2>1. CASE found = {}
    BY <1>1, <2>1, FinishGoesOn DEF ByIndex
  <2>2. CASE found # {}
    <3> HIDE DEF found
    <3>1. /\ target' = [target EXCEPT ![w] = Max(found)]
          /\ older' = [older EXCEPT ![w] = found \ {Max(found)}]
          /\ pc' = [pc EXCEPT ![w] = "check"] /\ UNCHANGED taken
      BY <2>2 DEF ByIndex, Goto, found
    <3> QED
      BY <1>1, <2>2, <3>1 DEF GoesOn, Busy, IInv, TypeOK, WorkersOK
  <2> QED
    BY <2>1, <2>2
<1> SUFFICES ASSUME kindKnown, NEW u \in UIDs, NameOf[u] \notin disturbed' PROVE Tracks(u)'
  BY <1>1 DEF TInv
<1>5. Tracks(u)
  BY <1>1 DEF TInv, Grow
<1>6. CASE u # x
  <2>1. \A i \in Born : SameState(i)
    BY <1>1 DEF SameState
  <2> QED
    BY <1>1, <1>4, <1>5, <1>6, <2>1, WorkerKeepsOthers DEF Born
<1>7. CASE u = x
  <2>1. /\ Subject(w) \notin disturbed /\ Subject(w) \notin disturbed' /\ Handles(w, u)
        /\ \A y \in Workers : Handles(y, u) => y = w
    BY <1>1, <1>7, WorkerIsAlone DEF Subject, Grow, Handles
  <2>2. \A i \in found : owner[i] = u /\ resourceMap[u] = i
    <3> SUFFICES ASSUME NEW i \in found PROVE owner[i] = u /\ resourceMap[u] = i
      OBVIOUS
    <3>1. owner[i] = u
      BY <1>7, <2>1 DEF ByIndex
    <3>2. PICK v \in UIDs : resourceMap[v] = i /\ i # 0
      BY DEF Mapped
    <3> QED
      BY <3>1, <3>2 DEF PInv, MapOK
  <2>3. CASE found = {}
    <3>1. resourceMap[u] = 0
      <4>1. resourceMap[u] # 0 => resourceMap[u] \in Mapped /\ Name(resourceMap[u]) = Subject(w)
        BY <1>7 DEF Mapped, Name, Subject, PInv, MapOK
      <4> QED
        BY <2>3, <4>1
    <3>2. \A j \in Born : owner[j] = u => ~Serving(j)
      <4>1. \A y \in Workers : Handles(y, u) => pc[y] # "add"
        BY <1>1, <2>1
      <4> QED
        BY <3>1, <4>1, ServingIsMapped DEF Born
    <3> HIDE DEF found, x
    <3> QED
      BY <1>1, <1>4, <1>7, <2>1, <2>3, <3>2, OwnFinishes DEF x
  <2>4. CASE found # {}
    <3>1. Max(found) \in found /\ owner[Max(found)] = u /\ resourceMap[u] = Max(found)
      BY <1>3, <2>2, <2>4
    <3>2. PICK i : i = Max(found)
      OBVIOUS
    <3> HIDE DEF found
    <3>3. Tracks(taken[w].uid)'
      BY <1>1, <1>4, <1>7, <2>1, <2>4, <3>1, <3>2, OwnGoesOn
    <3>4. taken'[w] = taken[w]
      BY <1>4, <2>4
    <3> QED
      BY <1>7, <3>3, <3>4
  <2> QED
    BY <2>3, <2>4
<1> QED
  BY <1>6, <1>7

\* ADD and Update find the ResourceState of their object in the map.
LEMMA LookupHitTracks ==
    ASSUME IInv, PInv, PInv', TInv, NEW w \in Workers, LookupHit(w)
    PROVE  TInv'
<1>1. /\ UNCHANGED <<kindKnown, queue, live, latest, told, returned, owner, resourceMap, resource,
                     incoming, pending, running, timer, stopped, closer, fsm, sweepList, disturbed>>
      /\ pc[w] = "lookup" /\ Busy(w) /\ resourceMap[taken[w].uid] # 0
      /\ taken[w] \in QueueItems /\ taken[w].uid \in UIDs
  <2>1. pc[w] = "lookup"
    BY DEF LookupHit
  <2> QED
    BY <2>1 DEF LookupHit, clusterVars, queueVars, dispatchVars, machineVars, Busy, IInv,
         TypeOK, WorkersOK, QueueItems
<1>2. /\ GoesOn(w) /\ Busy(w)' /\ pc'[w] = "check" /\ taken'[w] = taken[w]
      /\ target'[w] = resourceMap[taken[w].uid]
  BY <1>1 DEF LookupHit, Goto, GoesOn, Busy, IInv, TypeOK, WorkersOK
<1>3. /\ resourceMap[taken[w].uid] \in Born
      /\ owner[resourceMap[taken[w].uid]] = taken[w].uid
  BY <1>1 DEF PInv, MapOK, IInv, TypeOK, StatesOK
<1> SUFFICES ASSUME kindKnown, NEW u \in UIDs, NameOf[u] \notin disturbed' PROVE Tracks(u)'
  BY <1>1 DEF TInv
<1>4. Tracks(u) /\ \A i \in Born : SameState(i)
  BY <1>1 DEF TInv, SameState
<1>5. CASE u # taken[w].uid
  BY <1>1, <1>2, <1>4, <1>5, WorkerKeepsOthers DEF Born
<1>6. CASE u = taken[w].uid
  <2>1. Subject(w) \notin disturbed
    BY <1>1, <1>6 DEF Subject
  <2>2. Tracks(taken[w].uid)'
    BY <1>1, <1>2, <1>3, <2>1, OwnGoesOn
  <2> QED
    BY <1>2, <1>6, <2>2
<1> QED
  BY <1>5, <1>6

\* A worker drops what a stopped ResourceState was to get; that one is gone.
LEMMA CheckTracks ==
    ASSUME IInv, PInv, PInv', TInv, NEW w \in Workers, Check(w)
    PROVE  TInv'
<1>1. /\ UNCHANGED <<kindKnown, queue, live, latest, told, returned, owner, resourceMap, resource,
                     incoming, pending, running, timer, stopped, closer, fsm, sweepList, disturbed>>
      /\ pc[w] = "check" /\ Busy(w)
      /\ taken[w] \in QueueItems /\ taken[w].uid \in UIDs
      /\ older[w] \in SUBSET Born
  <2>1. pc[w] = "check"
    BY DEF Check
  <2> QED
    BY <2>1 DEF Check, clusterVars, queueVars, dispatchVars, machineVars, Busy, IInv,
         TypeOK, WorkersOK, QueueItems
<1>2. GoesOn(w)
  <2>1. CASE stopped[target[w]]
    BY <1>1, <2>1, NextOlderGoesOn DEF Check
  <2>2. CASE ~stopped[target[w]]
    BY <1>1, <2>2, GotoGoesOn DEF Check
  <2> QED
    BY <2>1, <2>2
<1> SUFFICES ASSUME kindKnown, NEW u \in UIDs, NameOf[u] \notin disturbed' PROVE Tracks(u)'
  BY <1>1 DEF TInv
<1>3. Tracks(u) /\ \A i \in Born : SameState(i)
  BY <1>1 DEF TInv, SameState
<1>4. CASE u # taken[w].uid
  BY <1>1, <1>2, <1>3, <1>4, WorkerKeepsOthers DEF Born
<1>5. CASE u = taken[w].uid
  <2>1. Subject(w) \notin disturbed
    BY <1>1, <1>5 DEF Subject
  <2>2. /\ target[w] \in Born /\ owner[target[w]] = taken[w].uid
        /\ resourceMap[taken[w].uid] \in {0, target[w]}
    BY <1>1, <2>1, TargetIsItsOwn
  <2>3. CASE stopped[target[w]]
    <3>1. Finish(w)
      <4>1. older[w] = {} /\ NextOlder(w, older[w])
        BY <2>1, <2>3 DEF PInv, TargetsOK, Check
      <4> QED
        BY <4>1 DEF NextOlder
    <3>2. \A j \in Born : owner[j] = u => ~Serving(j)
      <4>1. \A y \in Workers : Handles(y, u) => pc[y] # "add"
        BY <1>1, <1>5, <2>1, WorkerIsAlone
      <4> SUFFICES ASSUME NEW j \in Born, owner[j] = u, Serving(j) PROVE FALSE
        OBVIOUS
      <4>2. resourceMap[u] = j /\ j # 0
        BY <4>1, ServingIsMapped DEF Born
      <4> QED
        BY <1>5, <2>2, <2>3, <4>2 DEF Serving
    <3> QED
      BY <1>1, <1>5, <2>1, <3>1, <3>2, OwnFinishes
  <2>4. CASE ~stopped[target[w]]
    <3>1. Goto(w, "send") /\ UNCHANGED <<taken, target, older>>
      BY <2>4 DEF Check
    <3>2. GoesOn(w) /\ pc'[w] = "send" /\ target'[w] = target[w] /\ taken'[w] = taken[w]
      BY <1>1, <3>1, GotoGoesOn
    <3>3. Busy(w)'
      BY <3>2 DEF Busy
    <3>4. Tracks(taken[w].uid)'
      BY <1>1, <2>1, <2>2, <3>2, <3>3, OwnGoesOn
    <3> QED
      BY <1>5, <3>2, <3>4
  <2> QED
    BY <2>3, <2>4
<1> QED
  BY <1>4, <1>5

\* No map entry and no creation under way: what the object had is gone.
LEMMA LookupMissTracks ==
    ASSUME IInv, PInv, PInv', TInv, NEW w \in Workers, LookupMiss(w)
    PROVE  TInv'
<1>0. PICK n : n = Len(owner) + 1
  OBVIOUS
<1>1. /\ UNCHANGED <<kindKnown, queue, live, latest, told, returned, resourceMap, resource,
                     incoming, pending, running, timer, stopped, closer, fsm, sweepList, disturbed>>
      /\ pc[w] = "lookup" /\ Busy(w) /\ resourceMap[taken[w].uid] = 0
      /\ taken[w] \in QueueItems /\ taken[w].uid \in UIDs
      /\ owner' = Append(owner, taken[w].uid) /\ owner \in Seq(UIDs) /\ n <= MaxStates
  <2>1. pc[w] = "lookup"
    BY DEF LookupMiss
  <2>2. n <= MaxStates
    BY <1>0, TrackerAssumption DEF LookupMiss, IInv, TypeOK, StatesOK
  <2> QED
    BY <2>1, <2>2 DEF LookupMiss, clusterVars, queueVars, dispatchVars, machineVars, Busy, IInv,
         TypeOK, WorkersOK, StatesOK, QueueItems
<1>2. /\ GoesOn(w) /\ Busy(w)' /\ pc'[w] = "add" /\ taken'[w] = taken[w] /\ target'[w] = n
  BY <1>0, <1>1 DEF LookupMiss, Goto, GoesOn, Busy, IInv, TypeOK, WorkersOK
<1>3. /\ Born' = Born \cup {n} /\ n \in Instances \ Born /\ owner'[n] = taken[w].uid
      /\ \A i \in Born : owner'[i] = owner[i]
  BY <1>0, <1>1, TrackerAssumption DEF Born, Instances
<1> SUFFICES ASSUME kindKnown, NEW u \in UIDs, NameOf[u] \notin disturbed' PROVE Tracks(u)'
  BY <1>1 DEF TInv
<1>4. Tracks(u) /\ SameNews(u)
  BY <1>1 DEF TInv, SameNews
<1>5. CASE u # taken[w].uid
  <2>1. \A i \in Born : SameState(i)
    BY <1>1, <1>3 DEF SameState
  <2> QED
    BY <1>1, <1>2, <1>3, <1>4, <1>5, <2>1, WorkerKeepsOthers
<1>6. CASE u = taken[w].uid
  <2>1. Subject(w) \notin disturbed
    BY <1>1, <1>6 DEF Subject
  <2>2. \A y \in Workers : Handles(y, u) => y = w
    BY <1>1, <1>6, <2>1, WorkerIsAlone
  <2>3. /\ \A y \in Workers \ {w} : pc'[y] = pc[y] /\ taken'[y] = taken[y] /\ target'[y] = target[y]
        /\ \A y \in Workers : Handles(y, u)' => y = w
        /\ Handles(w, u) /\ Handles(w, u)' /\ Handled(u)'
    BY <1>1, <1>2, <1>6, <2>2
    DEF GoesOn, Handles, Handled, Busy, IInv, TypeOK, WorkersOK
  <2>4. \A i \in Born : owner[i] = u => Gone(i)
    <3> SUFFICES ASSUME NEW i \in Born, owner[i] = u, ~Gone(i) PROVE FALSE
      OBVIOUS
    <3>1. Serving(i)
      BY <1>4 DEF Tracks, StateOK
    <3>2. \A y \in Workers : Handles(y, u) => pc[y] # "add"
      BY <1>1, <2>2
    <3> QED
      BY <1>1, <1>6, <3>1, <3>2, ServingIsMapped DEF Born
  <2>5. \A i \in Born : Gone(i) => Gone(i)'
    <3>1. \A i \in Born : Adding(i)' => Adding(i)
      BY <1>2, <1>3, <2>3 DEF Adding
    <3> QED
      BY <1>1, <3>1 DEF Gone
  <2>6. QueueEnd(u)' /\ (Queued(u)' <=> Queued(u))
    BY <1>1, <1>4, QueueSame DEF SameItems, Tracks, LineOK
  <2>7. WorkerEnd(u)'
    BY <1>1, <1>2, <1>4, <1>6, <2>3, <2>6 DEF Tracks, LineOK, WorkerEnd, IsLast
  <2>8. Represented(u)'
    BY <1>1, <1>2, <1>6, <2>3 DEF Represented
  <2>9. ListedOK(u)'
    BY <1>1, <1>3, <1>4 DEF Tracks, LineOK, ListedOK, IInv, TypeOK, StatesOK
  <2>10. Serving(n)'
    <3>1. /\ fsm'[n] = BeginState /\ closer'[n] = "none" /\ pending'[n] = {} /\ ~stopped'[n]
          /\ incoming'[n] = <<>> /\ DOMAIN <<>> = {}
      BY <1>1, <1>3 DEF IInv, UnbornIdle, PInv, UnbornFresh
    <3>2. Attached(n)' /\ NilFree(n)'
      BY <1>2, <3>1 DEF Attached, Adding, NilFree
    <3> QED
      BY <1>3, <1>6, <2>3, <3>1, <3>2, TransitionsAssumption DEF Serving
  <2> QED
    BY <1>1, <1>3, <1>4, <1>6, <2>4, <2>5, <2>6, <2>7, <2>8, <2>9, <2>10
    DEF Tracks, LineOK, StateOK, ToldOK
<1> QED
  BY <1>5, <1>6

\* The new ResourceState enters the map and starts dispatching.
LEMMA AddStateTracks ==
    ASSUME IInv, PInv, PInv', TInv, NEW w \in Workers, AddState(w)
    PROVE  TInv'
<1>0. PICK i : i = target[w]
  OBVIOUS
<1>1. /\ UNCHANGED <<kindKnown, queue, live, latest, told, returned, owner, resource, incoming,
                     pending, stopped, closer, fsm, sweepList, disturbed>>
      /\ resourceMap' = [resourceMap EXCEPT ![owner[i]] = i]
      /\ running' = [running EXCEPT ![i] = TRUE]
      /\ timer' = [timer EXCEPT ![i] = IF HasTimer THEN "armed" ELSE "off"]
      /\ pc[w] = "add" /\ Busy(w) /\ taken[w].uid \in UIDs
  <2>1. pc[w] = "add"
    BY DEF AddState
  <2> QED
    BY <1>0, <2>1 DEF AddState, clusterVars, queueVars, machineVars, Busy, IInv, TypeOK,
         WorkersOK, QueueItems
<1>2. /\ i \in Born /\ i \in Instances /\ owner[i] = taken[w].uid /\ i # 0
  BY <1>0, <1>1, BornAreInstances DEF PInv, TargetsOK, IInv, TypeOK, WorkersOK, Born
<1>3. /\ GoesOn(w) /\ Busy(w)' /\ pc'[w] = "check" /\ taken'[w] = taken[w]
      /\ target'[w] = i
  <2>1. Goto(w, "check") /\ UNCHANGED <<taken, target, older>>
    BY DEF AddState
  <2> QED
    BY <1>0, <1>1, <2>1, GotoGoesOn DEF Busy
<1>4. /\ \A v \in UIDs : v # taken[w].uid => resourceMap'[v] = resourceMap[v]
      /\ resourceMap'[owner[i]] = i /\ running'[i] = TRUE
      /\ \A j \in Instances : j # i => running'[j] = running[j] /\ timer'[j] = timer[j]
  BY <1>1, <1>2 DEF IInv, TypeOK, StatesOK
<1> SUFFICES ASSUME kindKnown, NEW u \in UIDs, NameOf[u] \notin disturbed' PROVE Tracks(u)'
  BY <1>1 DEF TInv
<1>5. Tracks(u) /\ SameNews(u) /\ Born \subseteq Instances
  BY <1>1, BornAreInstances DEF TInv, IInv, TypeOK, SameNews
<1>6. CASE u # taken[w].uid
  <2>1. \A j \in Born : owner[j] = u => SameState(j)
    BY <1>1, <1>2, <1>4, <1>5, <1>6 DEF SameState
  <2> QED
    BY ZenonT(60), <1>1, <1>3, <1>4, <1>5, <1>6, <2>1, WorkerKeepsOthers DEF Born
<1>7. CASE u = taken[w].uid
  <2>1. Subject(w) \notin disturbed
    BY <1>1, <1>7 DEF Subject
  <2>2. StateOK(i) /\ resourceMap[u] = 0
    BY <1>0, <1>1, <1>2, <1>7, <2>1, TargetIsItsOwn
  <2>3. \A y \in Workers : Handles(y, u) => y = w
    BY <1>1, <1>7, <2>1, WorkerIsAlone
  <2>4. /\ \A y \in Workers \ {w} : pc'[y] = pc[y] /\ taken'[y] = taken[y] /\ target'[y] = target[y]
        /\ \A y \in Workers : Handles(y, u)' => y = w
        /\ Handles(w, u) /\ Handles(w, u)' /\ Handled(u)'
    BY <1>1, <1>3, <1>7, <2>3
    DEF GoesOn, Handles, Handled, Busy, IInv, TypeOK, WorkersOK
  <2>5. Adding(i) /\ (\A j : Adding(j)' => Adding(j)) /\ \A j \in Instances : j # i /\ Gone(j) => Gone(j)'
    <3>1. Adding(i) /\ \A j : Adding(j)' => Adding(j)
      BY <1>0, <1>1, <1>3, <2>4 DEF Adding
    <3> QED
      BY <1>1, <1>4, <3>1 DEF Gone
  <2>6. Serving(i) /\ \A j \in Born : owner[j] = u /\ j # i => Gone(j)
    BY <1>2, <1>7, <2>2, <2>5 DEF StateOK, Gone
  <2>7. QueueEnd(u)' /\ (Queued(u)' <=> Queued(u))
    BY <1>1, <1>5, QueueSame DEF SameItems, Tracks, LineOK
  <2>8. WorkerEnd(u)'
    BY <1>1, <1>2, <1>3, <1>4, <1>5, <1>7, <2>4, <2>7 DEF Tracks, LineOK, WorkerEnd, IsLast
  <2>9. Represented(u)'
    <3>1. fsm'[i] # DeletedState /\ resourceMap'[u] = i
      BY <1>1, <1>2, <1>4, <1>7, <2>6 DEF Serving
    <3> QED
      BY <1>2, <3>1 DEF Represented, Gone
  <2>10. ListedOK(u)'
    <3>1. \A j \in sweepList : owner[j] # u
      <4>1. sweepList \subseteq Born /\ 0 \notin Born
        BY DEF IInv, TypeOK, StatesOK, Born
      <4> QED
        BY <1>5, <2>2, <4>1 DEF Tracks, LineOK, ListedOK
    <3> QED
      BY <1>1, <3>1 DEF ListedOK
  <2>11. Serving(i)'
    <3>1. Attached(i)'
      BY <1>1, <1>4 DEF Attached
    <3> QED
      BY <1>1, <1>2, <1>7, <2>4, <2>6, <3>1 DEF Serving, Steady, NilFree
  <2>12. \A j \in Born : owner[j] = u /\ j # i => Gone(j)'
    BY <1>5, <2>5, <2>6
  <2> QED
    BY <1>1, <1>2, <1>5, <1>7, <2>7, <2>8, <2>9, <2>10, <2>11, <2>12
    DEF Tracks, LineOK, StateOK, ToldOK, Born
<1> QED
  BY <1>6, <1>7

\* What a worker sends goes to the ResourceState of its object: nil when it is gone, and
\* its last version when nothing else of it is under way.
LEMMA SendTracks ==
    ASSUME IInv, PInv, PInv', TInv, NEW w \in Workers, Send(w)
    PROVE  TInv'
<1>0. PICK i, msg : /\ i = target[w]
                    /\ msg = IF taken[w].op = "DELETE" THEN NoObject ELSE taken[w].version
  OBVIOUS
<1>1. /\ UNCHANGED <<kindKnown, queue, live, latest, told, returned, owner, resourceMap, resource,
                     pending, running, timer, stopped, closer, fsm, sweepList, disturbed>>
      /\ incoming' = [incoming EXCEPT ![i] = Append(@, msg)]
      /\ NextOlder(w, older[w])
      /\ pc[w] = "send" /\ Busy(w) /\ taken[w] \in QueueItems /\ taken[w].uid \in UIDs
      /\ older[w] \in SUBSET Born
  <2>1. pc[w] = "send"
    BY DEF Send
  <2> QED
    BY <1>0, <2>1 DEF Send, clusterVars, queueVars, machineVars, Busy, IInv, TypeOK,
         WorkersOK, QueueItems
<1>2. /\ i \in Born /\ i \in Instances /\ NameOf[owner[i]] = Subject(w)
      /\ incoming[i] \in Seq(Versions \cup {NoObject})
  BY <1>0, <1>1, BornAreInstances DEF PInv, TargetsOK, IInv, TypeOK, WorkersOK, StatesOK, Name
<1>3. GoesOn(w)
  BY <1>1, NextOlderGoesOn
<1>4. /\ incoming'[i] = Append(incoming[i], msg)
      /\ \A j \in Instances : j # i => incoming'[j] = incoming[j]
  BY <1>1, <1>2 DEF IInv, TypeOK, StatesOK
<1> SUFFICES ASSUME kindKnown, NEW u \in UIDs, NameOf[u] \notin disturbed' PROVE Tracks(u)'
  BY <1>1 DEF TInv
<1>5. Tracks(u) /\ Born \subseteq Instances
  BY <1>1, BornAreInstances DEF TInv, IInv, TypeOK
<1>6. CASE u # taken[w].uid
  <2>1. owner[i] # u
    <3> SUFFICES ASSUME owner[i] = u PROVE FALSE
      OBVIOUS
    <3>1. Subject(w) \notin disturbed
      BY <1>1, <1>2
    <3> QED
      BY <1>0, <1>1, <1>6, <3>1, TargetIsItsOwn
  <2>2. \A j \in Born : owner[j] = u => SameState(j)
    BY <1>1, <1>4, <1>5, <2>1 DEF SameState
  <2> QED
    BY <1>1, <1>3, <1>5, <1>6, <2>2, WorkerKeepsOthers DEF Born
<1>7. CASE u = taken[w].uid
  <2>1. /\ Subject(w) \notin disturbed /\ Handles(w, u)
        /\ \A y \in Workers : Handles(y, u) => y = w
    BY <1>1, <1>7, WorkerIsAlone DEF Subject, Handles
  <2>2. owner[i] = u /\ resourceMap[u] \in {0, i}
    BY <1>0, <1>1, <1>7, <2>1, TargetIsItsOwn
  <2>3. Finish(w)
    <3>1. older[w] = {}
      BY <2>1 DEF PInv, TargetsOK
    <3> QED
      BY <1>1, <3>1 DEF NextOlder
  <2>4. IF Queued(u) THEN u \notin returned => taken[w].op # "DELETE" ELSE IsLast(taken[w], u)
    BY <1>5, <2>1 DEF Tracks, LineOK, WorkerEnd
  <2>5. taken[w].version # NoObject
    BY <1>1 DEF PInv, Versioned
  <2>6. PICK n : n = Len(incoming[i]) + 1
    OBVIOUS
  <2>7. /\ DOMAIN incoming'[i] = DOMAIN incoming[i] \cup {n} /\ Len(incoming'[i]) = n
        /\ incoming'[i] # <<>>
        /\ \A k \in DOMAIN incoming[i] : incoming'[i][k] = incoming[i][k]
        /\ incoming'[i][n] = msg
    <3>1. PICK s, t : s = incoming[i] /\ t = incoming'[i]
      OBVIOUS
    <3>2. s \in Seq(Versions \cup {NoObject}) /\ t = Append(s, msg) /\ n = Len(s) + 1
      BY <1>2, <1>4, <2>6, <3>1
    <3>3. /\ DOMAIN t = DOMAIN s \cup {n} /\ Len(t) = n
          /\ \A k \in DOMAIN s : t[k] = s[k]
          /\ t[n] = msg
      <4>1. Len(t) = Len(s) + 1 /\ DOMAIN t = 1 .. Len(t) /\ DOMAIN s = 1 .. Len(s) /\ Len(s) \in Nat
        BY <3>2
      <4> QED
        BY <3>2, <4>1
    <3>4. t # <<>>
      BY <3>3
    <3> QED
      BY <3>1, <3>3, <3>4
  <2>8. ASSUME NEW j \in Born, owner[j] = u, Serving(j) PROVE Serving(j)'
    <3>1. j = i
      <4>1. \A y \in Workers : Handles(y, u) => pc[y] # "add"
        BY <1>1, <2>1
      <4>2. resourceMap[u] = j /\ j # 0
        BY <2>8, <4>1, ServingIsMapped DEF Born
      <4> QED
        BY <2>2, <4>2
    <3>2. Attached(i)'
      <4>1. \A y \in Workers : Handles(y, u) => pc[y] # "add"
        BY <1>1, <2>1
      <4>2. resourceMap[u] = i /\ running[i]
        BY <2>2, <2>8, <3>1, <4>1, ServingIsMapped
      <4> QED
        BY <1>1, <2>2, <4>2 DEF Attached
    <3>3. Steady(u) => NilFree(i)'
      <4> SUFFICES ASSUME Steady(u) PROVE NilFree(i)'
        OBVIOUS
      <4>1. taken[w].op # "DELETE"
        BY <2>4 DEF Steady, IsLast
      <4>2. NilFree(i) /\ msg # NoObject
        BY <1>0, <2>2, <2>5, <2>8, <3>1, <4>1 DEF Serving
      <4> QED
        BY <1>1, <2>7, <4>2 DEF NilFree
    <3>4. ~Queued(u) => UpToDate(i)'
      <4> SUFFICES ASSUME ~Queued(u) PROVE UpToDate(i)'
        OBVIOUS
      <4>1. IF u \in told THEN msg = latest[u] ELSE msg = NoObject
        BY <1>0, <2>4 DEF IsLast
      <4> QED
        BY <1>1, <2>2, <2>7, <4>1 DEF UpToDate, LastTold, ToldNil
    <3> QED
      BY <1>1, <2>2, <2>8, <3>1, <3>2, <3>3, <3>4 DEF Serving, Steady, Queued
  <2> QED
    BY <1>1, <1>7, <2>1, <2>3, <2>8, OwnFinishes
<1> QED
  BY <1>6, <1>7

\* The loop over older namesakes is at work only for disturbed names.
LEMMA OlderTracks ==
    ASSUME IInv, PInv, PInv', TInv, NEW w \in Workers,
           StopOlder(w) \/ CloseOlder(w) \/ UnmapOlder(w)
    PROVE  TInv'
<1>0. PICK i : i = Max(older[w])
  OBVIOUS
<1>1. pc[w] \in {"stop", "close", "unmap"} /\ Busy(w)
  BY DEF StopOlder, CloseOlder, UnmapOlder, Busy
<1>2. /\ i \in Born /\ i \in Instances /\ NameOf[owner[i]] = Subject(w)
      /\ Subject(w) \in disturbed /\ owner[i] \in UIDs
  BY <1>0, <1>1, OlderAreDisturbed, BornAreInstances DEF Name, Born, IInv, TypeOK, StatesOK
<1>3. ASSUME GoesOn(w),
             UNCHANGED <<kindKnown, queue, live, latest, told, returned, owner, resource, incoming,
                         pending, running, timer, closer, fsm, sweepList, disturbed>>,
             \A v \in UIDs : v # owner[i] => resourceMap'[v] = resourceMap[v],
             \A j \in Instances : j # i => stopped'[j] = stopped[j]
      PROVE  TInv'
  <2> SUFFICES ASSUME kindKnown, NEW u \in UIDs, NameOf[u] \notin disturbed' PROVE Tracks(u)'
    BY <1>3 DEF TInv
  <2>1. Tracks(u) /\ u # owner[i] /\ u # taken[w].uid
    BY <1>2, <1>3 DEF TInv, Subject
  <2>2. \A j \in Born : owner[j] = u => SameState(j)
    BY <1>3, <2>1, BornAreInstances DEF SameState, IInv, TypeOK
  <2> QED
    BY <1>3, <2>1, <2>2, WorkerKeepsOthers DEF Born
<1>4. CASE StopOlder(w)
  <2>1. GoesOn(w)
    BY <1>1, <1>4, GotoGoesOn DEF StopOlder
  <2> QED
    BY <1>3, <1>4, <2>1 DEF StopOlder, clusterVars, queueVars, dispatchVars, machineVars
<1>5. CASE CloseOlder(w) /\ stopped[i]
  BY <1>0, <1>5, CrashEmpties, EmptyTracks DEF CloseOlder
<1>6. CASE CloseOlder(w) /\ ~stopped[i]
  <2>1. GoesOn(w)
    BY <1>0, <1>1, <1>6, GotoGoesOn DEF CloseOlder
  <2>2. \A j \in Instances : j # i => stopped'[j] = stopped[j]
    BY <1>0, <1>6 DEF CloseOlder, IInv, TypeOK, MachinesOK
  <2> QED
    BY <1>0, <1>3, <1>6, <2>1, <2>2
    DEF CloseOlder, clusterVars, queueVars, dispatchVars, machineVars
<1>7. CASE UnmapOlder(w) /\ resource[i] = NoObject
  BY <1>0, <1>7, CrashEmpties, EmptyTracks DEF UnmapOlder
<1>8. CASE UnmapOlder(w) /\ resource[i] # NoObject
  <2>1. GoesOn(w)
    BY <1>0, <1>1, <1>8, NextOlderGoesOn DEF UnmapOlder
  <2>2. \A v \in UIDs : v # owner[i] => resourceMap'[v] = resourceMap[v]
    BY <1>0, <1>8 DEF UnmapOlder, IInv, TypeOK, StatesOK
  <2> QED
    BY <1>0, <1>3, <1>8, <2>1, <2>2
    DEF UnmapOlder, clusterVars, queueVars, dispatchVars, machineVars
<1> QED
  BY <1>4, <1>5, <1>6, <1>7, <1>8

\* No creation fails and no item is retried when the kind is known.
LEMMA RetriesTrack ==
    ASSUME VInv, \/ \E w \in Workers : LookupFails(w)
                 \/ \E e \in delayed : RetryDue(e)
    PROVE  TInv'
<1>1. UNCHANGED kindKnown
  BY DEF LookupFails, RetryDue, clusterVars
<1>2. ~kindKnown
  BY DEF LookupFails, VInv, KindOK
<1> QED
  BY <1>1, <1>2 DEF TInv

\* All a worker does.
LEMMA WorkerTracks ==
    ASSUME IInv, PInv, PInv', VInv, TInv, NEW w \in Workers, WorkerStep(w)
    PROVE  TInv'
BY TakeTracks, ByIndexTracks, LookupHitTracks, LookupMissTracks, RetriesTrack,
   AddStateTracks, CheckTracks, SendTracks, OlderTracks DEF WorkerStep

\* A step of the machine, the dispatcher or the timer of ResourceState i: what is gone
\* stays gone, and what serves goes on serving, or goes when its object is not steady.
LEMMA MachineTracks ==
    ASSUME IInv, PInv, PInv', TInv, MachineOnly, NEW i \in Instances,
           \A j \in Instances \ {i} :
              /\ resource'[j] = resource[j] /\ incoming'[j] = incoming[j]
              /\ pending'[j] = pending[j] /\ running'[j] = running[j]
              /\ timer'[j] = timer[j] /\ stopped'[j] = stopped[j]
              /\ closer'[j] = closer[j] /\ fsm'[j] = fsm[j],
           /\ i \in Born /\ Name(i) \notin disturbed /\ ToldOK(owner[i])
              => /\ Gone(i) => Gone(i)'
                 /\ Serving(i) => Serving(i)' \/ (Gone(i)' /\ ~Steady(owner[i]))
    PROVE  TInv'
<1>1. UNCHANGED <<kindKnown, queue, live, latest, told, returned, pc, taken, target, owner,
                  resourceMap, sweepList, disturbed>>
  BY DEF MachineOnly, clusterVars, queueVars, workerVars
<1> SUFFICES ASSUME kindKnown, NEW u \in UIDs, NameOf[u] \notin disturbed' PROVE Tracks(u)'
  BY <1>1 DEF TInv
<1>2. Tracks(u) /\ SameNews(u) /\ Born \subseteq Instances
  BY <1>1, BornAreInstances DEF TInv, SameNews, IInv, TypeOK
<1>3. CASE i \in Born /\ owner[i] = u
  <2>1. /\ Gone(i) => Gone(i)'
        /\ Serving(i) => Serving(i)' \/ (Gone(i)' /\ ~Steady(u))
    BY <1>1, <1>2, <1>3 DEF Tracks, LineOK, Name
  <2>2. \A j \in Born : owner[j] = u /\ j # i => SameState(j) /\ (Gone(j)' <=> Gone(j))
    BY <1>1, <1>2 DEF SameState, Gone, Adding
  <2>3. Gone(i) \/ Serving(i)
    BY <1>2, <1>3 DEF Tracks, StateOK
  <2>4. Represented(u)'
    <3> SUFFICES ASSUME Steady(u), resourceMap[u] # 0 PROVE ~Gone(resourceMap[u])'
      BY <1>1, <1>2 DEF Tracks, LineOK, Represented, Steady, Waiting, Handles, Busy
    <3>1. PICK j \in Born : j = resourceMap[u] /\ j = resourceMap'[u] /\ owner[j] = u
      BY <1>1 DEF PInv, MapOK, IInv, TypeOK, StatesOK
    <3>2. ~Gone(j)
      BY <1>2, <3>1 DEF Tracks, LineOK, Represented
    <3>3. CASE j = i
      <4>1. Serving(i)'
        <5>1. Gone(i)' => ~Steady(u) \/ Serving(i)'
          BY <2>1, <2>3, <3>2, <3>3
        <5> QED
          BY <2>1, <2>3, <3>2, <3>3, <5>1
      <4> QED
        BY <3>1, <3>3, <4>1 DEF Serving, Gone
    <3>4. CASE j # i
      BY <2>2, <3>1, <3>2, <3>4
    <3> QED
      BY <3>3, <3>4
  <2>5. LineOK(u)'
    BY <1>1, <1>2, <2>4 DEF Tracks, LineOK, ToldOK, QueueEnd, WorkerEnd, ListedOK, Queued, IsLast,
         Handles, Busy
  <2>6. ASSUME NEW j \in Born, owner[j] = u, j # i, Serving(j) PROVE Serving(j)'
    <3>1. SameState(j) /\ (Queued(u)' <=> Queued(u)) /\ (Handled(u)' <=> Handled(u))
      BY <1>1, <2>2, <2>6 DEF Queued, Handled, Handles, Busy
    <3>2. Attached(j)' /\ (NilFree(j)' <=> NilFree(j)) /\ (UpToDate(j)' <=> UpToDate(j))
      BY <1>1, <2>6, <3>1 DEF Serving, Attached, Adding, NilFree, UpToDate, LastTold, ToldNil,
           SameState
    <3> QED
      BY <1>1, <2>6, <3>1, <3>2 DEF Serving, SameState, Steady
  <2>7. ASSUME NEW j \in Born, owner[j] = u PROVE StateOK(j)'
    <3>1. StateOK(j)
      BY <1>2, <2>7 DEF Tracks
    <3>2. \A k \in Born : owner[k] = u /\ Gone(k) => Gone(k)'
      BY <2>1, <2>2
    <3>3. Serving(j) => Serving(j)' \/ Gone(j)'
      BY <2>1, <2>6, <2>7
    <3> QED
      BY <1>1, <2>7, <3>1, <3>2, <3>3 DEF StateOK, Born
  <2> QED
    BY <1>1, <2>5, <2>7 DEF Tracks, Born
<1>4. CASE ~(i \in Born /\ owner[i] = u)
  <2>1. OthersOnly(u)
    <3>1. SameItems(u)
      BY <1>1, <1>2, QueueSame
    <3>2. \A j \in Born : owner[j] = u => j \in Instances \ {i}
      BY <1>2, <1>4
    <3> QED
      BY <1>1, <1>2, <3>1, <3>2 DEF OthersOnly, SameState, Handles, Busy, Born
  <2> QED
    BY <1>2, <2>1, OthersKeepTracks
<1> QED
  BY <1>3, <1>4

\* The event fired next is one of those pending.
LEMMA MinIsPending ==
    ASSUME IInv, NEW i \in Instances, pending[i] # {}
    PROVE  Min(pending[i]) \in pending[i]
<1>1. pending[i] \in SUBSET Nat
  BY RulesAssumption DEF IInv, TypeOK, StatesOK
<1>2. PICK m \in pending[i] : \A k \in pending[i] : ~(<<k, m>> \in OpToRel(<, Nat))
  BY <1>1, NatLessThanWellFounded, WFMin
<1>3. \A k \in pending[i] : ~(k < m)
  BY <1>1, <1>2 DEF OpToRel
<1>4. \A k \in pending[i] : m <= k
  BY <1>1, <1>3, SMT
<1>5. \E x \in pending[i] : \A y \in pending[i] : x <= y
  BY <1>4
<1> QED
  BY <1>5 DEF Min

\* A serving ResourceState with something to do is in the map and its dispatcher runs.
LEMMA BusyIsMapped ==
    ASSUME PInv, NEW i \in Born, StatesOK, Serving(i),
           pending[i] # {} \/ incoming[i] # <<>> \/ timer[i] # "off"
    PROVE  resourceMap[owner[i]] = i /\ running[i] /\ ~Adding(i)
<1>1. owner[i] \in UIDs
  BY DEF StatesOK, Born
<1>2. Adding(i) => timer[i] = "off" /\ resourceMap[owner[i]] # i
  BY <1>1 DEF PInv, AddFresh, Adding
<1> QED
  BY <1>2 DEF Serving, Attached

\* Such a one goes on serving in a step of its own that keeps these.
LEMMA GoesOnServing ==
    ASSUME MachineOnly, NEW i \in Born, Serving(i),
           resourceMap[owner[i]] = i, running'[i] = TRUE,
           ~stopped'[i], closer'[i] = "none", fsm'[i] # DeletedState,
           NilFree(i) => NilFree(i)', UpToDate(i) => UpToDate(i)'
    PROVE  Serving(i)'
<1>1. UNCHANGED <<queue, told, returned, pc, taken, owner, resourceMap>>
  BY DEF MachineOnly, clusterVars, queueVars, workerVars
<1>2. /\ Queued(owner[i])' <=> Queued(owner[i])
      /\ Handled(owner[i])' <=> Handled(owner[i])
      /\ Steady(owner[i])' <=> Steady(owner[i])
  BY <1>1 DEF Queued, Handled, Handles, Busy, Steady
<1> QED
  BY <1>1, <1>2 DEF Serving, Attached

\* What a version received gives: no deletion, unless it is nil.
LEMMA ReceiveTracks ==
    ASSUME IInv, PInv, PInv', TInv, NEW i \in Instances, Receive(i)
    PROVE  TInv'
<1>1. /\ MachineOnly /\ running[i] /\ incoming[i] # <<>> /\ pending[i] = {}
      /\ UNCHANGED <<running, stopped, closer, fsm, timer, owner, latest, told, pc, target>>
      /\ incoming' = [incoming EXCEPT ![i] = Tail(@)]
      /\ resource' = [resource EXCEPT ![i] = IF Head(incoming[i]) = NoObject
                                             THEN @ ELSE Head(incoming[i])]
  BY DEF Receive, Dispatching, MachineOnly, clusterVars, queueVars, workerVars, machineVars
<1>2. PICK s, t : s = incoming[i] /\ t = Tail(s)
  OBVIOUS
<1>3. /\ s \in Seq(Versions \cup {NoObject}) /\ s # <<>> /\ incoming'[i] = t
      /\ \A j \in Instances \ {i} : /\ resource'[j] = resource[j] /\ incoming'[j] = incoming[j]
                                    /\ pending'[j] = pending[j]
  BY <1>1, <1>2 DEF Receive, IInv, TypeOK, StatesOK
<1>4. /\ Len(s) \in Nat /\ Len(s) # 0 /\ Len(t) = Len(s) - 1 /\ Head(s) = s[1]
      /\ DOMAIN s = 1 .. Len(s) /\ DOMAIN t = 1 .. Len(t)
      /\ \A k \in DOMAIN t : t[k] = s[k + 1]
      /\ t = <<>> <=> Len(s) = 1
  <2>1. s \in Seq(Versions \cup {NoObject}) /\ s # <<>> /\ t = Tail(s)
    BY <1>2, <1>3
  <2>2. /\ Len(s) \in Nat /\ Len(s) # 0 /\ Len(t) = Len(s) - 1 /\ Head(s) = s[1]
        /\ DOMAIN s = 1 .. Len(s) /\ DOMAIN t = 1 .. Len(t)
    BY <2>1
  <2>3. \A k \in DOMAIN t : t[k] = s[k + 1]
    BY <2>1
  <2>4. t = <<>> <=> Len(t) = 0
    <3>1. t \in Seq(Versions \cup {NoObject})
      BY <2>1
    <3> QED
      BY <3>1
  <2> QED
    BY <2>2, <2>3, <2>4
<1>5. /\ resource'[i] = IF s[1] = NoObject THEN resource[i] ELSE s[1]
      /\ s[1] = NoObject => pending'[i] = {0}
      /\ s[1] # NoObject => 0 \notin pending'[i]
  <2>1. PICK evs \in ParsedEvents(resource[i], s[1]) : pending' = [pending EXCEPT ![i] = evs]
    BY <1>2, <1>4 DEF Receive
  <2>2. pending'[i] = evs
    BY <2>1 DEF IInv, TypeOK, StatesOK
  <2>3. s[1] = NoObject => evs = {0}
    BY <2>1 DEF ParsedEvents
  <2>4. ASSUME s[1] # NoObject PROVE 0 \notin evs
    <3>1. DOMAIN Rules = 1 .. Len(Rules) /\ Len(Rules) \in Nat
      BY RulesAssumption
    <3>2. 0 \notin DOMAIN Rules
      BY <3>1
    <3> QED
      BY <2>1, <2>4, <3>2 DEF ParsedEvents, MatchedRules
  <2>5. resource'[i] = IF s[1] = NoObject THEN resource[i] ELSE s[1]
    BY <1>1, <1>2, <1>4 DEF IInv, TypeOK, StatesOK
  <2> QED
    BY <2>2, <2>3, <2>4, <2>5
<1>6. 1 \in DOMAIN s /\ \A k \in DOMAIN t : k + 1 \in DOMAIN s
  BY <1>4
<1>7. Len(s) # 1 => t # <<>> /\ t[Len(t)] = s[Len(s)]
  <2>1. Len(s) # 1 => Len(t) \in DOMAIN t
    BY <1>4
  <2> QED
    BY <1>4, <2>1
<1>8. ASSUME i \in Born, ToldOK(owner[i]), Serving(i) PROVE Serving(i)'
  <2>1. NilFree(i) => NilFree(i)'
    BY <1>2, <1>3, <1>4, <1>5, <1>6 DEF NilFree
  <2>2. ASSUME owner[i] \in told, LastTold(i) = latest[owner[i]]
        PROVE  LastTold(i)' = latest[owner[i]]
    <3>1. CASE Len(s) = 1
      <4>1. s[1] = latest[owner[i]] /\ s[1] # NoObject
        BY <1>2, <1>3, <1>8, <2>2, <3>1 DEF LastTold, ToldOK
      <4> QED
        BY <1>3, <1>4, <1>5, <3>1, <4>1 DEF LastTold
    <3>2. CASE Len(s) # 1
      BY <1>2, <1>3, <1>7, <2>2, <3>2 DEF LastTold
    <3> QED
      BY <3>1, <3>2
  <2>3. ASSUME ToldNil(i) PROVE ToldNil(i)'
    <3>1. s[Len(s)] = NoObject
      BY <1>1, <1>2, <2>3 DEF ToldNil
    <3>2. CASE Len(s) = 1
      BY <1>3, <1>4, <1>5, <3>1, <3>2 DEF ToldNil
    <3>3. CASE Len(s) # 1
      BY <1>3, <1>7, <3>1, <3>3 DEF ToldNil
    <3> QED
      BY <3>2, <3>3
  <2>4. UpToDate(i) => UpToDate(i)'
    BY <1>1, <2>2, <2>3 DEF UpToDate
  <2>5. resourceMap[owner[i]] = i /\ running[i]
    BY <1>1, <1>8, BusyIsMapped DEF IInv, TypeOK
  <2> QED
    BY <1>1, <1>8, <2>1, <2>4, <2>5, GoesOnServing DEF Serving
<1>9. Gone(i) => Gone(i)'
  BY <1>1 DEF Gone, Adding
<1> QED
  BY <1>1, <1>3, <1>8, <1>9, MachineTracks

\* A machine in DeletedState takes no event.
LEMMA FireAtTheEnd ==
    ASSUME NamesAreReserved, NEW i \in Instances, NEW ev, NEW who, Fire(i, ev, who),
           fsm[i] = DeletedState
    PROVE  UNCHANGED <<fsm, closer>>
<1>1. Moves(ev, fsm[i]) = {}
  BY ReservedIsNoSource, DeletedIsFinal
<1> QED
  BY <1>1 DEF Fire, machineVars

\* An event that is not DeletedEvent leaves a machine outside DeletedState.
LEMMA FireKeepsServing ==
    ASSUME NamesAreReserved, IInv, NEW i \in Instances, NEW ev,
           NEW who \in {"dispatcher", "timer"}, Fire(i, ev, who),
           ev # DeletedEvent, fsm[i] # DeletedState
    PROVE  /\ fsm'[i] # DeletedState /\ closer'[i] = "none"
           /\ fsm'[i] = fsm[i] \/ fsm'[i] \in Moves(ev, fsm[i])
<1>1. DeletedState \notin Moves(ev, fsm[i])
  BY OnlyDeletedEventDeletes
<1> QED
  BY <1>1, FireOnce

\* The events of a version, and at last DeletedEvent.
LEMMA FireNextTracks ==
    ASSUME NamesAreReserved, IInv, PInv, PInv', TInv, NEW i \in Instances, FireNext(i)
    PROVE  TInv'
<1>0. PICK m : m = Min(pending[i])
  OBVIOUS
<1>1. /\ MachineOnly /\ m \in pending[i]
      /\ UNCHANGED <<running, stopped, timer, owner, latest, told, resource, incoming, pc, target>>
      /\ pending' = [pending EXCEPT ![i] = @ \ {m}]
      /\ Fire(i, EventName(m), "dispatcher") /\ closer[i] = "none"
  BY <1>0, MinIsPending
  DEF FireNext, Fire, MachineOnly, clusterVars, queueVars, workerVars, machineVars
<1>2. /\ \A j \in Instances \ {i} : fsm'[j] = fsm[j] /\ closer'[j] = closer[j]
      /\ \A j \in Instances \ {i} : pending'[j] = pending[j]
      /\ pending'[i] = pending[i] \ {m}
  BY <1>1, FireOnce DEF IInv, TypeOK, StatesOK
<1>3. Gone(i) => Gone(i)'
  BY <1>1, FireAtTheEnd DEF Gone, Adding
<1>4. ASSUME i \in Born, Serving(i) PROVE Serving(i)' \/ (Gone(i)' /\ ~Steady(owner[i]))
  <2>1. resourceMap[owner[i]] = i /\ running[i] /\ ~Adding(i)
    BY <1>1, <1>4, BusyIsMapped DEF IInv, TypeOK
  <2>2. NilFree(i) => NilFree(i)'
    BY <1>1, <1>2 DEF NilFree
  <2>3. LastTold(i)' = LastTold(i)
    BY <1>1 DEF LastTold
  <2>4. CASE m # 0
    <3>1. m \in DOMAIN Rules
      BY <1>1, <2>4 DEF IInv, TypeOK, StatesOK
    <3>2. EventName(m) # DeletedEvent
      BY <2>4, <3>1 DEF EventName, NamesAreReserved
    <3>3. fsm'[i] # DeletedState /\ closer'[i] = "none"
      BY <1>1, <1>4, <3>2, FireKeepsServing DEF Serving
    <3>4. ToldNil(i) => ToldNil(i)'
      BY <1>1, <2>4 DEF ToldNil
    <3>5. UpToDate(i) => UpToDate(i)'
      BY <1>1, <2>3, <3>4 DEF UpToDate
    <3> QED
      BY <1>1, <1>4, <2>1, <2>2, <3>3, <3>5, GoesOnServing DEF Serving
  <2>5. CASE m = 0
    <3>1. ~Steady(owner[i])
      BY <1>1, <1>4, <2>5 DEF Serving, NilFree
    <3>2. fsm[i] \in States /\ fsm[i] # DeletedState /\ ~stopped[i] /\ EventName(m) = DeletedEvent
      BY <1>4, <2>5 DEF EventName, Serving, IInv, TypeOK, MachinesOK
    <3>3. CASE Moves(DeletedEvent, fsm[i]) = {DeletedState}
      <4>1. EnterState(i, DeletedState, "dispatcher")
        BY <1>1, <3>2, <3>3 DEF Fire
      <4>2. fsm'[i] = DeletedState /\ closer'[i] = "dispatcher"
        BY <3>2, <4>1 DEF EnterState, IInv, TypeOK, MachinesOK
      <4> QED
        BY <1>1, <2>1, <3>1, <4>2 DEF Gone, Adding
    <3>4. CASE Moves(DeletedEvent, fsm[i]) = {} /\ fsm[i] = BeginState
      <4>1. UNCHANGED <<fsm, closer>>
        BY <1>1, <3>2, <3>4 DEF Fire, machineVars
      <4>2. ToldNil(i) => ToldNil(i)'
        BY <1>1, <1>2, <2>5, <3>4, <4>1 DEF ToldNil
      <4>3. UpToDate(i) => UpToDate(i)'
        BY <1>1, <2>3, <4>2 DEF UpToDate
      <4> QED
        BY <1>1, <1>4, <2>1, <2>2, <4>1, <4>3, GoesOnServing DEF Serving
    <3> QED
      BY <3>2, <3>3, <3>4, DeletedEventDeletes
  <2> QED
    BY <2>4, <2>5
<1> QED
  BY <1>1, <1>2, <1>3, <1>4, MachineTracks

\* The timer moves no machine into DeletedState, and none out of it.
LEMMA TimerTracks ==
    ASSUME NamesAreReserved, IInv, PInv, PInv', TInv, NEW i \in Instances,
           TimerFires(i) \/ TimerStops(i)
    PROVE  TInv'
<1>1. /\ MachineOnly /\ timer[i] = "armed" /\ timer' = [timer EXCEPT ![i] = "done"]
      /\ UNCHANGED <<running, stopped, owner, latest, told, resource, incoming, pending, pc, target>>
  BY DEF TimerFires, TimerStops, TimerDone, MachineOnly, clusterVars, queueVars, workerVars,
     dispatchVars
<1>2. /\ timer'[i] = "done" /\ \A j \in Instances \ {i} : timer'[j] = timer[j]
      /\ \A j \in Instances \ {i} : fsm'[j] = fsm[j] /\ closer'[j] = closer[j]
  BY <1>1, FireOnce DEF TimerFires, TimerStops, machineVars, IInv, TypeOK, StatesOK
<1>3. /\ fsm[i] # DeletedState /\ closer[i] = "none"
            => /\ fsm'[i] # DeletedState /\ closer'[i] = "none"
               /\ fsm'[i] = fsm[i] \/ fsm'[i] \in Moves(TimerEvent, fsm[i])
      /\ fsm[i] = DeletedState => UNCHANGED <<fsm, closer>>
  <2>1. CASE TimerStops(i)
    BY <2>1 DEF TimerStops, machineVars
  <2>2. CASE TimerFires(i)
    <3>1. TimerEvent # DeletedEvent /\ Fire(i, TimerEvent, "timer")
      BY <2>2 DEF TimerFires, NamesAreReserved
    <3> QED
      BY <3>1, FireKeepsServing, FireAtTheEnd
  <2> QED
    BY <2>1, <2>2
<1>4. Gone(i) => Gone(i)'
  BY <1>1, <1>3 DEF Gone, Adding
<1>5. ASSUME i \in Born, Serving(i) PROVE Serving(i)'
  <2>1. resourceMap[owner[i]] = i /\ running[i]
    BY <1>1, <1>5, BusyIsMapped DEF IInv, TypeOK
  <2>2. fsm'[i] # DeletedState /\ closer'[i] = "none"
    BY <1>3, <1>5 DEF Serving
  <2>3. ToldNil(i) => ToldNil(i)'
    BY <1>1, <1>2, <1>3, <1>5 DEF ToldNil, Serving
  <2>4. (NilFree(i)' <=> NilFree(i)) /\ LastTold(i)' = LastTold(i)
    BY <1>1 DEF NilFree, LastTold
  <2>5. UpToDate(i) => UpToDate(i)'
    BY <1>1, <2>3, <2>4 DEF UpToDate
  <2> QED
    BY <1>1, <1>5, <2>1, <2>2, <2>4, <2>5, GoesOnServing DEF Serving
<1> QED
  BY <1>1, <1>2, <1>4, <1>5, MachineTracks

\* Only a stopped ResourceState ends its dispatcher.
LEMMA ExitTracks ==
    ASSUME IInv, PInv, PInv', TInv, NEW i \in Instances, ExitDispatcher(i)
    PROVE  TInv'
<1>1. /\ MachineOnly /\ stopped[i] /\ running' = [running EXCEPT ![i] = FALSE]
      /\ UNCHANGED <<stopped, owner, latest, resource, incoming, pending, timer, fsm, closer, pc,
                     target>>
  BY DEF ExitDispatcher, MachineOnly, clusterVars, queueVars, workerVars, machineVars
<1>2. \A j \in Instances \ {i} : running'[j] = running[j]
  BY <1>1 DEF IInv, TypeOK, StatesOK
<1>3. Gone(i) => Gone(i)'
  BY <1>1 DEF Gone, Adding
<1>4. ~Serving(i)
  BY <1>1 DEF Serving
<1> QED
  BY <1>1, <1>2, <1>3, <1>4, MachineTracks

\* A machine that stops itself is gone.
LEMMA CloseSelfTracks ==
    ASSUME IInv, PInv, PInv', TInv, NEW i \in Instances, NEW who \in {"dispatcher", "timer"},
           CloseSelf(i, who)
    PROVE  TInv'
<1>1. CASE stopped[i]
  BY <1>1, CrashEmpties, EmptyTracks DEF CloseSelf
<1>2. CASE ~stopped[i]
  <2>1. /\ MachineOnly /\ closer[i] = who
        /\ stopped' = [stopped EXCEPT ![i] = TRUE] /\ closer' = [closer EXCEPT ![i] = "none"]
        /\ UNCHANGED <<running, owner, latest, resource, incoming, pending, timer, fsm, pc, target>>
    BY <1>2 DEF CloseSelf, MachineOnly, clusterVars, queueVars, workerVars, dispatchVars
  <2>2. /\ \A j \in Instances \ {i} : stopped'[j] = stopped[j] /\ closer'[j] = closer[j]
        /\ stopped'[i] = TRUE /\ closer'[i] = "none"
    BY <2>1 DEF IInv, TypeOK, MachinesOK
  <2>3. Gone(i) => Gone(i)'
    BY <2>1, <2>2 DEF Gone, Adding
  <2>4. ~Serving(i)
    BY <2>1 DEF Serving
  <2> QED
    BY <2>1, <2>2, <2>3, <2>4, MachineTracks
<1> QED
  BY <1>1, <1>2


\* The sweeper takes out of the map what is gone, and nothing that an item or a worker
\* of the object counts on.
LEMMA SweepTracks ==
    ASSUME IInv, PInv, PInv', TInv, Sweep
    PROVE  TInv'
<1>1. ASSUME UNCHANGED <<kindKnown, queue, live, latest, told, returned, pc, taken, target, owner,
                         resource, incoming, pending, running, timer, stopped, closer, fsm,
                         disturbed>>,
             sweepList' \subseteq sweepList \cup Mapped,
             NEW u \in UIDs, Tracks(u), resourceMap'[u] = resourceMap[u]
      PROVE  Tracks(u)'
  <2>1. SameItems(u)
    BY <1>1, QueueSame DEF SameNews
  <2>2. OthersOnly(u)
    BY <1>1, <2>1 DEF OthersOnly, SameNews, SameState, Handles, Busy, Born
  <2> QED
    BY <1>1, <2>2, OthersKeepTracks
<1>2. CASE SweepTick
  <2>1. /\ UNCHANGED <<kindKnown, queue, live, latest, told, returned, pc, taken, target, owner,
                       resource, incoming, pending, running, timer, stopped, closer, fsm,
                       disturbed, resourceMap>>
        /\ sweepList' \subseteq sweepList \cup Mapped
    BY <1>2 DEF SweepTick, clusterVars, queueVars, workerVars, dispatchVars, machineVars
  <2> QED
    BY <1>1, <2>1 DEF TInv
<1>3. ASSUME NEW i \in Instances, SweepVisit(i) PROVE TInv'
  <2>1. i \in Born /\ i \in sweepList /\ owner[i] \in UIDs /\ i # 0
    BY <1>3 DEF SweepVisit, IInv, TypeOK, StatesOK, Instances, Born
  <2>2. CASE stopped[i] /\ resource[i] = NoObject
    BY <1>3, <2>2, CrashEmpties, EmptyTracks DEF SweepVisit
  <2>3. CASE ~(stopped[i] /\ resource[i] = NoObject)
    <3>1. /\ UNCHANGED <<kindKnown, queue, live, latest, told, returned, pc, taken, target, owner,
                         resource, incoming, pending, running, timer, stopped, closer, fsm,
                         disturbed>>
          /\ sweepList' = sweepList \ {i}
          /\ resourceMap' = IF stopped[i] THEN [resourceMap EXCEPT ![owner[i]] = 0]
                                          ELSE resourceMap
      BY <1>3, <2>3 DEF SweepVisit, clusterVars, queueVars, workerVars, dispatchVars, machineVars
    <3> SUFFICES ASSUME kindKnown, NEW u \in UIDs, NameOf[u] \notin disturbed' PROVE Tracks(u)'
      BY <3>1 DEF TInv
    <3>2. Tracks(u)
      BY <3>1 DEF TInv
    <3>3. CASE ~stopped[i] \/ owner[i] # u
      <4>1. resourceMap'[u] = resourceMap[u]
        BY <2>1, <3>1, <3>3 DEF IInv, TypeOK, StatesOK
      <4> QED
        BY <1>1, <3>1, <3>2, <4>1
    <3>4. CASE stopped[i] /\ owner[i] = u
      <4>1. resourceMap[u] = i /\ resourceMap'[u] = 0
        BY <2>1, <3>1, <3>2, <3>4 DEF Tracks, LineOK, ListedOK, IInv, TypeOK, StatesOK
      <4>2. Gone(i) /\ ~Serving(i)
        BY <2>1, <3>2, <3>4 DEF Tracks, StateOK, Serving
      <4>3. ~Steady(u)
        BY <2>1, <3>2, <4>1, <4>2 DEF Tracks, LineOK, Represented
      <4>4. ASSUME NEW j \in Born, owner[j] = u PROVE StateOK(j)'
        <5>1. ~Serving(j)
          <6>1. ~Adding(j)
            BY <2>1, <3>2, <4>1, <4>4, AddingHandles DEF Tracks, LineOK, WorkerEnd
          <6> QED
            BY <4>1, <4>2, <4>4, <6>1 DEF Serving, Attached
        <5>2. Gone(j)
          BY <3>2, <4>4, <5>1 DEF Tracks, StateOK
        <5>3. Gone(j)'
          BY <3>1, <5>2 DEF Gone, Adding
        <5> QED
          BY <5>3 DEF StateOK
      <4>5. LineOK(u)'
        <5>1. ListedOK(u)'
          BY <3>1, <3>2, <4>1 DEF Tracks, LineOK, ListedOK
        <5>2. ToldOK(u)' /\ QueueEnd(u)' /\ Represented(u)'
          BY <3>1, <3>2, <4>3 DEF Tracks, LineOK, ToldOK, QueueEnd, IsLast, Represented, Steady
        <5>3. WorkerEnd(u)'
          BY <3>1, <3>2, <4>1 DEF Tracks, LineOK, WorkerEnd, IsLast, Queued, Handles, Busy
        <5> QED
          BY <5>1, <5>2, <5>3 DEF LineOK
      <4> QED
        BY <3>1, <4>4, <4>5 DEF Tracks, Born
    <3> QED
      BY <3>3, <3>4
  <2> QED
    BY <2>2, <2>3
<1> QED
  BY <1>2, <1>3 DEF Sweep

\* Nothing changes but that the process stops asking, starts again, or stutters.
LEMMA IdleTracks ==
    ASSUME IInv, PInv, PInv', TInv, Stop \/ Restart \/ UNCHANGED vars
    PROVE  TInv'
<1>1. CASE Stop \/ UNCHANGED vars
  <2>1. UNCHANGED <<kindKnown, queue, live, latest, told, returned, pc, taken, target, owner,
                    resourceMap, resource, incoming, pending, running, timer, stopped, closer, fsm,
                    sweepList, disturbed>>
    BY <1>1 DEF Stop, vars, clusterVars, queueVars, workerVars, dispatchVars, machineVars
  <2> SUFFICES ASSUME kindKnown, NEW u \in UIDs, NameOf[u] \notin disturbed' PROVE Tracks(u)'
    BY <2>1 DEF TInv
  <2>2. Tracks(u)
    BY <2>1 DEF TInv
  <2>3. SameItems(u)
    BY <2>1, QueueSame DEF SameNews
  <2>4. OthersOnly(u)
    BY <2>1, <2>3 DEF OthersOnly, SameNews, SameState, Handles, Busy, Born
  <2> QED
    BY <2>2, <2>4, OthersKeepTracks
<1>2. CASE Restart
  <2>1. Empty'
    BY <1>2 DEF Restart, PInv, DownIsEmpty, Empty, clusterVars, queueVars, workerVars,
                dispatchVars, Busy
  <2> QED
    BY <2>1, EmptyTracks
<1> QED
  BY <1>1, <1>2

\* At first nothing is tracked.
LEMMA InitTracks == Init => TInv
<1> SUFFICES ASSUME Init PROVE TInv
  OBVIOUS
<1>1. /\ DOMAIN queue = {} /\ Born = {} /\ sweepList = {} /\ live = {} /\ told = {}
      /\ \A w \in Workers : ~Busy(w)
  BY DEF Init, Born, Busy
<1> QED
  BY <1>1 DEF TInv, Tracks, LineOK, QueueEnd, WorkerEnd, Represented, Handles, Steady, ToldOK,
     ListedOK

\* Every step keeps every undisturbed object tracked.
LEMMA NextTracks == ASSUME NamesAreReserved, IInv, PInv, VInv, TInv, [Next]_vars PROVE TInv'
<1>1. IInv' /\ PInv'
  BY NextOK, NextPanics
<1>2. ASSUME NEW i \in Instances, DispatcherStep(i) \/ TimerStep(i) PROVE TInv'
  BY <1>1, <1>2, ReceiveTracks, FireNextTracks, CloseSelfTracks, TimerTracks, ExitTracks
  DEF DispatcherStep, TimerStep
<1> QED
  BY <1>1, <1>2, InformerTracks, RetriesTrack, SweepTracks, IdleTracks, WorkerTracks DEF Next

\* What is tracked agrees with what the handlers were told once nothing is under way.
LEMMA TracksAgree == ASSUME IInv, PInv, TInv PROVE UndisturbedTracking
<1> SUFFICES ASSUME NEW u \in UIDs, NameOf[u] \notin disturbed, kindKnown, Settled(NameOf[u])
             PROVE  IF u \in told THEN TrackedExactly(u) \/ Lost(u)
                    ELSE \A i \in Born : owner[i] = u => Released(i)
  BY DEF UndisturbedTracking
<1>1. Tracks(u)
  BY DEF TInv
<1>2. /\ ~Queued(u) /\ ~Waiting(u) /\ ~Handled(u)
      /\ \A w \in Workers : ~Handles(w, u)
      /\ \A i \in Born : owner[i] = u /\ running[i] =>
            incoming[i] = <<>> /\ pending[i] = {} /\ closer[i] = "none"
  BY DEF Settled, Queued, Waiting, Handled, Handles, Busy, Subject, Name
<1>3. ASSUME NEW i \in Born, owner[i] = u, Gone(i) PROVE Ended(i)
  BY <1>2, <1>3 DEF Gone, Ended
<1>4. ASSUME NEW i \in Born, owner[i] = u, Serving(i)
      PROVE  /\ resourceMap[u] = i /\ running[i] /\ UpToDate(i)
             /\ \A j \in Born : owner[j] = u /\ j # i => Ended(j)
  <2>1. ~Adding(i)
    BY <1>2, <1>4, AddingHandles
  <2>2. ~Gone(i)
    BY <1>4 DEF Serving, Gone
  <2> QED
    BY <1>1, <1>2, <1>3, <1>4, <2>1, <2>2 DEF Serving, Attached, Tracks, StateOK
<1>5. ASSUME u \in told, NEW i \in Born, owner[i] = u, Serving(i) PROVE TrackedExactly(u)
  <2>1. LastTold(i) = latest[u] /\ incoming[i] = <<>>
    BY <1>2, <1>4, <1>5 DEF UpToDate
  <2>2. resource[i] = latest[u]
    BY <2>1 DEF LastTold
  <2> QED
    BY <1>4, <1>5, <2>2 DEF TrackedExactly, Serving
<1>6. CASE u \in told /\ \E i \in Born : owner[i] = u /\ Serving(i)
  BY <1>5, <1>6
<1>7. CASE u \in told /\ \A i \in Born : owner[i] = u => ~Serving(i)
  <2>1. \A i \in Born : owner[i] = u => Gone(i) /\ Ended(i)
    BY <1>1, <1>3, <1>7 DEF Tracks, StateOK
  <2>2. ~Steady(u)
    <3> SUFFICES ASSUME Steady(u) PROVE FALSE
      OBVIOUS
    <3>1. resourceMap[u] # 0 /\ ~Gone(resourceMap[u])
      BY <1>1, <1>2 DEF Tracks, LineOK, Represented
    <3>2. resourceMap[u] \in Born /\ owner[resourceMap[u]] = u
      BY <3>1 DEF PInv, MapOK, IInv, TypeOK, StatesOK
    <3> QED
      BY <2>1, <3>1, <3>2
  <2> QED
    BY <1>7, <2>1, <2>2 DEF Steady, Lost
<1>8. ASSUME u \notin told, NEW i \in Born, owner[i] = u PROVE Released(i)
  <2>1. CASE Gone(i)
    BY <1>3, <1>8, <2>1 DEF Released
  <2>2. CASE Serving(i)
    <3>1. ToldNil(i) /\ running[i]
      BY <1>4, <1>8, <2>2 DEF UpToDate
    <3>2. incoming[i] = <<>> /\ pending[i] = {}
      BY <1>2, <1>8, <3>1
    <3> QED
      BY <3>1, <3>2 DEF ToldNil, Released
  <2> QED
    BY <1>1, <1>8, <2>1, <2>2 DEF Tracks, StateOK
<1> QED
  BY <1>6, <1>7, <1>8

\* As long as no two workers had events of a name at once and no DELETE found another
\* object's ResourceState, the tracker, once it has caught up, agrees with what the
\* informer's handlers were told of every object of the name.  One that is there has
\* the ResourceState in the map, with its last version, unless it came back before the
\* tracker was done with its earlier life: then it may have none that goes on.  The
\* machines of one that is gone are in DeletedState and stopped, or have only their
\* timer's move behind them.
THEOREM TrackedWhenUndisturbed ==
    ASSUME NamesAreReserved
    PROVE  Spec => []UndisturbedTracking
<1>1. IInv /\ PInv /\ VInv /\ TInv /\ [Next]_vars => TInv'
  BY NextTracks
<1>2. IInv /\ PInv /\ TInv => UndisturbedTracking
  BY TracksAgree
<1> QED
  BY <1>1, <1>2, InitTracks, AlwaysIInv, AlwaysPInv, AlwaysVInv, PTL DEF Spec
=============================================================================
