--------------------------- MODULE WatchSLOProofs ---------------------------
(***************************************************************************)
(* Proofs about WatchSLO and WatchDelay.                                   *)
(*                                                                         *)
(* The delay of a timestamp is observed once: a timestamp is new when it   *)
(* is put into the set of a tracker, and is taken out when it is seen;     *)
(* IInv adds to DelayOnce that nothing is ahead of the clock               *)
(* (BehindClock).                                                          *)
(*                                                                         *)
(* What is true at rest needs the turn of Reconcile: which configs of its  *)
(* version have a counter and a tracker already (TurnOK), that all of the  *)
(* last version do when nothing is due (Settled), and that once the object *)
(* is gone all that is left to do is to clean the same keys again          *)
(* (GoneOK). SInv adds that counters and trackers match the maps they are  *)
(* found through.                                                          *)
(***************************************************************************)
EXTENDS WatchSLO, SequenceTheorems, TLAPS

\* Nothing is ahead of the clock.
BehindClock ==
    /\ clock \in 0 .. MaxPatches /\ versions \in Seq(0 .. clock)
    /\ unconfirmed \in [Trackers -> SUBSET (1 .. clock)]
    /\ observed \in [Timestamps -> Nat]
    /\ position \in [Trackers -> 0 .. Len(versions)]

\* The inductive invariant of the delays.
IInv == BehindClock /\ DelayOnce
-----------------------------------------------------------------------------
\* What WatchSLO does to the trackers is one of these.
LEMMA StepsOfTrackers ==
    ASSUME [Next]_vars
    PROVE  \/ Loops \/ (\E t \in Trackers : StartTracker(t))
           \/ (\E S : StopTrackers(S)) \/ TrackersGone \/ UNCHANGED delayVars
<1>1. CASE UNCHANGED vars
  BY <1>1 DEF vars
<1>2. CASE Users
  BY <1>2 DEF Users, Create, Edit, Delete, ForceFinalizer, UserWrite
<1>3. CASE Reconcile
  <2>1. CASE MakeTracker
    BY <2>1 DEF MakeTracker, Fresh
  <2>2. CASE Clean
    BY <2>2 DEF Clean
  <2>3. CASE ~MakeTracker /\ ~Clean
    BY <1>3, <2>3
    DEF Reconcile, Get, AddFinalizer, RemoveFinalizer, MakeCounter, Synced, Skip, Local
  <2> QED BY <2>1, <2>2, <2>3
<1> QED BY <1>1, <1>2, <1>3 DEF Next, Deliver, RetryDue, Counters, DelayLoops, Crash

\* It holds at first.
LEMMA InitInv == Init => IInv
<1> SUFFICES ASSUME Init PROVE IInv
  OBVIOUS
<1>1. MaxPatches \in Nat /\ DelayInit
  BY WatchAssumption DEF Init, WatchAssumption
<1>2. Len(versions) = 0 /\ versions \in Seq(0 .. clock)
  BY <1>1 DEF DelayInit
<1> QED BY <1>1, <1>2 DEF IInv, BehindClock, DelayOnce, DelayInit

\* A version more is one of those the position may come to.
LEMMA OneMore ==
    ASSUME BehindClock, NEW s \in 0 .. clock, versions' = Append(versions, s)
    PROVE  /\ versions' \in Seq(0 .. clock) /\ Len(versions) <= Len(versions')
           /\ \A m \in DOMAIN versions : m \in DOMAIN versions' /\ versions'[m] = versions[m]
<1>1. versions \in Seq(0 .. clock)
  BY DEF BehindClock
<1>2. /\ versions' \in Seq(0 .. clock) /\ Len(versions') = Len(versions) + 1
      /\ \A m \in 1 .. Len(versions) : versions'[m] = versions[m]
  BY <1>1, AppendProperties
<1>3. Len(versions) \in Nat /\ DOMAIN versions = 1 .. Len(versions)
      /\ DOMAIN versions' = 1 .. Len(versions')
  BY <1>1, <1>2, LenProperties
<1> QED BY <1>2, <1>3

\* Versions are only added.
LEMMA MoreVersions ==
    ASSUME IInv, UNCHANGED <<clock, unconfirmed, position, observed>>,
           versions' \in Seq(0 .. clock), Len(versions) <= Len(versions'),
           \A m \in DOMAIN versions : m \in DOMAIN versions' /\ versions'[m] = versions[m]
    PROVE  IInv'
<1>1. Len(versions) \in Nat /\ Len(versions') \in Nat
  BY LenProperties DEF IInv, BehindClock
<1>2. \A t \in Trackers : position[t] \in 0 .. Len(versions')
  BY <1>1 DEF IInv, BehindClock
<1>3. BehindClock'
  BY <1>2 DEF IInv, BehindClock
<1>4. DelayOnce'
  BY DEF IInv, DelayOnce
<1> QED BY <1>3, <1>4 DEF IInv

\* The ticker makes a new timestamp.
LEMMA TickKeeps == ASSUME IInv, NEW t \in Trackers, Tick(t) PROVE IInv'
<1>1. /\ UNCHANGED <<versions, position, observed>> /\ clock' = clock + 1
      /\ unconfirmed' = [unconfirmed EXCEPT ![t] = unconfirmed[t] \cup {clock'}]
      /\ clock < MaxPatches /\ clock \in Nat /\ MaxPatches \in Nat
  BY WatchAssumption DEF Tick, IInv, BehindClock, WatchAssumption
<1>2. versions \in Seq(0 .. clock) /\ 0 .. clock \subseteq 0 .. clock'
  BY <1>1 DEF IInv, BehindClock
<1>3. versions \in Seq(0 .. clock')
  <2>1. \A m \in 1 .. Len(versions) : versions[m] \in 0 .. clock'
    BY <1>2, ElementOfSeq
  <2>2. versions \in [1 .. Len(versions) -> 0 .. clock'] /\ Len(versions) \in Nat
    BY <1>2, <2>1, LenProperties
  <2> QED BY <2>2, SeqDef
<1>4. unconfirmed' \in [Trackers -> SUBSET (1 .. clock')]
  BY <1>1 DEF IInv, BehindClock
<1>5. \A u \in Trackers : clock' \notin unconfirmed[u]
  BY <1>1 DEF IInv, BehindClock
<1>6. observed[clock'] # 1
  <2>1. \A m \in DOMAIN versions : versions[m] # clock'
    BY <1>1, <1>2, ElementOfSeq, LenProperties
  <2>2. clock' \in Timestamps
    BY <1>1 DEF Timestamps
  <2> QED BY <2>1, <2>2 DEF IInv, DelayOnce
<1>7. DelayOnce'
  <2>1. \A u \in Trackers : unconfirmed'[u] = IF u = t THEN unconfirmed[u] \cup {clock'}
                                              ELSE unconfirmed[u]
    BY <1>1 DEF IInv, BehindClock
  <2>2. \A s \in Timestamps : observed[s] = 1 => s # clock'
    BY <1>6
  <2> QED BY <1>1, <1>5, <2>1, <2>2 DEF IInv, DelayOnce
<1> QED BY <1>1, <1>3, <1>4, <1>7 DEF IInv, BehindClock

\* The patch of a timestamp is written.
LEMMA PatchKeeps == ASSUME IInv, NEW t \in Trackers, Patch(t) PROVE IInv'
<1>1. UNCHANGED <<clock, unconfirmed, position, observed>>
  BY DEF Patch
<1>2. CASE UNCHANGED versions
  BY <1>1, <1>2 DEF IInv, BehindClock, DelayOnce
<1>3. CASE \E s \in unconfirmed[t] : versions' = Append(versions, s)
  <2>1. PICK s \in unconfirmed[t] : versions' = Append(versions, s)
    BY <1>3
  <2>2. s \in 0 .. clock /\ BehindClock
    BY DEF IInv, BehindClock
  <2> QED BY <1>1, <2>1, <2>2, OneMore, MoreVersions
<1> QED BY <1>2, <1>3 DEF Patch

\* The watch sees a version.
LEMMA EventKeeps == ASSUME IInv, NEW t \in Trackers, Event(t) PROVE IInv'
<1> DEFINE s == versions[position[t] + 1]
<1>1. /\ UNCHANGED <<versions, clock>>
      /\ position[t] < Len(versions) /\ position' = [position EXCEPT ![t] = position[t] + 1]
      /\ position \in [Trackers -> 0 .. Len(versions)]
      /\ versions \in Seq(0 .. clock) /\ Len(versions) \in Nat
  BY LenProperties DEF Event, IInv, BehindClock
<1>2. position'[t] = position[t] + 1 /\ position' \in [Trackers -> 0 .. Len(versions)]
  BY <1>1
<1>3. /\ unconfirmed' = [unconfirmed EXCEPT ![t] = unconfirmed[t] \ {s}]
      /\ IF s \in unconfirmed[t] THEN observed' = [observed EXCEPT ![s] = observed[s] + 1]
         ELSE UNCHANGED observed
  BY <1>2 DEF Event
<1>4. s \in 0 .. clock /\ \E m \in DOMAIN versions : versions[m] = s
  <2>1. position[t] + 1 \in 1 .. Len(versions)
    BY <1>1
  <2>2. DOMAIN versions = 1 .. Len(versions)
    BY <1>1, LenProperties
  <2> QED BY <1>1, <2>1, <2>2, ElementOfSeq
<1>5. /\ unconfirmed \in [Trackers -> SUBSET (1 .. clock)] /\ observed \in [Timestamps -> Nat]
      /\ clock \in 0 .. MaxPatches /\ MaxPatches \in Nat
  BY WatchAssumption DEF IInv, BehindClock, WatchAssumption
<1> HIDE DEF s
<1>6. unconfirmed' \in [Trackers -> SUBSET (1 .. clock)] /\ observed' \in [Timestamps -> Nat]
  BY <1>3, <1>5
<1>7. \A u \in Trackers : unconfirmed'[u] = IF u = t THEN unconfirmed[u] \ {s} ELSE unconfirmed[u]
  BY <1>3, <1>5
<1>8. DelayOnce'
  <2>1. CASE s \in unconfirmed[t]
    <3>1. s \in Timestamps /\ observed[s] = 0
      BY <1>5, <2>1 DEF IInv, DelayOnce, Timestamps
    <3>2. \A r \in Timestamps : observed'[r] = IF r = s THEN 1 ELSE observed[r]
      BY <1>3, <1>5, <2>1, <3>1
    <3>3. \A u \in Trackers : s \notin unconfirmed'[u]
      BY <1>7, <2>1 DEF IInv, DelayOnce
    <3>4. \A r \in Timestamps : observed'[r] <= 1
      BY <3>2 DEF IInv, DelayOnce
    <3>5. ASSUME NEW r \in Timestamps, observed'[r] = 1
          PROVE  /\ \E m \in DOMAIN versions' : versions'[m] = r
                 /\ \A u \in Trackers : r \notin unconfirmed'[u]
      <4>1. CASE r = s
        BY <1>1, <1>4, <3>3, <4>1
      <4>2. CASE r # s
        BY ZenonT(60), <1>1, <1>7, <3>2, <3>5, <4>2 DEF IInv, DelayOnce
      <4> QED BY <4>1, <4>2
    <3>6. \A u, v \in Trackers : u # v => unconfirmed'[u] \cap unconfirmed'[v] = {}
      BY <1>7 DEF IInv, DelayOnce
    <3> QED BY <3>4, <3>5, <3>6 DEF DelayOnce
  <2>2. CASE s \notin unconfirmed[t]
    BY <1>1, <1>3, <1>7, <2>2 DEF IInv, DelayOnce
  <2> QED BY <2>1, <2>2
<1> QED BY <1>1, <1>2, <1>5, <1>6, <1>8 DEF IInv, BehindClock

\* What the two loops of a tracker do keeps it ...
LEMMA LoopsKeep == ASSUME IInv, Loops PROVE IInv'
<1>1. CASE Touch
  <2>1. versions' = Append(versions, versions[Len(versions)])
        /\ UNCHANGED <<clock, unconfirmed, position, observed>> /\ versions # <<>>
    BY <1>1 DEF Touch
  <2>2. versions[Len(versions)] \in 0 .. clock /\ BehindClock
    <3>1. Len(versions) \in 1 .. Len(versions) /\ versions \in Seq(0 .. clock)
      BY <2>1, LenProperties, EmptySeq DEF IInv, BehindClock
    <3> QED BY <3>1, ElementOfSeq DEF IInv
  <2> QED BY <2>1, <2>2, OneMore, MoreVersions
<1>2. ASSUME NEW t \in Trackers, List(t) \/ WatchBreaks(t) PROVE IInv'
  <2>1. /\ UNCHANGED <<versions, clock, unconfirmed, observed>>
        /\ Len(versions) \in Nat
        /\ \/ position' = [position EXCEPT ![t] = Len(versions)]
           \/ position' = [position EXCEPT ![t] = 0]
    BY <1>2, LenProperties DEF List, WatchBreaks, IInv, BehindClock
  <2>2. position' \in [Trackers -> 0 .. Len(versions)]
    BY <2>1 DEF IInv, BehindClock
  <2> QED BY <2>1, <2>2 DEF IInv, BehindClock, DelayOnce
<1>3. ASSUME NEW t \in Trackers, PatchLoopEnds(t) \/ WatchLoopEnds(t) PROVE IInv'
  BY <1>3 DEF PatchLoopEnds, WatchLoopEnds, IInv, BehindClock, DelayOnce
<1> QED BY <1>1, <1>2, <1>3, TickKeeps, PatchKeeps, EventKeeps DEF Loops

\* ... so does starting a tracker ...
LEMMA StartKeeps == ASSUME IInv, NEW t \in Trackers, StartTracker(t) PROVE IInv'
<1>1. UNCHANGED <<clock, unconfirmed, position, observed>> /\ versions' = Made
  BY DEF StartTracker
<1>2. CASE versions # <<>>
  BY <1>1, <1>2 DEF Made, IInv, BehindClock, DelayOnce
<1>3. CASE versions = <<>>
  <2>1. versions' = Append(versions, 0) /\ 0 \in 0 .. clock /\ BehindClock
    BY <1>1, <1>3 DEF Made, IInv, BehindClock
  <2> QED BY <1>1, <2>1, OneMore, MoreVersions
<1> QED BY <1>2, <1>3

\* ... and a restart, after which no tracker is left.
LEMMA GoneKeeps == ASSUME IInv, TrackersGone PROVE IInv'
<1>1. /\ UNCHANGED <<versions, clock, observed>> /\ Len(versions) \in Nat
      /\ unconfirmed' = [t \in Trackers |-> {}] /\ position' = [t \in Trackers |-> 0]
  BY LenProperties DEF TrackersGone, IInv, BehindClock
<1>2. unconfirmed' \in [Trackers -> SUBSET (1 .. clock)]
      /\ position' \in [Trackers -> 0 .. Len(versions)]
  BY <1>1
<1>3. \A t \in Trackers : unconfirmed'[t] = {}
  BY <1>1
<1> QED BY <1>1, <1>2, <1>3 DEF IInv, BehindClock, DelayOnce

\* Every step keeps the inductive invariant of the delays.
LEMMA StepKeeps == ASSUME IInv, [Next]_vars PROVE IInv'
<1>1. CASE \E S : StopTrackers(S)
  BY <1>1 DEF StopTrackers, IInv, BehindClock, DelayOnce
<1>2. CASE UNCHANGED delayVars
  BY <1>2 DEF delayVars, IInv, BehindClock, DelayOnce
<1> QED BY <1>1, <1>2, StepsOfTrackers, LoopsKeep, StartKeeps, GoneKeeps
-----------------------------------------------------------------------------
\* The delay of a timestamp is observed at most once and by one tracker, for any number of
\* trackers that come after each other (controllers/slo/watch_delay_tracker.go).
THEOREM DelayHolds == Spec => []DelayOnce
<1>1. IInv => DelayOnce
  BY DEF IInv
<1> QED BY <1>1, InitInv, StepKeeps, PTL DEF Spec
-----------------------------------------------------------------------------
(* The controller.                                                         *)

\* What the maps have for a config, and that they have nothing for some keys.
Watched(c) == reconcilers[Key[c]] # Absent /\ (c \in Targets => delayTrackers[Key[c]] # 0)
\* No counter and no tracker of the keys is left.
Clear(K) == \A k \in K : reconcilers[k] = Absent /\ delayTrackers[k] = 0

\* The versions of the object, and the one the cache has: what is being deleted and
\* still there has the finalizer.
LogOK ==
    /\ log \in Seq(Version \cup {Absent}) /\ at \in 1 .. Len(log)
    /\ \A m \in 1 .. Len(log) : log[m] # Absent /\ log[m].deleting => log[m].ours

\* The tracker of a key is its own, runs and is not told to stop; a tracker that makes
\* patches without being told to stop is that of a key.
TrackersOK ==
    /\ delayTrackers \in [Keys -> Trackers \cup {0}]
    /\ patching \in [Trackers -> {"new", "wait", "patch", "end"}]
    /\ watching \in [Trackers -> {"new", "list", "watch", "end"}]
    /\ stopCh \subseteq {t \in Trackers : patching[t] # "new"}
    /\ \A k \in Keys : delayTrackers[k] # 0 =>
          /\ delayTrackers[k] \notin stopCh
          /\ patching[delayTrackers[k]] \in {"wait", "patch"}
          /\ watching[delayTrackers[k]] \in {"list", "watch"}
    /\ \A k, l \in Keys : delayTrackers[k] # 0 /\ delayTrackers[k] = delayTrackers[l] => k = l
    /\ \A t \in Trackers \ stopCh :
          patching[t] \in {"wait", "patch"} => \E k \in Keys : delayTrackers[k] = t

\* An event waits for a counter that is there, or that is being made.
CountersOK ==
    /\ reconcilers \in [Keys -> Configs \cup {Absent}]
    /\ workers \subseteq {k \in Keys : reconcilers[k] # Absent}
    /\ event \in [1 .. MaxEvents -> Keys \cup {"new", "draining", "counted", "missed"}]
    /\ \A e \in 1 .. MaxEvents : event[e] \in Keys =>
          reconcilers[event[e]] # Absent \/ (pc = "sync" /\ Key[Config] = event[e])

\* The turn of Reconcile: its version is one of the log, and not older than what the cache
\* has unless another request is queued.
HeldOK ==
    /\ held.version \in Version /\ held.rv \in 1 .. Len(log) /\ log[held.rv] = held.version
    /\ queued \/ held.rv >= at
    /\ pc = "finalize" => ~held.version.ours

\* The configs it has come past are watched.
ConfigsOK ==
    /\ ~held.version.deleting /\ i \in 1 .. Len(held.version.configs) + 1
    /\ \A n \in 1 .. Len(held.version.configs) : n < i => Watched(held.version.configs[n])
    /\ pc = "sync" => /\ i <= Len(held.version.configs)
                      /\ Config \in Targets => delayTrackers[Key[Config]] # 0

\* An object is let go when it is deleted, the cache has that, and the maps are clean.
CleanOK ==
    /\ held.version.deleting /\ held.rv <= at
    /\ pc = "release" => Clear(KeysOf(held.version.configs))

\* Where Reconcile is, and what it has done there.
TurnOK ==
    /\ pc \in {"idle", "finalize", "config", "sync", "clean", "release"}
    /\ (pc = "idle") = (held = Absent)
    /\ pc # "idle" => HeldOK
    /\ pc \in {"config", "sync"} => ConfigsOK
    /\ pc \in {"clean", "release"} => CleanOK

\* Another turn will come.
Due == queued \/ retry \/ at # Len(log)

\* When nothing is due, all the configs of the last version are watched.
Settled ==
    pc = "idle" /\ ~Due /\ Last # Absent =>
        ~Last.deleting /\ \A n \in 1 .. Len(Last.configs) : Watched(Last.configs[n])

\* After an object has been let go, Reconcile can only clean the same keys again.
GoneOK ==
    ~forced /\ Last = Absent /\ Len(log) > 1 /\ log[Len(log) - 1].ours =>
        /\ at >= Len(log) - 1 /\ log[Len(log) - 1] \in Version /\ log[Len(log) - 1].deleting
        /\ pc \in {"idle", "clean", "release"} /\ Clear(KeysOf(log[Len(log) - 1].configs))

\* The inductive invariant of the controller.
SInv == LogOK /\ TrackersOK /\ CountersOK /\ TurnOK /\ Settled /\ GoneOK

\* What the assumptions say of the constants.
LEMMA Constants ==
    /\ Key \in [Configs -> Keys] /\ Specs \subseteq Seq(Configs)
    /\ Absent \notin Configs /\ Absent \notin Version
    /\ \A v \in Version, r \in Nat : [version |-> v, rv |-> r] # Absent
    /\ "new" \notin Keys /\ "draining" \notin Keys /\ "counted" \notin Keys /\ "missed" \notin Keys
    /\ 0 \notin Trackers
  BY WatchAssumption DEF WatchAssumption

\* It holds at first.
LEMMA InitS == Init => SInv
<1> SUFFICES ASSUME Init PROVE SInv
  OBVIOUS
<1>1. log = <<Absent>> /\ log \in Seq(Version \cup {Absent}) /\ Len(log) = 1 /\ log[1] = Absent
  BY DEF Init
<1>2. LogOK /\ Settled /\ GoneOK
  BY <1>1 DEF Init, LogOK, Settled, GoneOK, Last
<1>3. TrackersOK /\ CountersOK /\ TurnOK
  BY Constants DEF Init, DelayInit, TrackersOK, CountersOK, TurnOK
<1> QED BY <1>2, <1>3 DEF SInv

\* The configs of a version.
LEMMA ConfigsOf ==
    ASSUME NEW v \in Version
    PROVE  /\ v.configs \in Seq(Configs) /\ Len(v.configs) \in Nat
           /\ DOMAIN v.configs = 1 .. Len(v.configs)
           /\ \A n \in 1 .. Len(v.configs) : v.configs[n] \in Configs /\ Key[v.configs[n]] \in Keys
           /\ KeysOf(v.configs) \subseteq Keys
<1>1. v.configs \in Seq(Configs)
  BY Constants DEF Version
<1>2. Len(v.configs) \in Nat /\ DOMAIN v.configs = 1 .. Len(v.configs)
  BY <1>1, LenProperties
<1>3. \A n \in 1 .. Len(v.configs) : v.configs[n] \in Configs /\ Key[v.configs[n]] \in Keys
  BY <1>1, ElementOfSeq, Constants
<1> QED BY <1>1, <1>2, <1>3 DEF KeysOf
-----------------------------------------------------------------------------
(* The log.                                                                *)

\* A version that is being deleted has our finalizer.
Written(v) == v \in Version \cup {Absent} /\ (v # Absent /\ v.deleting => v.ours)
\* A version is written.
Appends(v) == log' = Append(log, v) /\ Written(v)

\* Versions are added one at a time and never changed.
LogGrows ==
    /\ Len(log) \in Nat \ {0} /\ Len(log') \in {Len(log), Len(log) + 1}
    /\ \A m \in 1 .. Len(log) : log'[m] = log[m]
    /\ Len(log') = Len(log) => log' = log

\* A version that is written is added to the log.
LEMMA AppendGrows ==
    ASSUME LogOK, NEW v, Appends(v)
    PROVE  /\ LogGrows /\ Len(log') = Len(log) + 1 /\ log'[Len(log')] = v
           /\ log' \in Seq(Version \cup {Absent})
           /\ \A m \in 1 .. Len(log') : log'[m] # Absent /\ log'[m].deleting => log'[m].ours
<1>1. log \in Seq(Version \cup {Absent}) /\ Len(log) \in Nat \ {0} /\ v \in Version \cup {Absent}
  BY LenProperties DEF LogOK, Appends, Written
<1>2. /\ log' \in Seq(Version \cup {Absent}) /\ Len(log') = Len(log) + 1
      /\ \A m \in 1 .. Len(log) : log'[m] = log[m] /\ log'[Len(log) + 1] = v
  BY <1>1, AppendProperties DEF Appends
<1>3. \A m \in 1 .. Len(log') : m \in 1 .. Len(log) \/ m = Len(log')
  BY <1>1, <1>2
<1>4. log'[Len(log')] = v
  BY <1>1, <1>2
<1>5. \A m \in 1 .. Len(log') : log'[m] # Absent /\ log'[m].deleting => log'[m].ours
  BY <1>2, <1>3, <1>4 DEF Appends, Written, LogOK
<1> QED BY <1>1, <1>2, <1>4, <1>5 DEF LogGrows

\* The last version is one of those that can be written.
LEMMA LastWritten ==
    ASSUME LogOK
    PROVE  /\ Last \in Version \cup {Absent} /\ (Last # Absent /\ Last.deleting => Last.ours)
           /\ Len(log) \in 1 .. Len(log)
<1>1. log \in Seq(Version \cup {Absent}) /\ Len(log) \in 1 .. Len(log)
  BY LenProperties DEF LogOK
<1>2. Last \in Version \cup {Absent}
  BY <1>1, ElementOfSeq DEF Last
<1> QED BY <1>1, <1>2 DEF LogOK, Last

\* What users write, and what they leave.
LEMMA UsersAppend ==
    ASSUME LogOK, Users
    PROVE  /\ \E v : Appends(v) /\ (v = Absent /\ ~forced' => ~Last.ours)
           /\ forced => forced'
           /\ UNCHANGED <<queueVars, loopVars, mapVars, counterVars, delayVars>>
<1>0. UNCHANGED <<queueVars, loopVars, mapVars, counterVars, delayVars>>
  BY DEF Users, Create, Edit, Delete, ForceFinalizer, UserWrite
<1>f. forced => forced'
  BY DEF Users, Create, Edit, Delete, ForceFinalizer
<1>1. ASSUME NEW s \in Specs, Create(s) \/ Edit(s)
      PROVE  \E v : Appends(v) /\ v # Absent
  <2>1. CASE Create(s)
    <3> DEFINE v == [configs |-> s, deleting |-> FALSE, ours |-> FALSE]
    <3>1. v \in Version /\ ~v.deleting /\ log' = Append(log, v)
      BY <2>1 DEF Create, UserWrite, Version
    <3> QED BY <3>1, Constants DEF Appends, Written
  <2>2. CASE Edit(s)
    <3> DEFINE v == [Last EXCEPT !.configs = s]
    <3>1. Last \in Version /\ log' = Append(log, v) /\ (Last.deleting => Last.ours)
      BY <2>2, LastWritten DEF Edit, UserWrite
    <3>2. v \in Version /\ v.deleting = Last.deleting /\ v.ours = Last.ours
      BY <3>1 DEF Version
    <3> HIDE DEF v
    <3>3. Appends(v) /\ v # Absent
      BY <3>1, <3>2, Constants DEF Appends, Written
    <3> QED BY <3>3
  <2> QED BY <1>1, <2>1, <2>2
<1>2. CASE Delete
  <2>1. Last \in Version
    BY <1>2, LastWritten DEF Delete
  <2>2. CASE Last.ours
    <3> DEFINE v == [Last EXCEPT !.deleting = TRUE]
    <3>1. v \in Version /\ v.ours = Last.ours /\ log' = Append(log, v)
      BY <1>2, <2>1, <2>2 DEF Delete, UserWrite, Version
    <3> HIDE DEF v
    <3>2. v.ours /\ v # Absent
      BY <2>2, <3>1, Constants
    <3>3. Appends(v)
      BY <3>1, <3>2 DEF Appends, Written
    <3> QED BY <1>0, <1>f, <3>2, <3>3
  <2>3. CASE ~Last.ours
    <3>1. Appends(Absent)
      BY <1>2, <2>3 DEF Delete, UserWrite, Appends, Written
    <3> QED BY <1>2, <2>3, <3>1 DEF Delete, UserWrite
  <2> QED BY <2>2, <2>3
<1>3. CASE ForceFinalizer
  <2>1. Last \in Version /\ forced'
    BY <1>3, LastWritten DEF ForceFinalizer
  <2>2. CASE Last.deleting
    <3>1. Appends(Absent)
      BY <1>3, <2>2 DEF ForceFinalizer, UserWrite, Appends, Written
    <3> QED BY <1>3, <2>1, <3>1 DEF ForceFinalizer, UserWrite
  <2>3. CASE ~Last.deleting
    <3> DEFINE v == [Last EXCEPT !.ours = FALSE]
    <3>1. v \in Version /\ v.deleting = Last.deleting /\ log' = Append(log, v)
      BY <1>3, <2>1, <2>3 DEF ForceFinalizer, UserWrite, Version
    <3> HIDE DEF v
    <3> QED BY <1>3, <2>1, <2>3, <3>1, Constants DEF ForceFinalizer, UserWrite, Appends, Written
  <2> QED BY <2>2, <2>3
<1> QED BY <1>0, <1>1, <1>2, <1>3, <1>f DEF Users

\* The finalizer is set in a version that is not being deleted.
LEMMA FinalizeAppends ==
    ASSUME LogOK, TurnOK, pc = "finalize"
    PROVE  LET v == [held.version EXCEPT !.ours = TRUE]
           IN  v \in Version /\ v # Absent /\ ~v.deleting /\ Written(v)
<1> DEFINE v == [held.version EXCEPT !.ours = TRUE]
<1>1. held.version \in Version /\ ~held.version.ours
      /\ (held.version.deleting => held.version.ours)
  BY Constants DEF TurnOK, HeldOK, LogOK
<1>2. v \in Version /\ v.deleting = held.version.deleting
  BY <1>1 DEF Version
<1> HIDE DEF v
<1>3. v # Absent /\ ~v.deleting /\ Written(v)
  BY <1>1, <1>2, Constants DEF Written
<1> QED BY <1>2, <1>3 DEF v

\* What a step does to the log.
LEMMA LogSteps ==
    ASSUME LogOK, TurnOK, [Next]_vars
    PROVE  UNCHANGED log \/ \E v : Appends(v)
<1>1. CASE Users
  BY <1>1, UsersAppend
<1>2. CASE AddFinalizer
  <2> DEFINE v == [held.version EXCEPT !.ours = TRUE]
  <2>1. Written(v) /\ (UNCHANGED log \/ log' = Append(log, v))
    BY <1>2, FinalizeAppends DEF AddFinalizer, Fails
  <2> HIDE DEF v
  <2> QED BY <2>1 DEF Appends
<1>3. CASE RemoveFinalizer
  BY <1>3 DEF RemoveFinalizer, Fails, Appends, Written
<1>4. CASE UNCHANGED log
  BY <1>4
<1> QED
  BY <1>1, <1>2, <1>3, <1>4
  DEF Next, vars, objectVars, Deliver, RetryDue, Reconcile, Get, Clean, MakeTracker, MakeCounter,
      Synced, Skip, Local, Counters, DelayLoops, Crash

\* In every step the log grows or stays.
LEMMA StepGrows == ASSUME LogOK, TurnOK, [Next]_vars PROVE LogGrows
<1>1. CASE UNCHANGED log
  <2>1. Len(log) \in Nat \ {0}
    BY LenProperties DEF LogOK
  <2> QED BY <1>1, <2>1 DEF LogGrows
<1> QED BY <1>1, LogSteps, AppendGrows

\* Every step keeps the log.
LEMMA StepLog == ASSUME LogOK, TurnOK, [Next]_vars PROVE LogOK'
<1>1. at' \in {at, at + 1, Len(log)} /\ at' \in 1 .. Len(log)
  <2>1. Len(log) \in Nat \ {0} /\ at \in 1 .. Len(log)
    BY LenProperties DEF LogOK
  <2> QED
    BY <2>1, UsersAppend
    DEF Next, vars, queueVars, Deliver, RetryDue, Reconcile, Get, AddFinalizer, Clean,
        RemoveFinalizer, MakeTracker, MakeCounter, Synced, Skip, Local, Counters, DelayLoops, Crash
<1>2. LogGrows /\ at' \in 1 .. Len(log')
  BY <1>1, StepGrows DEF LogGrows
<1>3. CASE UNCHANGED log
  BY <1>2, <1>3 DEF LogOK
<1>4. ASSUME NEW v, Appends(v) PROVE LogOK'
  BY <1>2, <1>4, AppendGrows DEF LogOK
<1> QED BY <1>3, <1>4, LogSteps
-----------------------------------------------------------------------------
(* The trackers.                                                           *)

\* The loops of the trackers keep to their trackers.
LEMMA LoopsKeepTrackers == ASSUME TrackersOK, Loops, UNCHANGED delayTrackers PROVE TrackersOK'
<1> USE DEF TrackersOK
<1>1. CASE Touch
  BY <1>1 DEF Touch
<1>2. ASSUME NEW t \in Trackers, Tick(t) \/ Patch(t) PROVE TrackersOK'
  <2>1. /\ patching[t] \in {"wait", "patch"} /\ UNCHANGED <<watching, stopCh>>
        /\ patching' = [patching EXCEPT ![t] = "patch"] \/ patching' = [patching EXCEPT ![t] = "wait"]
    BY <1>2 DEF Tick, Patch
  <2>2. \A u \in Trackers : patching'[u] = patching[u]
                            \/ (patching[u] \in {"wait", "patch"} /\ patching'[u] \in {"wait", "patch"})
    BY <2>1
  <2>3. patching' \in [Trackers -> {"new", "wait", "patch", "end"}]
    BY <2>1
  <2> QED BY <2>1, <2>2, <2>3
<1>3. ASSUME NEW t \in Trackers, PatchLoopEnds(t) PROVE TrackersOK'
  <2>1. /\ t \in stopCh /\ UNCHANGED <<watching, stopCh>>
        /\ patching' = [patching EXCEPT ![t] = "end"]
    BY <1>3 DEF PatchLoopEnds
  <2> QED BY <2>1
<1>4. ASSUME NEW t \in Trackers, List(t) \/ Event(t) \/ WatchBreaks(t) \/ WatchLoopEnds(t)
      PROVE  TrackersOK'
  <2>1. UNCHANGED <<patching, stopCh>>
        /\ \/ watching' = [watching EXCEPT ![t] = "watch"]
           \/ watching' = [watching EXCEPT ![t] = "list"]
           \/ t \in stopCh /\ watching' = [watching EXCEPT ![t] = "end"]
           \/ watching' = watching
    BY <1>4 DEF List, Event, WatchBreaks, WatchLoopEnds
  <2> QED BY <2>1
<1> QED BY <1>1, <1>2, <1>3, <1>4 DEF Loops

\* A tracker that is made is new, and the key has none.
LEMMA MakeKeepsTrackers ==
    ASSUME TrackersOK, NEW k \in Keys, delayTrackers[k] = 0, NEW t \in Fresh, StartTracker(t),
           delayTrackers' = [delayTrackers EXCEPT ![k] = t]
    PROVE  TrackersOK'
<1> USE DEF TrackersOK
<1>1. /\ t \in Trackers /\ patching[t] = "new" /\ UNCHANGED stopCh /\ t # 0
      /\ patching' = [patching EXCEPT ![t] = "wait"] /\ watching' = [watching EXCEPT ![t] = "list"]
  BY Constants DEF Fresh, StartTracker
<1>2. t \notin stopCh /\ \A l \in Keys : delayTrackers[l] # t
  BY <1>1
<1>3. /\ delayTrackers'[k] = t /\ \A l \in Keys \ {k} : delayTrackers'[l] = delayTrackers[l]
      /\ patching'[t] = "wait" /\ watching'[t] = "list"
      /\ \A u \in Trackers \ {t} : patching'[u] = patching[u] /\ watching'[u] = watching[u]
      /\ patching' \in [Trackers -> {"new", "wait", "patch", "end"}]
      /\ watching' \in [Trackers -> {"new", "list", "watch", "end"}]
      /\ delayTrackers' \in [Keys -> Trackers \cup {0}]
  BY <1>1
<1>4. \A l \in Keys : delayTrackers'[l] # 0 =>
         /\ delayTrackers'[l] \notin stopCh'
         /\ patching'[delayTrackers'[l]] \in {"wait", "patch"}
         /\ watching'[delayTrackers'[l]] \in {"list", "watch"}
  BY <1>1, <1>2, <1>3
<1>5. \A l, m \in Keys : delayTrackers'[l] # 0 /\ delayTrackers'[l] = delayTrackers'[m] => l = m
  BY <1>2, <1>3
<1>6. \A u \in Trackers \ stopCh' :
         patching'[u] \in {"wait", "patch"} => \E l \in Keys : delayTrackers'[l] = u
  <2>1. ASSUME NEW u \in Trackers \ stopCh, u # t, patching'[u] \in {"wait", "patch"}
        PROVE  \E l \in Keys : delayTrackers'[l] = u
    <3>1. PICK l \in Keys : delayTrackers[l] = u
      BY <1>3, <2>1
    <3>2. l # k
      BY <2>1, <3>1, Constants
    <3> QED BY <1>3, <3>1, <3>2
  <2> QED BY <1>1, <1>3, <2>1
<1>7. stopCh' \subseteq {u \in Trackers : patching'[u] # "new"}
  BY <1>1, <1>3
<1> QED BY <1>3, <1>4, <1>5, <1>6, <1>7

\* A tracker that the map loses is told to stop.
LEMMA CleanKeepsTrackers ==
    ASSUME TrackersOK, NEW K \in SUBSET Keys, StopTrackers({delayTrackers[k] : k \in K} \ {0}),
           delayTrackers' = [k \in Keys |-> IF k \in K THEN 0 ELSE delayTrackers[k]]
    PROVE  TrackersOK'
<1> USE DEF TrackersOK
<1>1. /\ UNCHANGED <<patching, watching>>
      /\ stopCh' = stopCh \cup ({delayTrackers[k] : k \in K} \ {0})
  BY DEF StopTrackers
<1>2. /\ \A k \in K : delayTrackers'[k] = 0
      /\ \A k \in Keys \ K : delayTrackers'[k] = delayTrackers[k]
      /\ delayTrackers' \in [Keys -> Trackers \cup {0}]
  BY Constants
<1>3. stopCh' \subseteq {u \in Trackers : patching'[u] # "new"}
  BY <1>1
<1>4. \A k \in Keys \ K : delayTrackers[k] # 0 => delayTrackers[k] \notin stopCh'
  BY <1>1
<1>5. \A k \in Keys : delayTrackers'[k] # 0 => k \notin K /\ delayTrackers'[k] = delayTrackers[k]
  BY <1>2
<1>6. \A u \in Trackers \ stopCh' :
         patching'[u] \in {"wait", "patch"} => \E l \in Keys : delayTrackers'[l] = u
  <2>1. ASSUME NEW u \in Trackers \ stopCh', patching'[u] \in {"wait", "patch"}
        PROVE  \E l \in Keys : delayTrackers'[l] = u
    <3>1. PICK l \in Keys : delayTrackers[l] = u
      BY <1>1, <2>1
    <3>2. l \notin K
      BY <1>1, <2>1, <3>1, Constants
    <3> QED BY <1>2, <3>1, <3>2
  <2> QED BY <2>1
<1> QED BY <1>1, <1>2, <1>3, <1>4, <1>5, <1>6

\* In the turn of a config, the config is one of the version.
LEMMA ConfigTyped ==
    ASSUME TurnOK, AtConfig \/ pc = "sync"
    PROVE  /\ i \in 1 .. Len(held.version.configs) /\ Config \in Configs /\ Key[Config] \in Keys
           /\ held.version \in Version
<1>1. held.version \in Version /\ i \in 1 .. Len(held.version.configs)
  BY ConfigsOf DEF TurnOK, HeldOK, ConfigsOK, AtConfig
<1> QED BY <1>1, ConfigsOf DEF Config

\* The keys of the version that Reconcile holds are keys.
LEMMA KeysHeld == ASSUME TurnOK, pc # "idle" PROVE KeysOf(held.version.configs) \in SUBSET Keys
  BY ConfigsOf DEF TurnOK, HeldOK

\* Every step keeps the trackers.
LEMMA StepTrackers == ASSUME TrackersOK, TurnOK, LogOK, [Next]_vars PROVE TrackersOK'
<1>1. CASE UNCHANGED <<delayTrackers, delayVars>>
  BY <1>1 DEF TrackersOK, delayVars
<1>2. CASE DelayLoops
  BY <1>2, LoopsKeepTrackers DEF DelayLoops, mapVars
<1>3. CASE Clean
  <2> DEFINE K == KeysOf(held.version.configs)
  <2>1. /\ K \in SUBSET Keys /\ StopTrackers({delayTrackers[k] : k \in K} \ {0})
        /\ delayTrackers' = [k \in Keys |-> IF k \in K THEN 0 ELSE delayTrackers[k]]
    BY <1>3, KeysHeld DEF Clean
  <2> HIDE DEF K
  <2> QED BY <2>1, CleanKeepsTrackers
<1>4. CASE MakeTracker
  <2> DEFINE k == Key[Config]
  <2>1. k \in Keys /\ delayTrackers[k] = 0
    BY <1>4, ConfigTyped DEF MakeTracker, NeedsTracker
  <2>2. \/ \E t \in Fresh : StartTracker(t) /\ delayTrackers' = [delayTrackers EXCEPT ![k] = t]
        \/ UNCHANGED <<delayTrackers, delayVars>>
    BY <1>4 DEF MakeTracker
  <2> HIDE DEF k
  <2> QED BY <1>1, <2>1, <2>2, MakeKeepsTrackers
<1>5. CASE Crash
  <2>1. /\ delayTrackers' = [k \in Keys |-> 0] /\ stopCh' = {}
        /\ patching' = [t \in Trackers |-> IF patching[t] = "new" THEN "new" ELSE "end"]
        /\ watching' = [t \in Trackers |-> IF watching[t] = "new" THEN "new" ELSE "end"]
    BY <1>5 DEF Crash, TrackersGone
  <2> QED BY <2>1 DEF TrackersOK
<1>6. CASE Users
  BY <1>1, <1>6, UsersAppend DEF mapVars
<1> QED
  BY <1>1, <1>2, <1>3, <1>4, <1>5, <1>6
  DEF Next, vars, mapVars, Deliver, RetryDue, Reconcile, Get, AddFinalizer, RemoveFinalizer,
      MakeCounter, Synced, Skip, Local, Counters
-----------------------------------------------------------------------------
(* The counters.                                                           *)

\* Every step keeps the counters.
LEMMA StepCounters == ASSUME CountersOK, TurnOK, LogOK, [Next]_vars PROVE CountersOK'
<1> USE DEF CountersOK
<1>0. pc # "sync" => \A e \in 1 .. MaxEvents : event[e] \in Keys => reconcilers[event[e]] # Absent
  OBVIOUS
<1>1. CASE UNCHANGED <<reconcilers, workers, event, loopVars>>
  BY <1>1 DEF loopVars, Config
<1>2. CASE UNCHANGED <<reconcilers, workers, event>> /\ pc # "sync"
  BY <1>0, <1>2
<1>3. CASE Synced
  <2>1. /\ pc = "sync" /\ Config \in Configs /\ Key[Config] \in Keys /\ Config # Absent
        /\ reconcilers' = [reconcilers EXCEPT ![Key[Config]] = Config]
        /\ UNCHANGED <<workers, event>>
    BY <1>3, ConfigTyped, Constants DEF Synced, counterVars
  <2>2. reconcilers' \in [Keys -> Configs \cup {Absent}]
        /\ \A k \in Keys : reconcilers'[k] # Absent \/ (k # Key[Config] /\ reconcilers[k] = Absent)
    BY <2>1
  <2> QED BY <2>1, <2>2
<1>4. CASE Clean
  <2> DEFINE K == KeysOf(held.version.configs)
  <2>1. /\ pc = "clean" /\ workers' = workers \ K /\ event' = Drained(K)
        /\ reconcilers' = [k \in Keys |-> IF k \in K THEN Absent ELSE reconcilers[k]]
    BY <1>4 DEF Clean
  <2> HIDE DEF K
  <2>2. \A e \in 1 .. MaxEvents : \/ event[e] \notin K /\ event'[e] = event[e]
                                  \/ event'[e] \in {"draining", "missed"}
    BY <2>1 DEF Drained
  <2>3. event' \in [1 .. MaxEvents -> Keys \cup {"new", "draining", "counted", "missed"}]
    BY <2>1 DEF Drained
  <2>4. reconcilers' \in [Keys -> Configs \cup {Absent}] /\ workers' \subseteq {k \in Keys : reconcilers'[k] # Absent}
    BY <2>1
  <2>5. ASSUME NEW e \in 1 .. MaxEvents, event'[e] \in Keys PROVE reconcilers'[event'[e]] # Absent
    BY <1>0, <2>1, <2>2, <2>5, Constants
  <2> QED BY <2>3, <2>4, <2>5
<1>5. CASE Counters
  <2>1. UNCHANGED <<reconcilers, loopVars>>
    BY <1>5 DEF Counters, mapVars
  <2>2. ASSUME NEW k \in Keys, Enqueue(k) PROVE CountersOK'
    <3>1. PICK e \in 1 .. MaxEvents : event' = [event EXCEPT ![e] = k]
      BY <2>2 DEF Enqueue
    <3>2. UNCHANGED workers /\ (reconcilers[k] # Absent \/ (pc = "sync" /\ Key[Config] = k))
      BY <2>2 DEF Enqueue
    <3>3. event' \in [1 .. MaxEvents -> Keys \cup {"new", "draining", "counted", "missed"}]
          /\ \A f \in 1 .. MaxEvents : event'[f] = k \/ event'[f] = event[f]
      BY <3>1
    <3> QED BY <2>1, <3>2, <3>3 DEF loopVars, Config
  <2>3. ASSUME NEW k \in Keys, StartWorkers(k) PROVE CountersOK'
    BY <2>1, <2>3 DEF StartWorkers, loopVars, Config
  <2>4. ASSUME NEW e \in 1 .. MaxEvents, ProcessNext(e) PROVE CountersOK'
    <3>1. event' = [event EXCEPT ![e] = "counted"] /\ UNCHANGED workers
      BY <2>4 DEF ProcessNext
    <3>2. event' \in [1 .. MaxEvents -> Keys \cup {"new", "draining", "counted", "missed"}]
          /\ \A f \in 1 .. MaxEvents : event'[f] = "counted" \/ event'[f] = event[f]
      BY <3>1
    <3> QED BY <2>1, <3>1, <3>2, Constants DEF loopVars, Config
  <2> QED BY <1>5, <2>2, <2>3, <2>4 DEF Counters
<1>6. CASE Crash
  <2>1. /\ reconcilers' = [k \in Keys |-> Absent] /\ workers' = {}
        /\ event' = [e \in 1 .. MaxEvents |-> IF event[e] = "new" THEN "new" ELSE "missed"]
    BY <1>6 DEF Crash
  <2> QED BY <2>1, Constants
<1>7. CASE Users
  BY <1>1, <1>7, UsersAppend DEF mapVars, counterVars
<1> QED
  BY <1>1, <1>2, <1>3, <1>4, <1>5, <1>6, <1>7
  DEF Next, vars, mapVars, counterVars, Deliver, RetryDue, Reconcile, Get, AddFinalizer,
      RemoveFinalizer, MakeTracker, AtConfig, MakeCounter, Skip, Local, DelayLoops
-----------------------------------------------------------------------------
(* The turns of Reconcile.                                                 *)

\* The maps lose nothing.
MapsGrow ==
    \A k \in Keys : /\ reconcilers[k] # Absent => reconcilers'[k] # Absent
                    /\ delayTrackers[k] # 0 => delayTrackers'[k] # 0

\* The cache, and the requests: what is not queued has not moved.
CacheStays == at' >= at /\ (queued' \/ (~queued /\ at' = at) \/ (at' = at /\ queued' = queued))

\* What is watched stays so as long as the maps grow.
LEMMA WatchedStays ==
    ASSUME MapsGrow, NEW c \in Configs, Watched(c) PROVE Watched(c)'
<1>1. Key[c] \in Keys
  BY Constants
<1> QED BY <1>1 DEF MapsGrow, Watched

\* A turn that no step of its own comes to.
LEMMA HeldStays ==
    ASSUME LogOK, TurnOK, pc # "idle", LogGrows, UNCHANGED held, pc' \in {pc, "sync", "config", "release"},
           queued => queued', queued' \/ at' = at
    PROVE  HeldOK'
<1>1. HeldOK /\ held.rv \in 1 .. Len(log)
  BY DEF TurnOK, HeldOK
<1>2. held.rv \in 1 .. Len(log') /\ log'[held.rv] = held.version
  BY <1>1 DEF LogGrows, HeldOK
<1>3. queued' \/ held.rv >= at'
  BY <1>1 DEF HeldOK
<1>4. pc' = "finalize" => ~held.version.ours
  BY <1>1 DEF HeldOK
<1> QED BY <1>1, <1>2, <1>3, <1>4 DEF HeldOK

\* The turn of Reconcile stands when others act.
LEMMA TurnStays ==
    ASSUME LogOK, TurnOK, LogGrows, UNCHANGED loopVars, MapsGrow,
           pc = "release" => UNCHANGED mapVars, queued => queued', queued' \/ at' = at,
           at' >= at, at' \in Nat
    PROVE  TurnOK'
<1>1. UNCHANGED <<pc, held, i>>
  BY DEF loopVars
<1>2. pc # "idle" => HeldOK'
  BY <1>1, HeldStays
<1>3. ASSUME pc \in {"config", "sync"} PROVE ConfigsOK'
  <2>1. held.version \in Version /\ ConfigsOK
    BY <1>3 DEF TurnOK, HeldOK
  <2>2. \A n \in 1 .. Len(held.version.configs) : n < i => Watched(held.version.configs[n])'
    <3>1. \A n \in 1 .. Len(held.version.configs) : held.version.configs[n] \in Configs
      BY <2>1, ConfigsOf
    <3>2. ASSUME NEW n \in 1 .. Len(held.version.configs), n < i
          PROVE  Watched(held.version.configs[n])'
      <4>1. Watched(held.version.configs[n]) /\ Key[held.version.configs[n]] \in Keys
        BY <2>1, <3>1, <3>2, Constants DEF ConfigsOK
      <4> QED BY <1>1, <4>1 DEF MapsGrow, Watched
    <3> QED BY <3>2
  <2>3. pc = "sync" => Config \in Configs /\ Key[Config] \in Keys /\ Config' = Config
    BY <1>1, ConfigTyped DEF Config
  <2>4. pc' = "sync" => /\ i <= Len(held.version.configs)
                        /\ Config' \in Targets => delayTrackers'[Key[Config']] # 0
    BY <1>1, <2>1, <2>3 DEF ConfigsOK, MapsGrow
  <2> QED BY <1>1, <2>1, <2>2, <2>4 DEF ConfigsOK
<1>4. ASSUME pc \in {"clean", "release"} PROVE CleanOK'
  <2>1. held.version.deleting /\ held.rv <= at' /\ CleanOK
    <3>1. held.rv \in 1 .. Len(log) /\ held.rv <= at /\ Len(log) \in Nat /\ at \in 1 .. Len(log)
      BY <1>4, LenProperties DEF TurnOK, HeldOK, CleanOK, LogOK
    <3> QED BY <1>4, <3>1 DEF TurnOK, CleanOK
  <2>2. pc = "release" => Clear(KeysOf(held.version.configs))'
    <3>1. ASSUME pc = "release" PROVE Clear(KeysOf(held.version.configs))'
      <4>1. UNCHANGED <<reconcilers, delayTrackers>> /\ Clear(KeysOf(held.version.configs))
        BY <2>1, <3>1 DEF mapVars, CleanOK
      <4> QED BY <1>1, <4>1 DEF Clear
    <3> QED BY <3>1
  <2> QED BY <1>1, <2>1, <2>2 DEF CleanOK
<1> QED BY <1>1, <1>2, <1>3, <1>4 DEF TurnOK

\* A turn that ends.
LEMMA TurnEnds == ASSUME Done PROVE TurnOK'
  BY DEF Done, TurnOK

\* A turn that comes to a version with our finalizer.
LEMMA TurnStarts ==
    ASSUME NEW v \in Version, NEW r \in 1 .. Len(log'), Process(v, r), Len(log') \in Nat,
           log'[r] = v, queued' \/ r >= at', v.deleting => r <= at'
    PROVE  TurnOK'
<1>1. /\ held' = [version |-> v, rv |-> r] /\ i' = 1
      /\ pc' = IF v.deleting THEN "clean" ELSE "config"
  BY DEF Process
<1>2. held' # Absent /\ held'.version = v /\ held'.rv = r
  BY <1>1, Constants
<1>3. HeldOK'
  BY <1>1, <1>2 DEF HeldOK
<1>4. pc' = "config" => ConfigsOK'
  BY <1>1, <1>2, ConfigsOf DEF ConfigsOK
<1>5. pc' = "clean" => CleanOK'
  BY <1>1, <1>2 DEF CleanOK
<1> QED BY <1>1, <1>2, <1>3, <1>4, <1>5 DEF TurnOK

\* What a config that is not skipped gets.
LEMMA ConfigStep ==
    ASSUME NEW c \in Configs, c = Config, LogOK, TurnOK, pc \in {"config", "sync"}, AtConfig \/ pc = "sync", LogGrows, MapsGrow,
           UNCHANGED <<held, at, queued>>,
           \/ pc' = "config" /\ i' = i + 1 /\ Watched(c)'
           \/ /\ pc' = "sync" /\ i' = i /\ UNCHANGED delayTrackers
              /\ Config \in Targets => delayTrackers[Key[Config]] # 0
    PROVE  TurnOK'
<1> DEFINE N == Len(held.version.configs)
<1>1. /\ held.version \in Version /\ ConfigsOK /\ i \in 1 .. N /\ N \in Nat
      /\ Config = held.version.configs[i] /\ pc # "idle"
  BY ConfigTyped, ConfigsOf DEF TurnOK, HeldOK, Config
<1>2. HeldOK'
  BY <1>1, HeldStays
<1>3. \A n \in 1 .. N : n < i => Watched(held.version.configs[n])'
  <2>1. ASSUME NEW n \in 1 .. N, n < i PROVE Watched(held.version.configs[n])'
    <3>1. Watched(held.version.configs[n]) /\ Key[held.version.configs[n]] \in Keys
      BY <1>1, <2>1, ConfigsOf DEF ConfigsOK
    <3> QED BY <3>1 DEF MapsGrow, Watched
  <2> QED BY <2>1
<1>4. CASE pc' = "config" /\ i' = i + 1 /\ Watched(c)'
  <2>1. ASSUME NEW n \in 1 .. N, n < i' PROVE Watched(held.version.configs[n])'
    <3>1. CASE n < i
      BY <1>3, <3>1
    <3>2. CASE n = i
      <4>1. held'.version.configs[n] = c
        BY <1>1, <3>2
      <4> QED BY <1>4, <4>1 DEF Watched
    <3> QED BY <1>1, <1>4, <2>1, <3>1, <3>2
  <2> QED BY <1>1, <1>2, <1>4, <2>1 DEF TurnOK, ConfigsOK
<1>5. CASE pc' = "sync" /\ i' = i /\ UNCHANGED delayTrackers
           /\ (Config \in Targets => delayTrackers[Key[Config]] # 0)
  <2>1. Config' = Config
    BY <1>5 DEF Config
  <2> QED BY <1>1, <1>2, <1>3, <1>5, <2>1 DEF TurnOK, ConfigsOK
<1> QED BY <1>4, <1>5
\* Every step keeps the turn of Reconcile.
LEMMA StepTurn == ASSUME SInv, [Next]_vars PROVE TurnOK'
<1> USE DEF SInv
<1>0. /\ LogGrows /\ at \in 1 .. Len(log) /\ at \in Nat /\ LogOK'
      /\ log \in Seq(Version \cup {Absent}) /\ Len(log) \in Nat
  BY StepGrows, StepLog, LenProperties DEF LogOK
<1>1. CASE UNCHANGED <<loopVars, mapVars, queueVars>>
  BY <1>0, <1>1, TurnStays DEF mapVars, queueVars, MapsGrow
<1>2. CASE Deliver \/ RetryDue
  BY <1>0, <1>2, TurnStays DEF Deliver, RetryDue, mapVars, MapsGrow
<1>3. CASE Done
  BY <1>3, TurnEnds
<1>4. CASE Get
  <2> DEFINE v == log[at]
  <2>1. v \in Version \cup {Absent} /\ UNCHANGED <<log, at>>
    BY <1>0, <1>4, ElementOfSeq DEF Get, objectVars
  <2>2. CASE v # Absent /\ v.ours
    <3>1. Process(v, at) /\ v \in Version
      BY <1>4, <2>1, <2>2 DEF Get
    <3> QED BY <1>0, <2>1, <3>1, TurnStarts
  <2>3. CASE v # Absent /\ ~v.ours
    <3>1. pc' = "finalize" /\ held' = [version |-> v, rv |-> at] /\ v \in Version
      BY <1>4, <2>1, <2>3 DEF Get
    <3>2. held' # Absent /\ held'.version = v /\ held'.rv = at
      BY <1>0, <3>1, Constants
    <3> QED BY <1>0, <2>1, <2>3, <3>1, <3>2 DEF TurnOK, HeldOK
  <2>4. CASE v = Absent
    BY <1>3, <1>4, <2>4 DEF Get
  <2> QED BY <2>2, <2>3, <2>4
<1>5. CASE AddFinalizer
  <2> DEFINE v == [held.version EXCEPT !.ours = TRUE]
  <2>1. CASE log' = Append(log, v) /\ Process(v, Len(log'))
    <3>1. v \in Version /\ ~v.deleting /\ Appends(v) /\ UNCHANGED at
      BY <1>5, <2>1, FinalizeAppends DEF AddFinalizer, Appends
    <3> HIDE DEF v
    <3>2. Len(log') = Len(log) + 1 /\ log'[Len(log')] = v
      BY <3>1, AppendGrows
    <3> QED BY <1>0, <2>1, <3>1, <3>2, TurnStarts
  <2> QED BY <1>3, <1>5, <2>1 DEF AddFinalizer, Fails, Again
<1>6. CASE Clean
  <2>1. /\ pc = "clean" /\ pc' = "release" /\ UNCHANGED <<held, at, queued, log>>
        /\ KeysOf(held.version.configs) \in SUBSET Keys
    BY <1>6, KeysHeld DEF Clean, objectVars, queueVars
  <2>2. HeldOK'
    BY <1>0, <2>1, HeldStays
  <2>3. Clear(KeysOf(held.version.configs))'
    BY <1>6, <2>1 DEF Clean, Clear
  <2> QED BY <2>1, <2>2, <2>3 DEF TurnOK, CleanOK
<1>7. CASE RemoveFinalizer
  BY <1>3, <1>7 DEF RemoveFinalizer, Fails, Again
<1>8. CASE MakeTracker
  <2>1. CASE \E t \in Fresh : delayTrackers' = [delayTrackers EXCEPT ![Key[Config]] = t]
    <3>1. Key[Config] \in Keys /\ pc = "config"
      BY <1>8, ConfigTyped DEF MakeTracker, AtConfig
    <3>2. MapsGrow
      BY <1>8, <2>1, <3>1, Constants DEF MakeTracker, MapsGrow, TrackersOK, Fresh
    <3>3. UNCHANGED loopVars \/ Done
      BY <1>8 DEF MakeTracker, Again
    <3>4. UNCHANGED <<at, queued>>
      BY <1>8 DEF MakeTracker
    <3> QED BY <1>0, <1>3, <3>1, <3>2, <3>3, <3>4, TurnStays
  <2> QED BY <1>3, <1>8, <2>1 DEF MakeTracker, Again
<1>9. CASE MakeCounter
  <2>1. CASE pc' = "sync" /\ UNCHANGED <<held, i>>
    <3>1. PICK c \in Configs : c = Config
      BY <1>9, ConfigTyped DEF MakeCounter
    <3>2. /\ AtConfig /\ pc = "config" /\ UNCHANGED <<at, queued, delayTrackers>> /\ MapsGrow
          /\ c \in Targets => delayTrackers[Key[c]] # 0
      BY <1>9, <3>1 DEF MakeCounter, AtConfig, NeedsTracker, mapVars, MapsGrow
    <3> QED BY <1>0, <2>1, <3>1, <3>2, ConfigStep
  <2> QED BY <1>3, <1>9, <2>1 DEF MakeCounter, Again
<1>10. CASE Synced
  <2>1. PICK c \in Configs : c = Config
    BY <1>10, ConfigTyped DEF Synced
  <2>2. /\ pc = "sync" /\ pc' = "config" /\ i' = i + 1 /\ UNCHANGED <<held, at, queued, delayTrackers>>
        /\ reconcilers' = [reconcilers EXCEPT ![Key[c]] = c]
    BY <1>10, <2>1 DEF Synced, queueVars
  <2>3. c # Absent /\ Key[c] \in Keys /\ (c \in Targets => delayTrackers[Key[c]] # 0)
    BY <2>1, <2>2, Constants DEF TurnOK, ConfigsOK
  <2>4. MapsGrow /\ Watched(c)'
    BY <2>2, <2>3 DEF MapsGrow, CountersOK, Watched
  <2> QED BY <1>0, <2>1, <2>2, <2>4, ConfigStep
<1>11. CASE Skip
  <2>1. CASE AtConfig /\ ~NeedsTracker /\ reconcilers[Key[Config]] # Absent
             /\ i' = i + 1 /\ UNCHANGED <<pc, held>>
    <3>1. PICK c \in Configs : c = Config
      BY <2>1, ConfigTyped
    <3>2. /\ pc = "config" /\ UNCHANGED <<at, queued, reconcilers, delayTrackers>>
      BY <1>11 DEF Skip, Local, mapVars
    <3>3. MapsGrow /\ Watched(c)'
      BY <2>1, <3>1, <3>2 DEF MapsGrow, Watched, NeedsTracker
    <3> QED BY <1>0, <2>1, <3>1, <3>2, <3>3, ConfigStep
  <2> QED BY <1>3, <1>11, <2>1 DEF Skip
<1>12. CASE Users
  BY <1>1, <1>12, UsersAppend
<1> QED
  BY <1>1, <1>2, <1>3, <1>4, <1>5, <1>6, <1>7, <1>8, <1>9, <1>10, <1>11, <1>12
  DEF Next, vars, Reconcile, Counters, DelayLoops, Crash
-----------------------------------------------------------------------------
(* The end of a turn.                                                      *)

\* A version more is one the cache does not have yet.
LEMMA AppendIsDue == ASSUME LogOK, NEW v, Appends(v), UNCHANGED at PROVE Due'
<1>1. at \in 1 .. Len(log) /\ Len(log) \in Nat /\ Len(log') = Len(log) + 1
  BY LenProperties, AppendGrows DEF LogOK
<1> QED BY <1>1 DEF Due

\* A turn that ends well, with nothing else to come, has seen the last version.
LEMMA TurnIsLast ==
    ASSUME LogOK, TurnOK, pc # "idle", ~Due
    PROVE  held.version = Last /\ held.version \in Version
<1>1. held.rv \in 1 .. Len(log) /\ held.rv >= at /\ at = Len(log) /\ Len(log) \in Nat
  BY LenProperties DEF TurnOK, HeldOK, Due, LogOK
<1>2. held.rv = Len(log)
  BY <1>1
<1> QED BY <1>2 DEF TurnOK, HeldOK, Last

\* Every step keeps that what is settled is watched.
LEMMA StepSettled == ASSUME SInv, [Next]_vars PROVE Settled'
<1> USE DEF SInv
<1>0. LogOK' /\ LogGrows
  BY StepLog, StepGrows
<1>1. CASE Due' \/ pc' # "idle"
  BY <1>1 DEF Settled
<1>2. CASE UNCHANGED <<objectVars, queueVars, loopVars, mapVars>>
  BY <1>2 DEF Settled, Due, Last, Watched, objectVars, queueVars, loopVars, mapVars
<1>3. CASE Users
  <2>1. UNCHANGED at
    BY <1>3, UsersAppend DEF queueVars
  <2>2. PICK v : Appends(v)
    BY <1>3, UsersAppend
  <2> QED BY <1>1, <2>1, <2>2, AppendIsDue
<1>4. CASE Deliver \/ RetryDue \/ Again
  BY <1>1, <1>4 DEF Deliver, RetryDue, Again, Due
<1>5. CASE Get
  <2>1. CASE log[at] = Absent
    <3>1. UNCHANGED <<log, at>>
      BY <1>5 DEF Get, objectVars
    <3>2. ~Due' => Last' = Absent
      BY <2>1, <3>1 DEF Due, Last
    <3> QED BY <3>2 DEF Settled
  <2>2. CASE log[at] # Absent
    BY <1>1, <1>5, <2>2 DEF Get, Process
  <2> QED BY <2>1, <2>2
<1>6. CASE Skip
  <2>1. CASE i > Len(held.version.configs) /\ Done
    <3>1. UNCHANGED <<log, at, queued, retry, reconcilers, delayTrackers>> /\ pc = "config"
      BY <1>6 DEF Skip, Local, objectVars, mapVars
    <3>2. SUFFICES ASSUME ~Due'
          PROVE  ~Last.deleting /\ \A n \in 1 .. Len(Last.configs) : Watched(Last.configs[n])
      <4>1. ~Last.deleting /\ (\A n \in 1 .. Len(Last.configs) : Watched(Last.configs[n])) => Settled'
        BY <3>1 DEF Settled, Last, Watched
      <4> QED BY <1>1, <4>1
    <3>3. ~Due
      BY <3>1, <3>2 DEF Due
    <3>4. held.version = Last /\ held.version \in Version /\ ConfigsOK
      BY <3>1, <3>3, TurnIsLast DEF TurnOK
    <3>5. \A n \in 1 .. Len(Last.configs) : n < i
      BY <2>1, <3>4, ConfigsOf DEF ConfigsOK
    <3> QED BY <3>4, <3>5 DEF ConfigsOK
  <2>2. CASE AtConfig /\ UNCHANGED pc
    BY <1>1, <2>2 DEF AtConfig
  <2> QED BY <1>6, <2>1, <2>2 DEF Skip
<1>7. CASE RemoveFinalizer
  <2>1. CASE log' = Append(log, Absent)
    <3>1. Appends(Absent) /\ UNCHANGED at
      BY <1>7, <2>1 DEF RemoveFinalizer, Appends, Written
    <3> QED BY <1>1, <3>1, AppendIsDue
  <2> QED BY <1>4, <1>7, <2>1 DEF RemoveFinalizer, Fails
<1>8. CASE MakeTracker
  <2>1. CASE UNCHANGED loopVars
    BY <1>1, <1>8, <2>1 DEF MakeTracker, AtConfig, loopVars
  <2> QED BY <1>4, <1>8, <2>1 DEF MakeTracker
<1>9. CASE Crash
  <2>1. UNCHANGED log /\ queued' = (Last # Absent)
    BY <1>9 DEF Crash, objectVars
  <2>2. Last' # Absent => Due'
    BY <2>1 DEF Last, Due
  <2> QED BY <2>2 DEF Settled
<1> QED
  BY <1>1, <1>2, <1>3, <1>4, <1>5, <1>6, <1>7, <1>8, <1>9
  DEF Next, vars, Reconcile, AddFinalizer, Process, Fails, Clean, MakeCounter, Synced,
      Counters, DelayLoops
-----------------------------------------------------------------------------
(* The object that is let go.                                              *)

\* Its keys stay clean while no config is looked at.
MapsShrink ==
    \A k \in Keys : /\ reconcilers[k] = Absent => reconcilers'[k] = Absent
                    /\ delayTrackers[k] = 0 => delayTrackers'[k] = 0

\* An object that is gone stays so.
LEMMA GoneStays ==
    ASSUME GoneOK, UNCHANGED log, ~forced' => ~forced, at' >= at, at \in Nat, at' \in Nat,
           Len(log) \in Nat,
           pc \in {"idle", "clean", "release"} => pc' \in {"idle", "clean", "release"} /\ MapsShrink
    PROVE  GoneOK'
<1> SUFFICES ASSUME ~forced, Last = Absent, Len(log) > 1, log[Len(log) - 1].ours
             PROVE  /\ at' >= Len(log) - 1 /\ log[Len(log) - 1] \in Version
                    /\ log[Len(log) - 1].deleting /\ pc' \in {"idle", "clean", "release"}
                    /\ Clear(KeysOf(log[Len(log) - 1].configs))'
  BY DEF GoneOK, Last, Clear
<1>1. /\ at >= Len(log) - 1 /\ log[Len(log) - 1] \in Version /\ log[Len(log) - 1].deleting
      /\ pc \in {"idle", "clean", "release"} /\ Clear(KeysOf(log[Len(log) - 1].configs))
  BY DEF GoneOK
<1>2. KeysOf(log[Len(log) - 1].configs) \subseteq Keys
  BY <1>1, ConfigsOf
<1>3. Clear(KeysOf(log[Len(log) - 1].configs))'
  BY <1>1, <1>2 DEF Clear, MapsShrink
<1> QED BY <1>1, <1>3

\* Users take away only what has no finalizer, or take the finalizer away.
LEMMA UsersGone ==
    ASSUME LogOK, NEW v, Appends(v), v = Absent /\ ~forced' => ~Last.ours
    PROVE  GoneOK'
<1>1. Len(log) \in Nat \ {0} /\ Len(log') = Len(log) + 1 /\ Last' = v
      /\ log'[Len(log') - 1] = Last
  BY AppendGrows DEF LogGrows, Last
<1> QED BY <1>1 DEF GoneOK

\* Every step keeps that what is gone is clean, or being cleaned.
LEMMA StepGone == ASSUME SInv, [Next]_vars PROVE GoneOK'
<1> USE DEF SInv
<1>0. /\ at \in Nat /\ Len(log) \in Nat \ {0} /\ at \in 1 .. Len(log) /\ LogOK' /\ LogGrows
  BY StepLog, StepGrows, LenProperties DEF LogOK, LogGrows
<1>1. CASE UNCHANGED <<objectVars, at, pc, mapVars>>
  BY <1>0, <1>1, GoneStays DEF objectVars, mapVars, MapsShrink
<1>2. CASE Users
  BY <1>2, UsersAppend, UsersGone
<1>3. CASE Deliver
  BY <1>0, <1>3, GoneStays DEF Deliver, objectVars, loopVars, mapVars, MapsShrink
<1>4. CASE Get
  <2>1. UNCHANGED <<log, at, forced, reconcilers, delayTrackers>> /\ pc = "idle"
    BY <1>4 DEF Get, objectVars, mapVars
  <2>2. ASSUME pc' \notin {"idle", "clean"}, ~forced, Last = Absent, Len(log) > 1,
               log[Len(log) - 1].ours
        PROVE  FALSE
    <3>1. log[Len(log) - 1].deleting /\ at >= Len(log) - 1
      BY <2>2 DEF GoneOK
    <3>2. at = Len(log) \/ at = Len(log) - 1
      BY <1>0, <3>1
    <3>3. CASE at = Len(log)
      BY <1>4, <2>2, <3>3 DEF Get, Done, Last
    <3>4. CASE at = Len(log) - 1
      BY <1>4, <2>2, <3>1, <3>4 DEF Get, Done, Process
    <3> QED BY <3>2, <3>3, <3>4
  <2>3. CASE pc' \in {"idle", "clean"}
    BY <1>0, <2>1, <2>3, GoneStays DEF MapsShrink
  <2>4. CASE pc' \notin {"idle", "clean"}
    BY <2>1, <2>2, <2>4 DEF GoneOK, Last
  <2> QED BY <2>3, <2>4
<1>5. CASE AddFinalizer
  <2>1. CASE UNCHANGED log
    BY <1>0, <1>5, <2>1, GoneStays DEF AddFinalizer
  <2>2. ASSUME NEW v, v # Absent, Appends(v) PROVE GoneOK'
    BY <2>2, UsersGone
  <2>3. DEFINE v == [held.version EXCEPT !.ours = TRUE]
  <2>4. v # Absent /\ Written(v) /\ (UNCHANGED log \/ log' = Append(log, v))
    BY <1>5, FinalizeAppends DEF AddFinalizer, Fails
  <2> HIDE DEF v
  <2> QED BY <2>1, <2>2, <2>4 DEF Appends
<1>6. CASE Clean
  <2>1. /\ UNCHANGED <<log, at, forced>> /\ pc' = "release"
        /\ \E K : /\ delayTrackers' = [k \in Keys |-> IF k \in K THEN 0 ELSE delayTrackers[k]]
                  /\ reconcilers' = [k \in Keys |-> IF k \in K THEN Absent ELSE reconcilers[k]]
    BY <1>6 DEF Clean, objectVars, queueVars
  <2>2. MapsShrink
    BY <2>1 DEF MapsShrink
  <2> QED BY <1>0, <2>1, <2>2, GoneStays
<1>7. CASE RemoveFinalizer
  <2>1. pc' = "idle" /\ pc = "release" /\ UNCHANGED <<forced, at, reconcilers, delayTrackers>>
    BY <1>7 DEF RemoveFinalizer, Fails, Again, Done, mapVars
  <2>2. CASE UNCHANGED log
    BY <1>0, <2>1, <2>2, GoneStays DEF MapsShrink
  <2>3. CASE Current /\ log' = Append(log, Absent)
    <3>1. Appends(Absent)
      BY <2>3 DEF Appends, Written
    <3>2. Len(log') = Len(log) + 1 /\ log'[Len(log') - 1] = log[Len(log)]
      BY <1>0, <3>1, AppendGrows DEF LogGrows
    <3>3. /\ held.version = log[Len(log)] /\ held.version \in Version /\ held.rv = Len(log)
          /\ held.version.deleting /\ held.rv <= at /\ Clear(KeysOf(held.version.configs))
      BY <2>1, <2>3 DEF Current, TurnOK, HeldOK, CleanOK
    <3>4. \A k \in KeysOf(log'[Len(log') - 1].configs) :
             reconcilers'[k] = Absent /\ delayTrackers'[k] = 0
      BY <2>1, <3>2, <3>3 DEF Clear
    <3>5. /\ at' >= Len(log') - 1 /\ log'[Len(log') - 1] \in Version
          /\ log'[Len(log') - 1].deleting
      BY <1>0, <2>1, <3>2, <3>3
    <3> QED BY <2>1, <3>4, <3>5 DEF GoneOK, Clear
  <2> QED BY <1>7, <2>2, <2>3 DEF RemoveFinalizer, Fails
<1>8. CASE pc \in {"config", "sync"} /\ UNCHANGED <<objectVars, at>>
  BY <1>0, <1>8, GoneStays DEF objectVars
<1>9. CASE Crash
  <2>1. /\ UNCHANGED <<log, forced>> /\ at' = Len(log) /\ pc' = "idle"
        /\ delayTrackers' = [k \in Keys |-> 0] /\ reconcilers' = [k \in Keys |-> Absent]
    BY <1>9 DEF Crash, Done, objectVars
  <2>2. MapsShrink
    BY <2>1 DEF MapsShrink
  <2> QED BY <1>0, <2>1, <2>2, GoneStays
<1> QED
  BY <1>1, <1>2, <1>3, <1>4, <1>5, <1>6, <1>7, <1>8, <1>9
  DEF Next, vars, queueVars, loopVars, RetryDue, Reconcile, MakeTracker, AtConfig, MakeCounter,
      Synced, Skip, Local, Counters, DelayLoops
-----------------------------------------------------------------------------
(* What the controller promises.                                           *)

\* The two inductive invariants hold in every state.
THEOREM Invariance == Spec => [](IInv /\ SInv)
<1>1. IInv /\ SInv /\ [Next]_vars => (IInv /\ SInv)'
  <2> SUFFICES ASSUME IInv, SInv, [Next]_vars PROVE (IInv /\ SInv)'
    OBVIOUS
  <2>1. LogOK' /\ TrackersOK' /\ CountersOK'
    BY StepLog, StepTrackers, StepCounters DEF SInv
  <2> QED BY <2>1, StepKeeps, StepTurn, StepSettled, StepGone DEF SInv
<1> QED BY <1>1, InitInv, InitS, PTL DEF Spec

\* They give every variable its type.
LEMMA InvTyped == ASSUME IInv, SInv PROVE TypeOK
<1> USE DEF SInv
<1>1. DelayTypeOK
  <2>1. /\ clock \in 0 .. MaxPatches /\ MaxPatches \in Nat /\ versions \in Seq(0 .. clock)
        /\ unconfirmed \in [Trackers -> SUBSET (1 .. clock)]
    BY WatchAssumption DEF IInv, BehindClock, WatchAssumption
  <2>2. versions \in Seq(0 .. MaxPatches)
    <3>1. \A m \in 1 .. Len(versions) : versions[m] \in 0 .. MaxPatches
      BY <2>1, ElementOfSeq
    <3>2. versions \in [1 .. Len(versions) -> 0 .. MaxPatches] /\ Len(versions) \in Nat
      BY <2>1, <3>1, LenProperties
    <3> QED BY <3>2, SeqDef
  <2>3. unconfirmed \in [Trackers -> SUBSET Timestamps]
    BY <2>1 DEF Timestamps
  <2> QED BY <2>1, <2>2, <2>3 DEF DelayTypeOK, IInv, BehindClock, TrackersOK
<1>2. held # Absent => held.version \in Version
  BY DEF TurnOK, HeldOK
<1>3. \A k \in Keys : delayTrackers[k] # 0 => patching[delayTrackers[k]] # "new"
  BY DEF TrackersOK
<1> QED BY <1>1, <1>2, <1>3 DEF TypeOK, LogOK, TurnOK, TrackersOK, CountersOK

\* Every variable keeps its type: the maps of the SLO controller and of the trackers
\* hold their own objects, the events their states, Reconcile its version.
THEOREM TypeCorrect == Spec => []TypeOK
  BY Invariance, InvTyped, PTL

\* When the SLO controller (controllers/slo/watchslo_controller.go) has come to rest,
\* every config of the last version has a counter and every target a tracker that runs:
\* however versions were seen late, calls failed and the process restarted.
THEOREM RestStaysWatched == Spec => []RestIsWatched
<1>1. ASSUME SInv, Rest, Last # Absent
      PROVE  /\ ~Last.deleting
             /\ \A n \in DOMAIN Last.configs :
                   LET c == Last.configs[n]
                   IN  /\ reconcilers[Key[c]] # Absent
                       /\ c \in Targets => /\ delayTrackers[Key[c]] \in Trackers \ stopCh
                                           /\ patching[delayTrackers[Key[c]]] # "end"
                                           /\ watching[delayTrackers[Key[c]]] # "end"
  <2>1. Last \in Version /\ ~Last.deleting
        /\ \A n \in 1 .. Len(Last.configs) : Watched(Last.configs[n])
    BY <1>1, LastWritten DEF SInv, Settled, Due, Rest
  <2>2. ASSUME NEW c \in Configs, Watched(c), c \in Targets
        PROVE  /\ delayTrackers[Key[c]] \in Trackers \ stopCh
               /\ patching[delayTrackers[Key[c]]] # "end"
               /\ watching[delayTrackers[Key[c]]] # "end"
    BY <1>1, <2>2, Constants DEF Watched, SInv, TrackersOK
  <2>3. \A n \in DOMAIN Last.configs : Last.configs[n] \in Configs /\ n \in 1 .. Len(Last.configs)
    BY <2>1, ConfigsOf
  <2> QED BY <2>1, <2>2, <2>3 DEF Watched
<1>2. SInv => RestIsWatched
  BY <1>1 DEF RestIsWatched
<1> QED BY <1>2, Invariance, PTL

\* When an object is gone that Reconcile let go, no counter and no tracker of its last
\* configs is left, and no tracker makes patches that the map does not have.
THEOREM GoneStaysClean == Spec => []GoneIsClean
<1>1. ASSUME SInv, Rest, Last = Absent, ~forced
      PROVE  /\ Len(log) > 1 /\ log[Len(log) - 1].ours =>
                   \A k \in KeysOf(log[Len(log) - 1].configs) :
                      reconcilers[k] = Absent /\ delayTrackers[k] = 0
             /\ \A t \in Trackers \ stopCh :
                   patching[t] \in {"wait", "patch"} => \E k \in Keys : delayTrackers[k] = t
             /\ \A e \in DOMAIN event : event[e] \in Keys => reconcilers[event[e]] # Absent
  <2>1. pc = "idle" /\ DOMAIN event = 1 .. MaxEvents
    BY <1>1 DEF Rest, SInv, CountersOK
  <2>2. \A e \in 1 .. MaxEvents : event[e] \in Keys => reconcilers[event[e]] # Absent
    BY <1>1, <2>1 DEF SInv, CountersOK
  <2>3. Len(log) > 1 /\ log[Len(log) - 1].ours => Clear(KeysOf(log[Len(log) - 1].configs))
    BY <1>1 DEF SInv, GoneOK
  <2> QED BY <1>1, <2>1, <2>2, <2>3 DEF SInv, TrackersOK, Clear
<1>2. SInv => GoneIsClean
  BY <1>1 DEF GoneIsClean
<1> QED BY <1>2, Invariance, PTL
=============================================================================
