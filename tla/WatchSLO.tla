------------------------------- MODULE WatchSLO -------------------------------
(***************************************************************************)
(* The controller of a WatchSLO object                                     *)
(* (controllers/slo/watchslo_controller.go) with the event counters        *)
(* (reconciler.go) and delay trackers (WatchDelay) it starts for the       *)
(* configs of the object.  The maps of both are keyed by a part of a       *)
(* config, its apiVersion, kind and namespace: two configs that differ in  *)
(* the rest share an entry, and an entry outlives an edit.                 *)
(*                                                                         *)
(* The API server, the cache and the workqueue are external: the object is *)
(* the log of its versions, of which the cache has delivered a prefix; an  *)
(* update of a copy that is not the last version is refused.  Keys have    *)
(* the name of the object in them, so that objects do not meet; one is     *)
(* enough.                                                                 *)
(***************************************************************************)
EXTENDS FiniteSets, Functions, WatchDelay

CONSTANTS
    Keys,
    Configs, Key,  \* configs, and the key of each
    Targets,       \* those with a target resource
    Specs,         \* the sequences of configs users write
    Absent,
    MaxLog,        \* bound: users change the object up to this version
    MaxTroubles,   \* bound: calls that fail for no reason of their own, and crashes
    MaxEvents      \* bound: events that reach the counters

Version == [configs : Specs, deleting : BOOLEAN, ours : BOOLEAN]

ASSUME WatchAssumption ==
    /\ Key \in [Configs -> Keys] /\ Targets \subseteq Configs
    /\ Specs \subseteq Seq(Configs)
    /\ Absent \notin Configs \cup Version \cup [version : Version, rv : Nat]
    /\ Keys \cap {"new", "draining", "counted", "missed"} = {}
    /\ IsFiniteSet(Trackers) /\ Trackers \subseteq Nat \ {0}
    /\ {MaxLog, MaxTroubles, MaxEvents, MaxPatches, MaxVersions} \subseteq Nat

VARIABLES
    log, at,       \* the versions of the object, and how many of them the cache has seen
    queued, retry, \* a request is queued; waits to be queued again
    pc,            \* where Reconcile is
    held, i,       \* the version it holds, and the config it has come to
    delayTrackers, \* delayTrackerMap: key -> tracker, or 0
    reconcilers,   \* sloReconcilerMap: key -> config of the counter, or Absent
    workers,       \* the keys of the counters whose workers run
    event,         \* what has become of each event; a key while it is in a queue
    forced,        \* history: somebody else removed the finalizer
    troubles

objectVars == <<log, forced>>
queueVars == <<at, queued, retry>>
loopVars == <<pc, held, i>>
mapVars == <<delayTrackers, reconcilers>>
counterVars == <<workers, event>>
vars == <<objectVars, queueVars, loopVars, mapVars, counterVars, delayVars, troubles>>

Last == log[Len(log)]
KeysOf(spec) == {Key[spec[n]] : n \in DOMAIN spec}

Init ==
    /\ log = <<Absent>> /\ at = 1 /\ queued = FALSE /\ retry = FALSE
    /\ pc = "idle" /\ held = Absent /\ i = 0 /\ troubles = 0 /\ forced = FALSE
    /\ delayTrackers = [k \in Keys |-> 0] /\ reconcilers = [k \in Keys |-> Absent]
    /\ workers = {} /\ event = [e \in 1 .. MaxEvents |-> "new"]
    /\ DelayInit
-----------------------------------------------------------------------------
(* The users, the cache and the queue.                                     *)

UserWrite(v) ==
    /\ Len(log) < MaxLog /\ log' = Append(log, v)
    /\ UNCHANGED <<queueVars, loopVars, mapVars, counterVars, delayVars, troubles>>

Create(s) ==
    /\ Last = Absent /\ UserWrite([configs |-> s, deleting |-> FALSE, ours |-> FALSE])
    /\ UNCHANGED forced

Edit(s) == Last # Absent /\ UserWrite([Last EXCEPT !.configs = s]) /\ UNCHANGED forced

\* An object that is being deleted goes with its finalizer.
Delete ==
    /\ Last # Absent /\ ~Last.deleting
    /\ UserWrite(IF Last.ours THEN [Last EXCEPT !.deleting = TRUE] ELSE Absent)
    /\ UNCHANGED forced

ForceFinalizer ==
    /\ Last # Absent /\ Last.ours /\ forced' = TRUE
    /\ UserWrite(IF Last.deleting THEN Absent ELSE [Last EXCEPT !.ours = FALSE])

Users == (\E s \in Specs : Create(s) \/ Edit(s)) \/ Delete \/ ForceFinalizer

Deliver ==
    /\ at < Len(log) /\ at' = at + 1 /\ queued' = TRUE
    /\ UNCHANGED <<objectVars, retry, loopVars, mapVars, counterVars, delayVars, troubles>>

RetryDue ==
    /\ retry /\ retry' = FALSE /\ queued' = TRUE
    /\ UNCHANGED <<objectVars, at, loopVars, mapVars, counterVars, delayVars, troubles>>
-----------------------------------------------------------------------------
(* Reconcile.                                                              *)

\* Seeded fault: Reconcile returns with the version it held.
DoneKeepsVersion == pc' = "idle" /\ i' = 0 /\ UNCHANGED held

Done == pc' = "idle" /\ held' = Absent /\ i' = 0
Trouble == troubles < MaxTroubles /\ troubles' = troubles + 1

\* An error, or a conflict in ten seconds, brings another turn.
Again == Done /\ retry' = TRUE

\* What Reconcile does next with version v, at position r of the log, that has our finalizer.
Process(v, r) ==
    /\ held' = [version |-> v, rv |-> r] /\ i' = 1
    /\ pc' = IF v.deleting THEN "clean" ELSE "config"

\* The rest of the state stays as it is while Reconcile is in its own code.
Local == UNCHANGED <<objectVars, at, queued, mapVars, counterVars, delayVars, troubles>>

Get ==
    /\ pc = "idle" /\ queued /\ queued' = FALSE
    /\ LET v == log[at]
       IN  IF v = Absent THEN Done
           ELSE IF v.ours THEN Process(v, at)
           ELSE pc' = "finalize" /\ held' = [version |-> v, rv |-> at] /\ i' = 0
    /\ UNCHANGED <<objectVars, at, retry, mapVars, counterVars, delayVars, troubles>>

Current == held.rv = Len(log)

\* A call of the API server that writes version v and does not succeed: it is refused, or
\* its answer is lost and it may have taken effect.
Fails(v) ==
    /\ \/ ~Current /\ UNCHANGED <<log, troubles>>
       \/ Trouble /\ (UNCHANGED log \/ (Current /\ log' = Append(log, v)))
    /\ Again

AddFinalizer ==
    /\ pc = "finalize"
    /\ LET v == [held.version EXCEPT !.ours = TRUE]
       IN  \/ /\ Current /\ log' = Append(log, v) /\ Process(v, Len(log'))
              /\ UNCHANGED <<retry, troubles>>
           \/ Fails(v)
    /\ UNCHANGED <<forced, at, queued, mapVars, counterVars, delayVars>>

\* Stop of a counter: its workers finish the queue; without workers nobody will.
Drained(K) ==
    [e \in DOMAIN event |-> IF event[e] \notin K THEN event[e]
                            ELSE IF event[e] \in workers THEN "draining" ELSE "missed"]

\* Seeded fault: the delay tracker of a key without a counter is left alone.
CleanCountersFirst ==
    /\ pc = "clean" /\ pc' = "release"
    /\ LET K == {k \in KeysOf(held.version.configs) : reconcilers[k] # Absent}
       IN  /\ StopTrackers({delayTrackers[k] : k \in K} \ {0})
           /\ delayTrackers' = [k \in Keys |-> IF k \in K THEN 0 ELSE delayTrackers[k]]
           /\ reconcilers' = [k \in Keys |-> IF k \in K THEN Absent ELSE reconcilers[k]]
           /\ workers' = workers \ K /\ event' = Drained(K)
    /\ UNCHANGED <<objectVars, queueVars, held, i, troubles>>

\* The counters and delay trackers of the configs that the object has now.
Clean ==
    /\ pc = "clean" /\ pc' = "release"
    /\ LET K == KeysOf(held.version.configs)
       IN  /\ StopTrackers({delayTrackers[k] : k \in K} \ {0})
           /\ delayTrackers' = [k \in Keys |-> IF k \in K THEN 0 ELSE delayTrackers[k]]
           /\ reconcilers' = [k \in Keys |-> IF k \in K THEN Absent ELSE reconcilers[k]]
           /\ workers' = workers \ K /\ event' = Drained(K)
    /\ UNCHANGED <<objectVars, queueVars, held, i, troubles>>

RemoveFinalizer ==
    /\ pc = "release"
    /\ \/ Current /\ log' = Append(log, Absent) /\ Done /\ UNCHANGED <<retry, troubles>>
       \/ Fails(Absent)
    /\ UNCHANGED <<forced, at, queued, mapVars, counterVars, delayVars>>

AtConfig == pc = "config" /\ i <= Len(held.version.configs)
Config == held.version.configs[i]
Fresh == {t \in Trackers : patching[t] = "new"}

NeedsTracker == Config \in Targets /\ delayTrackers[Key[Config]] = 0

\* newWatchDelayTracker and Start; the tracker is in the map before the counter is made.
MakeTracker ==
    /\ AtConfig /\ NeedsTracker
    /\ \/ /\ \E t \in Fresh :
                /\ \A u \in Fresh : t <= u
                /\ StartTracker(t) /\ delayTrackers' = [delayTrackers EXCEPT ![Key[Config]] = t]
          /\ UNCHANGED <<loopVars, retry, troubles>>
       \/ Trouble /\ Again /\ UNCHANGED <<delayVars, delayTrackers>>
    /\ UNCHANGED <<objectVars, at, queued, reconcilers, counterVars>>

\* NewReconciler: the informer runs while it is waited for.
MakeCounter ==
    /\ AtConfig /\ ~NeedsTracker /\ reconcilers[Key[Config]] = Absent
    /\ \/ pc' = "sync" /\ UNCHANGED <<held, i, retry, troubles>>
       \/ Trouble /\ Again
    /\ UNCHANGED <<objectVars, at, queued, mapVars, counterVars, delayVars>>

\* WaitForCacheSync returns, if it does: not when the API server refuses the list.
Synced ==
    /\ pc = "sync"
    /\ reconcilers' = [reconcilers EXCEPT ![Key[Config]] = Config]
    /\ pc' = "config" /\ i' = i + 1
    /\ UNCHANGED <<objectVars, queueVars, held, delayTrackers, counterVars, delayVars, troubles>>

\* Seeded fault: a config whose key has a counter ends the loop.
SkipEndsLoop ==
    /\ pc = "config"
    /\ \/ AtConfig /\ ~NeedsTracker /\ reconcilers[Key[Config]] # Absent /\ Done
       \/ i > Len(held.version.configs) /\ Done
    /\ UNCHANGED retry /\ Local

\* A config whose key has a counter already, whatever config that was made for; or the end.
Skip ==
    /\ pc = "config"
    /\ \/ /\ AtConfig /\ ~NeedsTracker /\ reconcilers[Key[Config]] # Absent
          /\ i' = i + 1 /\ UNCHANGED <<pc, held>>
       \/ i > Len(held.version.configs) /\ Done
    /\ UNCHANGED retry /\ Local

Reconcile ==
    \/ Get \/ AddFinalizer \/ Clean \/ RemoveFinalizer
    \/ MakeTracker \/ MakeCounter \/ Synced \/ Skip
-----------------------------------------------------------------------------
(* The counters.  Events never compare equal, so that none is merged with  *)
(* another in the queue, and the handler never fails.                      *)

\* The informer of a counter hands over an event, maybe before there are workers.
Enqueue(k) ==
    /\ reconcilers[k] # Absent \/ (pc = "sync" /\ Key[Config] = k)
    /\ \E e \in DOMAIN event : event[e] = "new" /\ event' = [event EXCEPT ![e] = k]
    /\ UNCHANGED workers

\* Start, in a goroutine of its own.
StartWorkers(k) ==
    /\ reconcilers[k] # Absent /\ k \notin workers /\ workers' = workers \cup {k}
    /\ UNCHANGED event

\* A worker takes the event from the queue, which may be shut down, and counts it.
ProcessNext(e) ==
    /\ event[e] \in workers \cup {"draining"} /\ event' = [event EXCEPT ![e] = "counted"]
    /\ UNCHANGED workers

Counters ==
    /\ (\E k \in Keys : Enqueue(k) \/ StartWorkers(k)) \/ \E e \in DOMAIN event : ProcessNext(e)
    /\ UNCHANGED <<objectVars, queueVars, loopVars, mapVars, delayVars, troubles>>

DelayLoops ==
    Loops /\ UNCHANGED <<objectVars, queueVars, loopVars, mapVars, counterVars, troubles>>

\* The process ends and starts again.  Its own code ends it when the two loops of a tracker
\* meet in the set of timestamps, or a deletion was missed by a watch (enqueue's assertion).
Crash ==
    /\ Trouble /\ TrackersGone
    /\ at' = Len(log) /\ queued' = (Last # Absent) /\ retry' = FALSE /\ Done
    /\ delayTrackers' = [k \in Keys |-> 0] /\ reconcilers' = [k \in Keys |-> Absent]
    /\ workers' = {}
    /\ event' = [e \in DOMAIN event |-> IF event[e] = "new" THEN "new" ELSE "missed"]
    /\ UNCHANGED objectVars

Next == Users \/ Deliver \/ RetryDue \/ Reconcile \/ Counters \/ DelayLoops \/ Crash

Spec == Init /\ [][Next]_vars
-----------------------------------------------------------------------------
(* Properties                                                              *)

\* Every variable holds a value of its kind; a key has a tracker that was started, and
\* Reconcile holds a version but when it is idle.
TypeOK ==
    /\ log \in Seq(Version \cup {Absent}) /\ at \in 1 .. Len(log)
    /\ pc \in {"idle", "finalize", "config", "sync", "clean", "release"}
    /\ (pc = "idle") = (held = Absent) /\ (held # Absent => held.version \in Version)
    /\ delayTrackers \in [Keys -> Trackers \cup {0}]
    /\ \A k \in Keys : delayTrackers[k] # 0 => patching[delayTrackers[k]] # "new"
    /\ reconcilers \in [Keys -> Configs \cup {Absent}]
    /\ workers \subseteq {k \in Keys : reconcilers[k] # Absent}
    /\ event \in [1 .. MaxEvents -> Keys \cup {"new", "draining", "counted", "missed"}]
    /\ DelayTypeOK

Rest == pc = "idle" /\ ~queued /\ ~retry /\ at = Len(log)

\* When the controller has come to rest, an object that is there is not being deleted, and
\* every config of it is counted, if by a counter made for another config of its key, and
\* every target has a tracker that runs.
RestIsWatched ==
    Rest /\ Last # Absent =>
        /\ ~Last.deleting
        /\ \A n \in DOMAIN Last.configs :
              LET c == Last.configs[n]
              IN  /\ reconcilers[Key[c]] # Absent
                  /\ c \in Targets => /\ delayTrackers[Key[c]] \in Trackers \ stopCh
                                      /\ patching[delayTrackers[Key[c]]] # "end"
                                      /\ watching[delayTrackers[Key[c]]] # "end"

\* When an object is gone that the controller let go, no counter and no tracker of its last
\* configs is left, no patches are made by a tracker that the map does not have, and no
\* event waits for a counter that is gone.  Those of configs that were edited away before
\* are left for good.
GoneIsClean ==
    Rest /\ Last = Absent /\ ~forced =>
        /\ Len(log) > 1 /\ log[Len(log) - 1].ours =>
              \A k \in KeysOf(log[Len(log) - 1].configs) :
                 reconcilers[k] = Absent /\ delayTrackers[k] = 0
        /\ \A t \in Trackers \ stopCh :
              patching[t] \in {"wait", "patch"} => \E k \in Keys : delayTrackers[k] = t
        /\ \A e \in DOMAIN event : event[e] \in Keys => reconcilers[event[e]] # Absent
=============================================================================
