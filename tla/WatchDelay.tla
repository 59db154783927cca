------------------------------ MODULE WatchDelay ------------------------------
(***************************************************************************)
(* The watch delay trackers of a process                                   *)
(* (controllers/slo/watch_delay_tracker.go).  A tracker has two loops that *)
(* share a set of timestamps without a lock: one puts the time into the    *)
(* set and patches it into a label of the target object, every ten         *)
(* seconds; the other watches the objects of the kind, and when it         *)
(* sees a timestamp that is in the set takes it out and observes the       *)
(* delay.                                                                  *)
(*                                                                         *)
(* Trackers are started and stopped by WatchSLO.  They all have one target *)
(* object here, as the trackers of one WatchSLO have that come after each  *)
(* other: the versions of the object are the timestamps in its label.      *)
(***************************************************************************)
EXTENDS Naturals, Sequences

CONSTANTS
    Trackers,      \* trackers made, 1 .. n
    MaxPatches,    \* bound: timestamps
    MaxVersions    \* bound: versions of the target object

VARIABLES
    versions,      \* timestamp in the label of each version, 0 for none
    clock,         \* the last timestamp
    patching,      \* tracker -> where its first loop is
    watching,      \* tracker -> where its second loop is
    stopCh,        \* the trackers whose stopCh is closed
    unconfirmed,   \* tracker -> unconfirmedts
    position,      \* tracker -> versions it has seen
    observed       \* history: timestamp -> how often its delay was observed

delayVars == <<versions, clock, patching, watching, stopCh, unconfirmed, position, observed>>
Timestamps == 1 .. MaxPatches

DelayInit ==
    /\ versions = <<>> /\ clock = 0 /\ stopCh = {}
    /\ patching = [t \in Trackers |-> "new"] /\ watching = patching
    /\ unconfirmed = [t \in Trackers |-> {}] /\ position = [t \in Trackers |-> 0]
    /\ observed = [s \in Timestamps |-> 0]

\* newWatchDelayTracker creates the target object, or finds that it exists.
Made == IF versions = <<>> THEN <<0>> ELSE versions

StartTracker(t) ==
    /\ versions' = Made
    /\ patching' = [patching EXCEPT ![t] = "wait"]
    /\ watching' = [watching EXCEPT ![t] = "list"]
    /\ UNCHANGED <<clock, stopCh, unconfirmed, position, observed>>

StopTrackers(S) ==
    /\ stopCh' = stopCh \cup S
    /\ UNCHANGED <<versions, clock, patching, watching, unconfirmed, position, observed>>

\* The process ends; the object stays.
TrackersGone ==
    /\ patching' = [t \in Trackers |-> IF patching[t] = "new" THEN "new" ELSE "end"]
    /\ watching' = [t \in Trackers |-> IF watching[t] = "new" THEN "new" ELSE "end"]
    /\ unconfirmed' = [t \in Trackers |-> {}] /\ position' = [t \in Trackers |-> 0]
    /\ stopCh' = {} /\ UNCHANGED <<versions, clock, observed>>

\* Somebody else changes the object.
Touch ==
    /\ versions # <<>> /\ Len(versions) < MaxVersions
    /\ versions' = Append(versions, versions[Len(versions)])
    /\ UNCHANGED <<clock, patching, watching, stopCh, unconfirmed, position, observed>>
-----------------------------------------------------------------------------
(* The first loop.                                                         *)

Tick(t) ==
    /\ patching[t] = "wait" /\ t \notin stopCh /\ clock < MaxPatches
    /\ clock' = clock + 1
    /\ unconfirmed' = [unconfirmed EXCEPT ![t] = @ \cup {clock'}]
    /\ patching' = [patching EXCEPT ![t] = "patch"]
    /\ UNCHANGED <<versions, watching, stopCh, position, observed>>

\* The patch takes effect, whether it is answered or not, or does not; a timestamp whose
\* patch failed stays in the set.
Patch(t) ==
    /\ patching[t] = "patch" /\ patching' = [patching EXCEPT ![t] = "wait"]
    /\ \/ Len(versions) < MaxVersions /\ \E s \in unconfirmed[t] :
             /\ \A r \in unconfirmed[t] : r <= s
             /\ versions' = Append(versions, s)
       \/ UNCHANGED versions
    /\ UNCHANGED <<clock, watching, stopCh, unconfirmed, position, observed>>

PatchLoopEnds(t) ==
    /\ patching[t] = "wait" /\ t \in stopCh
    /\ patching' = [patching EXCEPT ![t] = "end"]
    /\ UNCHANGED <<versions, clock, watching, stopCh, unconfirmed, position, observed>>
-----------------------------------------------------------------------------
(* The second loop.                                                        *)

\* A list that fails is tried again after a while, which changes nothing.
List(t) ==
    /\ watching[t] = "list"
    /\ watching' = [watching EXCEPT ![t] = "watch"]
    /\ position' = [position EXCEPT ![t] = Len(versions)]
    /\ UNCHANGED <<versions, clock, patching, stopCh, unconfirmed, observed>>

\* Seeded fault: a timestamp is not taken out of the set.
EventKeepsTimestamp(t) ==
    /\ watching[t] = "watch" /\ position[t] < Len(versions)
    /\ position' = [position EXCEPT ![t] = @ + 1]
    /\ LET s == versions[position'[t]]
       IN  IF s \in unconfirmed[t] THEN observed' = [observed EXCEPT ![s] = @ + 1]
           ELSE UNCHANGED observed
    /\ UNCHANGED <<versions, clock, patching, watching, stopCh, unconfirmed>>

\* The next event of the target object.  The loop goes on after Stop.
Event(t) ==
    /\ watching[t] = "watch" /\ position[t] < Len(versions)
    /\ position' = [position EXCEPT ![t] = @ + 1]
    /\ LET s == versions[position'[t]]
       IN  /\ unconfirmed' = [unconfirmed EXCEPT ![t] = @ \ {s}]
           /\ IF s \in unconfirmed[t] THEN observed' = [observed EXCEPT ![s] = @ + 1]
              ELSE UNCHANGED observed
    /\ UNCHANGED <<versions, clock, patching, watching, stopCh>>

\* An error event ends the watch: the loop lists again, unless it is stopped.
WatchBreaks(t) ==
    /\ watching[t] = "watch"
    /\ watching' = [watching EXCEPT ![t] = IF t \in stopCh THEN "end" ELSE "list"]
    /\ position' = [position EXCEPT ![t] = 0]
    /\ UNCHANGED <<versions, clock, patching, stopCh, unconfirmed, observed>>

\* Stop is noticed before and after a turn of the loop.
WatchLoopEnds(t) ==
    /\ watching[t] = "list" /\ t \in stopCh
    /\ watching' = [watching EXCEPT ![t] = "end"]
    /\ UNCHANGED <<versions, clock, patching, stopCh, unconfirmed, position, observed>>

Loops ==
    \/ Touch
    \/ \E t \in Trackers :
          \/ Tick(t) \/ Patch(t) \/ PatchLoopEnds(t)
          \/ List(t) \/ Event(t) \/ WatchBreaks(t) \/ WatchLoopEnds(t)
-----------------------------------------------------------------------------
(* Properties                                                              *)

DelayTypeOK ==
    /\ versions \in Seq(0 .. MaxPatches) /\ clock \in 0 .. MaxPatches
    /\ patching \in [Trackers -> {"new", "wait", "patch", "end"}]
    /\ watching \in [Trackers -> {"new", "list", "watch", "end"}]
    /\ stopCh \subseteq Trackers /\ unconfirmed \in [Trackers -> SUBSET Timestamps]
    /\ position \in [Trackers -> 0 .. Len(versions)]
    /\ observed \in [Timestamps -> Nat]

\* The delay of a timestamp is observed once, by one tracker, and only when it is in the
\* label: however often the object changes, the watch breaks, or trackers come after each
\* other.  What is neither in the set of a tracker that runs nor observed was lost when a
\* process ended.
DelayOnce ==
    /\ \A s \in Timestamps : observed[s] <= 1
    /\ \A s \in Timestamps :
          observed[s] = 1 => /\ \E i \in DOMAIN versions : versions[i] = s
                             /\ \A t \in Trackers : s \notin unconfirmed[t]
    /\ \A t, u \in Trackers : t # u => unconfirmed[t] \cap unconfirmed[u] = {}
=============================================================================
