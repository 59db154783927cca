------------------------ MODULE TransitionController ------------------------
(***************************************************************************)
(* The controller of the ResourceStateTransition objects                   *)
(* (controllers/slo/resourcestatetransition_controller.go): it keeps one   *)
(* tracker, a resourceReconciler, for each object, and a finalizer on the  *)
(* object so that none disappears before its tracker is stopped.           *)
(*                                                                         *)
(* The API server, the informer cache and the workqueue are external.  An  *)
(* object is the log of its versions, and its resourceVersion a position   *)
(* in the log; the cache has delivered a prefix of it.  One worker runs    *)
(* Reconcile; it lets others run when it calls the API server and while    *)
(* newResourceReconciler waits for the informer of a new tracker.          *)
(***************************************************************************)
EXTENDS Naturals, Sequences, FiniteSets, Functions

CONSTANTS
    Keys,          \* namespaced names of ResourceStateTransition objects
    Specs,         \* what a user writes into one
    Resolvable,    \* the specs whose apiVersion and kind have a REST mapping
    Listable,      \* those of them whose selectors the API server can list
    OthersHold,    \* whether somebody else puts a finalizer on objects too
    Absent,        \* the version of an object that does not exist
    NoJob,
    MaxVersions,   \* bound: users change an object up to this version
    MaxFailures,   \* bound: failed or unanswered updates
    MaxCrashes,    \* bound: crashes of the process
    MaxLeaks       \* the count of leaked sweepers saturates here

ASSUME ControllerAssumption ==
    /\ Listable \subseteq Resolvable /\ Resolvable \subseteq Specs
    /\ IsFiniteSet(Keys) /\ OthersHold \in BOOLEAN
    /\ {MaxVersions, MaxFailures, MaxCrashes, MaxLeaks} \subseteq Nat
    /\ NoJob \notin [key : Keys, rv : Nat]
    /\ Absent \notin [spec : Specs, deleting : BOOLEAN, ours : BOOLEAN,
                      others : BOOLEAN]

\* ours: our finalizer is on the object; others: somebody else's is.
Version == [spec : Specs, deleting : BOOLEAN, ours : BOOLEAN, others : BOOLEAN]

VARIABLES
    log,         \* key -> the versions of the object, oldest first
    at,          \* key -> the position the informer cache has reached
    queue,       \* the workqueue, without duplicates
    retry,       \* keys that wait for a retry
    pc, job,     \* where Reconcile is, and the key and resourceVersion it holds
    mapped,      \* reconcilerMap: key -> resourceVersion of the tracker, or 0
    informers,   \* <<key, resourceVersion>> of the trackers not stopped
    populated,   \* those whose ResourceStates exist and are counted
    leaks,       \* sweepers of trackers whose constructor failed
    failures, crashes,
    forced       \* history: keys whose finalizer somebody else removed

serverVars == <<log, forced>>
trackerVars == <<mapped, informers, populated, leaks>>
vars == <<serverVars, at, queue, retry, pc, job, trackerVars, failures, crashes>>

Last(k) == log[k][Len(log[k])]
Cached(k) == log[k][at[k]]
Enqueued(k) == IF k \in Range(queue) THEN queue ELSE Append(queue, k)
-----------------------------------------------------------------------------
Init ==
    /\ log = [k \in Keys |-> <<Absent>>] /\ at = [k \in Keys |-> 1]
    /\ queue = <<>> /\ retry = {} /\ pc = "idle" /\ job = NoJob
    /\ mapped = [k \in Keys |-> 0] /\ informers = {} /\ populated = {}
    /\ leaks = 0 /\ failures = 0 /\ crashes = 0 /\ forced = {}

(* The users and the API server.                                           *)

Write(k, v) ==
    /\ log' = [log EXCEPT ![k] = Append(@, v)]
    /\ UNCHANGED <<at, queue, retry, pc, job, trackerVars, failures, crashes>>

\* An object that is being deleted goes with its last finalizer.
Settle(v) == IF v.deleting /\ ~v.ours /\ ~v.others THEN Absent ELSE v

UserWrite(k, v) == Len(log[k]) < MaxVersions /\ Write(k, v)

Create(k, s, o) ==
    /\ Last(k) = Absent
    /\ UserWrite(k, [spec |-> s, deleting |-> FALSE, ours |-> FALSE, others |-> o])
    /\ UNCHANGED forced

\* Any change of the object: of its spec, or of a label or its status.
Edit(k, s) ==
    /\ Last(k) # Absent
    /\ UserWrite(k, [Last(k) EXCEPT !.spec = s])
    /\ UNCHANGED forced

Delete(k) ==
    /\ Last(k) # Absent /\ ~Last(k).deleting
    /\ UserWrite(k, Settle([Last(k) EXCEPT !.deleting = TRUE]))
    /\ UNCHANGED forced

DropOthers(k) ==
    /\ Last(k) # Absent /\ Last(k).others
    /\ UserWrite(k, Settle([Last(k) EXCEPT !.others = FALSE]))
    /\ UNCHANGED forced

ForceFinalizer(k) ==
    /\ Last(k) # Absent /\ Last(k).ours
    /\ UserWrite(k, Settle([Last(k) EXCEPT !.ours = FALSE]))
    /\ forced' = forced \cup {k}

Users ==
    \E k \in Keys :
        \/ \E s \in Specs : Edit(k, s) \/ \E o \in {FALSE, OthersHold} : Create(k, s, o)
        \/ Delete(k) \/ DropOthers(k) \/ ForceFinalizer(k)

(* The informer cache and the queue.                                       *)

Deliver(k) ==
    /\ at[k] < Len(log[k])
    /\ at' = [at EXCEPT ![k] = @ + 1]
    /\ queue' = Enqueued(k)
    /\ UNCHANGED <<serverVars, retry, pc, job, trackerVars, failures, crashes>>

RetryDue(k) ==
    /\ k \in retry
    /\ retry' = retry \ {k}
    /\ queue' = Enqueued(k)
    /\ UNCHANGED <<serverVars, at, pc, job, trackerVars, failures, crashes>>
-----------------------------------------------------------------------------
(* Reconcile.                                                              *)

\* Seeded faults: Reconcile forgets to reset what it holds; to ask for another turn;
\* to stop the tracker it replaces.
DoneKeepsJob == pc' = "idle" /\ UNCHANGED job
AgainForgotten(k) == pc' = "idle" /\ job' = NoJob /\ UNCHANGED retry
StopMappedSkipped(k) == UNCHANGED informers

Done == pc' = "idle" /\ job' = NoJob

\* Reconcile returned an error, or asked for another turn in ten seconds.
Again(k) == Done /\ retry' = retry \cup {k}

\* Stop closes stopCh and leaves the ResourceStates alone.
StopMapped(k) == informers' = informers \ {<<k, mapped[k]>>}

\* Seeded faults: the finalizer goes before the tracker; a tracker that exists is
\* taken to be up to date.
ProcessReleasesFirst(k, v, r) ==
    \/ /\ v.deleting
       /\ pc' = "release" /\ job' = [key |-> k, rv |-> r]
       /\ UNCHANGED <<retry, trackerVars>>
    \/ /\ ~v.deleting /\ mapped[k] = r
       /\ Done /\ UNCHANGED <<retry, trackerVars>>
    \/ /\ ~v.deleting /\ mapped[k] # r /\ v.spec \notin Resolvable
       /\ Again(k) /\ leaks' = IF leaks < MaxLeaks THEN leaks + 1 ELSE leaks
       /\ UNCHANGED <<mapped, informers, populated>>
    \/ /\ ~v.deleting /\ mapped[k] # r /\ v.spec \in Resolvable
       /\ pc' = "sync" /\ job' = [key |-> k, rv |-> r]
       /\ informers' = informers \cup {<<k, r>>}
       /\ UNCHANGED <<retry, mapped, populated, leaks>>

ProcessOnlyOnce(k, v, r) ==
    \/ /\ v.deleting
       /\ pc' = "release" /\ job' = [key |-> k, rv |-> r]
       /\ StopMapped(k) /\ mapped' = [mapped EXCEPT ![k] = 0]
       /\ UNCHANGED <<retry, populated, leaks>>
    \/ /\ ~v.deleting /\ mapped[k] # 0
       /\ Done /\ UNCHANGED <<retry, trackerVars>>
    \/ /\ ~v.deleting /\ mapped[k] = 0 /\ v.spec \in Resolvable
       /\ pc' = "sync" /\ job' = [key |-> k, rv |-> r]
       /\ informers' = informers \cup {<<k, r>>}
       /\ UNCHANGED <<retry, mapped, populated, leaks>>

\* What Reconcile does with version v, resourceVersion r, that has our finalizer.
Process(k, v, r) ==
    \* deletion: stop the tracker, then remove the finalizer
    \/ /\ v.deleting
       /\ pc' = "release" /\ job' = [key |-> k, rv |-> r]
       /\ StopMapped(k) /\ mapped' = [mapped EXCEPT ![k] = 0]
       /\ UNCHANGED <<retry, populated, leaks>>
    \* the tracker was made from this very version
    \/ /\ ~v.deleting /\ mapped[k] = r
       /\ Done /\ UNCHANGED <<retry, trackerVars>>
    \* newResourceReconciler fails: its sweeper runs already, and for ever
    \/ /\ ~v.deleting /\ mapped[k] # r /\ v.spec \notin Resolvable
       /\ Again(k) /\ leaks' = IF leaks < MaxLeaks THEN leaks + 1 ELSE leaks
       /\ UNCHANGED <<mapped, informers, populated>>
    \* newResourceReconciler starts the informer and waits for it
    \/ /\ ~v.deleting /\ mapped[k] # r /\ v.spec \in Resolvable
       /\ pc' = "sync" /\ job' = [key |-> k, rv |-> r]
       /\ informers' = informers \cup {<<k, r>>}
       /\ UNCHANGED <<retry, mapped, populated, leaks>>

Get ==
    LET k == Head(queue)
        v == Cached(k)
    IN  /\ pc = "idle" /\ queue # <<>>
        /\ queue' = Tail(queue)
        /\ IF v = Absent THEN Done /\ UNCHANGED <<retry, trackerVars>>
           ELSE IF v.ours THEN Process(k, v, at[k])
           ELSE /\ pc' = "finalize" /\ job' = [key |-> k, rv |-> at[k]]
                /\ UNCHANGED <<retry, trackerVars>>
        /\ UNCHANGED <<serverVars, at, failures, crashes>>

\* An update of the version held takes effect only when it is still the last.
Current(k) == job.rv = Len(log[k])

\* The call failed for another reason; it may have taken effect all the same.
Unanswered(k, v) ==
    /\ failures < MaxFailures /\ failures' = failures + 1
    /\ \/ UNCHANGED log
       \/ Current(k) /\ log' = [log EXCEPT ![k] = Append(@, v)]
    /\ Again(k) /\ UNCHANGED trackerVars

\* Seeded fault: a conflict is ignored.
AddFinalizerIgnoresConflict ==
    LET k == job.key
        v == [log[k][job.rv] EXCEPT !.ours = TRUE]
    IN  /\ pc = "finalize"
        /\ IF Current(k)
           THEN log' = [log EXCEPT ![k] = Append(@, v)] /\ Process(k, v, job.rv + 1)
           ELSE UNCHANGED log /\ Process(k, v, job.rv)
        /\ UNCHANGED failures
        /\ UNCHANGED <<forced, at, queue, crashes>>

\* Add the finalizer; the server refuses it for an object being deleted.  The
\* version that comes back is the one Reconcile goes on with.
AddFinalizer ==
    LET k == job.key
        v == [log[k][job.rv] EXCEPT !.ours = TRUE]
    IN  /\ pc = "finalize"
        /\ \/ /\ Current(k) /\ ~v.deleting
              /\ log' = [log EXCEPT ![k] = Append(@, v)]
              /\ Process(k, v, job.rv + 1) /\ UNCHANGED failures
           \/ /\ ~Current(k) \/ v.deleting
              /\ Again(k) /\ UNCHANGED <<log, trackerVars, failures>>
           \/ ~v.deleting /\ Unanswered(k, v)
        /\ UNCHANGED <<forced, at, queue, crashes>>

RemoveFinalizer ==
    LET k == job.key
        v == Settle([log[k][job.rv] EXCEPT !.ours = FALSE])
    IN  /\ pc = "release"
        /\ \/ /\ Current(k) /\ log' = [log EXCEPT ![k] = Append(@, v)]
              /\ Done /\ UNCHANGED <<retry, trackerVars, failures>>
           \/ /\ ~Current(k)
              /\ Again(k) /\ UNCHANGED <<log, trackerVars, failures>>
           \/ Unanswered(k, v)
        /\ UNCHANGED <<forced, at, queue, crashes>>

\* WaitForCacheSync returned: the new tracker takes the place of the old one.
Synced ==
    LET k == job.key
    IN  /\ pc = "sync" /\ log[k][job.rv].spec \in Listable
        /\ StopMapped(k) /\ mapped' = [mapped EXCEPT ![k] = job.rv]
        /\ Done
        /\ UNCHANGED <<serverVars, at, queue, retry, populated, leaks, failures,
                       crashes>>

WorkerStep == Get \/ AddFinalizer \/ RemoveFinalizer \/ Synced

\* The workers of a started tracker make the ResourceStates (ResourceTracker).
Populate(k, r) ==
    /\ mapped[k] = r /\ <<k, r>> \in informers /\ <<k, r>> \notin populated
    /\ populated' = populated \cup {<<k, r>>}
    /\ UNCHANGED <<serverVars, at, queue, retry, pc, job, mapped, informers, leaks,
                   failures, crashes>>

\* The process ends and starts again: the cache lists what exists.
Crash ==
    /\ crashes < MaxCrashes /\ crashes' = crashes + 1
    /\ at' = [k \in Keys |-> Len(log[k])]
    /\ \E q \in [1 .. Cardinality({k \in Keys : Last(k) # Absent}) -> Keys] :
          /\ Range(q) = {k \in Keys : Last(k) # Absent} /\ queue' = q
    /\ retry' = {} /\ Done
    /\ mapped' = [k \in Keys |-> 0] /\ informers' = {} /\ populated' = {}
    /\ leaks' = 0
    /\ UNCHANGED <<serverVars, failures>>

Next ==
    \/ Users \/ WorkerStep \/ Crash
    \/ \E k \in Keys : Deliver(k) \/ RetryDue(k) \/ \E r \in {mapped[k]} : Populate(k, r)

Spec == Init /\ [][Next]_vars

\* The worker, the informer and the retry timer take the steps they can take.
\* Users need not act and the process need not crash.
Fairness ==
    /\ WF_vars(WorkerStep)
    /\ \A k \in Keys : WF_vars(Deliver(k)) /\ WF_vars(RetryDue(k))

FairSpec == Spec /\ Fairness
-----------------------------------------------------------------------------
(* Properties                                                              *)

\* Every variable holds a value of its kind, and the positions held by the cache
\* and by Reconcile are positions of the log.
TypeOK ==
    /\ log \in [Keys -> Seq(Version \cup {Absent})]
    /\ at \in [Keys -> Nat] /\ \A k \in Keys : at[k] \in 1 .. Len(log[k])
    /\ queue \in Seq(Keys) /\ retry \subseteq Keys /\ forced \subseteq Keys
    /\ pc \in {"idle", "finalize", "release", "sync"}
    /\ job \in [key : Keys, rv : Nat] \cup {NoJob}
    /\ pc = "idle" <=> job = NoJob
    /\ job # NoJob => /\ job.rv \in 1 .. Len(log[job.key])
                      /\ log[job.key][job.rv] # Absent
    /\ mapped \in [Keys -> Nat]
    /\ informers \subseteq Keys \X Nat /\ populated \subseteq Keys \X Nat
    /\ leaks \in Nat /\ failures \in Nat /\ crashes \in Nat

Building == IF pc = "sync" THEN {<<job.key, job.rv>>} ELSE {}

\* The informers that run are those of the trackers in the map and of the one
\* being made: none is lost when a tracker is replaced, and none in the map was
\* stopped, which would make the next Stop close a closed channel.
InformersAccounted ==
    /\ informers = {<<k, mapped[k]>> : k \in {j \in Keys : mapped[j] # 0}} \cup Building
    /\ \A k \in Keys : <<k, mapped[k]>> \notin Building

\* An object with a tracker exists and has our finalizer, unless somebody else
\* removed it: deletion cannot outrun the tracker, whatever conflicts, lost
\* answers and crashes come between Stop and the removal of the finalizer.
TrackedIsHeld ==
    \A k \in Keys \ forced :
        mapped[k] # 0 \/ (pc = "sync" /\ job.key = k) =>
            Last(k) # Absent /\ Last(k).ours

\* A tracker is never replaced by one made from an earlier version, although the
\* cache can be behind the version that came back when the finalizer was added.
TrackerNeverGoesBack ==
    [][\A k \in Keys : mapped[k] # 0 /\ mapped'[k] # 0 => mapped'[k] >= mapped[k]]_vars

\* WaitForCacheSync waits for a list that the API server keeps refusing.
Hung == IF pc = "sync" THEN log[job.key][job.rv].spec \notin Listable ELSE FALSE

\* An object being deleted loses our finalizer in the end, unless the worker hangs
\* in the construction of a tracker, of this object or of another one.
Releasing(k) == IF Last(k) = Absent THEN FALSE ELSE Last(k).deleting /\ Last(k).ours

DeletionCompletes == \A k \in Keys : Releasing(k) ~> ~Releasing(k) \/ Hung

\* Every version of an object that can be tracked gets its tracker, unless another
\* version overtakes it or the worker hangs.
Trackable(k) ==
    IF Last(k) = Absent THEN FALSE ELSE ~Last(k).deleting /\ Last(k).spec \in Listable

TrackerFollows ==
    \A k \in Keys, r \in 1 .. 2 * MaxVersions :
        Len(log[k]) = r /\ Trackable(k) ~> mapped[k] = r \/ Len(log[k]) # r \/ Hung

\* README.md:121 says of pod_state_num "number of pods which stays in the given
\* state".  The ResourceStates of one object's trackers all count in the same
\* gauges, so at most one of its trackers should have any.
CountedOnce ==
    \A k \in Keys : \A r, s \in {g[2] : g \in populated} :
        <<k, r>> \in populated /\ <<k, s>> \in populated => r = s
=============================================================================
