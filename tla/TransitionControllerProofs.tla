--------------------- MODULE TransitionControllerProofs ---------------------
(***************************************************************************)
(* The invariants of TransitionController for every set of keys and specs  *)
(* and every bound. TrackedIsHeld is not inductive: it needs to know that  *)
(* the cache cannot show a version with our finalizer, not being deleted,  *)
(* when the object has lost the finalizer since (FinalizerLasts), and that *)
(* the tracker is gone when Reconcile removes the finalizer (JobIsCached). *)
(* That the version of a tracker never goes back needs that no tracker is  *)
(* ahead of the cache by more than the Update that added the finalizer     *)
(* (CaughtUp).                                                             *)
(***************************************************************************)
EXTENDS TransitionController, FiniteSetTheorems, TLAPS

\* A version of the object, or that it is gone.
Versions == Version \cup {Absent}

\* The object is there with our finalizer.
Kept(v) == v # Absent /\ v.ours

\* It is, and is not being deleted.
Wanted(v) == v # Absent /\ v.ours /\ ~v.deleting

\* Reconcile holds a version the cache has shown while it updates the object, and
\* removes the finalizer only from an object being deleted and without tracker.
JobIsCached ==
    /\ pc \in {"finalize", "release"} => job.rv <= at[job.key]
    /\ pc = "release" => log[job.key][job.rv].deleting /\ mapped[job.key] = 0

\* From what the cache shows on, the finalizer of an object not being deleted lasts.
FinalizerLasts ==
    \A k \in Keys \ forced : \A p, q \in 1 .. Len(log[k]) :
        at[k] <= p /\ p <= q /\ Wanted(log[k][p]) => Kept(log[k][q])

\* A key with a tracker, or about to get one, is one whose object has the finalizer,
\* unless somebody took it off.
Held ==
    \A k \in Keys \ forced :
        mapped[k] # 0 \/ (pc = "sync" /\ job.key = k) => Kept(Last(k))

\* An object's log grows by one version and is otherwise what it was.
LEMMA LogGrows ==
    ASSUME NEW f \in [Keys -> Seq(Versions)], NEW k \in Keys, NEW v \in Versions,
           NEW g, g = [f EXCEPT ![k] = Append(@, v)]
    PROVE  /\ g \in [Keys -> Seq(Versions)]
           /\ Len(g[k]) = Len(f[k]) + 1 /\ g[k][Len(f[k]) + 1] = v
           /\ \A p \in 1 .. Len(f[k]) : g[k][p] = f[k][p]
           /\ \A j \in Keys : j # k => g[j] = f[j]
OBVIOUS

\* What Process does to the variables it owns, whatever version it is given.
LEMMA ProcessType ==
    ASSUME TypeOK, NEW k \in Keys, NEW v \in Version, NEW r \in Nat \ {0},
           Process(k, v, r)
    PROVE  /\ retry' \subseteq Keys /\ mapped' \in [Keys -> Nat]
           /\ informers' \subseteq Keys \X Nat /\ populated' \subseteq Keys \X Nat
           /\ leaks' \in Nat
           /\ \/ pc' = "idle" /\ job' = NoJob
              \/ pc' \in {"release", "sync"} /\ job' = [key |-> k, rv |-> r]
<1>1. /\ retry \subseteq Keys /\ mapped \in [Keys -> Nat] /\ leaks \in Nat
      /\ informers \subseteq Keys \X Nat /\ populated \subseteq Keys \X Nat
  BY DEF TypeOK
<1>2. CASE v.deleting
  BY <1>1, <1>2 DEF Process, StopMapped
<1>3. CASE ~v.deleting /\ mapped[k] = r
  BY <1>1, <1>3 DEF Process, Done, trackerVars
<1>4. CASE ~v.deleting /\ mapped[k] # r /\ v.spec \notin Resolvable
  BY <1>1, <1>4 DEF Process, Done, Again
<1>5. CASE ~v.deleting /\ mapped[k] # r /\ v.spec \in Resolvable
  BY <1>1, <1>5 DEF Process
<1> QED
  BY <1>2, <1>3, <1>4, <1>5

\* The fields of the versions in the log of an object.
LEMMA VersionsAreRecords ==
    ASSUME NEW v \in Version
    PROVE  /\ v # Absent /\ v.spec \in Specs /\ v.deleting \in BOOLEAN
           /\ v.ours \in BOOLEAN /\ v.others \in BOOLEAN
           /\ \A b \in BOOLEAN : /\ [v EXCEPT !.ours = b] \in Version
                                 /\ [v EXCEPT !.others = b] \in Version
                                 /\ [v EXCEPT !.deleting = b] \in Version
           /\ \A s \in Specs : [v EXCEPT !.spec = s] \in Version
           /\ Settle(v) \in Versions
BY ControllerAssumption DEF Version, Versions, Settle
-----------------------------------------------------------------------------
\* The last version of an object is a record of the log, and so is every version
\* the cache or Reconcile points at.
LEMMA LastVersion ==
    ASSUME TypeOK, NEW k \in Keys
    PROVE  /\ Len(log[k]) \in Nat \ {0} /\ Last(k) \in Versions
           /\ \A p \in 1 .. Len(log[k]) : log[k][p] \in Versions
BY DEF TypeOK, Last, Versions

\* A step of a user appends one version, which keeps our finalizer if the object
\* had it, unless the step is the one that removes it by force.
LEMMA UserStep ==
    ASSUME TypeOK, Users
    PROVE  \E k \in Keys, v \in Versions :
              /\ Write(k, v) /\ forced \subseteq forced' /\ forced' \subseteq Keys
              /\ k \notin forced' => (Kept(Last(k)) => Kept(v))
<1> DEFINE Goal ==
        \E k \in Keys, v \in Versions :
            /\ Write(k, v) /\ forced \subseteq forced' /\ forced' \subseteq Keys
            /\ k \notin forced' => (Kept(Last(k)) => Kept(v))
<1>1. PICK k \in Keys :
        \/ \E s \in Specs : Edit(k, s) \/ \E o \in {FALSE, OthersHold} : Create(k, s, o)
        \/ Delete(k) \/ DropOthers(k) \/ ForceFinalizer(k)
  BY DEF Users
<1>2. Last(k) \in Versions /\ forced \subseteq Keys
  BY LastVersion DEF TypeOK
<1>3. ASSUME NEW s \in Specs, Edit(k, s) PROVE Goal
  <2>1. [Last(k) EXCEPT !.spec = s] \in Version
    BY <1>2, <1>3, VersionsAreRecords DEF Edit, Versions
  <2>2. Kept([Last(k) EXCEPT !.spec = s]) <=> Last(k).ours
    BY <2>1, <1>2, <1>3, VersionsAreRecords DEF Kept, Edit, Versions, Version
  <2> QED
    BY <1>2, <1>3, <2>1, <2>2 DEF Edit, UserWrite, Versions, Kept
<1>4. ASSUME NEW s \in Specs, NEW o \in {FALSE, OthersHold}, Create(k, s, o) PROVE Goal
  <2>1. [spec |-> s, deleting |-> FALSE, ours |-> FALSE, others |-> o] \in Version
    BY ControllerAssumption DEF Version
  <2> QED
    BY <1>2, <1>4, <2>1 DEF Create, UserWrite, Versions, Kept
<1>5. CASE Delete(k)
  <2> DEFINE v == [Last(k) EXCEPT !.deleting = TRUE]
  <2>1. v \in Version /\ Settle(v) \in Versions
    BY <1>2, <1>5, VersionsAreRecords DEF Delete, Versions
  <2>2. Last(k).ours => Kept(Settle(v))
    BY <2>1, <1>2, <1>5, VersionsAreRecords DEF Kept, Settle, Delete, Versions, Version
  <2> QED
    BY <1>2, <1>5, <2>1, <2>2 DEF Delete, UserWrite, Kept
<1>6. CASE DropOthers(k)
  <2> DEFINE v == [Last(k) EXCEPT !.others = FALSE]
  <2>1. v \in Version /\ Settle(v) \in Versions
    BY <1>2, <1>6, VersionsAreRecords DEF DropOthers, Versions
  <2>2. Last(k).ours => Kept(Settle(v))
    BY <2>1, <1>2, <1>6, VersionsAreRecords DEF Kept, Settle, DropOthers, Versions, Version
  <2> QED
    BY <1>2, <1>6, <2>1, <2>2 DEF DropOthers, UserWrite, Kept
<1>7. CASE ForceFinalizer(k)
  <2> DEFINE v == [Last(k) EXCEPT !.ours = FALSE]
  <2>1. v \in Version /\ Settle(v) \in Versions
    BY <1>2, <1>7, VersionsAreRecords DEF ForceFinalizer, Versions
  <2> QED
    BY <1>2, <1>7, <2>1 DEF ForceFinalizer, UserWrite
<1> QED
  BY <1>1, <1>3, <1>4, <1>5, <1>6, <1>7

\* The updates of Reconcile append at most one version, and only after the one it
\* holds: with the finalizer, or one released of it.
LEMMA UpdateStep ==
    ASSUME TypeOK, AddFinalizer \/ RemoveFinalizer
    PROVE  LET k == job.key
           IN  /\ k \in Keys /\ job.rv \in 1 .. Len(log[k])
               /\ \/ UNCHANGED log
                  \/ \E v \in Versions :
                        /\ job.rv = Len(log[k])
                        /\ log' = [log EXCEPT ![k] = Append(@, v)]
                        /\ \/ pc = "finalize" /\ Kept(v)
                           \/ pc = "release" /\ ~Wanted(v)
<1> DEFINE k == job.key
           u == log[k][job.rv]
           a == [u EXCEPT !.ours = TRUE]
           b == [u EXCEPT !.ours = FALSE]
<1>1. job # NoJob
  BY DEF TypeOK, AddFinalizer, RemoveFinalizer
<1>2. k \in Keys /\ job.rv \in 1 .. Len(log[k]) /\ u \in Version
  BY <1>1, LastVersion DEF TypeOK, Versions
<1>3. a \in Version /\ b \in Version /\ Settle(b) \in Versions /\ a.ours
  <2>1. a \in Version /\ b \in Version
    BY <1>2, VersionsAreRecords
  <2> QED
    BY <1>2, <2>1, VersionsAreRecords DEF Version
<1>4. CASE AddFinalizer
  <2>1. Kept(a)
    BY <1>3, VersionsAreRecords DEF Kept
  <2> QED
    BY <1>2, <1>3, <1>4, <2>1 DEF AddFinalizer, Unanswered, Current, Versions
<1>5. CASE RemoveFinalizer
  <2>1. ~b.ours /\ b # Absent
    BY <1>2, <1>3, VersionsAreRecords DEF Version
  <2>2. ~Wanted(Settle(b))
    BY <2>1 DEF Wanted, Settle
  <2> QED
    BY <1>2, <1>3, <1>5, <2>2 DEF RemoveFinalizer, Unanswered, Current
<1> QED
  BY <1>4, <1>5
-----------------------------------------------------------------------------
\* Whatever is appended, the versions already in the logs stay where they were.
LogOnlyGrows ==
    /\ log' \in [Keys -> Seq(Versions)]
    /\ \A j \in Keys : \A p \in 1 .. Len(log[j]) :
          p \in 1 .. Len(log'[j]) /\ log'[j][p] = log[j][p]

\* Appending a version to a log leaves its earlier versions where they were.
LEMMA AppendKeeps ==
    ASSUME TypeOK, NEW k \in Keys, NEW v \in Versions,
           log' = [log EXCEPT ![k] = Append(@, v)]
    PROVE  /\ LogOnlyGrows /\ Len(log'[k]) = Len(log[k]) + 1
           /\ log'[k][Len(log[k]) + 1] = v /\ \A j \in Keys : j # k => log'[j] = log[j]
<1>1. log \in [Keys -> Seq(Versions)]
  BY DEF TypeOK, Versions
<1>2. /\ log' \in [Keys -> Seq(Versions)]
      /\ Len(log'[k]) = Len(log[k]) + 1 /\ log'[k][Len(log[k]) + 1] = v
      /\ \A p \in 1 .. Len(log[k]) : log'[k][p] = log[k][p]
      /\ \A j \in Keys : j # k => log'[j] = log[j]
  BY <1>1, LogGrows
<1>3. Len(log[k]) \in Nat
  BY <1>1
<1> QED
  BY <1>2, <1>3 DEF LogOnlyGrows

\* A step that writes nothing leaves the log as it is.
LEMMA StutterKeeps == ASSUME TypeOK, UNCHANGED log PROVE LogOnlyGrows
BY DEF TypeOK, Versions, LogOnlyGrows

\* The part of TypeOK about positions survives every step that keeps the job or
\* drops it, and moves the cache inside the log.
LEMMA PositionsKept ==
    ASSUME TypeOK, LogOnlyGrows, UNCHANGED at, UNCHANGED <<pc, job>> \/ Done
    PROVE  /\ at' \in [Keys -> Nat] /\ \A k \in Keys : at'[k] \in 1 .. Len(log'[k])
           /\ pc' \in {"idle", "finalize", "release", "sync"}
           /\ job' \in [key : Keys, rv : Nat] \cup {NoJob}
           /\ pc' = "idle" <=> job' = NoJob
           /\ job' # NoJob => /\ job'.rv \in 1 .. Len(log'[job'.key])
                              /\ log'[job'.key][job'.rv] # Absent
<1>1. at \in [Keys -> Nat] /\ \A k \in Keys : at[k] \in 1 .. Len(log[k])
  BY DEF TypeOK
<1>2. at' \in [Keys -> Nat] /\ \A k \in Keys : at'[k] \in 1 .. Len(log'[k])
  BY <1>1 DEF LogOnlyGrows
<1>3. CASE Done
  BY <1>2, <1>3 DEF Done
<1>4. CASE UNCHANGED <<pc, job>>
  <2>1. job # NoJob => job.key \in Keys /\ job.rv \in 1 .. Len(log[job.key])
                                      /\ log[job.key][job.rv] # Absent
    BY DEF TypeOK
  <2> QED
    BY <1>2, <1>4, <2>1 DEF LogOnlyGrows, TypeOK
<1> QED
  BY <1>3, <1>4

\* The part of TypeOK about positions, when Reconcile takes up version v of k.
LEMMA ProcessPositions ==
    ASSUME TypeOK, LogOnlyGrows, UNCHANGED at, NEW k \in Keys, NEW v \in Version,
           NEW r \in 1 .. Len(log'[k]), log'[k][r] = v, r \in Nat \ {0},
           \/ pc' = "idle" /\ job' = NoJob
           \/ /\ pc' \in {"finalize", "release", "sync"}
              /\ job' = [key |-> k, rv |-> r]
    PROVE  /\ at' \in [Keys -> Nat] /\ \A j \in Keys : at'[j] \in 1 .. Len(log'[j])
           /\ pc' \in {"idle", "finalize", "release", "sync"}
           /\ job' \in [key : Keys, rv : Nat] \cup {NoJob}
           /\ pc' = "idle" <=> job' = NoJob
           /\ job' # NoJob => /\ job'.rv \in 1 .. Len(log'[job'.key])
                              /\ log'[job'.key][job'.rv] # Absent
<1>1. at \in [Keys -> Nat] /\ \A j \in Keys : at[j] \in 1 .. Len(log[j])
  BY DEF TypeOK
<1>2. at' \in [Keys -> Nat] /\ \A j \in Keys : at'[j] \in 1 .. Len(log'[j])
  BY <1>1 DEF LogOnlyGrows
<1>3. v # Absent
  BY VersionsAreRecords
<1>4. [key |-> k, rv |-> r] \in [key : Keys, rv : Nat]
  OBVIOUS
<1>5. [key |-> k, rv |-> r] # NoJob
  BY <1>4, ControllerAssumption
<1> QED
  BY <1>2, <1>3, <1>4, <1>5

\* Steps of the users, the informer cache, the retry timer and the workers of the
\* trackers, and stuttering steps.
LEMMA OutsideType ==
    ASSUME TypeOK,
           \/ Users \/ UNCHANGED vars
           \/ \E k \in Keys : Deliver(k) \/ RetryDue(k) \/ \E r \in {mapped[k]} : Populate(k, r)
    PROVE  TypeOK'
<1>1. CASE Users
  <2>1. PICK k \in Keys, v \in Versions : Write(k, v) /\ forced' \subseteq Keys
    BY <1>1, UserStep
  <2>2. LogOnlyGrows
    BY <2>1, AppendKeeps DEF Write
  <2> QED
    BY <2>1, <2>2, PositionsKept DEF Write, TypeOK, trackerVars, LogOnlyGrows, Versions
<1>2. CASE UNCHANGED vars
  BY <1>2 DEF TypeOK, vars, serverVars, trackerVars
<1>3. ASSUME NEW k \in Keys, Deliver(k) PROVE TypeOK'
  <2>1. queue' \in Seq(Keys)
    BY <1>3 DEF Deliver, Enqueued, TypeOK
  <2>2. at' \in [Keys -> Nat] /\ \A j \in Keys : at'[j] \in 1 .. Len(log[j])
    <3>1. \A j \in Keys : Len(log[j]) \in Nat
      BY DEF TypeOK
    <3> QED
      BY <3>1, <1>3 DEF Deliver, TypeOK
  <2> QED
    BY <1>3, <2>1, <2>2 DEF Deliver, TypeOK, serverVars, trackerVars
<1>4. ASSUME NEW k \in Keys, RetryDue(k) PROVE TypeOK'
  <2>1. queue' \in Seq(Keys)
    BY <1>4 DEF RetryDue, Enqueued, TypeOK
  <2> QED
    BY <1>4, <2>1 DEF RetryDue, TypeOK, serverVars, trackerVars
<1>5. ASSUME NEW k \in Keys, NEW r \in {mapped[k]}, Populate(k, r) PROVE TypeOK'
  BY <1>5 DEF Populate, TypeOK, serverVars
<1> QED
  BY <1>1, <1>2, <1>3, <1>4, <1>5

\* The types after a step of the only worker.
LEMMA WorkerType == ASSUME TypeOK, WorkerStep PROVE TypeOK'
<1>1. CASE Get
  <2> DEFINE k == Head(queue)
  <2>1. k \in Keys /\ queue' \in Seq(Keys)
    BY <1>1 DEF Get, TypeOK
  <2>2. at[k] \in 1 .. Len(log[k]) /\ at[k] \in Nat \ {0} /\ Cached(k) \in Versions
    <3>1. at[k] \in 1 .. Len(log[k]) /\ at[k] \in Nat
      BY <2>1 DEF TypeOK
    <3>2. Cached(k) \in Versions
      BY <2>1, <3>1, LastVersion DEF Cached
    <3> QED
      BY <3>1, <3>2
  <2>3. LogOnlyGrows /\ UNCHANGED <<log, at, forced, failures, crashes>>
    BY <1>1, StutterKeeps DEF Get, serverVars
  <2>4. CASE Cached(k) = Absent
    BY <1>1, <2>1, <2>3, <2>4, PositionsKept DEF Get, TypeOK, trackerVars
  <2>5. CASE Cached(k) # Absent /\ Cached(k).ours
    <3>1. Process(k, Cached(k), at[k]) /\ Cached(k) \in Version
      BY <1>1, <2>2, <2>5 DEF Get, Versions
    <3>2. /\ retry' \subseteq Keys /\ mapped' \in [Keys -> Nat] /\ leaks' \in Nat
          /\ informers' \subseteq Keys \X Nat /\ populated' \subseteq Keys \X Nat
          /\ \/ pc' = "idle" /\ job' = NoJob
             \/ /\ pc' \in {"finalize", "release", "sync"}
                /\ job' = [key |-> k, rv |-> at[k]]
      BY <2>1, <2>2, <3>1, ProcessType
    <3>3. at[k] \in 1 .. Len(log'[k]) /\ log'[k][at[k]] = Cached(k)
      BY <2>2, <2>3 DEF Cached
    <3> QED
      BY <2>1, <2>2, <2>3, <3>1, <3>2, <3>3, ProcessPositions DEF TypeOK
  <2>6. CASE Cached(k) # Absent /\ ~Cached(k).ours
    <3>1. /\ pc' = "finalize" /\ job' = [key |-> k, rv |-> at[k]]
          /\ UNCHANGED <<retry, trackerVars>> /\ Cached(k) \in Version
      BY <1>1, <2>2, <2>6 DEF Get, Versions
    <3> QED
      BY ZenonT(60), <2>1, <2>2, <2>3, <3>1, ProcessPositions DEF TypeOK, Cached, trackerVars
  <2> QED
    BY <2>4, <2>5, <2>6
<1>2. ASSUME AddFinalizer \/ RemoveFinalizer PROVE LogOnlyGrows
  BY <1>2, UpdateStep, AppendKeeps, StutterKeeps
<1>3. CASE AddFinalizer
  <2> DEFINE k == job.key
             v == [log[k][job.rv] EXCEPT !.ours = TRUE]
  <2>1. k \in Keys /\ job.rv \in 1 .. Len(log[k]) /\ LogOnlyGrows
    BY <1>2, <1>3, UpdateStep
  <2>2. v \in Version
    BY ZenonT(60), <1>3, <2>1, LastVersion, VersionsAreRecords DEF AddFinalizer, TypeOK, Versions
  <2>3. UNCHANGED <<forced, at, queue, crashes>> /\ failures' \in Nat
    BY SMTT(30), <1>3 DEF AddFinalizer, Unanswered, TypeOK
  <2>4. CASE Again(k) /\ UNCHANGED trackerVars
    BY <2>1, <2>3, <2>4, PositionsKept DEF Again, TypeOK, trackerVars, LogOnlyGrows, Versions
  <2>5. CASE /\ Current(k) /\ log' = [log EXCEPT ![k] = Append(@, v)]
             /\ Process(k, v, job.rv + 1)
    <3>1. /\ job.rv + 1 \in 1 .. Len(log'[k]) /\ log'[k][job.rv + 1] = v
          /\ job.rv + 1 \in Nat \ {0}
      <4>1. log \in [Keys -> Seq(Versions)] /\ v \in Versions
        BY SMTT(30), <2>2 DEF TypeOK, Versions
      <4>2. Len(log'[k]) = Len(log[k]) + 1 /\ log'[k][Len(log[k]) + 1] = v
        BY <2>1, <2>5, <4>1, AppendKeeps
      <4> QED
        BY <2>1, <2>5, <4>1, <4>2 DEF Current
    <3>2. /\ retry' \subseteq Keys /\ mapped' \in [Keys -> Nat] /\ leaks' \in Nat
          /\ informers' \subseteq Keys \X Nat /\ populated' \subseteq Keys \X Nat
          /\ \/ pc' = "idle" /\ job' = NoJob
             \/ /\ pc' \in {"finalize", "release", "sync"}
                /\ job' = [key |-> k, rv |-> job.rv + 1]
      BY <2>1, <2>2, <2>5, <3>1, ProcessType
    <3>3. /\ at' \in [Keys -> Nat] /\ \A j \in Keys : at'[j] \in 1 .. Len(log'[j])
          /\ pc' \in {"idle", "finalize", "release", "sync"}
          /\ job' \in [key : Keys, rv : Nat] \cup {NoJob}
          /\ pc' = "idle" <=> job' = NoJob
          /\ job' # NoJob => /\ job'.rv \in 1 .. Len(log'[job'.key])
                             /\ log'[job'.key][job'.rv] # Absent
      BY <2>1, <2>2, <2>3, <3>1, <3>2, ProcessPositions
    <3> QED
      BY <2>1, <2>3, <3>2, <3>3 DEF TypeOK, LogOnlyGrows, Versions
  <2> QED
    BY <1>3, <2>4, <2>5 DEF AddFinalizer, Unanswered
<1>4. CASE RemoveFinalizer
  <2> DEFINE k == job.key
  <2>1. k \in Keys /\ LogOnlyGrows
    BY <1>2, <1>4, UpdateStep
  <2>2. /\ UNCHANGED <<forced, at, queue, crashes, trackerVars>> /\ failures' \in Nat
        /\ Done /\ (UNCHANGED retry \/ Again(k))
    BY SMTT(30), <1>4 DEF RemoveFinalizer, Unanswered, TypeOK, Again
  <2> QED
    BY <2>1, <2>2, PositionsKept DEF Again, TypeOK, trackerVars, LogOnlyGrows, Versions
<1>5. CASE Synced
  <2>1. LogOnlyGrows /\ UNCHANGED at /\ Done
    BY <1>5, StutterKeeps DEF Synced, serverVars
  <2>2. job.rv \in Nat /\ job.key \in Keys
    BY <1>5 DEF Synced, TypeOK
  <2> QED
    BY <1>5, <2>1, <2>2, PositionsKept DEF Synced, StopMapped, TypeOK, serverVars
<1> QED
  BY <1>1, <1>3, <1>4, <1>5 DEF WorkerStep

\* The types after the process ended and started again.
LEMMA CrashType == ASSUME TypeOK, Crash PROVE TypeOK'
<1>1. queue' \in Seq(Keys)
  <2>1. IsFiniteSet({k \in Keys : Last(k) # Absent})
    BY ControllerAssumption, FS_Subset
  <2>2. Cardinality({k \in Keys : Last(k) # Absent}) \in Nat
    BY <2>1, FS_CardinalityType
  <2>3. PICK q \in [1 .. Cardinality({k \in Keys : Last(k) # Absent}) -> Keys] : queue' = q
    BY DEF Crash
  <2>4. \A n \in Nat : [1 .. n -> Keys] \subseteq Seq(Keys)
    OBVIOUS
  <2> QED
    BY <2>2, <2>3, <2>4
<1>2. at' \in [Keys -> Nat] /\ \A k \in Keys : at'[k] \in 1 .. Len(log[k])
  BY LastVersion DEF Crash
<1> QED
  BY <1>1, <1>2 DEF Crash, Done, TypeOK, serverVars

\* The types of the first state.
LEMMA TypeInit == Init => TypeOK
BY ControllerAssumption DEF Init, TypeOK

\* TypeOK holds in every reachable state.
THEOREM ControllerTypeCorrect == Spec => []TypeOK
<1>1. TypeOK /\ [Next]_vars => TypeOK'
  BY OutsideType, WorkerType, CrashType DEF Next
<1> QED
  BY <1>1, TypeInit, PTL DEF Spec
-----------------------------------------------------------------------------
\* InformersAccounted, one pair at a time.
Accounted ==
    \A k \in Keys, r \in Nat :
        /\ <<k, r>> \in informers <=> (r # 0 /\ mapped[k] = r) \/ <<k, r>> \in Building
        /\ <<k, r>> \in Building => r # 0 /\ mapped[k] # r

\* Accounted says InformersAccounted of one name and one informer at a time.
LEMMA AccountedByPair == ASSUME TypeOK PROVE Accounted <=> InformersAccounted
<1>1. /\ informers \subseteq Keys \X Nat /\ Building \subseteq Keys \X (Nat \ {0})
      /\ mapped \in [Keys -> Nat]
  BY DEF TypeOK, Building
<1>2. ASSUME Accounted PROVE InformersAccounted
  BY <1>1, <1>2 DEF Accounted, InformersAccounted
<1>3. ASSUME InformersAccounted PROVE Accounted
  BY <1>1, <1>3 DEF Accounted, InformersAccounted
<1> QED
  BY <1>2, <1>3

\* Process drops the informer of a deleted object and starts that of a new tracker.
LEMMA ProcessAccounted ==
    ASSUME TypeOK, Accounted, pc # "sync", NEW k \in Keys, NEW v \in Version,
           NEW r \in Nat \ {0}, Process(k, v, r)
    PROVE  Accounted'
<1>1. Building = {} /\ mapped \in [Keys -> Nat]
  BY DEF Building, TypeOK
<1>2. CASE v.deleting
  <2>1. /\ mapped' = [mapped EXCEPT ![k] = 0] /\ Building' = {}
        /\ informers' = informers \ {<<k, mapped[k]>>}
    BY <1>2 DEF Process, StopMapped, Building
  <2> QED
    BY <1>1, <2>1 DEF Accounted
<1>3. CASE ~v.deleting /\ (mapped[k] = r \/ v.spec \notin Resolvable)
  <2>1. UNCHANGED <<mapped, informers>> /\ Building' = {}
    BY <1>3 DEF Process, Done, Again, trackerVars, Building
  <2> QED
    BY <1>1, <2>1 DEF Accounted
<1>4. CASE ~v.deleting /\ mapped[k] # r /\ v.spec \in Resolvable
  <2>1. /\ UNCHANGED mapped /\ Building' = {<<k, r>>}
        /\ informers' = informers \cup {<<k, r>>}
    BY <1>4 DEF Process, Building
  <2> QED
    BY <1>1, <1>4, <2>1 DEF Accounted
<1> QED
  BY <1>2, <1>3, <1>4

\* Every step keeps each informer in the map or on the list of those left behind.
LEMMA AccountedStep == ASSUME TypeOK, Accounted, [Next]_vars PROVE Accounted'
<1>1. ASSUME UNCHANGED <<mapped, informers>>, Building' = Building PROVE Accounted'
  BY <1>1 DEF Accounted
<1>2. CASE Users
  <2>1. UNCHANGED <<mapped, informers, pc, job>>
    BY <1>2, UserStep DEF Write, trackerVars
  <2> QED
    BY <1>1, <2>1 DEF Building
<1>3. CASE Get
  <2>1. CASE Cached(Head(queue)) # Absent /\ Cached(Head(queue)).ours
    <3>1. /\ Head(queue) \in Keys /\ at[Head(queue)] \in Nat \ {0}
          /\ at[Head(queue)] \in 1 .. Len(log[Head(queue)])
      BY <1>3 DEF Get, TypeOK
    <3>2. Cached(Head(queue)) \in Version
      BY <2>1, <3>1, LastVersion DEF Cached, Versions
    <3> QED
      BY <1>3, <2>1, <3>1, <3>2, ProcessAccounted DEF Get
  <2>2. CASE ~(Cached(Head(queue)) # Absent /\ Cached(Head(queue)).ours)
    BY <1>1, <1>3, <2>2 DEF Get, Done, Building, trackerVars
  <2> QED
    BY <2>1, <2>2
<1>4. CASE AddFinalizer
  <2> DEFINE v == [log[job.key][job.rv] EXCEPT !.ours = TRUE]
  <2>1. CASE UNCHANGED trackerVars /\ Again(job.key)
    BY <1>1, <1>4, <2>1 DEF AddFinalizer, Again, Done, Building, trackerVars
  <2>2. CASE Process(job.key, v, job.rv + 1)
    <3>1. job.key \in Keys /\ job.rv \in 1 .. Len(log[job.key])
      BY <1>4, UpdateStep
    <3>2. v \in Version
      BY ZenonT(60), <1>4, <3>1, LastVersion, VersionsAreRecords DEF AddFinalizer, TypeOK, Versions
    <3> QED
      BY <1>4, <2>2, <3>1, <3>2, ProcessAccounted DEF AddFinalizer
  <2> QED
    BY <1>4, <2>1, <2>2 DEF AddFinalizer, Unanswered
<1>5. CASE RemoveFinalizer
  BY <1>1, <1>5 DEF RemoveFinalizer, Unanswered, Again, Done, Building, trackerVars
<1>6. CASE Synced
  <2>1. /\ job.key \in Keys /\ job.rv \in Nat \ {0} /\ mapped \in [Keys -> Nat]
    BY <1>6 DEF Synced, TypeOK
  <2>2. /\ mapped' = [mapped EXCEPT ![job.key] = job.rv] /\ Building' = {}
        /\ informers' = informers \ {<<job.key, mapped[job.key]>>}
        /\ Building = {<<job.key, job.rv>>}
    BY <1>6 DEF Synced, StopMapped, Done, Building
  <2> SUFFICES ASSUME NEW k \in Keys, NEW r \in Nat
               PROVE  <<k, r>> \in informers' <=> r # 0 /\ mapped'[k] = r
    BY <2>2 DEF Accounted
  <2>3. /\ <<k, r>> \in informers <=> (r # 0 /\ mapped[k] = r) \/ <<k, r>> \in Building
        /\ mapped[job.key] # job.rv
    BY <2>1, <2>2 DEF Accounted
  <2>4. CASE k = job.key
    BY <2>1, <2>2, <2>3, <2>4
  <2>5. CASE k # job.key
    BY <2>1, <2>2, <2>3, <2>5
  <2> QED
    BY <2>4, <2>5
<1>7. CASE Crash
  BY <1>7 DEF Crash, Done, Accounted, Building
<1>8. CASE UNCHANGED vars
  BY <1>1, <1>8 DEF vars, trackerVars, Building
<1>9. ASSUME NEW k \in Keys,
             Deliver(k) \/ RetryDue(k) \/ \E r \in {mapped[k]} : Populate(k, r)
      PROVE  Accounted'
  BY <1>1, <1>9 DEF Deliver, RetryDue, Populate, Building, trackerVars
<1> QED
  BY <1>2, <1>3, <1>4, <1>5, <1>6, <1>7, <1>8, <1>9 DEF Next, WorkerStep

\* InformersAccounted holds in every reachable state: an informer and its workers
\* outlive neither the replacement nor the deletion of their tracker, and Stop
\* closes no channel twice.
THEOREM InformersAreAccounted == Spec => []InformersAccounted
<1>1. Init => Accounted
  BY DEF Init, Accounted, Building
<1>2. TypeOK /\ Accounted /\ [Next]_vars => Accounted'
  BY AccountedStep
<1>3. TypeOK /\ Accounted => InformersAccounted
  BY AccountedByPair
<1> QED
  BY <1>1, <1>2, <1>3, ControllerTypeCorrect, PTL DEF Spec
-----------------------------------------------------------------------------
\* The inductive invariant of TrackedIsHeld.
HoldInv == JobIsCached /\ FinalizerLasts /\ Held

\* A version that is appended does not break FinalizerLasts when it keeps the
\* finalizer, or when the cache has seen that the object is being deleted.
LEMMA AppendLasts ==
    ASSUME TypeOK, FinalizerLasts, NEW k \in Keys, NEW v \in Versions,
           log' = [log EXCEPT ![k] = Append(@, v)], UNCHANGED at, forced \subseteq forced',
           k \notin forced' => \/ Kept(Last(k)) => Kept(v)
                               \/ at[k] = Len(log[k]) /\ ~Wanted(Last(k))
    PROVE  FinalizerLasts'
<1> SUFFICES ASSUME NEW j \in Keys \ forced', NEW p \in 1 .. Len(log'[j]),
                    NEW q \in 1 .. Len(log'[j]), at[j] <= p, p <= q, Wanted(log'[j][p])
             PROVE  Kept(log'[j][q])
  BY DEF FinalizerLasts
<1>1. j \in Keys \ forced
  OBVIOUS
<1>2. CASE j # k
  <2>1. log'[j] = log[j]
    BY <1>2, AppendKeeps
  <2> QED
    BY <1>1, <2>1 DEF FinalizerLasts
<1>3. CASE j = k
  <2> DEFINE n == Len(log[k])
  <2>1. /\ n \in Nat \ {0} /\ Len(log'[k]) = n + 1 /\ log'[k][n + 1] = v
        /\ \A i \in 1 .. n : log'[k][i] = log[k][i]
    BY AppendKeeps, LastVersion DEF LogOnlyGrows
  <2>2. CASE q <= n
    BY <1>1, <1>3, <2>1, <2>2 DEF FinalizerLasts
  <2>3. CASE p = n + 1
    BY <1>3, <2>1, <2>3 DEF Wanted, Kept
  <2>4. CASE p <= n /\ q = n + 1
    <3>1. Kept(Last(k)) /\ Wanted(log[k][p])
      BY <1>1, <1>3, <2>1, <2>4 DEF FinalizerLasts, Last
    <3>2. at[k] = n => p = n
      BY <1>3, <2>1, <2>4
    <3> QED
      BY <1>3, <2>1, <2>4, <3>1, <3>2 DEF Last
  <2> QED
    BY <1>3, <2>1, <2>2, <2>3, <2>4
<1> QED
  BY <1>2, <1>3

\* The last version of an object after a step that appends v to the log of k.
LEMMA LastAfter ==
    ASSUME TypeOK, NEW k \in Keys, NEW v \in Versions,
           log' = [log EXCEPT ![k] = Append(@, v)]
    PROVE  Last(k)' = v /\ \A j \in Keys : j # k => Last(j)' = Last(j)
BY ZenonT(60), AppendKeeps, LastVersion DEF Last

\* Users: they delete an object with the finalizer by marking it.
LEMMA UserHolds == ASSUME TypeOK, HoldInv, Users PROVE HoldInv'
<1>1. PICK k \in Keys, v \in Versions :
          /\ Write(k, v) /\ forced \subseteq forced' /\ forced' \subseteq Keys
          /\ k \notin forced' => (Kept(Last(k)) => Kept(v))
  BY UserStep
<1>2. /\ log' = [log EXCEPT ![k] = Append(@, v)]
      /\ UNCHANGED <<at, pc, job, mapped>>
  BY <1>1 DEF Write, trackerVars
<1>3. FinalizerLasts'
  BY <1>1, <1>2, AppendLasts DEF HoldInv
<1>4. JobIsCached'
  <2>1. pc = "release" => job.key \in Keys /\ job.rv \in 1 .. Len(log[job.key])
    BY DEF TypeOK
  <2>2. LogOnlyGrows
    BY <1>2, AppendKeeps
  <2> QED
    BY <1>2, <2>1, <2>2 DEF HoldInv, JobIsCached, LogOnlyGrows
<1>5. Held'
  <2>1. Last(k)' = v /\ \A j \in Keys : j # k => Last(j)' = Last(j)
    BY <1>2, LastAfter
  <2> QED
    BY <1>1, <1>2, <2>1 DEF HoldInv, Held
<1> QED
  BY <1>3, <1>4, <1>5 DEF HoldInv

\* Process of an object that is not being deleted leaves the map alone.
LEMMA ProcessLive ==
    ASSUME NEW k \in Keys, NEW v \in Version, NEW r \in Nat, ~v.deleting,
           Process(k, v, r)
    PROVE  /\ UNCHANGED mapped
           /\ \/ pc' = "idle"
              \/ pc' = "sync" /\ job' = [key |-> k, rv |-> r]
BY DEF Process, Done, Again, trackerVars

\* Get: taking up a version tracks an object that has the finalizer.
LEMMA GetHolds == ASSUME TypeOK, HoldInv, Get PROVE HoldInv'
<1> DEFINE k == Head(queue)
           v == Cached(k)
<1>1. k \in Keys /\ at[k] \in Nat \ {0} /\ at[k] \in 1 .. Len(log[k])
  BY DEF Get, TypeOK
<1>2. v \in Versions
  BY <1>1, LastVersion DEF Cached
<1>3. UNCHANGED <<log, at, forced>> /\ pc = "idle"
  BY DEF Get, serverVars
<1>4. FinalizerLasts'
  BY <1>3 DEF HoldInv, FinalizerLasts
<1>5. \A j \in Keys : Last(j)' = Last(j)
  BY <1>3 DEF Last
<1>6. CASE v = Absent \/ ~v.ours
  <2>1. UNCHANGED mapped
    BY <1>6 DEF Get, trackerVars
  <2>2. \/ pc' = "idle"
        \/ pc' = "finalize" /\ job' = [key |-> k, rv |-> at[k]]
    BY <1>6 DEF Get, Done
  <2> QED
    BY <1>1, <1>3, <1>4, <1>5, <2>1, <2>2 DEF HoldInv, JobIsCached, Held
<1>7. CASE v # Absent /\ v.ours
  <2>1. Process(k, v, at[k])
    BY <1>7 DEF Get
  <2>2. CASE v.deleting
    <3>1. /\ pc' = "release" /\ job' = [key |-> k, rv |-> at[k]]
          /\ mapped' = [mapped EXCEPT ![k] = 0] /\ mapped \in [Keys -> Nat]
      BY <2>1, <2>2 DEF Process, TypeOK
    <3> QED
      BY <1>1, <1>3, <1>4, <1>5, <2>2, <3>1 DEF HoldInv, JobIsCached, Held, Cached
  <2>3. CASE ~v.deleting
    <3>1. /\ UNCHANGED mapped
          /\ \/ pc' = "idle"
             \/ pc' = "sync" /\ job' = [key |-> k, rv |-> at[k]]
      BY <1>1, <1>2, <1>7, <2>1, <2>3, ProcessLive DEF Versions
    <3>2. Wanted(log[k][at[k]])
      BY <1>7, <2>3 DEF Wanted, Cached
    <3>3. k \notin forced => Kept(Last(k))
      <4>1. Len(log[k]) \in 1 .. Len(log[k]) /\ at[k] <= Len(log[k]) /\ at[k] <= at[k]
        BY <1>1
      <4> QED
        BY SMTT(30), <1>1, <3>2, <4>1 DEF HoldInv, FinalizerLasts, Last
    <3>4. JobIsCached'
      BY <3>1 DEF JobIsCached
    <3>5. Held'
      BY <1>3, <1>5, <3>1, <3>3 DEF HoldInv, Held
    <3> QED
      BY <1>4, <3>4, <3>5 DEF HoldInv
  <2> QED
    BY <2>2, <2>3
<1> QED
  BY <1>2, <1>6, <1>7

\* AddFinalizer: a version is written only where the last one was read.
LEMMA AddFinalizerHolds == ASSUME TypeOK, HoldInv, AddFinalizer PROVE HoldInv'
<1> DEFINE k == job.key
           v == [log[k][job.rv] EXCEPT !.ours = TRUE]
<1>1. /\ k \in Keys /\ job.rv \in 1 .. Len(log[k])
      /\ pc = "finalize" /\ UNCHANGED <<forced, at>>
  BY UpdateStep DEF AddFinalizer
<1>2. v \in Version /\ Kept(v)
  <2>1. log[k][job.rv] \in Version
    BY <1>1, LastVersion DEF TypeOK, Versions
  <2>2. v \in Version
    BY <2>1, VersionsAreRecords
  <2>3. v.ours
    BY <2>1 DEF Version
  <2> QED
    BY <2>2, <2>3, VersionsAreRecords DEF Kept
<1>3. UNCHANGED log \/ log' = [log EXCEPT ![k] = Append(@, v)]
  BY DEF AddFinalizer, Unanswered
<1>4. FinalizerLasts' /\ (\A j \in Keys : Last(j)' = Last(j) \/ Kept(Last(j)'))
  <2>1. CASE UNCHANGED log
    BY <1>1, <2>1 DEF HoldInv, FinalizerLasts, Last
  <2>2. CASE log' = [log EXCEPT ![k] = Append(@, v)]
    BY <1>1, <1>2, <2>2, AppendLasts, LastAfter DEF HoldInv, Versions
  <2> QED
    BY <1>3, <2>1, <2>2
<1>5. CASE pc' = "idle" /\ UNCHANGED mapped
  BY <1>1, <1>4, <1>5 DEF HoldInv, JobIsCached, Held
<1>6. CASE /\ log' = [log EXCEPT ![k] = Append(@, v)]
           /\ pc' = "sync" /\ job'.key = k /\ UNCHANGED mapped
  <2>1. Kept(Last(k)')
    BY <1>1, <1>2, <1>6, LastAfter DEF Versions
  <2> QED
    BY <1>1, <1>4, <1>6, <2>1 DEF HoldInv, JobIsCached, Held
<1> QED
  BY <1>1, <1>5, <1>6
  DEF AddFinalizer, Unanswered, Again, Done, Process, trackerVars

\* RemoveFinalizer: the object goes after its tracker left the map.
LEMMA RemoveFinalizerHolds == ASSUME TypeOK, HoldInv, RemoveFinalizer PROVE HoldInv'
<1> DEFINE k == job.key
<1>1. /\ k \in Keys /\ job.rv \in 1 .. Len(log[k])
      /\ pc = "release" /\ pc' = "idle" /\ UNCHANGED <<forced, at, mapped>>
  BY UpdateStep DEF RemoveFinalizer, Unanswered, Again, Done, trackerVars
<1>2. job.rv <= at[k] /\ log[k][job.rv].deleting /\ mapped[k] = 0
  BY <1>1 DEF HoldInv, JobIsCached
<1>3. CASE UNCHANGED log
  BY <1>1, <1>3 DEF HoldInv, JobIsCached, FinalizerLasts, Held, Last
<1>4. ASSUME NEW v \in Versions, job.rv = Len(log[k]),
             log' = [log EXCEPT ![k] = Append(@, v)]
      PROVE  HoldInv'
  <2>1. at[k] = Len(log[k]) /\ ~Wanted(Last(k))
    <3>1. at[k] \in 1 .. Len(log[k]) /\ Len(log[k]) \in Nat /\ job.rv \in Nat
      BY <1>1, LastVersion DEF TypeOK
    <3> QED
      BY <1>2, <1>4, <3>1 DEF Wanted, Last
  <2>2. FinalizerLasts'
    BY <1>1, <1>4, <2>1, AppendLasts DEF HoldInv
  <2>3. Held'
    BY <1>1, <1>2, <1>4, LastAfter DEF HoldInv, Held
  <2> QED
    BY <1>1, <2>2, <2>3 DEF HoldInv, JobIsCached
<1> QED
  BY <1>3, <1>4, UpdateStep

\* Every other step writes no version and tracks nothing new.
LEMMA OtherHolds ==
    ASSUME TypeOK, HoldInv,
           \/ Synced \/ Crash \/ UNCHANGED vars
           \/ \E k \in Keys : Deliver(k) \/ RetryDue(k) \/ \E r \in {mapped[k]} : Populate(k, r)
    PROVE  HoldInv'
<1>1. ASSUME UNCHANGED log PROVE \A j \in Keys : Last(j)' = Last(j)
  BY <1>1 DEF Last
<1>2. CASE Synced
  <2>1. /\ UNCHANGED <<log, at, forced>> /\ pc = "sync" /\ pc' = "idle"
        /\ mapped' = [mapped EXCEPT ![job.key] = job.rv] /\ mapped \in [Keys -> Nat]
    BY <1>2 DEF Synced, serverVars, Done, TypeOK
  <2> QED
    BY <1>1, <2>1 DEF HoldInv, JobIsCached, FinalizerLasts, Held
<1>3. CASE Crash
  <2>1. /\ UNCHANGED <<log, forced>> /\ pc' = "idle" /\ mapped' = [k \in Keys |-> 0]
        /\ at' = [k \in Keys |-> Len(log[k])]
    BY <1>3 DEF Crash, Done, serverVars
  <2>2. FinalizerLasts'
    <3>1. \A k \in Keys : Len(log[k]) \in Nat
      BY LastVersion
    <3> QED
      BY <2>1, <3>1 DEF FinalizerLasts, Wanted, Kept
  <2> QED
    BY <2>1, <2>2 DEF HoldInv, JobIsCached, Held
<1>4. CASE UNCHANGED vars
  BY <1>4 DEF vars, serverVars, trackerVars, HoldInv, JobIsCached, FinalizerLasts, Held, Last
<1>5. ASSUME NEW k \in Keys, Deliver(k) PROVE HoldInv'
  <2>1. /\ UNCHANGED <<log, forced, pc, job, mapped>>
        /\ \A j \in Keys : at[j] \in Nat /\ at'[j] \in Nat /\ at[j] <= at'[j]
    BY <1>5 DEF Deliver, serverVars, trackerVars, TypeOK
  <2>2. pc \in {"finalize", "release"} => job.key \in Keys /\ job.rv \in Nat
    BY DEF TypeOK
  <2>3. FinalizerLasts'
    <3>1. \A j \in Keys : Len(log[j]) \in Nat
      BY LastVersion
    <3> QED
      BY <2>1, <3>1 DEF HoldInv, FinalizerLasts
  <2> QED
    BY <1>1, <2>1, <2>2, <2>3 DEF HoldInv, JobIsCached, Held
<1>6. ASSUME NEW k \in Keys, RetryDue(k) \/ \E r \in {mapped[k]} : Populate(k, r)
      PROVE  HoldInv'
  <2>1. UNCHANGED <<log, forced, at, pc, job, mapped>>
    BY <1>6 DEF RetryDue, Populate, serverVars, trackerVars
  <2> QED
    BY <1>1, <2>1 DEF HoldInv, JobIsCached, FinalizerLasts, Held
<1> QED
  BY <1>2, <1>3, <1>4, <1>5, <1>6

\* TrackedIsHeld holds in every reachable state: no sequence of edits, conflicts,
\* lost answers and crashes lets an object go while it is tracked.
THEOREM TrackedAreHeld == Spec => []TrackedIsHeld
<1>1. Init => HoldInv
  BY DEF Init, HoldInv, JobIsCached, FinalizerLasts, Held, Wanted, Kept
<1>2. TypeOK /\ HoldInv /\ [Next]_vars => HoldInv'
  BY UserHolds, GetHolds, AddFinalizerHolds, RemoveFinalizerHolds, OtherHolds
  DEF Next, WorkerStep
<1>3. HoldInv => TrackedIsHeld
  BY DEF HoldInv, Held, TrackedIsHeld, Kept
<1> QED
  BY <1>1, <1>2, <1>3, ControllerTypeCorrect, PTL DEF Spec
-----------------------------------------------------------------------------
(* TrackerNeverGoesBack.  The version that comes back when the finalizer is  *)
(* added is ahead of the cache by one, and what the cache shows then lacks   *)
(* the finalizer: Reconcile cannot make a tracker from that.                 *)

\* The cache has seen version r, or the one before it, which lacks the finalizer: version r
\* is then the Update that added it.
CaughtUp(k, r) == at[k] >= r \/ (at[k] + 1 = r /\ ~Kept(Cached(k)))

\* The finalizer goes on an object that lacks it, at a position the tracker in the
\* map is ahead of by one at most; the tracker being made is not older than that one.
JobIsAhead ==
    /\ pc = "finalize" => /\ job.rv <= at[job.key] /\ mapped[job.key] <= job.rv + 1
                          /\ ~Kept(log[job.key][job.rv])
    /\ pc = "sync" => CaughtUp(job.key, job.rv) /\ mapped[job.key] <= job.rv

\* The inductive invariant of TrackerNeverGoesBack: no tracker is ahead of the cache.
OrderInv == JobIsAhead /\ \A k \in Keys : CaughtUp(k, mapped[k])

\* What the cache has seen of an object stays seen.
LEMMA CaughtUpLasts ==
    ASSUME TypeOK, LogOnlyGrows, NEW k \in Keys, NEW r \in Nat, CaughtUp(k, r),
           at'[k] = at[k] \/ at'[k] = at[k] + 1
    PROVE  CaughtUp(k, r)'
<1>1. at[k] \in Nat /\ at[k] \in 1 .. Len(log[k])
  BY DEF TypeOK
<1>2. log'[k][at[k]] = log[k][at[k]]
  BY <1>1 DEF LogOnlyGrows
<1> QED
  BY <1>1, <1>2 DEF CaughtUp, Cached, Kept

\* A step that keeps the map and the job, or drops the job, keeps the order.
LEMMA OrderLasts ==
    ASSUME TypeOK, OrderInv, LogOnlyGrows, UNCHANGED mapped,
           UNCHANGED <<pc, job>> \/ pc' = "idle",
           \A k \in Keys : at'[k] = at[k] \/ at'[k] = at[k] + 1
    PROVE  OrderInv'
<1>1. mapped \in [Keys -> Nat]
  BY DEF TypeOK
<1>2. \A k \in Keys : CaughtUp(k, mapped[k])'
  BY <1>1, CaughtUpLasts DEF OrderInv
<1>3. ASSUME UNCHANGED <<pc, job>>, pc \in {"finalize", "sync"} PROVE JobIsAhead'
  <2>1. job.key \in Keys /\ job.rv \in Nat /\ job.rv \in 1 .. Len(log[job.key])
    BY <1>3 DEF TypeOK
  <2>2. log'[job.key][job.rv] = log[job.key][job.rv] /\ at[job.key] \in Nat
    BY <2>1 DEF LogOnlyGrows, TypeOK
  <2>3. CaughtUp(job.key, job.rv) => CaughtUp(job.key, job.rv)'
    BY <1>3, <2>1, CaughtUpLasts
  <2> QED
    BY <1>3, <2>1, <2>2, <2>3 DEF OrderInv, JobIsAhead, Kept
<1> QED
  BY <1>2, <1>3 DEF OrderInv, JobIsAhead

\* Get: a version that has the finalizer is not behind the tracker in the map.
LEMMA GetOrders == ASSUME TypeOK, OrderInv, Get PROVE OrderInv'
<1> DEFINE k == Head(queue)
           v == Cached(k)
<1>1. k \in Keys /\ at[k] \in Nat /\ mapped \in [Keys -> Nat]
  BY DEF Get, TypeOK
<1>2. UNCHANGED <<log, at>> /\ LogOnlyGrows
  BY StutterKeeps DEF Get, serverVars
<1>3. CaughtUp(k, mapped[k])
  BY <1>1 DEF OrderInv
<1>4. CASE pc' = "idle" /\ UNCHANGED mapped
  BY <1>2, <1>4, OrderLasts
<1>5. CASE /\ v # Absent /\ ~v.ours
           /\ pc' = "finalize" /\ job' = [key |-> k, rv |-> at[k]]
  <2>1. UNCHANGED mapped
    BY <1>5 DEF Get, trackerVars, Done
  <2>2. ~Kept(log[k][at[k]]) /\ mapped[k] <= at[k] + 1
    BY <1>1, <1>3, <1>5 DEF Cached, Kept, CaughtUp
  <2> QED
    BY <1>1, <1>2, <1>5, <2>1, <2>2 DEF OrderInv, JobIsAhead, CaughtUp, Cached, Kept
<1>6. CASE v # Absent /\ v.ours /\ Process(k, v, at[k])
  <2>1. CASE /\ pc' = "release" /\ mapped' = [mapped EXCEPT ![k] = 0]
    BY <1>1, <1>2, <2>1 DEF OrderInv, JobIsAhead, CaughtUp, Cached, Kept
  <2>2. CASE pc' = "sync" /\ job' = [key |-> k, rv |-> at[k]] /\ UNCHANGED mapped
    <3>1. mapped[k] <= at[k]
      BY <1>1, <1>3, <1>6 DEF CaughtUp, Kept
    <3> QED
      BY <1>1, <1>2, <2>2, <3>1 DEF OrderInv, JobIsAhead, CaughtUp, Cached, Kept
  <2> QED
    BY <1>4, <1>6, <2>1, <2>2 DEF Process, Done, Again, trackerVars
<1> QED
  BY <1>4, <1>5, <1>6 DEF Get, Done, trackerVars

\* AddFinalizer: Reconcile goes on with the version after the one it holds.
LEMMA AddFinalizerOrders == ASSUME TypeOK, OrderInv, AddFinalizer PROVE OrderInv'
<1> DEFINE k == job.key
           v == [log[k][job.rv] EXCEPT !.ours = TRUE]
<1>1. /\ k \in Keys /\ job.rv \in 1 .. Len(log[k]) /\ job.rv \in Nat
      /\ pc = "finalize" /\ UNCHANGED at /\ at[k] \in 1 .. Len(log[k])
      /\ Len(log[k]) \in Nat /\ LogOnlyGrows
  BY UpdateStep, AppendKeeps, StutterKeeps, LastVersion DEF AddFinalizer, TypeOK
<1>2. CASE pc' = "idle" /\ UNCHANGED mapped
  BY <1>1, <1>2, OrderLasts
<1>3. CASE Current(k) /\ ~v.deleting /\ Process(k, v, job.rv + 1)
  <2>1. CASE pc' = "sync" /\ job' = [key |-> k, rv |-> job.rv + 1] /\ UNCHANGED mapped
    <3>1. /\ job.rv <= at[k] /\ mapped[k] <= job.rv + 1 /\ ~Kept(log[k][job.rv])
      BY <1>1 DEF OrderInv, JobIsAhead
    <3>2. at[k] = job.rv
      BY <1>1, <1>3, <3>1 DEF Current
    <3>3. CaughtUp(job.key, job.rv)'
      <4>1. log'[k][job.rv] = log[k][job.rv]
        BY <1>1 DEF LogOnlyGrows
      <4>2. job'.key = k /\ job'.rv = job.rv + 1
        BY <2>1
      <4> QED
        BY <1>1, <3>1, <3>2, <4>1, <4>2 DEF CaughtUp, Cached, Kept
    <3>4. \A j \in Keys : CaughtUp(j, mapped[j])'
      BY <1>1, <2>1, CaughtUpLasts DEF OrderInv, TypeOK
    <3> QED
      BY <2>1, <3>1, <3>3, <3>4 DEF OrderInv, JobIsAhead
  <2> QED
    BY <1>2, <1>3, <2>1 DEF Process, Done, Again, trackerVars
<1> QED
  BY SMTT(30), <1>1, <1>2, <1>3 DEF AddFinalizer, Unanswered, Again, Done, trackerVars

\* The order after any step, and what becomes of a tracker in the map.
LEMMA OrderStep ==
    ASSUME TypeOK, OrderInv, [Next]_vars
    PROVE  /\ OrderInv'
           /\ \A k \in Keys : mapped[k] # 0 /\ mapped'[k] # 0 => mapped'[k] >= mapped[k]
<1> DEFINE Forward == \A k \in Keys : mapped[k] # 0 /\ mapped'[k] # 0
                                         => mapped'[k] >= mapped[k]
<1>1. /\ mapped \in [Keys -> Nat] /\ at \in [Keys -> Nat]
      /\ \A k \in Keys : at[k] \in 1 .. Len(log[k])
  BY DEF TypeOK
<1>2. ASSUME UNCHANGED mapped PROVE Forward
  BY <1>1, <1>2
<1>3. CASE Get
  <2>1. Forward
    BY SMTT(30), <1>1, <1>3 DEF Get, Process, Done, Again, trackerVars
  <2> QED
    BY <1>3, <2>1, GetOrders
<1>4. CASE AddFinalizer
  <2>1. job.key \in Keys
    BY <1>4, UpdateStep
  <2>2. Forward
    BY <1>1, <1>4, <2>1 DEF AddFinalizer, Unanswered, Process, Again, Done, trackerVars
  <2> QED
    BY <1>4, <2>2, AddFinalizerOrders
<1>5. CASE RemoveFinalizer
  <2>1. LogOnlyGrows
    BY <1>5, UpdateStep, AppendKeeps, StutterKeeps
  <2> QED
    BY <1>2, <1>5, <2>1, OrderLasts
    DEF RemoveFinalizer, Unanswered, Again, Done, trackerVars
<1>6. CASE Synced
  <2>1. /\ UNCHANGED <<log, at>> /\ pc = "sync" /\ pc' = "idle"
        /\ mapped' = [mapped EXCEPT ![job.key] = job.rv]
        /\ job.key \in Keys /\ job.rv \in Nat
    BY <1>6 DEF Synced, serverVars, Done, TypeOK
  <2> QED
    BY <1>1, <2>1 DEF OrderInv, JobIsAhead, CaughtUp, Cached, Kept
<1>7. CASE Crash
  <2>1. /\ UNCHANGED log /\ pc' = "idle" /\ mapped' = [k \in Keys |-> 0]
        /\ at' = [k \in Keys |-> Len(log[k])] /\ \A k \in Keys : Len(log[k]) \in Nat
    BY <1>7, LastVersion DEF Crash, Done, serverVars
  <2> QED
    BY <2>1 DEF OrderInv, JobIsAhead, CaughtUp
<1>8. CASE Users
  <2>1. PICK k \in Keys, v \in Versions : Write(k, v)
    BY <1>8, UserStep
  <2>2. LogOnlyGrows /\ UNCHANGED <<mapped, at, pc, job>>
    BY <2>1, AppendKeeps DEF Write, trackerVars
  <2> QED
    BY <1>2, <2>2, OrderLasts
<1>9. CASE UNCHANGED vars
  BY <1>2, <1>9, StutterKeeps, OrderLasts DEF vars, serverVars, trackerVars
<1>10. ASSUME NEW k \in Keys,
              Deliver(k) \/ RetryDue(k) \/ \E r \in {mapped[k]} : Populate(k, r)
       PROVE  OrderInv' /\ Forward
  <2>1. /\ UNCHANGED <<log, mapped, pc, job>>
        /\ \A j \in Keys : at'[j] = at[j] \/ at'[j] = at[j] + 1
    BY <1>1, <1>10 DEF Deliver, RetryDue, Populate, serverVars, trackerVars
  <2> QED
    BY <1>2, <2>1, StutterKeeps, OrderLasts
<1> QED
  BY <1>3, <1>4, <1>5, <1>6, <1>7, <1>8, <1>9, <1>10 DEF Next, WorkerStep

\* No step replaces a tracker by one made from an earlier version: Reconcile works
\* on what the cache shows, and a cache that is behind shows no finalizer.
THEOREM TrackersNeverGoBack == Spec => TrackerNeverGoesBack
<1>1. Init => OrderInv
  BY DEF Init, OrderInv, JobIsAhead, CaughtUp
<1>2. TypeOK /\ OrderInv /\ [Next]_vars => OrderInv'
  BY OrderStep
<1>3. TypeOK /\ OrderInv /\ [Next]_vars =>
        [\A k \in Keys : mapped[k] # 0 /\ mapped'[k] # 0 => mapped'[k] >= mapped[k]]_vars
  BY OrderStep
<1> QED
  BY <1>1, <1>2, <1>3, ControllerTypeCorrect, PTL DEF Spec, TrackerNeverGoesBack
=============================================================================
