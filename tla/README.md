# Verification of kube-stack in TLA+

kube-stack is a Kubernetes operator: one process that runs several controllers and
a validating webhook over the caches and clients of controller-runtime. This
directory models the parts of it that keep state and run concurrently, checks them
with TLC on small instances, and proves with TLAPS what matters most for all
instances. Paths below are relative to the repository.

## 1. Inventory

| Component | Source | State it keeps | Operations | What makes it hard |
|---|---|---|---|---|
| State machine of a transition config | `controllers/slo/resource_state.go:42-120,169-209`, `apis/slo/v1beta1/requirement.go` | none (pure) | build the table, look an event up, derive events from a diff | wildcards, precedence, the default deletion event, absent values |
| Tracker | `controllers/slo/resource_reconciler.go`, `resource_state.go` | queue, `resourceMap` by UID, for each object a channel, a machine, `Stopped`, `stopCh` | informer handlers, 16 workers, sweeper, dispatcher and timer of each object | everything concurrent and unlocked: reordering, check-then-act, double close, nil `Resource`, full channel; objects that leave the selector and come back before the sweep |
| State metrics | `controllers/slo/metrics.go` | a counter and a gauge per state | Inc and Dec in the callback | many goroutines, halves of a move |
| ResourceStateTransition controller | `controllers/slo/resourcestatetransition_controller.go` | `reconcilerMap` | Reconcile: finalizer, deletion, make or replace the tracker | stale cache, conflicts, lost answers, restart, a constructor that blocks |
| Pod limiter | `webhooks/pods/plugins/podlimiter/limiter.go`, `webhooks/pods/validatingwebhook.go`, `controllers/podlimiter/` | indices built at start, gauges | Validate, addIndex, gauge loop | concurrent requests over a late cache, stale selectors, exits |
| PodMarker | `controllers/podmarker/podmarker_controller.go` | labels on pods | Reconcile: label pass, mark pass | updates of stale copies, errors half way, ties in age, one label written from two sources |
| CentralProbe | `controllers/centralprobe/centralprobe_controller.go`, `status_manager.go` | prober workers (memory), statuses (API server), a channel of results | Reconcile; `updatePodStatus`; `GetPodStatus` | memory and statuses drift apart on conflicts, restarts, reused names; workers that end later; a pointer they share; results dropped or old when written |
| WatchSLO, event counters | `controllers/slo/watchslo_controller.go`, `reconciler.go` | a map of counters and one of delay trackers, a queue per counter | Reconcile; informer handlers, workers, Stop | keys that configs share, edits and deletions between steps, a tracker without its counter |
| Watch delay tracker | `controllers/slo/watch_delay_tracker.go` | a set of timestamps, a label of a shared object | patch loop, watch loop, Stop | two goroutines, no lock, broken watches, patches without an answer |
| Debug store and its pages | `controllers/core/*.go`, `pkg/utils/leveldb.go`, `pkg/debugapi/*.go` | LevelDB tables of documents and of the ways to them | Event, Node and Pod reconcilers; handlers that read | order of writes, crashes between them, ignored errors, names without a namespace |
| Mutating webhook, `main.go`, helpers, generated code, charts | `webhooks/pods/mutatingwebhook.go`, ... | none | I/O, wiring | - |

How they interact. The ResourceStateTransition controller makes one tracker per
object and stops it; a tracker's goroutines share its map and the state of each
tracked object, and all trackers share the process-wide metrics. The webhook shares
with the limiter's controller only the indices of the pod cache. PodMarker and
CentralProbe share nothing in memory; both are woken by every pod of a namespace.
CentralProbe's Reconcile starts and stops the prober's workers, whose results its
`updatePodStatus` takes from a channel. The WatchSLO controller starts and stops
counters and delay trackers; the delay trackers of objects with one target meet in its
label. The debug pages meet the reconcilers in LevelDB.
All of them meet at the API server: they read from informer caches that are behind
it, and write with optimistic concurrency.

What makes each correct, in a sentence: the tracker agrees with the cluster about
which objects exist and in which state they are; the metrics are a census of the
machines; a ResourceStateTransition object never disappears before its tracker and
ends up with the tracker of its last version; the limiter admits no more pods than a
rule says; PodMarker writes labels and nothing else, and comes to rest with the labels
and marks its spec asks for; CentralProbe probes the selected pods, can stop every worker it
started, and leaves in a pod the last result the worker had; what a WatchSLO object
configures is watched, what is deleted is stopped, and each delay is observed once; the
debug pages are whole at any moment, and no event is forgotten. The places where each could go wrong are listed in `PROJECT.json` under
`hazards`, each with the properties that cover it.

## 2. Modules

| Module | Models | Checked by | Proofs |
|---|---|---|---|
| `TransitionTable` | the table and the lookup of looplab/fsm in it | through the tracker | `ResourceTrackerProofs` |
| `ChangeEvents` | `parseEvents`, `Requirement.Matches` | through the tracker | |
| `ResourceTracker` | one tracker with all its goroutines | `tracker_*` | `ResourceTrackerProofs` |
| `TransitionMetrics` | abstract: gauges are a census of machines walking the table | `tracker_machine` | `ResourceTrackerProofs` |
| `TransitionController` | the controller of the objects | `controller` | `TransitionControllerProofs` |
| `PodLimiter` | webhook, indices, gauges | `limiter_*` | `PodLimiterProofs` |
| `PodMarker` | the PodMarker controller in one namespace | `marker` | `PodMarkerProofs` |
| `Prober` | external: the kubelet's prober manager, its map and its goroutines | through CentralProbe | |
| `CentralProbe` | Reconcile of the CentralProbe controller in one namespace | `probe`, `probe_alias` | `CentralProbeProofs` |
| `ProbeStatus` | `updatePodStatus`, and one worker with its results | `probe_status` | `ProbeStatusProofs` |
| `WatchDelay` | the delay trackers of a process | `watchslo` | `WatchSLOProofs` |
| `WatchSLO` | the WatchSLO controller and its event counters | `watchslo` | `WatchSLOProofs` |
| `DebugStore` | the store's reconcilers, and what the pages find in it | `debug_store` | `DebugStoreProofs` |

`ResourceTracker` extends `TransitionTable` and `ChangeEvents` and instantiates
`TransitionMetrics` with a refinement mapping (`current <- [i \in Born |-> fsm[i]]`).
`TransitionController` sees a tracker as its informer (`informers`) and the fact that
it has ResourceStates that count (`populated`); what happens inside one is
`ResourceTracker`, whose action `Stop` is the step that the controller takes.
`CentralProbe` extends `Prober`, whose operators are the calls it makes, and `WatchSLO`
extends `WatchDelay`: its actions start and stop the trackers whose loops run beside it.
`ProbeStatus` sees `CentralProbe` as workers that come and go. The
`MC...` modules give the instances: samples of the repository's own configuration for
the tracker, small lists of rules and specs elsewhere.

Definitions whose comment begins with "Seeded fault" are not part of a specification.
Each is a plausible mistake in the definition that follows it, and shows that the
property it is paired with in `PROJECT.json` can fail.

### Conventions shared by the models

* A step is what a goroutine does between two accesses to state that another one can
  change: a call of the API server, a lookup in a shared map, a send, a read of
  `Stopped`. Several lines without such an access are one step.
* An informer cache is the sequence of versions that the API server has and a position
  in it (`at`), or the versions still to come (`news`). A cache is late and never
  reordered; the caches of two objects are independent.
* An update is accepted only when it is of the last version (`Current`, `held`). A
  failed update has two more forms: refused, or unanswered, and then it may have taken
  effect.
* A process that ends loses its memory, and its caches list what exists when it starts
  again. In `ResourceTracker` it ends by a panic of its own.
* Contents are abstracted to what the code tests: an object tracked is the values at
  the paths that the requirements name; a pod of the limiter is its shape, and the two
  selectors of a rule the set of shapes they match; a pod of a marker is one field and
  its labels.

### ResourceTracker

`queue`, `delayed`: the workqueue. `pc`, `taken`, `target`, `older`: where each worker
is in `processNextWorkItem` and `Reconcile`. `owner`: the ResourceStates, numbered in
the order of `CreateTime`, each with its UID. `resourceMap`, `resource`, `incoming`,
`stopped` (the flag and the closed channel), `fsm`: the fields of that name. `running`,
`pending`: `StartDispatching` and the events it has parsed. `timer`: `StartTimer`.
`closer`: the goroutine that is inside the `enter_state` callback between the test of
`Stopped` and the close of `stopCh`; looplab/fsm holds its event mutex there.
`sweepList`: the rest of the list the sweeper is visiting. `panic`: the name whose handling
crashed the process, or `Handler` when it was the informer's.

Three variables are history. `disturbed`: the names of which two workers had events at once
(`Take`), or whose DELETE found the ResourceState of another object (`ByIndex`); no other
action adds to it, neither a crash nor anything the informer does. `told`: the objects whose
ADD (or Update, in the place of another object) the handlers have heard, and not their
DELETE. `returned`: those told again while the tracker had still a ResourceState of their
earlier life in the map, or an item under way (`InHand`).

| Code | Actions |
|---|---|
| `AddFunc`, `UpdateFunc`, `DeleteFunc`, `Enqueue` | `InformerAdd`, `InformerUpdate`, `InformerDelete`, `InformerReplace`, `InformerTombstone` |
| `processNextWorkItem`, `Reconcile` | `Take`; `ByIndex`; `LookupHit`, `LookupMiss`, `LookupFails`; `AddState`; `RetryDue` |
| `EnqueueEvent` | `Check`, `Send` |
| older namesakes of a DELETE | `StopOlder`, `CloseOlder`, `UnmapOlder` |
| `StartDispatching` | `Receive`, `FireNext`, `ExitDispatcher` |
| `enter_state` callback | `EnterState`, `CloseSelf` |
| `StartTimer` | `TimerFires`, `TimerStops` |
| sweeper | `SweepTick`, `SweepVisit` |
| `Stop` | `Stop` |

### TransitionController

`log[k]` is the history of object k, a resourceVersion is a position in it, and `at[k]`
is how far the cache is. `pc` is `"finalize"` at the first `Update`, `"release"` at the
second, `"sync"` in `WaitForCacheSync`. `Process` is lines 76-119, reached from `Get`
when the object has the finalizer and from `AddFinalizer` with the version that came
back from the update. `leaks` counts the sweepers of constructors that failed.

### PodLimiter

A rule has a name, a selector (a set of shapes), a threshhold, whether it is enabled,
and whether its label selector parses. `index` maps an index name to the selector it
was built with; it never changes while the process is up, as in the code. A request
takes the list of rules when it arrives (`asked`) and reads the cache once per rule
(`passed` is its place in the loop), and `Persist` is the API server creating the pod
after the answer. Updates of pods pass unseen: the webhook allows them without a look.

### PodMarker

`todo` is the list of markers, `list` the sorted pods of the one in process, `copy` the
copies in it, which the code changes before it sends them, and `held` the copies that
are still the last version. A marker has one entry in `addLabels`, and `label` is the label
of its key: `FromPod` writes it, and `FromNode` then writes it again, with the test of the
node's error as the code has it. `Relabelled` is the flag `changed`, which is set by the
first write even when the second undoes it; `Store` is the update that then changes
nothing. `nodeFound` is whether the Get of the node succeeds; it changes at any moment
(`NodeChanges`) and wakes nobody. `blind` is history: the pods of a marker whose node was
needed and not found when the label pass last looked. `Wanted` is the distribution of
marks.

### CentralProbe

`registered` and `running` (module `Prober`) are the prober's map of workers and its
goroutines. A goroutine keeps the UID it was added for (`key`), the UID of the pod that
its pointer leads to (`pod`), whether the map still leads to it, and whether it was told
to stop; `WorkerExits` comes later, as in the code, and takes the entry of `pod` out of
the map, not that of `key`. `AddAndRemove` is the loop of AddPod, where all new workers
get one pointer, and the RemovePods after it. `statuses` maps pod names to UIDs.
`orphans` is history: UIDs not in the status when their turn ended, because the name was
used again or the update failed. `spoiled` is history: UIDs whose last AddPod left them
without a worker of their own, because an old worker was about to end or because of the
pointer.

| Code | Actions |
|---|---|
| `Reconcile`: list of the objects; ten seconds after an error | `Begin`, `End`; `RetryDue` |
| `processCentralProbe` up to its first call | `Process` (with `Register`, `Calls`) |
| `Update` of the finalizer | `AddFinalizer`, `RemoveFinalizer` |
| `Status().Update` | `UpdateStatus` |
| the prober's goroutines | `WorkerEnds` |

### ProbeStatus

One pod. `pc`, `copy` and `ready` are where the loop over `readinessManager.Updates()` is:
`Receive` lists the pod by its UID, `CheckNode` reads the node and its heartbeat,
`Compute` asks the prober for the readiness (by the result there is then), `Write` is
`Status().Update`. `dropped` is history: the last result was not written, or somebody
else wrote the status since. `Probe` and `Send` are the worker, whose channel holds
`Capacity` results.

### WatchSLO and WatchDelay

The object is its log of versions, as in TransitionController. `pc` is `"config"` in the
loop over the configs, `"sync"` in `WaitForCacheSync`, `"clean"` and `"release"` in the
deletion. `MakeTracker`, `MakeCounter`, `Synced` and `Skip` are the parts of one turn of
the loop. `event` says where each event of the cluster is: in the queue of a counter,
counted, in a queue that is being drained after Stop, or missed. `patching`, `watching`,
`stopCh` and `unconfirmed` are the state of the delay trackers; `Tick`, `Patch` and
`PatchLoopEnds` are the first loop, `List`, `Event`, `WatchBreaks` and `WatchLoopEnds` the
second. The target object is its sequence of labels (`versions`).

### DebugStore

`docs`, `index`, `eventDocs` and `eventsOf` are the LevelDB tables; `job` is what each of
the three workers has in hand between two calls of the store. `SaveDoc`, `SaveIndex`,
`SaveEvent`, `ReadEvents` and `WriteEvents` are one call each; each may fail, and the
code goes on in every case. `unwritten` is history: the entries of which the last write
failed. `Page`, `Shown` and `DebugPod` are what the handlers of `pkg/debugapi` answer.

## 3. What the runs check, and their bounds

| Run | Instance | States | Question |
|---|---|---|---|
| `tracker_races` | 2 workers, 2 objects of one name, 3 versions, 2 ResourceStates, channel of 1, no timer | 1.6 M | which orders of events can break the tracker |
| `tracker_machine` | 1 worker, 1 object with two contents, timer, failing patches, Stop | 353 k | the machine and the metrics |
| `tracker_liveness` | 2 workers, 1 object, timer, fairness | 63 k | what must happen in the end |
| `controller` | 1 object, 3 specs (works, unknown kind, unlistable), 5 versions, 1 failure, 1 crash | 168 k | deletion, replacement, convergence |
| `limiter_admission` | 2 requests, 2 pods, 2 shapes, 3 rule lists, crashes | 1.35 M | admission |
| `limiter_liveness` | 2 pods, 4 rule lists, no requests, fairness | 24 k | gauges, restart |
| `marker` | 2 pods, 1 marker, 2 specs, a node, 3 acts of users or the node, 1 failure or crash | 445 k | no lost or undone change, rest |
| `probe` | 1 pod name, 2 pods in turn, 2 objects, 4 acts, 1 failure or crash, fairness | 166 k | statuses, workers, deletion |
| `probe_alias` | 2 pods, 1 object, 3 acts, no failure | stops at the counterexample | is every selected pod probed (section 6) |
| `probe_status` | 1 pod, channel of 2, 5 acts of others, 1 failure or crash, fairness | 136 k | which result ends up in the pod |
| `watchslo` | 3 configs on 2 keys, 2 specs, 5 versions, 2 delay trackers, 1 event, 1 patch, 1 failure or crash | 1.92 M | watched, stopped, observed once |
| `debug_store` | pod, namesake, node, 2 events, 4 acts, 1 failing call, 1 crash | 2.19 M | whole pages, nothing forgotten |

Why they are enough. The races of the tracker are between two events of one name; three
versions and two ResourceStates allow a re-creation under the same name while the first
object is still being worked on, a channel of one is full after one send, and two
workers are two goroutines that meet. More of each repeats the same pairs. The
controller has one worker, so objects interact only through the time it spends; one
object with five versions has an edit before, during and after each step of Reconcile,
and the hang in `WaitForCacheSync` is stated as a condition (`Hung`) that in the code
holds for all objects together. Two requests and two pods let one request meet another
one or a write; the rule lists have two limits on one pod, a stale selector, a disabled
rule, an unparsable one, and two with one index name. Two pods have an order of age and
a tie; a weight of 50 gives the second of two a mark and a lone pod none. That shares and
replicas are right in longer lists is `WantedShares`, an assumption of `MCPodMarker` that TLC
evaluates before the run: for up to two entries and four pods, `Wanted` gives each entry its
replicas, or its share rounded down, counted without `Wanted`. The label of the first spec has
both sources, as in README.md:82-84, so that the node goes before, between and after the
looks at a pod that has its value already. Four acts and
two UIDs let a pod be re-created while two objects share it.
Five acts let health and heartbeat change twice around one write, and a channel of two is
full while a third result waits. Two of the three configs share a key and one of them has
a target, so that an edit meets a counter and a tracker made for another config; two
trackers follow each other after a deletion or a restart, and the object they share is
touched by others. Two events of one subject and one failing call are what it takes to
lose an event, and one crash between a document and its entry what it takes to break a
page. TLC's bounds
(`Max...` constants) only disable acts of users, new versions or failures, except
`MaxStates`, which stops a worker that would create one ResourceState more than the
instance has: the liveness run has one object and two instances, so that it does not
bite there unless two workers race, and the property allows for that (`disturbed`), or the
object comes back after a sweep, for which there is an instance left.
`Trackers` of `WatchSLO` is of that kind too: with all of them made, Reconcile waits where it
would make one more, and is not at rest.

Deadlock checking is off in every run: when users do nothing more, a controller at rest
is where it should be.

Properties, by component:

* Tracker. `UndisturbedTracking`: as long as no two workers had events of a name at once and
  no DELETE of it found another object's ResourceState, the tracker once settled agrees with
  what the informer's handlers were told of every object of the name, with one exception: an
  object that left the selector and came back too early (`returned`) may be tracked by
  nothing (`Lost`; section 6), and never by an ended machine beside a living one or with an old
  version. A machine of a deleted object may have stayed in BeginState (`Released`).
  `PanicsOnlyWhenDisturbed` says the same of the crashes of workers, sweeper and dispatchers;
  the informer's handler is crashed by any DeletedFinalStateUnknown, and the property says
  nothing of it. `VersionsAdvance` says it of versions. They are conditional because the code
  is not correct without the condition: with 16 workers the condition is luck, and removing
  it from any of the three gives TLC a counterexample within a few steps.
  `DeletedGetsStopped`, `DeletedIsTerminal`,
  `DeletedIsReclaimed`: the end of a machine. `MetricsAreACensus`: refinement.
  `SendEnds`, `VersionsArrive`: nothing is stuck except behind a stopped dispatcher, and a
  version that is not lost arrives.
* Controller. `InformersAccounted`, `TrackedIsHeld`, `TrackerNeverGoesBack`,
  `DeletionCompletes`, `TrackerFollows`.
* Limiter. `AloneWithinLimit` (one more than the threshhold, which is what the code
  promises), `GaugeFollows` (the process comes up again unless the rules cannot be indexed,
  and its gauges come to show the eligible pods). Concurrent requests, a late cache, updates and
  stale indices all get past the limit; the property says when it does hold.
* PodMarker. `RestIsMarked`: the marks are the distribution over the pods as they are, and
  the label is the pod's value, or empty where the node was not found at the last look,
  whatever `valueFromPod` finds. `OthersAreKept`. `ComesToRest` (with its two exceptions: pods
  of one second, and values the API server refuses): two sources of one label do not write
  it in turns.
* CentralProbe. `WorkersAreRecorded`: every worker can be stopped, but for the orphans.
  `RestIsExact`: at rest the selected pods are probed, but for the spoiled, and the
  statuses name just them. `SelectedAreProbed`, `DeletionCompletes`. `RestProbesAll` is
  what the repository's README asks for, and fails.
* From a probe to readiness. `RestFollowsProbe`: when everything has been dealt with, the
  pod is as the last probe found it, unless the result was dropped; so what the code drops
  is all that can go wrong, and no order of results, caches and workers adds to it.
  `WorkersAreHeard`: a worker is not stuck behind the channel.
* WatchSLO. `RestIsWatched`: at rest every config is counted and every target has a running
  tracker. `GoneIsClean`: nothing of a deleted object's last configs goes on, whatever the
  update that let it go went through. `DelayOnce`: a delay is observed at most once, by one
  tracker, of a timestamp that was in the label.
* Debug store. `PagesAreWhole`: a page never fails for what the reconcilers are in the
  middle of. `RestIsStored`: the store catches up with the cluster. `EventsAreKept`: the
  events of a subject only grow, but for a read that failed.

## 4. Fairness

Weak fairness only, and only of steps that the code or its runtime schedules by itself:
each goroutine of a tracker (the Go scheduler runs what can run) and its tickers, the
one worker of a controller, the retry of the workqueue (`AddRateLimited`, or a turn
asked for in ten seconds), the delivery of versions to a cache (informers re-list and
re-watch), the restart of the process and the start of its loops. Nothing is assumed of
users, of requests, of failures, of crashes, of the case a `select` takes, or of the
answer of the API server to one particular update; that failures stop is due to their
bound, and stands for "if the API server answers from some time on". In `CentralProbe`
fairness includes that a worker of the prober that was told to stop ends (`WorkerEnds`: a
select over its stop channel), in `ProbeStatus` it is of the loop of `updatePodStatus` and
of the send of a worker, a goroutine each. `WatchSLO` and `DebugStore` are checked for
safety only: Reconcile of a WatchSLO object waits without end in `WaitForCacheSync` for a
list that is refused, and the store's reconcilers never ask for another turn, so that what
they promise is a matter of where they come to rest.

## 5. What is proved

For every value of the constants that satisfies the named assumptions
(`TransitionsAssumption`, `RulesAssumption`, `TrackerAssumption`,
`ControllerAssumption`, `LimiterAssumption`, `MarkerAssumption`, `ProbeAssumption`,
`StatusAssumption`, `WatchAssumption`, `StoreAssumption`): any numbers of workers, pods,
objects, instances and versions, any transitions, rules and specs, any number of failures
and crashes. Every safety invariant a run checks has a theorem, and every action property
too. What the assumptions say beyond types is that the values that mean "there is none"
(`Absent`, `Gone`, and the like) are no versions, and that the names of different sorts
differ.

Most of the properties speak of a process at rest, or of an undisturbed name,
and so say nothing of the steps on the way. The work of each proof is the invariant that
says what is true in the middle:

* `ResourceTrackerProofs`.
  - The table: `DeletedIsFinal`, `DeletedEventWins`, `DeletedEventIsLostInBeginState`. The only step that is not unfolding is that a
    nonempty set of positions has a greatest one (by the well-order of the naturals).
  - `TypeCorrect`, by `IInv`: the types, and that an instance not created yet is idle
    (`UnbornIdle`), without which `LookupMiss` would hand out a machine in an unknown state.
  - `DeletedAlwaysGetsStopped` and `DeletedStaysDeleted` both rest on `MachineStep`: a step
    of the process is a crash, an event at one machine, a creation, or one that leaves the
    machines alone. The second assumes `DeletedIsNoSource`.
  - `MetricsRefinement`: `Spec` implements `TransitionMetrics`. The invariant is that the
    gauge is the census (`GaugeIsCensus`); `MoveCensus` counts the two sets a move changes.
  - `CrashesAreDisturbed`, by `PInv`: who works on an undisturbed name is alone with it
    (`Alone`), the ResourceState in its hand and the one in the map are of its object
    (`TargetsOK`, `MapOK`), nobody stops a ResourceState that another goroutine is about to
    stop (`CloserOK`), and one that was told nothing yet is about to be told a version
    (`AddFresh`, `UnbornFresh`, `StartOK`). It assumes
    `TimerDoesNotDelete`. Without it TLC finds a crash that no race is needed for: the
    timer takes a machine that was told nothing to DeletedState, and the sweeper meets the
    nil Resource.
  - `VersionsNeverGoBack`, by `VInv`: the versions of an object are in order from the
    Resource of its ResourceState through its channel, the worker and the queue to the
    informer's store (`ToldInOrder`, `QueueInOrder`).
  - `TrackedWhenUndisturbed`, by `TInv`: the last item of an object of an undisturbed name,
    in the queue or with a worker, is that of what the handlers were last told (`QueueEnd`,
    `WorkerEnd`). Each of its ResourceStates is `Gone`, or is the only one that is not
    (`StateOK`) and then `Serving`: in the map or about to be, and told the last version unless
    that item is still under way; when the deletion was told, it is the last thing in its
    channel, or DeletedEvent is the one event left to fire, or it was ignored in BeginState
    (`ToldNil`). An object that is told of and did not return early is `Steady`: no deletion
    is on its way to its ResourceState (`NilFree`), which is therefore not going to end, and
    if it has none an item that makes one is under way (`Represented`); for one that returned
    early this is just what does not hold. The sweeper's list leads where the map does
    (`ListedOK`). It assumes `NamesAreReserved`.
* `TransitionControllerProofs`: `ControllerTypeCorrect`; `InformersAreAccounted`, restated
  pair by pair (`Accounted`); `TrackedAreHeld`, with the invariant `HoldInv`: an object
  with a tracker is held, what Reconcile releases is a version that the cache had and that
  was being deleted, and from a version wanted on, the finalizer lasts (`FinalizerLasts`).
  The last is needed because the tracker is made from an old version, and the object may
  have changed since. `TrackersNeverGoBack` needs `CaughtUp`: no tracker is ahead of the
  cache by more than the version that came back when the finalizer was added.
* `PodLimiterProofs`: `LimiterTypeCorrect`; `AloneStaysWithinLimit`, with the invariant
  `RoomWasThere`: for each rule that a lone request has passed and that governs it, there is
  still room, since nobody has written since.
* `PodMarkerProofs`, by one invariant (`Invariance`): `TypeCorrect`; `RestStaysMarked`: of
  the markers of the list those done with are marked as the cache shows the pods, and of
  the one in turn the pods passed by are (`InTurn`), unless Reconcile is due again
  (`Settled`), where labelled means by the pod or, for the `blind`, by nothing (`HasLabel`): a
  second pass over a label that the node emptied leaves it empty and makes no version; `OthersStayKept`: as long as the API server would accept an update of a
  copy, the copy is the last version (`CopiesAreLast`).
* `CentralProbeProofs`, by one invariant (`Invariance`): `TypeCorrect`;
  `WorkersStayRecorded`, with `Tracked`: between the calls of the prober and the Update
  that writes the statuses, a worker is in the old statuses, in the pods found or among the
  orphans, and what the Update takes out was told to stop (what the calls of a turn do to
  the workers is the lemma `CallsEffect`); `RestStaysExact`, with `Settled`: unless another turn is due, each object is exact
  or has its turn still to come, from the copy the cache has, and an Update that succeeds
  was of the last version (`CopiesAreLast`).
* `ProbeStatusProofs`: `TypesHold`; `ReadinessHolds`. The invariant adds to the types
  `WriteIsLast` (with nothing on its way to the loop, what is about to be written is the
  last result) and `IdleFollows` (with nothing on its way and an idle loop, the pod shows
  the last result, or it was dropped): the loop computes the readiness from the result
  there is, not from the one it received, and what came since is still on its way.
* `WatchSLOProofs`: `DelayHolds`, with the invariant `BehindClock`: what is in a label, in a
  set or observed is a timestamp the clock has passed, so that the next one is new to all.
  `TypeCorrect`, `RestStaysWatched` and `GoneStaysClean`, with `SInv`: which configs of the
  version in turn are watched or cleaned already (`TurnOK`), what is so when no turn is due
  (`Settled`), that the loops of a tracker in the map run (`TrackersOK`), and that
  once the object was let go nothing but another cleaning of the same keys can follow
  (`GoneOK`): an Update that succeeded without the controller being told ends in the same
  state.
* `DebugStoreProofs`: `TypesHold`; `PagesHold`, with the invariant `NamesLeadToDocuments`
  (behind a name there is a document, and behind an event of a subject too, unless its
  write failed) and `JobInv` (what a worker has in hand has its document, and the set it has
  read is the one that is stored): the order of the two writes is what keeps the first, and
  that there is one worker the second; `EventsHold`. `RestStaysStored`, with `RestInv`: no
  two objects have a UID in common (`UidsOnce`), a worker has the last version or its object
  is queued again (`JobsCurrent`), and what is not queued is written or in hand (`Settled`).

Three theorems have a hypothesis about the configuration: `DeletedIsNoSource` and
`TimerDoesNotDelete`, which follow from the third, `NamesAreReserved`. A user may name
`DeletedState` or `DeletedEvent` in the transitions and events of a
ResourceStateTransition, and nothing in the CRD or the code refuses it; then the machine of
a live object may be stopped, or that of a deleted one left behind. The repository's sample
satisfies all three: `MCResourceTracker` has them as an assumption, `SampleAssumption`,
which TLC evaluates before each run.

Only model-checked: the liveness properties (`DeletedIsReclaimed`, `SendEnds`,
`VersionsArrive`, `DeletionCompletes`, `TrackerFollows`, `GaugeFollows`, `ComesToRest`,
`SelectedAreProbed`, `WorkersAreHeard`), since the proof system has no ENABLED and no
fairness. Induction over data is out of the prover's reach too: no module has a recursive
operator, and what the one fold computes (`Wanted`, which mark a pod of a place in the order
gets) is left to TLC and the assumption `WantedShares`; the theorems about `PodMarker` hold whatever it is.

## 6. Where the code departs from the repository's README

The run `probe_alias` shows one departure. README.md:15, "Update Pod Readiness Status when
Node is Not ready": AddPod gets the address of the loop variable
(`centralprobe_controller.go:199`; go.mod:3 has Go 1.19, with one variable per loop), the
prober's workers keep it, and all the workers started in one turn probe the pod that was
listed last (`RestProbesAll`).

Six more have an instance of their own here, to be run by hand; each ends in a
counterexample:

| `tlc -config ...` | Property | Statement, and what the code does |
|---|---|---|
| `ResourceTrackerStateNum.cfg MCResourceTracker` | `StateNumIsNumberOfPods` | README.md:121, "number of pods which stays in the given state": a DELETE that overtakes the ADD of its object (`resource_reconciler.go:197`) leaves a pod that is gone counted |
| `ResourceTrackerReadd.cfg MCResourceTracker` | `LivePodsStayInAState` | README.md:121 again: a pod whose labels leave the selector and match it again before the sweep (`resource_reconciler.go:93`, every 30 s) finds the ResourceState that has ended, its ADD is dropped (`resource_state.go:213`), and it is counted nowhere; one worker and one object are enough |
| `TransitionControllerCounts.cfg MCTransitionController` | `CountedOnce` | README.md:121: each edit of a ResourceStateTransition counts every pod once more, because Stop (`resourcestatetransition_controller.go:118`) leaves the ResourceStates of the old tracker alone |
| `PodLimiterThreshhold.cfg MCPodLimiter` | `AloneWithinThreshhold` | README.md:63, "The maximum number of eligible pods": `limiter.go:49` admits one more |
| `PodMarkerNodeLabel.cfg MCPodMarker` | `NodeLabelIsSet` | README.md:84, `valueFromNode`: the node is used only when it cannot be read (`podmarker_controller.go:119`), and then the label is emptied, which the pod's value may have been in |
| `ProbeStatusTakeover.cfg MCProbeStatus` | `RestTakesOver` | README.md:15: a result that comes while the node is Ready is skipped (`centralprobe_controller.go:124`), and not looked at again when the node becomes NotReady |

One crash needs nothing but a broken watch: an object that was deleted meanwhile comes to the
delete handler as a DeletedFinalStateUnknown, and the type assertion at
`resource_reconciler.go:238` ends the process. The model has it (`InformerTombstone`), the
documentation says nothing against it, and so no property is refuted.

Seen while reading and not the subject of a run: a pod created without any label has a nil
label map, into which PodMarker writes; the README's names for the metrics are not those in
`metrics.go`; README.md:52 has the limiter limit updates, and the webhook lets all updates
pass; both controllers that select pods read `matchLabels` only and ignore
`matchExpressions`; the counters and delay trackers of configs that are edited out of a
WatchSLO object, or whose object loses its finalizer by another hand, are never stopped.

## 7. Not modelled

* The mutating webhook (it has no plugin and returns the pod as it came), `main.go` and the
  helpers (flags, registration, a wrapper without leader election), generated code, charts:
  wiring without state.
* The HTML and YAML of the debug pages and the question to a language model: layout and I/O.
  What the pages find in the store is modelled.
* The prober's probes themselves, and the rules by which the kubelet's library derives
  conditions from container statuses: external, one container, ready or not.
* The fault that ends the process when two goroutines meet in an unsynchronised map: it is
  one of the ways to `Crash`, at any moment.
* In what is modelled: `resourcestate_map_size`; namespaces (one is modelled, but for the
  namesake in `DebugStore`); log lines; the widths of counters; a relist after a restart that
  is older than what the process saw before; the forced removal of CentralProbe's finalizer;
  label keys that two entries of `addLabels` or two markers share (the two sources of one
  entry are modelled); several nodes, of which some are found and some are not; a pod without labels (nil
  map); two timestamps of one millisecond; WatchSLO objects beside the one, whose keys never
  meet; LevelDB's own recovery.

## 8. What could come next

1. Abstract specifications with a proof of refinement: "one tracker per object, made from
   some version, never from an earlier one", which `TransitionController` implements and the
   counters of `WatchSLO` do not; "each name of a pod leads to one whole document", which
   `DebugStore` implements unless a write fails.
2. Action properties of the store and of the statuses: that the version under a name never
   goes back, and that the prober is never told to stop a worker another object still wants.
3. The step from a tracker that has caught up to the gauges: that at rest the census counts
   the live objects of undisturbed names and no others.
