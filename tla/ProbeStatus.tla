----------------------------- MODULE ProbeStatus -----------------------------
(***************************************************************************)
(* From a probe to the readiness of the pod: updatePodStatus of            *)
(* controllers/centralprobe/centralprobe_controller.go, and GetPodStatus   *)
(* of status_manager.go, for one pod with one container.                   *)
(*                                                                         *)
(* External, as the controller uses them: the prober's worker, which keeps *)
(* the last result of the pod and sends it to a channel when it changes;   *)
(* the API server, where the kubelet and the node controller write the     *)
(* status of the pod too, and which refuses an update of an old version;   *)
(* and the caches of pods and nodes.  Whether a node passes for Ready is a *)
(* matter of its condition and of the age of its heartbeat, and can change *)
(* at any time.  Workers come and go with the turns of CentralProbe.       *)
(***************************************************************************)
EXTENDS Naturals, Sequences

CONSTANTS
    Capacity,      \* of the channel of results
    Gone,          \* the version of a pod that does not exist
    NoResult,
    MaxActs,       \* bound: acts of everybody else
    MaxTroubles    \* bound: calls that fail, and crashes

ASSUME StatusAssumption ==
    /\ Capacity \in Nat \ {0} /\ {MaxActs, MaxTroubles} \subseteq Nat
    /\ {Gone, NoResult} \cap BOOLEAN = {} /\ Gone \notin [ready : BOOLEAN, rv : Nat]

VARIABLES
    pod, cached,   \* the pod in the API server, and in the cache
    nodeReady,     \* what nodeReady finds of the cached node
    healthy,       \* what a probe finds
    worker,        \* the prober has a worker for the pod
    result,        \* the last result of the worker, in readinessManager
    sending,       \* the result the worker has still to send
    updates,       \* readinessManager.Updates()
    pc,            \* where updatePodStatus is
    copy, ready,   \* the pod it listed, and the readiness it will write
    dropped,       \* history: the last result was not written, or somebody wrote since
    acts, troubles

podVars == <<pod, cached>>
workerVars == <<worker, result, sending>>
loopVars == <<pc, copy, ready>>
bounds == <<acts, troubles>>
vars == <<podVars, nodeReady, healthy, workerVars, updates, loopVars, dropped, bounds>>

Results == BOOLEAN \cup {NoResult}
Pod == [ready : BOOLEAN, rv : Nat] \cup {Gone}

Init ==
    /\ \E r \in BOOLEAN : pod = [ready |-> r, rv |-> 0]
    /\ cached = pod /\ nodeReady \in BOOLEAN /\ healthy \in BOOLEAN
    /\ worker = FALSE /\ result = NoResult /\ sending = NoResult /\ updates = <<>>
    /\ pc = "idle" /\ copy = Gone /\ ready = FALSE /\ dropped = FALSE
    /\ acts = 0 /\ troubles = 0
-----------------------------------------------------------------------------
(* Everybody else.                                                         *)

Act == acts < MaxActs /\ acts' = acts + 1 /\ UNCHANGED troubles
Trouble == troubles < MaxTroubles /\ troubles' = troubles + 1

Written(r) == [ready |-> r, rv |-> pod.rv + 1]

\* The kubelet or the node controller writes the readiness, or the pod is deleted.
PodChanges ==
    /\ Act /\ pod # Gone /\ dropped' = TRUE
    /\ pod' = Gone \/ \E r \in BOOLEAN : pod' = Written(r)
    /\ UNCHANGED <<cached, nodeReady, healthy, workerVars, updates, loopVars>>

NodeChanges ==
    /\ Act /\ nodeReady' = ~nodeReady
    /\ UNCHANGED <<podVars, healthy, workerVars, updates, loopVars, dropped>>

HealthChanges ==
    /\ Act /\ healthy' = ~healthy
    /\ UNCHANGED <<podVars, nodeReady, workerVars, updates, loopVars, dropped>>

AddPod ==
    /\ Act /\ ~worker /\ worker' = TRUE
    /\ UNCHANGED <<podVars, nodeReady, healthy, result, sending, updates, loopVars, dropped>>

\* The worker ends when it has nothing to send, and takes its result along.
WorkerExits ==
    /\ Act /\ worker /\ sending = NoResult
    /\ worker' = FALSE /\ result' = NoResult
    /\ UNCHANGED <<podVars, nodeReady, healthy, sending, updates, loopVars, dropped>>

Deliver ==
    /\ cached # pod /\ cached' = pod
    /\ UNCHANGED <<pod, nodeReady, healthy, workerVars, updates, loopVars, dropped, bounds>>
-----------------------------------------------------------------------------
(* The worker.                                                             *)

\* The first result is a failure, before there was a probe.  The worker asks GetPodStatus
\* first, and does nothing for a pod that the cache does not have.
Probe ==
    /\ worker /\ sending = NoResult /\ cached # Gone
    /\ LET r == IF result = NoResult THEN FALSE ELSE healthy
       IN  r # result /\ result' = r /\ sending' = r
    /\ UNCHANGED <<podVars, nodeReady, healthy, worker, updates, loopVars, dropped, bounds>>

\* A worker waits while the channel is full.
Send ==
    /\ sending # NoResult /\ Len(updates) < Capacity
    /\ updates' = Append(updates, sending) /\ sending' = NoResult
    /\ UNCHANGED <<podVars, nodeReady, healthy, worker, result, loopVars, dropped, bounds>>
-----------------------------------------------------------------------------
(* updatePodStatus.                                                        *)

\* Seeded fault: the pod that was listed is kept for the next result.
ReturnKeepsCopy == pc' = "idle" /\ ready' = FALSE /\ UNCHANGED copy

Return == pc' = "idle" /\ copy' = Gone /\ ready' = FALSE

\* The result is dropped: nobody will look at it again.
Drop == Return /\ dropped' = TRUE

\* The pod is listed by its UID.
Receive ==
    /\ pc = "idle" /\ updates # <<>> /\ updates' = Tail(updates)
    /\ \/ /\ cached # Gone /\ pc' = "node" /\ copy' = cached
          /\ UNCHANGED <<ready, dropped, troubles>>
       \/ cached = Gone /\ Drop /\ UNCHANGED troubles
       \/ Trouble /\ Drop
    /\ UNCHANGED <<podVars, nodeReady, healthy, workerVars, acts>>

\* Seeded fault: the loop ends, instead of going on with the next result.
CheckNodeEndsLoop ==
    /\ pc = "node"
    /\ \/ ~nodeReady /\ pc' = "status" /\ UNCHANGED <<copy, ready, dropped, troubles>>
       \/ /\ (nodeReady /\ UNCHANGED troubles) \/ Trouble
          /\ pc' = "end" /\ copy' = Gone /\ ready' = FALSE /\ dropped' = TRUE
    /\ UNCHANGED <<podVars, nodeReady, healthy, workerVars, updates, acts>>

\* A node that is Ready is left to its kubelet.
CheckNode ==
    /\ pc = "node"
    /\ \/ ~nodeReady /\ pc' = "status" /\ UNCHANGED <<copy, ready, dropped, troubles>>
       \/ nodeReady /\ Drop /\ UNCHANGED troubles
       \/ Trouble /\ Drop
    /\ UNCHANGED <<podVars, nodeReady, healthy, workerVars, updates, acts>>

\* UpdatePodStatus goes by the result there is now, which may be newer than the one
\* received; a container without a result is ready unless it has a worker.
Compute ==
    /\ pc = "status" /\ pc' = "write"
    /\ ready' = IF result # NoResult THEN result ELSE ~worker
    /\ UNCHANGED <<podVars, nodeReady, healthy, workerVars, updates, copy, dropped, bounds>>

\* Seeded fault: a status that is the same as the one listed is not written.
WriteIfChanged ==
    /\ pc = "write"
    /\ \/ /\ copy.ready # ready /\ pod = copy /\ pod' = Written(ready)
          /\ Return /\ dropped' = FALSE /\ UNCHANGED troubles
       \/ copy.ready = ready /\ Return /\ dropped' = FALSE /\ UNCHANGED <<pod, troubles>>
       \/ copy.ready # ready /\ pod # copy /\ Drop /\ UNCHANGED <<pod, troubles>>
       \/ Trouble /\ Drop /\ (UNCHANGED pod \/ (pod = copy /\ pod' = Written(ready)))
    /\ UNCHANGED <<cached, nodeReady, healthy, workerVars, updates, acts>>

\* The update of the status: an error is not followed up, a conflict among them.
Write ==
    /\ pc = "write"
    /\ \/ /\ pod = copy /\ pod' = Written(ready)
          /\ Return /\ dropped' = FALSE /\ UNCHANGED troubles
       \/ pod # copy /\ Drop /\ UNCHANGED <<pod, troubles>>
       \/ Trouble /\ Drop /\ (UNCHANGED pod \/ (pod = copy /\ pod' = Written(ready)))
    /\ UNCHANGED <<cached, nodeReady, healthy, workerVars, updates, acts>>

UpdatePodStatus == Receive \/ CheckNode \/ Compute \/ Write

\* The process ends and starts again; CentralProbe will add the pod again.
Crash ==
    /\ Trouble /\ cached' = pod
    /\ worker' = FALSE /\ result' = NoResult /\ sending' = NoResult /\ updates' = <<>>
    /\ Drop /\ UNCHANGED <<pod, nodeReady, healthy, acts>>

Next ==
    \/ PodChanges \/ NodeChanges \/ HealthChanges \/ AddPod \/ WorkerExits
    \/ Deliver \/ Probe \/ Send \/ UpdatePodStatus \/ Crash

Spec == Init /\ [][Next]_vars

\* The loop goes on, and so does the worker.
Fairness == WF_vars(UpdatePodStatus) /\ WF_vars(Send)

FairSpec == Spec /\ Fairness
-----------------------------------------------------------------------------
(* Properties                                                              *)

\* Every variable holds a value of its kind, and the loop holds a pod but when it is idle.
TypeOK ==
    /\ pod \in Pod /\ cached \in Pod
    /\ nodeReady \in BOOLEAN /\ healthy \in BOOLEAN /\ worker \in BOOLEAN
    /\ ready \in BOOLEAN /\ dropped \in BOOLEAN
    /\ result \in Results /\ sending \in Results /\ (sending # NoResult => sending = result)
    /\ (result # NoResult => worker)
    /\ updates \in Seq(BOOLEAN) /\ Len(updates) <= Capacity
    /\ pc \in {"idle", "node", "status", "write"} /\ copy \in Pod
    /\ (pc = "idle") = (copy = Gone)
    /\ acts \in 0 .. MaxActs /\ troubles \in 0 .. MaxTroubles

\* The worker has told its last result, and that has been dealt with.
Rest ==
    /\ pc = "idle" /\ updates = <<>> /\ sending = NoResult /\ cached = pod
    /\ worker /\ result = healthy /\ pod # Gone

\* The pod is as the last probe found it, unless that result came while the node was Ready,
\* its update was refused or failed, or somebody wrote the readiness after it: no order of
\* results, caches and workers that come and go leaves an older result behind.
RestFollowsProbe == Rest => pod.ready = healthy \/ dropped

\* README.md:15 has the readiness updated when the node is not ready.  A result that came
\* before that is not looked at again, and the worker reports changes only.
RestTakesOver == Rest /\ ~nodeReady => pod.ready = healthy

\* A worker that waits to report is not kept waiting: the loop empties the channel whatever
\* becomes of the results.
WorkersAreHeard == sending # NoResult ~> sending = NoResult
=============================================================================
