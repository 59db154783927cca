------------------------- MODULE ProbeStatusProofs -------------------------
(***************************************************************************)
(* Proofs about ProbeStatus: its types, and that the readiness of a pod    *)
(* follows the last probe.  The status that is written is computed from    *)
(* the result there is at that moment, not from the one received; what     *)
(* makes this right is that a result newer than both is still on its way   *)
(* (WriteIsLast).                                                          *)
(***************************************************************************)
EXTENDS ProbeStatus, SequenceTheorems, TLAPS

\* No result is on its way to the loop.
Quiet == updates = <<>> /\ sending = NoResult

\* What is about to be written is the last result, unless a newer one is on its way.
WriteIsLast == pc = "write" /\ Quiet /\ result # NoResult => ready = result

\* Between two results, the pod is as the last one has it.
IdleFollows ==
    pc = "idle" /\ Quiet /\ result # NoResult /\ pod # Gone /\ ~dropped => pod.ready = result

\* The inductive invariant.
IInv == TypeOK /\ WriteIsLast /\ IdleFollows
-----------------------------------------------------------------------------
\* It holds at first.
LEMMA InitInv == Init => IInv
<1> SUFFICES ASSUME Init PROVE IInv
  OBVIOUS
<1> USE StatusAssumption DEF StatusAssumption
<1>1. pod \in Pod /\ pod # Gone
  BY DEF Init, Pod
<1>2. updates \in Seq(BOOLEAN) /\ Len(updates) <= Capacity
  BY DEF Init
<1>3. 0 \in 0 .. MaxActs /\ 0 \in 0 .. MaxTroubles
  OBVIOUS
<1>4. TypeOK
  BY <1>1, <1>2, <1>3 DEF Init, TypeOK, Pod, Results
<1> QED BY <1>4 DEF Init, IInv, WriteIsLast, IdleFollows

\* What is written is a pod again.
LEMMA WrittenTyped ==
    ASSUME TypeOK, pod # Gone, NEW r \in BOOLEAN
    PROVE  Written(r) \in Pod /\ Written(r) # Gone /\ Written(r).ready = r
<1>1. Written(r) \in [ready : BOOLEAN, rv : Nat]
  BY DEF TypeOK, Pod, Written
<1>2. Written(r).ready = r
  BY DEF Written
<1> QED BY <1>1, <1>2, StatusAssumption DEF Pod, StatusAssumption

\* Everybody else: only the pod, the node, the probe and the worker's presence.
LEMMA OthersKeep ==
    ASSUME IInv, PodChanges \/ NodeChanges \/ HealthChanges \/ AddPod \/ WorkerExits \/ Deliver
    PROVE  IInv'
<1> USE StatusAssumption DEF StatusAssumption, IInv
<1>1. CASE PodChanges
  <2>1. pod' \in Pod /\ dropped' = TRUE /\ acts' \in 0 .. MaxActs
    BY <1>1, WrittenTyped DEF PodChanges, Pod, Act, TypeOK
  <2>2. UNCHANGED <<cached, nodeReady, healthy, workerVars, updates, loopVars, troubles>>
    BY <1>1 DEF PodChanges, Act
  <2> QED BY <2>1, <2>2 DEF TypeOK, WriteIsLast, IdleFollows, Quiet, workerVars, loopVars
<1>2. CASE NodeChanges \/ HealthChanges \/ AddPod
  <2>1. /\ UNCHANGED <<podVars, result, sending, updates, loopVars, dropped, troubles>>
        /\ acts' \in 0 .. MaxActs
    BY <1>2 DEF NodeChanges, HealthChanges, AddPod, Act, TypeOK, workerVars
  <2>2. nodeReady' \in BOOLEAN /\ healthy' \in BOOLEAN /\ worker' \in BOOLEAN
    BY <1>2 DEF NodeChanges, HealthChanges, AddPod, TypeOK, workerVars
  <2>3. worker => worker'
    BY <1>2 DEF NodeChanges, HealthChanges, AddPod, workerVars
  <2> QED BY <2>1, <2>2, <2>3 DEF TypeOK, WriteIsLast, IdleFollows, Quiet, podVars, loopVars
<1>3. CASE WorkerExits
  <2>1. /\ UNCHANGED <<podVars, nodeReady, healthy, sending, updates, loopVars, dropped, troubles>>
        /\ acts' \in 0 .. MaxActs /\ worker' = FALSE /\ result' = NoResult /\ sending = NoResult
    BY <1>3 DEF WorkerExits, Act, TypeOK
  <2> QED BY <2>1 DEF TypeOK, WriteIsLast, IdleFollows, Quiet, podVars, loopVars, Results
<1>4. CASE Deliver
  BY <1>4
  DEF Deliver, TypeOK, WriteIsLast, IdleFollows, Quiet, workerVars, loopVars, bounds
<1> QED BY <1>1, <1>2, <1>3, <1>4

\* The worker: a new result is on its way until the loop has it.
LEMMA WorkerKeeps == ASSUME IInv, Probe \/ Send PROVE IInv'
<1> USE StatusAssumption DEF StatusAssumption, IInv
<1>1. CASE Probe
  <2>1. /\ UNCHANGED <<podVars, nodeReady, healthy, worker, updates, loopVars, dropped, bounds>>
        /\ sending' \in BOOLEAN /\ result' = sending' /\ worker
    BY <1>1 DEF Probe, TypeOK
  <2>2. sending' # NoResult
    BY <2>1
  <2> QED
    BY <2>1, <2>2
    DEF TypeOK, WriteIsLast, IdleFollows, Quiet, podVars, loopVars, bounds, Results
<1>2. CASE Send
  <2>1. /\ UNCHANGED <<podVars, nodeReady, healthy, worker, result, loopVars, dropped, bounds>>
        /\ sending' = NoResult /\ updates' = Append(updates, sending)
        /\ sending \in BOOLEAN /\ Len(updates) < Capacity /\ updates \in Seq(BOOLEAN)
    BY <1>2 DEF Send, TypeOK, Results
  <2>2. updates' \in Seq(BOOLEAN) /\ Len(updates') = Len(updates) + 1 /\ updates' # <<>>
    BY <2>1, AppendProperties
  <2>3. Len(updates') <= Capacity
    BY <2>1, <2>2, LenProperties
  <2> QED
    BY <2>1, <2>2, <2>3
    DEF TypeOK, WriteIsLast, IdleFollows, Quiet, podVars, loopVars, bounds, Results
<1> QED BY <1>1, <1>2

\* The loop drops a result and says so, or goes on.
LEMMA LoopKeeps == ASSUME IInv, Receive \/ CheckNode \/ Compute PROVE IInv'
<1> USE StatusAssumption DEF StatusAssumption, IInv
<1>1. CASE Receive
  <2>1. /\ UNCHANGED <<podVars, nodeReady, healthy, workerVars, acts>>
        /\ updates # <<>> /\ updates' = Tail(updates) /\ updates \in Seq(BOOLEAN)
        /\ troubles' \in 0 .. MaxTroubles
    BY <1>1 DEF Receive, Trouble, TypeOK, Drop
  <2>2. updates' \in Seq(BOOLEAN) /\ Len(updates') <= Capacity
    <3>1. updates' \in Seq(BOOLEAN) /\ Len(updates') = Len(updates) - 1
      BY <2>1, HeadTailProperties
    <3>2. Len(updates) \in Nat /\ Len(updates) <= Capacity
      BY <2>1, LenProperties DEF TypeOK
    <3> QED BY <3>1, <3>2
  <2>3. \/ pc' = "node" /\ copy' = cached /\ cached # Gone /\ UNCHANGED <<ready, dropped>>
        \/ pc' = "idle" /\ copy' = Gone /\ ready' = FALSE /\ dropped' = TRUE
    BY <1>1 DEF Receive, Drop, Return
  <2>4. pc' \in {"idle", "node"} /\ copy' \in Pod /\ (pc' = "idle") = (copy' = Gone)
        /\ ready' \in BOOLEAN /\ dropped' \in BOOLEAN
    BY <2>3 DEF TypeOK, Pod
  <2>5. WriteIsLast' /\ IdleFollows'
    BY <2>3 DEF WriteIsLast, IdleFollows
  <2> QED BY <2>1, <2>2, <2>4, <2>5 DEF TypeOK, podVars, workerVars
<1>2. CASE CheckNode
  <2>1. /\ UNCHANGED <<podVars, nodeReady, healthy, workerVars, updates, acts>>
        /\ troubles' \in 0 .. MaxTroubles /\ pc = "node"
    BY <1>2 DEF CheckNode, Trouble, TypeOK
  <2>2. \/ pc' = "status" /\ UNCHANGED <<copy, ready, dropped>>
        \/ pc' = "idle" /\ copy' = Gone /\ ready' = FALSE /\ dropped' = TRUE
    BY <1>2 DEF CheckNode, Drop, Return
  <2> QED BY ZenonT(60), <2>1, <2>2 DEF TypeOK, WriteIsLast, IdleFollows, podVars, workerVars, Pod
<1>3. CASE Compute
  <2>1. /\ UNCHANGED <<podVars, nodeReady, healthy, workerVars, updates, copy, dropped, bounds>>
        /\ pc = "status" /\ pc' = "write" /\ ready' \in BOOLEAN
        /\ result # NoResult => ready' = result
    BY <1>3 DEF Compute, TypeOK, Results
  <2> QED BY <2>1 DEF TypeOK, WriteIsLast, IdleFollows, podVars, workerVars, bounds
<1> QED BY <1>1, <1>2, <1>3

\* The Update of the condition.
LEMMA WriteKeeps == ASSUME IInv, Write PROVE IInv'
<1> USE StatusAssumption DEF StatusAssumption, IInv
<1>1. /\ UNCHANGED <<cached, nodeReady, healthy, workerVars, updates, acts>>
      /\ pc = "write" /\ pc' = "idle" /\ copy' = Gone /\ ready' = FALSE
      /\ troubles' \in 0 .. MaxTroubles
  BY DEF Write, Drop, Return, Trouble, TypeOK
<1>2. \/ pod = copy /\ pod' = Written(ready) /\ dropped' = FALSE
      \/ dropped' = TRUE /\ (pod' = pod \/ (pod = copy /\ pod' = Written(ready)))
  BY DEF Write, Drop
<1>3. copy # Gone /\ ready \in BOOLEAN
  BY <1>1 DEF TypeOK
<1>4. pod' \in Pod
  BY <1>2, <1>3, WrittenTyped DEF TypeOK
<1>5. IdleFollows'
  <2>1. CASE pod = copy /\ pod' = Written(ready) /\ dropped' = FALSE
    <3>1. pod'.ready = ready
      BY <1>3, <2>1, WrittenTyped
    <3> QED BY <1>1, <3>1 DEF WriteIsLast, IdleFollows, Quiet, workerVars
  <2>2. CASE dropped' = TRUE
    BY <2>2 DEF IdleFollows
  <2> QED BY <1>2, <2>1, <2>2
<1>6. WriteIsLast'
  BY <1>1 DEF WriteIsLast
<1>7. dropped' \in BOOLEAN
  BY <1>2
<1>8. copy' \in Pod /\ ready' \in BOOLEAN
  BY <1>1 DEF Pod
<1>9. TypeOK'
  BY <1>1, <1>4, <1>7, <1>8 DEF TypeOK, workerVars
<1> QED BY <1>5, <1>6, <1>9

\* The process stops and starts again.
LEMMA CrashKeeps == ASSUME IInv, Crash PROVE IInv'
<1> USE StatusAssumption DEF StatusAssumption, IInv
<1>1. /\ UNCHANGED <<pod, nodeReady, healthy, acts>> /\ cached' = pod
      /\ worker' = FALSE /\ result' = NoResult /\ sending' = NoResult /\ updates' = <<>>
      /\ pc' = "idle" /\ copy' = Gone /\ ready' = FALSE /\ dropped' = TRUE
      /\ troubles' \in 0 .. MaxTroubles
  BY DEF Crash, Drop, Return, Trouble, TypeOK
<1>2. updates' \in Seq(BOOLEAN) /\ Len(updates') <= Capacity
  BY <1>1
<1>3. copy' \in Pod /\ result' \in Results /\ sending' \in Results
  BY <1>1 DEF Pod, Results
<1>4. WriteIsLast' /\ IdleFollows'
  BY <1>1 DEF WriteIsLast, IdleFollows
<1> QED BY <1>1, <1>2, <1>3, <1>4 DEF TypeOK

\* Every step keeps the inductive invariant.
LEMMA StepKeeps == ASSUME IInv, [Next]_vars PROVE IInv'
<1>1. CASE UNCHANGED vars
  BY <1>1
  DEF IInv, TypeOK, WriteIsLast, IdleFollows, Quiet, vars, podVars, workerVars, loopVars, bounds
<1> QED
  BY <1>1, OthersKeep, WorkerKeeps, LoopKeeps, WriteKeeps, CrashKeeps DEF Next, UpdatePodStatus
-----------------------------------------------------------------------------
\* The variables of updatePodStatus and of the prober's worker keep their types, whatever
\* the capacity of the channel.
THEOREM TypesHold == Spec => []TypeOK
<1>1. IInv => TypeOK
  BY DEF IInv
<1> QED BY <1>1, InitInv, StepKeeps, PTL DEF Spec

\* When there is nothing left to report, the readiness of the pod is that of the last probe
\* unless a result was dropped or somebody wrote it since (updatePodStatus).
THEOREM ReadinessHolds == Spec => []RestFollowsProbe
<1>1. IInv => RestFollowsProbe
  BY StatusAssumption DEF IInv, TypeOK, IdleFollows, Quiet, RestFollowsProbe, Rest, StatusAssumption
<1> QED BY <1>1, InitInv, StepKeeps, PTL DEF Spec
=============================================================================
