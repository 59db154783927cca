------------------------------- MODULE Prober -------------------------------
(***************************************************************************)
(* The part of the kubelet's prober manager (k8s.io/kubernetes v1.25.0)    *)
(* that CentralProbe uses: a map of workers by the UID of the pod, and a   *)
(* goroutine for each worker.  It is external to the repository and        *)
(* modelled as controllers/centralprobe uses it: AddPod starts a worker    *)
(* unless the map has an entry for the UID; RemovePod tells the worker of  *)
(* the entry to stop and does not wait for it; a worker that ends takes    *)
(* the entry of the pod it points at out of the map.                       *)
(*                                                                         *)
(* A worker keeps the pointer that AddPod was given.  The pod it points at *)
(* is therefore not always the one it was added for.                       *)
(***************************************************************************)
EXTENDS FiniteSets

VARIABLES
    registered,   \* UIDs with an entry in the map of workers
    running       \* the goroutines

proberVars == <<registered, running>>

\* A goroutine: the UID it was added for, the one it points at, whether the map still
\* leads to it, and whether it was told to stop.
Worker(UIDs) == [key : UIDs, pod : UIDs, mapped : BOOLEAN, stopping : BOOLEAN]

NewWorker(u, p) == [key |-> u, pod |-> p, mapped |-> TRUE, stopping |-> FALSE]

ProberInit == registered = {} /\ running = {}

Stops(w, S) == w.mapped /\ w.key \in S

\* AddPod for each of the UIDs in A, with a pointer that is of pod p in the end, and then
\* RemovePod for each of those in R.
AddAndRemove(A, p, R) ==
    /\ registered' = registered \cup A
    /\ running' =
         {[w EXCEPT !.stopping = @ \/ Stops(w, R)] :
             w \in running \cup {NewWorker(u, p) : u \in A \ registered}}

RemovePods(R) ==
    /\ running' = {[w EXCEPT !.stopping = @ \/ Stops(w, R)] : w \in running}
    /\ UNCHANGED registered

\* A worker that was told to stop ends, at its next turn.
WorkerExits(w) ==
    /\ w \in running /\ w.stopping
    /\ registered' = registered \ {w.pod}
    /\ running' = {[x EXCEPT !.mapped = @ /\ x.key # w.pod] : x \in running \ {w}}

\* The process ends.
ProberGone == registered' = {} /\ running' = {}

\* The pods that are probed, and not by a worker that is about to end.
Probed == {w.pod : w \in {x \in running : ~x.stopping}}
=============================================================================
