---------------------------- MODULE MCDebugStore ----------------------------
(* Small instances of DebugStore: a pod, one of the same name in another     *)
(* namespace, the node they run on, and the events of all of them.           *)
EXTENDS DebugStore

CONSTANTS pod, twin, machine, e1, e2, none

SampleName == [k \in {pod, twin, machine} |-> IF k = machine THEN "node" ELSE "web"]
SampleNode == [k \in {pod, twin} |-> "node"]
=============================================================================
