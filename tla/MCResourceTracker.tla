-------------------------- MODULE MCResourceTracker --------------------------
(* Small instances of ResourceTracker, with the transitions and the events of *)
(* slo-pod-create in config/samples/default_config.yaml.                      *)
EXTENDS ResourceTracker, TLC

CONSTANTS w1, w2, none

SampleTransitions ==
    << [source |-> {"BeginState"}, target |-> "CreatedState",
        event |-> "Created", noMetric |-> TRUE],
       [source |-> {"BeginState", "CreatedState"}, target |-> "SuccessState",
        event |-> "Ready", noMetric |-> FALSE],
       [source |-> {"BeginState", "CreatedState"}, target |-> "FailState",
        event |-> "timerEvent100s", noMetric |-> FALSE] >>

SampleRules ==
    << [name |-> "Created", requirements |->
          {[key |-> "creationTimestamp", operator |-> "notin", strValues |-> {""}]}],
       [name |-> "Ready", requirements |->
          {[key |-> "ready", operator |-> "in", strValues |-> {"True"}]}] >>

\* The sample satisfies the hypotheses of the theorems about the tracker.
ASSUME SampleAssumption == DeletedIsNoSource /\ TimerDoesNotDelete /\ NamesAreReserved

Pod(r) == [k \in {"creationTimestamp", "ready"} |-> IF k = "ready" THEN r ELSE "T"]
SampleObjects == {Pod(r) : r \in {"", "True"}}
OneObject == {Pod("")}

\* One name, one name used twice, and two names.
OneName == [u \in {"u1"} |-> "ns/pod"]
SameName == [u \in {"u1", "u2"} |-> "ns/pod"]
OwnNames == [u \in {"u1", "u2"} |-> IF u = "u1" THEN "ns/pod1" ELSE "ns/pod2"]

WorkerSymmetry == Permutations(Workers)
=============================================================================
