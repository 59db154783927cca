------------------------- MODULE TransitionMetrics -------------------------
(***************************************************************************)
(* What the metrics of a ResourceStateTransition promise, whatever the     *)
(* goroutines do: every tracked object walks the transition table, and the *)
(* gauge of a state is a census of the objects in it (that of BeginState,  *)
(* which nobody is counted into, is minus the objects that left it).       *)
(* ResourceTracker implements this: Inc and Dec, one at a time, under the  *)
(* lock of each machine only.                                              *)
(***************************************************************************)
EXTENDS Integers, FiniteSets

CONSTANTS
    Instances,     \* names for the objects that can be tracked
    States, BeginState, Events,
    Moves(_, _),   \* where an event leads from a state, {} or a singleton
    Silent(_)      \* states whose entries are not counted

VARIABLES
    current,   \* the state of each tracked object
    gauge,     \* pod_state_num
    entered    \* fsm_enter_state_count

vars == <<current, gauge, entered>>

InState(c, s) == {i \in DOMAIN c : c[i] = s}

Census(c) ==
    [s \in States |-> Cardinality(InState(c, s))
                         - (IF s = BeginState THEN Cardinality(DOMAIN c) ELSE 0)]

Init ==
    /\ current = [i \in {} |-> BeginState]
    /\ gauge = [s \in States |-> 0] /\ entered = [s \in States |-> 0]

Track(i) ==
    /\ i \notin DOMAIN current
    /\ current' = [j \in DOMAIN current \cup {i} |->
                      IF j = i THEN BeginState ELSE current[j]]
    /\ gauge' = Census(current')
    /\ UNCHANGED entered

Move(i, ev, dst) ==
    /\ dst \in Moves(ev, current[i])
    /\ current' = [current EXCEPT ![i] = dst]
    /\ gauge' = Census(current')
    /\ entered' = [entered EXCEPT ![dst] = IF Silent(dst) THEN @ ELSE @ + 1]

\* The process crashed.
Reset ==
    /\ current' = [i \in {} |-> BeginState]
    /\ gauge' = [s \in States |-> 0] /\ entered' = [s \in States |-> 0]

Next ==
    \/ Reset
    \/ \E i \in Instances : Track(i)
    \/ \E i \in DOMAIN current, ev \in Events, dst \in States : Move(i, ev, dst)

Spec == Init /\ [][Next]_vars
=============================================================================
