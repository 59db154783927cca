-------------------------- MODULE TransitionTable --------------------------
(***************************************************************************)
(* The state machine that NewResourceState builds from the transitions of  *)
(* a ResourceStateTransition object (controllers/slo/resource_state.go),   *)
(* and the lookup that looplab/fsm does in it when an event fires.         *)
(*                                                                         *)
(* A transition is a record                                                *)
(*   [source: set of states, target: state, event: event, noMetric: BOOLEAN] *)
(* The order of a source list does not matter, the order of the            *)
(* transitions does: of two that accept the same event in the same state   *)
(* the later one wins.                                                     *)
(***************************************************************************)
EXTENDS Naturals, Sequences

CONSTANTS
    Transitions,    \* spec.transitions, in the order of the list
    BeginState,     \* the state every machine starts in
    DeletedState,   \* the target of the default transition
    DeletedEvent,   \* the event of the default transition
    Wildcard        \* the source "*"

ASSUME TransitionsAssumption ==
    /\ Transitions \in Seq([source : SUBSET STRING, target : STRING,
                            event : STRING, noMetric : BOOLEAN])
    /\ {BeginState, DeletedState, DeletedEvent, Wildcard} \subseteq STRING
    /\ BeginState # DeletedState

\* Every target of the list.  BeginState is one only when the list says so.
AllStates == {Transitions[t].target : t \in DOMAIN Transitions}

States == AllStates \cup {BeginState, DeletedState}

Events == {Transitions[t].event : t \in DOMAIN Transitions} \cup {DeletedEvent}

\* "*" stands for the targets, and replaces the sources listed beside it.
SourcesOf(t) ==
    IF Wildcard \in Transitions[t].source THEN AllStates
                                          ELSE Transitions[t].source

\* Seeded fault: the current state does not matter.
AcceptingAnywhere(ev, s) ==
    {t \in DOMAIN Transitions : Transitions[t].event = ev}

\* The transitions of the list that accept event ev in state s.
Accepting(ev, s) ==
    {t \in DOMAIN Transitions : Transitions[t].event = ev /\ s \in SourcesOf(t)}

LatestOf(S) == CHOOSE t \in S : \A u \in S : u <= t

\* Where event ev leads from s: a set of at most one state.  The default
\* transition is appended last, so it wins wherever it is defined.
Destination(ev, s) ==
    IF ev = DeletedEvent /\ s \in AllStates THEN {DeletedState}
    ELSE IF Accepting(ev, s) = {} THEN {}
    ELSE {Transitions[LatestOf(Accepting(ev, s))].target}

\* An event that leads to the current state runs no enter_state callback.
Moves(ev, s) == Destination(ev, s) \ {s}

\* States whose entries are not counted: noMetricMap keeps, for a target, the
\* flag of the last transition that leads to it.
Silent(s) ==
    LET To == {t \in DOMAIN Transitions : Transitions[t].target = s}
    IN  To # {} /\ Transitions[LatestOf(To)].noMetric

\* No transition of the list leaves DeletedState.
DeletedIsNoSource == \A t \in DOMAIN Transitions : DeletedState \notin SourcesOf(t)
=============================================================================
