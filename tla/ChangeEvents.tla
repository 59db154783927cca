---------------------------- MODULE ChangeEvents ----------------------------
(***************************************************************************)
(* Which events a change of an object stands for: parseEvents              *)
(* (controllers/slo/resource_state.go) over Requirement.Matches            *)
(* (apis/slo/v1beta1/requirement.go).                                      *)
(*                                                                         *)
(* An object is a function from the JSON paths that the requirements name  *)
(* to what gjson returns there as a string.  An absent value, a null and a *)
(* value that did not change all read as the empty string, Blank, in the   *)
(* merge patch.                                                            *)
(***************************************************************************)
EXTENDS Naturals, Sequences

CONSTANTS
    Keys,      \* the JSON paths used by the requirements
    Values,    \* what can be found there
    Blank,     \* the empty string
    Objects,   \* the contents an object can have
    NoObject,  \* the nil *unstructured.Unstructured
    Rules      \* spec.events: [name, requirements] with requirements a set of
               \* [key, operator, strValues]

ASSUME RulesAssumption ==
    /\ Blank \in Values
    /\ Objects \subseteq [Keys -> Values]
    /\ NoObject \notin Objects
    /\ Rules \in Seq([name : STRING,
                      requirements : SUBSET [key : Keys, operator : STRING,
                                             strValues : SUBSET Values]])

\* CreateTwoWayMergePatch: only what changed is in the patch, what was removed
\* is a null, and against no object at all everything is new.
Diff(old, new) ==
    [k \in Keys |-> IF old # NoObject /\ old[k] = new[k] THEN Blank ELSE new[k]]

\* Requirement.Matches; an operator other than these two never matches.
Matches(r, diff) ==
    \/ r.operator = "in"    /\ diff[r.key] \in r.strValues
    \/ r.operator = "notin" /\ diff[r.key] \notin r.strValues

\* The rules, as indices in spec.events, that the change from old to new
\* meets: every requirement, and at least one.
MatchedRules(old, new) ==
    {e \in DOMAIN Rules :
        /\ Rules[e].requirements # {}
        /\ \A r \in Rules[e].requirements : Matches(r, Diff(old, new))}
=============================================================================
