---------------------------- MODULE MCPodLimiter ----------------------------
(* Small instances of PodLimiter.                                            *)
EXTENDS PodLimiter, TLC

CONSTANTS p1, p2, q1, q2, pending, running, noPod

Rule1(n, sel, t, e) ==
    [name |-> n, parses |-> TRUE, selector |-> sel, threshhold |-> t, enabled |-> e]

\* Limiter "a" with a rule "b", "a" with a rule "b-c", and "a-b" with a rule "c".
Names == {"a/b", "a/b-c", "a-b/c"}
JoinedNames == [n \in Names |-> IF n = "a/b" THEN "a-b" ELSE "a-b-c"]

Scarce(t) == Rule1("a/b", {pending}, t, TRUE)
Wide(t) == Rule1("a/b-c", {pending, running}, t, TRUE)
Moved == Rule1("a/b", {running}, 0, TRUE)
Off == Rule1("a/b-c", {pending}, 0, FALSE)
Same == Rule1("a-b/c", {running}, 0, TRUE)
Broken == [Rule1("a/b", {pending}, 0, TRUE) EXCEPT !.parses = FALSE]

\* Lists that users set: two limits of one pod, a rule whose selector has changed
\* beside one that is off, none, one that cannot be parsed, and two with one index name.
Limits == {<<Scarce(1), Wide(0)>>, <<Moved, Off>>}
LimitsOrBroken == Limits \cup {<<Broken>>}
Odd == {<<>>, <<Scarce(0), Wide(1)>>, <<Broken>>, <<Wide(0), Same>>}

PodSymmetry == Permutations(Pods) \cup Permutations(Requests)
=============================================================================
