----------------------------- MODULE MCPodMarker -----------------------------
(* Small instances of PodMarker.                                              *)
EXTENDS PodMarker

CONSTANTS p1, p2, m1, gone, noSpec, absent

\* A path finds an address, or what no encoding makes a label.
SomeFields == {"ip", "long"}
Values == [f \in SomeFields |-> f]

Entry(v, r, w) == [value |-> v, replicas |-> r, weight |-> w]

\* As in README.md:82-84, the label has both sources.  A lone pod is marked "one"; of two,
\* the younger is marked "half".  The other spec selects some of the pods, takes their
\* label from the node, and marks none.
Distribute == [selector |-> SomeFields, addPod |-> TRUE, addNode |-> TRUE,
               marking |-> TRUE, marks |-> <<Entry("one", 1, 0), Entry("half", 0, 50)>>]
Label == [selector |-> {"long"}, addPod |-> FALSE, addNode |-> TRUE,
          marking |-> FALSE, marks |-> <<>>]
SomeSpecs == {Distribute, Label}

\* Wanted against what the entries ask for, for up to two entries and four pods: each has
\* its replicas, or its rounded share, unless the pods run out; pods go to the entries in
\* turn, and those left to none.
SomeEntries(v) == {Entry(v, r, w) : r \in 0 .. 3, w \in {0, 30, 50, 100}}
SomeMarks == {<<>>} \cup {<<a>> : a \in SomeEntries("a")}
                    \cup {<<a, b>> : a \in SomeEntries("a"), b \in SomeEntries("b")}
Place(v) == CASE v = "a" -> 1 [] v = "b" -> 2 [] v = "" -> 3

ASSUME WantedShares ==
    \A marks \in SomeMarks, n \in 0 .. 4 :
        LET got(v) == Cardinality({k \in 1 .. n : Wanted(marks, k, n) = v})
        IN  /\ \A k \in 2 .. n : Place(Wanted(marks, k - 1, n)) <= Place(Wanted(marks, k, n))
            /\ \A j \in DOMAIN marks :
                  LET e == marks[j]
                      cutOff == \A k \in 1 .. n : Place(Wanted(marks, k, n)) <= j
                  IN  IF e.replicas > 0
                      THEN got(e.value) = e.replicas \/ (cutOff /\ got(e.value) < e.replicas)
                      ELSE /\ 100 * got(e.value) <= n * e.weight
                           /\ n * e.weight < 100 * (got(e.value) + 1) \/ cutOff
=============================================================================
