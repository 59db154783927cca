----------------------------- MODULE PodMarker -----------------------------
(***************************************************************************)
(* The PodMarker controller (controllers/podmarker/podmarker_controller.go)*)
(* in one namespace: it labels the pods a marker selects with values taken *)
(* from them, and marks them, oldest first, with the values the marker     *)
(* distributes.                                                            *)
(*                                                                         *)
(* The API server and the informer caches are external: the cache delivers *)
(* the versions of each pod in order, and late, and an update of a copy    *)
(* that is not the last version is refused.  Creation times have the       *)
(* resolution of a second, and the cache lists pods in no order, so pods   *)
(* of one second are sorted in any order.                                  *)
(***************************************************************************)
EXTENDS Integers, Sequences, FiniteSets, Functions, FiniteSetsExt

CONSTANTS
    Pods, Markers,
    Fields,       \* what the selectors and the JSON paths can tell of a pod
    Extracted,    \* extractValueByJSONPath: field -> value for a label
    Refused,      \* those values the API server takes for no label
    Specs,        \* what users write into a marker
    NodeValue,    \* what the JSON path finds in a node
    Absent,       \* there is no such label
    Bindings,     \* whether pods are on a node
    Gone, NoSpec,
    MaxBorn,      \* bound: seconds in which pods are created
    MaxNews,      \* bound: versions of a pod the cache has still to see
    MaxActs,      \* bound: acts of users
    MaxTroubles   \* bound: updates that fail for no reason of their own, and crashes

Marks == [value : STRING, replicas : Nat, weight : 0 .. 100]

\* addPod, addNode: AddLabels takes a value from the pod, from its node; marks: the
\* values of MarkLabel, if there is one.
SpecType == [selector : SUBSET Fields, addPod : BOOLEAN, addNode : BOOLEAN,
             marking : BOOLEAN, marks : Seq(Marks)]

\* Labels by the marker that sets them: the one of its AddLabels, and the mark, where
\* "" stands for none too.
Version == [born : 1 .. MaxBorn, field : Fields, bound : Bindings,
            label : [Markers -> STRING \cup {Absent}], mark : [Markers -> STRING]]

ASSUME MarkerAssumption ==
    /\ Extracted \in [Fields -> STRING] /\ Refused \subseteq STRING /\ Absent \notin STRING
    /\ IsFiniteSet(Pods) /\ IsFiniteSet(Markers) /\ Specs \subseteq SpecType
    /\ {MaxBorn, MaxNews, MaxActs, MaxTroubles} \subseteq Nat
    /\ Gone \notin Version
    /\ "" \in STRING   \* always so: it is here for the provers, which do not know it

VARIABLES
    cached,         \* the pods in the informer cache
    news,           \* pod -> the versions the cache has still to see
    spec,           \* marker -> its spec in the API server
    cachedSpec,
    nodeFound,      \* whether the Get of the pods' node succeeds
    queued, retry,  \* a request for the namespace is queued; waits ten seconds
    pc,             \* "idle", or where Reconcile is: "list", "label", "mark"
    todo,           \* the markers still to process, with the specs listed
    failed,         \* hasError
    list,           \* podList of processPodMarker, sorted
    copy,           \* pod of the list -> the copy of it the list holds
    held,           \* pods whose copy is the last version
    pos,            \* the place in the list the loop has come to
    blind,          \* history: marker and pod, when the node was needed and not found at
                    \* the last look at the pod
    acts, troubles

clusterVars == <<cached, news, spec, cachedSpec, nodeFound, blind>>
loopVars == <<todo, failed, list, copy, held, pos>>
bounds == <<acts, troubles>>
vars == <<clusterVars, queued, retry, pc, loopVars, bounds>>

\* The pod as the API server has it.
Truth(p) == IF news[p] = <<>> THEN cached[p] ELSE news[p][Len(news[p])]

Selected(view, s) ==
    {p \in Pods : IF view[p] = Gone THEN FALSE ELSE view[p].field \in s.selector}

\* The ways to sort pods by their creation time.
Orders(view, set) ==
    {o \in [1 .. Cardinality(set) -> set] :
        \A i, j \in DOMAIN o : i < j => /\ o[i] # o[j]
                                        /\ view[o[i]].born <= view[o[j]].born}
-----------------------------------------------------------------------------
Init ==
    /\ cached = [p \in Pods |-> Gone] /\ news = [p \in Pods |-> <<>>]
    /\ spec \in [Markers -> Specs] /\ cachedSpec = spec
    /\ nodeFound = TRUE /\ blind = {}
    /\ queued = TRUE /\ retry = FALSE /\ pc = "idle" /\ todo = <<>> /\ failed = FALSE
    /\ list = <<>> /\ copy = [p \in Pods |-> Gone] /\ held = {} /\ pos = 1
    /\ acts = 0 /\ troubles = 0

(* The cluster.                                                            *)

Act == acts < MaxActs /\ acts' = acts + 1 /\ UNCHANGED troubles

Trouble == troubles < MaxTroubles /\ troubles' = troubles + 1

Put(p, v) == Len(news[p]) < MaxNews /\ news' = [news EXCEPT ![p] = Append(@, v)]

UserWrite(p, v) ==
    /\ Act /\ Put(p, v) /\ held' = held \ {p}
    /\ UNCHANGED <<cached, spec, cachedSpec, nodeFound, blind, queued, retry, pc, todo,
                   failed, list, copy, pos>>

Exists(p) == Truth(p) # Gone

Create(p, b, f, on) ==
    /\ ~Exists(p) /\ \A r \in Pods : IF Exists(r) THEN Truth(r).born <= b ELSE TRUE
    /\ UserWrite(p, [born |-> b, field |-> f, bound |-> on,
                      label |-> [m \in Markers |-> Absent], mark |-> [m \in Markers |-> ""]])

Edit(p, f) == Exists(p) /\ Truth(p).field # f /\ UserWrite(p, [Truth(p) EXCEPT !.field = f])

Unmark(p, m) ==
    /\ Exists(p) /\ Truth(p).mark[m] # ""
    /\ UserWrite(p, [Truth(p) EXCEPT !.mark[m] = ""])

Delete(p) == Exists(p) /\ UserWrite(p, Gone)

SetSpec(m, s) ==
    /\ Act /\ spec[m] # s /\ spec' = [spec EXCEPT ![m] = s]
    /\ UNCHANGED <<cached, news, cachedSpec, nodeFound, blind, queued, retry, pc, loopVars>>

\* The node goes, or comes back.  Nobody watches nodes.
NodeChanges ==
    /\ Act /\ nodeFound' = ~nodeFound
    /\ UNCHANGED <<cached, news, spec, cachedSpec, blind, queued, retry, pc, loopVars>>

Users ==
    \/ \E p \in Pods :
          \/ \E b \in 1 .. MaxBorn, f \in Fields, on \in Bindings : Create(p, b, f, on)
          \/ \E f \in Fields : Edit(p, f)
          \/ \E m \in Markers : Unmark(p, m)
          \/ Delete(p)
    \/ \E m \in Markers, s \in Specs \cup {NoSpec} : SetSpec(m, s)
    \/ NodeChanges

\* findObjectForPodMaker: a new version of any pod of the namespace brings it into
\* the queue.
Deliver(p) ==
    /\ news[p] # <<>>
    /\ cached' = [cached EXCEPT ![p] = Head(news[p])]
    /\ news' = [news EXCEPT ![p] = Tail(@)]
    /\ queued' = TRUE
    /\ UNCHANGED <<spec, cachedSpec, nodeFound, blind, retry, pc, loopVars, bounds>>

DeliverSpec(m) ==
    /\ cachedSpec[m] # spec[m] /\ cachedSpec' = [cachedSpec EXCEPT ![m] = spec[m]]
    /\ queued' = TRUE
    /\ UNCHANGED <<cached, news, spec, nodeFound, blind, retry, pc, loopVars, bounds>>

RetryDue ==
    /\ retry /\ retry' = FALSE /\ queued' = TRUE
    /\ UNCHANGED <<clusterVars, pc, loopVars, bounds>>
-----------------------------------------------------------------------------
(* Reconcile.                                                              *)

\* A request of the namespace, by the name of a marker or of none: the markers are
\* listed, in any order.
Begin ==
    /\ pc = "idle" /\ queued /\ queued' = FALSE
    /\ LET known == {m \in Markers : cachedSpec[m] # NoSpec}
       IN  \E o \in [1 .. Cardinality(known) -> known] :
              /\ Range(o) = known
              /\ todo' = [i \in DOMAIN o |-> [marker |-> o[i], spec |-> cachedSpec[o[i]]]]
    /\ pc' = "list" /\ failed' = FALSE
    /\ UNCHANGED <<clusterVars, retry, list, copy, held, pos, bounds>>

\* Seeded fault: the error of a marker does not ask for another turn.
EndForgetsError ==
    /\ pc = "list" /\ todo = <<>> /\ pc' = "idle" /\ failed' = FALSE
    /\ UNCHANGED <<clusterVars, queued, retry, todo, list, copy, held, pos, bounds>>

\* An error asks for another turn in ten seconds.
End ==
    /\ pc = "list" /\ todo = <<>>
    /\ pc' = "idle" /\ retry' = (retry \/ failed) /\ failed' = FALSE
    /\ UNCHANGED <<clusterVars, queued, todo, list, copy, held, pos, bounds>>

List ==
    /\ pc = "list" /\ todo # <<>>
    /\ list' \in Orders(cached, Selected(cached, todo[1].spec))
    /\ copy' = [p \in Pods |-> IF p \in Range(list') THEN cached[p] ELSE Gone]
    /\ held' = {p \in Range(list') : news[p] = <<>>}
    /\ pc' = "label" /\ pos' = 1
    /\ UNCHANGED <<clusterVars, queued, retry, todo, failed, bounds>>

\* Seeded fault: the next list is entered where this one was left.
ReturnKeepsPlace(err) ==
    /\ pc' = "list" /\ todo' = Tail(todo) /\ failed' = (failed \/ err)
    /\ list' = <<>> /\ copy' = [p \in Pods |-> Gone] /\ held' = {} /\ UNCHANGED pos

\* processPodMarker returns, and forgets its list.
Return(err) ==
    /\ pc' = "list" /\ todo' = Tail(todo) /\ failed' = (failed \/ err)
    /\ list' = <<>> /\ copy' = [p \in Pods |-> Gone] /\ held' = {} /\ pos' = 1

Acceptable(v) == \A m \in Markers : v.label[m] \notin Refused

\* An update that changes nothing makes no new version.
Store(p, v) == IF v = Truth(p) THEN UNCHANGED news ELSE Put(p, v)

\* Seeded fault: a patch that carries the whole copy, whatever the last version is.
SendUnconditional(p, v) ==
    /\ Put(p, v) /\ copy' = [copy EXCEPT ![p] = v] /\ pos' = pos + 1
    /\ UNCHANGED <<pc, todo, failed, list, held, troubles>>

\* r.Update with the copy changed to v: done; refused, for a conflict or a label; or
\* failed, with or without effect.
Send(p, v) ==
    \/ /\ p \in held /\ Acceptable(v) /\ Store(p, v)
       /\ copy' = [copy EXCEPT ![p] = v] /\ pos' = pos + 1
       /\ UNCHANGED <<pc, todo, failed, list, held, troubles>>
    \/ /\ p \notin held \/ ~Acceptable(v)
       /\ Return(TRUE)
       /\ UNCHANGED <<news, troubles>>
    \/ /\ Trouble /\ Return(TRUE)
       /\ UNCHANGED news \/ (p \in held /\ Acceptable(v) /\ Store(p, v))

\* The pod is updated if a label was written.
Step(p, v, written) ==
    /\ IF written THEN Send(p, v)
       ELSE pos' = pos + 1 /\ UNCHANGED <<news, pc, todo, failed, list, copy, held, troubles>>
    /\ UNCHANGED <<cached, spec, cachedSpec, nodeFound, queued, retry, acts>>

\* What the label reads as, and what it is after value x was written where it differs.
Shown(l) == IF l = Absent THEN "" ELSE l
Write(l, x) == IF Shown(l) = x THEN l ELSE x

\* The value from the node is looked for only when the Get fails: there it is what the
\* path finds in an empty object.
Blind(v, s) == s.addNode /\ v.bound /\ ~nodeFound

\* Both values go to one label, that from the node last.
FromPod(l, v, s) == IF s.addPod THEN Write(l, Extracted[v.field]) ELSE l
FromNode(l, v, s) == IF Blind(v, s) THEN Write(l, "") ELSE l

\* Seeded fault: one turn writes one of the two values.
LabelledInTurns(v, m, s) ==
    [v EXCEPT !.label[m] =
        IF FromPod(@, v, s) # @ THEN FromPod(@, v, s) ELSE FromNode(@, v, s)]

Labelled(v, m, s) == [v EXCEPT !.label[m] = FromNode(FromPod(@, v, s), v, s)]

\* `changed`: a value was written, be it overwritten at once with what was there before.
Relabelled(v, m, s) ==
    LET l == FromPod(v.label[m], v, s)
    IN  l # v.label[m] \/ FromNode(l, v, s) # l

LabelPod ==
    LET p == list[pos]
        m == todo[1].marker
        s == todo[1].spec
    IN  /\ pc = "label" /\ pos <= Len(list)
        /\ Step(p, Labelled(copy[p], m, s), Relabelled(copy[p], m, s))
        /\ blind' = IF Blind(copy[p], s) THEN blind \cup {<<m, p>>} ELSE blind \ {<<m, p>>}

LabelsDone ==
    /\ pc = "label" /\ pos > Len(list)
    /\ IF todo[1].spec.marking
       THEN pc' = "mark" /\ pos' = 1 /\ UNCHANGED <<todo, failed, list, copy, held>>
       ELSE Return(FALSE)
    /\ UNCHANGED <<clusterVars, queued, retry, bounds>>

\* How many of n pods are to have the value of entry e.
CountOf(e, n) == IF e.replicas > 0 THEN e.replicas ELSE (n * e.weight) \div 100

\* The mark of the k-th of n pods: the entries take pods in turn, and what is left
\* has none.
Wanted(marks, k, n) ==
    LET upTo(j) == FoldFunctionOnSet(+, 0, [i \in 1 .. j |-> CountOf(marks[i], n)], 1 .. j)
        reach == {j \in DOMAIN marks : k <= upTo(j)}
    IN  IF reach = {} THEN "" ELSE marks[Min(reach)].value

MarkPod ==
    LET p == list[pos]
        v == [copy[p] EXCEPT !.mark[todo[1].marker] = Wanted(todo[1].spec.marks, pos, Len(list))]
    IN  /\ pc = "mark" /\ pos <= Len(list)
        /\ Step(p, v, v # copy[p]) /\ UNCHANGED blind

MarksDone ==
    /\ pc = "mark" /\ pos > Len(list) /\ Return(FALSE)
    /\ UNCHANGED <<clusterVars, queued, retry, bounds>>

WorkerStep == Begin \/ End \/ List \/ LabelPod \/ LabelsDone \/ MarkPod \/ MarksDone

\* The process ends and starts again: the caches list what exists.
Crash ==
    /\ Trouble
    /\ cached' = [p \in Pods |-> Truth(p)] /\ news' = [p \in Pods |-> <<>>]
    /\ cachedSpec' = spec /\ queued' = TRUE /\ retry' = FALSE
    /\ pc' = "idle" /\ todo' = <<>> /\ failed' = FALSE
    /\ list' = <<>> /\ copy' = [p \in Pods |-> Gone] /\ held' = {} /\ pos' = 1
    /\ UNCHANGED <<spec, nodeFound, blind, acts>>

Next ==
    \/ Users \/ WorkerStep \/ RetryDue \/ Crash
    \/ \E p \in Pods : Deliver(p)
    \/ \E m \in Markers : DeliverSpec(m)

Spec == Init /\ [][Next]_vars

\* The worker, the retry timer and the caches take the steps they can take.
Fairness ==
    /\ WF_vars(WorkerStep) /\ WF_vars(RetryDue)
    /\ \A p \in Pods : WF_vars(Deliver(p))
    /\ \A m \in Markers : WF_vars(DeliverSpec(m))

FairSpec == Spec /\ Fairness
-----------------------------------------------------------------------------
(* Properties                                                              *)

\* Every variable holds a value of its kind; the list holds its copies, and the loop
\* is at a place of the list or just after it.
TypeOK ==
    /\ cached \in [Pods -> Version \cup {Gone}]
    /\ \A p \in Pods : \A i \in DOMAIN news[p] : news[p][i] \in Version \cup {Gone}
    /\ pc \in {"idle", "list", "label", "mark"}
    /\ Range(list) = {p \in Pods : copy[p] # Gone} /\ held \subseteq Range(list)
    /\ pos \in 1 .. Len(list) + 1
    /\ pc \in {"label", "mark"} => todo # <<>>
    /\ pc = "idle" => todo = <<>> /\ ~failed

Rest ==
    /\ pc = "idle" /\ ~queued /\ ~retry /\ cachedSpec = spec
    /\ \A p \in Pods : news[p] = <<>>

\* When the controller has come to rest, each marker's labels and marks are those of
\* its last spec, distributed over the pods as they are, in some order of age: no
\* event, conflict, failed update or restart between two updates was lost.  The label
\* is empty where the node was needed and not found at the last look, whatever
\* valueFromPod finds, and stays so when the node is back.
RestIsMarked ==
    Rest => \A m \in {o \in Markers : spec[o] # NoSpec} :
        LET s == spec[m]
            set == Selected(cached, s)
        IN  /\ \A p \in set :
                  IF <<m, p>> \in blind THEN s.addNode /\ Shown(cached[p].label[m]) = ""
                  ELSE s.addPod => Shown(cached[p].label[m]) = Extracted[cached[p].field]
            /\ s.marking => \E o \in Orders(cached, set) : \A k \in DOMAIN o :
                  cached[o[k]].mark[m] = Wanted(s.marks, k, Len(o))

\* Reconcile writes labels only: a change that somebody else made to a pod after it
\* was listed, or its deletion, is never undone by an update of the copy in the list.
OthersAreKept ==
    [][WorkerStep => \A p \in Pods : Truth(p)' # Truth(p) =>
        /\ Truth(p) # Gone /\ Truth(p)' # Gone
        /\ Truth(p)'.field = Truth(p).field
        /\ \A m \in Markers : Truth(p)'.mark[m] # Truth(p).mark[m] =>
              Truth(p).mark[m] = copy[p].mark[m]]_vars

\* Pods that a marker selects were created in one second.
Ties ==
    \E m \in {o \in Markers : spec[o] # NoSpec} :
        LET set == Selected([p \in Pods |-> Truth(p)], spec[m])
        IN  \E p, r \in set : p # r /\ Truth(p).born = Truth(r).born

\* A marker has a label to set that the API server refuses, and no unreadable node
\* empties it.
Unwritable ==
    \E m \in {o \in Markers : spec[o] # NoSpec} :
        spec[m].addPod /\ \E p \in Selected([r \in Pods |-> Truth(r)], spec[m]) :
            Extracted[Truth(p).field] \in Refused /\ ~Blind(Truth(p), spec[m])

\* The controller comes to rest once it is left alone, unless a marker selects pods of
\* one second, which trade their marks without end, or has a label to set that the API
\* server refuses, which is tried again every ten seconds.
ComesToRest == <>[](Ties \/ Unwritable \/ Rest)

\* README.md:84 has valueFromNode beside valueFromPod: at rest, the label of a pod that
\* is on a node should hold what the path finds there.
NodeLabelIsSet ==
    Rest => \A m \in {o \in Markers : spec[o] # NoSpec} :
        spec[m].addNode => \A p \in Selected(cached, spec[m]) :
            cached[p].bound => cached[p].label[m] = NodeValue
=============================================================================
