--------------------------- MODULE PodMarkerProofs ---------------------------
(***************************************************************************)
(* The types of PodMarker, that at rest the pods of every marker are       *)
(* labelled and marked, and that the controller writes nothing over what   *)
(* others wrote, for all pods, markers and bounds.                         *)
(*                                                                         *)
(* RestIsMarked has to know, while Reconcile runs, which markers it has    *)
(* done with, and how far it is in the list of the one in turn (Settled,   *)
(* InTurn): unless something makes Reconcile run again, what the cache     *)
(* shows of a pod is what the pass left behind. That an Update takes       *)
(* effect only on the version copied (CopiesAreLast) gives the rest.       *)
(***************************************************************************)
EXTENDS PodMarker, SequenceTheorems, FiniteSetTheorems, WellFoundedInduction, TLAPS

\* What Reconcile has still to process: a marker, and the spec it listed.
Turn == [marker : Markers, spec : Specs]

\* The pods, the markers, and the versions on their way to the cache.
ClusterOK ==
    /\ cached \in [Pods -> Version \cup {Gone}]
    /\ news \in [Pods -> Seq(Version \cup {Gone})]
    /\ spec \in [Markers -> Specs \cup {NoSpec}] /\ cachedSpec \in [Markers -> Specs \cup {NoSpec}]

\* Where the loop of Reconcile is, with which turns left.
LoopOK ==
    /\ pc \in {"idle", "list", "label", "mark"}
    /\ todo \in Seq(Turn) /\ failed \in BOOLEAN
    /\ (pc \in {"label", "mark"} => todo # <<>>)
    /\ (pc = "idle" => todo = <<>> /\ ~failed)

\* The pods of the turn under way, and where it is among them.
ListOK ==
    /\ list \in Seq(Pods) /\ copy \in [Pods -> Version \cup {Gone}]
    /\ Range(list) = {p \in Pods : copy[p] # Gone} /\ held \subseteq Range(list)
    /\ pos \in 1 .. Len(list) + 1

\* A copy that Reconcile holds is the last version of its pod.
CopiesAreLast == \A p \in held : copy[p] = Truth(p)

\* Reconcile will run again.
Due ==
    queued \/ retry \/ failed \/ \E p \in Pods : news[p] # <<>>

\* The pod, as it is in version v, has the label of the marker, if the marker is to set
\* one: that of its node where the node was not found.
HasLabel(p, v, m, s) ==
    IF <<m, p>> \in blind THEN s.addNode /\ Shown(v.label[m]) = ""
    ELSE s.addPod => Shown(v.label[m]) = Extracted[v.field]

\* Every pod the marker selects has its label and the mark of its place in some order.
Marked(m, s) ==
    LET set == Selected(cached, s)
    IN  /\ \A p \in set : HasLabel(p, cached[p], m, s)
        /\ s.marking => \E o \in Orders(cached, set) : \A k \in DOMAIN o :
              cached[o[k]].mark[m] = Wanted(s.marks, k, Len(o))

\* What the turn of marker m has done so far, up to the pod it is at.
InTurn(m, s) ==
    /\ list \in Orders(cached, Selected(cached, s))
    /\ \A p \in Range(list) : copy[p] = cached[p]
    /\ \A k \in DOMAIN list : k < pos \/ pc = "mark" => HasLabel(list[k], copy[list[k]], m, s)
    /\ pc = "mark" => \A k \in DOMAIN list : k < pos =>
          copy[list[k]].mark[m] = Wanted(s.marks, k, Len(list))

\* Unless Reconcile will run again, every marker has been processed or is still to be,
\* and the one in turn is done up to the pod it is at.
Settled ==
    Due \/ /\ \A i \in DOMAIN todo : todo[i].spec = cachedSpec[todo[i].marker]
           /\ \A m \in Markers : cachedSpec[m] # NoSpec =>
                 (\E i \in DOMAIN todo : todo[i].marker = m) \/ Marked(m, cachedSpec[m])
           /\ pc \in {"label", "mark"} => InTurn(todo[1].marker, todo[1].spec)

\* The inductive invariant.
IInv == ClusterOK /\ LoopOK /\ ListOK /\ CopiesAreLast /\ Settled
-----------------------------------------------------------------------------
(* Versions on their way to the cache.                                     *)

\* The last version of a pod is a version, or that it is gone.
LEMMA TruthTyped == ASSUME ClusterOK, NEW p \in Pods PROVE Truth(p) \in Version \cup {Gone}
<1>1. news[p] \in Seq(Version \cup {Gone}) /\ cached[p] \in Version \cup {Gone}
  BY DEF ClusterOK
<1>2. CASE news[p] # <<>>
  <2>1. Len(news[p]) \in 1 .. Len(news[p])
    BY <1>1, <1>2, EmptySeq, LenProperties
  <2> QED BY <1>1, <1>2, <2>1, ElementOfSeq DEF Truth
<1> QED BY <1>1, <1>2 DEF Truth

\* What is written is the last version, and that of nothing else.
LEMMA PutEffect ==
    ASSUME ClusterOK, NEW p \in Pods, NEW v \in Version \cup {Gone}, Put(p, v),
           UNCHANGED <<cached, spec, cachedSpec>>
    PROVE  /\ ClusterOK' /\ news'[p] # <<>> /\ Truth(p)' = v
           /\ \A r \in Pods \ {p} : Truth(r)' = Truth(r)
<1> DEFINE T == Version \cup {Gone}
<1>1. news \in [Pods -> Seq(T)] /\ news' = [news EXCEPT ![p] = Append(news[p], v)]
  BY DEF ClusterOK, Put
<1>2. news[p] \in Seq(T) /\ v \in T
  BY <1>1
<1> HIDE DEF T
<1>3. /\ Append(news[p], v) \in Seq(T) /\ Append(news[p], v) # <<>>
      /\ Len(Append(news[p], v)) = Len(news[p]) + 1
      /\ Append(news[p], v)[Len(news[p]) + 1] = v
  BY <1>2, AppendProperties
<1>4. /\ news' \in [Pods -> Seq(T)] /\ news'[p] = Append(news[p], v)
      /\ \A r \in Pods \ {p} : news'[r] = news[r]
  BY <1>1, <1>3
<1>5. ClusterOK'
  BY <1>4 DEF ClusterOK, T
<1>6. Truth(p)' = v
  BY <1>3, <1>4 DEF Truth
<1> QED BY <1>3, <1>4, <1>5, <1>6 DEF Truth

\* A delivery leaves the last versions as they are.
LEMMA DeliverEffect ==
    ASSUME ClusterOK, NEW p \in Pods, Deliver(p)
    PROVE  ClusterOK' /\ \A r \in Pods : Truth(r)' = Truth(r)
<1> DEFINE T == Version \cup {Gone}
<1>0. PICK s : s = news[p]
  OBVIOUS
<1>1. /\ news \in [Pods -> Seq(T)] /\ cached \in [Pods -> T] /\ s # <<>>
      /\ cached' = [cached EXCEPT ![p] = Head(s)] /\ news' = [news EXCEPT ![p] = Tail(s)]
      /\ UNCHANGED <<spec, cachedSpec>>
  BY <1>0 DEF ClusterOK, Deliver
<1>2. s \in Seq(T) /\ Len(s) \in Nat \ {0}
  BY <1>0, <1>1, EmptySeq
<1> HIDE DEF T
<1>3. /\ Head(s) \in T /\ Tail(s) \in Seq(T) /\ Len(Tail(s)) = Len(s) - 1
      /\ \A i \in 1 .. Len(Tail(s)) : Tail(s)[i] = s[i + 1]
  BY <1>1, <1>2, HeadTailProperties
<1>4. Head(s) = s[1]
  BY <1>1, <1>2
<1>5. /\ cached' \in [Pods -> T] /\ news' \in [Pods -> Seq(T)]
      /\ cached'[p] = Head(s) /\ news'[p] = Tail(s)
      /\ \A r \in Pods \ {p} : cached'[r] = cached[r] /\ news'[r] = news[r]
  BY <1>1, <1>3
<1>6. ClusterOK'
  BY <1>1, <1>5 DEF ClusterOK, T
<1>7. Truth(p)' = s[Len(s)]
  <2>1. CASE Tail(s) = <<>>
    <3>1. Len(Tail(s)) = 0
      BY <2>1, Len(<<>>) = 0
    <3>2. Len(s) = 1
      BY <3>1, <1>2, <1>3
    <3> QED BY <2>1, <3>2, <1>4, <1>5 DEF Truth
  <2>2. CASE Tail(s) # <<>>
    <3>1. Len(Tail(s)) \in Nat \ {0}
      BY <2>2, <1>3, EmptySeq
    <3>2. Tail(s)[Len(Tail(s))] = s[Len(Tail(s)) + 1]
      BY <3>1, <1>3
    <3>3. Tail(s)[Len(Tail(s))] = s[Len(s)]
      BY <3>1, <3>2, <1>2, <1>3
    <3> QED BY <2>2, <3>3, <1>5 DEF Truth
  <2> QED BY <2>1, <2>2
<1>8. Truth(p) = s[Len(s)]
  BY <1>0, <1>1 DEF Truth
<1> QED BY <1>5, <1>6, <1>7, <1>8 DEF Truth
-----------------------------------------------------------------------------
(* What is written into a pod.                                             *)

\* A nonempty set of naturals has a minimum.
LEMMA MinIsIn == ASSUME NEW S \in SUBSET Nat, S # {} PROVE Min(S) \in S
<1>1. PICK m \in S : \A k \in S : ~(<<k, m>> \in OpToRel(<, Nat))
  BY NatLessThanWellFounded, WFMin
<1>2. \A k \in S : ~(k < m)
  BY <1>1 DEF OpToRel
<1>3. \A k \in S : m <= k
  BY <1>2, SMT
<1> QED BY <1>3 DEF Min

\* The mark wanted for a place is a string.
LEMMA WantedTyped ==
    ASSUME NEW marks \in Seq(Marks), NEW k, NEW n
    PROVE  Wanted(marks, k, n) \in STRING
<1> DEFINE upTo(j) == FoldFunctionOnSet(+, 0, [i \in 1 .. j |-> CountOf(marks[i], n)], 1 .. j)
           reach == {j \in DOMAIN marks : k <= upTo(j)}
<1>1. Wanted(marks, k, n) = IF reach = {} THEN "" ELSE marks[Min(reach)].value
  BY DEF Wanted
<1> HIDE DEF upTo
<1>2. reach \subseteq DOMAIN marks
  OBVIOUS
<1> HIDE DEF reach
<1>3. DOMAIN marks = 1 .. Len(marks) /\ marks \in [1 .. Len(marks) -> Marks]
  BY LenProperties
<1>4. reach # {} => Min(reach) \in DOMAIN marks
  <2>1. reach \in SUBSET Nat
    BY <1>2, <1>3, LenProperties
  <2> QED BY <1>2, <2>1, MinIsIn
<1>5. \A j \in DOMAIN marks : marks[j].value \in STRING
  BY <1>3 DEF Marks
<1>6. reach # {} => marks[Min(reach)].value \in STRING
  BY <1>4, <1>5
<1> QED BY <1>1, <1>6, MarkerAssumption DEF MarkerAssumption

\* Labelling a pod changes its label and nothing else, to what its marker asks for.
LEMMA LabelledTyped ==
    ASSUME NEW v \in Version, NEW m \in Markers, NEW s \in Specs
    PROVE  /\ Labelled(v, m, s) \in Version
           /\ Labelled(v, m, s).field = v.field /\ Labelled(v, m, s).mark = v.mark
           /\ IF Blind(v, s) THEN s.addNode /\ Shown(Labelled(v, m, s).label[m]) = ""
              ELSE s.addPod => Shown(Labelled(v, m, s).label[m]) = Extracted[v.field]
           /\ ~Relabelled(v, m, s) => Labelled(v, m, s) = v
<1>1. Extracted[v.field] \in STRING /\ "" \in STRING /\ Absent \notin STRING
  BY MarkerAssumption DEF MarkerAssumption, Version
<1>2. PICK l : l = FromNode(FromPod(v.label[m], v, s), v, s)
  OBVIOUS
<1>3. Labelled(v, m, s) = [v EXCEPT !.label = [v.label EXCEPT ![m] = l]]
  BY <1>2 DEF Labelled
<1>4. v.label \in [Markers -> STRING \cup {Absent}]
  BY DEF Version
<1>5. /\ l \in STRING \cup {Absent}
      /\ Blind(v, s) => s.addNode /\ Shown(l) = ""
      /\ ~Blind(v, s) /\ s.addPod => Shown(l) = Extracted[v.field]
  BY <1>1, <1>2, <1>4 DEF FromNode, FromPod, Write, Shown, Blind
<1> DEFINE ls == [v.label EXCEPT ![m] = l]
<1>6. ls \in [Markers -> STRING \cup {Absent}] /\ ls[m] = l /\ (l = v.label[m] => ls = v.label)
  BY <1>4, <1>5
<1>7. ~Relabelled(v, m, s) => l = v.label[m]
  BY <1>2 DEF Relabelled
<1> HIDE DEF ls
<1>8. Labelled(v, m, s) = [v EXCEPT !.label = ls]
  BY <1>3 DEF ls
<1>9. Labelled(v, m, s) \in Version /\ Labelled(v, m, s).label = ls
  BY <1>6, <1>8 DEF Version
<1>10. ls = v.label => Labelled(v, m, s) = v
  BY <1>8 DEF Version
<1> QED BY <1>5, <1>6, <1>7, <1>8, <1>9, <1>10 DEF Version
-----------------------------------------------------------------------------
(* Lists of pods.                                                          *)

\* An order of some pods lists just these.
LEMMA OrdersProperties ==
    ASSUME NEW view, NEW set \in SUBSET Pods, NEW o \in Orders(view, set)
    PROVE  o \in Seq(Pods) /\ Range(o) = set /\ DOMAIN o = 1 .. Len(o)
<1> DEFINE n == Cardinality(set)
<1>1. IsFiniteSet(set) /\ n \in Nat
  BY MarkerAssumption, FS_Subset, FS_CardinalityType DEF MarkerAssumption
<1>2. o \in [1 .. n -> set] /\ \A i, j \in 1 .. n : i < j => o[i] # o[j]
  BY DEF Orders
<1>3. \A i, j \in 1 .. n : o[i] = o[j] => i = j
  <2> SUFFICES ASSUME NEW i \in 1 .. n, NEW j \in 1 .. n, o[i] = o[j], i # j PROVE FALSE
    OBVIOUS
  <2>1. i < j \/ j < i
    BY <1>1
  <2> QED BY <1>2, <2>1
<1>4. o \in Injection(1 .. n, set)
  BY <1>2, <1>3 DEF Injection, IsInjective
<1>5. Cardinality(1 .. n) = n
  BY <1>1, FS_Interval
<1>6. o \in Surjection(1 .. n, set)
  BY <1>1, <1>4, <1>5, FS_Injection
<1>7. Range(o) = set
  BY <1>2, <1>6 DEF Surjection, Range
<1>8. o \in Seq(Pods)
  <2>1. o \in [1 .. n -> Pods]
    BY <1>2
  <2> HIDE DEF n
  <2> QED BY <1>1, <2>1, SeqDef
<1> QED BY <1>7, <1>8, LenProperties

\* There is nothing in the empty list.
LEMMA EmptyList == <<>> \in Seq(Pods) /\ Range(<<>>) = {} /\ Len(<<>>) = 0
<1>1. DOMAIN <<>> = {} /\ Len(<<>>) = 0
  OBVIOUS
<1> QED BY <1>1, EmptySeq DEF Range

\* The loop has come to a pod of the list, whose copy is a pod.
LEMMA AtPos ==
    ASSUME ListOK, pos <= Len(list)
    PROVE  list[pos] \in Range(list) /\ list[pos] \in Pods /\ copy[list[pos]] \in Version
<1>1. pos \in 1 .. Len(list) /\ DOMAIN list = 1 .. Len(list)
  BY LenProperties DEF ListOK
<1>2. list[pos] \in Range(list)
  BY <1>1 DEF Range
<1> QED BY <1>2 DEF ListOK

\* The turn under way is that of a marker.
LEMMA FirstTurn ==
    ASSUME LoopOK, todo # <<>>
    PROVE  /\ DOMAIN todo = 1 .. Len(todo) /\ Len(todo) \in Nat \ {0} /\ 1 \in DOMAIN todo
           /\ todo[1] \in Turn /\ todo[1].marker \in Markers /\ todo[1].spec \in Specs
<1>1. Len(todo) \in Nat \ {0} /\ DOMAIN todo = 1 .. Len(todo) /\ todo \in [1 .. Len(todo) -> Turn]
  BY EmptySeq, LenProperties DEF LoopOK
<1>2. todo[1] \in Turn
  BY <1>1
<1> QED BY <1>1, <1>2 DEF Turn
-----------------------------------------------------------------------------
(* The invariant holds at first, and the cluster keeps it.                 *)

\* The inductive invariant holds at first.
LEMMA InitInv == Init => IInv
<1> SUFFICES ASSUME Init PROVE IInv
  OBVIOUS
<1> USE DEF Init
<1>1. ClusterOK
  <2>1. <<>> \in Seq(Version \cup {Gone})
    BY EmptySeq
  <2> QED BY <2>1 DEF ClusterOK
<1>2. LoopOK
  <2>1. <<>> \in Seq(Turn)
    BY EmptySeq
  <2> QED BY <2>1 DEF LoopOK
<1>3. ListOK
  BY EmptyList DEF ListOK
<1>4. CopiesAreLast /\ Settled
  BY DEF CopiesAreLast, Settled, Due
<1> QED BY <1>1, <1>2, <1>3, <1>4 DEF IInv

\* A label is as asked for as long as the node was looked at no more.
LEMMA LabelKept ==
    ASSUME UNCHANGED blind, NEW p, NEW v, NEW m, NEW s
    PROVE  HasLabel(p, v, m, s)' <=> HasLabel(p, v, m, s)
BY DEF HasLabel

\* A marker's pods are as it wants them as long as the cache shows no change.
LEMMA MarkedKept ==
    ASSUME cached' = cached, NEW m, NEW s,
           \A p, v : HasLabel(p, v, m, s)' <=> HasLabel(p, v, m, s)
    PROVE  Marked(m, s)' <=> Marked(m, s)
<1>1. Selected(cached, s)' = Selected(cached, s)
  BY DEF Selected
<1>2. Orders(cached, Selected(cached, s))' = Orders(cached, Selected(cached, s))
  BY <1>1 DEF Orders
<1>3. (\A p \in Selected(cached, s) : HasLabel(p, cached[p], m, s))'
        <=> \A p \in Selected(cached, s) : HasLabel(p, cached[p], m, s)
  BY <1>1
<1> QED BY <1>2, <1>3 DEF Marked

\* A copy that is the last version stays so as long as nobody writes the pod.
LEMMA CopiesKept ==
    ASSUME CopiesAreLast, ListOK, copy' = copy, held' \subseteq held,
           \A p \in Pods : p \in held' => Truth(p)' = Truth(p)
    PROVE  CopiesAreLast'
<1>1. \A p \in held' : p \in Pods /\ Truth(p)' = Truth(p) /\ copy'[p] = copy[p]
  BY DEF ListOK
<1>2. \A p \in held' : copy'[p] = Truth(p)'
  BY <1>1 DEF CopiesAreLast
<1> QED BY <1>2 DEF CopiesAreLast, Truth

\* Users write a pod.
LEMMA UserWriteKeeps ==
    ASSUME IInv, NEW p \in Pods, NEW v \in Version \cup {Gone}, UserWrite(p, v)
    PROVE  IInv'
<1>1. /\ Put(p, v) /\ held' = held \ {p}
      /\ UNCHANGED <<cached, spec, cachedSpec, blind, queued, retry, pc, todo, failed, list, copy,
                     pos>>
  BY DEF UserWrite
<1>2. /\ ClusterOK' /\ news'[p] # <<>> /\ \A r \in Pods \ {p} : Truth(r)' = Truth(r)
  BY <1>1, PutEffect DEF IInv
<1>3. LoopOK' /\ ListOK'
  BY <1>1 DEF IInv, LoopOK, ListOK
<1>4. CopiesAreLast'
  BY <1>1, <1>2, CopiesKept DEF IInv
<1>5. Settled'
  BY <1>2 DEF Settled, Due
<1> QED BY <1>2, <1>3, <1>4, <1>5 DEF IInv

\* Users do, with the pods and with the markers.
LEMMA UsersKeep == ASSUME IInv, Users PROVE IInv'
<1>1. ASSUME NEW p \in Pods, NEW b \in 1 .. MaxBorn, NEW f \in Fields, NEW on \in Bindings,
             Create(p, b, f, on)
      PROVE  IInv'
  <2> DEFINE none == [m \in Markers |-> Absent]
             unmarked == [m \in Markers |-> ""]
             v == [born |-> b, field |-> f, bound |-> on, label |-> none, mark |-> unmarked]
  <2>1. none \in [Markers -> STRING \cup {Absent}] /\ unmarked \in [Markers -> STRING]
    BY MarkerAssumption DEF MarkerAssumption
  <2>2. UserWrite(p, v)
    BY <1>1 DEF Create
  <2> HIDE DEF none, unmarked
  <2>3. v \in Version
    BY <2>1 DEF Version
  <2> HIDE DEF v
  <2> QED BY <2>2, <2>3, UserWriteKeeps
<1>2. ASSUME NEW p \in Pods, NEW f \in Fields, Edit(p, f)
      PROVE  IInv'
  <2>1. Truth(p) \in Version
    BY <1>2, TruthTyped DEF IInv, Edit, Exists
  <2>2. [Truth(p) EXCEPT !.field = f] \in Version
    BY <2>1 DEF Version
  <2> QED BY <1>2, <2>2, UserWriteKeeps DEF Edit
<1>3. ASSUME NEW p \in Pods, NEW m \in Markers, Unmark(p, m)
      PROVE  IInv'
  <2>1. Truth(p) \in Version
    BY <1>3, TruthTyped DEF IInv, Unmark, Exists
  <2>2. [Truth(p).mark EXCEPT ![m] = ""] \in [Markers -> STRING]
    BY <2>1, MarkerAssumption DEF Version, MarkerAssumption
  <2>3. [Truth(p) EXCEPT !.mark = [Truth(p).mark EXCEPT ![m] = ""]] \in Version
    BY <2>1, <2>2 DEF Version
  <2> QED BY <1>3, <2>3, UserWriteKeeps DEF Unmark
<1>4. ASSUME NEW p \in Pods, Delete(p)
      PROVE  IInv'
  BY <1>4, UserWriteKeeps DEF Delete
<1>5. ASSUME spec' \in [Markers -> Specs \cup {NoSpec}],
             UNCHANGED <<cached, news, cachedSpec, blind, queued, retry, pc, loopVars>>
      PROVE  IInv'
  <2>1. /\ spec' \in [Markers -> Specs \cup {NoSpec}]
        /\ UNCHANGED <<cached, news, cachedSpec, blind, queued, retry, pc, loopVars>>
    BY <1>5
  <2>2. ClusterOK' /\ LoopOK' /\ ListOK'
    BY <2>1 DEF IInv, ClusterOK, LoopOK, ListOK, loopVars
  <2>3. CopiesAreLast'
    BY <2>1 DEF IInv, CopiesAreLast, Truth, loopVars
  <2>4. Settled'
    <3>1. Due' <=> Due
      BY <2>1 DEF Due, loopVars
    <3>2. \A k, t : Marked(k, t)' <=> Marked(k, t)
      BY <2>1, LabelKept, MarkedKept
    <3>3. \A k, t : InTurn(k, t)' <=> InTurn(k, t)
      BY <2>1 DEF InTurn, Selected, Orders, HasLabel, loopVars
    <3> QED BY <2>1, <3>1, <3>2, <3>3 DEF IInv, Settled, loopVars
  <2> QED BY <2>2, <2>3, <2>4 DEF IInv
<1>6. CASE NodeChanges \/ \E m \in Markers, s \in Specs \cup {NoSpec} : SetSpec(m, s)
  <2>1. spec' \in [Markers -> Specs \cup {NoSpec}]
    BY <1>6 DEF NodeChanges, SetSpec, IInv, ClusterOK
  <2> QED BY <1>5, <1>6, <2>1 DEF NodeChanges, SetSpec
<1> QED BY <1>1, <1>2, <1>3, <1>4, <1>6 DEF Users

\* The cache sees the next version of a pod or a spec, and a retry becomes due.
LEMMA CachesKeep ==
    ASSUME IInv, RetryDue \/ (\E p \in Pods : Deliver(p)) \/ \E m \in Markers : DeliverSpec(m)
    PROVE  IInv'
<1>1. UNCHANGED <<pc, loopVars, bounds>> /\ queued' = TRUE
  BY DEF RetryDue, Deliver, DeliverSpec
<1>2. ClusterOK' /\ \A p \in Pods : Truth(p)' = Truth(p)
  <2>1. CASE RetryDue
    BY <2>1 DEF RetryDue, clusterVars, IInv, ClusterOK, Truth
  <2>2. CASE \E p \in Pods : Deliver(p)
    BY <2>2, DeliverEffect DEF IInv
  <2>3. ASSUME NEW m \in Markers, DeliverSpec(m)
        PROVE  ClusterOK' /\ \A p \in Pods : Truth(p)' = Truth(p)
    BY <2>3 DEF DeliverSpec, IInv, ClusterOK, Truth
  <2> QED BY <2>1, <2>2, <2>3
<1>3. LoopOK' /\ ListOK'
  BY <1>1 DEF IInv, LoopOK, ListOK, loopVars
<1>4. CopiesAreLast'
  BY <1>1, <1>2, CopiesKept DEF IInv, loopVars
<1>5. Settled'
  BY <1>1 DEF Settled, Due
<1> QED BY <1>2, <1>3, <1>4, <1>5 DEF IInv

\* The process stops and starts again.
LEMMA CrashKeeps == ASSUME IInv, Crash PROVE IInv'
<1>1. /\ cached' = [p \in Pods |-> Truth(p)] /\ news' = [p \in Pods |-> <<>>]
      /\ cachedSpec' = spec /\ queued' = TRUE /\ spec' = spec
      /\ pc' = "idle" /\ todo' = <<>> /\ failed' = FALSE
      /\ list' = <<>> /\ copy' = [p \in Pods |-> Gone] /\ held' = {} /\ pos' = 1
  BY DEF Crash
<1>2. ClusterOK'
  <2>1. <<>> \in Seq(Version \cup {Gone})
    BY EmptySeq
  <2> QED BY <1>1, <2>1, TruthTyped DEF IInv, ClusterOK
<1>3. LoopOK'
  <2>1. <<>> \in Seq(Turn)
    BY EmptySeq
  <2> QED BY <1>1, <2>1 DEF LoopOK
<1>4. ListOK'
  BY <1>1, EmptyList DEF ListOK
<1>5. CopiesAreLast' /\ Settled'
  BY <1>1 DEF CopiesAreLast, Settled, Due
<1> QED BY <1>2, <1>3, <1>4, <1>5 DEF IInv
-----------------------------------------------------------------------------
(* A turn of the controller.                                               *)

\* Reconcile lists the markers.
LEMMA BeginKeeps == ASSUME IInv, Begin PROVE IInv'
<1> DEFINE known == {m \in Markers : cachedSpec[m] # NoSpec}
           n == Cardinality(known)
<1>1. PICK o \in [1 .. n -> known] :
         /\ Range(o) = known
         /\ todo' = [i \in DOMAIN o |-> [marker |-> o[i], spec |-> cachedSpec[o[i]]]]
  BY DEF Begin
<1>2. /\ pc = "idle" /\ queued' = FALSE /\ pc' = "list" /\ failed' = FALSE
      /\ UNCHANGED <<clusterVars, retry, list, copy, held, pos, bounds>>
  BY DEF Begin
<1>3. n \in Nat
  BY MarkerAssumption, FS_Subset, FS_CardinalityType DEF MarkerAssumption
<1>4. DOMAIN o = 1 .. n /\ \A i \in 1 .. n : o[i] \in known
  OBVIOUS
<1>5. \A m \in known : m \in Markers /\ cachedSpec[m] \in Specs
  BY DEF IInv, ClusterOK
<1>6. \A m \in known : \E i \in 1 .. n : o[i] = m
  BY <1>1, <1>4 DEF Range
<1> HIDE DEF n, known
<1>7. todo' = [i \in 1 .. n |-> [marker |-> o[i], spec |-> cachedSpec[o[i]]]]
  BY <1>1, <1>4
<1>8. todo' \in [1 .. n -> Turn]
  BY <1>4, <1>5, <1>7 DEF Turn
<1>9. todo' \in Seq(Turn) /\ DOMAIN todo' = 1 .. n
  BY <1>3, <1>8, SeqDef
<1>10. \A i \in 1 .. n : todo'[i].marker = o[i] /\ todo'[i].spec = cachedSpec[o[i]]
  BY <1>7
<1>11. ClusterOK' /\ LoopOK' /\ ListOK'
  BY <1>2, <1>9 DEF IInv, ClusterOK, LoopOK, ListOK, clusterVars
<1>12. CopiesAreLast'
  BY <1>2 DEF IInv, CopiesAreLast, Truth, clusterVars
<1>13. Settled'
  <2>1. \A i \in DOMAIN todo' : todo'[i].spec = cachedSpec'[todo'[i].marker]
    BY <1>2, <1>9, <1>10 DEF clusterVars
  <2>2. \A m \in Markers : cachedSpec'[m] # NoSpec => \E i \in DOMAIN todo' : todo'[i].marker = m
    BY <1>2, <1>6, <1>9, <1>10 DEF clusterVars, known
  <2> QED BY <1>2, <2>1, <2>2 DEF Settled
<1> QED BY <1>11, <1>12, <1>13 DEF IInv

\* Reconcile returns.
LEMMA EndKeeps == ASSUME IInv, End PROVE IInv'
<1>1. /\ pc = "list" /\ todo = <<>> /\ pc' = "idle" /\ retry' = (retry \/ failed)
      /\ failed' = FALSE
      /\ UNCHANGED <<clusterVars, queued, todo, list, copy, held, pos, bounds>>
  BY DEF End
<1>2. ClusterOK' /\ LoopOK' /\ ListOK'
  BY <1>1 DEF IInv, ClusterOK, LoopOK, ListOK, clusterVars
<1>3. CopiesAreLast'
  BY <1>1 DEF IInv, CopiesAreLast, Truth, clusterVars
<1>4. Settled'
  <2>1. Due => Due'
    BY <1>1 DEF Due, clusterVars
  <2>2. \A m, s : Marked(m, s)' <=> Marked(m, s)
    BY <1>1, LabelKept, MarkedKept DEF clusterVars
  <2> QED BY <1>1, <2>1, <2>2 DEF IInv, Settled, clusterVars
<1> QED BY <1>2, <1>3, <1>4 DEF IInv

\* The turn of a marker begins: its pods are listed and put in order.
LEMMA ListKeeps == ASSUME IInv, List PROVE IInv'
<1>1. PICK m, s : m = todo[1].marker /\ s = todo[1].spec
  OBVIOUS
<1> DEFINE set == Selected(cached, s)
<1>2. /\ pc = "list" /\ todo # <<>> /\ list' \in Orders(cached, set)
      /\ copy' = [p \in Pods |-> IF p \in Range(list') THEN cached[p] ELSE Gone]
      /\ held' = {p \in Range(list') : news[p] = <<>>}
      /\ pc' = "label" /\ pos' = 1
      /\ UNCHANGED <<clusterVars, queued, retry, todo, failed, bounds>>
  BY <1>1 DEF List
<1>3. set \in SUBSET Pods /\ \A p \in set : cached[p] \in Version
  BY DEF Selected, IInv, ClusterOK
<1>4. list' \in Seq(Pods) /\ Range(list') = set /\ Len(list') \in Nat
  BY <1>2, <1>3, OrdersProperties, LenProperties
<1>5. \A p \in Pods : copy'[p] = IF p \in set THEN cached[p] ELSE Gone
  BY <1>2, <1>4
<1>6. ListOK'
  <2>1. copy' \in [Pods -> Version \cup {Gone}]
    BY <1>2, <1>3, <1>4
  <2>2. Range(list') = {p \in Pods : copy'[p] # Gone}
    BY <1>3, <1>4, <1>5, MarkerAssumption DEF MarkerAssumption
  <2> HIDE DEF set
  <2>3. Range(list)' = Range(list')
    BY DEF Range
  <2> QED BY <1>2, <1>4, <2>1, <2>2, <2>3 DEF ListOK
<1>7. ClusterOK' /\ LoopOK'
  BY <1>2 DEF IInv, ClusterOK, LoopOK, clusterVars
<1>8. CopiesAreLast'
  BY <1>2, <1>3, <1>4, <1>5 DEF CopiesAreLast, Truth, clusterVars
<1>9. Settled'
  <2>1. Due => Due'
    BY <1>2 DEF Due, clusterVars
  <2>2. \A k, t : Marked(k, t)' <=> Marked(k, t)
    BY <1>2, LabelKept, MarkedKept DEF clusterVars
  <2>3. InTurn(m, s)'
    <3>1. list' \in Orders(cached', Selected(cached', s))
      BY <1>2 DEF clusterVars
    <3>2. \A p \in Range(list)' : copy'[p] = cached'[p]
      BY <1>2, <1>3, <1>4, <1>5 DEF clusterVars, Range
    <3>3. \A k \in DOMAIN list' : ~(k < pos') /\ pc' # "mark"
      BY <1>2, <1>4, LenProperties
    <3> QED BY <3>1, <3>2, <3>3 DEF InTurn
  <2> QED BY <1>1, <1>2, <2>1, <2>2, <2>3 DEF IInv, Settled, clusterVars
<1> QED BY <1>6, <1>7, <1>8, <1>9 DEF IInv

\* processPodMarker returns, with an error or without.
LEMMA ReturnEffect ==
    ASSUME LoopOK, todo # <<>>, NEW err \in BOOLEAN, Return(err)
    PROVE  /\ LoopOK' /\ ListOK' /\ held' = {} /\ CopiesAreLast' /\ pc' = "list"
           /\ todo' = Tail(todo) /\ failed' = (failed \/ err)
<1>1. Tail(todo) \in Seq(Turn)
  BY HeadTailProperties DEF LoopOK
<1> QED BY <1>1, EmptyList DEF LoopOK, ListOK, CopiesAreLast, Return

\* A step of either loop at pod p: a step that writes, or fails, asks for another turn, and
\* one that does neither found the copy as it wanted it.
LEMMA StepEffect ==
    ASSUME IInv, pc \in {"label", "mark"}, pos <= Len(list), NEW p, p = list[pos],
           NEW v \in Version, NEW written, Step(p, v, written), ~written => v = copy[p]
    PROVE  /\ ClusterOK' /\ LoopOK' /\ ListOK' /\ CopiesAreLast'
           /\ \/ Due'
              \/ /\ v = copy[p] /\ pos' = pos + 1
                 /\ UNCHANGED <<cached, news, spec, cachedSpec, queued, retry, pc, todo, failed,
                                list, copy, held>>
<1>1. p \in Range(list) /\ p \in Pods /\ copy[p] \in Version
  BY AtPos DEF IInv
<1>2. todo # <<>> /\ UNCHANGED <<cached, spec, cachedSpec, queued, retry>>
  BY DEF IInv, LoopOK, Step
<1>3. pos + 1 \in 1 .. Len(list) + 1
  BY LenProperties DEF IInv, ListOK
<1>4. CASE v = copy[p] /\ pos' = pos + 1
           /\ UNCHANGED <<news, pc, todo, failed, list, copy, held>>
  <2>1. ClusterOK' /\ LoopOK' /\ ListOK' /\ CopiesAreLast'
    BY <1>2, <1>3, <1>4 DEF IInv, ClusterOK, LoopOK, ListOK, CopiesAreLast, Truth
  <2> QED BY <1>2, <1>4, <2>1
<1>5. CASE Send(p, v)
  <2>1. CASE /\ p \in held /\ Put(p, v)
             /\ copy' = [copy EXCEPT ![p] = v] /\ pos' = pos + 1
             /\ UNCHANGED <<pc, todo, failed, list, held>>
    <3>1. /\ ClusterOK' /\ news'[p] # <<>> /\ Truth(p)' = v
          /\ \A r \in Pods \ {p} : Truth(r)' = Truth(r)
      BY <1>1, <1>2, <2>1, PutEffect DEF IInv
    <3>2. LoopOK'
      BY <2>1 DEF IInv, LoopOK
    <3>3. /\ copy' \in [Pods -> Version \cup {Gone}] /\ copy'[p] = v
          /\ \A r \in Pods \ {p} : copy'[r] = copy[r]
      BY <1>1, <2>1 DEF IInv, ListOK
    <3>4. {r \in Pods : copy'[r] # Gone} = {r \in Pods : copy[r] # Gone}
      BY <1>1, <3>3, MarkerAssumption DEF MarkerAssumption
    <3>5. ListOK'
      BY <1>3, <2>1, <3>3, <3>4 DEF IInv, ListOK
    <3>6. CopiesAreLast'
      <4>1. \A r \in held : r \in Pods
        BY DEF IInv, ListOK
      <4>2. \A r \in held : copy'[r] = Truth(r)'
        BY <3>1, <3>3, <4>1 DEF IInv, CopiesAreLast
      <4> QED BY <2>1, <4>2 DEF CopiesAreLast, Truth
    <3>7. Due'
      BY <1>1, <3>1 DEF Due
    <3> QED BY <3>1, <3>2, <3>5, <3>6, <3>7
  <2>2. CASE Return(TRUE) /\ (UNCHANGED news \/ (p \in held /\ Put(p, v)))
    <3>1. ClusterOK'
      <4>1. CASE UNCHANGED news
        BY <1>2, <4>1 DEF IInv, ClusterOK
      <4>2. CASE Put(p, v)
        BY <1>1, <1>2, <4>2, PutEffect DEF IInv
      <4> QED BY <2>2, <4>1, <4>2
    <3>2. LoopOK' /\ ListOK' /\ CopiesAreLast' /\ failed' = TRUE
      BY <1>2, <2>2, ReturnEffect DEF IInv, LoopOK
    <3>3. Due'
      BY <3>2 DEF Due
    <3> QED BY <3>1, <3>2, <3>3
  <2>3. CASE /\ p \in held /\ v = Truth(p) /\ UNCHANGED news
             /\ copy' = [copy EXCEPT ![p] = v] /\ pos' = pos + 1
             /\ UNCHANGED <<pc, todo, failed, list, held>>
    <3>1. v = copy[p]
      BY <2>3 DEF IInv, CopiesAreLast
    <3>2. UNCHANGED copy
      BY <2>3, <3>1 DEF IInv, ListOK
    <3> QED BY <1>4, <2>3, <3>1, <3>2
  <2> QED BY <1>5, <2>1, <2>2, <2>3 DEF Send, Store
<1> QED BY <1>4, <1>5 DEF Step

\* The labels of the next pod are set.
LEMMA LabelPodKeeps == ASSUME IInv, LabelPod PROVE IInv'
<1>1. PICK p, m, s, c : p = list[pos] /\ m = todo[1].marker /\ s = todo[1].spec /\ c = copy[p]
  OBVIOUS
<1>2. PICK v, b : v = Labelled(c, m, s) /\ (b <=> Blind(c, s))
  OBVIOUS
<1>3. /\ pc = "label" /\ pos <= Len(list) /\ Step(p, v, Relabelled(c, m, s))
      /\ blind' = IF b THEN blind \cup {<<m, p>>} ELSE blind \ {<<m, p>>}
  BY <1>1, <1>2 DEF LabelPod
<1>4. p \in Range(list) /\ c \in Version /\ m \in Markers /\ s \in Specs
  BY <1>1, <1>3, AtPos, FirstTurn DEF IInv, LoopOK
<1>5. /\ v \in Version /\ (~Relabelled(c, m, s) => v = c)
      /\ IF b THEN s.addNode /\ Shown(v.label[m]) = ""
         ELSE s.addPod => Shown(v.label[m]) = Extracted[v.field]
  <2>1. /\ v \in Version /\ (~Relabelled(c, m, s) => v = c) /\ v.field = c.field
        /\ Blind(c, s) => s.addNode /\ Shown(v.label[m]) = ""
        /\ ~Blind(c, s) /\ s.addPod => Shown(v.label[m]) = Extracted[c.field]
    BY <1>2, <1>4, LabelledTyped
  <2> QED BY <1>2, <2>1
<1>6. HasLabel(p, v, m, s)'
  BY <1>3, <1>5 DEF HasLabel
<1>7. /\ ClusterOK' /\ LoopOK' /\ ListOK' /\ CopiesAreLast'
      /\ \/ Due'
         \/ /\ v = copy[p] /\ pos' = pos + 1
            /\ UNCHANGED <<cached, news, spec, cachedSpec, queued, retry, pc, todo, failed, list,
                           copy, held>>
  BY <1>1, <1>3, <1>5, StepEffect
<1>8. Settled'
  <2> SUFFICES ASSUME ~Due' PROVE Settled'
    BY DEF Settled
  <2>1. /\ v = copy[p] /\ pos' = pos + 1
        /\ UNCHANGED <<cached, news, spec, cachedSpec, queued, retry, pc, todo, failed, list, copy,
                       held>>
    BY <1>7
  <2>2. ~Due /\ InTurn(m, s)
    BY <1>1, <1>3, <2>1 DEF Due, IInv, Settled
  <2>3. \A k, q, t, x : k # m \/ q # p => (HasLabel(q, x, k, t)' <=> HasLabel(q, x, k, t))
    BY <1>3 DEF HasLabel
  <2>4. \A k, t : k # m => (Marked(k, t)' <=> Marked(k, t))
    BY <2>1, <2>3, MarkedKept
  <2>5. /\ pos \in 1 .. Len(list) /\ Len(list) \in Nat /\ DOMAIN list = 1 .. Len(list)
        /\ \A k \in DOMAIN list : k < pos => list[k] # p
    <3>1. pos \in 1 .. Len(list) /\ Len(list) \in Nat /\ DOMAIN list = 1 .. Len(list)
      BY <1>3, LenProperties DEF IInv, ListOK
    <3> QED BY <1>1, <2>2, <3>1 DEF InTurn, Orders
  <2>6. \A k \in DOMAIN list : k < pos + 1 => HasLabel(list[k], copy[list[k]], m, s)'
    <3> SUFFICES ASSUME NEW k \in DOMAIN list, k < pos + 1
                 PROVE  HasLabel(list[k], copy[list[k]], m, s)'
      OBVIOUS
    <3>1. CASE k = pos
      BY <1>1, <1>6, <2>1, <3>1
    <3>2. CASE k < pos
      <4>1. HasLabel(list[k], copy[list[k]], m, s) /\ list[k] # p
        BY <2>2, <2>5, <3>2 DEF InTurn
      <4> QED BY <2>1, <2>3, <4>1
    <3> QED BY <2>5, <3>1, <3>2
  <2>7. InTurn(m, s)'
    BY <1>3, <2>1, <2>2, <2>6 DEF InTurn, Selected, Orders, Range
  <2>8. \E i \in DOMAIN todo : todo[i].marker = m
    BY <1>1, <1>3, FirstTurn DEF IInv, LoopOK
  <2> QED BY <1>1, <2>1, <2>2, <2>4, <2>7, <2>8 DEF IInv, Settled
<1> QED BY <1>7, <1>8 DEF IInv

\* The mark of the next pod is set.
LEMMA MarkPodKeeps == ASSUME IInv, MarkPod PROVE IInv'
<1>1. PICK p, m, s : p = list[pos] /\ m = todo[1].marker /\ s = todo[1].spec
  OBVIOUS
<1> DEFINE w == Wanted(s.marks, pos, Len(list))
<1>2. PICK v : v = [copy[p] EXCEPT !.mark = [copy[p].mark EXCEPT ![m] = w]]
  OBVIOUS
<1>3. pc = "mark" /\ pos <= Len(list) /\ Step(p, v, v # copy[p]) /\ UNCHANGED blind
  BY <1>1, <1>2 DEF MarkPod
<1>4. p \in Range(list) /\ copy[p] \in Version /\ m \in Markers /\ s \in Specs
  BY <1>1, <1>3, AtPos, FirstTurn DEF IInv, LoopOK
<1>5. w \in STRING
  <2>1. s.marks \in Seq(Marks)
    BY <1>4, MarkerAssumption DEF MarkerAssumption, SpecType
  <2> QED BY <2>1, WantedTyped
<1> HIDE DEF w
<1>6. v \in Version /\ (v = copy[p] => copy[p].mark[m] = w)
  <2>1. copy[p].mark \in [Markers -> STRING]
    BY <1>4 DEF Version
  <2>2. /\ [copy[p].mark EXCEPT ![m] = w] \in [Markers -> STRING]
        /\ [copy[p].mark EXCEPT ![m] = w][m] = w
    BY <1>4, <1>5, <2>1
  <2>3. v \in Version /\ v.mark = [copy[p].mark EXCEPT ![m] = w]
    BY <1>2, <1>4, <2>2 DEF Version
  <2> QED BY <2>2, <2>3
<1>7. /\ ClusterOK' /\ LoopOK' /\ ListOK' /\ CopiesAreLast'
      /\ \/ Due'
         \/ /\ v = copy[p] /\ pos' = pos + 1
            /\ UNCHANGED <<cached, news, spec, cachedSpec, queued, retry, pc, todo, failed, list,
                           copy, held>>
  BY <1>1, <1>3, <1>6, StepEffect
<1>8. Settled'
  <2>1. CASE Due'
    BY <2>1 DEF Settled
  <2>2. CASE ~Due'
    <3>1. /\ copy[p].mark[m] = w /\ pos' = pos + 1
          /\ UNCHANGED <<cached, news, spec, cachedSpec, blind, queued, retry, pc, todo, failed, list,
                         copy, held>>
      BY <1>3, <1>6, <1>7, <2>2
    <3>2. ~Due
      BY <2>2, <3>1 DEF Due, clusterVars
    <3>3. InTurn(m, s)
      BY <1>1, <1>3, <3>2 DEF IInv, Settled
    <3>4. \A k, t : Marked(k, t)' <=> Marked(k, t)
      BY <3>1, LabelKept, MarkedKept
    <3>5. pos \in Nat /\ DOMAIN list = 1 .. Len(list)
      BY LenProperties DEF IInv, ListOK
    <3>6. \A k \in DOMAIN list : k < pos + 1 =>
             copy[list[k]].mark[m] = Wanted(s.marks, k, Len(list))
      <4> SUFFICES ASSUME NEW k \in DOMAIN list, k < pos + 1
                   PROVE  copy[list[k]].mark[m] = Wanted(s.marks, k, Len(list))
        OBVIOUS
      <4>1. CASE k = pos
        BY <1>1, <3>1, <4>1 DEF w
      <4>2. CASE k < pos
        BY <1>3, <3>3, <4>2 DEF InTurn
      <4> QED BY <3>5, <4>1, <4>2
    <3>7. \A q, x : HasLabel(q, x, m, s)' <=> HasLabel(q, x, m, s)
      BY <3>1, LabelKept
    <3>8. InTurn(m, s)'
      BY <1>3, <3>1, <3>3, <3>6, <3>7 DEF InTurn, Selected, Orders, Range
    <3> QED BY <1>1, <3>1, <3>2, <3>4, <3>8 DEF IInv, Settled
  <2> QED BY <2>1, <2>2
<1> QED BY <1>7, <1>8 DEF IInv

\* A marker leaves the turn when its pods are as it wants them, or another turn will come.
LEMMA ReturnSettles ==
    ASSUME IInv, todo # <<>>, Return(FALSE), UNCHANGED <<clusterVars, queued, retry>>,
           NEW m, m = todo[1].marker, Due \/ Marked(m, todo[1].spec)
    PROVE  IInv'
<1>1. /\ LoopOK' /\ ListOK' /\ CopiesAreLast' /\ pc' = "list" /\ todo' = Tail(todo)
      /\ failed' = failed
  BY ReturnEffect DEF IInv, LoopOK
<1>2. ClusterOK'
  BY DEF IInv, ClusterOK, clusterVars
<1>3. Settled'
  <2> SUFFICES ASSUME ~Due' PROVE Settled'
    BY DEF Settled
  <2>1. ~Due /\ Marked(m, todo[1].spec)
    BY <1>1 DEF Due, clusterVars
  <2>2. \A k, t : Marked(k, t)' <=> Marked(k, t)
    BY LabelKept, MarkedKept DEF clusterVars
  <2>3. /\ DOMAIN todo = 1 .. Len(todo) /\ DOMAIN todo' = 1 .. Len(todo')
        /\ Len(todo) \in Nat \ {0} /\ Len(todo') = Len(todo) - 1
        /\ \A i \in 1 .. Len(todo') : todo'[i] = todo[i + 1]
    BY <1>1, EmptySeq, LenProperties, HeadTailProperties DEF IInv, LoopOK
  <2>4. \A i \in DOMAIN todo' : todo'[i].spec = cachedSpec'[todo'[i].marker]
    BY SMTT(30), <2>1, <2>3 DEF IInv, Settled, clusterVars
  <2>5. Marked(m, cachedSpec[m])
    BY <2>1, FirstTurn DEF IInv, Settled
  <2>6. ASSUME NEW k \in Markers, cachedSpec[k] # NoSpec,
               ~(\E i \in DOMAIN todo' : todo'[i].marker = k)
        PROVE  Marked(k, cachedSpec[k])
    <3>1. CASE k = m
      BY <2>5, <3>1
    <3>2. CASE k # m
      <4>1. \A i \in DOMAIN todo : todo[i].marker # k
        <5> SUFFICES ASSUME NEW i \in DOMAIN todo, todo[i].marker = k PROVE FALSE
          OBVIOUS
        <5>1. i # 1
          BY <3>2
        <5>2. i - 1 \in DOMAIN todo' /\ todo'[i - 1] = todo[i]
          BY <2>3, <5>1
        <5> QED BY <2>6, <5>2
      <4> QED BY <2>1, <2>6, <4>1 DEF IInv, Settled
    <3> QED BY <3>1, <3>2
  <2> QED BY <1>1, <2>2, <2>4, <2>6 DEF Settled, clusterVars
<1> QED BY <1>1, <1>2, <1>3 DEF IInv

\* At the end of a loop over the list every pod of the marker has been looked at.
LEMMA LoopDone ==
    ASSUME IInv, pc \in {"label", "mark"}, pos > Len(list), ~Due,
           NEW m, m = todo[1].marker, NEW s, s = todo[1].spec
    PROVE  /\ InTurn(m, s) /\ \A k \in DOMAIN list : k < pos
           /\ \A p \in Selected(cached, s) : HasLabel(p, cached[p], m, s)
<1>1. InTurn(m, s)
  BY DEF IInv, Settled
<1>2. \A k \in DOMAIN list : k < pos
  BY LenProperties DEF IInv, ListOK
<1>3. Range(list) = Selected(cached, s)
  BY <1>1, OrdersProperties DEF InTurn, Selected
<1>4. \A p \in Range(list) : \E k \in DOMAIN list : list[k] = p
  BY DEF Range
<1>5. \A p \in Range(list) : HasLabel(p, copy[p], m, s)
  BY <1>1, <1>2, <1>4 DEF InTurn
<1> QED BY <1>1, <1>2, <1>3, <1>5 DEF InTurn

\* Every pod is labelled.
LEMMA LabelsDoneKeeps == ASSUME IInv, LabelsDone PROVE IInv'
<1>1. PICK m, s : m = todo[1].marker /\ s = todo[1].spec
  OBVIOUS
<1>2. /\ pc = "label" /\ pos > Len(list) /\ todo # <<>>
      /\ UNCHANGED <<clusterVars, queued, retry, bounds>>
  BY DEF LabelsDone, IInv, LoopOK
<1>3. CASE s.marking
  <2>1. pc' = "mark" /\ pos' = 1 /\ UNCHANGED <<todo, failed, list, copy, held>>
    BY <1>1, <1>3 DEF LabelsDone
  <2>2. ClusterOK' /\ LoopOK' /\ CopiesAreLast'
    BY <1>2, <2>1 DEF IInv, ClusterOK, LoopOK, CopiesAreLast, Truth, clusterVars
  <2>3. ListOK'
    <3>1. 1 \in 1 .. Len(list) + 1
      BY LenProperties DEF IInv, ListOK
    <3> QED BY <2>1, <3>1 DEF IInv, ListOK
  <2>4. Settled'
    <3> SUFFICES ASSUME ~Due' PROVE Settled'
      BY DEF Settled
    <3>1. ~Due
      BY <1>2, <2>1 DEF Due, clusterVars
    <3>2. InTurn(m, s) /\ \A k \in DOMAIN list : k < pos
      BY <1>1, <1>2, <3>1, LoopDone
    <3>3. \A k \in DOMAIN list : ~(k < 1)
      BY LenProperties DEF IInv, ListOK
    <3>4. \A k \in DOMAIN list : HasLabel(list[k], copy[list[k]], m, s)
      BY <3>2 DEF InTurn
    <3>5. InTurn(m, s)'
      <4>1. \A q, x : HasLabel(q, x, m, s)' <=> HasLabel(q, x, m, s)
        BY <1>2, LabelKept DEF clusterVars
      <4>2. \A k \in DOMAIN list' : HasLabel(list[k], copy[list[k]], m, s)'
        BY <2>1, <3>4, <4>1
      <4> QED BY <1>2, <2>1, <3>2, <3>3, <4>2 DEF InTurn, Selected, Orders, Range, clusterVars
    <3>6. \A k, t : Marked(k, t)' <=> Marked(k, t)
      BY <1>2, LabelKept, MarkedKept DEF clusterVars
    <3> QED BY <1>1, <1>2, <2>1, <3>1, <3>5, <3>6 DEF IInv, Settled, clusterVars
  <2> QED BY <2>2, <2>3, <2>4 DEF IInv
<1>4. CASE ~s.marking
  <2>1. Return(FALSE)
    BY <1>1, <1>4 DEF LabelsDone
  <2>2. ~Due => Marked(m, s)
    BY <1>1, <1>2, <1>4, LoopDone DEF Marked
  <2> QED BY <1>1, <1>2, <2>1, <2>2, ReturnSettles
<1> QED BY <1>3, <1>4

\* Every pod is marked: the turn ends.
LEMMA MarksDoneKeeps == ASSUME IInv, MarksDone PROVE IInv'
<1>1. PICK m, s : m = todo[1].marker /\ s = todo[1].spec
  OBVIOUS
<1>2. /\ pc = "mark" /\ pos > Len(list) /\ todo # <<>> /\ Return(FALSE)
      /\ UNCHANGED <<clusterVars, queued, retry, bounds>>
  BY DEF MarksDone, IInv, LoopOK
<1>3. ~Due => Marked(m, s)
  <2> SUFFICES ASSUME ~Due PROVE Marked(m, s)
    OBVIOUS
  <2>1. /\ InTurn(m, s) /\ \A k \in DOMAIN list : k < pos
        /\ \A p \in Selected(cached, s) : HasLabel(p, cached[p], m, s)
    BY <1>1, <1>2, LoopDone
  <2>2. list \in Orders(cached, Selected(cached, s))
    BY <2>1 DEF InTurn
  <2>3. \A k \in DOMAIN list : cached[list[k]].mark[m] = Wanted(s.marks, k, Len(list))
    BY <1>2, <2>1 DEF InTurn, Range
  <2> QED BY <2>1, <2>2, <2>3 DEF Marked
<1> QED BY <1>1, <1>2, <1>3, ReturnSettles

\* Nothing changes.
LEMMA StutterKeeps == ASSUME IInv, UNCHANGED vars PROVE IInv'
<1>1. UNCHANGED <<clusterVars, queued, retry, pc, loopVars, bounds>>
  BY DEF vars
<1>2. ClusterOK' /\ LoopOK' /\ ListOK' /\ CopiesAreLast'
  BY <1>1 DEF IInv, ClusterOK, LoopOK, ListOK, CopiesAreLast, Truth, clusterVars, loopVars
<1>3. Settled'
  <2>1. Due' <=> Due
    BY <1>1 DEF Due, clusterVars, loopVars
  <2>2. \A m, s : Marked(m, s)' <=> Marked(m, s)
    BY <1>1, LabelKept, MarkedKept DEF clusterVars
  <2>3. \A m, s : InTurn(m, s)' <=> InTurn(m, s)
    BY <1>1 DEF InTurn, Selected, Orders, HasLabel, Range, clusterVars, loopVars
  <2> QED BY <1>1, <2>1, <2>2, <2>3 DEF IInv, Settled, clusterVars, loopVars
<1> QED BY <1>2, <1>3 DEF IInv
-----------------------------------------------------------------------------
(* The theorems.                                                           *)

\* Every step keeps the inductive invariant.
LEMMA StepKeeps == ASSUME IInv, [Next]_vars PROVE IInv'
<1>1. CASE WorkerStep
  BY <1>1, BeginKeeps, EndKeeps, ListKeeps, LabelPodKeeps, LabelsDoneKeeps, MarkPodKeeps,
     MarksDoneKeeps DEF WorkerStep
<1> QED BY <1>1, UsersKeep, CachesKeep, CrashKeeps, StutterKeeps DEF Next

\* The inductive invariant, for every number of pods, markers, acts and failures.
THEOREM Invariance == Spec => []IInv
<1>1. Init => IInv
  BY InitInv
<1>2. IInv /\ [Next]_vars => IInv'
  BY StepKeeps
<1> QED BY <1>1, <1>2, PTL DEF Spec

\* Every variable holds a value of its kind: the loops stay within the list and the list
\* holds a copy of each of its pods, whatever became of the pods meanwhile.
THEOREM TypeCorrect == Spec => []TypeOK
<1>1. IInv => TypeOK
  <2> SUFFICES ASSUME IInv PROVE TypeOK
    OBVIOUS
  <2>1. ASSUME NEW p \in Pods, NEW i \in DOMAIN news[p]
        PROVE  news[p][i] \in Version \cup {Gone}
    <3>1. news[p] \in Seq(Version \cup {Gone})
      BY DEF IInv, ClusterOK
    <3>2. news[p] \in [1 .. Len(news[p]) -> Version \cup {Gone}]
      BY <3>1, LenProperties
    <3> QED BY <3>2
  <2> QED BY <2>1 DEF IInv, TypeOK, ClusterOK, LoopOK, ListOK
<1> QED BY <1>1, Invariance, PTL

\* At rest each marker's labels and marks are those of its last spec over the pods as they
\* are: a turn that wrote, or failed, is followed by another, and the last one found all
\* as it should be.  The label is the pod's value, or empty where the last look needed the
\* node and did not find it: the two values have one key, and the node's is written last.
THEOREM RestStaysMarked == Spec => []RestIsMarked
<1>1. IInv => RestIsMarked
  <2> SUFFICES ASSUME IInv, Rest, NEW m \in Markers, spec[m] # NoSpec
               PROVE  Marked(m, spec[m])
    BY DEF RestIsMarked, Marked, HasLabel
  <2>1. ~Due /\ todo = <<>> /\ cachedSpec = spec
    BY DEF Rest, Due, IInv, LoopOK
  <2> QED BY <2>1 DEF IInv, Settled
<1> QED BY <1>1, Invariance, PTL

\* A pod that a step of Reconcile changes.
Changed(p) ==
    Truth(p)' # Truth(p) =>
        /\ Truth(p) # Gone /\ Truth(p)' # Gone
        /\ Truth(p)'.field = Truth(p).field
        /\ \A m \in Markers : Truth(p)'.mark[m] # Truth(p).mark[m] =>
              Truth(p).mark[m] = copy[p].mark[m]

\* A write of the controller takes effect only on the version it copied, and keeps the
\* rest of it.
LEMMA StepChanges ==
    ASSUME IInv, NEW p \in Pods, copy[p] \in Version, NEW v \in Version, v.field = copy[p].field,
           NEW written, Step(p, v, written)
    PROVE  \A r \in Pods : Changed(r)
<1>1. CASE UNCHANGED news
  BY <1>1 DEF Step, Changed, Truth
<1>2. CASE p \in held /\ Put(p, v)
  <2>1. Truth(p) = copy[p] /\ Truth(p)' = v /\ \A r \in Pods \ {p} : Truth(r)' = Truth(r)
    BY <1>2, PutEffect DEF Step, IInv, CopiesAreLast
  <2>2. Truth(p) # Gone /\ v # Gone
    BY <2>1, MarkerAssumption DEF MarkerAssumption
  <2> QED BY <2>1, <2>2 DEF Changed
<1> QED BY <1>1, <1>2 DEF Step, Send, Store

\* An update of a listed copy undoes nothing that somebody else did to the pod since it
\* was listed: it is accepted of the last version alone, and changes labels alone.
THEOREM OthersStayKept == Spec => OthersAreKept
<1>1. ASSUME IInv, WorkerStep
      PROVE  \A p \in Pods : Changed(p)
  <2>1. CASE Begin \/ End \/ List \/ LabelsDone \/ MarksDone
    BY <2>1 DEF Begin, End, List, LabelsDone, MarksDone, clusterVars, Changed, Truth
  <2>2. CASE LabelPod
    <3>1. \E b : Step(list[pos], Labelled(copy[list[pos]], todo[1].marker, todo[1].spec), b)
      BY <2>2 DEF LabelPod
    <3>2. /\ list[pos] \in Pods /\ copy[list[pos]] \in Version
          /\ todo[1].marker \in Markers /\ todo[1].spec \in Specs
      BY <1>1, <2>2, AtPos, FirstTurn DEF LabelPod, IInv, LoopOK
    <3> QED BY <1>1, <3>1, <3>2, LabelledTyped, StepChanges
  <2>3. CASE MarkPod
    <3>1. PICK p, w : p = list[pos] /\ w = Wanted(todo[1].spec.marks, pos, Len(list))
      OBVIOUS
    <3> DEFINE v == [copy[p] EXCEPT !.mark = [copy[p].mark EXCEPT ![todo[1].marker] = w]]
    <3>2. \E b : Step(p, v, b)
      BY <2>3, <3>1 DEF MarkPod
    <3>3. p \in Pods /\ copy[p] \in Version /\ todo[1].marker \in Markers /\ todo[1].spec \in Specs
      BY <1>1, <2>3, <3>1, AtPos, FirstTurn DEF MarkPod, IInv, LoopOK
    <3>4. w \in STRING
      <4>1. todo[1].spec.marks \in Seq(Marks)
        BY <3>3, MarkerAssumption DEF MarkerAssumption, SpecType
      <4> QED BY <3>1, <4>1, WantedTyped
    <3>5. v \in Version /\ v.field = copy[p].field
      BY <3>3, <3>4 DEF Version
    <3> HIDE DEF v
    <3> QED BY <1>1, <3>2, <3>3, <3>5, StepChanges
  <2> QED BY <1>1, <2>1, <2>2, <2>3 DEF WorkerStep
<1>2. IInv => [WorkerStep => \A p \in Pods : Truth(p)' # Truth(p) =>
                  /\ Truth(p) # Gone /\ Truth(p)' # Gone
                  /\ Truth(p)'.field = Truth(p).field
                  /\ \A m \in Markers : Truth(p)'.mark[m] # Truth(p).mark[m] =>
                        Truth(p).mark[m] = copy[p].mark[m]]_vars
  BY <1>1 DEF Changed
<1> QED BY <1>2, Invariance, PTL DEF OthersAreKept
=============================================================================
