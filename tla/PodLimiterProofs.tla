-------------------------- MODULE PodLimiterProofs --------------------------
(***************************************************************************)
(* The limit that admission keeps, for any number of pods, requests and    *)
(* rules.  The invariant behind it (RoomWasThere): as long as a request    *)
(* is alone, nothing is on its way to the cache, and for every rule it has *)
(* passed the cache still holds no more pods than the threshhold.          *)
(***************************************************************************)
EXTENDS PodLimiter, FiniteSetTheorems, TLAPS

\* The shape of a pod in the cache, or none.
PodViews == Shapes \cup {NoPod}
\* The requests under way: the rules each was handed, and how many it passed.
RequestsOK ==
    /\ asked \in [Requests -> Seq(RuleType)]
    /\ passed \in [Requests -> Nat] /\ \A q \in Requests : passed[q] <= Len(asked[q])
    /\ what \in [Requests -> [pod : Pods, shape : Shapes] \cup {NoPod}]
    /\ alone \subseteq Active

\* The number of eligible pods in the cache is a number.
LEMMA EligibleIsFinite ==
    ASSUME NEW sel
    PROVE  /\ IsFiniteSet(Eligible(cached, sel))
           /\ Cardinality(Eligible(cached, sel)) \in Nat
BY LimiterAssumption, FS_Subset, FS_CardinalityType DEF Eligible

\* A pod always has a version.
LEMMA TruthIsAVersion ==
    ASSUME TypeOK, NEW p \in Pods
    PROVE  Truth(p) \in PodViews
<1>1. news[p] \in Seq(PodViews) /\ cached[p] \in PodViews
  BY DEF TypeOK, PodViews
<1> QED
  BY <1>1 DEF Truth

\* The requests after one of them was answered.
LEMMA AnswerType ==
    ASSUME RequestsOK, NEW q \in Requests, NEW out \in {alone \ {q}, {}},
           what' = [what EXCEPT ![q] = NoPod], asked' = [asked EXCEPT ![q] = <<>>],
           passed' = [passed EXCEPT ![q] = 0], alone' = out
    PROVE  RequestsOK'
<1>1. asked' \in [Requests -> Seq(RuleType)] /\ passed' \in [Requests -> Nat]
  BY DEF RequestsOK
<1>2. \A r \in Requests : passed'[r] <= Len(asked'[r])
  BY DEF RequestsOK
<1>3. alone' \subseteq Active' /\ what' \in [Requests -> [pod : Pods, shape : Shapes] \cup {NoPod}]
  BY DEF RequestsOK, Active
<1> QED
  BY <1>1, <1>2, <1>3 DEF RequestsOK

\* The requests after the process ended.
LEMMA ExitType == ASSUME TypeOK, Exit PROVE TypeOK'
<1>1. RequestsOK
  BY DEF TypeOK, RequestsOK
<1>2. \A q \in Requests : \/ /\ what'[q] = what[q] /\ asked'[q] = asked[q]
                             /\ passed'[q] = passed[q]
                          \/ what'[q] = NoPod /\ asked'[q] = <<>> /\ passed'[q] = 0
  BY DEF Exit
<1>3. /\ what' \in [Requests -> [pod : Pods, shape : Shapes] \cup {NoPod}]
      /\ asked' \in [Requests -> Seq(RuleType)] /\ passed' \in [Requests -> Nat]
  BY <1>1, <1>2 DEF Exit, RequestsOK
<1>4. \A q \in Requests : passed'[q] <= Len(asked'[q])
  BY SMTT(30), <1>1, <1>2 DEF RequestsOK
<1>5. DOMAIN index' = {} /\ index' = [i \in {} |-> {}]
  BY DEF Exit, NoIndices
<1> QED
  BY <1>3, <1>4, <1>5 DEF Exit, TypeOK, clusterVars, Active

\* The types after addIndex built the indices.
LEMMA StartType == ASSUME TypeOK, Start PROVE TypeOK'
<1>1. /\ cached' \in [Pods -> PodViews] /\ news' \in [Pods -> Seq(PodViews)]
  BY TruthIsAVersion DEF Start
<1>2. DOMAIN index' \subseteq IndexNames /\ \A i \in DOMAIN index' : index'[i] \in SUBSET Shapes
  <2>1. CASE index' = NoIndices
    BY <2>1 DEF NoIndices
  <2>2. CASE index' = IndicesOf(rules)
    <3>1. \A k \in DOMAIN rules : rules[k].name \in RuleNames /\ rules[k].selector \in SUBSET Shapes
      <4>1. \A k \in DOMAIN rules : rules[k] \in RuleType
        BY DEF TypeOK
      <4> QED
        BY <4>1 DEF RuleType
    <3>2. DOMAIN index' = {IndexOf[rules[k].name] : k \in DOMAIN rules}
      BY <2>2 DEF IndicesOf
    <3>3. ASSUME NEW i \in DOMAIN index' PROVE index'[i] \in SUBSET Shapes
      <4>1. index'[i] = rules[CHOOSE k \in DOMAIN rules : IndexOf[rules[k].name] = i].selector
        BY <2>2, <3>2, <3>3 DEF IndicesOf
      <4>2. (CHOOSE k \in DOMAIN rules : IndexOf[rules[k].name] = i) \in DOMAIN rules
        BY <3>2, <3>3
      <4> QED
        BY <3>1, <4>1, <4>2
    <3> QED
      BY <3>1, <3>2, <3>3 DEF IndexNames
  <2> QED
    BY <2>1, <2>2 DEF Start
<1> QED
  BY <1>1, <1>2 DEF Start, TypeOK, requestVars, PodViews, Active

\* A pod is written: one more version is on its way.
LEMMA WriteType ==
    ASSUME TypeOK, NEW p \in Pods, NEW s \in PodViews, Write(p, s)
    PROVE  news' \in [Pods -> Seq(PodViews)]
BY DEF Write, TypeOK, PodViews

\* The types after a step of users, of the cache and of the gauge loop.
LEMMA ClusterType ==
    ASSUME TypeOK,
           \/ \E p \in Pods : Delete(p) \/ Deliver(p)
           \/ \E p \in Pods, s \in Shapes : Update(p, s)
           \/ \E list \in RuleLists : SetRules(list)
           \/ DeliverRules \/ Refresh \/ UNCHANGED vars
    PROVE  TypeOK'
<1>1. ASSUME NEW p \in Pods, Delete(p) PROVE TypeOK'
  BY <1>1, WriteType DEF Delete, TypeOK, processVars, PodViews, Active
<1>2. ASSUME NEW p \in Pods, Deliver(p) PROVE TypeOK'
  <2>1. news[p] \in Seq(PodViews) /\ news[p] # <<>>
    BY <1>2 DEF Deliver, TypeOK, PodViews
  <2>2. cached' \in [Pods -> PodViews] /\ news' \in [Pods -> Seq(PodViews)]
    BY <1>2, <2>1 DEF Deliver, TypeOK, PodViews
  <2> QED
    BY <1>2, <2>2 DEF Deliver, TypeOK, processVars, requestVars, PodViews, Active
<1>3. ASSUME NEW p \in Pods, NEW s \in Shapes, Update(p, s) PROVE TypeOK'
  BY <1>3, WriteType DEF Update, TypeOK, processVars, PodViews, Active
<1>4. ASSUME NEW list \in RuleLists, SetRules(list) PROVE TypeOK'
  BY <1>4, LimiterAssumption DEF SetRules, TypeOK, processVars, requestVars, Active
<1>5. CASE DeliverRules
  BY <1>5 DEF DeliverRules, TypeOK, processVars, requestVars, Active
<1>6. CASE Refresh
  <2>1. gauge' \in [RuleNames -> Nat]
    BY <1>6, EligibleIsFinite DEF Refresh, TypeOK, Counted
  <2> QED
    BY <1>6, <2>1 DEF Refresh, TypeOK, clusterVars, processVars, requestVars, Active
<1>7. CASE UNCHANGED vars
  BY <1>7 DEF TypeOK, vars, clusterVars, processVars, requestVars, Active
<1> QED
  BY <1>1, <1>2, <1>3, <1>4, <1>5, <1>6, <1>7

\* The types after a step of Validate, and after its pod was created.
LEMMA RequestType ==
    ASSUME TypeOK,
           \/ \E q \in Requests : Review(q) \/ Persist(q)
           \/ \E q \in Requests, p \in Pods, s \in Shapes : Arrive(q, p, s)
    PROVE  TypeOK'
<1>1. RequestsOK
  BY DEF TypeOK, RequestsOK
<1>2. ASSUME NEW q \in Requests, Pass(q) PROVE TypeOK'
  <2>1. passed' \in [Requests -> Nat] /\ \A r \in Requests : passed'[r] <= Len(asked[r])
    BY <1>1, <1>2 DEF Pass, AtRule, RequestsOK
  <2> QED
    BY <1>2, <2>1 DEF Pass, TypeOK, clusterVars, processVars, Active
<1>3. ASSUME NEW q \in Requests, Deny(q) PROVE TypeOK'
  <2>1. RequestsOK'
    BY <1>1, <1>3, AnswerType DEF Deny, Answer
  <2> QED
    BY <1>3, <2>1 DEF Deny, TypeOK, clusterVars, processVars, RequestsOK
<1>4. ASSUME NEW q \in Requests, ExitOnRule(q) PROVE TypeOK'
  BY <1>4, ExitType DEF ExitOnRule
<1>5. ASSUME NEW q \in Requests, Persist(q) PROVE TypeOK'
  <2>1. RequestsOK'
    BY <1>1, <1>5, AnswerType DEF Persist
  <2>2. what[q] \in [pod : Pods, shape : Shapes]
    BY <1>1, <1>5 DEF Persist, Active, RequestsOK
  <2>3. news' \in [Pods -> Seq(PodViews)]
    BY <1>5, <2>2, WriteType DEF Persist, TypeOK, PodViews
  <2> QED
    BY <1>5, <2>1, <2>3 DEF Persist, TypeOK, processVars, RequestsOK, PodViews
<1>6. ASSUME NEW q \in Requests, NEW p \in Pods, NEW s \in Shapes, Arrive(q, p, s)
      PROVE  TypeOK'
  <2>1. [pod |-> p, shape |-> s] # NoPod
    BY LimiterAssumption
  <2>2. /\ asked' \in [Requests -> Seq(RuleType)] /\ passed' \in [Requests -> Nat]
        /\ what' \in [Requests -> [pod : Pods, shape : Shapes] \cup {NoPod}]
    BY <1>1, <1>6 DEF Arrive, RequestsOK, TypeOK
  <2>3. \A r \in Requests : passed'[r] <= Len(asked'[r])
    BY <1>1, <1>6, <2>2 DEF Arrive, RequestsOK
  <2>4. alone' \subseteq Active'
    BY <1>1, <1>6, <2>1 DEF Arrive, RequestsOK, Active
  <2> QED
    BY <1>6, <2>2, <2>3, <2>4 DEF Arrive, TypeOK, clusterVars, processVars
<1> QED
  BY <1>2, <1>3, <1>4, <1>5, <1>6 DEF Review

\* Every step keeps the types.
LEMMA TypeStep == ASSUME TypeOK, [Next]_vars PROVE TypeOK'
BY ClusterType, RequestType, StartType, ExitType DEF Next, Crash

\* The types of the first state.
LEMMA TypeInit == Init => TypeOK
<1> SUFFICES ASSUME Init PROVE TypeOK
  OBVIOUS
<1>1. rules \in Seq(RuleType) /\ cachedRules \in Seq(RuleType)
  BY LimiterAssumption DEF Init
<1>2. DOMAIN index = {}
  BY DEF Init, NoIndices
<1>3. RequestsOK
  BY DEF Init, RequestsOK
<1>4. news \in [Pods -> Seq(Shapes \cup {NoPod})] /\ gauge \in [RuleNames -> Nat]
  BY DEF Init
<1> QED
  BY <1>1, <1>2, <1>3, <1>4 DEF Init, TypeOK, RequestsOK

\* TypeOK holds in every reachable state.
THEOREM LimiterTypeCorrect == Spec => []TypeOK
BY TypeInit, TypeStep, PTL DEF Spec
-----------------------------------------------------------------------------
\* The pods that count against rule k of the list request q was given.
Against(q, k) == Eligible(cached, asked[q][k].selector)

\* A request that was alone found room at every rule it passed.
RoomWasThere ==
    /\ alone # {} => up /\ \A p \in Pods : news[p] = <<>>
    /\ \A q \in alone : \A k \in 1 .. passed[q] :
          Governs(k, q) => Cardinality(Against(q, k)) <= asked[q][k].threshhold

\* Passing a rule that governs the request means there was room for it.
LEMMA PassFindsRoom ==
    ASSUME TypeOK, RoomWasThere, NEW q \in Requests, Pass(q)
    PROVE  RoomWasThere'
<1>1. /\ passed' = [passed EXCEPT ![q] = @ + 1]
      /\ UNCHANGED <<cached, news, up, index, asked, what, alone>>
  BY DEF Pass, clusterVars, processVars
<1>2. /\ passed \in [Requests -> Nat] /\ alone \subseteq Requests
  BY DEF TypeOK, Active
<1>3. ASSUME Governs(passed[q] + 1, q)
      PROVE  Cardinality(Against(q, passed[q] + 1)) <= asked[q][passed[q] + 1].threshhold
  BY <1>3 DEF Pass, Governs, Rule, Applies, Counted, Against
<1>a. \A r, k : (Governs(k, r)' <=> Governs(k, r)) /\ Against(r, k)' = Against(r, k)
  BY <1>1 DEF Governs, HasIndex, Against, Eligible
<1>b. (alone # {} => up /\ \A p \in Pods : news[p] = <<>>)'
  BY <1>1 DEF RoomWasThere
<1> SUFFICES ASSUME NEW r \in alone, NEW k \in 1 .. passed'[r], Governs(k, r)
             PROVE  Cardinality(Against(r, k)) <= asked[r][k].threshhold
  BY <1>1, <1>a, <1>b DEF RoomWasThere
<1>4. CASE k \in 1 .. passed[r]
  BY <1>4 DEF RoomWasThere
<1>5. CASE k \notin 1 .. passed[r]
  <2>1. r = q /\ k = passed[q] + 1
    BY <1>1, <1>2, <1>5
  <2> QED
    BY <1>3, <2>1
<1> QED
  BY <1>4, <1>5

\* Every step keeps RoomWasThere: a write, a restart or another request ends the
\* request's being alone.
LEMMA RoomKept == ASSUME TypeOK, RoomWasThere, [Next]_vars PROVE RoomWasThere'
<1>1. ASSUME alone' = {} PROVE RoomWasThere'
  BY <1>1 DEF RoomWasThere
<1>2. ASSUME UNCHANGED <<cached, news, up, index>>, alone' \subseteq alone,
             \A q \in alone' : /\ asked'[q] = asked[q] /\ passed'[q] = passed[q]
                               /\ what'[q] = what[q]
      PROVE  RoomWasThere'
  BY <1>2 DEF RoomWasThere, Governs, HasIndex, Against, Eligible
<1>3. CASE Start
  <2>1. alone' = {}
    BY <1>3 DEF Start, requestVars, RoomWasThere
  <2> QED
    BY <1>1, <2>1
<1>4. CASE Crash
  BY <1>1, <1>4 DEF Crash, Exit
<1>5. CASE Refresh \/ DeliverRules \/ \E list \in RuleLists : SetRules(list)
  BY <1>2, <1>5 DEF Refresh, DeliverRules, SetRules, clusterVars, processVars, requestVars
<1>6. ASSUME NEW p \in Pods, Deliver(p) PROVE RoomWasThere'
  <2>1. alone' = {}
    BY <1>6 DEF Deliver, requestVars, RoomWasThere
  <2> QED
    BY <1>1, <2>1
<1>7. ASSUME NEW p \in Pods, Delete(p) \/ \E s \in Shapes : Update(p, s)
      PROVE  RoomWasThere'
  BY <1>1, <1>7 DEF Delete, Update
<1>8. ASSUME NEW q \in Requests, Persist(q) \/ ExitOnRule(q) PROVE RoomWasThere'
  BY <1>1, <1>8 DEF Persist, ExitOnRule, Exit
<1>9. ASSUME NEW q \in Requests, Deny(q) PROVE RoomWasThere'
  <2>1. alone' = alone \ {q} /\ alone \subseteq Requests
    BY <1>9 DEF Deny, Answer, TypeOK, Active
  <2>2. \A r \in alone' : asked'[r] = asked[r] /\ passed'[r] = passed[r] /\ what'[r] = what[r]
    BY <1>9, <2>1 DEF Deny, Answer, TypeOK
  <2> QED
    BY <1>2, <1>9, <2>1, <2>2 DEF Deny, clusterVars, processVars
<1>10. ASSUME NEW q \in Requests, NEW p \in Pods, NEW s \in Shapes, Arrive(q, p, s)
       PROVE  RoomWasThere'
  <2>1. alone' # {} => alone' = {q} /\ \A r \in Pods : news[r] = <<>>
    BY <1>10 DEF Arrive
  <2>2. passed'[q] = 0 /\ UNCHANGED <<up, news>> /\ up
    BY <1>10 DEF Arrive, TypeOK, clusterVars, processVars
  <2>3. CASE alone' = {}
    BY <1>1, <2>3
  <2>4. CASE alone' = {q}
    <3>1. \A r \in alone' : 1 .. passed'[r] = {}
      BY <2>2, <2>4
    <3> QED
      BY <2>1, <2>2, <2>4, <3>1 DEF RoomWasThere
  <2> QED
    BY <2>1, <2>3, <2>4
<1>11. CASE UNCHANGED vars
  BY <1>2, <1>11 DEF vars, clusterVars, processVars, requestVars
<1> QED
  BY <1>3, <1>4, <1>5, <1>6, <1>7, <1>8, <1>9, <1>10, <1>11, PassFindsRoom DEF Next, Review

\* A request that is alone finds, when its pod is created, room for it.
LEMMA AdmittedFits ==
    ASSUME TypeOK, RoomWasThere, NEW q \in Requests, Admits(q),
           NEW k \in DOMAIN asked[q], Governs(k, q)
    PROVE  Leaves(q, k, asked[q][k].threshhold + 1)
<1> DEFINE sel == asked[q][k].selector
           t == asked[q][k].threshhold
           after == {p \in Pods : Truth(p)' \in sel}
<1>1. \A p \in Pods : news[p] = <<>>
  BY DEF Admits, RoomWasThere
<1>2. k \in 1 .. passed[q] /\ t \in Nat
  <2>1. asked[q] \in Seq(RuleType) /\ passed[q] = Len(asked[q])
    BY DEF Admits, Persist, TypeOK
  <2>2. asked[q][k] \in RuleType /\ k \in 1 .. Len(asked[q])
    BY <2>1
  <2> QED
    BY <2>1, <2>2 DEF RuleType
<1>3. Cardinality(Against(q, k)) <= t
  BY <1>2 DEF Admits, RoomWasThere
<1>4. after \subseteq Against(q, k) \cup {what[q].pod}
  <2> SUFFICES ASSUME NEW p \in Pods, Truth(p)' \in sel, p # what[q].pod
               PROVE  cached[p] \in sel
    BY DEF Against, Eligible
  <2>1. news'[p] = <<>> /\ cached' = cached
    BY <1>1 DEF Admits, Persist, Write, TypeOK
  <2> QED
    BY <2>1 DEF Truth
<1>5. /\ IsFiniteSet(Against(q, k)) /\ Cardinality(Against(q, k)) \in Nat
  BY EligibleIsFinite DEF Against
<1>6. /\ IsFiniteSet(Against(q, k) \cup {what[q].pod})
      /\ Cardinality(Against(q, k) \cup {what[q].pod}) <= t + 1
  <2>1. /\ IsFiniteSet(Against(q, k) \cup {what[q].pod})
        /\ \/ Cardinality(Against(q, k) \cup {what[q].pod}) = Cardinality(Against(q, k))
           \/ Cardinality(Against(q, k) \cup {what[q].pod}) = Cardinality(Against(q, k)) + 1
    BY <1>5, FS_AddElement
  <2> QED
    BY <1>2, <1>3, <1>5, <2>1
<1>7. /\ Cardinality(after) <= Cardinality(Against(q, k) \cup {what[q].pod})
      /\ IsFiniteSet(after)
  BY <1>4, <1>6, FS_Subset
<1>8. Cardinality(after) \in Nat /\ Cardinality(Against(q, k) \cup {what[q].pod}) \in Nat
  BY <1>6, <1>7, FS_CardinalityType
<1> QED
  BY <1>2, <1>6, <1>7, <1>8 DEF Leaves

\* AloneWithinLimit holds of every behaviour: whatever the rules and however often
\* they change, admission of requests that do not overlap, with a cache that is up to
\* date, lets through one pod more than the threshhold and never two.
THEOREM AloneStaysWithinLimit == Spec => AloneWithinLimit
<1>1. Init => RoomWasThere
  BY DEF Init, RoomWasThere
<1>2. TypeOK /\ RoomWasThere /\ [Next]_vars => RoomWasThere'
  BY RoomKept
<1>3. TypeOK /\ RoomWasThere /\ [Next]_vars =>
        [\A q \in Requests : Admits(q) =>
            \A k \in DOMAIN asked[q] :
                Governs(k, q) => Leaves(q, k, asked[q][k].threshhold + 1)]_vars
  BY AdmittedFits
<1> QED
  BY <1>1, <1>2, <1>3, LimiterTypeCorrect, PTL DEF Spec, AloneWithinLimit
=============================================================================
