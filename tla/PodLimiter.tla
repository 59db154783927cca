----------------------------- MODULE PodLimiter -----------------------------
(***************************************************************************)
(* The admission of pods by the rules of the Podlimiter objects: the       *)
(* webhook (webhooks/pods/validatingwebhook.go and                         *)
(* plugins/podlimiter/limiter.go), the indices it counts with, built once  *)
(* when the process starts, and the gauges of the rules                    *)
(* (controllers/podlimiter/podlimiter_controller.go).                      *)
(*                                                                         *)
(* What the selectors can tell of a pod is its shape; a label and a field  *)
(* selector together are the set of shapes that match both.  The API       *)
(* server and the informer cache are external: the cache delivers the      *)
(* versions of each pod in order, and late.  Requests are served           *)
(* concurrently, and read the cache once for each rule.                    *)
(***************************************************************************)
EXTENDS Naturals, Sequences, FiniteSets, Functions

CONSTANTS
    Pods,          \* names of pods
    Shapes,
    NoPod,         \* the shape of a pod that does not exist
    Requests,      \* admission requests under way at a time
    RuleNames,     \* limiter and rule name of each rule
    IndexOf,       \* IndexName: their names, joined by "-"
    RuleLists,     \* the rules of all limiters, as users may set them
    ListMayFail,   \* whether the list of addIndex can fail
    MaxNews        \* bound: versions of a pod the cache has still to see

\* parses: labels.Parse accepts the label selector of the rule.
RuleType == [name : RuleNames, parses : BOOLEAN, selector : SUBSET Shapes,
             threshhold : Nat, enabled : BOOLEAN]
IndexNames == {IndexOf[n] : n \in RuleNames}

ASSUME LimiterAssumption ==
    /\ IsFiniteSet(Pods) /\ IndexOf \in [RuleNames -> STRING]
    /\ RuleLists \subseteq Seq(RuleType)
    /\ NoPod \notin Shapes \cup [pod : Pods, shape : Shapes]
    /\ ListMayFail \in BOOLEAN /\ MaxNews \in Nat

VARIABLES
    cached,       \* the pods in the informer cache
    news,         \* pod -> the versions the cache has still to see
    rules,        \* the rules in the API server
    cachedRules,
    up,           \* the process runs
    collecting,   \* refreshLimiterRuleState runs
    index,        \* index name, of those there are -> the selector it was built with
    asked,        \* request -> the rules it was given by the cache
    passed,       \* request -> how many of them it has passed
    what,         \* request -> the pod to create and its shape, or NoPod
    gauge,        \* podlimiter_rule_current_num
    alone         \* history: requests no other write or request has met

clusterVars == <<cached, news, rules, cachedRules>>
processVars == <<up, collecting, index>>
requestVars == <<asked, passed, what, alone>>
vars == <<clusterVars, processVars, requestVars, gauge>>

\* The pod as the API server has it.
Truth(p) == IF news[p] = <<>> THEN cached[p] ELSE news[p][Len(news[p])]

Active == {q \in Requests : what[q] # NoPod}
HasIndex(n) == IndexOf[n] \in DOMAIN index
Eligible(view, sel) == {p \in Pods : view[p] \in sel}

NoIndices == [i \in {} |-> {}]

\* What List finds in the cache with an index, and what there really is.
Counted(i) == Cardinality(Eligible(cached, index[i]))
Existing(sel) == Cardinality({p \in Pods : Truth(p) \in sel})
-----------------------------------------------------------------------------
Init ==
    /\ cached \in [Pods -> Shapes \cup {NoPod}] /\ news = [p \in Pods |-> <<>>]
    /\ rules \in RuleLists /\ cachedRules = rules
    /\ up = FALSE /\ collecting = FALSE
    /\ index = NoIndices
    /\ asked = [q \in Requests |-> <<>>] /\ passed = [q \in Requests |-> 0]
    /\ what = [q \in Requests |-> NoPod]
    /\ gauge = [n \in RuleNames |-> 0] /\ alone = {}

(* The process.                                                            *)

\* addIndex exits on a selector that does not parse and on a second index of one
\* name, whether the rules are enabled or not.
Indexable(list) ==
    /\ \A k \in DOMAIN list : list[k].parses
    /\ \A k, l \in DOMAIN list : k # l => IndexOf[list[k].name] # IndexOf[list[l].name]

IndicesOf(list) ==
    [i \in {IndexOf[list[k].name] : k \in DOMAIN list} |->
        list[CHOOSE k \in DOMAIN list : IndexOf[list[k].name] = i].selector]

\* Start, with the rules of a list taken from the API server; or without any, when
\* that list cannot be had: SetupWithManager logs the error and returns nil.
Start ==
    /\ ~up /\ up' = TRUE
    /\ \/ /\ Indexable(rules) /\ collecting' = TRUE
          /\ index' = IndicesOf(rules)
       \/ /\ ListMayFail /\ collecting' = FALSE
          /\ index' = NoIndices
    /\ cached' = [p \in Pods |-> Truth(p)] /\ news' = [p \in Pods |-> <<>>]
    /\ cachedRules' = rules
    /\ UNCHANGED <<rules, requestVars, gauge>>

\* The process ends: requests without an answer fail.
Exit ==
    /\ up' = FALSE /\ collecting' = FALSE
    /\ index' = NoIndices
    /\ what' = [q \in Requests |-> IF passed[q] = Len(asked[q]) THEN what[q] ELSE NoPod]
    /\ asked' = [q \in Requests |-> IF what'[q] = NoPod THEN <<>> ELSE asked[q]]
    /\ passed' = [q \in Requests |-> IF what'[q] = NoPod THEN 0 ELSE passed[q]]
    /\ gauge' = [n \in RuleNames |-> 0] /\ alone' = {}
    /\ UNCHANGED clusterVars

Crash == up /\ Exit

\* Seeded fault: a turn ends with the first rule.
RefreshFirst ==
    /\ up /\ collecting /\ cachedRules # <<>>
    /\ LET n == cachedRules[1].name
       IN  /\ HasIndex(n)
           /\ gauge' = [gauge EXCEPT ![n] = Counted(IndexOf[n])]
    /\ UNCHANGED <<clusterVars, processVars, requestVars>>

\* One turn of refreshLimiterRuleState: a rule without index keeps its gauge, and so
\* does a rule that is gone.
Refresh ==
    /\ up /\ collecting
    /\ gauge' = [n \in RuleNames |->
                    IF /\ \E k \in DOMAIN cachedRules : cachedRules[k].name = n
                       /\ HasIndex(n)
                    THEN Counted(IndexOf[n]) ELSE gauge[n]]
    /\ UNCHANGED <<clusterVars, processVars, requestVars>>
-----------------------------------------------------------------------------
(* The cluster.                                                            *)

Write(p, s) ==
    /\ Len(news[p]) < MaxNews
    /\ news' = [news EXCEPT ![p] = Append(@, s)]

\* The API server sends an update to the webhook, which allows it unseen.  Updates
\* of the status and the binding of a pod are not even sent.
Update(p, s) ==
    /\ Truth(p) \in Shapes \ {s}
    /\ Write(p, s) /\ alone' = {}
    /\ UNCHANGED <<cached, rules, cachedRules, processVars, asked, passed, what, gauge>>

Delete(p) ==
    /\ Truth(p) # NoPod
    /\ Write(p, NoPod) /\ alone' = {}
    /\ UNCHANGED <<cached, rules, cachedRules, processVars, asked, passed, what, gauge>>

Deliver(p) ==
    /\ up /\ news[p] # <<>>
    /\ cached' = [cached EXCEPT ![p] = Head(news[p])]
    /\ news' = [news EXCEPT ![p] = Tail(@)]
    /\ UNCHANGED <<rules, cachedRules, processVars, requestVars, gauge>>

SetRules(list) ==
    /\ list # rules /\ rules' = list
    /\ UNCHANGED <<cached, news, cachedRules, processVars, requestVars, gauge>>

DeliverRules ==
    /\ up /\ cachedRules # rules /\ cachedRules' = rules
    /\ UNCHANGED <<cached, news, rules, processVars, requestVars, gauge>>
-----------------------------------------------------------------------------
(* Validate, for the creation of a pod.                                    *)

\* The request arrives, and lists the limiters.
Arrive(q, p, s) ==
    /\ up /\ q \notin Active /\ Truth(p) = NoPod
    /\ what' = [what EXCEPT ![q] = [pod |-> p, shape |-> s]]
    /\ asked' = [asked EXCEPT ![q] = cachedRules]
    /\ passed' = [passed EXCEPT ![q] = 0]
    /\ alone' = IF Active = {} /\ \A r \in Pods : news[r] = <<>> THEN {q} ELSE {}
    /\ UNCHANGED <<clusterVars, processVars, gauge>>

\* Seeded fault: the count of rules passed outlives the request.
AnswerKeepsPassed(q) ==
    /\ what' = [what EXCEPT ![q] = NoPod] /\ asked' = [asked EXCEPT ![q] = <<>>]
    /\ alone' = alone \ {q} /\ UNCHANGED passed

Answer(q) ==
    /\ what' = [what EXCEPT ![q] = NoPod] /\ asked' = [asked EXCEPT ![q] = <<>>]
    /\ passed' = [passed EXCEPT ![q] = 0] /\ alone' = alone \ {q}

\* The rule the loop has come to.
AtRule(q) == q \in Active /\ passed[q] < Len(asked[q])
Rule(q) == asked[q][passed[q] + 1]
Applies(q) == Rule(q).enabled /\ Rule(q).parses /\ what[q].shape \in Rule(q).selector

\* Seeded fault: the loop ends with the first rule that lets the pod pass.
PassEndsLoop(q) ==
    /\ up /\ AtRule(q)
    /\ \/ ~Rule(q).enabled
       \/ Rule(q).parses /\ what[q].shape \notin Rule(q).selector
       \/ /\ Applies(q) /\ HasIndex(Rule(q).name)
          /\ Counted(IndexOf[Rule(q).name]) <= Rule(q).threshhold
    /\ passed' = [passed EXCEPT ![q] = Len(asked[q])]
    /\ UNCHANGED <<clusterVars, processVars, asked, what, alone, gauge>>

\* The rule is not enabled, does not match the pod, or has room for it.
Pass(q) ==
    /\ up /\ AtRule(q)
    /\ \/ ~Rule(q).enabled
       \/ Rule(q).parses /\ what[q].shape \notin Rule(q).selector
       \/ /\ Applies(q) /\ HasIndex(Rule(q).name)
          /\ Counted(IndexOf[Rule(q).name]) <= Rule(q).threshhold
    /\ passed' = [passed EXCEPT ![q] = @ + 1]
    /\ UNCHANGED <<clusterVars, processVars, asked, what, alone, gauge>>

\* The count is over the threshhold, or there is no index to count with.
Deny(q) ==
    /\ up /\ AtRule(q) /\ Applies(q)
    /\ \/ ~HasIndex(Rule(q).name)
       \/ HasIndex(Rule(q).name) /\ Counted(IndexOf[Rule(q).name]) > Rule(q).threshhold
    /\ Answer(q)
    /\ UNCHANGED <<clusterVars, processVars, gauge>>

\* ExtractFromRule exits on a selector that does not parse.
ExitOnRule(q) ==
    /\ up /\ AtRule(q) /\ Rule(q).enabled /\ ~Rule(q).parses
    /\ Exit

\* The request was allowed, and the API server creates the pod, or finds that
\* another request created it.
Persist(q) ==
    /\ q \in Active /\ passed[q] = Len(asked[q])
    /\ IF Truth(what[q].pod) = NoPod THEN Write(what[q].pod, what[q].shape)
                                     ELSE UNCHANGED news
    /\ what' = [what EXCEPT ![q] = NoPod] /\ asked' = [asked EXCEPT ![q] = <<>>]
    /\ passed' = [passed EXCEPT ![q] = 0] /\ alone' = {}
    /\ UNCHANGED <<cached, rules, cachedRules, processVars, gauge>>

Review(q) == Pass(q) \/ Deny(q) \/ ExitOnRule(q)

Next ==
    \/ Start \/ Crash \/ Refresh \/ DeliverRules
    \/ \E list \in RuleLists : SetRules(list)
    \/ \E p \in Pods : Delete(p) \/ Deliver(p)
    \/ \E p \in Pods, s \in Shapes : Update(p, s)
    \/ \E q \in Requests : Review(q) \/ Persist(q)
    \/ \E q \in Requests, p \in Pods, s \in Shapes : Arrive(q, p, s)

Spec == Init /\ [][Next]_vars

\* The process is started again, its goroutines run, and the cache catches up.
\* Neither users nor requests have to come.
Fairness ==
    /\ WF_vars(Start) /\ WF_vars(Refresh) /\ WF_vars(DeliverRules)
    /\ \A p \in Pods : WF_vars(Deliver(p))

FairSpec == Spec /\ Fairness
-----------------------------------------------------------------------------
(* Properties                                                              *)

\* Every variable holds a value of its kind; a process that is down has no index and
\* no gauge loop, and no request has passed more rules than it was given.
TypeOK ==
    /\ cached \in [Pods -> Shapes \cup {NoPod}]
    /\ news \in [Pods -> Seq(Shapes \cup {NoPod})]
    /\ rules \in Seq(RuleType) /\ cachedRules \in Seq(RuleType)
    /\ up \in BOOLEAN /\ collecting \in BOOLEAN /\ (collecting => up)
    /\ DOMAIN index \subseteq IndexNames /\ (~up => DOMAIN index = {})
    /\ \A i \in DOMAIN index : index[i] \in SUBSET Shapes
    /\ asked \in [Requests -> Seq(RuleType)]
    /\ passed \in [Requests -> Nat] /\ \A q \in Requests : passed[q] <= Len(asked[q])
    /\ what \in [Requests -> [pod : Pods, shape : Shapes] \cup {NoPod}]
    /\ gauge \in [RuleNames -> Nat]
    /\ alone \subseteq Active

\* Rule k of the list that request q was given applies to the pod, and its index was
\* built with the selector it has.
Governs(k, q) ==
    LET r == asked[q][k]
    IN  /\ r.enabled /\ what[q].shape \in r.selector
        /\ HasIndex(r.name) /\ index[IndexOf[r.name]] = r.selector

\* What Persist leaves: with the pod of the request, the pods eligible for a rule
\* that governs it are at most so many.
Leaves(q, k, most) ==
    Cardinality({p \in Pods : Truth(p)' \in asked[q][k].selector}) <= most

Admits(q) == q \in Active /\ q \in alone /\ Persist(q)

\* A request that meets no other request and no write is admitted within the limit
\* of every rule that governs it, not of the first alone, where the limit is one
\* more than the threshhold: the count is compared before the pod is added.
AloneWithinLimit ==
    [][\A q \in Requests : Admits(q) =>
        \A k \in DOMAIN asked[q] :
            Governs(k, q) => Leaves(q, k, asked[q][k].threshhold + 1)]_vars

\* README.md:63 says of the threshhold "The maximum number of eligible pods".
AloneWithinThreshhold ==
    [][\A q \in Requests : Admits(q) =>
        \A k \in DOMAIN asked[q] :
            Governs(k, q) => Leaves(q, k, asked[q][k].threshhold)]_vars

Steady(n, c) ==
    /\ collecting /\ \E k \in DOMAIN cachedRules : cachedRules[k].name = n
    /\ HasIndex(n) /\ Existing(index[IndexOf[n]]) = c

\* The process comes up again unless a rule of some limiter, enabled or not, has a
\* selector that does not parse or the index name of another; and then the gauge of a rule
\* that was there at the start comes to show the number of pods eligible for it, unless
\* that changes, or the rule, or the process ends.
GaugeFollows ==
    /\ ~up ~> up \/ ~Indexable(rules)
    /\ \A n \in RuleNames, c \in 0 .. Cardinality(Pods) :
          Steady(n, c) ~> gauge[n] = c \/ ~Steady(n, c)
=============================================================================
