---------------------------- MODULE CentralProbe ----------------------------
(***************************************************************************)
(* The CentralProbe controller (controllers/centralprobe/                  *)
(* centralprobe_controller.go) in one namespace: for every pod that a      *)
(* CentralProbe object selects it has a worker of the kubelet's prober     *)
(* run, and it keeps in the status of the object, by the name of the pod,  *)
(* what it needs to stop that worker again.                                *)
(*                                                                         *)
(* The API server and the informer caches are external: the caches deliver *)
(* the versions of each object in order, and late; an update of a copy     *)
(* that is not the last version is refused.  The prober is in Prober.      *)
(***************************************************************************)
EXTENDS Naturals, Sequences, Functions, Prober

CONSTANTS
    Names,         \* names of pods
    Probes,        \* names of CentralProbe objects
    Labels,        \* what the selectors can tell of a pod
    Selectors,     \* the sets of them that users select
    Absent,        \* the version of an object that does not exist
    MaxUid,        \* bound: pods created
    MaxNews,       \* bound: versions of an object the cache has still to see
    MaxActs,       \* bound: acts of users
    MaxTroubles    \* bound: updates that fail for no reason of their own, and crashes

UIDs == 1 .. MaxUid
Statuses == UNION {[S -> UIDs] : S \in SUBSET Names}

PodVersion == [uid : UIDs, label : Labels]
ProbeVersion == [selector : SUBSET Labels, deleting : BOOLEAN, ours : BOOLEAN,
                 statuses : Statuses]

ASSUME ProbeAssumption ==
    /\ IsFiniteSet(Names) /\ IsFiniteSet(Probes) /\ Selectors \subseteq SUBSET Labels
    /\ {MaxUid, MaxNews, MaxActs, MaxTroubles} \subseteq Nat
    /\ Absent \notin PodVersion \cup ProbeVersion

VARIABLES
    pods, podNews,      \* the pods in the cache, and the versions it has still to see
    probes, probeNews,  \* the same of the CentralProbe objects
    lastUid,
    queued, retry,      \* a request for the namespace is queued; waits ten seconds
    pc,                 \* "idle", or where Reconcile is
    todo,               \* the objects still to process, as they were listed
    held,               \* probes whose copy is the last version
    failed,             \* hasError
    listed,             \* name -> UID of the pods listed for the object in process
    orphans,            \* history: UIDs with a worker no status will tell of
    spoiled,            \* history: UIDs whose last AddPod left them without a worker
    acts, troubles

podVars == <<pods, podNews, lastUid>>
probeVars == <<probes, probeNews>>
queueVars == <<queued, retry>>
loopVars == <<pc, todo, held, failed, listed>>
history == <<orphans, spoiled>>
workerVars == <<proberVars, history>>
bounds == <<acts, troubles>>
vars == <<podVars, probeVars, queueVars, loopVars, workerVars, bounds>>

Newest(view, news, k) == IF news[k] = <<>> THEN view[k] ELSE news[k][Len(news[k])]
Pod(n) == Newest(pods, podNews, n)
Probe(c) == Newest(probes, probeNews, c)
-----------------------------------------------------------------------------
NewProbe(S) == [selector |-> S, deleting |-> FALSE, ours |-> FALSE, statuses |-> <<>>]

Init ==
    /\ pods = [n \in Names |-> Absent] /\ podNews = [n \in Names |-> <<>>]
    /\ probes = [c \in Probes |-> Absent] /\ probeNews = [c \in Probes |-> <<>>]
    /\ lastUid = 0 /\ queued = FALSE /\ retry = FALSE
    /\ pc = "idle" /\ todo = <<>> /\ held = {} /\ failed = FALSE /\ listed = <<>>
    /\ ProberInit /\ orphans = {} /\ spoiled = {} /\ acts = 0 /\ troubles = 0

(* The users.                                                              *)

Act == acts < MaxActs /\ acts' = acts + 1 /\ UNCHANGED troubles
Trouble == troubles < MaxTroubles /\ troubles' = troubles + 1

UserPod(n, v) ==
    /\ Act /\ Len(podNews[n]) < MaxNews
    /\ podNews' = [podNews EXCEPT ![n] = Append(@, v)]
    /\ UNCHANGED <<pods, probeVars, queueVars, loopVars, workerVars>>

CreatePod(n, l) ==
    /\ Pod(n) = Absent /\ lastUid < MaxUid /\ lastUid' = lastUid + 1
    /\ UserPod(n, [uid |-> lastUid', label |-> l])

Relabel(n, l) ==
    /\ Pod(n) # Absent /\ Pod(n).label # l
    /\ UserPod(n, [Pod(n) EXCEPT !.label = l]) /\ UNCHANGED lastUid

DeletePod(n) == Pod(n) # Absent /\ UserPod(n, Absent) /\ UNCHANGED lastUid

PutProbe(c, v) ==
    /\ Len(probeNews[c]) < MaxNews
    /\ probeNews' = [probeNews EXCEPT ![c] = Append(@, v)] /\ UNCHANGED probes

UserProbe(c, v) ==
    /\ Act /\ PutProbe(c, v) /\ held' = held \ {c}
    /\ UNCHANGED <<podVars, queueVars, pc, todo, failed, listed, workerVars>>

CreateProbe(c, S) ==
    /\ Probe(c) = Absent
    /\ UserProbe(c, NewProbe(S))

\* A change of the selector, or of something the controller does not read.
EditProbe(c, S) ==
    /\ Probe(c) # Absent
    /\ UserProbe(c, [Probe(c) EXCEPT !.selector = S])

\* An object that is being deleted goes with its finalizer.
DeleteProbe(c) ==
    /\ Probe(c) # Absent /\ ~Probe(c).deleting
    /\ UserProbe(c, IF Probe(c).ours THEN [Probe(c) EXCEPT !.deleting = TRUE] ELSE Absent)

Users ==
    \/ \E n \in Names :
          \/ \E l \in Labels : CreatePod(n, l) \/ Relabel(n, l)
          \/ DeletePod(n)
    \/ \E c \in Probes :
          \/ \E S \in Selectors : CreateProbe(c, S) \/ EditProbe(c, S)
          \/ DeleteProbe(c)

\* A worker of the prober takes notice that it was told to stop.
WorkerEnds ==
    /\ \E w \in running : WorkerExits(w)
    /\ UNCHANGED <<podVars, probeVars, queueVars, loopVars, history, bounds>>

(* The caches: every version of a pod or probe brings the namespace into the queue. *)

DeliverPod(n) ==
    /\ podNews[n] # <<>> /\ queued' = TRUE
    /\ pods' = [pods EXCEPT ![n] = Head(podNews[n])]
    /\ podNews' = [podNews EXCEPT ![n] = Tail(@)]
    /\ UNCHANGED <<lastUid, probeVars, retry, loopVars, workerVars, bounds>>

DeliverProbe(c) ==
    /\ probeNews[c] # <<>> /\ queued' = TRUE
    /\ probes' = [probes EXCEPT ![c] = Head(probeNews[c])]
    /\ probeNews' = [probeNews EXCEPT ![c] = Tail(@)]
    /\ UNCHANGED <<podVars, retry, loopVars, workerVars, bounds>>

RetryDue ==
    /\ retry /\ retry' = FALSE /\ queued' = TRUE
    /\ UNCHANGED <<podVars, probeVars, loopVars, workerVars, bounds>>
-----------------------------------------------------------------------------
(* Reconcile.                                                              *)

\* The objects are listed, in any order.
Begin ==
    /\ pc = "idle" /\ queued /\ queued' = FALSE
    /\ LET known == {c \in Probes : probes[c] # Absent}
       IN  \E o \in [1 .. Cardinality(known) -> known] :
              /\ Range(o) = known
              /\ todo' = [i \in DOMAIN o |-> [probe |-> o[i], copy |-> probes[o[i]]]]
    /\ held' = {c \in Probes : probeNews[c] = <<>>}
    /\ pc' = "next" /\ failed' = FALSE
    /\ UNCHANGED <<podVars, probeVars, retry, listed, workerVars, bounds>>

\* Seeded fault: the error of an object does not ask for another turn.
EndForgetsError ==
    /\ pc = "next" /\ todo = <<>>
    /\ pc' = "idle" /\ failed' = FALSE /\ held' = {}
    /\ UNCHANGED <<podVars, probeVars, queueVars, todo, listed, workerVars, bounds>>

\* An error asks for another turn in ten seconds.
End ==
    /\ pc = "next" /\ todo = <<>>
    /\ pc' = "idle" /\ retry' = (retry \/ failed) /\ failed' = FALSE /\ held' = {}
    /\ UNCHANGED <<podVars, probeVars, queued, todo, listed, workerVars, bounds>>

\* Seeded fault: the pods listed for one object are still there for the next.
ReturnKeepsListed(err) ==
    /\ pc' = "next" /\ todo' = Tail(todo) /\ failed' = (failed \/ err)
    /\ UNCHANGED <<held, listed>>

\* processCentralProbe returns.
Return(err) ==
    /\ pc' = "next" /\ todo' = Tail(todo) /\ failed' = (failed \/ err) /\ listed' = <<>>
    /\ UNCHANGED held

\* The statuses after the listed pods were added and the others cleaned up: an entry
\* that is there already keeps its UID.
Updated(old, found) ==
    [n \in DOMAIN found |-> IF n \in DOMAIN old THEN old[n] ELSE found[n]]

\* The UIDs that the last version of object c tells of.
Told(c) == IF Probe(c) = Absent THEN {} ELSE Range(Probe(c).statuses)

\* Whether u would have a worker of its own, had the prober these goroutines.
Served(u, goroutines) ==
    \E w \in goroutines : w.key = u /\ w.pod = u /\ w.mapped /\ ~w.stopping

\* Seeded fault: the workers of pods that are gone are left alone.
CallsAddOnly(found, gone) ==
    /\ \/ found = <<>> /\ UNCHANGED proberVars
       \/ \E p \in Range(found) : AddAndRemove(Range(found), p, {})
    /\ spoiled' = (spoiled \ Range(found)) \cup {u \in Range(found) : ~Served(u, running')}

\* AddPod(&pod) for every pod found: there is one variable pod for the whole loop, so that
\* every worker started here points at the pod that was listed last.  Then RemovePod for
\* every status without a pod.
Calls(found, gone) ==
    /\ \/ found = <<>> /\ RemovePods(gone)
       \/ \E p \in Range(found) : AddAndRemove(Range(found), p, gone)
    /\ spoiled' = (spoiled \ Range(found)) \cup {u \in Range(found) : ~Served(u, running')}

\* From the loop over the pods to the update of the status.  A pod that took the name of
\* another has a worker that no status will tell of, and so has one whose entry is in the
\* copy but no longer in the object.
Register(c, v, found) ==
    /\ Calls(found, {v.statuses[n] : n \in DOMAIN v.statuses \ DOMAIN found})
    /\ IF DOMAIN found = DOMAIN v.statuses
       THEN Return(FALSE) /\ orphans' = orphans \cup (Range(found) \ Told(c))
       ELSE /\ orphans' = orphans \cup (Range(found) \ Range(Updated(v.statuses, found)))
            /\ pc' = "status" /\ todo' = [todo EXCEPT ![1].copy = v] /\ listed' = found
            /\ UNCHANGED <<held, failed>>

Selects(S, pod) == IF pod = Absent THEN FALSE ELSE pod.label \in S

\* The pods the cache has for a selector.
Found(S) == [n \in {m \in Names : Selects(S, pods[m])} |-> pods[n].uid]

\* Up to the first call of the API server; the pods are listed before it.
Process ==
    /\ pc = "next" /\ todo # <<>>
    /\ LET c == todo[1].probe
           v == todo[1].copy
       IN  \/ /\ v.deleting /\ v.ours
              /\ RemovePods(Range(v.statuses)) /\ pc' = "release"
              /\ UNCHANGED <<todo, held, failed, listed, history>>
           \/ v.deleting /\ ~v.ours /\ Return(FALSE) /\ UNCHANGED workerVars
           \/ /\ ~v.deleting /\ ~v.ours /\ listed' = Found(v.selector) /\ pc' = "finalize"
              /\ UNCHANGED <<todo, held, failed, workerVars>>
           \/ ~v.deleting /\ v.ours /\ Register(c, v, Found(v.selector))
    /\ UNCHANGED <<podVars, probeVars, queueVars, bounds>>

\* The ways an update of object c to version v ends that are not its success.  Only a
\* failure without an answer may have taken effect.
Refused(c) == c \notin held /\ UNCHANGED <<probeVars, troubles>>
Unanswered(c, v) == Trouble /\ (UNCHANGED probeVars \/ (c \in held /\ PutProbe(c, v)))

AddFinalizer ==
    /\ pc = "finalize"
    /\ LET c == todo[1].probe
           v == [todo[1].copy EXCEPT !.ours = TRUE]
       IN  \/ c \in held /\ PutProbe(c, v) /\ Register(c, v, listed) /\ UNCHANGED troubles
           \/ /\ Refused(c) \/ Unanswered(c, v)
              /\ Return(TRUE) /\ UNCHANGED workerVars
    /\ UNCHANGED <<podVars, queueVars, acts>>

\* Seeded fault: the error of the update is not returned.
RemoveFinalizerForgetsError ==
    /\ pc = "release"
    /\ LET c == todo[1].probe
       IN  \/ c \in held /\ PutProbe(c, Absent) /\ UNCHANGED troubles
           \/ Refused(c) \/ Unanswered(c, Absent)
    /\ Return(FALSE) /\ UNCHANGED <<podVars, queueVars, workerVars, acts>>

RemoveFinalizer ==
    /\ pc = "release"
    /\ LET c == todo[1].probe
       IN  \/ c \in held /\ PutProbe(c, Absent) /\ Return(FALSE) /\ UNCHANGED troubles
           \/ (Refused(c) \/ Unanswered(c, Absent)) /\ Return(TRUE)
    /\ UNCHANGED <<podVars, queueVars, workerVars, acts>>

\* Pods whose workers were started and whose entry is not written are orphans until
\* another turn writes it.
UpdateStatus ==
    /\ pc = "status"
    /\ LET c == todo[1].probe
           v == [todo[1].copy EXCEPT !.statuses = Updated(@, listed)]
       IN  \/ /\ c \in held /\ PutProbe(c, v) /\ Return(FALSE)
              /\ orphans' = orphans \ Range(v.statuses) /\ UNCHANGED troubles
           \/ /\ Refused(c) \/ Unanswered(c, v)
              /\ Return(TRUE) /\ orphans' = orphans \cup (Range(listed) \ Told(c))
    /\ UNCHANGED <<podVars, queueVars, proberVars, spoiled, acts>>

WorkerStep == Begin \/ End \/ Process \/ AddFinalizer \/ RemoveFinalizer \/ UpdateStatus

\* The process ends, the workers with it, and starts again.
Crash ==
    /\ Trouble
    /\ pods' = [n \in Names |-> Pod(n)] /\ podNews' = [n \in Names |-> <<>>]
    /\ probes' = [c \in Probes |-> Probe(c)] /\ probeNews' = [c \in Probes |-> <<>>]
    /\ queued' = TRUE /\ retry' = FALSE
    /\ pc' = "idle" /\ todo' = <<>> /\ held' = {} /\ failed' = FALSE /\ listed' = <<>>
    /\ ProberGone /\ orphans' = {} /\ spoiled' = {}
    /\ UNCHANGED <<lastUid, acts>>

Next ==
    \/ Users \/ WorkerStep \/ WorkerEnds \/ RetryDue \/ Crash
    \/ \E n \in Names : DeliverPod(n)
    \/ \E c \in Probes : DeliverProbe(c)

Spec == Init /\ [][Next]_vars

\* The controller, the prober, the retry timer and the caches take the steps they can take.
Fairness ==
    /\ WF_vars(WorkerStep) /\ WF_vars(WorkerEnds) /\ WF_vars(RetryDue)
    /\ \A n \in Names : WF_vars(DeliverPod(n))
    /\ \A c \in Probes : WF_vars(DeliverProbe(c))

FairSpec == Spec /\ Fairness
-----------------------------------------------------------------------------
(* Properties                                                              *)

\* Every variable holds a value of its kind.
TypeOK ==
    /\ pods \in [Names -> PodVersion \cup {Absent}]
    /\ probes \in [Probes -> ProbeVersion \cup {Absent}]
    /\ \A n \in Names : podNews[n] \in Seq(PodVersion \cup {Absent})
    /\ \A c \in Probes : probeNews[c] \in Seq(ProbeVersion \cup {Absent})
    /\ pc \in {"idle", "next", "finalize", "release", "status"}
    /\ todo \in Seq([probe : Probes, copy : ProbeVersion])
    /\ (pc = "idle" => todo = <<>>) /\ held \subseteq Probes
    /\ listed \in Statuses /\ (pc \in {"idle", "next", "release"} => listed = <<>>)
    /\ registered \subseteq UIDs /\ running \subseteq Worker(UIDs)
    /\ orphans \subseteq UIDs /\ spoiled \subseteq UIDs

\* The statuses that some object has in the API server, and those about to be written.
Recorded ==
    (UNION {Range(Probe(c).statuses) : c \in {d \in Probes : Probe(d) # Absent}})
    \cup (IF pc = "status" THEN Range(Updated(todo[1].copy.statuses, listed)) ELSE {})

\* Every worker that the prober could still be told to stop, and was not, can be: its UID
\* is in the status of some object, or it was started for a pod that took the name of
\* another, or its entry was not written.
WorkersAreRecorded ==
    {w.key : w \in {x \in running : x.mapped /\ ~x.stopping}} \subseteq Recorded \cup orphans

Wants(c) == IF Probe(c) = Absent THEN FALSE ELSE ~Probe(c).deleting
Selected(n) == \E c \in Probes : Wants(c) /\ Selects(Probe(c).selector, Pod(n))

Rest ==
    /\ pc = "idle" /\ ~queued /\ ~retry
    /\ \A n \in Names : podNews[n] = <<>>
    /\ \A c \in Probes : probeNews[c] = <<>>
    /\ \A w \in running : ~w.stopping

SelectedUIDs == {Pod(n).uid : n \in {m \in Names : Selected(m)}}

\* When the controller has come to rest, every pod that an object selects is probed, also
\* when another object that shared it let it go, unless its last AddPod met a worker that
\* was about to end, or pointed it at another pod; and each status has an entry for just
\* the names of the pods selected.
RestIsExact ==
    Rest => /\ SelectedUIDs \subseteq Probed \cup spoiled
            /\ \A c \in {d \in Probes : Wants(d)} :
                  DOMAIN Probe(c).statuses =
                      {n \in Names : Selects(Probe(c).selector, Pod(n))}

\* README.md:15 has the readiness of the selected pods of a node that is not ready
\* updated, which takes that each of them is probed.  It is not so: the workers started in
\* one turn all probe the pod that was listed last.
RestProbesAll == Rest => SelectedUIDs \subseteq Probed

\* A pod that an object selects comes to be probed, whatever conflicts, failures and
\* crashes delay it, but for the exceptions of RestIsExact.
SelectedAreProbed ==
    \A n \in Names, u \in UIDs :
        Selected(n) /\ Pod(n).uid = u
            ~> u \in Probed \cup spoiled \/ ~Selected(n) \/ Pod(n).uid # u

\* An object that is being deleted goes in the end.
Going(c) == IF Probe(c) = Absent THEN FALSE ELSE Probe(c).deleting

DeletionCompletes == \A c \in Probes : Going(c) ~> ~Going(c)
=============================================================================
