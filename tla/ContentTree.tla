----------------------------- MODULE ContentTree -----------------------------
(***************************************************************************)
(* A tree of snapshots under capture.  Node n is one snapshot custom       *)
(* resource (snap[n]) with the cluster-scoped SnapshotContent bound to it  *)
(* (content[n]), its manifest request and checkpoint (mcr, mcp) and its    *)
(* volume request and artifact (vcr, vsc).                                 *)
(*                                                                         *)
(* The SnapshotContent controller is modelled pass by pass: a reconcile is *)
(* observe (read the content and its owner, project edges, checkpoint name *)
(* and data), derive (read the artifacts and the children's contents),     *)
(* write (the status patch), legs (the capture latches of the owner) and   *)
(* mirror (the owner's Ready); everybody else may move between two of      *)
(* them.  What a pass read when it began is kept in ob (its content) and   *)
(* ow (its owner) and is stale from then on.                               *)
(*                                                                         *)
(* A Ready condition is abstracted to the class of its reason: Pending,    *)
(* Failed (terminal) or Completed (True); on a snapshot also Lost          *)
(* (ChildSnapshotLost, terminal) and Deleted (ChildSnapshotDeleted, not    *)
(* terminal).  Import, native VolumeSnapshot data legs, excludedRefs and   *)
(* the deletion of contents are outside this module.                       *)
(***************************************************************************)
EXTENDS Naturals, FiniteSets

CONSTANTS Nodes, Root,
          Kids,         \* Kids[n]: the children the domain of n may declare
          Queues,       \* the work queues that reconcile contents
          Aggregators,  \* nodes that capture themselves after their subtree
          DataNodes,    \* nodes with a volume to capture
          Announces,    \* domains write phase=Planning before they plan
          Ordered,      \* domains declare no child after their manifest request
          Workers,      \* bound: reconciles of contents that run at a time
          Resync,       \* any content may be reconciled at any time (restart,
                        \* resync), not only when some event asks for it
          Failures,     \* who may fail: "manifest", "volume", "domain"
          MaxFailures,  \* bound: such failures in a behaviour
          MaxLosses,    \* bound: artifacts lost after their handoff
          MaxDeletions  \* bound: snapshots deleted by a user

ASSUME TreeAssumption ==
    /\ IsFiniteSet(Nodes)
    /\ Root \in Nodes
    /\ Kids \in [Nodes -> SUBSET (Nodes \ {Root})]
    /\ \A m, n \in Nodes : m # n => Kids[m] \cap Kids[n] = {}
    /\ Queues \in {{"content"}, {"content", "snapshot"}}
    /\ Aggregators \subseteq Nodes \ DataNodes
    /\ DataNodes \subseteq Nodes
    /\ Announces \in BOOLEAN
    /\ Ordered \in BOOLEAN
    /\ Workers \in Nat
    /\ Resync \in BOOLEAN
    /\ Failures \subseteq {"manifest", "volume", "domain"}
    /\ {MaxFailures, MaxLosses, MaxDeletions} \subseteq Nat

Phases == {"None", "Planning", "Planned", "Finished", "Failed"}
ContentReady == {"None", "Pending", "Failed", "Completed"}
SnapReady == ContentReady \cup {"Lost", "Deleted"}
LegStates == {"OK", "Pending", "Failed"}
Legs == [manifests : LegStates, data : LegStates, children : LegStates]

Snapshot ==
    [ex : {"none", "alive", "gone"},
     phase : Phases,               \* domainSpecificController.phase
     declared : SUBSET Nodes,      \* childrenSnapshotRefs
     req : BOOLEAN,                \* manifestCaptureRequestName is set
     vreq : BOOLEAN,               \* volumeCaptureRequestName is set
     captured : BOOLEAN,           \* manifestCaptured
     dataCaptured : BOOLEAN,
     kids : {"nil", "false", "true"},  \* childSubtreesManifestsPersisted
     planned : BOOLEAN,            \* subtreePlanned
     settled : BOOLEAN,            \* childrenSettled
     ready : SnapReady]

Content ==
    [ex : BOOLEAN,
     named : BOOLEAN,              \* manifestCheckpointName is published
     data : BOOLEAN,               \* status.data is published
     edges : SUBSET Nodes,         \* childrenSnapshotContentRefs
     persisted : BOOLEAN,          \* subtreeManifestsPersisted
     legs : Legs,                  \* ManifestsReady, DataReady, ChildrenReady
     ready : ContentReady,
     ownerGone : BOOLEAN]          \* boundSnapshotDeleted

Owner == [phase : Phases, captured : BOOLEAN, ready : SnapReady]

Pass ==
    [pc : {"idle", "derive", "write", "legs", "mirror"},
     ob : Content, ow : Owner,
     pend : BOOLEAN, term : BOOLEAN,  \* the data leg as the projection saw it
     legs : Legs, ready : ContentReady, persisted : BOOLEAN,  \* the plan
     rq : BOOLEAN]                    \* some step asked for a requeue

VARIABLES
    snap, content,
    mcr,        \* ManifestCaptureRequest: named once it has a checkpoint name
    mcp,        \* ManifestCheckpoint: owned once handed over to the content
    vcr, vsc,   \* VolumeCaptureRequest, VolumeSnapshotContent
    pass,       \* the running reconcile of each queue and node
    queued,     \* the requests waiting in the work queues
    failures, losses, deletions,  \* used budgets
    everReady,  \* history: contents that have been Ready=True
    excluded    \* history: the nodes whose objects a capture left out

vars == <<snap, content, mcr, mcp, vcr, vsc, pass, queued,
          failures, losses, deletions, everReady, excluded>>
artifacts == <<mcr, mcp, vcr, vsc>>
budgets == <<failures, losses, deletions>>
history == <<everReady, excluded>>

NoLegs == [manifests |-> "Pending", data |-> "Pending", children |-> "OK"]
NoSnapshot ==
    [ex |-> "none", phase |-> "None", declared |-> {}, req |-> FALSE,
     vreq |-> FALSE, captured |-> FALSE, dataCaptured |-> FALSE,
     kids |-> "nil", planned |-> FALSE, settled |-> FALSE, ready |-> "None"]
NoContent ==
    [ex |-> FALSE, named |-> FALSE, data |-> FALSE, edges |-> {},
     persisted |-> FALSE, legs |-> NoLegs, ready |-> "None",
     ownerGone |-> FALSE]
NoOwner == [phase |-> "None", captured |-> FALSE, ready |-> "None"]
NoPass ==
    [pc |-> "idle", ob |-> NoContent, ow |-> NoOwner, pend |-> FALSE,
     term |-> FALSE, legs |-> NoLegs, ready |-> "None", persisted |-> FALSE,
     rq |-> FALSE]

TypeOK ==
    /\ snap \in [Nodes -> Snapshot]
    /\ content \in [Nodes -> Content]
    /\ mcr \in [Nodes -> {"none", "open", "named"}]
    /\ mcp \in [Nodes -> {"none", "ready", "owned", "failed", "damaged", "gone"}]
    /\ vcr \in [Nodes -> {"none", "pending", "ready", "failed"}]
    /\ vsc \in [Nodes -> {"none", "notready", "ready", "gone"}]
    /\ pass \in [Queues \X Nodes -> Pass]
    /\ queued \subseteq Queues \X Nodes
    /\ failures \in 0..MaxFailures
    /\ losses \in 0..MaxLosses
    /\ deletions \in 0..MaxDeletions
    /\ everReady \subseteq Nodes
    /\ excluded \in [Nodes -> SUBSET Nodes]

Init ==
    /\ snap = [n \in Nodes |->
                 IF n = Root THEN [NoSnapshot EXCEPT !.ex = "alive"] ELSE NoSnapshot]
    /\ content = [n \in Nodes |-> NoContent]
    /\ mcr = [n \in Nodes |-> "none"]
    /\ mcp = [n \in Nodes |-> "none"]
    /\ vcr = [n \in Nodes |-> "none"]
    /\ vsc = [n \in Nodes |-> "none"]
    /\ pass = [w \in Queues \X Nodes |-> NoPass]
    /\ queued = IF Resync THEN Queues \X Nodes ELSE {}
    /\ failures = 0
    /\ losses = 0
    /\ deletions = 0
    /\ everReady = {}
    /\ excluded = [n \in Nodes |-> {}]

-----------------------------------------------------------------------------
SnapshotQueue == IF "snapshot" \in Queues THEN "snapshot" ELSE "content"
Parents(n) == {m \in Nodes : n \in Kids[m]}

\* Mutant: a child content does not wake its parent's.
ContentWakeSelf(n) == {"content"} \X {n}

\* Who is told what.  A content write wakes the content and, over its owner
\* reference, the parent's content; a write of a snapshot or of its manifest
\* request wakes the bound content through the queue of the snapshot kind;
\* an owned artifact wakes the content that owns it.
ContentWake(n) == {"content"} \X ({n} \cup {m \in Parents(n) : content[m].ex})
SnapshotWake(n) == IF content[n].ex THEN {<<SnapshotQueue, n>>} ELSE {}
ArtifactWake(n) == IF content[n].ex THEN {<<"content", n>>} ELSE {}

Alive(n) == snap[n].ex = "alive"
Bound(n) == Alive(n) /\ content[n].ex

ownerChildSetFrozen(phase) == phase \in {"Planned", "Finished", "Failed"}

ownerDomainCaptureAtLeastPlanned(phase) == phase \in {"Planned", "Finished"}

IsReasonTerminal(ready) == ready \in {"Failed", "Lost"}

\* Mutant: only the published edges count.
LinkedIfPublished(n, ob) == Alive(n)

\* declaredNonLeafChildContentNames against the published edges: every child
\* the owner declares now resolves to a bound content that is linked.
Linked(n, ob) ==
    /\ Alive(n)
    /\ \A c \in snap[n].declared : Bound(c) /\ c \in ob.edges

\* Mutant: children count as persisted when they name a checkpoint.
NamedChildren(n, ob) == Linked(n, ob) /\ \A c \in ob.edges : content[c].named

aggregateChildrenSubtreeManifestsPersisted(n, ob) ==
    Linked(n, ob) /\ \A c \in ob.edges : content[c].persisted

\* The manifest leg of the content as the pass read it: validated against the
\* live checkpoint; NotFound is a loss only once manifestCaptured is latched.
ManifestLeg(n, ob, ow) ==
    CASE ~ob.named -> "Pending"
      [] ob.named /\ mcp[n] \in {"ready", "owned"} -> "OK"
      [] ob.named /\ mcp[n] \in {"failed", "damaged"} -> "Failed"
      [] ob.named /\ mcp[n] \in {"none", "gone"} ->
            IF ow.captured THEN "Failed" ELSE "Pending"

\* Mutant: a published artifact counts as ready.
DataLegIfPublished(n, ob, manifest, pend, term) ==
    CASE term -> "Failed"
      [] ~term /\ manifest # "OK" -> "Pending"
      [] ~term /\ manifest = "OK" ->
            IF ob.data /\ vsc[n] = "gone" THEN "Failed"
            ELSE IF pend THEN "Pending" ELSE "OK"

\* Mutant: an artifact reported missing is not looked up again.
DataLegReportedOnce(n, ob, manifest, pend, term) ==
    CASE term -> "Failed"
      [] ~term /\ manifest # "OK" -> "Pending"
      [] ~term /\ manifest = "OK" ->
            IF ob.data /\ vsc[n] = "gone" /\ ob.legs.data # "Failed" THEN "Failed"
            ELSE IF pend \/ (ob.data /\ vsc[n] = "notready") THEN "Pending" ELSE "OK"

\* The data leg: not looked at before the manifest leg is OK; an expected but
\* not yet published leg is pending, a failed request is terminal.
DataLeg(n, ob, manifest, pend, term) ==
    CASE term -> "Failed"
      [] ~term /\ manifest # "OK" -> "Pending"
      [] ~term /\ manifest = "OK" ->
            IF ob.data /\ vsc[n] = "gone" THEN "Failed"
            ELSE IF pend \/ (ob.data /\ vsc[n] # "ready") THEN "Pending" ELSE "OK"

\* Mutant: a child that is not Ready does not hold its parent.
ChildrenLegFailuresOnly(n, ob) ==
    IF \E c \in ob.edges : content[c].ready = "Failed" THEN "Failed" ELSE "OK"

\* Mutant: a failed child is waited for.
ChildrenLegNeverFails(n, ob) ==
    IF /\ \A c \in ob.edges : content[c].ready = "Completed"
       /\ ob.persisted \/ Linked(n, ob)
    THEN "OK" ELSE "Pending"

validateCommonContentChildren(n, ob) ==
    IF \E c \in ob.edges : content[c].ready = "Failed" THEN "Failed"
    ELSE IF /\ \A c \in ob.edges : content[c].ready = "Completed"
            /\ ob.persisted \/ Linked(n, ob)
         THEN "OK" ELSE "Pending"

\* The latch is held once set; before that it needs the own manifest leg and
\* every declared child linked and persisted.
computeSubtreeManifestsPersisted(n, ob, manifest) ==
    ob.persisted \/ (manifest = "OK" /\ aggregateChildrenSubtreeManifestsPersisted(n, ob))

\* A terminal leg beats a pending one; the persist latch gates Ready last.
deriveReadyStatus(legs, persisted) ==
    LET states == {legs.manifests, legs.data, legs.children} IN
    IF "Failed" \in states THEN "Failed"
    ELSE IF "Pending" \in states \/ ~persisted THEN "Pending"
    ELSE "Completed"

\* Mutant: the phase itself is reported.
FoldReportsPhase(phase, ready) == IF phase \in {"None", "Finished"} THEN ready ELSE phase

\* Mutant: only a failed domain is folded in.
FoldFailureOnly(phase, ready) == IF phase = "Failed" THEN "Failed" ELSE ready

\* Barrier 2: the domain's phase may lower Ready; an absent phase does not.
applyDomainPhaseFold(phase, ready) ==
    CASE phase = "None" -> ready
      [] phase = "Failed" -> "Failed"
      [] phase \notin {"None", "Failed"} ->
            IF ready = "Completed" /\ phase # "Finished" THEN "Pending" ELSE ready

childSnapshotSettled(c) ==
    \/ snap[c].phase \in {"Finished", "Failed"}
    \/ snap[c].ready \in {"Completed", "Failed", "Lost"}

\* Mutant: the phase of the direct children stands for their subtrees.
allDirectChildrenPlanned(n) ==
    \A c \in snap[n].declared : Alive(c) /\ ownerDomainCaptureAtLeastPlanned(snap[c].phase)

allDirectChildrenSubtreePlanned(n) ==
    \A c \in snap[n].declared : Alive(c) /\ snap[c].planned

\* A node without children has nothing to settle and never says so.
allDirectChildrenSettled(n) ==
    /\ snap[n].declared # {}
    /\ \A c \in snap[n].declared : Alive(c) /\ childSnapshotSettled(c)

\* Mutant: published edges are not inspected again.
LostBeforeLinkOnly(n, p) ==
    IF /\ ownerDomainCaptureAtLeastPlanned(p.ow.phase) /\ p.ob.edges = {}
       /\ \E c \in snap[n].declared : ~Alive(c)
    THEN "Lost" ELSE "None"

\* A child content whose snapshot is gone survives in the recycle bin when it
\* is Ready (Deleted) and is lost otherwise; before the edges are published
\* any missing declared child is lost.
detectLostDeclaredChildren(n, p) ==
    LET missing(S) == {c \in S : ~Alive(c)} IN
    IF ~ownerDomainCaptureAtLeastPlanned(p.ow.phase) THEN "None"
    ELSE IF p.ob.edges = {}
         THEN IF missing(snap[n].declared) # {} THEN "Lost" ELSE "None"
    ELSE IF \E c \in missing(p.ob.edges) : content[c].ready # "Completed" THEN "Lost"
    ELSE IF missing(p.ob.edges) # {} THEN "Deleted" ELSE "None"

-----------------------------------------------------------------------------
(* One pass of the SnapshotContent controller over node n from queue q. *)

Running == {w \in Queues \X Nodes : pass[w].pc # "idle"}

\* The queue once the request of n is taken out of it.
Taken(q, n) == IF Resync THEN queued ELSE queued \ {<<q, n>>}

\* A request leaves the queue; the owner's deletion is latched on the content
\* and ends the pass, and so does a latch that is already there.
Dequeue(q, n) ==
    /\ <<q, n>> \in queued
    /\ content[n].ex
    /\ pass[<<q, n>>].pc = "idle"
    /\ Cardinality(Running) < Workers

latchBoundSnapshotDeletedForMissingOwner(q, n) ==
    /\ Dequeue(q, n)
    /\ content[n].ownerGone \/ ~Alive(n)
    /\ content' = [content EXCEPT ![n].ownerGone = TRUE]
    /\ queued' = Taken(q, n)
                    \cup (IF content[n].ownerGone THEN {} ELSE ContentWake(n))
    /\ UNCHANGED <<snap, artifacts, pass, budgets, history>>

\* What the three projections publish on the content of n.
PublishEdges(n) ==
    /\ ownerChildSetFrozen(snap[n].phase)
    /\ Cardinality(content[n].edges) < Cardinality(snap[n].declared)
    /\ \A c \in snap[n].declared : Bound(c)
    /\ content[n].edges = {}
PublishName(n) == snap[n].req /\ mcr[n] = "named" /\ ~content[n].named
PublishData(n) ==
    snap[n].vreq /\ vcr[n] = "ready" /\ ~content[n].data /\ vsc[n] # "gone"
EdgesPending(n) ==
    \/ ~ownerChildSetFrozen(snap[n].phase)
    \/ /\ Cardinality(content[n].edges) < Cardinality(snap[n].declared)
       /\ \E c \in snap[n].declared : ~Bound(c)
NamePending(n) == snap[n].req /\ mcr[n] # "named" /\ ~content[n].named
DataPending(n) == snap[n].vreq /\ vcr[n] # "failed" /\ ~content[n].data
DataFailed(n) == snap[n].vreq /\ vcr[n] = "failed" /\ ~content[n].data

\* Read the content and its owner, project edges, checkpoint name and data in
\* separate patches: the pass goes on with the content as it was before them.
Observe(q, n) ==
    /\ Dequeue(q, n)
    /\ Alive(n) /\ ~content[n].ownerGone
    /\ content' = [content EXCEPT
          ![n].edges = IF PublishEdges(n) THEN snap[n].declared ELSE @,
          ![n].named = @ \/ PublishName(n),
          ![n].data = @ \/ PublishData(n)]
    /\ pass' = [pass EXCEPT ![<<q, n>>] =
          [NoPass EXCEPT !.pc = "derive", !.ob = content[n],
             !.ow = [phase |-> snap[n].phase, captured |-> snap[n].captured,
                     ready |-> snap[n].ready],
             !.pend = DataPending(n), !.term = DataFailed(n),
             !.rq = EdgesPending(n) \/ NamePending(n)]]
    /\ queued' = Taken(q, n)
          \cup (IF PublishEdges(n) \/ PublishName(n) \/ PublishData(n)
                THEN ContentWake(n) ELSE {})
    /\ UNCHANGED <<snap, artifacts, budgets, history>>

\* Mutant: any checkpoint is taken over.
TakeOverUnvalidated(n, ob) ==
    IF ob.named /\ mcp[n] \in {"ready", "failed"} THEN "owned" ELSE mcp[n]

\* The handoff of a Ready checkpoint is part of its validation.
ensureManifestCheckpointOwnedByContent(n, ob) ==
    IF ob.named /\ mcp[n] = "ready" THEN "owned" ELSE mcp[n]

\* Derive the plan from the content as read and the live artifacts and
\* children; a plan that changes nothing is not written.
Derive(q, n) ==
    LET p == pass[<<q, n>>]
        m == ManifestLeg(n, p.ob, p.ow)
        legs == [manifests |-> m,
                 data |-> DataLeg(n, p.ob, m, p.pend, p.term),
                 children |-> validateCommonContentChildren(n, p.ob)]
        persisted == computeSubtreeManifestsPersisted(n, p.ob, m)
        ready == applyDomainPhaseFold(p.ow.phase, deriveReadyStatus(legs, persisted))
        same == p.ob.legs = legs /\ p.ob.ready = ready /\ p.ob.persisted = persisted
    IN
    /\ p.pc = "derive"
    /\ pass' = [pass EXCEPT ![<<q, n>>] =
          [NoPass EXCEPT !.ob = p.ob, !.ow = p.ow, !.rq = p.rq,
             !.pc = IF same THEN "legs" ELSE "write",
             !.legs = IF same THEN NoLegs ELSE legs,
             !.ready = IF same THEN "None" ELSE ready,
             !.persisted = ~same /\ persisted]]
    /\ mcp' = [mcp EXCEPT ![n] = ensureManifestCheckpointOwnedByContent(n, p.ob)]
    /\ queued' = queued \cup (IF mcp'[n] # mcp[n] THEN ArtifactWake(n) ELSE {})
    /\ UNCHANGED <<snap, content, mcr, vcr, vsc, budgets, history>>

\* A merge patch without a lock: all conditions, and the latch if it changed
\* against the copy the pass read.  The reply replaces that copy.
WriteStatus(q, n) ==
    LET p == pass[<<q, n>>]
        new == [content[n] EXCEPT
                  !.legs = p.legs, !.ready = p.ready,
                  !.persisted = IF p.persisted # p.ob.persisted THEN p.persisted ELSE @]
    IN
    /\ p.pc = "write"
    /\ content' = [content EXCEPT ![n] = new]
    /\ pass' = [pass EXCEPT ![<<q, n>>] =
                  [NoPass EXCEPT !.pc = "legs", !.ob = new, !.ow = p.ow, !.rq = p.rq]]
    /\ queued' = queued \cup ContentWake(n)
    /\ everReady' = everReady \cup (IF p.ready = "Completed" THEN {n} ELSE {})
    /\ UNCHANGED <<snap, artifacts, budgets, excluded>>

\* Mutant: a published checkpoint is durable, whoever owns it.
PublishedIsSafe(n) == content[n].named /\ mcp[n] \in {"ready", "owned", "damaged"}

\* The request may go once the content names a checkpoint it owns.
ManifestCaptureRequestSafeToDelete(n) ==
    /\ content[n].named
    /\ mcp[n] \in {"owned", "damaged"}
    /\ mcr[n] \in {"none", "named"}

\* The volume request covers a published artifact that the content still has.
VolumeCaptureRequestSafeToDeleteWithHandoff(n) ==
    vcr[n] # "none" /\ content[n].data /\ vsc[n] # "gone"

\* The published data covers the targets of the request.
observeOwnerDataLegVCR(n) == vcr[n] # "none" /\ content[n].data

\* Declared false at first, never taken back once true.
setOwnerChildSubtreesManifestsPersisted(latch, persisted) ==
    IF latch = "true" \/ persisted THEN "true" ELSE "false"

\* The three tree latches are set from the direct children.
LatchTree(s, n, ob) ==
    [s EXCEPT !.kids = setOwnerChildSubtreesManifestsPersisted(@,
                          ob.persisted \/ aggregateChildrenSubtreeManifestsPersisted(n, ob)),
              !.planned = @ \/ allDirectChildrenSubtreePlanned(n),
              !.settled = @ \/ allDirectChildrenSettled(n)]

\* The latches of a live owner past barrier 1.  Each request is latched as
\* captured and then deleted; a request left over by an earlier pass is
\* deleted again.
reconcileOwnerCaptureLegs(q, n) ==
    LET s == snap[n]
        p == pass[<<q, n>>]
        open == Alive(n) /\ ownerDomainCaptureAtLeastPlanned(s.phase)
        captured == s.captured \/ (s.req /\ ManifestCaptureRequestSafeToDelete(n))
        data == \/ s.dataCaptured
                \/ /\ s.vreq /\ observeOwnerDataLegVCR(n)
                   /\ VolumeCaptureRequestSafeToDeleteWithHandoff(n)
        new == LatchTree([s EXCEPT !.captured = captured, !.dataCaptured = data], n, p.ob)
    IN
    /\ p.pc = "legs"
    /\ IF open
       THEN /\ snap' = [snap EXCEPT ![n] = new]
            /\ mcr' = [mcr EXCEPT ![n] = IF s.req /\ captured THEN "none" ELSE @]
            /\ vcr' = [vcr EXCEPT ![n] = IF s.vreq /\ data THEN "none" ELSE @]
            /\ queued' = queued \cup (IF new # s THEN SnapshotWake(n) ELSE {})
            /\ pass' = [pass EXCEPT ![<<q, n>>] =
                  [p EXCEPT !.pc = "mirror",
                            !.rq = \/ p.rq
                                   \/ s.vreq /\ ~data
                                   \/ ~new.planned
                                   \/ s.declared # {} /\ ~new.settled]]
       ELSE /\ pass' = [pass EXCEPT ![<<q, n>>] = [p EXCEPT !.pc = "mirror"]]
            /\ UNCHANGED <<snap, mcr, vcr, queued>>
    /\ UNCHANGED <<content, mcp, vsc, budgets, history>>

snapshotContentNeedsActiveRequeue(ready, rq) ==
    ready # "Failed" /\ (ready # "Completed" \/ rq)

\* Mirror Ready onto the owner, unless the copy of the owner the pass began
\* with already says so; a vanished owner is an error and a retry.
mirrorReadyToOwnerSnapshot(q, n) ==
    LET p == pass[<<q, n>>]
        folded == applyDomainPhaseFold(p.ow.phase, p.ob.ready)
        lost == detectLostDeclaredChildren(n, p)
        new == IF lost = "Lost" \/ (lost = "Deleted" /\ folded = "Completed")
               THEN lost ELSE folded
        writes == new # p.ow.ready
    IN
    /\ p.pc = "mirror"
    /\ snap' = [snap EXCEPT ![n].ready = IF writes /\ Alive(n) THEN new ELSE @]
    /\ queued' = queued
          \cup (IF writes /\ Alive(n) /\ new # snap[n].ready THEN SnapshotWake(n) ELSE {})
          \cup (IF \/ writes /\ ~Alive(n)
                   \/ snapshotContentNeedsActiveRequeue(p.ob.ready, p.rq)
                THEN {<<q, n>>} ELSE {})
    /\ pass' = [pass EXCEPT ![<<q, n>>] = NoPass]
    /\ UNCHANGED <<content, artifacts, budgets, history>>

ContentPass(q, n) ==
    \/ latchBoundSnapshotDeletedForMissingOwner(q, n)
    \/ Observe(q, n)
    \/ Derive(q, n)
    \/ WriteStatus(q, n)
    \/ reconcileOwnerCaptureLegs(q, n)
    \/ mirrorReadyToOwnerSnapshot(q, n)

-----------------------------------------------------------------------------
(* The binder: one content per claimed snapshot, top-down. *)

domainHasClaimed(n) ==
    snap[n].phase # "None" \/ snap[n].declared # {} \/ snap[n].req \/ snap[n].vreq

\* Create the content, owned by the parent's content, and bind the snapshot.
BindContent(n) ==
    /\ Alive(n)
    /\ ~content[n].ex
    /\ domainHasClaimed(n)
    /\ \A m \in Parents(n) : content[m].ex
    /\ content' = [content EXCEPT ![n].ex = TRUE]
    /\ queued' = queued \cup ContentWake(n) \cup {<<"content", n>>, <<SnapshotQueue, n>>}
    /\ UNCHANGED <<snap, artifacts, pass, budgets, history>>

markBoundSnapshotDeletedOnContent(n) ==
    /\ snap[n].ex = "gone"
    /\ content[n].ex /\ ~content[n].ownerGone
    /\ content' = [content EXCEPT ![n].ownerGone = TRUE]
    /\ queued' = queued \cup ContentWake(n)
    /\ UNCHANGED <<snap, artifacts, pass, budgets, history>>

-----------------------------------------------------------------------------
(* The domain controllers, through the snapshot SDK. *)

\* A write of snapshot n by its domain.
UpdateSnapshot(n, new) ==
    /\ snap' = [snap EXCEPT ![n] = new]
    /\ queued' = queued \cup SnapshotWake(n)

InPlanning(n) ==
    /\ Alive(n)
    /\ snap[n].phase \in (IF Announces /\ n \notin Aggregators
                          THEN {"Planning"} ELSE {"None", "Planning"})

Announce(n) ==
    /\ Announces /\ n \notin Aggregators
    /\ Alive(n) /\ snap[n].phase = "None"
    /\ UpdateSnapshot(n, [snap[n] EXCEPT !.phase = "Planning"])
    /\ UNCHANGED <<content, artifacts, pass, budgets, history>>

\* Create child snapshots and add them to the declared set, which only grows
\* and is closed once the phase is past planning.
EnsureChildren(n) ==
    /\ InPlanning(n)
    /\ Ordered => ~snap[n].req
    /\ \E D \in SUBSET (Kids[n] \ snap[n].declared) :
          /\ D # {}
          /\ snap' = [c \in Nodes |->
                IF c = n THEN [snap[n] EXCEPT !.declared = @ \cup D]
                ELSE IF c \in D /\ snap[c].ex = "none" THEN [snap[c] EXCEPT !.ex = "alive"]
                ELSE snap[c]]
    /\ queued' = queued \cup SnapshotWake(n)
    /\ UNCHANGED <<content, artifacts, pass, budgets, history>>

EnsureVolumeCapture(n) ==
    /\ InPlanning(n)
    /\ n \in DataNodes /\ ~snap[n].vreq
    /\ UpdateSnapshot(n, [snap[n] EXCEPT !.vreq = TRUE])
    /\ vcr' = [vcr EXCEPT ![n] = "pending"]
    /\ UNCHANGED <<content, mcr, mcp, vsc, pass, budgets, history>>

EnsureManifestCapture(n) ==
    /\ InPlanning(n)
    /\ n \notin Aggregators /\ ~snap[n].req
    /\ UpdateSnapshot(n, [snap[n] EXCEPT !.req = TRUE])
    /\ mcr' = [mcr EXCEPT ![n] = "open"]
    /\ UNCHANGED <<content, mcp, vcr, vsc, pass, budgets, history>>

\* Barrier 1.  An aggregator waits until the subtree of every declared child
\* is planned; any other domain has placed its requests.
ChildFailed(c) == snap[c].phase = "Failed" \/ IsReasonTerminal(snap[c].ready)

PlanCapture(n) ==
    /\ InPlanning(n)
    /\ IF n \in Aggregators
       THEN allDirectChildrenSubtreePlanned(n) /\ \A c \in snap[n].declared : ~ChildFailed(c)
       ELSE snap[n].req /\ (n \in DataNodes => snap[n].vreq)
    /\ UpdateSnapshot(n, [snap[n] EXCEPT !.phase = "Planned"])
    /\ UNCHANGED <<content, artifacts, pass, budgets, history>>

\* An aggregator gives up before barrier 1 when a declared child failed or
\* vanished; it reports the failure on its own Ready as well.
FailPlanning(n) ==
    /\ n \in Aggregators /\ InPlanning(n)
    /\ \E c \in snap[n].declared : ~Alive(c) \/ ChildFailed(c)
    /\ UpdateSnapshot(n, [snap[n] EXCEPT !.phase = "Failed", !.ready = "Failed"])
    /\ UNCHANGED <<content, artifacts, pass, budgets, history>>

\* The contents the walk reaches: the declared children of n and, below
\* them, whatever edges are published.
SubtreeWalk(n) ==
    {x \in Nodes : \A T \in SUBSET Nodes :
        (snap[n].declared \subseteq T /\ \A m \in T : content[m].edges \subseteq T)
            => x \in T}

\* The aggregator captures its own manifests after its subtree: it leaves out
\* every object a descendant captured, and asks the walk for them.  The walk
\* is refused while some content it reaches has no Ready checkpoint; the latch
\* childSubtreesManifestsPersisted keeps it from being asked too early.
CaptureAfterSubtree(n) ==
    /\ n \in Aggregators
    /\ Bound(n) /\ ownerDomainCaptureAtLeastPlanned(snap[n].phase)
    /\ ~snap[n].req
    /\ snap[n].declared # {} => snap[n].kids # "false"
    /\ \A c \in snap[n].declared : Bound(c)
    /\ \A c \in SubtreeWalk(n) : content[c].named /\ mcp[c] \in {"ready", "owned"}
    /\ UpdateSnapshot(n, [snap[n] EXCEPT !.req = TRUE])
    /\ mcr' = [mcr EXCEPT ![n] = "open"]
    /\ excluded' = [excluded EXCEPT ![n] = SubtreeWalk(n)]
    /\ UNCHANGED <<content, mcp, vcr, vsc, pass, budgets, everReady>>

\* Barrier 2: what CoreCaptureOutcome reports becomes the final phase.
FinishCapture(n) ==
    /\ Alive(n) /\ snap[n].phase = "Planned"
    /\ ~IsReasonTerminal(snap[n].ready)
    /\ snap[n].captured /\ (snap[n].vreq => snap[n].dataCaptured)
    /\ UpdateSnapshot(n, [snap[n] EXCEPT !.phase = "Finished"])
    /\ UNCHANGED <<content, artifacts, pass, budgets, history>>

FailCapture(n) ==
    /\ Alive(n) /\ ownerDomainCaptureAtLeastPlanned(snap[n].phase)
    /\ IsReasonTerminal(snap[n].ready)
    /\ n \in Aggregators => snap[n].captured
    /\ UpdateSnapshot(n, [snap[n] EXCEPT !.phase = "Failed"])
    /\ UNCHANGED <<content, artifacts, pass, budgets, history>>

\* A domain fails on its own account, at any point of its capture.
DomainFails(n) ==
    /\ "domain" \in Failures /\ failures < MaxFailures
    /\ Alive(n) /\ n \notin Aggregators
    /\ snap[n].phase \in {"None", "Planning", "Planned"}
    /\ UpdateSnapshot(n, [snap[n] EXCEPT !.phase = "Failed"])
    /\ failures' = failures + 1
    /\ UNCHANGED <<content, artifacts, pass, losses, deletions, history>>

Domain(n) ==
    \/ Announce(n) \/ EnsureChildren(n) \/ EnsureVolumeCapture(n)
    \/ EnsureManifestCapture(n) \/ PlanCapture(n) \/ FailPlanning(n)
    \/ CaptureAfterSubtree(n) \/ FinishCapture(n) \/ FailCapture(n)

-----------------------------------------------------------------------------
(* The parties outside: the executors, the storage, users, the collector. *)

\* Module ManifestCapture is the detailed account of this step.
CaptureManifest(n) ==
    /\ mcr[n] = "open"
    /\ mcr' = [mcr EXCEPT ![n] = "named"]
    /\ \/ /\ mcp' = [mcp EXCEPT ![n] = "ready"]
          /\ UNCHANGED failures
       \/ /\ "manifest" \in Failures /\ failures < MaxFailures
          /\ mcp' = [mcp EXCEPT ![n] = "failed"]
          /\ failures' = failures + 1
    /\ queued' = queued \cup SnapshotWake(n)
    /\ UNCHANGED <<snap, content, vcr, vsc, pass, losses, deletions, history>>

CaptureVolume(n) ==
    /\ vcr[n] = "pending"
    /\ \/ /\ vcr' = [vcr EXCEPT ![n] = "ready"]
          /\ vsc' = [vsc EXCEPT ![n] = "notready"]
          /\ UNCHANGED failures
       \/ /\ "volume" \in Failures /\ failures < MaxFailures
          /\ vcr' = [vcr EXCEPT ![n] = "failed"]
          /\ failures' = failures + 1
          /\ UNCHANGED vsc
    /\ queued' = queued \cup ArtifactWake(n)
    /\ UNCHANGED <<snap, content, mcr, mcp, pass, losses, deletions, history>>

VolumeReady(n) ==
    /\ vsc[n] = "notready"
    /\ vsc' = [vsc EXCEPT ![n] = "ready"]
    /\ queued' = queued \cup (IF content[n].data THEN ArtifactWake(n) ELSE {})
    /\ UNCHANGED <<snap, content, mcr, mcp, vcr, pass, budgets, history>>

\* An artifact disappears.  The deletion of a chunk ("damaged") is watched by
\* nobody.
LoseArtifact(n) ==
    /\ losses < MaxLosses
    /\ \/ /\ mcp[n] = "owned"
          /\ \/ mcp' = [mcp EXCEPT ![n] = "gone"] /\ queued' = queued \cup ArtifactWake(n)
             \/ mcp' = [mcp EXCEPT ![n] = "damaged"] /\ UNCHANGED queued
          /\ UNCHANGED vsc
       \/ /\ content[n].data /\ vsc[n] \in {"notready", "ready"}
          /\ vsc' = [vsc EXCEPT ![n] = "gone"]
          /\ queued' = queued \cup ArtifactWake(n)
          /\ UNCHANGED mcp
    /\ losses' = losses + 1
    /\ UNCHANGED <<snap, content, mcr, vcr, pass, failures, deletions, history>>

RemoveSnapshot(n) ==
    /\ snap' = [snap EXCEPT ![n].ex = "gone"]
    /\ queued' = queued \cup SnapshotWake(n)
    /\ UNCHANGED <<content, artifacts, pass, failures, losses, history>>

\* A user deletes a snapshot.  (While a plain domain is still planning it
\* creates a missing child again.)
DeleteSnapshot(n) ==
    /\ deletions < MaxDeletions
    /\ Alive(n)
    /\ \A m \in Parents(n) :
          ~Alive(m) \/ m \in Aggregators \/ ownerChildSetFrozen(snap[m].phase)
    /\ deletions' = deletions + 1
    /\ RemoveSnapshot(n)

CollectChild(n) ==
    /\ Alive(n)
    /\ \E m \in Parents(n) : n \in snap[m].declared /\ snap[m].ex = "gone"
    /\ UNCHANGED deletions
    /\ RemoveSnapshot(n)

\* The requests of a deleted snapshot go, and with its request a checkpoint
\* that no content has taken over.
CollectRequests(n) ==
    /\ snap[n].ex = "gone"
    /\ mcr[n] # "none" \/ vcr[n] # "none"
    /\ mcr' = [mcr EXCEPT ![n] = "none"]
    /\ vcr' = [vcr EXCEPT ![n] = "none"]
    /\ mcp' = [mcp EXCEPT ![n] = IF @ \in {"ready", "failed"} THEN "gone" ELSE @]
    /\ queued' = queued \cup SnapshotWake(n)
    /\ UNCHANGED <<snap, content, vsc, pass, budgets, history>>

Environment(n) ==
    \/ BindContent(n) \/ markBoundSnapshotDeletedOnContent(n)
    \/ CaptureManifest(n) \/ CaptureVolume(n) \/ VolumeReady(n)
    \/ CollectChild(n) \/ CollectRequests(n)

Next ==
    \/ \E q \in Queues, n \in Nodes : ContentPass(q, n)
    \/ \E n \in Nodes :
          \/ Domain(n) \/ Environment(n)
          \/ DomainFails(n) \/ LoseArtifact(n) \/ DeleteSnapshot(n)

Spec == Init /\ [][Next]_vars

\* The work queues are first in, first out: a waiting request gets its turn.
Fairness ==
    \A n \in Nodes :
        /\ WF_vars(Domain(n))
        /\ WF_vars(Environment(n))
        /\ \A q \in Queues : SF_vars(ContentPass(q, n))

FairSpec == Spec /\ Fairness

-----------------------------------------------------------------------------
\* subtreeManifestsPersisted is one-way, so it may only be set over the whole
\* subtree: every child the owner declares is linked and persisted itself, and
\* the own checkpoint was handed over.
PersistedIsComplete ==
    \A n \in Nodes : content[n].persisted =>
        /\ mcp[n] \in {"owned", "damaged", "gone"}
        /\ \A c \in snap[n].declared : c \in content[n].edges /\ content[c].persisted

\* Ready goes bottom-up: no content was ever Ready before every child its
\* snapshot declares had been.
ReadyAfterChildren ==
    \A n \in everReady : snap[n].declared \subseteq everReady

\* A content that is Ready over an expected volume had a usable artifact.
ReadyHasData ==
    \A n \in Nodes :
        content[n].ready = "Completed" /\ snap[n].vreq => vsc[n] \in {"ready", "gone"}

\* A snapshot says Ready=True only for a content that was, and (barrier 2)
\* only after its domain finished.
OwnerReadyIsEarned ==
    \A n \in Nodes : snap[n].ready = "Completed" =>
        n \in everReady /\ snap[n].phase \in {"Finished", "Failed"}

Handed(n) == mcp[n] \in {"owned", "damaged", "gone"}
Closed(phase) == phase \in {"Finished", "Failed"}

\* A set of snapshots with all that its members declare; the snapshot n and
\* everything declared below it.
DeclaredClosed(S) == \A m \in S : snap[m].declared \subseteq S
Tree(n) == {x \in Nodes : \A S \in SUBSET Nodes : n \in S /\ DeclaredClosed(S) => x \in S}

\* A snapshot or a content that is Ready stands for its whole tree, down to
\* the leaves; and unless something was lost, all of it is still there.
ReadyIsWhole ==
    \A n \in Nodes : snap[n].ready = "Completed" \/ content[n].ready = "Completed" =>
        \A x \in Tree(n) :
            /\ x \in everReady /\ Closed(snap[x].phase)
            /\ content[x].persisted /\ Handed(x)
            /\ snap[x].declared \subseteq content[x].edges
            /\ snap[x].vreq => vsc[x] \in {"ready", "gone"}
            /\ losses = 0 => mcp[x] = "owned" /\ (snap[x].vreq => vsc[x] = "ready")

\* The pre-gate of the manifest walk opens only over a linked and persisted
\* set of children.
KidsLatchIsComplete ==
    \A n \in Nodes : snap[n].kids = "true" =>
        \A c \in snap[n].declared : c \in content[n].edges /\ content[c].persisted

\* subtreePlanned means what its name says, down to the leaves, for as long
\* as the children exist.
PlannedIsDeep ==
    \A n \in Nodes : snap[n].planned =>
        /\ snap[n].phase \in {"Planned", "Finished", "Failed"}
        /\ \A c \in snap[n].declared : snap[c].planned

\* The latched requests are done: the checkpoint had been handed over and the
\* data published before the request was deleted.
ReapedIsDurable ==
    \A n \in Nodes :
        /\ snap[n].captured => mcp[n] \in {"owned", "damaged", "gone"} /\ content[n].named
        /\ snap[n].dataCaptured => content[n].data
        /\ Alive(n) /\ snap[n].req /\ mcr[n] = "none" => snap[n].captured

\* The manifest leg of the snapshot n as CaptureLeg sees it: its request is
\* open from the start, before it is placed, and gone once it was deleted.
LegRequest(n) ==
    IF snap[n].req /\ mcr[n] = "none" THEN "gone"
    ELSE IF mcp[n] = "failed" THEN "failed"
    ELSE "open"
LegCopy(n) == IF mcp[n] \in {"ready", "owned"} THEN "copy" ELSE "none"
LegOwner(n) == IF mcp[n] = "owned" THEN "content" ELSE "keeper"

Leg(n) == INSTANCE CaptureLeg WITH
    Copies <- {"copy"}, Nothing <- "none",
    request <- LegRequest(n), copy <- LegCopy(n), owner <- LegOwner(n),
    captured <- snap[n].captured

\* Nobody deleted the snapshot n, and its checkpoint was not lost.
Undisturbed(n) == snap[n].ex # "gone" /\ mcp[n] \notin {"damaged", "gone"}

\* The manifest leg of an undisturbed snapshot takes the steps of CaptureLeg,
\* which ManifestCapture implements call by call: a copy is handed over while
\* its request is open, latched after that, and no request goes before.
LegsAreCaptureLegs ==
    [][\A n \in Nodes : Undisturbed(n) /\ Undisturbed(n)'
                           => [Leg(n)!LegNext]_(Leg(n)!legVars)]_vars

Settled(n) == snap[n].ex = "gone" \/ snap[n].ready \in {"Completed", "Failed", "Lost", "Deleted"}

\* Every capture that loses no artifact ends: the root snapshot is Ready,
\* terminal or deleted, and stays so.  (A checkpoint lost between its handoff
\* and the manifestCaptured latch is waited for without end.)
TreeSettles == [](losses = 0) => <>[]Settled(Root)

\* A lost checkpoint or volume artifact takes the Ready of the root down for
\* good, from wherever in the tree and whenever it is lost.
ArtifactLost(n) == mcp[n] = "gone" \/ (content[n].data /\ vsc[n] = "gone")
LossSurfaces ==
    \A n \in Nodes :
        [](ArtifactLost(n) => <>[](snap[Root].ready # "Completed"))

\* A content that failed over a lost artifact never looks Ready again.
LossIsFinal ==
    [][\A n \in Nodes : ArtifactLost(n) /\ content[n].ready = "Failed"
                          => content'[n].ready # "Completed"]_vars

\* The deletion of a captured child of a captured, live snapshot shows on the
\* owner's Ready.  (Before the owner's own persist latch it does not: the
\* owner then waits for the link of the deleted child, without end.)
ChildDeleted(n) ==
    /\ Alive(n) /\ ownerDomainCaptureAtLeastPlanned(snap[n].phase)
    /\ content[n].persisted
    /\ \E c \in snap[n].declared : snap[c].ex = "gone" /\ content[c].ready = "Completed"
DeletionSurfaces ==
    \A n \in Nodes :
        ChildDeleted(n) ~> (~Alive(n) \/ snap[n].ready \in {"Deleted", "Lost", "Failed"})
=============================================================================
