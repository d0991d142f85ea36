--------------------------- MODULE NamespacePlan ---------------------------
(***************************************************************************)
(* How the root Snapshot of a namespace decides what it consists of.       *)
(*                                                                         *)
(* A pass of the root's controller plans the domain children, weight layer *)
(* by weight layer, creates and publishes them, covers the volumes nobody  *)
(* claimed with VolumeSnapshots (the orphan wave) and freezes the set      *)
(* (phase Planned).  When every member has persisted its manifests it asks *)
(* for the rest of the namespace with one ManifestCaptureRequest.          *)
(*                                                                         *)
(* The namespace changes meanwhile: objects come and go, children plan     *)
(* their own subtrees, fail or are deleted, and a pass may stop between    *)
(* any two of its writes.  A node of the tree is the snapshot of an object *)
(* under a parent; its name is derived from the two.                       *)
(***************************************************************************)
EXTENDS Naturals, FiniteSets

CONSTANTS Sources,     \* objects some CustomSnapshotDefinition maps
          PVCs,        \* PersistentVolumeClaims of the namespace
          Weight,      \* weight of the definition of a source
          Uses,        \* sources the snapshot of a source takes as children
          Claim,       \* PVCs a source's snapshot captures the data of
          Vetoed,      \* objects with the exclude label
          Classless,   \* PVCs without a usable VolumeSnapshotClass
          Beginnings,  \* what the namespace may hold when the root is created
          MaxFailures, \* bound: children that have failed at a time
          MaxVanished, \* bound: child snapshots deleted by users
          MaxChanges,  \* bound: objects created or deleted by users
          MaxAborts,   \* bound: passes that stop half way
          Nothing      \* no request, no checkpoint

Objects == Sources \cup PVCs
Layers == {Weight[s] : s \in Sources}

\* The tree is two levels deep: a source used by another uses none itself.
ASSUME PlanAssumption ==
    /\ IsFiniteSet(Sources) /\ IsFiniteSet(PVCs) /\ Sources \cap PVCs = {}
    /\ Sources \cap {"root", "wave"} = {}
    /\ \A T \in SUBSET Objects : T # Nothing
    /\ Weight \in [Sources -> Nat \ {0}]
    /\ Uses \in [Sources -> SUBSET Sources]
    /\ \A s \in Sources : \A d \in Uses[s] : Uses[d] = {}
    /\ Claim \in [Sources -> SUBSET PVCs]
    /\ Vetoed \subseteq Objects /\ Classless \subseteq PVCs
    /\ Beginnings \subseteq SUBSET Objects
    /\ MaxFailures \in Nat /\ MaxVanished \in Nat
    /\ MaxChanges \in Nat /\ MaxAborts \in Nat

\* A snapshot: "root" plans the domain children, "wave" the orphan
\* VolumeSnapshots (both are the root's), a source its own children.
Planned == {[by |-> "root", of |-> s] : s \in Sources}
Wave == {[by |-> "wave", of |-> p] : p \in PVCs}
Nodes == Planned \cup Wave
            \cup UNION {{[by |-> s, of |-> d] : d \in Uses[s]} : s \in Sources}

VARIABLES live,      \* the objects in the namespace
          late,      \* history: the ones created after the root Snapshot
          gone,      \* history: the ones deleted (a new one has a new name)
          st,        \* what a snapshot has reached
          kids,      \* status.childrenSnapshotRefs of a domain snapshot
          bad,       \* snapshots with a terminal failure
          phase,     \* phase of the root
          term,      \* Ready of the root carries a terminal reason
          refs,      \* status.childrenSnapshotRefs of the root
          mcr,       \* targets of the root's ManifestCaptureRequest
          seen,      \* the informer cache shows the request
          named,     \* manifestCaptureRequestName is published
          mcp,       \* what the root's ManifestCheckpoint holds
          captured,  \* commonController.manifestCaptured
          orphanFailed, \* history: the orphan wave hit a terminal failure
          pass,      \* where the pass is and what it carries
          changes, vanished, aborts

world == <<live, late, gone, st, kids, bad, changes, vanished>>
root == <<phase, term, refs>>
leg == <<mcr, seen, named, mcp, captured>>
vars == <<world, root, leg, orphanFailed, pass, aborts>>

\* A pass carries its layer, the children it wants (want), whether all layers
\* are planned, and the targets of the orphan wave or of the request (plan).
Pass ==
    [pc : {"start", "children", "publish", "wave", "volumes", "declare", "freeze",
           "request", "create", "name"},
     layer : Nat \ {0}, want : SUBSET Nodes, all : BOOLEAN, plan : SUBSET Objects]
Idle == [pc |-> "start", layer |-> 1, want |-> {}, all |-> FALSE, plan |-> {}]

TypeOK ==
    /\ live \subseteq Objects /\ late \subseteq Objects /\ gone \subseteq Objects \ live
    /\ st \in [Nodes -> {"none", "planning", "planned", "sub", "captured"}]
    /\ kids \in [Nodes -> SUBSET Nodes]
    /\ bad \subseteq Nodes
    /\ phase \in {"Planning", "Planned", "Finished", "Failed"}
    /\ term \in BOOLEAN /\ refs \subseteq Nodes
    /\ mcr \in {Nothing} \cup SUBSET Objects /\ mcp \in {Nothing} \cup SUBSET Objects
    /\ seen \in BOOLEAN /\ named \in BOOLEAN /\ captured \in BOOLEAN
    /\ orphanFailed \in BOOLEAN
    /\ pass \in Pass
    /\ changes \in 0..MaxChanges /\ vanished \in 0..MaxVanished /\ aborts \in 0..MaxAborts

(***************************************************************************)
(* The tree as the readers see it.                                         *)
(***************************************************************************)
childCaptureAtLeastPlanned(n) == st[n] \in {"planned", "sub", "captured"}
childSubtreePlanned(n) == st[n] \in {"sub", "captured"}

\* The root's tree: its children and theirs.
Tree(r) == r \cup UNION {kids[n] : n \in r}

\* What a snapshot captures: the object and the claims whose data it holds.
volumesOf(n) == IF n.of \in PVCs THEN {n.of} ELSE Claim[n.of]
manifestsOf(n) == {n.of} \cup volumesOf(n)

\* Sources covered by the children planned so far in this pass and by what
\* those publish as their own children.
IsCovered(s, want) == \E n \in Tree(want) : n.of = s /\ st[n] # "none"

\* The children a layer adds: its live sources, not vetoed and not covered.
planParentOwnedChildGraphLayer(layer, want) ==
    {n \in Planned : /\ n.of \in live \ Vetoed
                     /\ Weight[n.of] = layer
                     /\ ~IsCovered(n.of, want)}

NeverLost(want) == FALSE

\* A published child the plan no longer wants and that is gone.
detectLostDomainChildrenPrePlanned(want) ==
    \E n \in (refs \ Wave) \ want : st[n] = "none"

\* Whether the volumes covered by the tree can be told: a missing domain child
\* or one that does not name its volume yet keeps the answer open; a missing
\* VolumeSnapshot is skipped, the wave makes it again.
Counted == {n \in Tree(refs) : ~(n \in Wave /\ st[n] = "none")}
coverageKnown ==
    \A n \in Counted : /\ st[n] # "none"
                       /\ volumesOf(n) # {} => childCaptureAtLeastPlanned(n)
ErrDuplicateCoveredPVCUID ==
    \E n, k \in {n \in Counted : childCaptureAtLeastPlanned(n)} :
        n # k /\ volumesOf(n) \cap volumesOf(k) # {}
ClaimsOfSources == UNION {Claim[s] : s \in live \cap Sources}

CollectSubtreeCoveredPVCUIDsFromSnapshot == UNION {volumesOf(n) : n \in Counted}

\* Volumes of the namespace that nobody covers.
ListNamespacePVCTargets == PVCs \cap live
listResidualRootOwnedPVCTargets ==
    (ListNamespacePVCTargets \ Vetoed) \ CollectSubtreeCoveredPVCUIDsFromSnapshot

\* Every member has bound its content and persisted its manifests.
subtreePersisted == \A n \in Tree(refs) : st[n] = "captured"
SubtreeManifestIdentities == UNION {manifestsOf(n) : n \in Tree(refs)}

\* The root's own manifests: the namespace without what the exclude label and
\* the subtree take out, and without the volumes the orphan wave stands for.
BuildManifestCaptureTargets == live \ Vetoed
BuildRootNamespaceManifestCaptureTargets ==
    (BuildManifestCaptureTargets \ listResidualRootOwnedPVCTargets) \ SubtreeManifestIdentities

(***************************************************************************)
(* The root's pass before the set is frozen.                               *)
(***************************************************************************)
Init ==
    /\ live \in Beginnings
    /\ late = {} /\ gone = {}
    /\ st = [n \in Nodes |-> "none"]
    /\ kids = [n \in Nodes |-> {}]
    /\ bad = {}
    /\ phase = "Planning" /\ term = FALSE /\ refs = {}
    /\ mcr = Nothing /\ mcp = Nothing
    /\ seen = FALSE /\ named = FALSE /\ captured = FALSE
    /\ orphanFailed = FALSE
    /\ pass = Idle
    /\ changes = 0 /\ vanished = 0 /\ aborts = 0

\* One layer: list, cover, and wait until the layer's children are planned.  A
\* failed child or, after the last layer, a lost one fails the root for good.
PlanLayer ==
    /\ phase = "Planning" /\ pass.pc = "start"
    /\ LET found == planParentOwnedChildGraphLayer(pass.layer, pass.want)
           want == pass.want \cup found
           ready == \A n \in found : childCaptureAtLeastPlanned(n)
           last == \A l \in Layers : l <= pass.layer
           terminal == \/ found \cap bad # {}
                       \/ ready /\ last /\ detectLostDomainChildrenPrePlanned(want)
       IN \/ /\ terminal
             /\ phase' = "Failed" /\ pass' = Idle
          \/ /\ ~terminal /\ ready /\ ~last
             /\ pass' = [pass EXCEPT !.layer = @ + 1, !.want = want]
             /\ UNCHANGED phase
          \/ /\ ~terminal /\ (ready => last)
             /\ pass' = [pass EXCEPT !.pc = "children", !.want = want, !.all = ready]
             /\ UNCHANGED phase
    /\ UNCHANGED <<world, term, refs, leg, orphanFailed, aborts>>

\* Listing a mapped kind is forbidden: what was planned so far is created.
SourceListForbidden ==
    /\ phase = "Planning" /\ pass.pc = "start" /\ aborts < MaxAborts
    /\ pass' = [pass EXCEPT !.pc = "children"]
    /\ aborts' = aborts + 1
    /\ UNCHANGED <<world, root, leg, orphanFailed>>

\* A created child starts planning; one that exists is adopted.
Create(ns) == st' = [n \in Nodes |-> IF n \in ns /\ st[n] = "none" THEN "planning" ELSE st[n]]

EnsureChildren ==
    /\ pass.pc = "children"
    /\ Create(pass.want)
    /\ pass' = [pass EXCEPT !.pc = "publish"]
    /\ UNCHANGED <<live, late, gone, kids, bad, changes, vanished, root, leg, orphanFailed, aborts>>

\* The union is published: refs are added, never removed.
PublishChildren ==
    /\ pass.pc = "publish"
    /\ refs' = refs \cup pass.want
    /\ pass' = IF pass.all THEN [Idle EXCEPT !.pc = "wave"] ELSE Idle
    /\ UNCHANGED <<world, phase, term, leg, orphanFailed, aborts>>

\* The orphan wave waits for every declared child's whole subtree.  A volume
\* covered twice is written on Ready alone and the pass goes on to the freeze.
ensureOrphanVolumeSnapshotsPrePlanned ==
    /\ pass.pc = "wave"
    /\ LET gate == \A n \in refs \ Wave : childSubtreePlanned(n)
       IN \/ /\ ~gate \/ ~coverageKnown
             /\ pass' = Idle
             /\ UNCHANGED <<orphanFailed, term>>
          \/ /\ gate /\ ErrDuplicateCoveredPVCUID
             /\ orphanFailed' = TRUE /\ term' = TRUE
             /\ pass' = [Idle EXCEPT !.pc = "freeze"]
          \/ /\ gate /\ coverageKnown /\ ~ErrDuplicateCoveredPVCUID
             /\ pass' = [Idle EXCEPT !.pc = "volumes", !.plan = listResidualRootOwnedPVCTargets]
             /\ UNCHANGED <<orphanFailed, term>>
    /\ UNCHANGED <<world, phase, refs, leg, aborts>>

\* From the claim to its class; a claim that is gone has none either.
orphanPVCVolumeSnapshotClass(p) == p \in live \ Classless

\* One claim without a class is terminal: no VolumeSnapshot at all is created
\* and the pass goes on.
ensureOrphanPVCVolumeSnapshots ==
    /\ pass.pc = "volumes"
    /\ \/ /\ \A p \in pass.plan : orphanPVCVolumeSnapshotClass(p)
          /\ Create({n \in Wave : n.of \in pass.plan})
          /\ pass' = [pass EXCEPT !.pc = "declare"]
          /\ UNCHANGED <<orphanFailed, term>>
       \/ /\ \E p \in pass.plan : ~orphanPVCVolumeSnapshotClass(p)
          /\ orphanFailed' = TRUE /\ term' = TRUE
          /\ pass' = [Idle EXCEPT !.pc = "freeze"]
          /\ UNCHANGED st
    /\ UNCHANGED <<live, late, gone, kids, bad, changes, vanished, phase, refs, leg, aborts>>

DeclareVolumeSnapshots ==
    /\ pass.pc = "declare"
    /\ refs' = refs \cup {n \in Wave : n.of \in pass.plan}
    /\ pass' = [Idle EXCEPT !.pc = "freeze"]
    /\ UNCHANGED <<world, phase, term, leg, orphanFailed, aborts>>

MarkPlanned ==
    /\ pass.pc = "freeze"
    /\ phase' = "Planned"
    /\ pass' = Idle
    /\ UNCHANGED <<world, term, refs, leg, orphanFailed, aborts>>

(***************************************************************************)
(* The manifest leg, after the freeze.                                     *)
(***************************************************************************)
NeededUntilCaptured == ~captured

ManifestCaptureNeeded == ~captured /\ ~named

LegWithoutDuplicateCheck ==
    /\ phase = "Planned" /\ pass.pc = "start"
    /\ ManifestCaptureNeeded
    /\ subtreePersisted
    /\ pass' = [Idle EXCEPT !.pc = "request", !.plan = BuildRootNamespaceManifestCaptureTargets]
    /\ UNCHANGED <<world, root, leg, orphanFailed, aborts>>

\* The targets are computed from the live namespace once the root's content is
\* bound and the whole subtree is persisted (one wait for both here).
reconcileNamespaceManifestLeg ==
    /\ phase = "Planned" /\ pass.pc = "start"
    /\ ManifestCaptureNeeded
    /\ subtreePersisted /\ ~ErrDuplicateCoveredPVCUID
    /\ pass' = [Idle EXCEPT !.pc = "request", !.plan = BuildRootNamespaceManifestCaptureTargets]
    /\ UNCHANGED <<world, root, leg, orphanFailed, aborts>>

\* A volume covered twice is written on Ready and the pass goes on to barrier 2
\* with the Ready it has read: the root fails once a pass reads its own report.
failCapture ==
    /\ phase = "Planned" /\ pass.pc = "start"
    /\ ManifestCaptureNeeded
    /\ subtreePersisted /\ ErrDuplicateCoveredPVCUID
    /\ phase' = IF term THEN "Failed" ELSE phase
    /\ term' = TRUE
    /\ UNCHANGED <<world, refs, leg, orphanFailed, pass, aborts>>

\* Suppressed by the latch; otherwise the request is looked up in the cache and,
\* when it is not there, the latch is read again from the API server.
EnsureManifestCapture ==
    /\ pass.pc = "request"
    /\ pass' = IF captured THEN Idle
               ELSE [pass EXCEPT !.pc = IF seen THEN "name" ELSE "create"]
    /\ UNCHANGED <<world, root, leg, orphanFailed, aborts>>

\* An existing request is adopted with the targets it was created with.
CreateManifestCaptureRequest ==
    /\ pass.pc = "create"
    /\ mcr' = IF mcr = Nothing THEN pass.plan ELSE mcr
    /\ pass' = [Idle EXCEPT !.pc = "name"]
    /\ UNCHANGED <<world, root, seen, named, mcp, captured, orphanFailed, aborts>>

PublishRequestName ==
    /\ pass.pc = "name"
    /\ named' = TRUE
    /\ pass' = Idle
    /\ UNCHANGED <<world, root, mcr, seen, mcp, captured, orphanFailed, aborts>>

\* Barrier 2: the leg is captured; a terminal Ready wins over it.
Finish ==
    /\ phase = "Planned" /\ pass.pc = "start" /\ captured
    /\ phase' = IF term THEN "Failed" ELSE "Finished"
    /\ UNCHANGED <<world, term, refs, leg, orphanFailed, pass, aborts>>

\* A failed write or a restart ends the pass; the next one starts afresh.
Abort ==
    /\ pass # Idle /\ aborts < MaxAborts
    /\ pass' = Idle
    /\ aborts' = aborts + 1
    /\ UNCHANGED <<world, root, leg, orphanFailed>>

(***************************************************************************)
(* The binder, the content controller and the capture executor, as far as  *)
(* the root sees them.                                                     *)
(***************************************************************************)
CacheFollows ==
    /\ seen # (mcr # Nothing)
    /\ seen' = ~seen
    /\ UNCHANGED <<world, root, mcr, named, mcp, captured, orphanFailed, pass, aborts>>

\* The content's Ready is written over the root's: terminal once a frozen member
\* has failed or is lost, never for what the root itself has found out.
mirrorReadyToOwnerSnapshot ==
    /\ phase # "Failed"
    /\ term' = (phase # "Planning" /\ \E n \in Tree(refs) : n \in bad \/ st[n] = "none")
    /\ term' # term
    /\ UNCHANGED <<world, phase, refs, leg, orphanFailed, pass, aborts>>

ExecuteRequest ==
    /\ mcr # Nothing /\ mcp = Nothing
    /\ mcp' = mcr
    /\ UNCHANGED <<world, root, mcr, seen, named, captured, orphanFailed, pass, aborts>>

\* The latch is set once the checkpoint of the published request is durable,
\* and only then is the request removed.
LatchManifestCaptured ==
    /\ named /\ mcp # Nothing /\ ~captured
    /\ captured' = TRUE
    /\ UNCHANGED <<world, root, mcr, seen, named, mcp, orphanFailed, pass, aborts>>

ReapRequest ==
    /\ captured /\ mcr # Nothing
    /\ mcr' = Nothing
    /\ UNCHANGED <<world, root, seen, named, mcp, captured, orphanFailed, pass, aborts>>

(***************************************************************************)
(* The domains' controllers and the users of the namespace.                *)
(***************************************************************************)
\* A domain plans from the live object: it creates and publishes its own
\* children and names the volume it captures, then marks itself Planned.
DomainPlans(n) ==
    /\ st[n] = "planning" /\ n \notin bad /\ n.of \in live
    /\ LET ks == {k \in Nodes : k.by = n.of /\ n.by = "root" /\ k.of \in live \ Vetoed}
       IN /\ kids' = [kids EXCEPT ![n] = ks]
          /\ st' = [k \in Nodes |-> IF k = n THEN "planned"
                                    ELSE IF k \in ks THEN "planning" ELSE st[k]]
    /\ UNCHANGED <<live, late, gone, bad, changes, vanished, root, leg, orphanFailed, pass, aborts>>

\* The recursive latch subtreePlanned of the content controller.
LatchSubtreePlanned(n) ==
    /\ st[n] = "planned" /\ \A k \in kids[n] : childSubtreePlanned(k)
    /\ st' = [st EXCEPT ![n] = "sub"]
    /\ UNCHANGED <<live, late, gone, kids, bad, changes, vanished, root, leg, orphanFailed, pass, aborts>>

PersistManifests(n) ==
    /\ st[n] = "sub"
    /\ st' = [st EXCEPT ![n] = "captured"]
    /\ UNCHANGED <<live, late, gone, kids, bad, changes, vanished, root, leg, orphanFailed, pass, aborts>>

ChildFails(n) ==
    /\ st[n] # "none" /\ n \notin bad
    /\ Cardinality(bad) < MaxFailures
    /\ bad' = bad \cup {n}
    /\ UNCHANGED <<live, late, gone, st, kids, changes, vanished, root, leg, orphanFailed, pass, aborts>>

\* A user deletes a child snapshot; its own children go with it.  What a frozen
\* member has persisted survives its snapshot (ContentTree).
ChildVanishes(n) ==
    /\ st[n] # "none"
    /\ phase = "Planning" \/ (phase = "Planned" /\ st[n] # "captured")
    /\ vanished < MaxVanished /\ vanished' = vanished + 1
    /\ st' = [k \in Nodes |-> IF k = n \/ k \in kids[n] THEN "none" ELSE st[k]]
    /\ kids' = [kids EXCEPT ![n] = {}]
    /\ bad' = bad \ ({n} \cup kids[n])
    /\ UNCHANGED <<live, late, gone, changes, root, leg, orphanFailed, pass, aborts>>

ObjectAppears(o) ==
    /\ o \notin live \cup gone /\ changes < MaxChanges
    /\ live' = live \cup {o} /\ late' = late \cup {o}
    /\ changes' = changes + 1
    /\ UNCHANGED <<gone, st, kids, bad, vanished, root, leg, orphanFailed, pass, aborts>>

ObjectGoes(o) ==
    /\ o \in live /\ changes < MaxChanges
    /\ live' = live \ {o} /\ gone' = gone \cup {o}
    /\ changes' = changes + 1
    /\ UNCHANGED <<late, st, kids, bad, vanished, root, leg, orphanFailed, pass, aborts>>

RootSteps ==
    \/ PlanLayer \/ EnsureChildren \/ PublishChildren
    \/ ensureOrphanVolumeSnapshotsPrePlanned \/ ensureOrphanPVCVolumeSnapshots
    \/ DeclareVolumeSnapshots \/ MarkPlanned
    \/ reconcileNamespaceManifestLeg \/ failCapture \/ EnsureManifestCapture
    \/ CreateManifestCaptureRequest \/ PublishRequestName \/ Finish

CoreSteps == CacheFollows \/ mirrorReadyToOwnerSnapshot \/ ExecuteRequest \/ LatchManifestCaptured \/ ReapRequest

NodeSteps(n) == DomainPlans(n) \/ LatchSubtreePlanned(n) \/ PersistManifests(n)

Next ==
    \/ RootSteps \/ CoreSteps
    \/ SourceListForbidden \/ Abort
    \/ \E n \in Nodes : NodeSteps(n) \/ ChildFails(n) \/ ChildVanishes(n)
    \/ \E o \in Objects : ObjectAppears(o) \/ ObjectGoes(o)

Spec == Init /\ [][Next]_vars

\* Every controller's queue is served; users and failures owe nothing.
FairSpec ==
    /\ Spec
    /\ WF_vars(RootSteps)
    /\ WF_vars(ExecuteRequest) /\ WF_vars(LatchManifestCaptured)
    /\ \A n \in Nodes : WF_vars(NodeSteps(n))

(***************************************************************************)
(* Properties.                                                             *)
(***************************************************************************)
\* A member holds the data of a volume; the manifest of any other object may
\* also be in the root's own checkpoint.
Captured(o) ==
    \/ \E n \in Tree(refs) : st[n] = "captured" /\ o \in manifestsOf(n)
    \/ o \in Sources /\ mcp # Nothing /\ o \in mcp

\* A finished root holds every object that was there from the beginning and is
\* still there, unless its orphan wave met a terminal failure: what a layer leaves
\* out as covered, what the wave leaves to a child and what the request leaves to
\* the subtree is captured by somebody.  Nothing with the exclude label is a member
\* or asked for (a domain may still take the data of a claim of its object).
NothingIsLost ==
    phase = "Finished" /\ ~orphanFailed =>
        /\ \A o \in (live \ late) \ Vetoed : Captured(o)
        /\ \A n \in Tree(refs) : n.of \notin Vetoed
        /\ mcp \cap Vetoed = {}

\* The comment on BuildRootNamespaceManifestCaptureTargets: every residual claim
\* goes through the orphan wave, "so dropping them here never loses a manifest".
DroppedIsNeverLost ==
    phase = "Finished" =>
        \A o \in (live \ late) \ Vetoed : Captured(o) \/ o \in mcp

\* The data of a volume is captured by one member of a finished root: neither a
\* source that appears while the layers are planned nor a volume claimed after
\* its VolumeSnapshot was made leaves two.
VolumeIsCapturedOnce ==
    phase = "Finished" =>
        \A n, k \in Tree(refs) : st[n] # "none" /\ st[k] # "none" /\ n # k
                                  => volumesOf(n) \cap volumesOf(k) = {}

\* The root ends Finished or Failed, unless a volume is covered twice or a
\* published child cannot end itself: it failed or its object is gone, or it was
\* deleted after the freeze or below another domain's snapshot.
Stuck(n) ==
    /\ st[n] # "captured"
    /\ IF st[n] = "none" THEN n \notin refs \/ phase = "Planned"
                          ELSE n \in bad \/ n.of \notin live

RootEnds ==
    <>[](\/ phase \in {"Finished", "Failed"}
         \/ ErrDuplicateCoveredPVCUID
         \/ \E n \in Tree(refs) : Stuck(n))

\* The root is a point-in-time snapshot (PointInTime): members are declared
\* before the freeze only, one request is decided after it, and the checkpoint
\* holds that request's targets, whatever passes, caches and retries do.
PIT == INSTANCE PointInTime
         WITH Members <- Nodes, Things <- Objects,
              stage <- CASE phase = "Planning" -> "open" [] phase = "Planned" -> "frozen"
                         [] phase = "Finished" -> "done" [] OTHER -> "failed",
              members <- refs, request <- mcr, result <- mcp
IsPointInTime == PIT!PitSpec
=============================================================================
