------------------------ MODULE NamespacePlanProofs ------------------------
(***************************************************************************)
(* Proofs about NamespacePlan, for every namespace, every set of weights,  *)
(* claims and vetoes, and any number of changes, failures and aborts.      *)
(***************************************************************************)
EXTENDS NamespacePlan, TLAPS

\* A node is known by its parent and its object.
LEMMA NodeFacts ==
    /\ Planned = {n \in Nodes : n.by = "root"}
    /\ Wave = {n \in Nodes : n.by = "wave"}
    /\ \A n \in Nodes : n.of \in Objects
    /\ \A n \in Nodes : n.of \in PVCs <=> n \in Wave
    /\ \A m, n \in Nodes : m.by = n.by /\ m.of = n.of => m = n
    /\ \A p \in PVCs : [by |-> "wave", of |-> p] \in Wave
BY PlanAssumption DEF Planned, Wave, Nodes, Objects

\* What a node captures are objects of the namespace, its volumes are claims.
LEMMA NodeObjects ==
    ASSUME NEW n \in Nodes
    PROVE  /\ volumesOf(n) \subseteq PVCs
           /\ manifestsOf(n) \subseteq Objects
           /\ n.of \in manifestsOf(n)
BY NodeFacts, PlanAssumption DEF volumesOf, manifestsOf, Objects

-----------------------------------------------------------------------------
(* Type correctness. *)

\* A pass that begins has its type.
LEMMA IdleType ==
    Idle \in Pass /\ Idle.pc = "start" /\ Idle.layer = 1 /\ Idle.want = {} /\ Idle.plan = {}
<1>1. Idle \in Pass
  BY DEF Idle, Pass
<1>2. QED
  BY <1>1 DEF Idle

\* The initial state is well typed.
LEMMA TypeInit == Init => TypeOK
<1> SUFFICES ASSUME Init PROVE TypeOK
  OBVIOUS
<1>1. live \subseteq Objects
  BY PlanAssumption DEF Init
<1>2. changes \in 0..MaxChanges /\ vanished \in 0..MaxVanished /\ aborts \in 0..MaxAborts
  BY PlanAssumption DEF Init
<1>3. QED
  BY <1>1, <1>2, IdleType DEF Init, TypeOK

\* A layer fails the root, or adds to what the pass wants.
LEMMA PlanLayerMoves ==
    ASSUME TypeOK, PlanLayer
    PROVE  LET found == planParentOwnedChildGraphLayer(pass.layer, pass.want)
           IN /\ phase = "Planning" /\ pass.pc = "start"
              /\ UNCHANGED <<world, term, refs, leg, orphanFailed, aborts>>
              /\ \/ phase' = "Failed" /\ pass' = Idle
                 \/ /\ phase' = phase /\ pass' \in Pass
                    /\ pass'.pc \in {"start", "children"}
                    /\ pass'.want = pass.want \cup found
                    /\ pass'.plan = pass.plan
<1> DEFINE found == planParentOwnedChildGraphLayer(pass.layer, pass.want)
           want == pass.want \cup found
           ready == \A n \in found : childCaptureAtLeastPlanned(n)
           deeper == [pass EXCEPT !.layer = @ + 1, !.want = want]
           ends == [pass EXCEPT !.pc = "children", !.want = want, !.all = ready]
<1>1. found \subseteq Nodes /\ ready \in BOOLEAN
  BY NodeFacts DEF planParentOwnedChildGraphLayer
<1>2. /\ phase = "Planning" /\ pass.pc = "start"
      /\ UNCHANGED <<world, term, refs, leg, orphanFailed, aborts>>
      /\ \/ phase' = "Failed" /\ pass' = Idle
         \/ phase' = phase /\ pass' \in {deeper, ends}
  BY DEF PlanLayer
<1>3. pass \in Pass /\ want \in SUBSET Nodes /\ pass.layer + 1 \in Nat \ {0}
  BY <1>1 DEF TypeOK, Pass
<1> HIDE DEF found, ready, want
<1>4. deeper \in Pass /\ deeper.pc = pass.pc /\ deeper.want = want /\ deeper.plan = pass.plan
  BY <1>3 DEF Pass
<1>5. ends \in Pass /\ ends.pc = "children" /\ ends.want = want /\ ends.plan = pass.plan
  BY <1>1, <1>3 DEF Pass
<1>6. QED
  BY <1>2, <1>4, <1>5 DEF found, want

\* Every step keeps the types.
LEMMA TypeStep == TypeOK /\ [Next]_vars => TypeOK'
<1> SUFFICES ASSUME TypeOK, [Next]_vars PROVE TypeOK'
  OBVIOUS
<1> USE IdleType DEF world, root, leg, Pass
<1>1. CASE PlanLayer
  BY <1>1, PlanLayerMoves DEF TypeOK
<1>2. CASE EnsureChildren
  BY <1>2 DEF EnsureChildren, Create, TypeOK
<1>3. CASE PublishChildren
  BY <1>3 DEF PublishChildren, TypeOK
<1>4. CASE ensureOrphanVolumeSnapshotsPrePlanned
  <2>1. listResidualRootOwnedPVCTargets \subseteq Objects
    BY DEF listResidualRootOwnedPVCTargets, ListNamespacePVCTargets, Objects
  <2>2. QED
    <3>1. pass' \in Pass
      <4> DEFINE plan == listResidualRootOwnedPVCTargets
      <4>1. pass' \in {Idle, [Idle EXCEPT !.pc = "freeze"],
                        [Idle EXCEPT !.pc = "volumes", !.plan = plan]}
        BY <1>4 DEF ensureOrphanVolumeSnapshotsPrePlanned
      <4> HIDE DEF plan
      <4>2. plan \in SUBSET Objects
        BY <2>1 DEF plan
      <4>3. /\ [Idle EXCEPT !.pc = "freeze"] \in Pass
            /\ [Idle EXCEPT !.pc = "volumes", !.plan = plan] \in Pass
        BY <4>2
      <4>4. QED
        BY <4>1, <4>3
    <3>2. orphanFailed' \in BOOLEAN /\ term' \in BOOLEAN
      BY <1>4 DEF ensureOrphanVolumeSnapshotsPrePlanned, TypeOK
    <3>3. QED
      BY <1>4, <3>1, <3>2 DEF ensureOrphanVolumeSnapshotsPrePlanned, TypeOK
<1>5. CASE ensureOrphanPVCVolumeSnapshots
  <2>1. pass' \in Pass
    BY <1>5 DEF ensureOrphanPVCVolumeSnapshots, TypeOK
  <2>2. orphanFailed' \in BOOLEAN /\ term' \in BOOLEAN
    BY <1>5 DEF ensureOrphanPVCVolumeSnapshots, TypeOK
  <2>3. st' \in [Nodes -> {"none", "planning", "planned", "sub", "captured"}]
    BY <1>5 DEF ensureOrphanPVCVolumeSnapshots, Create, TypeOK
  <2>4. QED
    BY <1>5, <2>1, <2>2, <2>3 DEF ensureOrphanPVCVolumeSnapshots, TypeOK
<1>6. CASE DeclareVolumeSnapshots
  BY <1>6, NodeFacts DEF DeclareVolumeSnapshots, TypeOK
<1>7. CASE MarkPlanned
  BY <1>7 DEF MarkPlanned, TypeOK
<1>8. CASE reconcileNamespaceManifestLeg
  <2>1. BuildRootNamespaceManifestCaptureTargets \subseteq Objects
    BY DEF BuildRootNamespaceManifestCaptureTargets, BuildManifestCaptureTargets, TypeOK
  <2>2. QED
    BY <1>8, <2>1 DEF reconcileNamespaceManifestLeg, TypeOK
<1>9. CASE failCapture
  BY <1>9 DEF failCapture, TypeOK
<1>10. CASE EnsureManifestCapture
  BY <1>10 DEF EnsureManifestCapture, TypeOK
<1>11. CASE CreateManifestCaptureRequest
  BY <1>11 DEF CreateManifestCaptureRequest, TypeOK
<1>12. CASE PublishRequestName
  BY <1>12 DEF PublishRequestName, TypeOK
<1>13. CASE Finish
  BY <1>13 DEF Finish, TypeOK
<1>14. CASE CoreSteps
  <2>1. CASE CacheFollows
    BY <2>1 DEF CacheFollows, TypeOK
  <2>2. CASE mirrorReadyToOwnerSnapshot
    BY <2>2 DEF mirrorReadyToOwnerSnapshot, TypeOK
  <2>3. CASE ExecuteRequest
    BY <2>3 DEF ExecuteRequest, TypeOK
  <2>4. CASE LatchManifestCaptured
    BY <2>4 DEF LatchManifestCaptured, TypeOK
  <2>5. CASE ReapRequest
    BY <2>5 DEF ReapRequest, TypeOK
  <2>6. QED
    BY <1>14, <2>1, <2>2, <2>3, <2>4, <2>5 DEF CoreSteps
<1>15. CASE SourceListForbidden
  BY <1>15, PlanAssumption DEF SourceListForbidden, TypeOK
<1>16. CASE Abort
  BY <1>16, PlanAssumption DEF Abort, TypeOK
<1>17. ASSUME NEW n \in Nodes, NodeSteps(n) PROVE TypeOK'
  <2>1. CASE DomainPlans(n)
    BY <2>1 DEF DomainPlans, TypeOK
  <2>2. CASE LatchSubtreePlanned(n) \/ PersistManifests(n)
    BY <2>2 DEF LatchSubtreePlanned, PersistManifests, TypeOK
  <2>3. QED
    BY <1>17, <2>1, <2>2 DEF NodeSteps
<1>18. ASSUME NEW n \in Nodes, ChildFails(n) \/ ChildVanishes(n) PROVE TypeOK'
  BY <1>18, PlanAssumption DEF ChildFails, ChildVanishes, TypeOK
<1>19. ASSUME NEW o \in Objects, ObjectAppears(o) \/ ObjectGoes(o) PROVE TypeOK'
  BY <1>19, PlanAssumption DEF ObjectAppears, ObjectGoes, TypeOK
<1>20. CASE UNCHANGED vars
  BY <1>20 DEF vars, TypeOK
<1>21. QED
  BY <1>1, <1>2, <1>3, <1>4, <1>5, <1>6, <1>7, <1>8, <1>9, <1>10, <1>11, <1>12, <1>13,
     <1>14, <1>15, <1>16, <1>17, <1>18, <1>19, <1>20 DEF Next, RootSteps

\* Every variable of the planner stays in its type, whatever the namespace, its
\* children and the passes do.
THEOREM TypeCorrect == Spec => []TypeOK
BY TypeInit, TypeStep, PTL DEF Spec

-----------------------------------------------------------------------------
(* The inductive invariant. *)

BeforeFreeze == {"children", "publish", "wave", "volumes", "declare", "freeze"}
AfterFreeze == {"request", "create", "name"}

\* A pass is where the phase lets it be, and before the name is published nobody
\* can have latched or reaped the request: the latch needs the name, the reaping
\* the latch.
InOrder ==
    /\ pass.pc \in BeforeFreeze => phase = "Planning"
    /\ pass.pc \in AfterFreeze => phase = "Planned"
    /\ pass.pc \in {"request", "create"} => ~named
    /\ phase = "Planning" => ~captured
    /\ captured => named /\ mcp # Nothing
    /\ mcp # Nothing /\ mcr = Nothing => captured
    /\ phase = "Finished" => captured

\* The root declares domain children and VolumeSnapshots, a domain its own
\* children, and nobody an object with the exclude label.
WellNamed ==
    /\ refs \subseteq Planned \cup Wave
    /\ pass.want \subseteq Planned
    /\ \A n \in Nodes : kids[n] \subseteq {k \in Nodes : k.by = n.of /\ n.by = "root"}
    /\ \A n \in refs \cup pass.want : n.of \notin Vetoed
    /\ \A n \in Nodes : \A k \in kids[n] : k.of \notin Vetoed
    /\ pass.plan \cap Vetoed = {}
    /\ mcr # Nothing => mcr \cap Vetoed = {}
    /\ mcp # Nothing => mcp \cap Vetoed = {}

\* Once the root's own manifests are asked for, the tree below it is captured
\* and no volume is in it twice.
Asked ==
    \/ pass.pc \in AfterFreeze
    \/ mcr # Nothing \/ mcp # Nothing
    \/ named \/ captured
TreeIsClosed ==
    /\ phase # "Planning"
    /\ \A n \in Tree(refs) : st[n] = "captured"
    /\ \A n, k \in Tree(refs) : n # k => volumesOf(n) \cap volumesOf(k) = {}
Closed == Asked => TreeIsClosed

\* What no member of the tree captures, of the sources that were always there, is
\* asked for, whichever pass computed the targets.
Missing ==
    {o \in Sources \cap ((live \ late) \ Vetoed) : \A n \in Tree(refs) : o \notin manifestsOf(n)}
TargetsAreComplete ==
    /\ pass.pc \in {"request", "create"} => Missing \subseteq pass.plan
    /\ mcr # Nothing => Missing \subseteq mcr
    /\ mcp # Nothing => Missing \subseteq mcp

\* From the orphan wave on every volume that was always there has a member, or
\* will have one when the wave is declared; a member that is lost meanwhile keeps
\* the root from finishing.
Frozen == pass.pc = "freeze" \/ phase \in {"Planned", "Finished"}
Gated == pass.pc \in {"volumes", "declare"} \/ Frozen
Uncovered ==
    {p \in PVCs \cap ((live \ late) \ Vetoed) : \A n \in Tree(refs) : p \notin volumesOf(n)}
Lost(ns) == \E n \in ns : st[n] = "none"
VolumesAreCovered ==
    /\ Gated => \A n \in refs \ Wave : st[n] \in {"none", "sub", "captured"}
    /\ pass.pc \in {"volumes", "declare"} => Lost(refs \ Wave) \/ Uncovered \subseteq pass.plan
    /\ Frozen /\ ~orphanFailed => Lost(refs) \/ Uncovered = {}

PlanInv == InOrder /\ WellNamed /\ Closed /\ TargetsAreComplete /\ VolumesAreCovered

\* The root begins with nothing declared and nothing asked for.
LEMMA PlanInvInit == Init => PlanInv
<1> SUFFICES ASSUME Init PROVE PlanInv
  OBVIOUS
<1> USE IdleType DEF Init
<1>1. InOrder
  BY DEF InOrder, BeforeFreeze, AfterFreeze
<1>2. WellNamed
  BY DEF WellNamed
<1>3. Closed
  BY DEF Closed, Asked, AfterFreeze
<1>4. TargetsAreComplete
  BY DEF TargetsAreComplete
<1>5. VolumesAreCovered
  BY DEF VolumesAreCovered, Gated, Frozen
<1>6. QED
  BY <1>1, <1>2, <1>3, <1>4, <1>5 DEF PlanInv

\* Whatever is asked for is asked for after the freeze.
LEMMA AskedAfterFreeze == Closed /\ Asked => phase # "Planning"
BY DEF Closed, TreeIsClosed

\* The pass, the name, the latch and the request keep their order.
LEMMA InOrderStep ==
    ASSUME TypeOK, InOrder, Closed, [Next]_vars
    PROVE  InOrder'
<1> USE IdleType DEF world, root, leg, InOrder, BeforeFreeze, AfterFreeze
<1>1. CASE PlanLayer
  BY <1>1, PlanLayerMoves
<1>2. CASE EnsureChildren
  BY <1>2 DEF EnsureChildren, TypeOK, Pass
<1>3. CASE PublishChildren
  BY <1>3 DEF PublishChildren, Pass
<1>4. CASE ensureOrphanVolumeSnapshotsPrePlanned
  BY <1>4 DEF ensureOrphanVolumeSnapshotsPrePlanned, Pass
<1>5. CASE ensureOrphanPVCVolumeSnapshots
  BY <1>5 DEF ensureOrphanPVCVolumeSnapshots, TypeOK, Pass
<1>6. CASE DeclareVolumeSnapshots
  BY <1>6 DEF DeclareVolumeSnapshots, Pass
<1>7. CASE MarkPlanned
  BY <1>7 DEF MarkPlanned
<1>8. CASE reconcileNamespaceManifestLeg
  BY <1>8 DEF reconcileNamespaceManifestLeg, ManifestCaptureNeeded, Pass
<1>9. CASE failCapture
  BY <1>9 DEF failCapture
<1>10. CASE EnsureManifestCapture
  BY <1>10 DEF EnsureManifestCapture, TypeOK, Pass
<1>11. CASE CreateManifestCaptureRequest
  <2>1. pass.plan # Nothing
    BY PlanAssumption DEF TypeOK, Pass
  <2>2. QED
    BY <1>11, <2>1 DEF CreateManifestCaptureRequest, Pass
<1>12. CASE PublishRequestName
  BY <1>12 DEF PublishRequestName
<1>13. CASE Finish
  BY <1>13 DEF Finish
<1>14. CASE CoreSteps
  <2>1. CASE LatchManifestCaptured
    BY <2>1, AskedAfterFreeze DEF LatchManifestCaptured, Asked
  <2>2. CASE CacheFollows \/ mirrorReadyToOwnerSnapshot \/ ExecuteRequest \/ ReapRequest
    BY <2>2 DEF CacheFollows, mirrorReadyToOwnerSnapshot, ExecuteRequest, ReapRequest
  <2>3. QED
    BY <1>14, <2>1, <2>2 DEF CoreSteps
<1>15. CASE SourceListForbidden
  BY <1>15 DEF SourceListForbidden, TypeOK, Pass
<1>16. CASE Abort
  BY <1>16 DEF Abort
<1>17. ASSUME NEW n \in Nodes, NodeSteps(n) \/ ChildFails(n) \/ ChildVanishes(n) PROVE InOrder'
  BY <1>17 DEF NodeSteps, DomainPlans, LatchSubtreePlanned, PersistManifests, ChildFails, ChildVanishes
<1>18. ASSUME NEW o \in Objects, ObjectAppears(o) \/ ObjectGoes(o) PROVE InOrder'
  BY <1>18 DEF ObjectAppears, ObjectGoes
<1>19. CASE UNCHANGED vars
  BY <1>19 DEF vars
<1>20. QED
  BY <1>1, <1>2, <1>3, <1>4, <1>5, <1>6, <1>7, <1>8, <1>9, <1>10, <1>11, <1>12, <1>13,
     <1>14, <1>15, <1>16, <1>17, <1>18, <1>19 DEF Next, RootSteps

\* Names and vetoes are respected by every step.
LEMMA WellNamedStep ==
    ASSUME TypeOK, WellNamed, [Next]_vars
    PROVE  WellNamed'
<1> USE IdleType, NodeFacts DEF world, root, leg
<1>1. CASE PlanLayer
  BY <1>1, PlanLayerMoves DEF WellNamed, planParentOwnedChildGraphLayer
<1>2. CASE EnsureChildren
  BY <1>2 DEF EnsureChildren, WellNamed, TypeOK, Pass
<1>3. CASE PublishChildren
  BY <1>3 DEF PublishChildren, WellNamed, TypeOK, Pass
<1>4. CASE ensureOrphanVolumeSnapshotsPrePlanned
  <2>1. pass'.want = {} /\ pass'.plan \cap Vetoed = {}
    BY <1>4 DEF ensureOrphanVolumeSnapshotsPrePlanned, listResidualRootOwnedPVCTargets, Pass
  <2>2. QED
    BY <1>4, <2>1 DEF ensureOrphanVolumeSnapshotsPrePlanned, WellNamed
<1>5. CASE ensureOrphanPVCVolumeSnapshots
  <2>1. pass'.want \in {{}, pass.want} /\ pass'.plan \in {{}, pass.plan}
    BY <1>5 DEF ensureOrphanPVCVolumeSnapshots, TypeOK, Pass
  <2>2. QED
    BY <1>5, <2>1 DEF ensureOrphanPVCVolumeSnapshots, WellNamed
<1>6. CASE DeclareVolumeSnapshots
  BY <1>6 DEF DeclareVolumeSnapshots, WellNamed, Pass
<1>7. CASE MarkPlanned
  BY <1>7 DEF MarkPlanned, WellNamed
<1>8. CASE reconcileNamespaceManifestLeg
  <2>1. pass'.want = {} /\ pass'.plan \cap Vetoed = {}
    BY <1>8 DEF reconcileNamespaceManifestLeg, BuildRootNamespaceManifestCaptureTargets,
                BuildManifestCaptureTargets, Pass
  <2>2. QED
    BY <1>8, <2>1 DEF reconcileNamespaceManifestLeg, WellNamed
<1>9. CASE failCapture \/ Finish
  BY <1>9 DEF failCapture, Finish, WellNamed
<1>10. CASE EnsureManifestCapture
  <2>1. pass'.want \in {{}, pass.want} /\ pass'.plan \in {{}, pass.plan}
    BY <1>10 DEF EnsureManifestCapture, TypeOK, Pass
  <2>2. QED
    BY <1>10, <2>1 DEF EnsureManifestCapture, WellNamed
<1>11. CASE CreateManifestCaptureRequest
  BY <1>11 DEF CreateManifestCaptureRequest, WellNamed, Pass
<1>12. CASE PublishRequestName
  BY <1>12 DEF PublishRequestName, WellNamed
<1>14. CASE CoreSteps
  BY <1>14 DEF CoreSteps, CacheFollows, mirrorReadyToOwnerSnapshot, ExecuteRequest,
               LatchManifestCaptured, ReapRequest, WellNamed
<1>15. CASE SourceListForbidden
  BY <1>15 DEF SourceListForbidden, WellNamed, TypeOK, Pass
<1>16. CASE Abort
  BY <1>16 DEF Abort, WellNamed
<1>17. ASSUME NEW n \in Nodes, NodeSteps(n) PROVE WellNamed'
  <2>1. CASE DomainPlans(n)
    BY <2>1 DEF DomainPlans, WellNamed, TypeOK
  <2>2. CASE LatchSubtreePlanned(n) \/ PersistManifests(n)
    BY <2>2 DEF LatchSubtreePlanned, PersistManifests, WellNamed
  <2>3. QED
    BY <1>17, <2>1, <2>2 DEF NodeSteps
<1>18. ASSUME NEW n \in Nodes, ChildFails(n) \/ ChildVanishes(n) PROVE WellNamed'
  BY <1>18 DEF ChildFails, ChildVanishes, WellNamed, TypeOK
<1>19. ASSUME NEW o \in Objects, ObjectAppears(o) \/ ObjectGoes(o) PROVE WellNamed'
  BY <1>19 DEF ObjectAppears, ObjectGoes, WellNamed
<1>20. CASE UNCHANGED vars
  BY <1>20 DEF vars, WellNamed
<1>21. QED
  BY <1>1, <1>2, <1>3, <1>4, <1>5, <1>6, <1>7, <1>8, <1>9, <1>10, <1>11, <1>12,
     <1>14, <1>15, <1>16, <1>17, <1>18, <1>19, <1>20 DEF Next, RootSteps

\* The children of a snapshot outside the tree are outside the tree: a name tells
\* whose child it is.
LEMMA Apart ==
    ASSUME TypeOK, WellNamed, NEW n \in Nodes, n \notin Tree(refs),
           NEW k \in Nodes, k.by = n.of, n.by = "root"
    PROVE  k \notin Tree(refs)
<1>1. n.of \in Sources
  BY NodeFacts DEF Planned
<1>2. k \notin refs
  BY <1>1, NodeFacts, PlanAssumption DEF WellNamed
<1>3. ASSUME NEW m \in refs, k \in kids[m] PROVE FALSE
  <2>1. m \in Nodes /\ k.by = m.of /\ m.by = "root"
    BY <1>3 DEF WellNamed, TypeOK
  <2>2. m = n
    BY <2>1, NodeFacts
  <2>3. QED
    BY <2>2, <1>3 DEF Tree
<1>4. QED
  BY <1>2, <1>3 DEF Tree

\* The tree is a set of nodes.
LEMMA TreeNodes ==
    ASSUME TypeOK PROVE Tree(refs) \subseteq Nodes /\ refs \subseteq Tree(refs)
BY DEF TypeOK, Tree

\* Once everything below the root is captured, nothing there changes any more:
\* no child is added, none is planned again and none is lost.
LEMMA ClosedStays ==
    ASSUME TypeOK, InOrder, WellNamed, TreeIsClosed, [Next]_vars
    PROVE  TreeIsClosed' /\ Tree(refs)' = Tree(refs)
<1> USE DEF world, root, leg
<1> DEFINE Kept == /\ phase' # "Planning" /\ refs' = refs
                   /\ \A n \in refs : kids'[n] = kids[n]
                   /\ \A n \in Tree(refs) : st'[n] = st[n]
<1>1. SUFFICES Kept
  <2>1. ASSUME Kept PROVE Tree(refs)' = Tree(refs)
    BY <2>1 DEF Tree
  <2>2. ASSUME Kept PROVE \A n \in Tree(refs) : st'[n] = "captured"
    BY <2>2 DEF TreeIsClosed
  <2>3. QED
    BY <1>1, <2>1, <2>2 DEF TreeIsClosed, volumesOf
<1>2. phase # "Planning" /\ \A n \in Tree(refs) : st[n] = "captured"
  BY DEF TreeIsClosed
<1>3. pass.pc \notin BeforeFreeze
  BY <1>2 DEF InOrder
<1>4. refs \subseteq Tree(refs) /\ Tree(refs) \subseteq Nodes
  BY TreeNodes
<1>5. ASSUME NEW n \in Nodes, DomainPlans(n) PROVE Kept
  <2> DEFINE ks == {k \in Nodes : k.by = n.of /\ n.by = "root" /\ k.of \in live \ Vetoed}
  <2>1. n \notin Tree(refs)
    BY <1>2, <1>5 DEF DomainPlans
  <2>2. \A k \in ks : k \notin Tree(refs)
    BY <2>1, Apart
  <2>3. kids' = [kids EXCEPT ![n] = ks] /\ refs' = refs /\ phase' = phase
    BY <1>5 DEF DomainPlans
  <2>4. \A k \in Nodes : k # n /\ k \notin ks => st'[k] = st[k]
    BY <1>5 DEF DomainPlans
  <2> HIDE DEF ks
  <2>5. QED
    BY <2>1, <2>2, <2>3, <2>4, <1>2, <1>4 DEF TypeOK
<1>6. ASSUME NEW n \in Nodes, LatchSubtreePlanned(n) \/ PersistManifests(n) PROVE Kept
  BY <1>2, <1>4, <1>6 DEF LatchSubtreePlanned, PersistManifests, TypeOK
<1>7. ASSUME NEW n \in Nodes, ChildVanishes(n) PROVE Kept
  <2>1. n \notin Tree(refs)
    BY <1>2, <1>7 DEF ChildVanishes
  <2>2. \A k \in kids[n] : k \notin Tree(refs)
    BY <2>1, Apart DEF WellNamed
  <2>3. QED
    BY <2>1, <2>2, <1>2, <1>4, <1>7 DEF ChildVanishes, TypeOK
<1>8. ASSUME NEW n \in Nodes, ChildFails(n) PROVE Kept
  BY <1>2, <1>8 DEF ChildFails
<1>9. ASSUME NEW o \in Objects, ObjectAppears(o) \/ ObjectGoes(o) PROVE Kept
  BY <1>2, <1>9 DEF ObjectAppears, ObjectGoes
<1>10. CASE PlanLayer
  BY <1>2, <1>10 DEF PlanLayer
<1>11. CASE EnsureChildren \/ PublishChildren \/ ensureOrphanVolumeSnapshotsPrePlanned
            \/ ensureOrphanPVCVolumeSnapshots \/ DeclareVolumeSnapshots \/ MarkPlanned
  BY <1>3, <1>11 DEF EnsureChildren, PublishChildren, ensureOrphanVolumeSnapshotsPrePlanned,
       ensureOrphanPVCVolumeSnapshots, DeclareVolumeSnapshots, MarkPlanned, BeforeFreeze
<1>12. CASE reconcileNamespaceManifestLeg \/ failCapture \/ Finish
  BY <1>2, <1>12 DEF reconcileNamespaceManifestLeg, failCapture, Finish
<1>13. CASE EnsureManifestCapture \/ CreateManifestCaptureRequest \/ PublishRequestName
  BY <1>2, <1>13 DEF EnsureManifestCapture, CreateManifestCaptureRequest, PublishRequestName
<1>14. CASE CoreSteps
  BY <1>2, <1>14 DEF CoreSteps, CacheFollows, mirrorReadyToOwnerSnapshot, ExecuteRequest,
                     LatchManifestCaptured, ReapRequest
<1>15. CASE SourceListForbidden \/ Abort
  BY <1>2, <1>15 DEF SourceListForbidden, Abort
<1>16. CASE UNCHANGED vars
  BY <1>2, <1>16 DEF vars
<1>17. QED
  BY <1>5, <1>6, <1>7, <1>8, <1>9, <1>10, <1>11, <1>12, <1>13, <1>14, <1>15, <1>16
     DEF Next, RootSteps, NodeSteps

\* The leg is entered with a persisted subtree that names no volume twice.
LEMMA LegEntersClosed ==
    ASSUME TypeOK, reconcileNamespaceManifestLeg
    PROVE  /\ TreeIsClosed
           /\ pass'.pc = "request" /\ pass'.plan = BuildRootNamespaceManifestCaptureTargets
<1>1. phase = "Planned" /\ subtreePersisted /\ ~ErrDuplicateCoveredPVCUID
  BY DEF reconcileNamespaceManifestLeg
<1>2. \A n \in Tree(refs) : n \in Counted /\ childCaptureAtLeastPlanned(n)
  BY <1>1 DEF subtreePersisted, Counted, childCaptureAtLeastPlanned
<1>3. TreeIsClosed
  BY <1>1, <1>2 DEF TreeIsClosed, subtreePersisted, ErrDuplicateCoveredPVCUID
<1>4. QED
  BY <1>3, IdleType DEF reconcileNamespaceManifestLeg, Pass

\* Only the manifest leg asks for anything.
LEMMA AskedOnce ==
    ASSUME TypeOK, ~Asked, ~reconcileNamespaceManifestLeg, [Next]_vars
    PROVE  ~Asked'
<1> USE IdleType DEF world, root, leg, Asked, AfterFreeze
<1>1. CASE PlanLayer
  BY <1>1, PlanLayerMoves
<1>2. CASE EnsureChildren
  BY <1>2 DEF EnsureChildren, TypeOK, Pass
<1>3. CASE PublishChildren
  BY <1>3 DEF PublishChildren, Pass
<1>4. CASE ensureOrphanVolumeSnapshotsPrePlanned
  BY <1>4 DEF ensureOrphanVolumeSnapshotsPrePlanned, Pass
<1>5. CASE ensureOrphanPVCVolumeSnapshots
  BY <1>5 DEF ensureOrphanPVCVolumeSnapshots, TypeOK, Pass
<1>6. CASE DeclareVolumeSnapshots
  BY <1>6 DEF DeclareVolumeSnapshots, Pass
<1>7. CASE MarkPlanned \/ failCapture \/ Finish
  BY <1>7 DEF MarkPlanned, failCapture, Finish
<1>8. CASE EnsureManifestCapture \/ CreateManifestCaptureRequest \/ PublishRequestName
  BY <1>8 DEF EnsureManifestCapture, CreateManifestCaptureRequest, PublishRequestName
<1>9. CASE CoreSteps
  BY <1>9 DEF CoreSteps, CacheFollows, mirrorReadyToOwnerSnapshot, ExecuteRequest,
              LatchManifestCaptured, ReapRequest
<1>10. CASE SourceListForbidden
  BY <1>10 DEF SourceListForbidden, TypeOK, Pass
<1>11. CASE Abort
  BY <1>11 DEF Abort
<1>12. ASSUME NEW n \in Nodes, NodeSteps(n) \/ ChildFails(n) \/ ChildVanishes(n) PROVE ~Asked'
  BY <1>12 DEF NodeSteps, DomainPlans, LatchSubtreePlanned, PersistManifests, ChildFails, ChildVanishes
<1>13. ASSUME NEW o \in Objects, ObjectAppears(o) \/ ObjectGoes(o) PROVE ~Asked'
  BY <1>13 DEF ObjectAppears, ObjectGoes
<1>14. CASE UNCHANGED vars
  BY <1>14 DEF vars
<1>15. QED
  BY <1>1, <1>2, <1>3, <1>4, <1>5, <1>6, <1>7, <1>8, <1>9, <1>10, <1>11, <1>12, <1>13, <1>14
     DEF Next, RootSteps

\* What is asked for is asked for over a closed tree.
LEMMA ClosedStep ==
    ASSUME TypeOK, InOrder, WellNamed, Closed, [Next]_vars
    PROVE  Closed'
BY ClosedStays, LegEntersClosed, AskedOnce DEF Closed

\* Objects come late or go: none is ever added to the ones that were always there.
LEMMA AlwaysThere ==
    ASSUME TypeOK, [Next]_vars
    PROVE  live' \ late' \subseteq live \ late
<1> USE DEF world, root, leg
<1>1. ASSUME NEW n \in Nodes, NodeSteps(n) \/ ChildFails(n) \/ ChildVanishes(n)
      PROVE  live' = live /\ late' = late
  BY <1>1 DEF NodeSteps, DomainPlans, LatchSubtreePlanned, PersistManifests, ChildFails, ChildVanishes
<1>2. ASSUME NEW o \in Objects, ObjectAppears(o) \/ ObjectGoes(o)
      PROVE  live' \ late' \subseteq live \ late
  BY <1>2 DEF ObjectAppears, ObjectGoes
<1>3. CASE RootSteps
  BY <1>3 DEF RootSteps, PlanLayer, EnsureChildren, PublishChildren,
       ensureOrphanVolumeSnapshotsPrePlanned, ensureOrphanPVCVolumeSnapshots,
       DeclareVolumeSnapshots, MarkPlanned, reconcileNamespaceManifestLeg, failCapture,
       EnsureManifestCapture, CreateManifestCaptureRequest, PublishRequestName, Finish
<1>4. CASE CoreSteps \/ SourceListForbidden \/ Abort \/ UNCHANGED vars
  BY <1>4 DEF CoreSteps, CacheFollows, mirrorReadyToOwnerSnapshot, ExecuteRequest,
       LatchManifestCaptured, ReapRequest, SourceListForbidden, Abort, vars
<1>5. QED
  BY <1>1, <1>2, <1>3, <1>4 DEF Next

\* The targets of the leg and the tree have every source between them.
LEMMA LegIsComplete ==
    ASSUME TypeOK, reconcileNamespaceManifestLeg
    PROVE  Missing \subseteq BuildRootNamespaceManifestCaptureTargets
BY PlanAssumption DEF Missing, BuildRootNamespaceManifestCaptureTargets, BuildManifestCaptureTargets,
   listResidualRootOwnedPVCTargets, ListNamespacePVCTargets, SubtreeManifestIdentities

\* Over a closed tree no more sources are missing than before.
LEMMA MissingShrinks ==
    ASSUME TypeOK, InOrder, WellNamed, TreeIsClosed, [Next]_vars
    PROVE  Missing' \subseteq Missing
<1>1. Tree(refs)' = Tree(refs)
  BY ClosedStays
<1>2. live' \ late' \subseteq live \ late
  BY AlwaysThere
<1>3. QED
  BY <1>1, <1>2 DEF Missing, manifestsOf, volumesOf

\* What a pass, the request or the checkpoint holds leaves out only what the
\* tree has, through every retry and adoption.
LEMMA TargetsStep ==
    ASSUME TypeOK, InOrder, WellNamed, Closed, TargetsAreComplete, [Next]_vars
    PROVE  TargetsAreComplete'
<1> USE IdleType DEF world, root, leg
<1>1. CASE reconcileNamespaceManifestLeg
  <2>1. /\ TreeIsClosed /\ pass'.plan = BuildRootNamespaceManifestCaptureTargets
        /\ mcr' = mcr /\ mcp' = mcp
    BY <1>1, LegEntersClosed DEF reconcileNamespaceManifestLeg
  <2>2. Missing' \subseteq Missing /\ Missing \subseteq pass'.plan
    BY <1>1, <2>1, MissingShrinks, LegIsComplete
  <2>3. QED
    BY <2>1, <2>2 DEF TargetsAreComplete
<1>2. CASE ~reconcileNamespaceManifestLeg /\ Asked
  <2>1. Missing' \subseteq Missing
    BY <1>2, MissingShrinks DEF Closed
  <2> USE DEF TargetsAreComplete
  <2>2. CASE EnsureManifestCapture
    BY <2>1, <2>2 DEF EnsureManifestCapture, TypeOK, Pass
  <2>3. CASE CreateManifestCaptureRequest
    BY <2>1, <2>3 DEF CreateManifestCaptureRequest, Pass
  <2>4. CASE PublishRequestName
    BY <2>1, <2>4 DEF PublishRequestName
  <2>5. CASE CoreSteps
    BY <2>1, <2>5 DEF CoreSteps, CacheFollows, mirrorReadyToOwnerSnapshot, ExecuteRequest,
                      LatchManifestCaptured, ReapRequest
  <2>6. CASE failCapture \/ Finish
    BY <2>1, <2>6 DEF failCapture, Finish
  <2>7. CASE PlanLayer \/ EnsureChildren \/ PublishChildren \/ ensureOrphanVolumeSnapshotsPrePlanned
             \/ ensureOrphanPVCVolumeSnapshots \/ DeclareVolumeSnapshots \/ MarkPlanned
             \/ SourceListForbidden
    BY <1>2, <2>7, AskedAfterFreeze DEF PlanLayer, EnsureChildren, PublishChildren,
         ensureOrphanVolumeSnapshotsPrePlanned, ensureOrphanPVCVolumeSnapshots,
         DeclareVolumeSnapshots, MarkPlanned, SourceListForbidden, InOrder, BeforeFreeze
  <2>8. CASE Abort
    BY <2>1, <2>8 DEF Abort
  <2>9. ASSUME NEW n \in Nodes, NodeSteps(n) \/ ChildFails(n) \/ ChildVanishes(n)
        PROVE  TargetsAreComplete'
    BY <2>1, <2>9 DEF NodeSteps, DomainPlans, LatchSubtreePlanned, PersistManifests, ChildFails,
                      ChildVanishes
  <2>10. ASSUME NEW o \in Objects, ObjectAppears(o) \/ ObjectGoes(o) PROVE TargetsAreComplete'
    BY <2>1, <2>10 DEF ObjectAppears, ObjectGoes
  <2>11. CASE UNCHANGED vars
    BY <2>1, <2>11 DEF vars
  <2>12. QED
    BY <1>2, <2>2, <2>3, <2>4, <2>5, <2>6, <2>7, <2>8, <2>9, <2>10, <2>11 DEF Next, RootSteps
<1>3. CASE ~reconcileNamespaceManifestLeg /\ ~Asked
  <2>1. ~Asked'
    BY <1>3, AskedOnce
  <2>2. QED
    BY <2>1 DEF TargetsAreComplete, Asked, AfterFreeze
<1>4. QED
  BY <1>1, <1>2, <1>3

\* The part of the namespace the wave looks at stays covered while the declared
\* children stay as they are, or one of them is lost.
LEMMA CoverStays ==
    ASSUME TypeOK, VolumesAreCovered, [Next]_vars,
           refs' = refs, pass' = pass, phase' = phase, orphanFailed' = orphanFailed,
           Gated => /\ \A n \in refs \ Wave : st'[n] \in {"none", "sub", "captured"}
                    /\ \A n \in refs : st[n] = "none" => st'[n] = "none"
                    /\ \/ \A n \in refs : kids'[n] = kids[n]
                       \/ \E n \in refs \ Wave : st'[n] = "none"
    PROVE  VolumesAreCovered'
<1>1. Gated' = Gated /\ Frozen' = Frozen
  BY DEF Gated, Frozen
<1>2. CASE ~Gated
  BY <1>1, <1>2 DEF VolumesAreCovered, Gated
<1>3. CASE Gated /\ \E n \in refs \ Wave : st'[n] = "none"
  BY <1>1, <1>3 DEF VolumesAreCovered, Lost
<1>4. CASE Gated /\ \A n \in refs : kids'[n] = kids[n]
  <2>1. Tree(refs)' = Tree(refs)
    BY <1>4 DEF Tree
  <2>2. Uncovered' \subseteq Uncovered
    BY <2>1, AlwaysThere DEF Uncovered, volumesOf
  <2>3. (Lost(refs) => Lost(refs)') /\ (Lost(refs \ Wave) => Lost(refs \ Wave)')
    BY <1>4 DEF Lost
  <2>4. QED
    BY <1>1, <1>4, <2>2, <2>3 DEF VolumesAreCovered
<1>5. QED
  BY <1>2, <1>3, <1>4

\* From the orphan wave on every volume that was always there has a member or
\* will get one, unless a member is lost.
LEMMA CoveredStep ==
    ASSUME TypeOK, InOrder, WellNamed, VolumesAreCovered, [Next]_vars
    PROVE  VolumesAreCovered'
<1> USE IdleType DEF world, root, leg
<1>1. CASE PlanLayer
  <2>1. ~Gated'
    BY <1>1, PlanLayerMoves DEF Gated, Frozen
  <2>2. QED
    BY <2>1 DEF VolumesAreCovered, Gated
<1>2. CASE EnsureChildren
  <2>1. ~Gated'
    BY <1>2 DEF EnsureChildren, Gated, Frozen, InOrder, BeforeFreeze, TypeOK, Pass
  <2>2. QED
    BY <2>1 DEF VolumesAreCovered, Gated
<1>3. CASE PublishChildren
  <2>1. ~Gated'
    BY <1>3 DEF PublishChildren, Gated, Frozen, InOrder, BeforeFreeze, Pass
  <2>2. QED
    BY <2>1 DEF VolumesAreCovered, Gated
<1>4. CASE ensureOrphanVolumeSnapshotsPrePlanned
  <2> DEFINE gate == \A n \in refs \ Wave : childSubtreePlanned(n)
  <2>1. phase' = "Planning" /\ refs' = refs /\ st' = st /\ kids' = kids /\ live' = live /\ late' = late
    BY <1>4 DEF ensureOrphanVolumeSnapshotsPrePlanned, InOrder, BeforeFreeze
  <2>2. gate => \A n \in refs \ Wave : st'[n] \in {"none", "sub", "captured"}
    BY <2>1 DEF childSubtreePlanned
  <2>3. CASE pass' = Idle
    BY <2>1, <2>3 DEF VolumesAreCovered, Gated, Frozen
  <2>4. CASE gate /\ orphanFailed' = TRUE /\ pass' = [Idle EXCEPT !.pc = "freeze"]
    <3>1. pass'.pc = "freeze"
      BY <2>4 DEF Pass
    <3>2. QED
      BY <2>1, <2>2, <2>4, <3>1 DEF VolumesAreCovered
  <2>5. CASE gate /\ pass' = [Idle EXCEPT !.pc = "volumes", !.plan = listResidualRootOwnedPVCTargets]
    <3>1. pass'.pc = "volumes" /\ pass'.plan = listResidualRootOwnedPVCTargets
      BY <2>5 DEF Pass
    <3>2. Uncovered \subseteq listResidualRootOwnedPVCTargets
      BY DEF Uncovered, listResidualRootOwnedPVCTargets, ListNamespacePVCTargets, Counted,
             CollectSubtreeCoveredPVCUIDsFromSnapshot
    <3>3. Uncovered' = Uncovered
      BY <2>1 DEF Uncovered, Tree, volumesOf
    <3>4. QED
      BY <2>1, <2>2, <2>5, <3>1, <3>2, <3>3 DEF VolumesAreCovered, Frozen
  <2>6. QED
    BY <1>4, <2>3, <2>4, <2>5 DEF ensureOrphanVolumeSnapshotsPrePlanned
<1>5. CASE ensureOrphanPVCVolumeSnapshots
  <2>1. /\ pass.pc = "volumes" /\ phase' = "Planning" /\ refs' = refs
        /\ kids' = kids /\ live' = live /\ late' = late
    BY <1>5 DEF ensureOrphanPVCVolumeSnapshots, InOrder, BeforeFreeze
  <2>2. \A n \in refs \ Wave : st'[n] = st[n]
    BY <1>5 DEF ensureOrphanPVCVolumeSnapshots, Create, TypeOK
  <2>3. \A n \in refs \ Wave : st'[n] \in {"none", "sub", "captured"}
    BY <2>1, <2>2 DEF VolumesAreCovered, Gated
  <2>4. CASE orphanFailed' = TRUE /\ pass' = [Idle EXCEPT !.pc = "freeze"]
    <3>1. pass'.pc = "freeze"
      BY <2>4 DEF Pass
    <3>2. QED
      BY <2>1, <2>3, <2>4, <3>1 DEF VolumesAreCovered
  <2>5. CASE pass' = [pass EXCEPT !.pc = "declare"]
    <3>1. pass'.pc = "declare" /\ pass'.plan = pass.plan
      BY <2>5 DEF TypeOK, Pass
    <3>2. Uncovered' = Uncovered
      BY <2>1 DEF Uncovered, Tree, volumesOf
    <3>3. Lost(refs \ Wave) => Lost(refs \ Wave)'
      BY <2>1, <2>2 DEF Lost
    <3>4. QED
      BY <2>1, <2>3, <3>1, <3>2, <3>3 DEF VolumesAreCovered, Frozen
  <2>6. QED
    BY <1>5, <2>4, <2>5 DEF ensureOrphanPVCVolumeSnapshots
<1>6. CASE DeclareVolumeSnapshots
  <2>1. /\ pass.pc = "declare" /\ refs' = refs \cup {n \in Wave : n.of \in pass.plan}
        /\ st' = st /\ kids' = kids /\ live' = live /\ late' = late /\ pass'.pc = "freeze"
    BY <1>6 DEF DeclareVolumeSnapshots, Pass
  <2>2. \A n \in refs' \ Wave : st'[n] \in {"none", "sub", "captured"}
    BY <2>1 DEF VolumesAreCovered, Gated
  <2>3. CASE Lost(refs \ Wave)
    <3>1. Lost(refs)'
      BY <2>1, <2>3 DEF Lost
    <3>2. QED
      BY <2>1, <2>2, <3>1 DEF VolumesAreCovered
  <2>4. CASE Uncovered \subseteq pass.plan
    <3>1. ASSUME NEW p \in Uncovered' PROVE FALSE
      <4>1. p \in PVCs /\ p \in pass.plan
        BY <2>1, <2>4, <3>1 DEF Uncovered, Tree, volumesOf
      <4> DEFINE v == [by |-> "wave", of |-> p]
      <4>2. v \in refs'
        BY <2>1, <4>1, NodeFacts
      <4>3. p \in volumesOf(v)
        BY <4>1 DEF volumesOf
      <4>4. QED
        BY <3>1, <4>2, <4>3 DEF Uncovered, Tree, volumesOf
    <3>2. QED
      BY <2>1, <2>2, <3>1 DEF VolumesAreCovered
  <2>5. QED
    BY <2>1, <2>3, <2>4 DEF VolumesAreCovered
<1>7. CASE MarkPlanned \/ reconcileNamespaceManifestLeg \/ failCapture \/ Finish
           \/ EnsureManifestCapture \/ CreateManifestCaptureRequest \/ PublishRequestName
  <2>1. Frozen /\ refs' = refs /\ st' = st /\ kids' = kids /\ live' = live /\ late' = late
        /\ orphanFailed' = orphanFailed
    BY <1>7 DEF MarkPlanned, reconcileNamespaceManifestLeg, failCapture, Finish,
         EnsureManifestCapture, CreateManifestCaptureRequest, PublishRequestName, Frozen,
         InOrder, AfterFreeze
  <2>2. pass'.pc \notin {"volumes", "declare"}
    <3>1. CASE MarkPlanned \/ failCapture \/ Finish \/ PublishRequestName
      BY <3>1 DEF MarkPlanned, failCapture, Finish, PublishRequestName
    <3>2. CASE reconcileNamespaceManifestLeg
      BY <3>2 DEF reconcileNamespaceManifestLeg, Pass
    <3>3. CASE EnsureManifestCapture
      BY <3>3 DEF EnsureManifestCapture, TypeOK, Pass
    <3>4. CASE CreateManifestCaptureRequest
      BY <3>4 DEF CreateManifestCaptureRequest, Pass
    <3>5. QED
      BY <1>7, <3>1, <3>2, <3>3, <3>4
  <2>3. Uncovered' = Uncovered /\ Lost(refs)' = Lost(refs)
    BY <2>1 DEF Uncovered, Tree, volumesOf, Lost
  <2>4. QED
    BY <2>1, <2>2, <2>3 DEF VolumesAreCovered, Gated
<1>8. CASE CoreSteps
  BY <1>8, CoverStays DEF CoreSteps, CacheFollows, mirrorReadyToOwnerSnapshot, ExecuteRequest,
       LatchManifestCaptured, ReapRequest, VolumesAreCovered
<1>9. CASE SourceListForbidden
  <2>1. ~Gated'
    BY <1>9 DEF SourceListForbidden, Gated, Frozen, TypeOK, Pass
  <2>2. QED
    BY <2>1 DEF VolumesAreCovered, Gated
<1>10. CASE Abort
  <2>1. /\ pass'.pc = "start" /\ phase' = phase /\ refs' = refs /\ st' = st /\ kids' = kids
        /\ live' = live /\ late' = late /\ orphanFailed' = orphanFailed
    BY <1>10 DEF Abort
  <2>2. Uncovered' = Uncovered /\ Lost(refs)' = Lost(refs) /\ (Gated' => Frozen' /\ Frozen /\ Gated)
    BY <2>1 DEF Uncovered, Tree, volumesOf, Lost, Gated, Frozen
  <2>3. QED
    BY <2>1, <2>2 DEF VolumesAreCovered, Gated
<1>11. ASSUME NEW n \in Nodes, DomainPlans(n) PROVE VolumesAreCovered'
  <2> DEFINE ks == {k \in Nodes : k.by = n.of /\ n.by = "root" /\ k.of \in live \ Vetoed}
  <2>1. /\ kids' = [kids EXCEPT ![n] = ks] /\ st[n] = "planning" /\ st'[n] = "planned"
        /\ refs' = refs /\ pass' = pass /\ phase' = phase /\ orphanFailed' = orphanFailed
    BY <1>11 DEF DomainPlans
  <2>2. \A k \in Nodes : k # n /\ k \notin ks => st'[k] = st[k]
    BY <1>11 DEF DomainPlans
  <2>3. \A k \in ks : k \notin refs
    BY NodeFacts, PlanAssumption DEF WellNamed, Planned
  <2>4. n \in Wave => ks = {} /\ kids[n] = {}
    BY NodeFacts DEF WellNamed
  <2> HIDE DEF ks
  <2>5. Gated => n \notin refs \ Wave
    BY <2>1 DEF VolumesAreCovered
  <2>6. Gated => \A m \in refs : kids'[m] = kids[m]
    BY <2>1, <2>4, <2>5 DEF TypeOK
  <2>7. Gated => \A m \in refs \ Wave : st'[m] \in {"none", "sub", "captured"}
    BY <2>2, <2>3, <2>5 DEF VolumesAreCovered, TypeOK
  <2>8. \A m \in refs : st[m] = "none" => st'[m] = "none"
    BY <2>1, <2>2, <2>3 DEF TypeOK
  <2>9. QED
    BY <2>1, <2>6, <2>7, <2>8, CoverStays
<1>12. ASSUME NEW n \in Nodes, LatchSubtreePlanned(n) \/ PersistManifests(n) PROVE VolumesAreCovered'
  <2>1. /\ kids' = kids /\ st[n] \in {"planned", "sub"} /\ st'[n] \in {"sub", "captured"}
        /\ refs' = refs /\ pass' = pass /\ phase' = phase /\ orphanFailed' = orphanFailed
        /\ \A k \in Nodes : k # n => st'[k] = st[k]
    BY <1>12 DEF LatchSubtreePlanned, PersistManifests, TypeOK
  <2>2. Gated => \A m \in refs \ Wave : st'[m] \in {"none", "sub", "captured"}
    BY <2>1 DEF VolumesAreCovered, TypeOK
  <2>3. \A m \in refs : st[m] = "none" => st'[m] = "none"
    BY <2>1 DEF TypeOK
  <2>4. QED
    BY <2>1, <2>2, <2>3, CoverStays
<1>13. ASSUME NEW n \in Nodes, ChildVanishes(n) PROVE VolumesAreCovered'
  <2>1. /\ kids' = [kids EXCEPT ![n] = {}]
        /\ refs' = refs /\ pass' = pass /\ phase' = phase /\ orphanFailed' = orphanFailed
        /\ \A k \in Nodes : st'[k] \in {"none", st[k]} /\ (k = n => st'[k] = "none")
    BY <1>13 DEF ChildVanishes, TypeOK
  <2>2. n \in Wave => kids[n] = {}
    BY NodeFacts DEF WellNamed
  <2>3. \/ \A m \in refs : kids'[m] = kids[m]
        \/ \E m \in refs \ Wave : st'[m] = "none"
    BY <2>1, <2>2 DEF TypeOK
  <2>4. Gated => \A m \in refs \ Wave : st'[m] \in {"none", "sub", "captured"}
    BY <2>1 DEF VolumesAreCovered, TypeOK
  <2>5. \A m \in refs : st[m] = "none" => st'[m] = "none"
    BY <2>1 DEF TypeOK
  <2>6. QED
    BY <2>1, <2>3, <2>4, <2>5, CoverStays
<1>14. ASSUME NEW n \in Nodes, ChildFails(n) PROVE VolumesAreCovered'
  BY <1>14, CoverStays DEF ChildFails, VolumesAreCovered
<1>15. ASSUME NEW o \in Objects, ObjectAppears(o) \/ ObjectGoes(o) PROVE VolumesAreCovered'
  BY <1>15, CoverStays DEF ObjectAppears, ObjectGoes, VolumesAreCovered
<1>16. CASE UNCHANGED vars
  BY <1>16, CoverStays DEF vars, VolumesAreCovered
<1>17. QED
  BY <1>1, <1>2, <1>3, <1>4, <1>5, <1>6, <1>7, <1>8, <1>9, <1>10, <1>11, <1>12, <1>13, <1>14,
     <1>15, <1>16 DEF Next, RootSteps, NodeSteps

\* The inductive invariant holds always.
LEMMA PlanInvariant == Spec => [](TypeOK /\ PlanInv)
<1>1. Init => TypeOK /\ PlanInv
  BY TypeInit, PlanInvInit
<1>2. TypeOK /\ PlanInv /\ [Next]_vars => (TypeOK /\ PlanInv)'
  <2> SUFFICES ASSUME TypeOK, PlanInv, [Next]_vars PROVE TypeOK' /\ PlanInv'
    OBVIOUS
  <2>1. TypeOK'
    BY TypeStep
  <2>2. InOrder /\ WellNamed /\ Closed /\ TargetsAreComplete /\ VolumesAreCovered
    BY DEF PlanInv
  <2>3. InOrder' /\ WellNamed' /\ Closed'
    BY <2>2, InOrderStep, WellNamedStep, ClosedStep
  <2>4. TargetsAreComplete' /\ VolumesAreCovered'
    BY <2>2, TargetsStep, CoveredStep
  <2>5. QED
    BY <2>1, <2>3, <2>4 DEF PlanInv
<1>3. QED
  BY <1>1, <1>2, PTL DEF Spec

-----------------------------------------------------------------------------
(* What follows from it. *)

\* The data of a volume is captured by one member of a finished root, whatever
\* appears while the layers are planned and whoever claims it later.
THEOREM CapturedOnce == Spec => []VolumeIsCapturedOnce
<1>1. TypeOK /\ PlanInv => VolumeIsCapturedOnce
  BY DEF PlanInv, InOrder, Closed, Asked, TreeIsClosed, VolumeIsCapturedOnce
<1>2. QED
  BY <1>1, PlanInvariant, PTL

\* A finished root whose orphan wave met no terminal failure has captured every
\* object that was there from the beginning and still is, and no object with the
\* exclude label.
THEOREM NoObjectIsLost == Spec => []NothingIsLost
<1>1. ASSUME TypeOK, PlanInv, phase = "Finished", ~orphanFailed
      PROVE  /\ \A o \in (live \ late) \ Vetoed : Captured(o)
             /\ \A n \in Tree(refs) : n.of \notin Vetoed
             /\ mcp \cap Vetoed = {}
  <2>1. captured /\ mcp # Nothing /\ TreeIsClosed
    BY <1>1 DEF PlanInv, InOrder, Closed, Asked
  <2>2. Uncovered = {}
    BY <1>1, <2>1, TreeNodes DEF PlanInv, VolumesAreCovered, Frozen, Lost, TreeIsClosed
  <2>3. Missing \subseteq mcp
    BY <1>1, <2>1 DEF PlanInv, TargetsAreComplete
  <2>4. ASSUME NEW o \in (live \ late) \ Vetoed PROVE Captured(o)
    <3>1. CASE o \in PVCs
      <4>1. PICK n \in Tree(refs) : o \in volumesOf(n)
        BY <2>2, <2>4, <3>1 DEF Uncovered
      <4>2. QED
        BY <2>1, <4>1 DEF Captured, manifestsOf, TreeIsClosed
    <3>2. CASE o \in Sources /\ o \in Missing
      BY <2>1, <2>3, <3>2 DEF Captured
    <3>3. CASE o \in Sources /\ o \notin Missing
      BY <2>1, <2>4, <3>3 DEF Captured, Missing, TreeIsClosed
    <3>4. QED
      BY <1>1, <2>4, <3>1, <3>2, <3>3 DEF TypeOK, Objects
  <2>5. \A n \in Tree(refs) : n.of \notin Vetoed
    BY <1>1 DEF PlanInv, WellNamed, Tree, TypeOK
  <2>6. QED
    BY <1>1, <2>1, <2>4, <2>5 DEF PlanInv, WellNamed
<1>2. TypeOK /\ PlanInv => NothingIsLost
  BY <1>1 DEF NothingIsLost
<1>3. QED
  BY <1>2, PlanInvariant, PTL

-----------------------------------------------------------------------------
(* The refinement of PointInTime. *)

\* Every step of the planner, of the controllers around it and of the namespace is
\* one step of the abstract snapshot or leaves it alone.
LEMMA StepRefines ==
    ASSUME TypeOK, PlanInv, [Next]_vars
    PROVE  [PIT!PitNext]_(PIT!pitVars)
<1> USE DEF PIT!pitVars, world, root, leg
<1> DEFINE Same == UNCHANGED <<phase, refs, mcr, mcp>>
<1>1. Same => UNCHANGED PIT!pitVars
  OBVIOUS
<1>2. InOrder /\ pass.plan \in SUBSET Objects
  BY DEF PlanInv, TypeOK, Pass
<1>3. CASE PlanLayer
  <2>1. phase = "Planning" /\ phase' \in {"Failed", phase} /\ UNCHANGED <<refs, mcr, mcp>>
    BY <1>3, PlanLayerMoves
  <2>2. QED
    BY <1>1, <2>1 DEF PIT!PitNext, PIT!Fail
<1>4. CASE PublishChildren \/ DeclareVolumeSnapshots
  <2>1. phase = "Planning" /\ UNCHANGED <<phase, mcr, mcp>>
    BY <1>2, <1>4 DEF PublishChildren, DeclareVolumeSnapshots, InOrder, BeforeFreeze
  <2>2. \E m \in SUBSET Nodes : refs' = refs \cup m
    BY <1>4, NodeFacts DEF PublishChildren, DeclareVolumeSnapshots, TypeOK, Pass
  <2>3. QED
    BY <2>1, <2>2 DEF PIT!PitNext, PIT!Declare
<1>5. CASE MarkPlanned
  BY <1>2, <1>5 DEF MarkPlanned, InOrder, BeforeFreeze, PIT!PitNext, PIT!Freeze
<1>6. CASE failCapture
  BY <1>6 DEF failCapture, PIT!PitNext, PIT!Fail
<1>7. CASE CreateManifestCaptureRequest
  <2>1. CASE mcr = Nothing
    <3>1. phase = "Planned" /\ mcp = Nothing
      BY <1>2, <1>7, <2>1 DEF CreateManifestCaptureRequest, InOrder, AfterFreeze
    <3>2. mcr' = pass.plan /\ mcr' # Nothing /\ UNCHANGED <<phase, refs, mcp>>
      BY <1>2, <1>7, <2>1, PlanAssumption DEF CreateManifestCaptureRequest
    <3>3. QED
      BY <1>2, <2>1, <3>1, <3>2 DEF PIT!PitNext, PIT!Ask
  <2>2. CASE mcr # Nothing
    BY <1>1, <1>7, <2>2 DEF CreateManifestCaptureRequest
  <2>3. QED
    BY <2>1, <2>2
<1>8. CASE Finish
  <2>1. phase = "Planned" /\ mcp # Nothing /\ phase' \in {"Failed", "Finished"}
        /\ UNCHANGED <<refs, mcr, mcp>>
    BY <1>2, <1>8 DEF Finish, InOrder
  <2>2. QED
    BY <2>1 DEF PIT!PitNext, PIT!Fail, PIT!Finish
<1>9. CASE ExecuteRequest
  BY <1>9 DEF ExecuteRequest, PIT!PitNext, PIT!Answer
<1>10. CASE ReapRequest
  <2>1. mcp # Nothing
    BY <1>2, <1>10 DEF ReapRequest, InOrder
  <2>2. QED
    BY <1>10, <2>1 DEF ReapRequest, PIT!PitNext, PIT!Withdraw
<1>11. CASE EnsureChildren \/ ensureOrphanVolumeSnapshotsPrePlanned \/ ensureOrphanPVCVolumeSnapshots
            \/ reconcileNamespaceManifestLeg \/ EnsureManifestCapture \/ PublishRequestName
            \/ CacheFollows \/ mirrorReadyToOwnerSnapshot \/ LatchManifestCaptured
            \/ SourceListForbidden \/ Abort
  <2>1. Same
    BY <1>11 DEF EnsureChildren, ensureOrphanVolumeSnapshotsPrePlanned,
         ensureOrphanPVCVolumeSnapshots, reconcileNamespaceManifestLeg, EnsureManifestCapture,
         PublishRequestName, CacheFollows, mirrorReadyToOwnerSnapshot, LatchManifestCaptured,
         SourceListForbidden, Abort
  <2>2. QED
    BY <1>1, <2>1
<1>12. ASSUME NEW n \in Nodes, NodeSteps(n) \/ ChildFails(n) \/ ChildVanishes(n) PROVE Same
  BY <1>12 DEF NodeSteps, DomainPlans, LatchSubtreePlanned, PersistManifests, ChildFails, ChildVanishes
<1>13. ASSUME NEW o \in Objects, ObjectAppears(o) \/ ObjectGoes(o) PROVE Same
  BY <1>13 DEF ObjectAppears, ObjectGoes
<1>14. CASE UNCHANGED vars
  BY <1>14 DEF vars
<1>15. QED
  BY <1>1, <1>3, <1>4, <1>5, <1>6, <1>7, <1>8, <1>9, <1>10, <1>11, <1>12, <1>13, <1>14
     DEF Next, RootSteps, CoreSteps

\* The root Snapshot is a point-in-time snapshot: members are declared before the
\* freeze only, one request is decided after it, and the checkpoint holds exactly
\* that request's targets, whatever passes, caches and retries do.
THEOREM PointInTimeHolds == Spec => IsPointInTime
<1>1. Init => PIT!PitInit
  BY DEF Init, PIT!PitInit
<1>2. TypeOK /\ PlanInv /\ [Next]_vars => [PIT!PitNext]_(PIT!pitVars)
  BY StepRefines
<1>3. QED
  BY <1>1, <1>2, PlanInvariant, PTL DEF Spec, IsPointInTime, PIT!PitSpec
=============================================================================
