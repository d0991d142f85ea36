-------------------------- MODULE ContentTreeProofs --------------------------
(***************************************************************************)
(* Proofs about ContentTree, for every tree, number of workers and budget. *)
(***************************************************************************)
EXTENDS ContentTree, TLAPS

\* The records that stand for "nothing yet" have their types.
LEMMA Nothings ==
    /\ NoLegs \in Legs
    /\ NoSnapshot \in Snapshot
    /\ NoContent \in Content
    /\ NoOwner \in Owner
    /\ NoPass \in Pass
<1>1. NoLegs \in Legs
  BY DEF NoLegs, Legs, LegStates
<1>2. NoSnapshot \in Snapshot
  BY DEF NoSnapshot, Snapshot, Phases, SnapReady, ContentReady
<1>3. NoContent \in Content
  BY <1>1 DEF NoContent, Content, ContentReady
<1>4. NoOwner \in Owner
  BY DEF NoOwner, Owner, Phases, SnapReady, ContentReady
<1>5. NoPass \in Pass
  BY <1>1, <1>3, <1>4 DEF NoPass, Pass, ContentReady
<1>6. QED
  BY <1>1, <1>2, <1>3, <1>4, <1>5

\* The initial state is well typed.
LEMMA InitType == Init => TypeOK
<1>1. ASSUME Init PROVE snap \in [Nodes -> Snapshot]
  BY <1>1, Nothings DEF Init, Snapshot
<1>2. QED
  BY <1>1, Nothings, TreeAssumption DEF Init, TypeOK

\* The wakers name existing queues and nodes only.
LEMMA Wakes ==
    ASSUME NEW n \in Nodes
    PROVE  /\ ContentWake(n) \subseteq Queues \X Nodes
           /\ SnapshotWake(n) \subseteq Queues \X Nodes
           /\ ArtifactWake(n) \subseteq Queues \X Nodes
           /\ <<SnapshotQueue, n>> \in Queues \X Nodes
           /\ <<"content", n>> \in Queues \X Nodes
BY TreeAssumption DEF ContentWake, SnapshotWake, ArtifactWake, SnapshotQueue, Parents

\* The tree latches of a snapshot change nothing else of it.
LEMMA LatchTreeKeeps ==
    ASSUME NEW s \in Snapshot, NEW n, NEW ob
    PROVE  LET t == LatchTree(s, n, ob)
               kids == ob.persisted \/ aggregateChildrenSubtreeManifestsPersisted(n, ob)
           IN /\ t \in Snapshot
              /\ t.req = s.req /\ t.declared = s.declared /\ t.phase = s.phase
              /\ t.kids = IF s.kids = "true" \/ kids THEN "true" ELSE "false"
              /\ t.planned = (s.planned \/ allDirectChildrenSubtreePlanned(n))
<1> DEFINE kids == ob.persisted \/ aggregateChildrenSubtreeManifestsPersisted(n, ob)
           latch == IF s.kids = "true" \/ kids THEN "true" ELSE "false"
           planned == s.planned \/ allDirectChildrenSubtreePlanned(n)
           settled == s.settled \/ allDirectChildrenSettled(n)
<1>1. LatchTree(s, n, ob) = [s EXCEPT !.kids = latch, !.planned = planned, !.settled = settled]
  BY DEF LatchTree, setOwnerChildSubtreesManifestsPersisted
<1>2. planned \in BOOLEAN /\ settled \in BOOLEAN /\ latch \in {"nil", "false", "true"}
  BY DEF Snapshot
<1> HIDE DEF latch, planned, settled
<1>3. LET t == LatchTree(s, n, ob)
      IN /\ t \in Snapshot
         /\ t.req = s.req /\ t.declared = s.declared /\ t.phase = s.phase
         /\ t.kids = latch /\ t.planned = planned
  BY <1>1, <1>2 DEF Snapshot
<1>4. QED
  BY <1>3 DEF latch, planned

\* The legs a pass derives are legs.
LEMMA DerivedTypes ==
    ASSUME NEW n \in Nodes, NEW ob \in Content, NEW ow \in Owner,
           NEW pend \in BOOLEAN, NEW term \in BOOLEAN, TypeOK
    PROVE  /\ ManifestLeg(n, ob, ow) \in LegStates
           /\ \A m : DataLeg(n, ob, m, pend, term) \in LegStates
           /\ validateCommonContentChildren(n, ob) \in LegStates
           /\ \A m : computeSubtreeManifestsPersisted(n, ob, m) \in BOOLEAN
           /\ \A legs, p : deriveReadyStatus(legs, p) \in ContentReady
           /\ \A ph \in Phases : \A r \in ContentReady : applyDomainPhaseFold(ph, r) \in ContentReady
<1>1. ManifestLeg(n, ob, ow) \in LegStates
  <2>1. ob.named \in BOOLEAN /\ mcp[n] \in {"none", "ready", "owned", "failed", "damaged", "gone"}
    BY DEF Content, TypeOK
  <2>2. QED
    BY <2>1 DEF ManifestLeg, LegStates
<1>2. \A m : DataLeg(n, ob, m, pend, term) \in LegStates
  BY DEF DataLeg, LegStates
<1>3. validateCommonContentChildren(n, ob) \in LegStates
  BY DEF validateCommonContentChildren, LegStates
<1>4. \A m : computeSubtreeManifestsPersisted(n, ob, m) \in BOOLEAN
  BY DEF computeSubtreeManifestsPersisted, Content
<1>5. \A legs, p : deriveReadyStatus(legs, p) \in ContentReady
  BY DEF deriveReadyStatus, ContentReady
<1>6. \A ph \in Phases : \A r \in ContentReady : applyDomainPhaseFold(ph, r) \in ContentReady
  BY DEF applyDomainPhaseFold, ContentReady, Phases
<1>7. QED
  BY <1>1, <1>2, <1>3, <1>4, <1>5, <1>6

-----------------------------------------------------------------------------
(* Type correctness, action by action. *)

\* A write of one snapshot by its domain keeps the types.
LEMMA UpdateType ==
    ASSUME TypeOK, NEW n \in Nodes, NEW new \in Snapshot, UpdateSnapshot(n, new)
    PROVE  snap' \in [Nodes -> Snapshot] /\ queued' \subseteq Queues \X Nodes
BY Wakes DEF TypeOK, UpdateSnapshot

\* The steps of the domains keep the types.
LEMMA DomainType ==
    ASSUME TypeOK, NEW n \in Nodes, Domain(n) \/ DomainFails(n)
    PROVE  TypeOK'
<1> USE DEF artifacts, budgets, history
<1>0. snap[n] \in Snapshot
  BY DEF TypeOK
<1>1. CASE Announce(n)
  <2>1. [snap[n] EXCEPT !.phase = "Planning"] \in Snapshot
    BY <1>0 DEF Snapshot, Phases
  <2>2. QED
    BY <1>1, <2>1, UpdateType DEF Announce, TypeOK
<1>2. CASE EnsureChildren(n)
  <2>1. snap' \in [Nodes -> Snapshot]
    <3>1. PICK D \in SUBSET (Kids[n] \ snap[n].declared) :
             snap' = [c \in Nodes |->
                IF c = n THEN [snap[n] EXCEPT !.declared = @ \cup D]
                ELSE IF c \in D /\ snap[c].ex = "none" THEN [snap[c] EXCEPT !.ex = "alive"]
                ELSE snap[c]]
      BY <1>2 DEF EnsureChildren
    <3>2. [snap[n] EXCEPT !.declared = @ \cup D] \in Snapshot
      <4>1. D \subseteq Nodes
        BY TreeAssumption
      <4>2. QED
        BY <1>0, <4>1 DEF Snapshot
    <3>3. ASSUME NEW c \in Nodes PROVE [snap[c] EXCEPT !.ex = "alive"] \in Snapshot
      <4>1. snap[c] \in Snapshot
        BY DEF TypeOK
      <4>2. QED
        BY <4>1 DEF Snapshot
    <3>4. QED
      BY <3>1, <3>2, <3>3 DEF TypeOK
  <2>2. queued' \subseteq Queues \X Nodes
    BY <1>2, Wakes DEF EnsureChildren, TypeOK
  <2>3. QED
    BY <1>2, <2>1, <2>2 DEF EnsureChildren, TypeOK
<1>3. CASE EnsureVolumeCapture(n)
  <2>1. [snap[n] EXCEPT !.vreq = TRUE] \in Snapshot
    BY <1>0 DEF Snapshot
  <2>2. QED
    BY <1>3, <2>1, UpdateType DEF EnsureVolumeCapture, TypeOK
<1>4. CASE EnsureManifestCapture(n)
  <2>1. [snap[n] EXCEPT !.req = TRUE] \in Snapshot
    BY <1>0 DEF Snapshot
  <2>2. QED
    BY <1>4, <2>1, UpdateType DEF EnsureManifestCapture, TypeOK
<1>5. CASE PlanCapture(n)
  <2>1. [snap[n] EXCEPT !.phase = "Planned"] \in Snapshot
    BY <1>0 DEF Snapshot, Phases
  <2>2. QED
    BY <1>5, <2>1, UpdateType DEF PlanCapture, TypeOK
<1>6. CASE FailPlanning(n)
  <2>1. [snap[n] EXCEPT !.phase = "Failed", !.ready = "Failed"] \in Snapshot
    BY <1>0 DEF Snapshot, Phases, SnapReady, ContentReady
  <2>2. QED
    BY <1>6, <2>1, UpdateType DEF FailPlanning, TypeOK
<1>7. CASE CaptureAfterSubtree(n)
  <2>1. [snap[n] EXCEPT !.req = TRUE] \in Snapshot
    BY <1>0 DEF Snapshot
  <2>2. SubtreeWalk(n) \subseteq Nodes
    BY DEF SubtreeWalk
  <2>3. QED
    BY <1>7, <2>1, <2>2, UpdateType DEF CaptureAfterSubtree, TypeOK
<1>8. CASE FinishCapture(n)
  <2>1. [snap[n] EXCEPT !.phase = "Finished"] \in Snapshot
    BY <1>0 DEF Snapshot, Phases
  <2>2. QED
    BY <1>8, <2>1, UpdateType DEF FinishCapture, TypeOK
<1>9. CASE FailCapture(n)
  <2>1. [snap[n] EXCEPT !.phase = "Failed"] \in Snapshot
    BY <1>0 DEF Snapshot, Phases
  <2>2. QED
    BY <1>9, <2>1, UpdateType DEF FailCapture, TypeOK
<1>10. CASE DomainFails(n)
  <2>1. [snap[n] EXCEPT !.phase = "Failed"] \in Snapshot
    BY <1>0 DEF Snapshot, Phases
  <2>2. failures' \in 0..MaxFailures
    BY <1>10, TreeAssumption DEF DomainFails, TypeOK
  <2>3. QED
    BY <1>10, <2>1, <2>2, UpdateType DEF DomainFails, TypeOK
<1>11. QED
  BY <1>1, <1>2, <1>3, <1>4, <1>5, <1>6, <1>7, <1>8, <1>9, <1>10 DEF Domain

\* The steps of the binder, the executors, the storage, the users and the
\* garbage collector keep the types.
LEMMA EnvironmentType ==
    ASSUME TypeOK, NEW n \in Nodes, Environment(n) \/ LoseArtifact(n) \/ DeleteSnapshot(n)
    PROVE  TypeOK'
<1> USE DEF artifacts, budgets, history
<1>0. snap[n] \in Snapshot /\ content[n] \in Content
  BY DEF TypeOK
<1>1. CASE BindContent(n)
  <2>1. [content[n] EXCEPT !.ex = TRUE] \in Content
    BY <1>0 DEF Content
  <2>2. content' \in [Nodes -> Content]
    BY <1>1, <2>1 DEF BindContent, TypeOK
  <2>3. queued' \subseteq Queues \X Nodes
    BY <1>1, Wakes DEF BindContent, TypeOK
  <2>4. QED
    BY <1>1, <2>2, <2>3 DEF BindContent, TypeOK
<1>2. CASE markBoundSnapshotDeletedOnContent(n)
  <2>1. [content[n] EXCEPT !.ownerGone = TRUE] \in Content
    BY <1>0 DEF Content
  <2>2. content' \in [Nodes -> Content]
    BY <1>2, <2>1 DEF markBoundSnapshotDeletedOnContent, TypeOK
  <2>3. queued' \subseteq Queues \X Nodes
    BY <1>2, Wakes DEF markBoundSnapshotDeletedOnContent, TypeOK
  <2>4. QED
    BY <1>2, <2>2, <2>3 DEF markBoundSnapshotDeletedOnContent, TypeOK
<1>3. CASE CaptureManifest(n)
  <2>1. queued' \subseteq Queues \X Nodes
    BY <1>3, Wakes DEF CaptureManifest, TypeOK
  <2>2. failures' \in 0..MaxFailures
    BY <1>3, TreeAssumption DEF CaptureManifest, TypeOK
  <2>3. QED
    BY <1>3, <2>1, <2>2 DEF CaptureManifest, TypeOK
<1>4. CASE CaptureVolume(n)
  <2>1. queued' \subseteq Queues \X Nodes
    BY <1>4, Wakes DEF CaptureVolume, TypeOK
  <2>2. failures' \in 0..MaxFailures
    BY <1>4, TreeAssumption DEF CaptureVolume, TypeOK
  <2>3. QED
    BY <1>4, <2>1, <2>2 DEF CaptureVolume, TypeOK
<1>5. CASE VolumeReady(n)
  BY <1>5, Wakes DEF VolumeReady, TypeOK
<1>6. CASE CollectChild(n) \/ DeleteSnapshot(n)
  <2>1. RemoveSnapshot(n) /\ deletions' \in 0..MaxDeletions
    BY <1>6, TreeAssumption DEF CollectChild, DeleteSnapshot, TypeOK
  <2>2. [snap[n] EXCEPT !.ex = "gone"] \in Snapshot
    BY <1>0 DEF Snapshot
  <2>3. snap' \in [Nodes -> Snapshot]
    BY <2>1, <2>2 DEF RemoveSnapshot, TypeOK
  <2>4. queued' \subseteq Queues \X Nodes
    BY <2>1, Wakes DEF RemoveSnapshot, TypeOK
  <2>5. QED
    BY <2>1, <2>3, <2>4 DEF RemoveSnapshot, TypeOK
<1>7. CASE CollectRequests(n)
  BY <1>7, Wakes DEF CollectRequests, TypeOK
<1>8. CASE LoseArtifact(n)
  <2>1. queued' \subseteq Queues \X Nodes
    BY <1>8, Wakes DEF LoseArtifact, TypeOK
  <2>2. losses' \in 0..MaxLosses
    BY <1>8, TreeAssumption DEF LoseArtifact, TypeOK
  <2>3. QED
    BY <1>8, <2>1, <2>2 DEF LoseArtifact, TypeOK
<1>9. QED
  BY <1>1, <1>2, <1>3, <1>4, <1>5, <1>6, <1>7, <1>8 DEF Environment

\* The steps of the SnapshotContent controller keep the types.
LEMMA PassType ==
    ASSUME TypeOK, NEW q \in Queues, NEW n \in Nodes, ContentPass(q, n)
    PROVE  TypeOK'
<1> USE DEF artifacts, budgets, history
<1> DEFINE p == pass[<<q, n>>]
<1>0. /\ snap[n] \in Snapshot /\ content[n] \in Content
      /\ <<q, n>> \in Queues \X Nodes /\ p \in Pass
  BY DEF TypeOK
<1>1. CASE latchBoundSnapshotDeletedForMissingOwner(q, n)
  <2>1. [content[n] EXCEPT !.ownerGone = TRUE] \in Content
    BY <1>0 DEF Content
  <2>2. content' \in [Nodes -> Content]
    BY <1>1, <2>1 DEF latchBoundSnapshotDeletedForMissingOwner, TypeOK
  <2>3. queued' \subseteq Queues \X Nodes
    BY <1>1, Wakes DEF latchBoundSnapshotDeletedForMissingOwner, Taken, TypeOK
  <2>4. QED
    BY <1>1, <2>2, <2>3 DEF latchBoundSnapshotDeletedForMissingOwner, TypeOK
<1>2. CASE Observe(q, n)
  <2>1. content' \in [Nodes -> Content]
    <3> DEFINE e == IF PublishEdges(n) THEN snap[n].declared ELSE content[n].edges
               m == content[n].named \/ PublishName(n)
               d == content[n].data \/ PublishData(n)
               new == [content[n] EXCEPT !.edges = e, !.named = m, !.data = d]
    <3>1. e \in SUBSET Nodes /\ m \in BOOLEAN /\ d \in BOOLEAN
      BY <1>0 DEF Content, Snapshot
    <3>2. content' = [content EXCEPT ![n].edges = e, ![n].named = m, ![n].data = d]
      BY <1>2 DEF Observe
    <3> HIDE DEF e, m, d
    <3>3. new \in Content
      BY <1>0, <3>1 DEF Content
    <3>4. content' = [content EXCEPT ![n] = new]
      BY <3>2 DEF TypeOK
    <3> HIDE DEF new
    <3>5. QED
      BY <3>3, <3>4 DEF TypeOK
  <2> DEFINE ow == [phase |-> snap[n].phase, captured |-> snap[n].captured,
                    ready |-> snap[n].ready]
             new == [NoPass EXCEPT !.pc = "derive", !.ob = content[n], !.ow = ow,
                       !.pend = DataPending(n), !.term = DataFailed(n),
                       !.rq = EdgesPending(n) \/ NamePending(n)]
  <2>2. pass' \in [Queues \X Nodes -> Pass]
    <3>1. ow \in Owner
      BY <1>0 DEF Snapshot, Owner
    <3>2. DataPending(n) \in BOOLEAN /\ DataFailed(n) \in BOOLEAN
      BY DEF DataPending, DataFailed
    <3>3. new \in Pass
      <4> DEFINE a == DataPending(n)
                 b == DataFailed(n)
                 c == EdgesPending(n) \/ NamePending(n)
      <4>1. a \in BOOLEAN /\ b \in BOOLEAN /\ c \in BOOLEAN
        BY <3>2
      <4> HIDE DEF a, b, c, ow
      <4>2. [NoPass EXCEPT !.pc = "derive", !.ob = content[n], !.ow = ow,
               !.pend = a, !.term = b, !.rq = c] \in Pass
        BY <1>0, <3>1, <4>1, Nothings DEF Pass
      <4>3. QED
        BY <4>2 DEF a, b, c
    <3>4. pass' = [pass EXCEPT ![<<q, n>>] = new]
      BY <1>2 DEF Observe
    <3>5. QED
      BY <1>0, <3>3, <3>4 DEF TypeOK
  <2>3. queued' \subseteq Queues \X Nodes
    BY <1>2, Wakes DEF Observe, Taken, TypeOK
  <2>4. QED
    BY <1>2, <2>1, <2>2, <2>3 DEF Observe, TypeOK
<1>3. CASE Derive(q, n)
  <2> DEFINE m == ManifestLeg(n, p.ob, p.ow)
             legs == [manifests |-> m, data |-> DataLeg(n, p.ob, m, p.pend, p.term),
                      children |-> validateCommonContentChildren(n, p.ob)]
             persisted == computeSubtreeManifestsPersisted(n, p.ob, m)
             ready == applyDomainPhaseFold(p.ow.phase, deriveReadyStatus(legs, persisted))
             same == p.ob.legs = legs /\ p.ob.ready = ready /\ p.ob.persisted = persisted
  <2>1. pass' \in [Queues \X Nodes -> Pass]
    <3>0. p.ob \in Content /\ p.ow \in Owner /\ p.pend \in BOOLEAN /\ p.term \in BOOLEAN
      BY <1>0 DEF Pass
    <3>1. legs \in Legs
      BY <3>0, DerivedTypes DEF Legs
    <3>2. ready \in ContentReady
      BY <3>0, DerivedTypes DEF Owner
    <3>3. persisted \in BOOLEAN
      BY <3>0, DerivedTypes
    <3> DEFINE new == [NoPass EXCEPT !.ob = p.ob, !.ow = p.ow, !.rq = p.rq,
                         !.pc = IF same THEN "legs" ELSE "write",
                         !.legs = IF same THEN NoLegs ELSE legs,
                         !.ready = IF same THEN "None" ELSE ready,
                         !.persisted = ~same /\ persisted]
    <3>4. pass' = [pass EXCEPT ![<<q, n>>] = new]
      BY <1>3 DEF Derive
    <3>5. same \in BOOLEAN
      OBVIOUS
    <3> HIDE DEF legs, ready, persisted, same
    <3>6. new \in Pass
      <4> DEFINE l == IF same THEN NoLegs ELSE legs
                 d == IF same THEN "None" ELSE ready
                 b == ~same /\ persisted
                 c == IF same THEN "legs" ELSE "write"
      <4>1. l \in Legs /\ d \in ContentReady /\ b \in BOOLEAN /\ c \in {"legs", "write"}
        BY <3>1, <3>2, <3>3, <3>5, Nothings DEF ContentReady
      <4>2. p.rq \in BOOLEAN
        BY <1>0 DEF Pass
      <4> HIDE DEF l, d, b, c
      <4>3. [NoPass EXCEPT !.ob = p.ob, !.ow = p.ow, !.rq = p.rq, !.pc = c, !.legs = l,
               !.ready = d, !.persisted = b] \in Pass
        BY <3>0, <4>1, <4>2, Nothings DEF Pass
      <4>4. QED
        BY <4>3 DEF l, d, b, c
    <3>7. QED
      BY <1>0, <3>4, <3>6 DEF TypeOK
  <2>2. mcp' \in [Nodes -> {"none", "ready", "owned", "failed", "damaged", "gone"}]
    BY <1>3 DEF Derive, ensureManifestCheckpointOwnedByContent, TypeOK
  <2>3. queued' \subseteq Queues \X Nodes
    BY <1>3, Wakes DEF Derive, TypeOK
  <2>4. QED
    BY <1>3, <2>1, <2>2, <2>3 DEF Derive, TypeOK
<1>4. CASE WriteStatus(q, n)
  <2>1. content' \in [Nodes -> Content]
    BY <1>0, <1>4 DEF WriteStatus, TypeOK, Content, Pass
  <2>2. pass' \in [Queues \X Nodes -> Pass]
    BY <1>0, <1>4, Nothings DEF WriteStatus, TypeOK, Content, Pass
  <2>3. queued' \subseteq Queues \X Nodes
    BY <1>4, Wakes DEF WriteStatus, TypeOK
  <2>4. QED
    BY <1>4, <2>1, <2>2, <2>3 DEF WriteStatus, TypeOK
<1>5. CASE reconcileOwnerCaptureLegs(q, n)
  <2> DEFINE s == snap[n]
             captured == s.captured \/ (s.req /\ ManifestCaptureRequestSafeToDelete(n))
             data == \/ s.dataCaptured
                     \/ /\ s.vreq /\ observeOwnerDataLegVCR(n)
                        /\ VolumeCaptureRequestSafeToDeleteWithHandoff(n)
             held == [s EXCEPT !.captured = captured, !.dataCaptured = data]
             new == LatchTree(held, n, p.ob)
             rq == p.rq \/ (s.vreq /\ ~data) \/ ~new.planned \/ (s.declared # {} /\ ~new.settled)
  <2>1. new \in Snapshot
    <3>1. captured \in BOOLEAN /\ data \in BOOLEAN
      BY <1>0 DEF Snapshot
    <3> HIDE DEF captured, data
    <3>2. held \in Snapshot
      BY <1>0, <3>1 DEF Snapshot
    <3> HIDE DEF held
    <3>3. QED
      BY <3>2, LatchTreeKeeps
  <2>2. \/ /\ snap' = [snap EXCEPT ![n] = new]
           /\ mcr' = [mcr EXCEPT ![n] = IF s.req /\ captured THEN "none" ELSE @]
           /\ vcr' = [vcr EXCEPT ![n] = IF s.vreq /\ data THEN "none" ELSE @]
           /\ pass' = [pass EXCEPT ![<<q, n>>] = [p EXCEPT !.pc = "mirror", !.rq = rq]]
        \/ /\ pass' = [pass EXCEPT ![<<q, n>>] = [p EXCEPT !.pc = "mirror"]]
           /\ UNCHANGED <<snap, mcr, vcr>>
    BY <1>5 DEF reconcileOwnerCaptureLegs
  <2>3. queued' \subseteq Queues \X Nodes
    BY <1>5, Wakes DEF reconcileOwnerCaptureLegs, TypeOK
  <2>4. rq \in BOOLEAN /\ captured \in BOOLEAN /\ data \in BOOLEAN
    OBVIOUS
  <2>5. UNCHANGED <<content, mcp, vsc, budgets, history>>
    BY <1>5 DEF reconcileOwnerCaptureLegs
  <2> HIDE DEF captured, data, held, new, rq
  <2>6. pass' \in [Queues \X Nodes -> Pass]
    <3>1. [p EXCEPT !.pc = "mirror", !.rq = rq] \in Pass /\ [p EXCEPT !.pc = "mirror"] \in Pass
      BY <1>0, <2>4 DEF Pass
    <3> DEFINE one == [p EXCEPT !.pc = "mirror", !.rq = rq]
               two == [p EXCEPT !.pc = "mirror"]
    <3>2. pass' = [pass EXCEPT ![<<q, n>>] = one] \/ pass' = [pass EXCEPT ![<<q, n>>] = two]
      BY <2>2
    <3> HIDE DEF one, two
    <3>3. one \in Pass /\ two \in Pass /\ pass \in [Queues \X Nodes -> Pass]
      BY <3>1 DEF one, two, TypeOK
    <3>4. QED
      BY <1>0, <3>2, <3>3
  <2>7. snap' \in [Nodes -> Snapshot]
    BY <2>1, <2>2 DEF TypeOK
  <2>8. /\ mcr' \in [Nodes -> {"none", "open", "named"}]
        /\ vcr' \in [Nodes -> {"none", "pending", "ready", "failed"}]
    BY <2>2, <2>4 DEF TypeOK
  <2>9. QED
    BY <2>3, <2>5, <2>6, <2>7, <2>8 DEF TypeOK
<1>6. CASE mirrorReadyToOwnerSnapshot(q, n)
  <2>1. snap' \in [Nodes -> Snapshot]
    BY <1>0, <1>6, DerivedTypes DEF mirrorReadyToOwnerSnapshot, TypeOK, Snapshot, SnapReady, Pass, Owner, Content
  <2>2. pass' \in [Queues \X Nodes -> Pass]
    BY <1>0, <1>6, Nothings DEF mirrorReadyToOwnerSnapshot, TypeOK
  <2>3. queued' \subseteq Queues \X Nodes
    BY <1>0, <1>6, Wakes DEF mirrorReadyToOwnerSnapshot, TypeOK
  <2>4. QED
    BY <1>6, <2>1, <2>2, <2>3 DEF mirrorReadyToOwnerSnapshot, TypeOK
<1>7. QED
  BY <1>1, <1>2, <1>3, <1>4, <1>5, <1>6 DEF ContentPass

\* Every reachable state of the tree is well typed: a pass never carries a
\* status, a phase or a latch the API does not have.
THEOREM TypeCorrect == Spec => []TypeOK
<1>1. TypeOK /\ [Next]_vars => TypeOK'
  <2> SUFFICES ASSUME TypeOK, [Next]_vars PROVE TypeOK'
    OBVIOUS
  <2>1. CASE UNCHANGED vars
    BY <2>1 DEF vars, TypeOK
  <2>2. CASE Next
    BY <2>2, PassType, DomainType, EnvironmentType DEF Next
  <2>3. QED
    BY <2>1, <2>2
<1>2. QED
  BY <1>1, InitType, PTL DEF Spec

-----------------------------------------------------------------------------
(* The inductive invariant of the tree. *)

\* The subtree of n may be called persisted: the request is placed (so that
\* the declared set is closed), the checkpoint handed over, every child linked.
Complete(n) ==
    /\ snap[n].req
    /\ Handed(n)
    /\ \A c \in snap[n].declared : c \in content[n].edges /\ content[c].persisted

\* A request comes before its checkpoint, and there is one at most.
RequestsInOrder ==
    \A n \in Nodes :
        /\ ~snap[n].req => mcr[n] = "none" /\ mcp[n] = "none"
        /\ mcr[n] = "open" => mcp[n] = "none"

\* What a pass remembers of its content, stale as it is, is still true of it.
StaleButTrue ==
    \A q \in Queues, n \in Nodes :
        LET p == pass[<<q, n>>] IN
        p.pc # "idle" =>
            /\ p.ob.edges \subseteq content[n].edges
            /\ p.ob.persisted => content[n].persisted /\ snap[n].declared \subseteq p.ob.edges

\* A plan that is about to be written is still right.
PlansHold ==
    \A q \in Queues, n \in Nodes :
        LET p == pass[<<q, n>>] IN
        p.pc = "write" =>
            /\ p.ob.persisted => p.persisted
            /\ p.persisted => Complete(n)
            /\ p.ready = "Completed" => p.persisted /\ snap[n].declared \subseteq everReady

\* The one-way facts of a content.
ContentsHold ==
    \A n \in Nodes :
        /\ content[n].persisted => Complete(n)
        /\ content[n].ready = "Completed" => n \in everReady
        /\ n \in everReady => snap[n].req /\ snap[n].declared \subseteq everReady

\* The pre-gate of the manifest walk.
KidsHold ==
    \A n \in Nodes : snap[n].kids = "true" =>
        /\ ownerChildSetFrozen(snap[n].phase)
        /\ \A c \in snap[n].declared : c \in content[n].edges /\ content[c].persisted

TreeInv ==
    TypeOK /\ RequestsInOrder /\ StaleButTrue /\ PlansHold /\ ContentsHold /\ KidsHold

-----------------------------------------------------------------------------
(* What one step of anybody may do, state component by state component. *)

\* A snapshot's declared set grows only while its domain plans; the phase and
\* the latches go one way, and each latch is set for its reason only.
SnapshotsMove ==
    \A x \in Nodes :
        /\ snap[x].req => snap'[x].req
        /\ \/ snap'[x].declared = snap[x].declared
           \/ ~ownerChildSetFrozen(snap[x].phase) /\ (Ordered => ~snap[x].req)
        /\ ownerChildSetFrozen(snap[x].phase) => ownerChildSetFrozen(snap'[x].phase)
        /\ snap'[x].kids = "true" =>
              \/ snap[x].kids = "true"
              \/ /\ ownerChildSetFrozen(snap[x].phase)
                 /\ \E q \in Queues :
                       /\ pass[<<q, x>>].pc = "legs"
                       /\ \/ pass[<<q, x>>].ob.persisted
                          \/ aggregateChildrenSubtreeManifestsPersisted(x, pass[<<q, x>>].ob)
        /\ snap[x].planned => snap'[x].planned
        /\ snap'[x].planned =>
              \/ snap[x].planned
              \/ /\ ownerChildSetFrozen(snap[x].phase)
                 /\ \A c \in snap[x].declared : snap[c].planned

\* A write that touches neither the child set, nor the phase, nor a latch
\* (and does not take the request back) moves the snapshots so.
LEMMA SmallMove ==
    ASSUME TypeOK, NEW n \in Nodes, NEW new, snap' = [snap EXCEPT ![n] = new],
           snap[n].req => new.req, new.declared = snap[n].declared,
           new.phase = snap[n].phase, new.kids = snap[n].kids, new.planned = snap[n].planned
    PROVE  SnapshotsMove
<1>1. snap'[n] = new /\ \A x \in Nodes \ {n} : snap'[x] = snap[x]
  BY DEF TypeOK
<1>2. QED
  BY <1>1 DEF SnapshotsMove

\* The steps of the domains move the snapshots so.
LEMMA DomainMoves ==
    ASSUME TypeOK, NEW n \in Nodes, Domain(n) \/ DomainFails(n)
    PROVE  SnapshotsMove
<1> USE DEF ownerChildSetFrozen
<1>0. snap[n] \in Snapshot
  BY DEF TypeOK
<1>1. CASE EnsureChildren(n)
  <2>1. PICK D \in SUBSET (Kids[n] \ snap[n].declared) :
           snap' = [c \in Nodes |->
                IF c = n THEN [snap[n] EXCEPT !.declared = @ \cup D]
                ELSE IF c \in D /\ snap[c].ex = "none" THEN [snap[c] EXCEPT !.ex = "alive"]
                ELSE snap[c]]
    BY <1>1 DEF EnsureChildren
  <2>2. ~ownerChildSetFrozen(snap[n].phase) /\ (Ordered => ~snap[n].req)
    BY <1>1 DEF EnsureChildren, InPlanning
  <2>3. QED
    BY <1>0, <2>1, <2>2 DEF TypeOK, Snapshot, SnapshotsMove
<1>2. CASE EnsureVolumeCapture(n) \/ EnsureManifestCapture(n) \/ CaptureAfterSubtree(n)
  <2>1. \/ snap' = [snap EXCEPT ![n] = [snap[n] EXCEPT !.vreq = TRUE]]
        \/ snap' = [snap EXCEPT ![n] = [snap[n] EXCEPT !.req = TRUE]]
    BY <1>2 DEF EnsureVolumeCapture, EnsureManifestCapture, CaptureAfterSubtree, UpdateSnapshot
  <2>2. QED
    BY <1>0, <2>1, SmallMove DEF Snapshot
<1>3. CASE Announce(n)
  <2>1. snap' = [snap EXCEPT ![n] = [snap[n] EXCEPT !.phase = "Planning"]]
    BY <1>3 DEF Announce, UpdateSnapshot
  <2>2. snap[n].phase = "None"
    BY <1>3 DEF Announce
  <2>3. QED
    BY <1>0, <2>1, <2>2 DEF TypeOK, Snapshot, SnapshotsMove
<1>4. CASE FailPlanning(n)
  <2>1. snap' = [snap EXCEPT ![n] = [snap[n] EXCEPT !.phase = "Failed", !.ready = "Failed"]]
    BY <1>4 DEF FailPlanning, UpdateSnapshot
  <2>2. QED
    BY <1>0, <2>1 DEF TypeOK, Snapshot, SnapshotsMove
<1>5. CASE PlanCapture(n) \/ FinishCapture(n) \/ FailCapture(n) \/ DomainFails(n)
  <2>1. PICK ph \in {"Planned", "Finished", "Failed"} :
           snap' = [snap EXCEPT ![n] = [snap[n] EXCEPT !.phase = ph]]
    BY <1>5 DEF PlanCapture, FinishCapture, FailCapture, DomainFails, UpdateSnapshot
  <2>2. QED
    BY <1>0, <2>1 DEF TypeOK, Snapshot, SnapshotsMove
<1>6. QED
  BY <1>1, <1>2, <1>3, <1>4, <1>5 DEF Domain

\* So do the steps of everybody else outside the content controller.
LEMMA EnvironmentMoves ==
    ASSUME TypeOK, NEW n \in Nodes, Environment(n) \/ LoseArtifact(n) \/ DeleteSnapshot(n)
    PROVE  SnapshotsMove
<1>0. snap[n] \in Snapshot
  BY DEF TypeOK
<1>1. UNCHANGED snap \/ snap' = [snap EXCEPT ![n] = [snap[n] EXCEPT !.ex = "gone"]]
  BY DEF Environment, LoseArtifact, DeleteSnapshot, BindContent, CaptureManifest, CaptureVolume,
         markBoundSnapshotDeletedOnContent, VolumeReady, CollectChild, CollectRequests,
         RemoveSnapshot
<1>2. CASE UNCHANGED snap
  BY <1>2 DEF SnapshotsMove
<1>3. CASE snap' = [snap EXCEPT ![n] = [snap[n] EXCEPT !.ex = "gone"]]
  BY <1>0, <1>3, SmallMove DEF Snapshot
<1>4. QED
  BY <1>1, <1>2, <1>3

\* And so do the passes of the content controller.
LEMMA PassMoves ==
    ASSUME TypeOK, NEW q \in Queues, NEW n \in Nodes, ContentPass(q, n)
    PROVE  SnapshotsMove
<1> DEFINE p == pass[<<q, n>>]
           s == snap[n]
<1>0. s \in Snapshot
  BY DEF TypeOK
<1>1. CASE latchBoundSnapshotDeletedForMissingOwner(q, n) \/ Observe(q, n)
             \/ Derive(q, n) \/ WriteStatus(q, n)
  <2>1. UNCHANGED snap
    BY <1>1 DEF latchBoundSnapshotDeletedForMissingOwner, Observe, Derive, WriteStatus
  <2>2. QED
    BY <2>1 DEF SnapshotsMove
<1>2. CASE mirrorReadyToOwnerSnapshot(q, n)
  <2>1. PICK r : snap' = [snap EXCEPT ![n].ready = r]
    BY <1>2 DEF mirrorReadyToOwnerSnapshot
  <2>2. QED
    BY <1>0, <2>1 DEF TypeOK, Snapshot, SnapshotsMove
<1>3. CASE reconcileOwnerCaptureLegs(q, n)
  <2> DEFINE kids == p.ob.persisted \/ aggregateChildrenSubtreeManifestsPersisted(n, p.ob)
             below == allDirectChildrenSubtreePlanned(n)
             captured == s.captured \/ (s.req /\ ManifestCaptureRequestSafeToDelete(n))
             data == \/ s.dataCaptured
                     \/ /\ s.vreq /\ observeOwnerDataLegVCR(n)
                        /\ VolumeCaptureRequestSafeToDeleteWithHandoff(n)
             held == [s EXCEPT !.captured = captured, !.dataCaptured = data]
  <2>1. CASE UNCHANGED snap
    BY <2>1 DEF SnapshotsMove
  <2>2. CASE ~UNCHANGED snap
    <3>1. p.pc = "legs" /\ ownerChildSetFrozen(s.phase)
      BY <1>3, <2>2 DEF reconcileOwnerCaptureLegs, ownerChildSetFrozen,
                        ownerDomainCaptureAtLeastPlanned
    <3>2. snap' = [snap EXCEPT ![n] = LatchTree(held, n, p.ob)]
      BY <1>3, <2>2 DEF reconcileOwnerCaptureLegs
    <3>3. below => \A c \in s.declared : snap[c].planned
      BY DEF allDirectChildrenSubtreePlanned
    <3>4. snap' = [snap EXCEPT ![n] = snap'[n]]
      BY <3>2 DEF TypeOK
    <3>5. /\ snap'[n].req = s.req /\ snap'[n].declared = s.declared
          /\ snap'[n].phase = s.phase
          /\ snap'[n].kids = IF s.kids = "true" \/ kids THEN "true" ELSE "false"
          /\ snap'[n].planned = (s.planned \/ below)
      <4>1. captured \in BOOLEAN /\ data \in BOOLEAN
        BY <1>0 DEF Snapshot
      <4> HIDE DEF captured, data
      <4>2. /\ held \in Snapshot
            /\ held.req = s.req /\ held.declared = s.declared
            /\ held.phase = s.phase /\ held.kids = s.kids /\ held.planned = s.planned
        BY <1>0, <4>1 DEF Snapshot
      <4> HIDE DEF held
      <4>3. snap'[n] = LatchTree(held, n, p.ob)
        BY <3>2 DEF TypeOK
      <4>4. QED
        BY <4>2, <4>3, LatchTreeKeeps
    <3>6. ASSUME NEW x \in Nodes, x # n PROVE snap'[x] = snap[x]
      BY <3>4, <3>6 DEF TypeOK
    <3>7. QED
      BY <1>0, <3>1, <3>3, <3>5, <3>6 DEF SnapshotsMove
  <2>3. QED
    BY <2>1, <2>2
<1>4. QED
  BY <1>1, <1>2, <1>3 DEF ContentPass

\* Every step moves the snapshots so.
LEMMA StepMovesSnapshots == TypeOK /\ [Next]_vars => SnapshotsMove
<1> SUFFICES ASSUME TypeOK, [Next]_vars PROVE SnapshotsMove
  OBVIOUS
<1>1. CASE UNCHANGED vars
  BY <1>1 DEF vars, SnapshotsMove
<1>2. CASE Next
  BY <1>2, PassMoves, DomainMoves, EnvironmentMoves DEF Next
<1>3. QED
  BY <1>1, <1>2

\* subtreePlanned is deep: a snapshot is latched as planned only when its
\* child set is closed and each of its children is latched, and neither is
\* ever taken back.
THEOREM PlannedDeep == Spec => []PlannedIsDeep
<1>1. Init => PlannedIsDeep
  BY Nothings DEF Init, PlannedIsDeep, NoSnapshot
<1>2. TypeOK /\ PlannedIsDeep /\ [Next]_vars => PlannedIsDeep'
  BY StepMovesSnapshots DEF PlannedIsDeep, SnapshotsMove, ownerChildSetFrozen, TypeOK, Snapshot
<1>3. QED
  BY <1>1, <1>2, TypeCorrect, PTL DEF Spec

\* Edges are only added; the latch and Ready change by a status write only,
\* to what its plan says.
ContentsMove ==
    \A x \in Nodes :
        /\ content[x].edges \subseteq content'[x].edges
        /\ content'[x].persisted # content[x].persisted =>
              \E q \in Queues :
                  /\ pass[<<q, x>>].pc = "write"
                  /\ content'[x].persisted = pass[<<q, x>>].persisted
                  /\ pass[<<q, x>>].persisted # pass[<<q, x>>].ob.persisted
        /\ content'[x].ready = "Completed" => content[x].ready = "Completed" \/ x \in everReady'
        /\ x \in everReady => x \in everReady'
        /\ x \in everReady' =>
              \/ x \in everReady
              \/ \E q \in Queues :
                    pass[<<q, x>>].pc = "write" /\ pass[<<q, x>>].ready = "Completed"

\* Every step moves the contents so.
LEMMA StepMovesContents == TypeOK /\ [Next]_vars => ContentsMove
<1> SUFFICES ASSUME TypeOK, [Next]_vars PROVE ContentsMove
  OBVIOUS
<1> USE DEF history
<1>0. ASSUME UNCHANGED <<content, everReady>> PROVE ContentsMove
  BY <1>0 DEF ContentsMove
<1>1. ASSUME NEW n \in Nodes, NEW new, content' = [content EXCEPT ![n] = new], UNCHANGED everReady,
             content[n].edges \subseteq new.edges, new.persisted = content[n].persisted,
             new.ready = content[n].ready
      PROVE  ContentsMove
  <2>1. content'[n] = new /\ \A x \in Nodes \ {n} : content'[x] = content[x]
    BY <1>1 DEF TypeOK
  <2>2. QED
    BY <1>1, <2>1 DEF ContentsMove
<1>2. CASE UNCHANGED vars
  BY <1>0, <1>2 DEF vars
<1>3. ASSUME NEW n \in Nodes, Domain(n) \/ DomainFails(n) \/ LoseArtifact(n) \/ DeleteSnapshot(n)
      PROVE  ContentsMove
  <2>1. UNCHANGED <<content, everReady>>
    BY <1>3 DEF Domain, Announce, EnsureChildren, EnsureVolumeCapture, EnsureManifestCapture,
       PlanCapture, FailPlanning, CaptureAfterSubtree, FinishCapture, FailCapture, DomainFails,
       LoseArtifact, DeleteSnapshot, RemoveSnapshot
  <2>2. QED
    BY <1>0, <2>1
<1>4. ASSUME NEW n \in Nodes, Environment(n) PROVE ContentsMove
  <2>0. content[n] \in Content
    BY DEF TypeOK
  <2>1. CASE BindContent(n)
    <3>1. content' = [content EXCEPT ![n] = [content[n] EXCEPT !.ex = TRUE]] /\ UNCHANGED everReady
      BY <2>1 DEF BindContent
    <3>2. QED
      BY <1>1, <2>0, <3>1 DEF Content
  <2>2. CASE markBoundSnapshotDeletedOnContent(n)
    <3>1. /\ content' = [content EXCEPT ![n] = [content[n] EXCEPT !.ownerGone = TRUE]]
          /\ UNCHANGED everReady
      BY <2>2 DEF markBoundSnapshotDeletedOnContent
    <3>2. QED
      BY <1>1, <2>0, <3>1 DEF Content
  <2>3. CASE CaptureManifest(n) \/ CaptureVolume(n) \/ VolumeReady(n) \/ CollectChild(n)
               \/ CollectRequests(n)
    BY <1>0, <2>3 DEF CaptureManifest, CaptureVolume, VolumeReady, CollectChild, CollectRequests,
                      RemoveSnapshot
  <2>4. QED
    BY <1>4, <2>1, <2>2, <2>3 DEF Environment
<1>5. ASSUME NEW q \in Queues, NEW n \in Nodes, ContentPass(q, n) PROVE ContentsMove
  <2> DEFINE p == pass[<<q, n>>]
  <2>0. content[n] \in Content
    BY DEF TypeOK
  <2>1. CASE latchBoundSnapshotDeletedForMissingOwner(q, n)
    <3>1. /\ content' = [content EXCEPT ![n] = [content[n] EXCEPT !.ownerGone = TRUE]]
          /\ UNCHANGED everReady
      BY <2>1 DEF latchBoundSnapshotDeletedForMissingOwner
    <3>2. QED
      BY <1>1, <2>0, <3>1 DEF Content
  <2>2. CASE Observe(q, n)
    <3> DEFINE edges == IF PublishEdges(n) THEN snap[n].declared ELSE content[n].edges
               named == content[n].named \/ PublishName(n)
               data == content[n].data \/ PublishData(n)
               new == [content[n] EXCEPT !.edges = edges, !.named = named, !.data = data]
    <3>1. content' = [content EXCEPT ![n] = new] /\ UNCHANGED everReady
      BY <2>0, <2>2 DEF Observe, TypeOK
    <3>2. content[n].edges \subseteq edges
      BY DEF PublishEdges
    <3> HIDE DEF edges, named, data
    <3>3. /\ new.edges = edges /\ new.persisted = content[n].persisted
          /\ new.ready = content[n].ready
      BY <2>0 DEF Content
    <3>4. QED
      BY <1>1, <3>1, <3>2, <3>3
  <2>3. CASE Derive(q, n) \/ reconcileOwnerCaptureLegs(q, n) \/ mirrorReadyToOwnerSnapshot(q, n)
    BY <1>0, <2>3 DEF Derive, reconcileOwnerCaptureLegs, mirrorReadyToOwnerSnapshot
  <2>4. CASE WriteStatus(q, n)
    <3> DEFINE new == [content[n] EXCEPT
                  !.legs = p.legs, !.ready = p.ready,
                  !.persisted = IF p.persisted # p.ob.persisted THEN p.persisted ELSE @]
    <3>1. /\ p.pc = "write" /\ content' = [content EXCEPT ![n] = new]
          /\ everReady' = everReady \cup (IF p.ready = "Completed" THEN {n} ELSE {})
      BY <2>4 DEF WriteStatus
    <3>2. /\ new.edges = content[n].edges /\ new.ready = p.ready
          /\ new.persisted = IF p.persisted # p.ob.persisted THEN p.persisted
                             ELSE content[n].persisted
      BY <2>0 DEF Content
    <3>3. content'[n] = new /\ \A x \in Nodes \ {n} : content'[x] = content[x]
      BY <3>1 DEF TypeOK
    <3> HIDE DEF new
    <3>4. QED
      BY <3>1, <3>2, <3>3 DEF ContentsMove
  <2>5. QED
    BY <1>5, <2>1, <2>2, <2>3, <2>4 DEF ContentPass
<1>6. QED
  BY <1>2, <1>3, <1>4, <1>5 DEF Next

\* A request opens with its name in the owner's status; a checkpoint appears
\* for an open request and, once handed over, is only lost.
ArtifactsMove ==
    \A x \in Nodes :
        /\ mcr'[x] # "none" => mcr[x] # "none" \/ snap'[x].req
        /\ mcr'[x] = "open" => mcr[x] = "open" \/ ~snap[x].req
        /\ \/ mcp'[x] = mcp[x]
           \/ mcr[x] = "open" /\ mcr'[x] # "open"
           \/ mcp[x] \in {"ready", "failed", "owned"} /\ mcp'[x] \in {"owned", "damaged", "gone"}

\* Every step moves the manifest requests and checkpoints so.
LEMMA StepMovesArtifacts == TypeOK /\ [Next]_vars => ArtifactsMove
<1> SUFFICES ASSUME TypeOK, [Next]_vars PROVE ArtifactsMove
  OBVIOUS
<1> USE DEF artifacts
<1>0. ASSUME UNCHANGED <<mcr, mcp>> PROVE ArtifactsMove
  BY <1>0 DEF ArtifactsMove
<1>1. CASE UNCHANGED vars
  BY <1>0, <1>1 DEF vars
<1>2. ASSUME NEW n \in Nodes, Domain(n) \/ DomainFails(n) PROVE ArtifactsMove
  <2>1. CASE EnsureManifestCapture(n) \/ CaptureAfterSubtree(n)
    <3>1. /\ snap' = [snap EXCEPT ![n] = [snap[n] EXCEPT !.req = TRUE]]
          /\ mcr' = [mcr EXCEPT ![n] = "open"] /\ UNCHANGED mcp /\ ~snap[n].req
      BY <2>1 DEF EnsureManifestCapture, CaptureAfterSubtree, UpdateSnapshot
    <3>2. snap'[n].req
      BY <3>1 DEF TypeOK, Snapshot
    <3>3. QED
      BY <3>1, <3>2 DEF ArtifactsMove, TypeOK
  <2>2. CASE UNCHANGED <<mcr, mcp>>
    BY <1>0, <2>2
  <2>3. QED
    BY <1>2, <2>1, <2>2 DEF Domain, Announce, EnsureChildren, EnsureVolumeCapture,
       PlanCapture, FailPlanning, FinishCapture, FailCapture, DomainFails
<1>3. ASSUME NEW n \in Nodes, Environment(n) \/ LoseArtifact(n) \/ DeleteSnapshot(n)
      PROVE  ArtifactsMove
  <2>1. CASE CaptureManifest(n)
    BY <2>1 DEF CaptureManifest, ArtifactsMove, TypeOK
  <2>2. CASE CollectRequests(n)
    BY <2>2 DEF CollectRequests, ArtifactsMove, TypeOK
  <2>3. CASE LoseArtifact(n)
    BY <2>3 DEF LoseArtifact, ArtifactsMove, TypeOK
  <2>4. CASE UNCHANGED <<mcr, mcp>>
    BY <1>0, <2>4
  <2>5. QED
    BY <1>3, <2>1, <2>2, <2>3, <2>4 DEF Environment, BindContent, CaptureVolume, VolumeReady,
       markBoundSnapshotDeletedOnContent, CollectChild, DeleteSnapshot, RemoveSnapshot
<1>4. ASSUME NEW q \in Queues, NEW n \in Nodes, ContentPass(q, n) PROVE ArtifactsMove
  <2>1. CASE Derive(q, n)
    <3>1. /\ mcp' = [mcp EXCEPT ![n] = ensureManifestCheckpointOwnedByContent(n, pass[<<q, n>>].ob)]
          /\ UNCHANGED mcr
      BY <2>1 DEF Derive
    <3>2. QED
      BY <3>1 DEF ensureManifestCheckpointOwnedByContent, ArtifactsMove, TypeOK
  <2>2. CASE reconcileOwnerCaptureLegs(q, n)
    <3> DEFINE reap == snap[n].req /\ (snap[n].captured
                           \/ (snap[n].req /\ ManifestCaptureRequestSafeToDelete(n)))
    <3>1. /\ UNCHANGED mcp
          /\ UNCHANGED mcr \/ mcr' = [mcr EXCEPT ![n] = IF reap THEN "none" ELSE @]
      BY <2>2 DEF reconcileOwnerCaptureLegs
    <3> HIDE DEF reap
    <3>2. QED
      BY <3>1 DEF ArtifactsMove, TypeOK
  <2>3. CASE UNCHANGED <<mcr, mcp>>
    BY <1>0, <2>3
  <2>4. QED
    BY <1>4, <2>1, <2>2, <2>3 DEF ContentPass, latchBoundSnapshotDeletedForMissingOwner, Observe,
       WriteStatus, mirrorReadyToOwnerSnapshot
<1>5. QED
  BY <1>1, <1>2, <1>3, <1>4 DEF Next

\* A pass begins with the content as it is, derives its plan from that copy
\* and the live children, and goes on with the reply to its own write: what a
\* step makes of the pass p of the node x.
Moved(x, p, r) ==
    \/ r = p
    \/ r.pc = "idle"
    \/ r.pc = "derive" /\ r.ob = content[x]
    \/ p.pc = "derive" /\ r.pc = "legs" /\ r.ob = p.ob
    \/ /\ p.pc = "derive" /\ r.pc = "write" /\ r.ob = p.ob
       /\ UNCHANGED <<snap, content, everReady>>
       /\ mcp'[x] = ensureManifestCheckpointOwnedByContent(x, p.ob)
       /\ r.persisted = computeSubtreeManifestsPersisted(x, p.ob, ManifestLeg(x, p.ob, p.ow))
       /\ r.ready = "Completed" =>
             r.persisted /\ validateCommonContentChildren(x, p.ob) = "OK"
    \/ p.pc = "write" /\ r.pc = "legs" /\ r.ob = content'[x]
    \/ p.pc = "legs" /\ r.pc = "mirror" /\ r.ob = p.ob

PassesMove ==
    \A q \in Queues, x \in Nodes : Moved(x, pass[<<q, x>>], pass'[<<q, x>>])

\* A step that replaces one pass by one it may become moves the passes so: it
\* leaves the other passes as they are.
LEMMA OnePassMoves ==
    ASSUME TypeOK, NEW q \in Queues, NEW n \in Nodes, NEW new,
           pass' = [pass EXCEPT ![<<q, n>>] = new], Moved(n, pass[<<q, n>>], new)
    PROVE  PassesMove
<1>1. <<q, n>> \in Queues \X Nodes /\ DOMAIN pass = Queues \X Nodes
  BY DEF TypeOK
<1>2. pass'[<<q, n>>] = new
  BY <1>1
<1>3. ASSUME NEW w \in Queues, NEW x \in Nodes, <<w, x>> # <<q, n>>
      PROVE  Moved(x, pass[<<w, x>>], pass'[<<w, x>>])
  <2>1. pass'[<<w, x>>] = pass[<<w, x>>]
    BY <1>1, <1>3
  <2>2. QED
    BY <2>1 DEF Moved
<1>4. ASSUME NEW w \in Queues, NEW x \in Nodes
      PROVE  Moved(x, pass[<<w, x>>], pass'[<<w, x>>])
  <2>1. CASE <<w, x>> = <<q, n>>
    <3>1. w = q /\ x = n
      BY <2>1
    <3>2. QED
      BY <1>2, <3>1
  <2>2. QED
    BY <1>3, <2>1
<1>5. QED
  BY <1>4 DEF PassesMove

\* Every step moves the passes so.
LEMMA StepMovesPasses == TypeOK /\ [Next]_vars => PassesMove
<1> SUFFICES ASSUME TypeOK, [Next]_vars PROVE PassesMove
  OBVIOUS
<1> USE DEF history
<1>0. ASSUME UNCHANGED pass PROVE PassesMove
  BY <1>0 DEF PassesMove, Moved
<1>1. CASE UNCHANGED vars
  BY <1>0, <1>1 DEF vars
<1>2. ASSUME NEW n \in Nodes, Domain(n) \/ DomainFails(n) \/ Environment(n) \/ LoseArtifact(n)
                                \/ DeleteSnapshot(n)
      PROVE  PassesMove
  <2>1. UNCHANGED pass
    BY <1>2 DEF Domain, Announce, EnsureChildren, EnsureVolumeCapture, EnsureManifestCapture,
       PlanCapture, FailPlanning, CaptureAfterSubtree, FinishCapture, FailCapture, DomainFails,
       LoseArtifact, DeleteSnapshot, RemoveSnapshot, Environment, BindContent, CaptureManifest,
       CaptureVolume, VolumeReady, markBoundSnapshotDeletedOnContent, CollectChild, CollectRequests
  <2>2. QED
    BY <1>0, <2>1
<1>3. ASSUME NEW q \in Queues, NEW n \in Nodes, ContentPass(q, n) PROVE PassesMove
  <2> DEFINE p == pass[<<q, n>>]
  <2>0. p \in Pass /\ p.ob \in Content
    BY DEF TypeOK, Pass
  <2>1. ASSUME NEW new, pass' = [pass EXCEPT ![<<q, n>>] = new], Moved(n, p, new)
        PROVE  PassesMove
    BY <2>1, OnePassMoves
  <2> HIDE DEF p
  <2>2. CASE latchBoundSnapshotDeletedForMissingOwner(q, n)
    BY <1>0, <2>2 DEF latchBoundSnapshotDeletedForMissingOwner
  <2>3. CASE Observe(q, n)
    <3> DEFINE ow == [phase |-> snap[n].phase, captured |-> snap[n].captured,
                      ready |-> snap[n].ready]
               new == [NoPass EXCEPT !.pc = "derive", !.ob = content[n], !.ow = ow,
                         !.pend = DataPending(n), !.term = DataFailed(n),
                         !.rq = EdgesPending(n) \/ NamePending(n)]
    <3>1. pass' = [pass EXCEPT ![<<q, n>>] = new]
      BY <2>3 DEF Observe
    <3>2. new.pc = "derive" /\ new.ob = content[n]
      BY DEF NoPass
    <3> HIDE DEF new
    <3>3. Moved(n, p, new)
      BY <3>2 DEF Moved
    <3>4. QED
      BY <2>1, <3>1, <3>3
  <2>4. CASE Derive(q, n)
    <3> DEFINE m == ManifestLeg(n, p.ob, p.ow)
               legs == [manifests |-> m, data |-> DataLeg(n, p.ob, m, p.pend, p.term),
                        children |-> validateCommonContentChildren(n, p.ob)]
               persisted == computeSubtreeManifestsPersisted(n, p.ob, m)
               ready == applyDomainPhaseFold(p.ow.phase, deriveReadyStatus(legs, persisted))
               same == p.ob.legs = legs /\ p.ob.ready = ready /\ p.ob.persisted = persisted
               new == [NoPass EXCEPT !.ob = p.ob, !.ow = p.ow, !.rq = p.rq,
                         !.pc = IF same THEN "legs" ELSE "write",
                         !.legs = IF same THEN NoLegs ELSE legs,
                         !.ready = IF same THEN "None" ELSE ready,
                         !.persisted = ~same /\ persisted]
    <3>1. /\ p.pc = "derive" /\ pass' = [pass EXCEPT ![<<q, n>>] = new]
          /\ mcp' = [mcp EXCEPT ![n] = ensureManifestCheckpointOwnedByContent(n, p.ob)]
          /\ UNCHANGED <<snap, content, everReady>>
      BY <2>4 DEF Derive, p
    <3>2. persisted \in BOOLEAN /\ same \in BOOLEAN
      <4>1. p.ow \in Owner /\ p.pend \in BOOLEAN /\ p.term \in BOOLEAN
        BY <2>0 DEF Pass
      <4>2. QED
        BY <2>0, <4>1, DerivedTypes
    <3>3. ready = "Completed" => persisted /\ validateCommonContentChildren(n, p.ob) = "OK"
      <4>1. ready = "Completed" => deriveReadyStatus(legs, persisted) = "Completed"
        <5> HIDE DEF persisted, legs
        <5>1. p.ow.phase \in Phases
          BY <2>0 DEF Pass, Owner
        <5>2. QED
          BY <5>1 DEF applyDomainPhaseFold, Phases
      <4>2. deriveReadyStatus(legs, persisted) = "Completed"
               => persisted /\ legs.children \notin {"Failed", "Pending"}
        <5> HIDE DEF persisted, legs
        <5>1. QED
          BY <3>2 DEF deriveReadyStatus
      <4>3. validateCommonContentChildren(n, p.ob) \in {"OK", "Pending", "Failed"}
        BY DEF validateCommonContentChildren
      <4>4. QED
        BY <4>1, <4>2, <4>3
    <3>4. mcp'[n] = ensureManifestCheckpointOwnedByContent(n, p.ob)
      BY <3>1 DEF TypeOK
    <3> HIDE DEF legs, persisted, ready, same
    <3>5. /\ new.ob = p.ob
          /\ new.pc = IF same THEN "legs" ELSE "write"
          /\ ~same => new.ready = ready /\ new.persisted = persisted
      BY <3>2 DEF NoPass
    <3> HIDE DEF new
    <3>6. CASE same
      <4>1. p.pc = "derive" /\ new.pc = "legs" /\ new.ob = p.ob
        BY <3>1, <3>5, <3>6
      <4>2. Moved(n, p, new)
        BY <4>1 DEF Moved
      <4>3. QED
        BY <2>1, <3>1, <4>2
    <3>7. CASE ~same
      <4>1. /\ p.pc = "derive" /\ new.pc = "write" /\ new.ob = p.ob
            /\ new.persisted = persisted
            /\ new.ready = "Completed" =>
                  new.persisted /\ validateCommonContentChildren(n, p.ob) = "OK"
        BY <3>1, <3>3, <3>5, <3>7
      <4>2. new.persisted = computeSubtreeManifestsPersisted(n, p.ob, ManifestLeg(n, p.ob, p.ow))
        BY <4>1 DEF persisted
      <4>3. Moved(n, p, new)
        BY <3>1, <3>4, <4>1, <4>2 DEF Moved
      <4>4. QED
        BY <2>1, <3>1, <4>3
    <3>8. QED
      BY <3>2, <3>6, <3>7
  <2>5. CASE WriteStatus(q, n)
    <3> DEFINE new == [content[n] EXCEPT
                  !.legs = p.legs, !.ready = p.ready,
                  !.persisted = IF p.persisted # p.ob.persisted THEN p.persisted ELSE @]
               next == [NoPass EXCEPT !.pc = "legs", !.ob = new, !.ow = p.ow, !.rq = p.rq]
    <3>1. /\ p.pc = "write" /\ content' = [content EXCEPT ![n] = new]
          /\ pass' = [pass EXCEPT ![<<q, n>>] = next]
      BY <2>5 DEF WriteStatus, p
    <3>2. content'[n] = new
      BY <3>1 DEF TypeOK
    <3> HIDE DEF new
    <3>3. next.pc = "legs" /\ next.ob = new
      BY DEF NoPass
    <3> HIDE DEF next
    <3>4. Moved(n, p, next)
      BY <3>1, <3>2, <3>3 DEF Moved
    <3>5. QED
      BY <2>1, <3>1, <3>4
  <2>6. CASE reconcileOwnerCaptureLegs(q, n)
    <3>1. /\ p.pc = "legs"
          /\ \E rq : \/ pass' = [pass EXCEPT ![<<q, n>>] = [p EXCEPT !.pc = "mirror"]]
                     \/ pass' = [pass EXCEPT ![<<q, n>>] = [p EXCEPT !.pc = "mirror", !.rq = rq]]
      BY <2>6 DEF reconcileOwnerCaptureLegs, p
    <3>2. PICK rq : \/ pass' = [pass EXCEPT ![<<q, n>>] = [p EXCEPT !.pc = "mirror"]]
                    \/ pass' = [pass EXCEPT ![<<q, n>>] = [p EXCEPT !.pc = "mirror", !.rq = rq]]
      BY <3>1
    <3>3. ASSUME NEW new \in {[p EXCEPT !.pc = "mirror"], [p EXCEPT !.pc = "mirror", !.rq = rq]}
          PROVE  Moved(n, p, new)
      <4>1. new.pc = "mirror" /\ new.ob = p.ob
        BY <2>0 DEF Pass
      <4>2. QED
        BY <3>1, <4>1 DEF Moved
    <3>4. QED
      BY <2>1, <3>2, <3>3
  <2>7. CASE mirrorReadyToOwnerSnapshot(q, n)
    <3>1. pass' = [pass EXCEPT ![<<q, n>>] = NoPass]
      BY <2>7 DEF mirrorReadyToOwnerSnapshot
    <3>2. Moved(n, p, NoPass)
      BY DEF Moved, NoPass
    <3>3. QED
      BY <2>1, <3>1, <3>2
  <2>8. QED
    BY <1>3, <2>2, <2>3, <2>4, <2>5, <2>6, <2>7 DEF ContentPass
<1>4. QED
  BY <1>1, <1>2, <1>3 DEF Next

-----------------------------------------------------------------------------
(* The invariant is inductive for domains that close their child set before *)
(* they place their manifest request.                                       *)

\* The tree starts in the invariant.
LEMMA TreeInvInit == Init => TreeInv
<1> SUFFICES ASSUME Init PROVE TreeInv
  OBVIOUS
<1>1. TypeOK
  BY InitType
<1>2. \A q \in Queues, n \in Nodes : pass[<<q, n>>].pc = "idle"
  BY DEF Init, NoPass
<1>3. \A n \in Nodes : snap[n].kids = "nil" /\ ~content[n].persisted /\ content[n].ready = "None"
  BY DEF Init, NoSnapshot, NoContent
<1>4. QED
  BY <1>1, <1>2, <1>3
  DEF Init, TreeInv, RequestsInOrder, StaleButTrue, PlansHold, ContentsHold, KidsHold

\* Every step keeps the invariant.
LEMMA TreeInvStep ==
    ASSUME Ordered, TreeInv, [Next]_vars, TypeOK'
    PROVE  TreeInv'
<1>0. /\ TypeOK /\ RequestsInOrder /\ StaleButTrue /\ PlansHold /\ ContentsHold /\ KidsHold
      /\ SnapshotsMove /\ ContentsMove /\ ArtifactsMove /\ PassesMove
  BY StepMovesSnapshots, StepMovesContents, StepMovesArtifacts, StepMovesPasses DEF TreeInv
<1>1. RequestsInOrder'
  BY <1>0 DEF RequestsInOrder, SnapshotsMove, ArtifactsMove, TypeOK
<1>2. ASSUME NEW n \in Nodes, content[n].persisted PROVE content'[n].persisted
  <2>1. CASE content'[n].persisted = content[n].persisted
    BY <1>2, <2>1
  <2>2. CASE content'[n].persisted # content[n].persisted
    <3>1. PICK q \in Queues :
             /\ pass[<<q, n>>].pc = "write"
             /\ content'[n].persisted = pass[<<q, n>>].persisted
             /\ pass[<<q, n>>].persisted # pass[<<q, n>>].ob.persisted
      BY <1>0, <2>2 DEF ContentsMove
    <3>2. pass[<<q, n>>].ob.persisted => pass[<<q, n>>].persisted
      BY <1>0, <3>1 DEF PlansHold
    <3>3. pass[<<q, n>>].persisted \in BOOLEAN /\ pass[<<q, n>>].ob.persisted \in BOOLEAN
      BY <1>0 DEF TypeOK, Pass, Content
    <3>4. QED
      BY <3>1, <3>2, <3>3
  <2>3. QED
    BY <2>1, <2>2
<1>3. ASSUME NEW n \in Nodes, snap[n].req PROVE snap'[n].req /\ snap'[n].declared = snap[n].declared
  BY <1>0, <1>3 DEF SnapshotsMove
<1>4. ASSUME NEW n \in Nodes, Complete(n) PROVE Complete(n)'
  <2>1. snap'[n].req /\ snap'[n].declared = snap[n].declared /\ snap[n].declared \subseteq Nodes
    BY <1>0, <1>3, <1>4 DEF Complete, TypeOK, Snapshot
  <2>2. Handed(n)'
    BY <1>0, <1>4 DEF Complete, Handed, RequestsInOrder, ArtifactsMove
  <2>3. \A c \in snap'[n].declared : c \in content'[n].edges /\ content'[c].persisted
    BY <1>0, <1>2, <1>4, <2>1 DEF Complete, ContentsMove
  <2>4. QED
    BY <2>1, <2>2, <2>3 DEF Complete
<1>5. ContentsHold'
  <2>1. ASSUME NEW n \in Nodes, content'[n].persisted PROVE Complete(n)'
    <3>1. CASE content[n].persisted
      BY <1>0, <1>4, <3>1 DEF ContentsHold
    <3>2. CASE ~content[n].persisted
      <4>1. PICK q \in Queues : pass[<<q, n>>].pc = "write" /\ pass[<<q, n>>].persisted
        BY <1>0, <2>1, <3>2 DEF ContentsMove
      <4>2. QED
        BY <1>0, <1>4, <4>1 DEF PlansHold
    <3>3. QED
      BY <3>1, <3>2
  <2>2. ASSUME NEW n \in Nodes, content'[n].ready = "Completed" PROVE n \in everReady'
    BY <1>0, <2>2 DEF ContentsMove, ContentsHold
  <2>3. ASSUME NEW n \in Nodes, n \in everReady'
        PROVE  snap'[n].req /\ snap'[n].declared \subseteq everReady'
    <3>1. snap[n].req /\ snap[n].declared \subseteq everReady
      <4>1. CASE n \in everReady
        BY <1>0, <4>1 DEF ContentsHold
      <4>2. CASE n \notin everReady
        <5>1. PICK q \in Queues : pass[<<q, n>>].pc = "write" /\ pass[<<q, n>>].ready = "Completed"
          BY <1>0, <2>3, <4>2 DEF ContentsMove
        <5>2. QED
          BY <1>0, <5>1 DEF PlansHold, Complete
      <4>3. QED
        BY <4>1, <4>2
    <3>2. everReady \subseteq everReady'
      BY <1>0 DEF ContentsMove, TypeOK
    <3>3. QED
      BY <1>3, <3>1, <3>2
  <2>4. QED
    BY <2>1, <2>2, <2>3 DEF ContentsHold
<1>6. KidsHold'
  <2> SUFFICES ASSUME NEW n \in Nodes, snap'[n].kids = "true"
               PROVE  /\ ownerChildSetFrozen(snap'[n].phase)
                      /\ \A c \in snap'[n].declared : c \in content'[n].edges /\ content'[c].persisted
    BY DEF KidsHold
  <2>0. content[n].edges \subseteq content'[n].edges /\ snap[n].declared \subseteq Nodes
    BY <1>0 DEF ContentsMove, TypeOK, Snapshot
  <2>1. /\ ownerChildSetFrozen(snap[n].phase)
        /\ \A c \in snap[n].declared : c \in content[n].edges /\ content[c].persisted
    <3>1. CASE snap[n].kids = "true"
      BY <1>0, <3>1 DEF KidsHold
    <3>2. CASE snap[n].kids # "true"
      <4>1. ownerChildSetFrozen(snap[n].phase)
        BY <1>0, <3>2 DEF SnapshotsMove
      <4>2. PICK q \in Queues :
               /\ pass[<<q, n>>].pc = "legs"
               /\ \/ pass[<<q, n>>].ob.persisted
                  \/ aggregateChildrenSubtreeManifestsPersisted(n, pass[<<q, n>>].ob)
        BY <1>0, <3>2 DEF SnapshotsMove
      <4>3. CASE pass[<<q, n>>].ob.persisted
        BY <1>0, <4>1, <4>2, <4>3 DEF StaleButTrue, ContentsHold, Complete
      <4>4. CASE aggregateChildrenSubtreeManifestsPersisted(n, pass[<<q, n>>].ob)
        BY <1>0, <4>1, <4>2, <4>4 DEF StaleButTrue, Linked,
                                      aggregateChildrenSubtreeManifestsPersisted
      <4>5. QED
        BY <4>2, <4>3, <4>4
    <3>3. QED
      BY <3>1, <3>2
  <2>2. /\ snap'[n].declared = snap[n].declared
        /\ ownerChildSetFrozen(snap'[n].phase)
    BY <1>0, <2>1 DEF SnapshotsMove
  <2>3. QED
    BY <1>2, <2>0, <2>1, <2>2
<1>7. ASSUME NEW q \in Queues, NEW n \in Nodes
      PROVE  LET r == pass'[<<q, n>>] IN
             /\ r.pc # "idle" =>
                   /\ r.ob.edges \subseteq content'[n].edges
                   /\ r.ob.persisted => /\ content'[n].persisted
                                        /\ snap'[n].declared \subseteq r.ob.edges
             /\ r.pc = "write" =>
                   /\ r.ob.persisted => r.persisted
                   /\ r.persisted => Complete(n)'
                   /\ r.ready = "Completed" => r.persisted /\ snap'[n].declared \subseteq everReady'
  <2> DEFINE p == pass[<<q, n>>]
             r == pass'[<<q, n>>]
             Stale == /\ r.ob.edges \subseteq content'[n].edges
                      /\ r.ob.persisted => /\ content'[n].persisted
                                           /\ snap'[n].declared \subseteq r.ob.edges
             Plan == /\ r.ob.persisted => r.persisted
                     /\ r.persisted => Complete(n)'
                     /\ r.ready = "Completed"
                           => r.persisted /\ snap'[n].declared \subseteq everReady'
  <2>0. /\ content[n].edges \subseteq content'[n].edges
        /\ everReady \subseteq everReady'
    BY <1>0 DEF ContentsMove, TypeOK
  <2>1. ASSUME p.pc # "idle", r.ob = p.ob PROVE Stale
    <3>1. /\ p.ob.edges \subseteq content[n].edges
          /\ p.ob.persisted => /\ content[n].persisted /\ snap[n].req
                               /\ snap[n].declared \subseteq p.ob.edges
      BY <1>0, <2>1 DEF StaleButTrue, ContentsHold, Complete
    <3>2. QED
      BY <1>2, <1>3, <2>0, <2>1, <3>1
  <2>2. CASE r = p
    <3>1. r.pc # "idle" => Stale
      BY <2>1, <2>2
    <3>2. ASSUME r.pc = "write" PROVE Plan
      <4>1. /\ p.ob.persisted => p.persisted
            /\ p.persisted => Complete(n)
            /\ p.ready = "Completed" => p.persisted /\ snap[n].declared \subseteq everReady
        BY <1>0, <2>2, <3>2 DEF PlansHold
      <4>2. p.persisted => snap'[n].declared = snap[n].declared
        BY <1>3, <4>1 DEF Complete
      <4>3. QED
        BY <1>4, <2>0, <2>2, <4>1, <4>2
    <3>3. QED
      BY <3>1, <3>2
  <2>3. CASE r.pc = "derive" /\ r.ob = content[n]
    <3>1. Stale
      BY <1>0, <1>2, <1>3, <2>0, <2>3 DEF ContentsHold, Complete
    <3>2. QED
      BY <2>3, <3>1
  <2>4. CASE /\ p.pc = "derive" /\ r.pc = "write" /\ r.ob = p.ob
             /\ UNCHANGED <<snap, content, everReady>>
             /\ mcp'[n] = ensureManifestCheckpointOwnedByContent(n, p.ob)
             /\ r.persisted = computeSubtreeManifestsPersisted(n, p.ob, ManifestLeg(n, p.ob, p.ow))
             /\ r.ready = "Completed" =>
                   r.persisted /\ validateCommonContentChildren(n, p.ob) = "OK"
    <3>1. Stale
      BY <2>1, <2>4
    <3>2. r.ob.persisted => r.persisted
      BY <2>4 DEF computeSubtreeManifestsPersisted
    <3>3. ASSUME r.persisted
          PROVE  Complete(n)' /\ snap[n].declared \subseteq p.ob.edges
      <4>1. CASE p.ob.persisted
        BY <1>0, <1>4, <2>4, <4>1 DEF StaleButTrue, ContentsHold
      <4>2. CASE ~p.ob.persisted
        <5>1. /\ ManifestLeg(n, p.ob, p.ow) = "OK"
              /\ aggregateChildrenSubtreeManifestsPersisted(n, p.ob)
          BY <2>4, <3>3, <4>2 DEF computeSubtreeManifestsPersisted
        <5>2. p.ob.named /\ mcp[n] \in {"ready", "owned"}
          <6>1. p.ob.named \in BOOLEAN
                /\ mcp[n] \in {"none", "ready", "owned", "failed", "damaged", "gone"}
            BY <1>0 DEF TypeOK, Pass, Content
          <6>2. QED
            BY <5>1, <6>1 DEF ManifestLeg
        <5>3. Handed(n)' /\ snap[n].req
          BY <1>0, <2>4, <5>2 DEF RequestsInOrder, Handed, ensureManifestCheckpointOwnedByContent
        <5>4. \A c \in snap[n].declared : c \in p.ob.edges /\ content[c].persisted
          BY <5>1 DEF aggregateChildrenSubtreeManifestsPersisted, Linked
        <5>5. p.ob.edges \subseteq content[n].edges
          BY <1>0, <2>4 DEF StaleButTrue
        <5>6. QED
          BY <2>4, <5>3, <5>4, <5>5 DEF Complete
      <4>3. QED
        BY <4>1, <4>2
    <3>4. ASSUME r.ready = "Completed" PROVE snap'[n].declared \subseteq everReady'
      <4>1. r.persisted /\ \A c \in p.ob.edges : content[c].ready = "Completed"
        BY <2>4, <3>4 DEF validateCommonContentChildren
      <4>2. snap[n].declared \subseteq p.ob.edges /\ snap[n].declared \subseteq Nodes
        BY <1>0, <3>3, <4>1 DEF TypeOK, Snapshot
      <4>3. QED
        BY <1>0, <2>4, <4>1, <4>2 DEF ContentsHold
    <3>5. QED
      BY <2>4, <3>1, <3>2, <3>3, <3>4
  <2>5. CASE p.pc = "write" /\ r.pc = "legs" /\ r.ob = content'[n]
    <3>1. Stale
      BY <1>5, <2>5 DEF ContentsHold, Complete
    <3>2. QED
      BY <2>5, <3>1
  <2>6. CASE \/ p.pc = "derive" /\ r.pc = "legs" /\ r.ob = p.ob
             \/ p.pc = "legs" /\ r.pc = "mirror" /\ r.ob = p.ob
    BY <2>1, <2>6
  <2>7. CASE r.pc = "idle"
    BY <2>7
  <2>8. QED
    <3>1. Moved(n, p, r)
      BY <1>0 DEF PassesMove
    <3> HIDE DEF p, r
    <3>2. QED
      BY <3>1, <2>2, <2>3, <2>4, <2>5, <2>6, <2>7 DEF Moved
<1>8. StaleButTrue' /\ PlansHold'
  BY <1>7 DEF StaleButTrue, PlansHold
<1>9. QED
  BY <1>1, <1>5, <1>6, <1>8 DEF TreeInv

\* For domains that close their child set before they place their manifest
\* request the invariant holds for ever.
THEOREM TreeInvariant == ASSUME Ordered PROVE Spec => []TreeInv
<1>1. TreeInv /\ [Next]_vars /\ TypeOK' => TreeInv'
  BY TreeInvStep
<1>2. QED
  BY <1>1, TreeInvInit, TypeCorrect, PTL DEF Spec

\* subtreeManifestsPersisted, once latched, covers the whole subtree, however
\* the passes of both queues interleave with the domains and the losses.
THEOREM PersistedComplete == ASSUME Ordered PROVE Spec => []PersistedIsComplete
<1>1. TreeInv => PersistedIsComplete
  BY DEF TreeInv, ContentsHold, Complete, Handed, PersistedIsComplete
<1>2. QED
  BY <1>1, TreeInvariant, PTL

\* A content is Ready only after every child its snapshot declares has been.
THEOREM ReadyBottomUp == ASSUME Ordered PROVE Spec => []ReadyAfterChildren
<1>1. TreeInv => ReadyAfterChildren
  BY DEF TreeInv, ContentsHold, ReadyAfterChildren, TypeOK
<1>2. QED
  BY <1>1, TreeInvariant, PTL

\* The latch childSubtreesManifestsPersisted opens the manifest walk over a
\* linked and persisted set of children only.
THEOREM KidsLatchComplete == ASSUME Ordered PROVE Spec => []KidsLatchIsComplete
<1>1. TreeInv => KidsLatchIsComplete
  BY DEF TreeInv, KidsHold, KidsLatchIsComplete
<1>2. QED
  BY <1>1, TreeInvariant, PTL
=============================================================================
