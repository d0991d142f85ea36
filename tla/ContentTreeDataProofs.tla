------------------------ MODULE ContentTreeDataProofs ------------------------
(***************************************************************************)
(* More proofs about ContentTree: what the capture latches, the Ready of   *)
(* the owner and the Ready of a content with a volume stand for, and that  *)
(* a content that failed does not recover.                                 *)
(***************************************************************************)
EXTENDS ContentTreeProofs

-----------------------------------------------------------------------------
(* The latches of the capture. *)

DurableInv ==
    /\ TypeOK
    /\ RequestsInOrder
    /\ \A n \in Nodes : snap[n].ex = "none" => ~snap[n].req
    /\ ReapedIsDurable

-----------------------------------------------------------------------------
(* The Ready of the owner. *)

\* Under Announces no domain has placed its manifest request, and no content
\* names a checkpoint, before the phase is there.
Announced ==
    \A n \in Nodes :
        /\ snap[n].req => snap[n].phase # "None"
        /\ content[n].named => snap[n].req

\* The owner as the pass remembers it allows what the pass is about to say.
OwnersHold ==
    \A q \in Queues, n \in Nodes :
        LET p == pass[<<q, n>>] IN
        /\ p.pc # "idle" => (Closed(p.ow.phase) => Closed(snap[n].phase))
        /\ p.pc = "derive" => (p.ob.named => p.ow.phase # "None")
        /\ p.pc = "write" => (p.ready = "Completed" => Closed(p.ow.phase))
        /\ p.pc # "idle" => (p.ob.ready = "Completed"
                               => n \in everReady /\ p.ow.phase # "None")

EarnedInv ==
    /\ TypeOK
    /\ Announced
    /\ OwnersHold
    /\ \A n \in Nodes : content[n].ready = "Completed"
                          => n \in everReady /\ Closed(snap[n].phase)
    /\ OwnerReadyIsEarned

-----------------------------------------------------------------------------
(* The volume of a content that is Ready. *)

\* A volume request comes before its artifact, and there is one at most.
VolumesInOrder ==
    \A n \in Nodes :
        /\ ~snap[n].vreq => vcr[n] = "none" /\ vsc[n] = "none"
        /\ vcr[n] = "pending" => vsc[n] = "none"

\* A pass that found its owner finished knows of the volume, if there is one.
VolumesHold ==
    \A q \in Queues, n \in Nodes :
        LET p == pass[<<q, n>>] IN
        /\ p.pc = "derive" /\ Closed(p.ow.phase) /\ snap[n].vreq
              => p.pend \/ p.term \/ p.ob.data
        /\ p.pc = "write" /\ p.ready = "Completed" /\ snap[n].vreq
              => vsc[n] \in {"ready", "gone"}

DataInv == EarnedInv /\ VolumesInOrder /\ VolumesHold /\ ReadyHasData

-----------------------------------------------------------------------------
(* A content that failed. *)

\* Why a content fails on its own account, for good.
Ill(n) ==
    \/ mcp[n] \in {"failed", "damaged", "gone"}
    \/ snap[n].vreq /\ ~content[n].data /\ vcr[n] \in {"failed", "none"}
    \/ content[n].data /\ vsc[n] = "gone"
    \/ snap[n].phase = "Failed"

\* The same for a content below which S is doomed.
Doomed(n, S) == Ill(n) \/ content[n].edges \cap S # {}

\* A pass that goes on from what it read will notice.
Noticed(p, n, S) ==
    \/ mcp[n] \in {"failed", "damaged", "gone"}
    \/ p.pend \/ p.term
    \/ p.ob.data /\ vsc[n] = "gone"
    \/ p.ow.phase = "Failed"
    \/ p.ob.edges \cap S # {}

\* What a pass read is still there.
MemoryHolds ==
    \A q \in Queues, n \in Nodes :
        LET p == pass[<<q, n>>] IN
        p.pc # "idle" =>
            /\ p.ob.edges \subseteq content[n].edges
            /\ p.ob.data => content[n].data
            /\ p.ow.phase = "Failed" => snap[n].phase = "Failed"
            /\ p.ow.captured => snap[n].captured
            /\ p.pc = "derive" /\ p.term =>
                  snap[n].vreq /\ ~content[n].data /\ vcr[n] \in {"failed", "none"}

\* S holds every content that failed, and none that could recover.
Dooms(S) ==
    /\ \A n \in Nodes : content[n].ready = "Failed" => n \in S
    /\ \A n \in S : content[n].ready # "Completed" /\ Doomed(n, S)
    /\ \A q \in Queues, n \in Nodes :
          LET p == pass[<<q, n>>] IN
          /\ n \in S /\ p.pc = "derive" => Noticed(p, n, S)
          /\ n \in S /\ p.pc = "write" => p.ready # "Completed"
          /\ p.pc = "write" /\ p.ready = "Failed" => Doomed(n, S)

LossInv ==
    /\ DurableInv
    /\ VolumesInOrder
    /\ MemoryHolds
    /\ \E S \in SUBSET Nodes : Dooms(S)

-----------------------------------------------------------------------------
(* What one step of anybody may do, beyond the moves of ContentTreeProofs. *)

\* A request and a latch are not taken back; the phase goes on and a closed one
\* stays closed; a snapshot that is gone does not come back; each latch, and a
\* Ready owner, has its cause in the state before.
SnapshotsAge ==
    \A x \in Nodes :
        /\ snap'[x].req => snap[x].req
             \/ (snap[x].ex = "alive" /\ mcr'[x] = "open" /\ (Announces => snap[x].phase # "None"))
        /\ snap[x].vreq => snap'[x].vreq
        /\ snap'[x].vreq => snap[x].vreq \/ ~ownerChildSetFrozen(snap[x].phase)
        /\ snap[x].phase # "None" => snap'[x].phase # "None"
        /\ Closed(snap[x].phase) => Closed(snap'[x].phase)
        /\ snap[x].phase = "Failed" => snap'[x].phase = "Failed"
        /\ snap[x].captured => snap'[x].captured
        /\ snap'[x].captured => snap[x].captured
             \/ (content[x].named /\ Handed(x) /\ UNCHANGED <<content, mcp>>)
        /\ snap'[x].dataCaptured => snap[x].dataCaptured \/ content[x].data
        /\ \/ snap'[x].ex = snap[x].ex \/ snap'[x].ex = "gone"
           \/ snap[x].ex = "none" /\ snap'[x].req = snap[x].req
        /\ snap'[x].ready = "Completed" => snap[x].ready = "Completed"
             \/ \E q \in Queues : /\ pass[<<q, x>>].pc = "mirror"
                                  /\ pass[<<q, x>>].ob.ready = "Completed"
                                  /\ pass[<<q, x>>].ow.phase \in {"None", "Finished"}

\* A write of one snapshot that only touches its phase and its Ready.
LEMMA PhaseAges ==
    ASSUME TypeOK, NEW n \in Nodes, NEW new,
           snap' = [snap EXCEPT ![n] = new], new.req = snap[n].req, new.vreq = snap[n].vreq,
           new.captured = snap[n].captured, new.dataCaptured = snap[n].dataCaptured,
           new.ex = snap[n].ex \/ new.ex = "gone",
           new.ready = snap[n].ready \/ new.ready # "Completed",
           new.phase = snap[n].phase
             \/ (~Closed(snap[n].phase) /\ new.phase # "None") \/ new.phase = "Failed"
    PROVE  SnapshotsAge
<1>1. snap'[n] = new /\ \A x \in Nodes \ {n} : snap'[x] = snap[x]
  BY DEF TypeOK
<1>2. QED
  BY <1>1 DEF SnapshotsAge, Closed

\* The steps of the domains age the snapshots so.
LEMMA DomainAges ==
    ASSUME TypeOK, NEW n \in Nodes, Domain(n) \/ DomainFails(n)
    PROVE  SnapshotsAge
<1>0. snap[n] \in Snapshot
  BY DEF TypeOK
<1>1. CASE EnsureChildren(n)
  <2>1. PICK D \in SUBSET (Kids[n] \ snap[n].declared) :
           snap' = [c \in Nodes |->
                IF c = n THEN [snap[n] EXCEPT !.declared = @ \cup D]
                ELSE IF c \in D /\ snap[c].ex = "none" THEN [snap[c] EXCEPT !.ex = "alive"]
                ELSE snap[c]]
    BY <1>1 DEF EnsureChildren
  <2>2. ASSUME NEW x \in Nodes
        PROVE  /\ snap'[x].req = snap[x].req /\ snap'[x].vreq = snap[x].vreq
               /\ snap'[x].captured = snap[x].captured
               /\ snap'[x].dataCaptured = snap[x].dataCaptured
               /\ snap'[x].phase = snap[x].phase /\ snap'[x].ready = snap[x].ready
               /\ snap'[x].ex = snap[x].ex \/ snap[x].ex = "none"
    <3>1. snap[x] \in Snapshot
      BY DEF TypeOK
    <3>2. QED
      BY <1>0, <2>1, <3>1 DEF Snapshot
  <2>3. QED
    BY <2>2 DEF SnapshotsAge
<1>2. CASE EnsureVolumeCapture(n)
  <2>1. /\ snap' = [snap EXCEPT ![n] = [snap[n] EXCEPT !.vreq = TRUE]]
        /\ snap[n].phase \in {"None", "Planning"}
    BY <1>2 DEF EnsureVolumeCapture, InPlanning, UpdateSnapshot
  <2>2. QED
    BY <1>0, <2>1 DEF TypeOK, Snapshot, SnapshotsAge, ownerChildSetFrozen
<1>3. CASE EnsureManifestCapture(n) \/ CaptureAfterSubtree(n)
  <2>1. /\ snap' = [snap EXCEPT ![n] = [snap[n] EXCEPT !.req = TRUE]]
        /\ mcr' = [mcr EXCEPT ![n] = "open"] /\ snap[n].ex = "alive"
        /\ Announces => snap[n].phase # "None"
    BY <1>3 DEF EnsureManifestCapture, CaptureAfterSubtree, InPlanning, UpdateSnapshot, Alive,
                Bound, ownerDomainCaptureAtLeastPlanned
  <2>2. mcr'[n] = "open"
    BY <2>1 DEF TypeOK
  <2>3. \A x \in Nodes \ {n} : snap'[x] = snap[x]
    BY <2>1 DEF TypeOK
  <2>4. /\ snap'[n].vreq = snap[n].vreq /\ snap'[n].captured = snap[n].captured
        /\ snap'[n].dataCaptured = snap[n].dataCaptured /\ snap'[n].phase = snap[n].phase
        /\ snap'[n].ready = snap[n].ready /\ snap'[n].ex = snap[n].ex
    BY <1>0, <2>1 DEF TypeOK, Snapshot
  <2>5. QED
    BY <2>1, <2>2, <2>3, <2>4 DEF SnapshotsAge
<1>4. CASE FailPlanning(n)
  <2>1. snap' = [snap EXCEPT ![n] = [snap[n] EXCEPT !.phase = "Failed", !.ready = "Failed"]]
    BY <1>4 DEF FailPlanning, UpdateSnapshot
  <2>2. QED
    BY <1>0, <2>1, PhaseAges DEF Snapshot
<1>5. CASE Announce(n) \/ PlanCapture(n) \/ FinishCapture(n)
  <2>1. PICK ph \in {"Planning", "Planned", "Finished"} :
           snap' = [snap EXCEPT ![n] = [snap[n] EXCEPT !.phase = ph]]
    BY <1>5 DEF Announce, PlanCapture, FinishCapture, UpdateSnapshot
  <2>2. ~Closed(snap[n].phase)
    BY <1>5 DEF Announce, PlanCapture, FinishCapture, InPlanning, Closed
  <2>3. QED
    BY <1>0, <2>1, <2>2, PhaseAges DEF Snapshot
<1>6. CASE FailCapture(n) \/ DomainFails(n)
  <2>1. snap' = [snap EXCEPT ![n] = [snap[n] EXCEPT !.phase = "Failed"]]
    BY <1>6 DEF FailCapture, DomainFails, UpdateSnapshot
  <2>2. QED
    BY <1>0, <2>1, PhaseAges DEF Snapshot
<1>7. QED
  BY <1>1, <1>2, <1>3, <1>4, <1>5, <1>6 DEF Domain

\* So do the steps of everybody else outside the content controller.
LEMMA EnvironmentAges ==
    ASSUME TypeOK, NEW n \in Nodes, Environment(n) \/ LoseArtifact(n) \/ DeleteSnapshot(n)
    PROVE  SnapshotsAge
<1>0. snap[n] \in Snapshot
  BY DEF TypeOK
<1>1. UNCHANGED snap \/ snap' = [snap EXCEPT ![n] = [snap[n] EXCEPT !.ex = "gone"]]
  BY DEF Environment, LoseArtifact, DeleteSnapshot, BindContent, CaptureManifest, CaptureVolume,
         markBoundSnapshotDeletedOnContent, VolumeReady, CollectChild, CollectRequests,
         RemoveSnapshot
<1>2. CASE UNCHANGED snap
  BY <1>2 DEF SnapshotsAge
<1>3. CASE snap' = [snap EXCEPT ![n] = [snap[n] EXCEPT !.ex = "gone"]]
  BY <1>0, <1>3, PhaseAges DEF Snapshot
<1>4. QED
  BY <1>1, <1>2, <1>3

\* The tree latches leave the capture latches alone.
LEMMA LatchTreeRest ==
    ASSUME NEW s \in Snapshot, NEW n, NEW ob
    PROVE  LET t == LatchTree(s, n, ob)
           IN /\ t.vreq = s.vreq /\ t.captured = s.captured /\ t.dataCaptured = s.dataCaptured
              /\ t.ex = s.ex /\ t.ready = s.ready
<1> DEFINE kids == ob.persisted \/ aggregateChildrenSubtreeManifestsPersisted(n, ob)
           latch == IF s.kids = "true" \/ kids THEN "true" ELSE "false"
           planned == s.planned \/ allDirectChildrenSubtreePlanned(n)
           settled == s.settled \/ allDirectChildrenSettled(n)
<1>1. LatchTree(s, n, ob) = [s EXCEPT !.kids = latch, !.planned = planned, !.settled = settled]
  BY DEF LatchTree, setOwnerChildSubtreesManifestsPersisted
<1> HIDE DEF latch, planned, settled
<1>2. QED
  BY <1>1 DEF Snapshot

\* And so do the passes of the content controller.
LEMMA PassAges ==
    ASSUME TypeOK, NEW q \in Queues, NEW n \in Nodes, ContentPass(q, n)
    PROVE  SnapshotsAge
<1> DEFINE p == pass[<<q, n>>]
           s == snap[n]
<1>0. s \in Snapshot /\ p \in Pass /\ p.ob \in Content /\ p.ow \in Owner
  BY DEF TypeOK, Pass
<1>1. CASE UNCHANGED snap
  BY <1>1 DEF SnapshotsAge
<1>2. CASE mirrorReadyToOwnerSnapshot(q, n)
  <2> DEFINE folded == applyDomainPhaseFold(p.ow.phase, p.ob.ready)
             lost == detectLostDeclaredChildren(n, p)
             new == IF lost = "Lost" \/ (lost = "Deleted" /\ folded = "Completed")
                    THEN lost ELSE folded
             ready == IF new # p.ow.ready /\ Alive(n) THEN new ELSE s.ready
  <2>1. p.pc = "mirror" /\ snap' = [snap EXCEPT ![n].ready = ready]
    BY <1>2 DEF mirrorReadyToOwnerSnapshot
  <2>2. ready = "Completed" /\ ready # s.ready => folded = "Completed"
    OBVIOUS
  <2>3. folded = "Completed" => p.ob.ready = "Completed" /\ p.ow.phase \in {"None", "Finished"}
    <3>1. p.ow.phase \in Phases
      BY <1>0 DEF Owner
    <3>2. QED
      BY <3>1 DEF applyDomainPhaseFold, Phases
  <2> HIDE DEF folded, ready
  <2>4. snap'[n] = [s EXCEPT !.ready = ready] /\ \A x \in Nodes \ {n} : snap'[x] = snap[x]
    BY <2>1 DEF TypeOK
  <2>5. /\ snap'[n].ready = ready /\ snap'[n].req = s.req /\ snap'[n].vreq = s.vreq
        /\ snap'[n].phase = s.phase /\ snap'[n].captured = s.captured
        /\ snap'[n].dataCaptured = s.dataCaptured /\ snap'[n].ex = s.ex
    BY <1>0, <2>4 DEF Snapshot
  <2>6. QED
    BY <2>1, <2>2, <2>3, <2>4, <2>5 DEF SnapshotsAge
<1>3. CASE reconcileOwnerCaptureLegs(q, n) /\ ~UNCHANGED snap
  <2> DEFINE captured == s.captured \/ (s.req /\ ManifestCaptureRequestSafeToDelete(n))
             data == \/ s.dataCaptured
                     \/ /\ s.vreq /\ observeOwnerDataLegVCR(n)
                        /\ VolumeCaptureRequestSafeToDeleteWithHandoff(n)
             held == [s EXCEPT !.captured = captured, !.dataCaptured = data]
  <2>1. /\ snap' = [snap EXCEPT ![n] = LatchTree(held, n, p.ob)]
        /\ UNCHANGED <<content, mcp>>
    BY <1>3 DEF reconcileOwnerCaptureLegs
  <2>2. captured \in BOOLEAN /\ data \in BOOLEAN
    BY <1>0 DEF Snapshot
  <2>3. /\ captured => s.captured \/ (content[n].named /\ Handed(n))
        /\ s.captured => captured
        /\ data => s.dataCaptured \/ content[n].data
    BY DEF ManifestCaptureRequestSafeToDelete, observeOwnerDataLegVCR, Handed
  <2> HIDE DEF captured, data
  <2>4. /\ held \in Snapshot /\ held.captured = captured /\ held.dataCaptured = data
        /\ held.req = s.req /\ held.vreq = s.vreq /\ held.ex = s.ex /\ held.ready = s.ready
        /\ held.phase = s.phase
    BY <1>0, <2>2 DEF Snapshot
  <2> HIDE DEF held
  <2>5. snap'[n] = LatchTree(held, n, p.ob) /\ \A x \in Nodes \ {n} : snap'[x] = snap[x]
    BY <2>1 DEF TypeOK
  <2>6. /\ snap'[n].captured = captured /\ snap'[n].dataCaptured = data
        /\ snap'[n].req = s.req /\ snap'[n].vreq = s.vreq /\ snap'[n].ex = s.ex
        /\ snap'[n].ready = s.ready /\ snap'[n].phase = s.phase
    BY <2>4, <2>5, LatchTreeKeeps, LatchTreeRest
  <2>7. QED
    BY <2>1, <2>3, <2>5, <2>6 DEF SnapshotsAge
<1>4. QED
  BY <1>1, <1>2, <1>3 DEF ContentPass, latchBoundSnapshotDeletedForMissingOwner, Observe, Derive,
                          WriteStatus

\* Every step ages the snapshots so.
LEMMA StepAgesSnapshots == TypeOK /\ [Next]_vars => SnapshotsAge
<1> SUFFICES ASSUME TypeOK, [Next]_vars PROVE SnapshotsAge
  OBVIOUS
<1>1. CASE UNCHANGED vars
  BY <1>1 DEF vars, SnapshotsAge
<1>2. CASE Next
  BY <1>2, PassAges, DomainAges, EnvironmentAges DEF Next
<1>3. QED
  BY <1>1, <1>2

\* What a content publishes stays and has its cause; Ready changes by a status
\* write only, to what its plan says.
ContentsAge ==
    \A x \in Nodes :
        /\ content[x].named => content'[x].named
        /\ content'[x].named => content[x].named \/ snap[x].req
        /\ content[x].data => content'[x].data
        /\ content'[x].data => content[x].data \/ (snap[x].vreq /\ vcr[x] = "ready")
        /\ \/ content'[x].ready = content[x].ready
           \/ \E q \in Queues : /\ pass[<<q, x>>].pc = "write"
                                /\ content'[x].ready = pass[<<q, x>>].ready
                                /\ pass'[<<q, x>>].pc = "legs"
                                /\ UNCHANGED <<snap, mcp, vcr, vsc>>
                                /\ \A y \in Nodes : /\ content'[y].data = content[y].data
                                                    /\ y # x => content'[y] = content[y]

\* Every step ages the contents so.
LEMMA StepAgesContents == TypeOK /\ [Next]_vars => ContentsAge
<1> SUFFICES ASSUME TypeOK, [Next]_vars PROVE ContentsAge
  OBVIOUS
<1> USE DEF history, artifacts
<1>0. ASSUME UNCHANGED content PROVE ContentsAge
  BY <1>0 DEF ContentsAge
<1>1. ASSUME NEW n \in Nodes, NEW new, content' = [content EXCEPT ![n] = new],
             content[n].named => new.named, content[n].data => new.data,
             new.named => content[n].named \/ snap[n].req,
             new.data => content[n].data \/ (snap[n].vreq /\ vcr[n] = "ready"),
             new.ready = content[n].ready
      PROVE  ContentsAge
  <2>1. content'[n] = new /\ \A x \in Nodes \ {n} : content'[x] = content[x]
    BY <1>1 DEF TypeOK
  <2>2. QED
    BY <1>1, <2>1 DEF ContentsAge
<1>2. CASE UNCHANGED vars
  BY <1>0, <1>2 DEF vars
<1>3. ASSUME NEW n \in Nodes, Domain(n) \/ DomainFails(n) \/ LoseArtifact(n) \/ DeleteSnapshot(n)
      PROVE  ContentsAge
  <2>1. UNCHANGED content
    BY <1>3 DEF Domain, Announce, EnsureChildren, EnsureVolumeCapture, EnsureManifestCapture,
       PlanCapture, FailPlanning, CaptureAfterSubtree, FinishCapture, FailCapture, DomainFails,
       LoseArtifact, DeleteSnapshot, RemoveSnapshot
  <2>2. QED
    BY <1>0, <2>1
<1>4. ASSUME NEW n \in Nodes, Environment(n) PROVE ContentsAge
  <2>0. content[n] \in Content
    BY DEF TypeOK
  <2>1. CASE BindContent(n)
    <3>1. content' = [content EXCEPT ![n] = [content[n] EXCEPT !.ex = TRUE]]
      BY <2>1 DEF BindContent
    <3>2. QED
      BY <1>1, <2>0, <3>1 DEF Content
  <2>2. CASE markBoundSnapshotDeletedOnContent(n)
    <3>1. content' = [content EXCEPT ![n] = [content[n] EXCEPT !.ownerGone = TRUE]]
      BY <2>2 DEF markBoundSnapshotDeletedOnContent
    <3>2. QED
      BY <1>1, <2>0, <3>1 DEF Content
  <2>3. CASE CaptureManifest(n) \/ CaptureVolume(n) \/ VolumeReady(n) \/ CollectChild(n)
               \/ CollectRequests(n)
    BY <1>0, <2>3 DEF CaptureManifest, CaptureVolume, VolumeReady, CollectChild, CollectRequests,
                      RemoveSnapshot
  <2>4. QED
    BY <1>4, <2>1, <2>2, <2>3 DEF Environment
<1>5. ASSUME NEW q \in Queues, NEW n \in Nodes, ContentPass(q, n) PROVE ContentsAge
  <2> DEFINE p == pass[<<q, n>>]
  <2>0. content[n] \in Content /\ <<q, n>> \in Queues \X Nodes
    BY DEF TypeOK
  <2>1. CASE latchBoundSnapshotDeletedForMissingOwner(q, n)
    <3>1. content' = [content EXCEPT ![n] = [content[n] EXCEPT !.ownerGone = TRUE]]
      BY <2>1 DEF latchBoundSnapshotDeletedForMissingOwner
    <3>2. QED
      BY <1>1, <2>0, <3>1 DEF Content
  <2>2. CASE Observe(q, n)
    <3> DEFINE edges == IF PublishEdges(n) THEN snap[n].declared ELSE content[n].edges
               named == content[n].named \/ PublishName(n)
               data == content[n].data \/ PublishData(n)
               new == [content[n] EXCEPT !.edges = edges, !.named = named, !.data = data]
    <3>1. content' = [content EXCEPT ![n] = new]
      BY <2>0, <2>2 DEF Observe, TypeOK
    <3>2. /\ content[n].named => named
          /\ named => content[n].named \/ snap[n].req
          /\ content[n].data => data
          /\ data => content[n].data \/ (snap[n].vreq /\ vcr[n] = "ready")
      BY DEF PublishName, PublishData
    <3> HIDE DEF edges, named, data
    <3>3. new.named = named /\ new.data = data /\ new.ready = content[n].ready
      BY <2>0 DEF Content
    <3> HIDE DEF new
    <3>4. QED
      BY <1>1, <3>1, <3>2, <3>3
  <2>3. CASE Derive(q, n) \/ reconcileOwnerCaptureLegs(q, n) \/ mirrorReadyToOwnerSnapshot(q, n)
    BY <1>0, <2>3 DEF Derive, reconcileOwnerCaptureLegs, mirrorReadyToOwnerSnapshot
  <2>4. CASE WriteStatus(q, n)
    <3> DEFINE new == [content[n] EXCEPT
                  !.legs = p.legs, !.ready = p.ready,
                  !.persisted = IF p.persisted # p.ob.persisted THEN p.persisted ELSE @]
               next == [NoPass EXCEPT !.pc = "legs", !.ob = new, !.ow = p.ow, !.rq = p.rq]
    <3>1. /\ p.pc = "write" /\ content' = [content EXCEPT ![n] = new]
          /\ pass' = [pass EXCEPT ![<<q, n>>] = next] /\ UNCHANGED <<snap, mcp, vcr, vsc>>
      BY <2>4 DEF WriteStatus
    <3>2. /\ new.named = content[n].named /\ new.ready = p.ready
          /\ new.data = content[n].data
      BY <2>0 DEF Content
    <3>3. content'[n] = new /\ \A x \in Nodes \ {n} : content'[x] = content[x]
      BY <3>1 DEF TypeOK
    <3> HIDE DEF new
    <3>4. next.pc = "legs"
      BY DEF NoPass
    <3> HIDE DEF next
    <3>5. pass'[<<q, n>>].pc = "legs"
      BY <2>0, <3>1, <3>4 DEF TypeOK
    <3>6. QED
      BY <3>1, <3>2, <3>3, <3>5 DEF ContentsAge
  <2>5. QED
    BY <1>5, <2>1, <2>2, <2>3, <2>4 DEF ContentPass
<1>6. QED
  BY <1>2, <1>3, <1>4, <1>5 DEF Next

\* A Ready that changed is the one the pass of its content was about to write.
LEMMA ReadyIsWritten ==
    ASSUME ContentsAge, NEW n \in Nodes, content'[n].ready # content[n].ready
    PROVE  \E q \in Queues :
               /\ pass[<<q, n>>].pc = "write" /\ content'[n].ready = pass[<<q, n>>].ready
               /\ pass'[<<q, n>>].pc = "legs" /\ UNCHANGED <<snap, mcp, vcr, vsc>>
               /\ \A y \in Nodes : /\ content'[y].data = content[y].data
                                   /\ y # n => content'[y] = content[y]
BY DEF ContentsAge

\* A Completed that is new is written by a pass that planned it.
LEMMA CompletedIsWritten ==
    ASSUME ContentsAge, NEW n \in Nodes,
           content'[n].ready = "Completed", content[n].ready # "Completed"
    PROVE  \E q \in Queues : pass[<<q, n>>].pc = "write" /\ pass[<<q, n>>].ready = "Completed"
<1>1. content'[n].ready # content[n].ready
  OBVIOUS
<1>2. PICK q \in Queues : pass[<<q, n>>].pc = "write" /\ content'[n].ready = pass[<<q, n>>].ready
  BY <1>1, ReadyIsWritten
<1>3. QED
  BY <1>2

\* A manifest request goes for a captured or deleted snapshot only; a checkpoint
\* that failed or was lost stays so; a volume request runs once, and its
\* artifact becomes ready and is lost in this order.
RequestsAge ==
    \A x \in Nodes :
        /\ mcr'[x] = "none" => mcr[x] = "none" \/ snap'[x].captured \/ snap'[x].ex = "gone"
        /\ mcp[x] \in {"failed", "damaged", "gone"} =>
              mcp'[x] \in {"failed", "damaged", "gone"} \/ mcr[x] = "open"
        /\ \/ vcr'[x] = vcr[x] \/ vcr'[x] = "none" \/ vcr[x] = "pending"
           \/ ~snap[x].vreq /\ vsc'[x] = vsc[x] /\ vcr'[x] = "pending" /\ snap'[x].vreq
        /\ \/ vsc'[x] = vsc[x]
           \/ vcr[x] = "pending" /\ vcr'[x] # "pending"
           \/ vsc[x] \in {"notready", "ready"} /\ vsc'[x] \in {"ready", "gone"}

\* Every step ages the requests and their artifacts so.
LEMMA StepAgesRequests == TypeOK /\ [Next]_vars => RequestsAge
<1> SUFFICES ASSUME TypeOK, [Next]_vars PROVE RequestsAge
  OBVIOUS
<1> USE DEF artifacts
<1>0. ASSUME UNCHANGED artifacts PROVE RequestsAge
  BY <1>0 DEF RequestsAge
<1>1. CASE UNCHANGED vars
  BY <1>0, <1>1 DEF vars
<1>2. ASSUME NEW n \in Nodes, Domain(n) \/ DomainFails(n) PROVE RequestsAge
  <2>1. CASE EnsureManifestCapture(n) \/ CaptureAfterSubtree(n)
    <3>1. mcr' = [mcr EXCEPT ![n] = "open"] /\ UNCHANGED <<mcp, vcr, vsc>>
      BY <2>1 DEF EnsureManifestCapture, CaptureAfterSubtree
    <3>2. QED
      BY <3>1 DEF RequestsAge, TypeOK
  <2>2. CASE EnsureVolumeCapture(n)
    <3>1. /\ snap' = [snap EXCEPT ![n] = [snap[n] EXCEPT !.vreq = TRUE]]
          /\ vcr' = [vcr EXCEPT ![n] = "pending"] /\ UNCHANGED <<mcr, mcp, vsc>> /\ ~snap[n].vreq
      BY <2>2 DEF EnsureVolumeCapture, UpdateSnapshot
    <3>2. snap'[n].vreq
      BY <3>1 DEF TypeOK, Snapshot
    <3>3. QED
      BY <3>1, <3>2 DEF RequestsAge, TypeOK
  <2>3. CASE UNCHANGED artifacts
    BY <1>0, <2>3
  <2>4. QED
    BY <1>2, <2>1, <2>2, <2>3 DEF Domain, Announce, EnsureChildren,
       PlanCapture, FailPlanning, FinishCapture, FailCapture, DomainFails
<1>3. ASSUME NEW n \in Nodes, Environment(n) \/ LoseArtifact(n) \/ DeleteSnapshot(n)
      PROVE  RequestsAge
  <2>1. CASE CaptureManifest(n)
    BY <2>1 DEF CaptureManifest, RequestsAge, TypeOK
  <2>2. CASE CollectRequests(n)
    BY <2>2 DEF CollectRequests, RequestsAge, TypeOK
  <2>3. CASE LoseArtifact(n)
    BY <2>3 DEF LoseArtifact, RequestsAge, TypeOK
  <2>4. CASE CaptureVolume(n)
    BY <2>4 DEF CaptureVolume, RequestsAge, TypeOK
  <2>5. CASE VolumeReady(n)
    BY <2>5 DEF VolumeReady, RequestsAge, TypeOK
  <2>6. CASE UNCHANGED artifacts
    BY <1>0, <2>6
  <2>7. QED
    BY <1>3, <2>1, <2>2, <2>3, <2>4, <2>5, <2>6 DEF Environment, BindContent,
       markBoundSnapshotDeletedOnContent, CollectChild, DeleteSnapshot, RemoveSnapshot
<1>4. ASSUME NEW q \in Queues, NEW n \in Nodes, ContentPass(q, n) PROVE RequestsAge
  <2> DEFINE p == pass[<<q, n>>]
             s == snap[n]
  <2>1. CASE Derive(q, n)
    <3>1. /\ mcp' = [mcp EXCEPT ![n] = ensureManifestCheckpointOwnedByContent(n, p.ob)]
          /\ UNCHANGED <<mcr, vcr, vsc>>
      BY <2>1 DEF Derive
    <3>2. QED
      BY <3>1 DEF ensureManifestCheckpointOwnedByContent, RequestsAge, TypeOK
  <2>2. CASE reconcileOwnerCaptureLegs(q, n)
    <3> DEFINE captured == s.captured \/ (s.req /\ ManifestCaptureRequestSafeToDelete(n))
               data == \/ s.dataCaptured
                       \/ /\ s.vreq /\ observeOwnerDataLegVCR(n)
                          /\ VolumeCaptureRequestSafeToDeleteWithHandoff(n)
               held == [s EXCEPT !.captured = captured, !.dataCaptured = data]
               reap == s.req /\ captured
               reapData == s.vreq /\ data
    <3>1. /\ UNCHANGED <<mcp, vsc>>
          /\ \/ UNCHANGED <<mcr, vcr>>
             \/ /\ mcr' = [mcr EXCEPT ![n] = IF reap THEN "none" ELSE @]
                /\ vcr' = [vcr EXCEPT ![n] = IF reapData THEN "none" ELSE @]
                /\ snap' = [snap EXCEPT ![n] = LatchTree(held, n, p.ob)]
      BY <2>2 DEF reconcileOwnerCaptureLegs
    <3>2. captured \in BOOLEAN /\ data \in BOOLEAN /\ (reap => captured) /\ s \in Snapshot
      BY DEF TypeOK, Snapshot
    <3> HIDE DEF captured, data, reap, reapData
    <3>3. held \in Snapshot /\ held.captured = captured
      BY <3>2 DEF Snapshot
    <3> HIDE DEF held
    <3>4. snap' = [snap EXCEPT ![n] = LatchTree(held, n, p.ob)] => snap'[n].captured = captured
      BY <3>3, LatchTreeRest DEF TypeOK
    <3>5. QED
      BY <3>1, <3>2, <3>4 DEF RequestsAge, TypeOK
  <2>3. CASE UNCHANGED artifacts
    BY <1>0, <2>3
  <2>4. QED
    BY <1>4, <2>1, <2>2, <2>3 DEF ContentPass, latchBoundSnapshotDeletedForMissingOwner, Observe,
       WriteStatus, mirrorReadyToOwnerSnapshot
<1>5. QED
  BY <1>1, <1>2, <1>3, <1>4 DEF Next

\* The readiness a pass derives for its content.
DerivedReady(n, p) ==
    LET m == ManifestLeg(n, p.ob, p.ow)
        legs == [manifests |-> m, data |-> DataLeg(n, p.ob, m, p.pend, p.term),
                 children |-> validateCommonContentChildren(n, p.ob)]
    IN  applyDomainPhaseFold(p.ow.phase,
            deriveReadyStatus(legs, computeSubtreeManifestsPersisted(n, p.ob, m)))

\* A pass begins with the content and the owner as they are, plans what it
\* derives from these copies, and keeps the copy of the owner to the end: what
\* a step makes of the pass p of the node x.
Aged(x, p, r) ==
    \/ r = p
    \/ r.pc = "idle"
    \/ /\ r.pc = "derive" /\ r.ob = content[x]
       /\ r.ow.phase = snap[x].phase /\ r.ow.captured = snap[x].captured
       /\ r.pend = DataPending(x) /\ r.term = DataFailed(x)
       /\ UNCHANGED <<snap, artifacts>>
    \/ p.pc = "derive" /\ r.pc = "legs" /\ r.ob = p.ob /\ r.ow = p.ow
    \/ /\ p.pc = "derive" /\ r.pc = "write" /\ r.ob = p.ob /\ r.ow = p.ow
       /\ r.ready = DerivedReady(x, p)
       /\ UNCHANGED <<snap, content, everReady, vcr, vsc>>
    \/ /\ p.pc = "write" /\ r.pc = "legs" /\ r.ow = p.ow
       /\ r.ob = content'[x] /\ content'[x].ready = p.ready
       /\ p.ready = "Completed" => x \in everReady'
       /\ UNCHANGED snap
    \/ p.pc = "legs" /\ r.pc = "mirror" /\ r.ob = p.ob /\ r.ow = p.ow

PassesAge ==
    \A q \in Queues, x \in Nodes : Aged(x, pass[<<q, x>>], pass'[<<q, x>>])

\* A step that replaces one pass by one it may become ages the passes so: it
\* leaves the other passes as they are.
LEMMA OnePassAges ==
    ASSUME TypeOK, NEW q \in Queues, NEW n \in Nodes, NEW new,
           pass' = [pass EXCEPT ![<<q, n>>] = new], Aged(n, pass[<<q, n>>], new)
    PROVE  PassesAge
<1>1. <<q, n>> \in Queues \X Nodes /\ DOMAIN pass = Queues \X Nodes
  BY DEF TypeOK
<1>2. pass'[<<q, n>>] = new
  BY <1>1
<1>3. ASSUME NEW w \in Queues, NEW x \in Nodes, <<w, x>> # <<q, n>>
      PROVE  Aged(x, pass[<<w, x>>], pass'[<<w, x>>])
  <2>1. pass'[<<w, x>>] = pass[<<w, x>>]
    BY <1>1, <1>3
  <2>2. QED
    BY <2>1 DEF Aged
<1>4. ASSUME NEW w \in Queues, NEW x \in Nodes
      PROVE  Aged(x, pass[<<w, x>>], pass'[<<w, x>>])
  <2>1. CASE <<w, x>> = <<q, n>>
    <3>1. w = q /\ x = n
      BY <2>1
    <3>2. QED
      BY <1>2, <3>1
  <2>2. QED
    BY <1>3, <2>1
<1>5. QED
  BY <1>4 DEF PassesAge

\* Every step ages the passes so.
LEMMA StepAgesPasses == TypeOK /\ [Next]_vars => PassesAge
<1> SUFFICES ASSUME TypeOK, [Next]_vars PROVE PassesAge
  OBVIOUS
<1> USE DEF history
<1>0. ASSUME UNCHANGED pass PROVE PassesAge
  BY <1>0 DEF PassesAge, Aged
<1>1. CASE UNCHANGED vars
  BY <1>0, <1>1 DEF vars
<1>2. ASSUME NEW n \in Nodes, Domain(n) \/ DomainFails(n) \/ Environment(n) \/ LoseArtifact(n)
                                \/ DeleteSnapshot(n)
      PROVE  PassesAge
  <2>1. UNCHANGED pass
    BY <1>2 DEF Domain, Announce, EnsureChildren, EnsureVolumeCapture, EnsureManifestCapture,
       PlanCapture, FailPlanning, CaptureAfterSubtree, FinishCapture, FailCapture, DomainFails,
       LoseArtifact, DeleteSnapshot, RemoveSnapshot, Environment, BindContent, CaptureManifest,
       CaptureVolume, VolumeReady, markBoundSnapshotDeletedOnContent, CollectChild, CollectRequests
  <2>2. QED
    BY <1>0, <2>1
<1>3. ASSUME NEW q \in Queues, NEW n \in Nodes, ContentPass(q, n) PROVE PassesAge
  <2> DEFINE p == pass[<<q, n>>]
  <2>0. p \in Pass /\ <<q, n>> \in Queues \X Nodes /\ p.ob \in Content /\ content[n] \in Content
    BY DEF TypeOK, Pass
  <2>1. ASSUME NEW new, pass' = [pass EXCEPT ![<<q, n>>] = new], Aged(n, p, new)
        PROVE  PassesAge
    BY <2>1, OnePassAges
  <2> HIDE DEF p
  <2>2. CASE latchBoundSnapshotDeletedForMissingOwner(q, n)
    BY <1>0, <2>2 DEF latchBoundSnapshotDeletedForMissingOwner
  <2>3. CASE Observe(q, n)
    <3> DEFINE ow == [phase |-> snap[n].phase, captured |-> snap[n].captured,
                      ready |-> snap[n].ready]
               new == [NoPass EXCEPT !.pc = "derive", !.ob = content[n], !.ow = ow,
                         !.pend = DataPending(n), !.term = DataFailed(n),
                         !.rq = EdgesPending(n) \/ NamePending(n)]
    <3>1. pass' = [pass EXCEPT ![<<q, n>>] = new] /\ UNCHANGED <<snap, artifacts>>
      BY <2>3 DEF Observe
    <3>2. /\ new.pc = "derive" /\ new.ob = content[n]
          /\ new.ow.phase = snap[n].phase /\ new.ow.captured = snap[n].captured
          /\ new.pend = DataPending(n) /\ new.term = DataFailed(n)
      BY DEF NoPass
    <3> HIDE DEF new
    <3>3. Aged(n, p, new)
      BY <3>1, <3>2 DEF Aged
    <3>4. QED
      BY <2>1, <3>1, <3>3
  <2>4. CASE Derive(q, n)
    <3> DEFINE m == ManifestLeg(n, p.ob, p.ow)
               legs == [manifests |-> m, data |-> DataLeg(n, p.ob, m, p.pend, p.term),
                        children |-> validateCommonContentChildren(n, p.ob)]
               persisted == computeSubtreeManifestsPersisted(n, p.ob, m)
               ready == applyDomainPhaseFold(p.ow.phase, deriveReadyStatus(legs, persisted))
               same == p.ob.legs = legs /\ p.ob.ready = ready /\ p.ob.persisted = persisted
               new == [NoPass EXCEPT !.ob = p.ob, !.ow = p.ow, !.rq = p.rq,
                         !.pc = IF same THEN "legs" ELSE "write",
                         !.legs = IF same THEN NoLegs ELSE legs,
                         !.ready = IF same THEN "None" ELSE ready,
                         !.persisted = ~same /\ persisted]
    <3>1. /\ p.pc = "derive" /\ pass' = [pass EXCEPT ![<<q, n>>] = new]
          /\ UNCHANGED <<snap, content, everReady, vcr, vsc>>
      BY <2>4 DEF Derive, p
    <3>2. ready = DerivedReady(n, p)
      BY DEF DerivedReady
    <3>3. same \in BOOLEAN
      OBVIOUS
    <3> HIDE DEF legs, persisted, ready, same
    <3>4. /\ new.ob = p.ob /\ new.ow = p.ow
          /\ new.pc = IF same THEN "legs" ELSE "write"
          /\ ~same => new.ready = ready
      BY <3>3 DEF NoPass
    <3> HIDE DEF new
    <3>5. CASE same
      <4>1. p.pc = "derive" /\ new.pc = "legs" /\ new.ob = p.ob /\ new.ow = p.ow
        BY <3>1, <3>4, <3>5
      <4>2. Aged(n, p, new)
        BY <4>1 DEF Aged
      <4>3. QED
        BY <2>1, <3>1, <4>2
    <3>6. CASE ~same
      <4>1. /\ p.pc = "derive" /\ new.pc = "write" /\ new.ob = p.ob /\ new.ow = p.ow
            /\ new.ready = DerivedReady(n, p)
        BY <3>1, <3>2, <3>4, <3>6
      <4>2. Aged(n, p, new)
        BY <3>1, <4>1 DEF Aged
      <4>3. QED
        BY <2>1, <3>1, <4>2
    <3>7. QED
      BY <3>5, <3>6
  <2>5. CASE WriteStatus(q, n)
    <3> DEFINE new == [content[n] EXCEPT
                  !.legs = p.legs, !.ready = p.ready,
                  !.persisted = IF p.persisted # p.ob.persisted THEN p.persisted ELSE @]
               next == [NoPass EXCEPT !.pc = "legs", !.ob = new, !.ow = p.ow, !.rq = p.rq]
    <3>1. /\ p.pc = "write" /\ content' = [content EXCEPT ![n] = new]
          /\ pass' = [pass EXCEPT ![<<q, n>>] = next] /\ UNCHANGED snap
          /\ everReady' = everReady \cup (IF p.ready = "Completed" THEN {n} ELSE {})
      BY <2>5 DEF WriteStatus, p
    <3>2. content'[n] = new /\ new.ready = p.ready
      BY <2>0, <3>1 DEF TypeOK, Content
    <3> HIDE DEF new
    <3>3. next.pc = "legs" /\ next.ob = new /\ next.ow = p.ow
      BY DEF NoPass
    <3> HIDE DEF next
    <3>4. p.ready = "Completed" => n \in everReady'
      BY <3>1
    <3>5. Aged(n, p, next)
      BY <3>1, <3>2, <3>3, <3>4 DEF Aged
    <3>6. QED
      BY <2>1, <3>1, <3>5
  <2>6. CASE reconcileOwnerCaptureLegs(q, n)
    <3>1. /\ p.pc = "legs"
          /\ \E rq : \/ pass' = [pass EXCEPT ![<<q, n>>] = [p EXCEPT !.pc = "mirror"]]
                     \/ pass' = [pass EXCEPT ![<<q, n>>] = [p EXCEPT !.pc = "mirror", !.rq = rq]]
      BY <2>6 DEF reconcileOwnerCaptureLegs, p
    <3>2. PICK rq : \/ pass' = [pass EXCEPT ![<<q, n>>] = [p EXCEPT !.pc = "mirror"]]
                    \/ pass' = [pass EXCEPT ![<<q, n>>] = [p EXCEPT !.pc = "mirror", !.rq = rq]]
      BY <3>1
    <3>3. ASSUME NEW new \in {[p EXCEPT !.pc = "mirror"], [p EXCEPT !.pc = "mirror", !.rq = rq]}
          PROVE  Aged(n, p, new)
      <4>1. new.pc = "mirror" /\ new.ob = p.ob /\ new.ow = p.ow
        BY <2>0 DEF Pass
      <4>2. QED
        BY <3>1, <4>1 DEF Aged
    <3>4. QED
      BY <2>1, <3>2, <3>3
  <2>7. CASE mirrorReadyToOwnerSnapshot(q, n)
    <3>1. pass' = [pass EXCEPT ![<<q, n>>] = NoPass]
      BY <2>7 DEF mirrorReadyToOwnerSnapshot
    <3>2. Aged(n, p, NoPass)
      BY DEF Aged, NoPass
    <3>3. QED
      BY <2>1, <3>1, <3>2
  <2>8. QED
    BY <1>3, <2>2, <2>3, <2>4, <2>5, <2>6, <2>7 DEF ContentPass
<1>4. QED
  BY <1>1, <1>2, <1>3 DEF Next

-----------------------------------------------------------------------------
(* The latches of the capture stand for something durable. *)

\* Every step keeps the invariant of the latches.
LEMMA DurableStep ==
    ASSUME DurableInv, [Next]_vars, TypeOK'
    PROVE  DurableInv'
<1>0. /\ TypeOK /\ RequestsInOrder /\ ReapedIsDurable
      /\ \A n \in Nodes : snap[n].ex = "none" => ~snap[n].req
      /\ SnapshotsMove /\ ArtifactsMove /\ SnapshotsAge /\ ContentsAge /\ RequestsAge
  BY StepMovesSnapshots, StepMovesArtifacts, StepAgesSnapshots, StepAgesContents,
     StepAgesRequests DEF DurableInv
<1>1. RequestsInOrder'
  BY <1>0 DEF RequestsInOrder, SnapshotsMove, ArtifactsMove, TypeOK
<1>2. \A n \in Nodes : snap'[n].ex = "none" => ~snap'[n].req
  BY <1>0 DEF SnapshotsAge
<1>3. ASSUME NEW n \in Nodes PROVE Handed(n) => Handed(n)'
  BY <1>0, <1>3 DEF Handed, RequestsInOrder, ArtifactsMove
<1>4. ASSUME NEW n \in Nodes, snap'[n].captured PROVE Handed(n)' /\ content'[n].named
  <2>1. CASE snap[n].captured
    BY <1>0, <1>3, <2>1 DEF ReapedIsDurable, Handed, ContentsAge
  <2>2. CASE content[n].named /\ Handed(n) /\ UNCHANGED <<content, mcp>>
    BY <2>2 DEF Handed
  <2>3. QED
    BY <1>0, <1>4, <2>1, <2>2 DEF SnapshotsAge
<1>5. ASSUME NEW n \in Nodes, snap'[n].dataCaptured PROVE content'[n].data
  BY <1>0, <1>5 DEF ReapedIsDurable, SnapshotsAge, ContentsAge
<1>6. ASSUME NEW n \in Nodes, snap'[n].ex = "alive", snap'[n].req, mcr'[n] = "none"
      PROVE  snap'[n].captured
  <2>1. snap[n].req
    BY <1>0, <1>6 DEF SnapshotsAge
  <2>2. snap[n].ex = "alive"
    BY <1>0, <1>6, <2>1 DEF SnapshotsAge, TypeOK, Snapshot
  <2>3. mcr[n] = "none" \/ snap'[n].captured
    BY <1>0, <1>6 DEF RequestsAge
  <2>4. QED
    BY <1>0, <2>1, <2>2, <2>3 DEF ReapedIsDurable, SnapshotsAge, Alive
<1>7. ReapedIsDurable'
  BY <1>4, <1>5, <1>6 DEF ReapedIsDurable, Handed, Alive
<1>8. QED
  BY <1>1, <1>2, <1>7 DEF DurableInv

\* The invariant of the latches holds throughout.
LEMMA DurableAlways == Spec => []DurableInv
<1>1. Init => DurableInv
  <2> SUFFICES ASSUME Init PROVE DurableInv
    OBVIOUS
  <2>1. TypeOK
    BY InitType
  <2>2. \A n \in Nodes : ~snap[n].captured /\ ~snap[n].dataCaptured /\ ~snap[n].req
    BY DEF Init, NoSnapshot
  <2>3. QED
    BY <2>1, <2>2 DEF Init, DurableInv, RequestsInOrder, ReapedIsDurable
<1>2. DurableInv /\ [Next]_vars /\ TypeOK' => DurableInv'
  BY DurableStep
<1>3. QED
  BY <1>1, <1>2, TypeCorrect, PTL DEF Spec

\* A capture that is latched as done is done: the content names a checkpoint
\* that it owns, or publishes the data, before the request behind it goes, and
\* the request of a live snapshot goes for no other reason.
THEOREM ReapedDurable == Spec => []ReapedIsDurable
<1>1. DurableInv => ReapedIsDurable
  BY DEF DurableInv
<1>2. QED
  BY <1>1, DurableAlways, PTL

-----------------------------------------------------------------------------
(* What the readiness that a pass derives means. *)

\* Completed: a checkpoint that was published, no volume outstanding, every
\* linked child Ready, and a domain that has finished.
LEMMA CompletedMeans ==
    ASSUME TypeOK, NEW n \in Nodes, NEW p \in Pass, DerivedReady(n, p) = "Completed"
    PROVE  /\ p.ob.named /\ mcp[n] \in {"ready", "owned"}
           /\ ~p.pend /\ ~p.term /\ (p.ob.data => vsc[n] = "ready")
           /\ \A c \in p.ob.edges : content[c].ready = "Completed"
           /\ p.ow.phase \in {"None", "Finished"}
<1> DEFINE m == ManifestLeg(n, p.ob, p.ow)
           d == DataLeg(n, p.ob, m, p.pend, p.term)
           k == validateCommonContentChildren(n, p.ob)
           legs == [manifests |-> m, data |-> d, children |-> k]
           persisted == computeSubtreeManifestsPersisted(n, p.ob, m)
           ready == deriveReadyStatus(legs, persisted)
<1>0. /\ p.ob \in Content /\ p.ow \in Owner /\ p.pend \in BOOLEAN /\ p.term \in BOOLEAN
      /\ p.ow.phase \in Phases /\ p.ob.named \in BOOLEAN /\ p.ob.data \in BOOLEAN
      /\ mcp[n] \in {"none", "ready", "owned", "failed", "damaged", "gone"}
  BY DEF Pass, Owner, Content, TypeOK
<1>1. m \in LegStates /\ d \in LegStates /\ k \in LegStates /\ persisted \in BOOLEAN
  BY <1>0, DerivedTypes
<1>2. DerivedReady(n, p) = applyDomainPhaseFold(p.ow.phase, ready)
  BY DEF DerivedReady
<1>3. ready = "Completed" => m = "OK" /\ d = "OK" /\ k = "OK"
  <2>1. legs.manifests = m /\ legs.data = d /\ legs.children = k
    OBVIOUS
  <2> HIDE DEF m, d, k, legs, persisted
  <2>2. QED
    BY <1>1, <2>1 DEF deriveReadyStatus, LegStates
<1> HIDE DEF ready
<1>4. ready = "Completed" /\ p.ow.phase \in {"None", "Finished"}
  BY <1>0, <1>2 DEF applyDomainPhaseFold, Phases
<1>5. p.ob.named /\ mcp[n] \in {"ready", "owned"}
  BY <1>0, <1>3, <1>4 DEF ManifestLeg
<1>6. ~p.pend /\ ~p.term /\ (p.ob.data => vsc[n] = "ready")
  <2> HIDE DEF m
  <2>1. QED
    BY <1>0, <1>3, <1>4 DEF DataLeg
<1>7. \A c \in p.ob.edges : content[c].ready = "Completed"
  BY <1>3, <1>4 DEF validateCommonContentChildren
<1>8. QED
  BY <1>4, <1>5, <1>6, <1>7

\* Failed: a checkpoint or a volume that failed or was lost, a linked child that
\* failed, or a domain that did.
LEMMA FailedMeans ==
    ASSUME TypeOK, NEW n \in Nodes, NEW p \in Pass, DerivedReady(n, p) = "Failed"
    PROVE  \/ mcp[n] \in {"failed", "damaged", "gone"}
           \/ mcp[n] = "none" /\ p.ow.captured
           \/ p.term
           \/ p.ob.data /\ vsc[n] = "gone"
           \/ \E c \in p.ob.edges : content[c].ready = "Failed"
           \/ p.ow.phase = "Failed"
<1> DEFINE m == ManifestLeg(n, p.ob, p.ow)
           d == DataLeg(n, p.ob, m, p.pend, p.term)
           k == validateCommonContentChildren(n, p.ob)
           legs == [manifests |-> m, data |-> d, children |-> k]
           persisted == computeSubtreeManifestsPersisted(n, p.ob, m)
           ready == deriveReadyStatus(legs, persisted)
<1>0. /\ p.ob \in Content /\ p.ow \in Owner /\ p.pend \in BOOLEAN /\ p.term \in BOOLEAN
      /\ p.ow.phase \in Phases /\ p.ob.named \in BOOLEAN /\ p.ob.data \in BOOLEAN
      /\ mcp[n] \in {"none", "ready", "owned", "failed", "damaged", "gone"}
  BY DEF Pass, Owner, Content, TypeOK
<1>1. m \in LegStates /\ d \in LegStates /\ k \in LegStates /\ persisted \in BOOLEAN
  BY <1>0, DerivedTypes
<1>2. DerivedReady(n, p) = applyDomainPhaseFold(p.ow.phase, ready)
  BY DEF DerivedReady
<1>3. ready = "Failed" => m = "Failed" \/ d = "Failed" \/ k = "Failed"
  <2>1. legs.manifests = m /\ legs.data = d /\ legs.children = k
    OBVIOUS
  <2> HIDE DEF m, d, k, legs, persisted
  <2>2. QED
    BY <1>1, <2>1 DEF deriveReadyStatus, LegStates
<1>4. ready = "Failed" \/ p.ow.phase = "Failed"
  <2> HIDE DEF ready
  <2>1. QED
    BY <1>0, <1>2 DEF applyDomainPhaseFold, Phases
<1>5. m = "Failed" => mcp[n] \in {"failed", "damaged", "gone"} \/ (mcp[n] = "none" /\ p.ow.captured)
  BY <1>0 DEF ManifestLeg
<1>6. d = "Failed" => p.term \/ (p.ob.data /\ vsc[n] = "gone")
  <2> HIDE DEF m
  <2>1. QED
    BY <1>0 DEF DataLeg
<1>7. k = "Failed" => \E c \in p.ob.edges : content[c].ready = "Failed"
  BY DEF validateCommonContentChildren
<1>8. QED
  BY <1>3, <1>4, <1>5, <1>6, <1>7

-----------------------------------------------------------------------------
(* A Ready owner has earned it. *)

\* Every step keeps the invariant, for domains that announce themselves.
LEMMA EarnedStep ==
    ASSUME Announces, EarnedInv, [Next]_vars, TypeOK'
    PROVE  EarnedInv'
<1>0. /\ TypeOK /\ Announced /\ OwnersHold /\ OwnerReadyIsEarned
      /\ \A n \in Nodes : content[n].ready = "Completed"
                            => n \in everReady /\ Closed(snap[n].phase)
      /\ SnapshotsAge /\ ContentsAge /\ PassesAge /\ ContentsMove
  BY StepAgesSnapshots, StepAgesContents, StepAgesPasses, StepMovesContents DEF EarnedInv
<1>1. \A n \in Nodes : n \in everReady => n \in everReady'
  BY <1>0 DEF ContentsMove
<1>2. Announced'
  <2>1. ASSUME NEW n \in Nodes, snap'[n].req PROVE snap'[n].phase # "None"
    BY <1>0, <2>1 DEF Announced, SnapshotsAge
  <2>2. ASSUME NEW n \in Nodes, content'[n].named PROVE snap'[n].req
    <3>1. snap[n].req
      BY <1>0, <2>2 DEF Announced, ContentsAge
    <3>2. QED
      BY <1>0, <3>1, StepMovesSnapshots DEF SnapshotsMove
  <2>3. QED
    BY <2>1, <2>2 DEF Announced
<1>3. ASSUME NEW n \in Nodes, content'[n].ready = "Completed"
      PROVE  n \in everReady' /\ Closed(snap'[n].phase)
  <2>1. CASE content[n].ready = "Completed"
    BY <1>0, <1>1, <2>1 DEF SnapshotsAge
  <2>2. CASE content[n].ready # "Completed"
    <3>1. PICK q \in Queues : pass[<<q, n>>].pc = "write" /\ pass[<<q, n>>].ready = "Completed"
      BY <1>0, <1>3, <2>2, CompletedIsWritten
    <3>2. Closed(snap[n].phase)
      BY <1>0, <3>1 DEF OwnersHold
    <3>3. n \in everReady'
      BY <1>0, <1>3, <2>2 DEF ContentsMove
    <3>4. QED
      BY <1>0, <3>2, <3>3 DEF SnapshotsAge
  <2>3. QED
    BY <2>1, <2>2
<1>4. OwnerReadyIsEarned'
  <2> SUFFICES ASSUME NEW n \in Nodes, snap'[n].ready = "Completed"
               PROVE  n \in everReady' /\ Closed(snap'[n].phase)
    BY DEF OwnerReadyIsEarned, Closed
  <2>1. CASE snap[n].ready = "Completed"
    BY <1>0, <1>1, <2>1 DEF OwnerReadyIsEarned, SnapshotsAge, Closed
  <2>2. CASE snap[n].ready # "Completed"
    <3>1. PICK q \in Queues : /\ pass[<<q, n>>].pc = "mirror"
                              /\ pass[<<q, n>>].ob.ready = "Completed"
                              /\ pass[<<q, n>>].ow.phase \in {"None", "Finished"}
      BY <1>0, <2>2 DEF SnapshotsAge
    <3>2. n \in everReady /\ Closed(snap[n].phase)
      BY <1>0, <3>1 DEF OwnersHold, Closed
    <3>3. QED
      BY <1>0, <1>1, <3>2 DEF SnapshotsAge
  <2>3. QED
    BY <2>1, <2>2
<1>5. ASSUME NEW q \in Queues, NEW n \in Nodes
      PROVE  LET r == pass'[<<q, n>>] IN
             /\ r.pc # "idle" => (Closed(r.ow.phase) => Closed(snap'[n].phase))
             /\ r.pc = "derive" => (r.ob.named => r.ow.phase # "None")
             /\ r.pc = "write" => (r.ready = "Completed" => Closed(r.ow.phase))
             /\ r.pc # "idle" => (r.ob.ready = "Completed"
                                    => n \in everReady' /\ r.ow.phase # "None")
  <2> DEFINE p == pass[<<q, n>>]
             r == pass'[<<q, n>>]
             Goal == /\ r.pc # "idle" => (Closed(r.ow.phase) => Closed(snap'[n].phase))
                     /\ r.pc = "derive" => (r.ob.named => r.ow.phase # "None")
                     /\ r.pc = "write" => (r.ready = "Completed" => Closed(r.ow.phase))
                     /\ r.pc # "idle" => (r.ob.ready = "Completed"
                                            => n \in everReady' /\ r.ow.phase # "None")
  <2>0. p \in Pass /\ (Closed(snap[n].phase) => Closed(snap'[n].phase))
    BY <1>0 DEF TypeOK, SnapshotsAge
  <2>1. p.pc # "idle" =>
           /\ Closed(p.ow.phase) => Closed(snap'[n].phase)
           /\ p.ob.ready = "Completed" => n \in everReady' /\ p.ow.phase # "None"
    BY <1>0, <1>1, <2>0 DEF OwnersHold
  <2>2. ASSUME r = p PROVE Goal
    BY <1>0, <2>1, <2>2 DEF OwnersHold
  <2>3. ASSUME r.pc = "idle" PROVE Goal
    BY <2>3
  <2>4. ASSUME r.pc = "derive", r.ob = content[n], r.ow.phase = snap[n].phase, UNCHANGED snap
        PROVE  Goal
    BY <1>0, <1>1, <2>4 DEF Announced, Closed
  <2>5. ASSUME p.pc = "derive" \/ p.pc = "legs", r.pc \in {"legs", "mirror"},
               r.ob = p.ob, r.ow = p.ow
        PROVE  Goal
    BY <2>1, <2>5
  <2>6. ASSUME p.pc = "derive", r.pc = "write", r.ob = p.ob, r.ow = p.ow,
               r.ready = DerivedReady(n, p)
        PROVE  Goal
    <3>1. r.ready = "Completed" => p.ob.named /\ p.ow.phase \in {"None", "Finished"}
      <4>1. DerivedReady(n, p) = "Completed" => p.ob.named /\ p.ow.phase \in {"None", "Finished"}
        <5> HIDE DEF p
        <5>1. QED
          BY <1>0, <2>0, CompletedMeans
      <4>2. QED
        BY <2>6, <4>1
    <3>2. p.ob.named => p.ow.phase # "None"
      BY <1>0, <2>6 DEF OwnersHold
    <3>3. QED
      BY <2>1, <2>6, <3>1, <3>2 DEF Closed
  <2>7. ASSUME p.pc = "write", r.pc = "legs", r.ow = p.ow,
               r.ob.ready = p.ready, p.ready = "Completed" => n \in everReady'
        PROVE  Goal
    <3>1. p.ready = "Completed" => p.ow.phase # "None"
      BY <1>0, <2>7 DEF OwnersHold, Closed
    <3>2. QED
      BY <2>1, <2>7, <3>1
  <2> HIDE DEF Goal
  <2>8. Goal
    <3>1. Aged(n, p, r)
      BY <1>0 DEF PassesAge
    <3> HIDE DEF p, r
    <3>2. QED
      BY <3>1, <2>2, <2>3, <2>4, <2>5, <2>6, <2>7 DEF Aged
  <2>9. QED
    BY <2>8 DEF Goal
<1>6. OwnersHold'
  BY <1>5 DEF OwnersHold
<1>7. QED
  BY <1>2, <1>3, <1>4, <1>6 DEF EarnedInv

\* The invariant holds throughout.
LEMMA EarnedAlways == ASSUME Announces PROVE Spec => []EarnedInv
<1>1. Init => EarnedInv
  <2> SUFFICES ASSUME Init PROVE EarnedInv
    OBVIOUS
  <2>1. TypeOK
    BY InitType
  <2>2. /\ \A n \in Nodes : ~snap[n].req /\ snap[n].ready = "None"
        /\ \A n \in Nodes : content[n].ready = "None" /\ ~content[n].named
    BY DEF Init, NoSnapshot, NoContent
  <2>3. \A q \in Queues, n \in Nodes : pass[<<q, n>>].pc = "idle"
    BY DEF Init, NoPass
  <2>4. QED
    BY <2>1, <2>2, <2>3 DEF EarnedInv, Announced, OwnersHold, OwnerReadyIsEarned
<1>2. EarnedInv /\ [Next]_vars /\ TypeOK' => EarnedInv'
  BY EarnedStep
<1>3. QED
  BY <1>1, <1>2, TypeCorrect, PTL DEF Spec

\* A snapshot of a domain that announces itself says Ready=True only for a
\* content that was Ready and after the domain finished, although every pass
\* mirrors from copies of both that are stale.
THEOREM OwnerReadyEarned == ASSUME Announces PROVE Spec => []OwnerReadyIsEarned
<1>1. EarnedInv => OwnerReadyIsEarned
  BY DEF EarnedInv
<1>2. QED
  BY <1>1, EarnedAlways, PTL

-----------------------------------------------------------------------------
(* A content that is Ready over a volume had one. *)

\* Requests and artifacts of volumes stay in order.
LEMMA VolumesStep ==
    ASSUME VolumesInOrder, SnapshotsAge, RequestsAge
    PROVE  /\ VolumesInOrder'
           /\ \A n \in Nodes : vsc[n] \in {"ready", "gone"} => vsc'[n] \in {"ready", "gone"}
<1>1. ASSUME NEW n \in Nodes, ~snap'[n].vreq PROVE vcr'[n] = "none" /\ vsc'[n] = "none"
  <2>1. ~snap[n].vreq
    BY <1>1 DEF SnapshotsAge
  <2>2. vcr[n] = "none" /\ vsc[n] = "none"
    BY <2>1 DEF VolumesInOrder
  <2>3. QED
    BY <1>1, <2>2 DEF RequestsAge
<1>2. ASSUME NEW n \in Nodes, vcr'[n] = "pending" PROVE vsc'[n] = "none"
  BY <1>2 DEF VolumesInOrder, RequestsAge
<1>3. ASSUME NEW n \in Nodes, vsc[n] \in {"ready", "gone"} PROVE vsc'[n] \in {"ready", "gone"}
  BY <1>3 DEF VolumesInOrder, RequestsAge
<1>4. QED
  BY <1>1, <1>2, <1>3 DEF VolumesInOrder

\* Every step keeps the invariant, for domains that announce themselves.
LEMMA DataStep ==
    ASSUME Announces, DataInv, [Next]_vars, TypeOK'
    PROVE  DataInv'
<1>0. /\ TypeOK /\ OwnersHold /\ EarnedInv' /\ VolumesInOrder /\ VolumesHold /\ ReadyHasData
      /\ \A n \in Nodes : content[n].ready = "Completed" => Closed(snap[n].phase)
      /\ SnapshotsAge /\ ContentsAge /\ RequestsAge /\ PassesAge
  BY StepAgesSnapshots, StepAgesContents, StepAgesRequests, StepAgesPasses, EarnedStep
  DEF DataInv, EarnedInv
<1>1. /\ VolumesInOrder'
      /\ \A n \in Nodes : vsc[n] \in {"ready", "gone"} => vsc'[n] \in {"ready", "gone"}
  BY <1>0, VolumesStep
<1>2. ASSUME NEW n \in Nodes, Closed(snap[n].phase), snap'[n].vreq PROVE snap[n].vreq
  BY <1>0, <1>2 DEF SnapshotsAge, Closed, ownerChildSetFrozen
<1>3. ReadyHasData'
  <2> SUFFICES ASSUME NEW n \in Nodes, content'[n].ready = "Completed", snap'[n].vreq
               PROVE  vsc'[n] \in {"ready", "gone"}
    BY DEF ReadyHasData
  <2>1. CASE content[n].ready = "Completed"
    BY <1>0, <1>1, <1>2, <2>1 DEF ReadyHasData
  <2>2. CASE content[n].ready # "Completed"
    <3>1. PICK q \in Queues : pass[<<q, n>>].pc = "write" /\ pass[<<q, n>>].ready = "Completed"
      BY <1>0, <2>2, CompletedIsWritten
    <3>2. Closed(snap[n].phase)
      BY <1>0, <3>1 DEF OwnersHold
    <3>3. snap[n].vreq
      BY <1>2, <3>2
    <3>4. vsc[n] \in {"ready", "gone"}
      BY <1>0, <3>1, <3>3 DEF VolumesHold
    <3>5. QED
      BY <1>1, <3>4
  <2>3. QED
    BY <2>1, <2>2
<1>4. ASSUME NEW q \in Queues, NEW n \in Nodes
      PROVE  LET r == pass'[<<q, n>>] IN
             /\ r.pc = "derive" /\ Closed(r.ow.phase) /\ snap'[n].vreq
                   => r.pend \/ r.term \/ r.ob.data
             /\ r.pc = "write" /\ r.ready = "Completed" /\ snap'[n].vreq
                   => vsc'[n] \in {"ready", "gone"}
  <2> DEFINE p == pass[<<q, n>>]
             r == pass'[<<q, n>>]
             Goal == /\ r.pc = "derive" /\ Closed(r.ow.phase) /\ snap'[n].vreq
                           => r.pend \/ r.term \/ r.ob.data
                     /\ r.pc = "write" /\ r.ready = "Completed" /\ snap'[n].vreq
                           => vsc'[n] \in {"ready", "gone"}
  <2>1. ASSUME r = p PROVE Goal
    <3>1. p.pc = "derive" /\ Closed(p.ow.phase) => Closed(snap[n].phase)
      BY <1>0 DEF OwnersHold
    <3>2. p.pc = "write" /\ p.ready = "Completed" => Closed(snap[n].phase)
      BY <1>0 DEF OwnersHold
    <3>3. QED
      BY <1>0, <1>1, <1>2, <2>1, <3>1, <3>2 DEF VolumesHold
  <2>2. ASSUME r.pc = "derive", r.ob = content[n], r.pend = DataPending(n),
               r.term = DataFailed(n), UNCHANGED snap
        PROVE  Goal
    BY <2>2 DEF DataPending, DataFailed
  <2>3. ASSUME p.pc = "derive", r.pc = "write", r.ready = DerivedReady(n, p),
               UNCHANGED <<snap, vsc>>
        PROVE  Goal
    <3>1. p \in Pass /\ (p.ob.named => p.ow.phase # "None")
      BY <1>0, <2>3 DEF TypeOK, OwnersHold
    <3>2. DerivedReady(n, p) = "Completed" =>
             /\ p.ob.named /\ p.ow.phase \in {"None", "Finished"}
             /\ ~p.pend /\ ~p.term /\ (p.ob.data => vsc[n] = "ready")
      <4> HIDE DEF p
      <4>1. QED
        BY <1>0, <3>1, CompletedMeans
    <3>3. Closed(p.ow.phase) /\ snap[n].vreq => p.pend \/ p.term \/ p.ob.data
      BY <1>0, <2>3 DEF VolumesHold
    <3>4. DerivedReady(n, p) = "Completed" /\ snap[n].vreq => vsc[n] = "ready"
      BY <3>1, <3>2, <3>3 DEF Closed
    <3>5. QED
      BY <2>3, <3>4
  <2>4. ASSUME r.pc \in {"idle", "legs", "mirror"} PROVE Goal
    BY <2>4
  <2> HIDE DEF Goal
  <2>5. Goal
    <3>1. Aged(n, p, r)
      BY <1>0 DEF PassesAge
    <3> HIDE DEF p, r
    <3>2. QED
      BY <3>1, <2>1, <2>2, <2>3, <2>4 DEF Aged
  <2>6. QED
    BY <2>5 DEF Goal
<1>5. VolumesHold'
  BY <1>4 DEF VolumesHold
<1>6. QED
  BY <1>0, <1>1, <1>3, <1>5 DEF DataInv

\* The invariant of the volumes holds throughout.
LEMMA DataAlways == ASSUME Announces PROVE Spec => []DataInv
<1>1. Init /\ EarnedInv => DataInv
  <2> SUFFICES ASSUME Init, EarnedInv PROVE DataInv
    OBVIOUS
  <2>1. \A q \in Queues, n \in Nodes : pass[<<q, n>>].pc = "idle"
    BY DEF Init, NoPass
  <2>2. \A n \in Nodes : content[n].ready = "None"
    BY DEF Init, NoContent
  <2>3. QED
    BY <2>1, <2>2 DEF Init, DataInv, VolumesInOrder, VolumesHold, ReadyHasData
<1>2. DataInv /\ [Next]_vars /\ TypeOK' => DataInv'
  BY DataStep
<1>3. QED
  BY <1>1, <1>2, TypeCorrect, EarnedAlways, PTL DEF Spec

\* A content that is Ready for a snapshot with a volume to capture had a usable
\* artifact, whoever moved between the copy the pass began with and its write.
THEOREM ReadyHadData == ASSUME Announces PROVE Spec => []ReadyHasData
<1>1. DataInv => ReadyHasData
  BY DEF DataInv
<1>2. QED
  BY <1>1, DataAlways, PTL

-----------------------------------------------------------------------------
(* A content that failed stays failed. *)

\* The reasons why a content fails on its own account do not go away.
LEMMA IllStays ==
    ASSUME RequestsInOrder, VolumesInOrder, SnapshotsAge, ContentsAge, RequestsAge, ArtifactsMove,
           NEW n \in Nodes
    PROVE  /\ mcp[n] \in {"failed", "damaged", "gone"} => mcp'[n] \in {"failed", "damaged", "gone"}
           /\ snap[n].vreq /\ ~content[n].data /\ vcr[n] \in {"failed", "none"} =>
                snap'[n].vreq /\ ~content'[n].data /\ vcr'[n] \in {"failed", "none"}
           /\ vsc[n] = "gone" => vsc'[n] = "gone"
           /\ Ill(n) => Ill(n)'
<1>1. mcp[n] \in {"failed", "damaged", "gone"} => mcp'[n] \in {"failed", "damaged", "gone"}
  BY DEF RequestsInOrder, RequestsAge
<1>2. snap[n].vreq /\ ~content[n].data /\ vcr[n] \in {"failed", "none"} =>
        snap'[n].vreq /\ ~content'[n].data /\ vcr'[n] \in {"failed", "none"}
  <2> SUFFICES ASSUME snap[n].vreq, ~content[n].data, vcr[n] \in {"failed", "none"}
               PROVE  snap'[n].vreq /\ ~content'[n].data /\ vcr'[n] \in {"failed", "none"}
    OBVIOUS
  <2>1. snap'[n].vreq
    BY DEF SnapshotsAge
  <2>2. ~content'[n].data
    BY DEF ContentsAge
  <2>3. vcr'[n] \in {"failed", "none"}
    BY DEF RequestsAge
  <2>4. QED
    BY <2>1, <2>2, <2>3
<1>3. vsc[n] = "gone" => vsc'[n] = "gone"
  BY DEF VolumesInOrder, RequestsAge
<1>4. content[n].data => content'[n].data
  BY DEF ContentsAge
<1>5. snap[n].phase = "Failed" => snap'[n].phase = "Failed"
  BY DEF SnapshotsAge
<1>6. QED
  BY <1>1, <1>2, <1>3, <1>4, <1>5 DEF Ill

\* What a pass read of its content and its owner is not taken back.
LEMMA MemoryStep ==
    ASSUME TypeOK, MemoryHolds, VolumesInOrder, RequestsInOrder, SnapshotsAge, ContentsAge,
           RequestsAge, ArtifactsMove, PassesAge, ContentsMove
    PROVE  MemoryHolds'
<1> SUFFICES ASSUME NEW q \in Queues, NEW n \in Nodes, pass'[<<q, n>>].pc # "idle"
             PROVE  LET r == pass'[<<q, n>>] IN
                    /\ r.ob.edges \subseteq content'[n].edges
                    /\ r.ob.data => content'[n].data
                    /\ r.ow.phase = "Failed" => snap'[n].phase = "Failed"
                    /\ r.ow.captured => snap'[n].captured
                    /\ r.pc = "derive" /\ r.term =>
                          snap'[n].vreq /\ ~content'[n].data /\ vcr'[n] \in {"failed", "none"}
  BY DEF MemoryHolds
<1> DEFINE p == pass[<<q, n>>]
           r == pass'[<<q, n>>]
           Quiet == snap'[n].vreq /\ ~content'[n].data /\ vcr'[n] \in {"failed", "none"}
           Goal == /\ r.ob.edges \subseteq content'[n].edges
                   /\ r.ob.data => content'[n].data
                   /\ r.ow.phase = "Failed" => snap'[n].phase = "Failed"
                   /\ r.ow.captured => snap'[n].captured
                   /\ r.pc = "derive" /\ r.term => Quiet
<1>0. /\ content[n].edges \subseteq content'[n].edges
      /\ content[n].data => content'[n].data
      /\ snap[n].phase = "Failed" => snap'[n].phase = "Failed"
      /\ snap[n].captured => snap'[n].captured
  BY DEF ContentsMove, ContentsAge, SnapshotsAge
<1>1. snap[n].vreq /\ ~content[n].data /\ vcr[n] \in {"failed", "none"} => Quiet
  BY IllStays
<1>2. p.pc # "idle" => /\ p.ob.edges \subseteq content'[n].edges
                       /\ p.ob.data => content'[n].data
                       /\ p.ow.phase = "Failed" => snap'[n].phase = "Failed"
                       /\ p.ow.captured => snap'[n].captured
                       /\ p.pc = "derive" /\ p.term => Quiet
  <2> HIDE DEF Quiet
  <2>1. QED
    BY <1>0, <1>1 DEF MemoryHolds
<1> HIDE DEF Quiet
<1>3. ASSUME r = p PROVE Goal
  BY <1>2, <1>3
<1>4. ASSUME r.pc = "derive", r.ob = content[n], r.ow.phase = snap[n].phase,
             r.ow.captured = snap[n].captured, r.term = DataFailed(n)
      PROVE  Goal
  BY <1>0, <1>1, <1>4 DEF DataFailed
<1>5. ASSUME p.pc # "idle", r.pc # "derive", r.ob = p.ob, r.ow = p.ow PROVE Goal
  BY <1>2, <1>5
<1>6. ASSUME p.pc = "write", r.pc = "legs", r.ob = content'[n], r.ow = p.ow PROVE Goal
  BY <1>2, <1>6
<1> HIDE DEF Goal
<1>7. Goal
  <2>1. Aged(n, p, r) /\ r.pc # "idle"
    BY DEF PassesAge
  <2> HIDE DEF p, r
  <2>2. QED
    BY <2>1, <1>3, <1>4, <1>5, <1>6 DEF Aged
<1>8. QED
  BY <1>7 DEF Goal, Quiet

\* A step of the only work queue keeps the doom: S grows by the content whose
\* Ready the step turns to Failed.
LEMMA DoomStep ==
    ASSUME Queues = {"content"}, LossInv, [Next]_vars, NEW S \in SUBSET Nodes, Dooms(S)
    PROVE  /\ \E T \in SUBSET Nodes : S \subseteq T /\ Dooms(T)'
           /\ \A n \in S : content'[n].ready # "Completed"
<1>0. /\ TypeOK /\ RequestsInOrder /\ ReapedIsDurable /\ VolumesInOrder /\ MemoryHolds
      /\ SnapshotsAge /\ ContentsAge /\ RequestsAge /\ PassesAge /\ ContentsMove /\ ArtifactsMove
  BY StepAgesSnapshots, StepAgesContents, StepAgesRequests, StepAgesPasses,
     StepMovesContents, StepMovesArtifacts DEF LossInv, DurableInv
<1>1. Dooms(S)
  OBVIOUS
<1>2. PICK T \in SUBSET Nodes : T = S \cup {n \in Nodes : content'[n].ready = "Failed"}
  OBVIOUS
<1>3. ASSUME NEW n \in Nodes, Doomed(n, S) PROVE Doomed(n, T)'
  <2>1. Ill(n) => Ill(n)'
    BY <1>0, IllStays
  <2>2. content[n].edges \subseteq content'[n].edges
    BY <1>0 DEF ContentsMove
  <2>3. QED
    BY <1>2, <1>3, <2>1, <2>2 DEF Doomed
<1>4. ASSUME NEW n \in T, n \notin S
      PROVE  \E q \in Queues : /\ pass[<<q, n>>].pc = "write" /\ pass[<<q, n>>].ready = "Failed"
                               /\ pass'[<<q, n>>].pc = "legs"
  <2>1. content'[n].ready = "Failed" /\ content[n].ready # "Failed" /\ n \in Nodes
    BY <1>1, <1>2, <1>4 DEF Dooms
  <2>2. QED
    BY <1>0, <2>1, ReadyIsWritten
<1>5. ASSUME NEW n \in S PROVE content'[n].ready # "Completed"
  <2>1. CASE content'[n].ready = content[n].ready
    BY <1>1, <2>1 DEF Dooms
  <2>2. CASE content'[n].ready # content[n].ready
    <3>1. PICK q \in Queues : pass[<<q, n>>].pc = "write" /\ content'[n].ready = pass[<<q, n>>].ready
      BY <1>0, <2>2, ReadyIsWritten
    <3>2. QED
      BY <1>1, <3>1 DEF Dooms
  <2>3. QED
    BY <2>1, <2>2
<1>6. ASSUME NEW n \in T PROVE content'[n].ready # "Completed" /\ Doomed(n, T)'
  <2>1. CASE n \in S
    BY <1>1, <1>3, <1>5, <2>1 DEF Dooms
  <2>2. CASE n \notin S
    <3>1. content'[n].ready = "Failed"
      BY <1>2, <2>2
    <3>2. Doomed(n, S)
      BY <1>1, <1>4, <2>2 DEF Dooms
    <3>3. QED
      BY <1>3, <3>1, <3>2
  <2>3. QED
    BY <2>1, <2>2
<1>7. ASSUME NEW q \in Queues, NEW n \in Nodes
      PROVE  LET r == pass'[<<q, n>>] IN
             /\ n \in T /\ r.pc = "derive" =>
                   \/ mcp'[n] \in {"failed", "damaged", "gone"}
                   \/ r.pend \/ r.term
                   \/ r.ob.data /\ vsc'[n] = "gone"
                   \/ r.ow.phase = "Failed"
                   \/ r.ob.edges \cap T # {}
             /\ n \in T /\ r.pc = "write" => r.ready # "Completed"
             /\ r.pc = "write" /\ r.ready = "Failed" => Doomed(n, T)'
  <2> DEFINE p == pass[<<q, n>>]
             r == pass'[<<q, n>>]
             Sees == \/ mcp'[n] \in {"failed", "damaged", "gone"}
                     \/ r.pend \/ r.term
                     \/ r.ob.data /\ vsc'[n] = "gone"
                     \/ r.ow.phase = "Failed"
                     \/ r.ob.edges \cap T # {}
             Goal == /\ n \in T /\ r.pc = "derive" => Sees
                     /\ n \in T /\ r.pc = "write" => r.ready # "Completed"
                     /\ r.pc = "write" /\ r.ready = "Failed" => Doomed(n, T)'
  <2>0. n \in T /\ r.pc # "legs" => n \in S
    BY <1>4
  <2>1. /\ n \in S /\ p.pc = "derive" => Noticed(p, n, S)
        /\ n \in S /\ p.pc = "write" => p.ready # "Completed"
        /\ p.pc = "write" /\ p.ready = "Failed" => Doomed(n, S)
        /\ n \in S => Doomed(n, S)
    BY <1>1 DEF Dooms
  <2>2. ASSUME r = p PROVE Goal
    <3>1. n \in T /\ r.pc = "derive" => Sees
      <4> SUFFICES ASSUME n \in T, r.pc = "derive" PROVE Sees
        OBVIOUS
      <4>1. Noticed(p, n, S)
        BY <2>0, <2>1, <2>2
      <4>2. /\ mcp[n] \in {"failed", "damaged", "gone"} => mcp'[n] \in {"failed", "damaged", "gone"}
            /\ vsc[n] = "gone" => vsc'[n] = "gone"
        BY <1>0, IllStays
      <4>3. QED
        BY <1>2, <2>2, <4>1, <4>2 DEF Noticed
    <3> HIDE DEF Sees
    <3>2. QED
      BY <1>3, <2>0, <2>1, <2>2, <3>1
  <2>3. ASSUME r.pc = "derive", r.ob = content[n], r.ow.phase = snap[n].phase,
               r.pend = DataPending(n), r.term = DataFailed(n), UNCHANGED <<snap, artifacts>>
        PROVE  Goal
    <3>1. n \in T => Sees
      <4> SUFFICES ASSUME n \in T PROVE Sees
        OBVIOUS
      <4>1. Ill(n) \/ content[n].edges \cap S # {}
        BY <2>0, <2>1, <2>3 DEF Doomed
      <4>2. CASE content[n].edges \cap S # {}
        BY <1>2, <2>3, <4>2
      <4>3. CASE Ill(n)
        BY <2>3, <4>3 DEF Ill, DataPending, DataFailed, artifacts
      <4>4. QED
        BY <4>1, <4>2, <4>3
    <3> HIDE DEF Sees
    <3>2. QED
      BY <2>3, <3>1
  <2>4. ASSUME p.pc = "derive", r.pc = "write", r.ready = DerivedReady(n, p)
        PROVE  Goal
    <3>1. /\ p \in Pass /\ p.ob.edges \subseteq content[n].edges
          /\ p.ob.data => content[n].data
          /\ p.ow.phase = "Failed" => snap[n].phase = "Failed"
          /\ p.ow.captured => snap[n].captured
          /\ p.term => snap[n].vreq /\ ~content[n].data /\ vcr[n] \in {"failed", "none"}
      BY <1>0, <2>4 DEF TypeOK, MemoryHolds
    <3>2. n \in S => DerivedReady(n, p) # "Completed"
      <4> SUFFICES ASSUME n \in S, DerivedReady(n, p) = "Completed" PROVE FALSE
        OBVIOUS
      <4>1. Noticed(p, n, S)
        BY <2>1, <2>4
      <4>2. /\ mcp[n] \in {"ready", "owned"}
            /\ ~p.pend /\ ~p.term /\ (p.ob.data => vsc[n] = "ready")
            /\ \A c \in p.ob.edges : content[c].ready = "Completed"
            /\ p.ow.phase \in {"None", "Finished"}
        <5> HIDE DEF p
        <5>1. QED
          BY <1>0, <3>1, CompletedMeans
      <4>3. p.ob.edges \cap S = {}
        BY <1>1, <4>2 DEF Dooms
      <4> HIDE DEF p
      <4>4. QED
        BY <4>1, <4>2, <4>3 DEF Noticed
    <3>3. DerivedReady(n, p) = "Failed" => Doomed(n, S)
      <4> SUFFICES ASSUME DerivedReady(n, p) = "Failed" PROVE Doomed(n, S)
        OBVIOUS
      <4>1. \/ mcp[n] \in {"failed", "damaged", "gone"}
            \/ mcp[n] = "none" /\ p.ow.captured
            \/ p.term
            \/ p.ob.data /\ vsc[n] = "gone"
            \/ \E c \in p.ob.edges : content[c].ready = "Failed"
            \/ p.ow.phase = "Failed"
        <5> HIDE DEF p
        <5>1. QED
          BY <1>0, <3>1, FailedMeans
      <4>2. ~(mcp[n] = "none" /\ p.ow.captured)
        BY <1>0, <3>1 DEF ReapedIsDurable
      <4>3. CASE \E c \in p.ob.edges : content[c].ready = "Failed"
        <5>1. PICK c \in p.ob.edges : content[c].ready = "Failed"
          BY <4>3
        <5>2. c \in content[n].edges /\ c \in Nodes
          BY <1>0, <3>1 DEF TypeOK, Content
        <5>3. c \in S
          BY <1>1, <5>1, <5>2 DEF Dooms
        <5>4. QED
          BY <5>2, <5>3 DEF Doomed
      <4> HIDE DEF p
      <4>4. QED
        BY <3>1, <4>1, <4>2, <4>3 DEF Doomed, Ill
    <3>4. r.pc # "derive" /\ r.pc # "legs"
      BY <2>4
    <3> HIDE DEF Sees
    <3>5. QED
      BY <1>3, <2>0, <2>4, <3>2, <3>3, <3>4
  <2>5. ASSUME r.pc \notin {"derive", "write"} PROVE Goal
    BY <2>5
  <2> HIDE DEF Goal
  <2>6. Goal
    <3>1. Aged(n, p, r)
      BY <1>0 DEF PassesAge
    <3> HIDE DEF p, r
    <3>2. QED
      BY <3>1, <2>2, <2>3, <2>4, <2>5 DEF Aged
  <2>7. QED
    BY <2>6 DEF Goal
<1>8. Dooms(T)'
  BY <1>2, <1>6, <1>7 DEF Dooms, Noticed
<1>9. QED
  BY <1>2, <1>5, <1>8

\* Every step of the only work queue keeps the invariant.
LEMMA LossStep ==
    ASSUME Queues = {"content"}, LossInv, [Next]_vars, TypeOK'
    PROVE  LossInv'
<1>0. DurableInv /\ TypeOK /\ RequestsInOrder /\ VolumesInOrder /\ MemoryHolds
  BY DEF LossInv, DurableInv
<1>1. SnapshotsAge /\ ContentsAge /\ RequestsAge /\ PassesAge /\ ContentsMove /\ ArtifactsMove
  BY <1>0, StepAgesSnapshots, StepAgesContents, StepAgesRequests, StepAgesPasses,
     StepMovesContents, StepMovesArtifacts
<1>2. DurableInv'
  BY <1>0, DurableStep
<1>3. VolumesInOrder'
  BY <1>0, <1>1, VolumesStep
<1>4. MemoryHolds'
  BY <1>0, <1>1, MemoryStep
<1>5. (\E S \in SUBSET Nodes : Dooms(S))'
  BY DoomStep DEF LossInv
<1>6. QED
  BY <1>2, <1>3, <1>4, <1>5 DEF LossInv

\* With one work queue the invariant holds throughout.
LEMMA LossAlways == ASSUME Queues = {"content"} PROVE Spec => []LossInv
<1>1. Init /\ DurableInv => LossInv
  <2> SUFFICES ASSUME Init, DurableInv PROVE LossInv
    OBVIOUS
  <2>1. \A q \in Queues, n \in Nodes : pass[<<q, n>>].pc = "idle"
    BY DEF Init, NoPass
  <2>2. \A n \in Nodes : content[n].ready = "None"
    BY DEF Init, NoContent
  <2>3. Dooms({})
    BY <2>1, <2>2 DEF Dooms
  <2>4. VolumesInOrder /\ MemoryHolds
    BY <2>1 DEF Init, VolumesInOrder, MemoryHolds
  <2>5. QED
    BY <2>3, <2>4 DEF LossInv
<1>2. LossInv /\ [Next]_vars /\ TypeOK' => LossInv'
  BY LossStep
<1>3. QED
  BY <1>1, <1>2, TypeCorrect, DurableAlways, PTL DEF Spec

\* A content that failed over a lost artifact does not look Ready in the next
\* step: what it failed over is still there whenever one of its passes looks,
\* and no pass that looked before is left to write what it saw.
THEOREM LossFinal == ASSUME Queues = {"content"} PROVE Spec => LossIsFinal
<1>1. LossInv /\ [Next]_vars =>
         [\A n \in Nodes : ArtifactLost(n) /\ content[n].ready = "Failed"
                             => content'[n].ready # "Completed"]_vars
  <2> SUFFICES ASSUME LossInv, [Next]_vars, NEW n \in Nodes, content[n].ready = "Failed"
               PROVE  content'[n].ready # "Completed"
    OBVIOUS
  <2>1. PICK S \in SUBSET Nodes : Dooms(S)
    BY DEF LossInv
  <2>2. \A m \in S : content'[m].ready # "Completed"
    BY <2>1, DoomStep
  <2>3. QED
    BY <2>1, <2>2 DEF Dooms
<1>2. QED
  BY <1>1, LossAlways, PTL DEF Spec, LossIsFinal

\* The content n is among the doomed.
Fated(n) == \E S \in SUBSET Nodes : n \in S /\ Dooms(S)

\* The doomed stay doomed.
LEMMA FatedStays ==
    ASSUME Queues = {"content"}, LossInv, [Next]_vars, NEW n \in Nodes, Fated(n)
    PROVE  Fated(n)'
<1>1. PICK S \in SUBSET Nodes : n \in S /\ Dooms(S)
  BY DEF Fated
<1>2. PICK T \in SUBSET Nodes : S \subseteq T /\ Dooms(T)'
  BY <1>1, DoomStep
<1>3. QED
  BY <1>1, <1>2 DEF Fated

\* More is true: a content that failed, for whatever reason, is never Ready
\* again, however often its readiness is derived and written anew.
THEOREM FailedForGood ==
    ASSUME Queues = {"content"}, NEW n \in Nodes
    PROVE  Spec => [](content[n].ready = "Failed" => [](content[n].ready # "Completed"))
<1>1. LossInv /\ content[n].ready = "Failed" => Fated(n)
  BY DEF LossInv, Dooms, Fated
<1>2. LossInv /\ Fated(n) /\ [Next]_vars => Fated(n)'
  BY FatedStays
<1>3. Fated(n) => content[n].ready # "Completed"
  BY DEF Fated, Dooms
<1>4. QED
  BY <1>1, <1>2, <1>3, LossAlways, PTL DEF Spec
=============================================================================
