------------------------ MODULE ContentTreeLegProofs ------------------------
(***************************************************************************)
(* The manifest leg of one snapshot of a tree is a CaptureLeg, the same    *)
(* abstract request that ManifestCapture implements in detail: the tree    *)
(* may take the executor for the one step that it makes of it.             *)
(***************************************************************************)
EXTENDS ContentTreeDataProofs

\* A leg does not move if nothing of it changes.
LEMMA LegStutters ==
    ASSUME NEW n \in Nodes, LegRequest(n)' = LegRequest(n), mcp'[n] = mcp[n],
           snap'[n].captured = snap[n].captured
    PROVE  UNCHANGED Leg(n)!legVars
BY DEF Leg!legVars, LegCopy, LegOwner

\* Every leg starts as a CaptureLeg does.
LEMMA LegStarts ==
    ASSUME Init, NEW n \in Nodes
    PROVE  Leg(n)!LegInit
<1>1. ~snap[n].captured /\ ~snap[n].req /\ snap[n].captured \in BOOLEAN /\ mcp[n] = "none"
  BY DEF Init, NoSnapshot
<1>2. QED
  BY <1>1 DEF Leg!LegInit, LegRequest, LegCopy, LegOwner

\* What is left of the request and the checkpoint of an undisturbed snapshot:
\* a checkpoint that is not handed over has its request.
LEMMA LegKeepsRequest ==
    ASSUME DurableInv, NEW n \in Nodes, Undisturbed(n), mcp[n] \in {"ready", "failed"}
    PROVE  snap[n].req /\ mcr[n] # "none"
<1>1. snap[n].req
  BY DEF DurableInv, RequestsInOrder
<1>2. snap[n].ex = "alive"
  BY <1>1 DEF DurableInv, Undisturbed, TypeOK, Snapshot
<1>3. ~snap[n].captured
  BY DEF DurableInv, ReapedIsDurable
<1>4. QED
  BY <1>1, <1>2, <1>3 DEF DurableInv, ReapedIsDurable, Alive

\* What a step of anybody does to the leg of one snapshot.
LegMoves(n) ==
    LET s == snap[n]
        t == snap'[n]
    IN
    \/ t.req = s.req /\ t.captured = s.captured /\ mcr'[n] = mcr[n] /\ mcp'[n] = mcp[n]
    \/ ~s.req /\ t.req /\ t.captured = s.captured /\ mcr'[n] = "open" /\ mcp'[n] = mcp[n]
    \/ /\ mcr[n] = "open" /\ mcr'[n] = "named" /\ mcp'[n] \in {"ready", "failed"}
       /\ t.req = s.req /\ t.captured = s.captured
    \/ /\ mcp[n] = "ready" /\ mcp'[n] = "owned"
       /\ mcr'[n] = mcr[n] /\ t.req = s.req /\ t.captured = s.captured
    \/ /\ s.captured /\ t.captured /\ mcr'[n] \in {mcr[n], "none"}
       /\ mcp'[n] = mcp[n] /\ t.req = s.req
    \/ /\ t.captured /\ mcp[n] \in {"owned", "damaged"} /\ mcr'[n] \in {mcr[n], "none"}
       /\ mcp'[n] = mcp[n] /\ t.req = s.req
    \/ s.ex = "gone" \/ mcp'[n] \in {"damaged", "gone"}

\* A leg that moves so takes a step of CaptureLeg, or none.
LEMMA LegSimulated ==
    ASSUME DurableInv, TypeOK', NEW n \in Nodes, Undisturbed(n), Undisturbed(n)', LegMoves(n)
    PROVE  [Leg(n)!LegNext]_(Leg(n)!legVars)
<1> DEFINE s == snap[n]
           t == snap'[n]
<1>0. /\ s.req \in BOOLEAN /\ s.captured \in BOOLEAN /\ t.req \in BOOLEAN /\ t.captured \in BOOLEAN
      /\ mcp[n] \in {"none", "ready", "owned", "failed"}
      /\ mcp'[n] \in {"none", "ready", "owned", "failed"}
      /\ ~s.req => mcr[n] = "none" /\ mcp[n] = "none"
      /\ mcr[n] = "open" => mcp[n] = "none"
      /\ s.captured => mcp[n] = "owned"
      /\ mcp[n] \in {"ready", "failed"} => s.req /\ mcr[n] # "none"
  BY LegKeepsRequest DEF DurableInv, TypeOK, Snapshot, RequestsInOrder, ReapedIsDurable, Undisturbed
<1> HIDE DEF s, t
<1>1. CASE t.req = s.req /\ t.captured = s.captured /\ mcr'[n] = mcr[n] /\ mcp'[n] = mcp[n]
  BY <1>1, LegStutters DEF LegRequest, s, t
<1>2. CASE ~s.req /\ t.req /\ t.captured = s.captured /\ mcr'[n] = "open" /\ mcp'[n] = mcp[n]
  <2>1. LegRequest(n) = "open" /\ LegRequest(n)' = "open"
    BY <1>0, <1>2 DEF LegRequest, s, t
  <2>2. QED
    BY <1>2, <2>1, LegStutters DEF s, t
<1>3. CASE /\ mcr[n] = "open" /\ mcr'[n] = "named" /\ mcp'[n] \in {"ready", "failed"}
           /\ t.req = s.req /\ t.captured = s.captured
  <2>1. LegRequest(n) = "open" /\ LegCopy(n) = "none" /\ LegOwner(n) = "keeper"
    BY <1>0, <1>3 DEF LegRequest, LegCopy, LegOwner
  <2>2. LegOwner(n)' = "keeper" /\ snap'[n].captured = snap[n].captured
    BY <1>3 DEF LegOwner, s, t
  <2>3. CASE mcp'[n] = "ready"
    <3>1. LegRequest(n)' = "open" /\ LegCopy(n)' = "copy"
      BY <1>3, <2>3 DEF LegRequest, LegCopy
    <3>2. QED
      BY <2>1, <2>2, <3>1 DEF Leg!LegNext, Leg!Write
  <2>4. CASE mcp'[n] = "failed"
    <3>1. LegRequest(n)' = "failed" /\ LegCopy(n)' = "none"
      BY <1>3, <2>4 DEF LegRequest, LegCopy
    <3>2. QED
      BY <2>1, <2>2, <3>1 DEF Leg!LegNext, Leg!Fail
  <2>5. QED
    BY <1>3, <2>3, <2>4
<1>4. CASE /\ mcp[n] = "ready" /\ mcp'[n] = "owned"
           /\ mcr'[n] = mcr[n] /\ t.req = s.req /\ t.captured = s.captured
  <2>1. /\ LegRequest(n) = "open" /\ LegCopy(n) = "copy" /\ LegOwner(n) = "keeper"
        /\ LegRequest(n)' = "open" /\ LegCopy(n)' = "copy" /\ LegOwner(n)' = "content"
    BY <1>0, <1>4 DEF LegRequest, LegCopy, LegOwner
  <2>2. snap'[n].captured = snap[n].captured
    BY <1>4 DEF s, t
  <2>3. QED
    BY <2>1, <2>2 DEF Leg!LegNext, Leg!HandOver
<1>5. ASSUME t.captured, mcp[n] = "owned", mcp'[n] = "owned", t.req = s.req,
             mcr'[n] \in {mcr[n], "none"}
      PROVE  [Leg(n)!LegNext]_(Leg(n)!legVars)
  <2>1. /\ LegOwner(n) = "content" /\ LegCopy(n) = "copy"
        /\ LegOwner(n)' = "content" /\ LegCopy(n)' = "copy"
    BY <1>5 DEF LegOwner, LegCopy
  <2>2. s.req /\ LegRequest(n)' \in {LegRequest(n), "gone"}
    BY <1>0, <1>5 DEF LegRequest, s, t
  <2>3. snap'[n].captured = TRUE
    BY <1>0, <1>5 DEF t
  <2>4. QED
    BY <2>1, <2>2, <2>3 DEF Leg!LegNext, Leg!Latch
<1>6. QED
  BY <1>0, <1>1, <1>2, <1>3, <1>4, <1>5 DEF LegMoves, Undisturbed, s, t

\* A write of one snapshot that leaves its request and its latch alone moves
\* no leg, if no request and no checkpoint changes.
LEMMA LegsRest ==
    ASSUME TypeOK, NEW m \in Nodes, NEW new, snap' = [snap EXCEPT ![m] = new],
           new.req = snap[m].req, new.captured = snap[m].captured, UNCHANGED <<mcr, mcp>>,
           NEW n \in Nodes
    PROVE  LegMoves(n)
<1>1. snap'[n].req = snap[n].req /\ snap'[n].captured = snap[n].captured
  BY DEF TypeOK
<1>2. mcr'[n] = mcr[n] /\ mcp'[n] = mcp[n]
  OBVIOUS
<1>3. QED
  BY <1>1, <1>2 DEF LegMoves

\* The steps of the domains move a leg so.
LEMMA DomainMovesLegs ==
    ASSUME TypeOK, NEW n \in Nodes, NEW m \in Nodes, Domain(m) \/ DomainFails(m)
    PROVE  LegMoves(n)
<1>0. snap[m] \in Snapshot /\ snap[n] \in Snapshot
  BY DEF TypeOK
<1>1. CASE EnsureChildren(m)
  <2>1. PICK D \in SUBSET (Kids[m] \ snap[m].declared) :
           snap' = [c \in Nodes |->
                IF c = m THEN [snap[m] EXCEPT !.declared = @ \cup D]
                ELSE IF c \in D /\ snap[c].ex = "none" THEN [snap[c] EXCEPT !.ex = "alive"]
                ELSE snap[c]]
    BY <1>1 DEF EnsureChildren
  <2>2. snap'[n].req = snap[n].req /\ snap'[n].captured = snap[n].captured
    BY <1>0, <2>1 DEF Snapshot
  <2>3. mcr'[n] = mcr[n] /\ mcp'[n] = mcp[n]
    BY <1>1 DEF EnsureChildren, artifacts
  <2>4. QED
    BY <2>2, <2>3 DEF LegMoves
<1>2. CASE EnsureManifestCapture(m) \/ CaptureAfterSubtree(m)
  <2>1. /\ snap' = [snap EXCEPT ![m] = [snap[m] EXCEPT !.req = TRUE]]
        /\ mcr' = [mcr EXCEPT ![m] = "open"] /\ UNCHANGED mcp /\ ~snap[m].req
    BY <1>2 DEF EnsureManifestCapture, CaptureAfterSubtree, UpdateSnapshot
  <2>2. mcp'[n] = mcp[n]
    BY <2>1
  <2>3. CASE m = n
    <3>1. snap'[n].req /\ snap'[n].captured = snap[n].captured /\ mcr'[n] = "open" /\ ~snap[n].req
      BY <1>0, <2>1, <2>3 DEF Snapshot, TypeOK
    <3>2. QED
      BY <2>2, <3>1 DEF LegMoves
  <2>4. CASE m # n
    <3>1. snap'[n] = snap[n] /\ mcr'[n] = mcr[n]
      BY <2>1, <2>4 DEF TypeOK
    <3>2. QED
      BY <2>2, <3>1 DEF LegMoves
  <2>5. QED
    BY <2>3, <2>4
<1>3. ASSUME NEW ph, snap' = [snap EXCEPT ![m] = [snap[m] EXCEPT !.phase = ph]],
             UNCHANGED <<mcr, mcp>>
      PROVE  LegMoves(n)
  BY <1>0, <1>3, LegsRest DEF Snapshot
<1>4. CASE FailPlanning(m)
  <2>1. /\ snap' = [snap EXCEPT ![m] = [snap[m] EXCEPT !.phase = "Failed", !.ready = "Failed"]]
        /\ UNCHANGED <<mcr, mcp>>
    BY <1>4 DEF FailPlanning, UpdateSnapshot, artifacts
  <2>2. QED
    BY <1>0, <2>1, LegsRest DEF Snapshot
<1>5. CASE EnsureVolumeCapture(m)
  <2>1. snap' = [snap EXCEPT ![m] = [snap[m] EXCEPT !.vreq = TRUE]] /\ UNCHANGED <<mcr, mcp>>
    BY <1>5 DEF EnsureVolumeCapture, UpdateSnapshot
  <2>2. QED
    BY <1>0, <2>1, LegsRest DEF Snapshot
<1>6. CASE \/ Announce(m) \/ PlanCapture(m) \/ FinishCapture(m) \/ FailCapture(m)
           \/ DomainFails(m)
  BY <1>3, <1>6 DEF Announce, PlanCapture, FinishCapture, FailCapture, DomainFails,
     UpdateSnapshot, artifacts
<1>7. QED
  BY <1>1, <1>2, <1>4, <1>5, <1>6 DEF Domain

\* So do the steps of everybody else outside the content controller.
LEMMA EnvironmentMovesLegs ==
    ASSUME TypeOK, NEW n \in Nodes, NEW m \in Nodes,
           Environment(m) \/ LoseArtifact(m) \/ DeleteSnapshot(m)
    PROVE  LegMoves(n)
<1>0. snap[m] \in Snapshot /\ snap \in [Nodes -> Snapshot]
  BY DEF TypeOK
<1>1. ASSUME UNCHANGED <<snap, mcr, mcp>> PROVE LegMoves(n)
  BY <1>1 DEF LegMoves
<1>2. CASE CaptureManifest(m)
  <2>1. /\ UNCHANGED snap /\ mcr[m] = "open" /\ mcr' = [mcr EXCEPT ![m] = "named"]
        /\ mcp' = [mcp EXCEPT ![m] = "ready"] \/ mcp' = [mcp EXCEPT ![m] = "failed"]
    BY <1>2 DEF CaptureManifest
  <2>2. CASE m = n
    <3>1. mcr'[n] = "named" /\ mcp'[n] \in {"ready", "failed"}
      BY <2>1, <2>2 DEF TypeOK
    <3>2. QED
      BY <2>1, <2>2, <3>1 DEF LegMoves
  <2>3. CASE m # n
    <3>1. mcr'[n] = mcr[n] /\ mcp'[n] = mcp[n]
      BY <2>1, <2>3 DEF TypeOK
    <3>2. QED
      BY <2>1, <3>1 DEF LegMoves
  <2>4. QED
    BY <2>2, <2>3
<1>3. CASE CollectRequests(m)
  <2>1. m # n => mcr'[n] = mcr[n] /\ mcp'[n] = mcp[n]
    BY <1>3 DEF CollectRequests, TypeOK
  <2>2. UNCHANGED snap /\ snap[m].ex = "gone"
    BY <1>3 DEF CollectRequests
  <2>3. QED
    BY <2>1, <2>2 DEF LegMoves
<1>4. CASE LoseArtifact(m)
  <2>1. /\ UNCHANGED <<snap, mcr>>
        /\ \/ UNCHANGED mcp
           \/ mcp' = [mcp EXCEPT ![m] = "gone"]
           \/ mcp' = [mcp EXCEPT ![m] = "damaged"]
    BY <1>4 DEF LoseArtifact
  <2>2. mcp'[n] = mcp[n] \/ mcp'[n] \in {"damaged", "gone"}
    BY <2>1 DEF TypeOK
  <2>3. QED
    BY <2>1, <2>2 DEF LegMoves
<1>5. CASE CollectChild(m) \/ DeleteSnapshot(m)
  <2>1. snap' = [snap EXCEPT ![m].ex = "gone"] /\ UNCHANGED <<mcr, mcp>>
    BY <1>5 DEF CollectChild, DeleteSnapshot, RemoveSnapshot, artifacts
  <2>2. snap'[n].req = snap[n].req /\ snap'[n].captured = snap[n].captured
    BY <1>0, <2>1 DEF Snapshot
  <2>3. QED
    BY <2>1, <2>2 DEF LegMoves
<1>6. QED
  BY <1>1, <1>2, <1>3, <1>4, <1>5 DEF Environment, BindContent, CaptureVolume, VolumeReady,
     markBoundSnapshotDeletedOnContent, artifacts

\* And so do the passes of the content controller.
LEMMA PassMovesLegs ==
    ASSUME TypeOK, NEW n \in Nodes, NEW q \in Queues, NEW m \in Nodes, ContentPass(q, m)
    PROVE  LegMoves(n)
<1>0. snap[m] \in Snapshot /\ snap \in [Nodes -> Snapshot]
  BY DEF TypeOK
<1>1. ASSUME UNCHANGED <<snap, mcr, mcp>> PROVE LegMoves(n)
  BY <1>1 DEF LegMoves
<1>2. CASE Derive(q, m)
  <2>1. /\ mcp' = [mcp EXCEPT ![m] = ensureManifestCheckpointOwnedByContent(m, pass[<<q, m>>].ob)]
        /\ UNCHANGED <<snap, mcr>>
    BY <1>2 DEF Derive
  <2>2. mcp'[n] = mcp[n] \/ (mcp[n] = "ready" /\ mcp'[n] = "owned")
    BY <2>1 DEF ensureManifestCheckpointOwnedByContent, TypeOK
  <2>3. QED
    BY <2>1, <2>2 DEF LegMoves
<1>3. CASE mirrorReadyToOwnerSnapshot(q, m)
  <2>1. PICK rd : snap' = [snap EXCEPT ![m].ready = rd]
    BY <1>3 DEF mirrorReadyToOwnerSnapshot
  <2>2. snap'[n].req = snap[n].req /\ snap'[n].captured = snap[n].captured
    BY <1>0, <2>1 DEF Snapshot
  <2>3. mcr'[n] = mcr[n] /\ mcp'[n] = mcp[n]
    BY <1>3 DEF mirrorReadyToOwnerSnapshot, artifacts
  <2>4. QED
    BY <2>2, <2>3 DEF LegMoves
<1>4. CASE reconcileOwnerCaptureLegs(q, m)
  <2> DEFINE s == snap[m]
             captured == s.captured \/ (s.req /\ ManifestCaptureRequestSafeToDelete(m))
             data == \/ s.dataCaptured
                     \/ /\ s.vreq /\ observeOwnerDataLegVCR(m)
                        /\ VolumeCaptureRequestSafeToDeleteWithHandoff(m)
             latched == [s EXCEPT !.captured = captured, !.dataCaptured = data]
             new == LatchTree(latched, m, pass[<<q, m>>].ob)
  <2>1. /\ UNCHANGED mcp
        /\ \/ UNCHANGED <<snap, mcr>>
           \/ /\ snap' = [snap EXCEPT ![m] = new]
              /\ mcr' = [mcr EXCEPT ![m] = IF s.req /\ captured THEN "none" ELSE @]
    BY <1>4 DEF reconcileOwnerCaptureLegs
  <2>2. captured \in BOOLEAN /\ data \in BOOLEAN
    BY <1>0 DEF Snapshot
  <2>3. captured /\ ~s.captured => mcp[m] \in {"owned", "damaged"}
    BY DEF ManifestCaptureRequestSafeToDelete
  <2>4. captured = s.captured \/ (captured /\ ~s.captured)
    BY <1>0, <2>2 DEF Snapshot
  <2> HIDE DEF captured, data
  <2>5. latched \in Snapshot /\ latched.req = s.req /\ latched.captured = captured
    BY <1>0, <2>2 DEF Snapshot
  <2> HIDE DEF latched
  <2>6. new.req = s.req /\ new.captured = captured
    BY <2>5, LatchTreeKeeps, LatchTreeRest
  <2> HIDE DEF new
  <2>7. CASE UNCHANGED <<snap, mcr>>
    BY <1>1, <2>1, <2>7
  <2>8. ASSUME snap' = [snap EXCEPT ![m] = new],
               mcr' = [mcr EXCEPT ![m] = IF s.req /\ captured THEN "none" ELSE @]
        PROVE  LegMoves(n)
    <3>0. mcp'[n] = mcp[n]
      BY <2>1
    <3>1. CASE m # n
      <4>1. snap'[n] = snap[n] /\ mcr'[n] = mcr[n]
        BY <2>8, <3>1 DEF TypeOK
      <4>2. QED
        BY <3>0, <4>1 DEF LegMoves
    <3>2. CASE m = n
      <4>1. /\ snap'[n].req = snap[n].req /\ snap'[n].captured = captured
            /\ mcr'[n] = mcr[n] \/ (captured /\ mcr'[n] = "none")
        BY <1>0, <2>6, <2>8, <3>2 DEF TypeOK
      <4>2. QED
        BY <2>3, <2>4, <3>0, <3>2, <4>1 DEF LegMoves
    <3>3. QED
      BY <3>1, <3>2
  <2>9. QED
    BY <2>1, <2>7, <2>8
<1>5. QED
  BY <1>1, <1>2, <1>3, <1>4 DEF ContentPass, latchBoundSnapshotDeletedForMissingOwner, Observe,
     WriteStatus, artifacts

\* Every step of anybody is a step of CaptureLeg for the leg of an undisturbed
\* snapshot, or none.
LEMMA LegStep ==
    ASSUME DurableInv, TypeOK', [Next]_vars, NEW n \in Nodes, Undisturbed(n), Undisturbed(n)'
    PROVE  [Leg(n)!LegNext]_(Leg(n)!legVars)
<1>1. TypeOK
  BY DEF DurableInv
<1>2. CASE UNCHANGED vars
  <2>1. snap' = snap /\ mcr' = mcr /\ mcp' = mcp
    BY <1>2 DEF vars
  <2>2. LegMoves(n)
    BY <2>1 DEF LegMoves
  <2>3. QED
    BY <2>2, LegSimulated
<1>3. CASE Next
  <2>1. LegMoves(n)
    BY <1>1, <1>3, DomainMovesLegs, EnvironmentMovesLegs, PassMovesLegs DEF Next
  <2>2. QED
    BY <2>1, LegSimulated
<1>4. QED
  BY <1>2, <1>3

\* Whatever the passes of the content controller, the domains and the executor
\* do, the manifest leg of a snapshot that is not deleted and whose checkpoint
\* is not lost only takes steps of CaptureLeg.
THEOREM LegsTakeTheirSteps == Spec => LegsAreCaptureLegs
<1>1. DurableInv /\ TypeOK' /\ [Next]_vars =>
         [\A n \in Nodes : Undisturbed(n) /\ Undisturbed(n)'
                              => [Leg(n)!LegNext]_(Leg(n)!legVars)]_vars
  BY LegStep
<1>2. QED
  BY <1>1, DurableAlways, TypeCorrect, PTL DEF Spec, LegsAreCaptureLegs

\* The manifest leg of every snapshot of a tree implements CaptureLeg, as long
\* as the snapshot is not deleted and its checkpoint is not lost: a request of
\* the tree is seen to do no more than the one of ManifestCapture.
THEOREM TreeLegsHold ==
    ASSUME NEW n \in Nodes
    PROVE  Spec /\ []Undisturbed(n) => Leg(n)!LegSpec
<1>1. Init => Leg(n)!LegInit
  BY LegStarts
<1>2. DurableInv /\ TypeOK' /\ [Next]_vars /\ Undisturbed(n) /\ Undisturbed(n)'
        => [Leg(n)!LegNext]_(Leg(n)!legVars)
  BY LegStep
<1>3. QED
  BY <1>1, <1>2, DurableAlways, TypeCorrect, PTL DEF Spec, Leg!LegSpec
=============================================================================
