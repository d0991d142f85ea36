------------------------ MODULE ContentTreeWholeProofs ------------------------
(***************************************************************************)
(* Proofs about whole trees of ContentTree, down to the leaves: what the   *)
(* Ready of one snapshot says of everything below it, that the manifest    *)
(* walk behind the gate misses nobody, and that a snapshot whose content   *)
(* failed does not come back.                                              *)
(***************************************************************************)
EXTENDS ContentTreeDataProofs

\* Everything declared below the snapshot n.
Below(n) ==
    {x \in Nodes : \A S \in SUBSET Nodes :
        snap[n].declared \subseteq S /\ DeclaredClosed(S) => x \in S}

-----------------------------------------------------------------------------
(* The invariants. *)

\* A content that was Ready once is complete for good: the latch stays set,
\* the domain is past its capture, and the volume had its artifact.
EverReadyHolds ==
    \A n \in everReady :
        /\ content[n].persisted
        /\ Closed(snap[n].phase)
        /\ snap[n].vreq => vsc[n] \in {"ready", "gone"}

\* Nothing that counts is missing unless it was lost.
Intact ==
    losses = 0 => \A n \in Nodes :
        /\ mcp[n] # "damaged" /\ vsc[n] # "gone"
        /\ content[n].persisted => mcp[n] = "owned"
        /\ \A q \in Queues :
              pass[<<q, n>>].pc = "write" /\ pass[<<q, n>>].persisted => mcp[n] = "owned"

WholeInv == TreeInv /\ DataInv /\ EverReadyHolds /\ Intact

\* With one queue a pass knows the Ready of its content throughout: nobody else
\* writes it.
ReadyIsKnown ==
    \A q \in Queues, n \in Nodes :
        pass[<<q, n>>].pc # "idle" => pass[<<q, n>>].ob.ready = content[n].ready

-----------------------------------------------------------------------------
(* The statement about the walk. *)

\* An aggregator that asks for its own capture behind the gate leaves out what
\* every snapshot below it captured.
WalkMissesNobody ==
    [][\A n \in Aggregators :
          ~snap[n].req /\ snap'[n].req /\ snap[n].kids = "true"
            => Below(n) \subseteq excluded'[n]]_vars

-----------------------------------------------------------------------------
(* Closed sets. *)

\* A closed set that holds n holds its tree.
LEMMA TreeIsLeast ==
    ASSUME NEW n \in Nodes, NEW S \in SUBSET Nodes, n \in S, DeclaredClosed(S)
    PROVE  Tree(n) \subseteq S
BY DEF Tree

\* The walk along the published edges reaches all that is below n, if every
\* persisted content has its declared children linked and persisted.
LEMMA WalkReachesBelow ==
    ASSUME NEW n \in Nodes, ContentsHold, KidsHold, snap[n].kids = "true"
    PROVE  Below(n) \subseteq SubtreeWalk(n)
<1> SUFFICES ASSUME NEW x \in Below(n), NEW T \in SUBSET Nodes,
                    snap[n].declared \subseteq T, \A m \in T : content[m].edges \subseteq T
             PROVE  x \in T
  BY DEF SubtreeWalk, Below
<1> DEFINE S == {y \in T : content[y].persisted}
<1>1. S \in SUBSET Nodes
  OBVIOUS
<1>2. snap[n].declared \subseteq S
  BY DEF KidsHold
<1>3. DeclaredClosed(S)
  <2> SUFFICES ASSUME NEW y \in S, NEW c \in snap[y].declared PROVE c \in S
    BY DEF DeclaredClosed
  <2>1. c \in content[y].edges /\ content[c].persisted
    BY DEF ContentsHold, Complete
  <2>2. QED
    BY <2>1
<1> HIDE DEF S
<1>4. x \in S
  BY <1>1, <1>2, <1>3 DEF Below
<1>5. QED
  BY <1>4 DEF S

-----------------------------------------------------------------------------
(* The walk behind the gate. *)

\* An aggregator places its manifest request with the walk, and nowhere else.
LEMMA AggregatorAsks ==
    ASSUME TypeOK, RequestsInOrder, Next, NEW n \in Aggregators, ~snap[n].req, snap'[n].req
    PROVE  excluded'[n] = SubtreeWalk(n)
<1>0. n \in Nodes
  BY TreeAssumption
<1>1. mcr[n] = "none" /\ mcr'[n] = "open"
  <2>1. SnapshotsAge
    BY StepAgesSnapshots
  <2>2. QED
    BY <1>0, <2>1 DEF SnapshotsAge, RequestsInOrder
<1>2. mcr \in [Nodes -> {"none", "open", "named"}]
  BY DEF TypeOK
<1>3. ~UNCHANGED mcr
  BY <1>1
<1>4. ASSUME NEW m \in Nodes, Domain(m) \/ DomainFails(m) PROVE CaptureAfterSubtree(n)
  <2>1. EnsureManifestCapture(m) \/ CaptureAfterSubtree(m)
    BY <1>3, <1>4 DEF Domain, Announce, EnsureChildren, EnsureVolumeCapture,
       PlanCapture, FailPlanning, FinishCapture, FailCapture, DomainFails, artifacts
  <2>2. mcr' = [mcr EXCEPT ![m] = "open"] /\ (EnsureManifestCapture(m) => m \notin Aggregators)
    BY <2>1 DEF EnsureManifestCapture, CaptureAfterSubtree
  <2>3. m = n
    BY <1>0, <1>1, <1>2, <2>2
  <2>4. QED
    BY <2>1, <2>2, <2>3
<1>5. ASSUME NEW m \in Nodes, Environment(m) \/ LoseArtifact(m) \/ DeleteSnapshot(m)
      PROVE  FALSE
  <2>1. UNCHANGED mcr \/ mcr' = [mcr EXCEPT ![m] = "named"] \/ mcr' = [mcr EXCEPT ![m] = "none"]
    BY <1>5 DEF Environment, BindContent, markBoundSnapshotDeletedOnContent, CaptureManifest,
       CaptureVolume, VolumeReady, CollectChild, CollectRequests, RemoveSnapshot, LoseArtifact,
       DeleteSnapshot, artifacts
  <2>2. QED
    BY <1>0, <1>1, <1>2, <2>1
<1>6. ASSUME NEW q \in Queues, NEW m \in Nodes, ContentPass(q, m) PROVE FALSE
  <2> DEFINE reap == snap[m].req /\ (snap[m].captured
                         \/ (snap[m].req /\ ManifestCaptureRequestSafeToDelete(m)))
  <2>1. UNCHANGED mcr \/ mcr' = [mcr EXCEPT ![m] = IF reap THEN "none" ELSE @]
    BY <1>6 DEF ContentPass, latchBoundSnapshotDeletedForMissingOwner, Observe, Derive,
       WriteStatus, mirrorReadyToOwnerSnapshot, reconcileOwnerCaptureLegs, artifacts
  <2> HIDE DEF reap
  <2>2. QED
    BY <1>0, <1>1, <1>2, <2>1
<1>7. QED
  <2>1. CaptureAfterSubtree(n)
    BY <1>4, <1>5, <1>6 DEF Next
  <2>2. QED
    BY <1>0, <2>1 DEF CaptureAfterSubtree, TypeOK

\* The walk behind the gate childSubtreesManifestsPersisted misses nobody: an
\* aggregator that asks for its own capture while the latch stands leaves out
\* every snapshot declared below it, at whatever depth, for domains that close
\* their child set before they place their manifest request.
THEOREM WalkWhole == ASSUME Ordered PROVE Spec => WalkMissesNobody
<1>1. TreeInv /\ [Next]_vars =>
         [\A n \in Aggregators :
             ~snap[n].req /\ snap'[n].req /\ snap[n].kids = "true"
               => Below(n) \subseteq excluded'[n]]_vars
  <2> SUFFICES ASSUME TreeInv, Next, NEW n \in Aggregators, ~snap[n].req, snap'[n].req,
                      snap[n].kids = "true"
               PROVE  Below(n) \subseteq excluded'[n]
    OBVIOUS
  <2>1. n \in Nodes
    BY TreeAssumption
  <2>2. Below(n) \subseteq SubtreeWalk(n)
    BY <2>1, WalkReachesBelow DEF TreeInv
  <2>3. excluded'[n] = SubtreeWalk(n)
    BY AggregatorAsks DEF TreeInv
  <2>4. QED
    BY <2>2, <2>3
<1>2. QED
  BY <1>1, TreeInvariant, PTL DEF Spec, WalkMissesNobody

-----------------------------------------------------------------------------
(* Ready means whole. *)

\* A step that counts no loss loses nothing.
LossesCount ==
    losses' = 0 =>
        /\ losses = 0
        /\ \A x \in Nodes :
              /\ mcp[x] = "owned" => mcp'[x] = "owned"
              /\ mcp'[x] = "damaged" => mcp[x] = "damaged"
              /\ vsc'[x] = "gone" => vsc[x] = "gone"

\* Every loss is counted.
LEMMA StepCountsLosses ==
    ASSUME TypeOK, RequestsInOrder, [Next]_vars PROVE LossesCount
<1>0. /\ mcp \in [Nodes -> {"none", "ready", "owned", "failed", "damaged", "gone"}]
      /\ vsc \in [Nodes -> {"none", "notready", "ready", "gone"}]
      /\ losses \in Nat
  BY TreeAssumption DEF TypeOK
<1>1. ASSUME UNCHANGED <<losses, mcp, vsc>> PROVE LossesCount
  BY <1>1 DEF LossesCount
<1>2. CASE UNCHANGED vars
  BY <1>1, <1>2 DEF vars, artifacts, budgets
<1>3. ASSUME NEW n \in Nodes, Domain(n) \/ DomainFails(n) PROVE LossesCount
  BY <1>1, <1>3 DEF Domain, Announce, EnsureChildren, EnsureVolumeCapture, EnsureManifestCapture,
     PlanCapture, FailPlanning, CaptureAfterSubtree, FinishCapture, FailCapture, DomainFails,
     artifacts, budgets
<1>4. ASSUME NEW n \in Nodes, Environment(n) \/ LoseArtifact(n) \/ DeleteSnapshot(n)
      PROVE  LossesCount
  <2>1. CASE CaptureManifest(n)
    <3>1. /\ UNCHANGED <<losses, vsc>>
          /\ mcp' = [mcp EXCEPT ![n] = "ready"] \/ mcp' = [mcp EXCEPT ![n] = "failed"]
          /\ mcp[n] = "none"
      BY <2>1 DEF CaptureManifest, RequestsInOrder
    <3>2. QED
      BY <1>0, <3>1 DEF LossesCount
  <2>2. CASE CollectRequests(n)
    BY <1>0, <2>2 DEF CollectRequests, LossesCount, budgets
  <2>3. CASE LoseArtifact(n)
    <3>1. losses' = losses + 1
      BY <2>3 DEF LoseArtifact
    <3>2. QED
      BY <1>0, <3>1 DEF LossesCount
  <2>4. CASE CaptureVolume(n)
    <3>1. UNCHANGED <<losses, mcp>> /\ (UNCHANGED vsc \/ vsc' = [vsc EXCEPT ![n] = "notready"])
      BY <2>4 DEF CaptureVolume
    <3>2. QED
      BY <1>0, <3>1 DEF LossesCount
  <2>5. CASE VolumeReady(n)
    BY <1>0, <2>5 DEF VolumeReady, LossesCount, budgets
  <2>6. QED
    BY <1>1, <1>4, <2>1, <2>2, <2>3, <2>4, <2>5 DEF Environment, BindContent,
       markBoundSnapshotDeletedOnContent, CollectChild, DeleteSnapshot, RemoveSnapshot,
       artifacts, budgets
<1>5. ASSUME NEW q \in Queues, NEW n \in Nodes, ContentPass(q, n) PROVE LossesCount
  <2>1. CASE Derive(q, n)
    <3>1. /\ mcp' = [mcp EXCEPT ![n] = ensureManifestCheckpointOwnedByContent(n, pass[<<q, n>>].ob)]
          /\ UNCHANGED <<losses, vsc>>
      BY <2>1 DEF Derive, budgets
    <3>2. QED
      BY <1>0, <3>1 DEF ensureManifestCheckpointOwnedByContent, LossesCount
  <2>2. QED
    BY <1>1, <1>5, <2>1 DEF ContentPass, latchBoundSnapshotDeletedForMissingOwner, Observe,
       WriteStatus, mirrorReadyToOwnerSnapshot, reconcileOwnerCaptureLegs, artifacts, budgets
<1>6. QED
  BY <1>2, <1>3, <1>4, <1>5 DEF Next

\* The latch of a content is not taken back.
LEMMA PersistedStays ==
    ASSUME TypeOK, StaleButTrue, PlansHold, ContentsMove, NEW n \in Nodes, content[n].persisted
    PROVE  content'[n].persisted
<1>1. CASE content'[n].persisted = content[n].persisted
  BY <1>1
<1>2. CASE content'[n].persisted # content[n].persisted
  <2>1. PICK q \in Queues :
           /\ pass[<<q, n>>].pc = "write"
           /\ content'[n].persisted = pass[<<q, n>>].persisted
           /\ pass[<<q, n>>].persisted # pass[<<q, n>>].ob.persisted
    BY <1>2 DEF ContentsMove
  <2>2. pass[<<q, n>>].ob.persisted => pass[<<q, n>>].persisted
    BY <2>1 DEF PlansHold
  <2>3. pass[<<q, n>>].persisted \in BOOLEAN /\ pass[<<q, n>>].ob.persisted \in BOOLEAN
    BY DEF TypeOK, Pass, Content
  <2>4. QED
    BY <2>1, <2>2, <2>3
<1>3. QED
  BY <1>1, <1>2

\* A content is Ready for the first time by a status write, which leaves the
\* latch as planned.
LEMMA FirstReady ==
    ASSUME TypeOK, [Next]_vars, NEW n \in everReady', n \notin everReady
    PROVE  \E q \in Queues :
               /\ n \in Nodes /\ pass[<<q, n>>].pc = "write" /\ pass[<<q, n>>].ready = "Completed"
               /\ \/ pass[<<q, n>>].persisted = pass[<<q, n>>].ob.persisted
                  \/ content'[n].persisted = pass[<<q, n>>].persisted
<1>0. everReady' # everReady
  OBVIOUS
<1>1. PICK q \in Queues, m \in Nodes : WriteStatus(q, m)
  <2>1. ~UNCHANGED vars
    BY <1>0 DEF vars, history
  <2>2. ASSUME NEW m \in Nodes, Domain(m) \/ DomainFails(m) PROVE FALSE
    BY <1>0, <2>2 DEF Domain, Announce, EnsureChildren, EnsureVolumeCapture,
       EnsureManifestCapture, PlanCapture, FailPlanning, CaptureAfterSubtree, FinishCapture,
       FailCapture, DomainFails, history
  <2>3. ASSUME NEW m \in Nodes, Environment(m) \/ LoseArtifact(m) \/ DeleteSnapshot(m)
        PROVE  FALSE
    BY <1>0, <2>3 DEF Environment, BindContent, markBoundSnapshotDeletedOnContent,
       CaptureManifest, CaptureVolume, VolumeReady, CollectChild, CollectRequests,
       RemoveSnapshot, LoseArtifact, DeleteSnapshot, history
  <2>4. PICK q \in Queues, m \in Nodes : ContentPass(q, m)
    BY <2>1, <2>2, <2>3 DEF Next
  <2>5. WriteStatus(q, m)
    BY <1>0, <2>4 DEF ContentPass, latchBoundSnapshotDeletedForMissingOwner, Observe, Derive,
       mirrorReadyToOwnerSnapshot, reconcileOwnerCaptureLegs, history
  <2>6. QED
    BY <2>5
<1> DEFINE p == pass[<<q, m>>]
<1>2. /\ p.pc = "write"
      /\ everReady' = everReady \cup (IF p.ready = "Completed" THEN {m} ELSE {})
      /\ content' = [content EXCEPT ![m] =
            [content[m] EXCEPT !.legs = p.legs, !.ready = p.ready,
               !.persisted = IF p.persisted # p.ob.persisted THEN p.persisted ELSE @]]
  BY <1>1 DEF WriteStatus
<1> HIDE DEF p
<1>3. m = n /\ p.ready = "Completed"
  BY <1>2
<1>4. content \in [Nodes -> Content] /\ p \in Pass
  BY DEF TypeOK, p
<1>5. p.persisted # p.ob.persisted => content'[m].persisted = p.persisted
  BY <1>2, <1>4 DEF Content
<1>6. QED
  BY <1>2, <1>3, <1>5 DEF p

\* Every step keeps what a content that was Ready stands for.
LEMMA EverReadyStep ==
    ASSUME TreeInv, DataInv, EverReadyHolds, [Next]_vars, TypeOK'
    PROVE  EverReadyHolds'
<1>0. /\ TypeOK /\ StaleButTrue /\ PlansHold /\ OwnersHold /\ VolumesInOrder /\ VolumesHold
      /\ SnapshotsAge /\ RequestsAge /\ ContentsMove
  BY StepAgesSnapshots, StepAgesRequests, StepMovesContents DEF TreeInv, DataInv, EarnedInv
<1> SUFFICES ASSUME NEW n \in everReady'
             PROVE  /\ content'[n].persisted
                    /\ Closed(snap'[n].phase)
                    /\ snap'[n].vreq => vsc'[n] \in {"ready", "gone"}
  BY DEF EverReadyHolds
<1>1. n \in Nodes
  BY DEF TypeOK
<1>2. ASSUME Closed(snap[n].phase), snap[n].vreq => vsc[n] \in {"ready", "gone"}
      PROVE  Closed(snap'[n].phase) /\ (snap'[n].vreq => vsc'[n] \in {"ready", "gone"})
  <2>1. Closed(snap'[n].phase)
    BY <1>0, <1>1, <1>2 DEF SnapshotsAge
  <2>2. snap'[n].vreq => snap[n].vreq
    BY <1>0, <1>1, <1>2 DEF SnapshotsAge, Closed, ownerChildSetFrozen
  <2>3. vsc[n] \in {"ready", "gone"} => vsc'[n] \in {"ready", "gone"}
    BY <1>0, <1>1, VolumesStep
  <2>4. QED
    BY <1>2, <2>1, <2>2, <2>3
<1>3. CASE n \in everReady
  <2>1. content'[n].persisted
    BY <1>0, <1>1, <1>3, PersistedStays DEF EverReadyHolds
  <2>2. QED
    BY <1>2, <1>3, <2>1 DEF EverReadyHolds
<1>4. CASE n \notin everReady
  <2>1. PICK q \in Queues :
           /\ pass[<<q, n>>].pc = "write" /\ pass[<<q, n>>].ready = "Completed"
           /\ \/ pass[<<q, n>>].persisted = pass[<<q, n>>].ob.persisted
              \/ content'[n].persisted = pass[<<q, n>>].persisted
    BY <1>0, <1>4, FirstReady
  <2>2. pass[<<q, n>>].persisted
    BY <1>0, <1>1, <2>1 DEF PlansHold
  <2>3. content'[n].persisted
    <3>1. CASE pass[<<q, n>>].persisted = pass[<<q, n>>].ob.persisted
      <4>1. content[n].persisted
        BY <1>0, <1>1, <2>1, <2>2, <3>1 DEF StaleButTrue
      <4>2. QED
        BY <1>0, <1>1, <4>1, PersistedStays
    <3>2. CASE content'[n].persisted = pass[<<q, n>>].persisted
      BY <2>2, <3>2
    <3>3. QED
      BY <2>1, <3>1, <3>2
  <2>4. Closed(snap[n].phase)
    BY <1>0, <1>1, <2>1 DEF OwnersHold
  <2>5. snap[n].vreq => vsc[n] \in {"ready", "gone"}
    BY <1>0, <1>1, <2>1 DEF VolumesHold
  <2>6. QED
    BY <1>2, <2>3, <2>4, <2>5
<1>5. QED
  BY <1>3, <1>4

\* Without a loss nothing that counts goes missing in a step.
LEMMA IntactStep ==
    ASSUME TreeInv, Intact, [Next]_vars
    PROVE  Intact'
<1>0. /\ TypeOK /\ RequestsInOrder /\ StaleButTrue /\ ContentsMove /\ PassesMove /\ LossesCount
  BY StepMovesContents, StepMovesPasses, StepCountsLosses DEF TreeInv
<1> SUFFICES ASSUME losses' = 0, NEW n \in Nodes
             PROVE  /\ mcp'[n] # "damaged" /\ vsc'[n] # "gone"
                    /\ content'[n].persisted => mcp'[n] = "owned"
                    /\ \A q \in Queues :
                          pass'[<<q, n>>].pc = "write" /\ pass'[<<q, n>>].persisted
                            => mcp'[n] = "owned"
  BY DEF Intact
<1>1. /\ mcp[n] # "damaged" /\ vsc[n] # "gone"
      /\ content[n].persisted => mcp[n] = "owned"
      /\ \A q \in Queues : pass[<<q, n>>].pc = "write" /\ pass[<<q, n>>].persisted
                             => mcp[n] = "owned"
  BY <1>0 DEF Intact, LossesCount
<1>2. /\ mcp[n] = "owned" => mcp'[n] = "owned"
      /\ mcp'[n] # "damaged" /\ vsc'[n] # "gone"
  BY <1>0, <1>1 DEF LossesCount
<1>3. content'[n].persisted => mcp'[n] = "owned"
  <2>1. content'[n].persisted /\ ~content[n].persisted =>
           \E q \in Queues : pass[<<q, n>>].pc = "write" /\ pass[<<q, n>>].persisted
    BY <1>0 DEF ContentsMove
  <2>2. QED
    BY <1>1, <1>2, <2>1
<1>4. ASSUME NEW q \in Queues, pass'[<<q, n>>].pc = "write", pass'[<<q, n>>].persisted
      PROVE  mcp'[n] = "owned"
  <2> DEFINE p == pass[<<q, n>>]
             r == pass'[<<q, n>>]
  <2>1. Moved(n, p, r) /\ r.pc = "write" /\ r.persisted
    BY <1>0, <1>4 DEF PassesMove
  <2>2. p.pc # "idle" /\ p.ob.persisted => content[n].persisted
    BY <1>0 DEF StaleButTrue
  <2>3. r = p => mcp[n] = "owned"
    BY <1>1, <2>1
  <2> HIDE DEF p, r
  <2>4. CASE r = p
    BY <1>2, <2>3, <2>4
  <2>5. CASE r # p
    <3>1. /\ p.pc = "derive"
          /\ mcp'[n] = ensureManifestCheckpointOwnedByContent(n, p.ob)
          /\ computeSubtreeManifestsPersisted(n, p.ob, ManifestLeg(n, p.ob, p.ow))
      BY <2>1, <2>5 DEF Moved
    <3>2. p.ob.persisted \/ ManifestLeg(n, p.ob, p.ow) = "OK"
      BY <3>1 DEF computeSubtreeManifestsPersisted
    <3>3. ManifestLeg(n, p.ob, p.ow) = "OK" => p.ob.named /\ mcp[n] \in {"ready", "owned"}
      BY <1>0 DEF ManifestLeg, TypeOK
    <3>4. QED
      BY <1>1, <1>2, <2>2, <3>1, <3>2, <3>3 DEF ensureManifestCheckpointOwnedByContent
  <2>6. QED
    BY <2>4, <2>5
<1>5. QED
  BY <1>2, <1>3, <1>4

\* The invariant holds throughout, for domains that announce themselves
\* and close their child set before they place their manifest request.
LEMMA WholeAlways == ASSUME Ordered, Announces PROVE Spec => []WholeInv
<1>1. Init => EverReadyHolds /\ Intact
  <2> SUFFICES ASSUME Init PROVE EverReadyHolds /\ Intact
    OBVIOUS
  <2>1. \A q \in Queues, n \in Nodes : pass[<<q, n>>].pc = "idle"
    BY DEF Init, NoPass
  <2>2. \A n \in Nodes : ~content[n].persisted
    BY DEF Init, NoContent
  <2>3. QED
    BY <2>1, <2>2 DEF Init, EverReadyHolds, Intact
<1>2. TreeInv /\ DataInv /\ EverReadyHolds /\ [Next]_vars /\ TypeOK' => EverReadyHolds'
  BY EverReadyStep
<1>3. TreeInv /\ Intact /\ [Next]_vars => Intact'
  BY IntactStep
<1>4. QED
  BY <1>1, <1>2, <1>3, TypeCorrect, TreeInvariant, DataAlways, PTL DEF Spec, WholeInv

\* Ready means whole.  A snapshot or a content that is Ready stands for every
\* snapshot declared below it, at whatever depth: each of them was Ready, its
\* domain is past its capture, its checkpoint was handed over and latched, its
\* children are linked, its volume had its artifact; and unless something was
\* lost since, all of it is still there.
THEOREM ReadyWhole == ASSUME Ordered, Announces PROVE Spec => []ReadyIsWhole
<1>1. WholeInv => ReadyIsWhole
  <2> SUFFICES ASSUME TreeInv, DataInv, EverReadyHolds, Intact, NEW n \in Nodes,
                      snap[n].ready = "Completed" \/ content[n].ready = "Completed",
                      NEW x \in Tree(n)
               PROVE  /\ x \in everReady /\ Closed(snap[x].phase)
                      /\ content[x].persisted /\ Handed(x)
                      /\ snap[x].declared \subseteq content[x].edges
                      /\ snap[x].vreq => vsc[x] \in {"ready", "gone"}
                      /\ losses = 0 => mcp[x] = "owned" /\ (snap[x].vreq => vsc[x] = "ready")
    BY DEF ReadyIsWhole, WholeInv
  <2>1. TypeOK /\ ContentsHold /\ OwnerReadyIsEarned
    BY DEF TreeInv, DataInv, EarnedInv
  <2>2. n \in everReady /\ everReady \in SUBSET Nodes
    BY <2>1 DEF TypeOK, ContentsHold, OwnerReadyIsEarned
  <2>3. DeclaredClosed(everReady)
    BY <2>1, <2>2 DEF DeclaredClosed, ContentsHold
  <2>4. x \in everReady /\ x \in Nodes
    BY <2>2, <2>3, TreeIsLeast
  <2>5. /\ content[x].persisted /\ Closed(snap[x].phase)
        /\ snap[x].vreq => vsc[x] \in {"ready", "gone"}
    BY <2>4 DEF EverReadyHolds
  <2>6. Handed(x) /\ \A c \in snap[x].declared : c \in content[x].edges
    BY <2>1, <2>4, <2>5 DEF ContentsHold, Complete
  <2>7. losses = 0 => mcp[x] = "owned" /\ vsc[x] # "gone"
    BY <2>4, <2>5 DEF Intact
  <2>8. QED
    BY <2>4, <2>5, <2>6, <2>7
<1>2. QED
  BY <1>1, WholeAlways, PTL

-----------------------------------------------------------------------------
(* The owner of a content that failed. *)

\* Every step of the only work queue keeps a pass informed of the Ready of its
\* content: the pass itself writes it.
LEMMA KnownStep ==
    ASSUME Queues = {"content"}, TypeOK, ReadyIsKnown, [Next]_vars
    PROVE  ReadyIsKnown'
<1>0. ContentsAge /\ PassesAge
  BY StepAgesContents, StepAgesPasses
<1> SUFFICES ASSUME NEW q \in Queues, NEW n \in Nodes, pass'[<<q, n>>].pc # "idle"
             PROVE  pass'[<<q, n>>].ob.ready = content'[n].ready
  BY DEF ReadyIsKnown
<1> DEFINE p == pass[<<q, n>>]
           r == pass'[<<q, n>>]
<1>1. Aged(n, p, r)
  BY <1>0 DEF PassesAge
<1>2. content'[n].ready # content[n].ready => p.pc = "write" /\ r.pc = "legs"
  BY <1>0, ReadyIsWritten
<1>3. p.pc # "idle" => p.ob.ready = content[n].ready
  BY DEF ReadyIsKnown
<1>4. r.pc # "idle"
  OBVIOUS
<1> HIDE DEF p, r
<1>5. r.ob.ready = content'[n].ready
  BY <1>1, <1>2, <1>3, <1>4 DEF Aged
<1>6. QED
  BY <1>5 DEF r

\* A pass of the only work queue knows the Ready of its content throughout.
LEMMA KnownAlways == ASSUME Queues = {"content"} PROVE Spec => []ReadyIsKnown
<1>1. Init => ReadyIsKnown
  BY DEF Init, NoPass, ReadyIsKnown
<1>2. TypeOK /\ ReadyIsKnown /\ [Next]_vars => ReadyIsKnown'
  BY KnownStep
<1>3. QED
  BY <1>1, <1>2, TypeCorrect, PTL DEF Spec

\* A snapshot whose content failed does not come back: once its Ready is down
\* after that it stays down, for no pass is left that would mirror a Ready it
\* read before.
THEOREM OwnerFailsForGood ==
    ASSUME Queues = {"content"}, NEW n \in Nodes
    PROVE  Spec => [](content[n].ready = "Failed" =>
                        [](snap[n].ready # "Completed" => [](snap[n].ready # "Completed")))
<1>1. LossInv /\ content[n].ready = "Failed" => Fated(n)
  BY DEF LossInv, Dooms, Fated
<1>2. LossInv /\ Fated(n) /\ [Next]_vars => Fated(n)'
  BY FatedStays
<1>3. LossInv /\ ReadyIsKnown /\ Fated(n) /\ snap[n].ready # "Completed" /\ [Next]_vars
        => (snap[n].ready # "Completed")'
  <2> SUFFICES ASSUME LossInv, ReadyIsKnown, Fated(n), snap[n].ready # "Completed", [Next]_vars,
                      snap'[n].ready = "Completed"
               PROVE  FALSE
    OBVIOUS
  <2>1. SnapshotsAge
    BY StepAgesSnapshots DEF LossInv, DurableInv
  <2>2. PICK q \in Queues : pass[<<q, n>>].pc = "mirror" /\ pass[<<q, n>>].ob.ready = "Completed"
    BY <2>1 DEF SnapshotsAge
  <2>3. content[n].ready = "Completed"
    BY <2>2 DEF ReadyIsKnown
  <2>4. content[n].ready # "Completed"
    BY DEF Fated, Dooms
  <2>5. QED
    BY <2>3, <2>4
<1>4. QED
  BY <1>1, <1>2, <1>3, LossAlways, KnownAlways, PTL DEF Spec
=============================================================================
