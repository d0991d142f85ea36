----------------------- MODULE ContentTeardownProofs -----------------------
(***************************************************************************)
(* Proofs about ContentTeardown, for every tree of snapshots, any number   *)
(* of passes, aborts and restore requests.                                 *)
(***************************************************************************)
EXTENDS ContentTeardown, TLAPS

\* The fixed records have their types.
LEMMA Records ==
    /\ NoContent \in Content /\ NoContent.st = "none" /\ ~NoContent.data /\ ~NoContent.ready
    /\ NewContent \in Content /\ NewContent.st = "live" /\ ~NewContent.data /\ ~NewContent.fin
    /\ NoPass \in Pass /\ NoPass.pc = "idle"
    /\ NoReader \in Reader /\ NoReader.pc = "idle"
<1>1. NoContent \in Content
  BY DEF NoContent, Content
<1>2. NoContent.st = "none" /\ ~NoContent.data /\ ~NoContent.ready /\ ~NoContent.fin
  BY DEF NoContent
<1>3. NewContent \in Content
  BY <1>1 DEF NewContent, Content
<1>4. NewContent.st = "live" /\ NewContent.data = NoContent.data /\ NewContent.fin = NoContent.fin
  BY <1>1 DEF NewContent, Content
<1>5. NoPass \in Pass
  BY <1>1 DEF NoPass, Pass
<1>6. NoPass.pc = "idle"
  BY DEF NoPass
<1>7. NoReader \in Reader /\ NoReader.pc = "idle"
  BY DEF NoReader, Reader
<1>8. QED
  BY <1>1, <1>2, <1>3, <1>4, <1>5, <1>6, <1>7

\* A deleted content is held by its finalizer or gone.
LEMMA DeletedFacts ==
    ASSUME NEW c \in Content
    PROVE  /\ Deleted(c) \in Content
           /\ c.fin => /\ Deleted(c).st = "deleting" /\ Deleted(c).data = c.data
                       /\ Deleted(c).fin = c.fin
           /\ ~c.fin => Deleted(c) = NoContent
BY Records DEF Deleted, Content

\* A write of one flag of a snapshot or of a content.
LEMMA SetFlag ==
    ASSUME NEW f \in [Nodes -> Snapshot], NEW g \in [Nodes -> Content],
           NEW n \in Nodes, NEW b \in BOOLEAN
    PROVE  /\ [f EXCEPT ![n].bound = b] \in [Nodes -> Snapshot]
           /\ [f EXCEPT ![n].ready = b] \in [Nodes -> Snapshot]
           /\ [g EXCEPT ![n].fin = b] \in [Nodes -> Content]
           /\ [g EXCEPT ![n].data = b] \in [Nodes -> Content]
           /\ [g EXCEPT ![n].ready = b] \in [Nodes -> Content]
           /\ [g EXCEPT ![n].ownerGone = b] \in [Nodes -> Content]
<1>1. f[n] \in Snapshot /\ g[n] \in Content
  OBVIOUS
<1>2. [f[n] EXCEPT !.bound = b] \in Snapshot /\ [f[n] EXCEPT !.ready = b] \in Snapshot
  BY <1>1 DEF Snapshot
<1>3. /\ [g[n] EXCEPT !.fin = b] \in Content /\ [g[n] EXCEPT !.data = b] \in Content
      /\ [g[n] EXCEPT !.ready = b] \in Content /\ [g[n] EXCEPT !.ownerGone = b] \in Content
  BY <1>1 DEF Content
<1>4. QED
  BY <1>2, <1>3

\* A write of the lifecycle state of a snapshot.
LEMMA SetState ==
    ASSUME NEW f \in [Nodes -> Snapshot], NEW n \in Nodes, NEW x \in {"live", "deleting", "gone"}
    PROVE  [f EXCEPT ![n].st = x] \in [Nodes -> Snapshot]
<1>1. [f[n] EXCEPT !.st = x] \in Snapshot
  BY DEF Snapshot
<1>2. QED
  BY <1>1

-----------------------------------------------------------------------------
(* Type correctness. *)

\* The initial state is well typed.
LEMMA TypeInit == Init => TypeOK
<1> SUFFICES ASSUME Init PROVE TypeOK
  OBVIOUS
<1>1. snap \in [Nodes -> Snapshot]
  BY DEF Init, Snapshot
<1>2. vsc \in [Nodes -> Artifact]
  BY DEF Init, Artifact
<1>3. policy \in {"Retain", "Delete"} /\ aborts \in 0..MaxAborts /\ reads \in 0..MaxReads
  BY TeardownAssumption DEF Init
<1>4. QED
  BY <1>1, <1>2, <1>3, Records DEF Init, TypeOK

\* The binder keeps the types.
LEMMA TypeBinder ==
    ASSUME TypeOK, NEW n \in Nodes, Binder(n)
    PROVE  TypeOK'
<1> USE DEF TypeOK, rest
<1>1. CASE BinderStart(n)
  BY <1>1 DEF BinderStart, LifecycleOwner, EnsureRootObjectKeeperWithTTL
<1>2. CASE BinderCreate(n)
  BY <1>2, Records DEF BinderCreate
<1>3. CASE PatchUnstructuredBoundContentName(n)
  <2> DEFINE b == snap[n].bound \/ Exists(n)
  <2>0. b \in BOOLEAN /\ snap' = [snap EXCEPT ![n].bound = b]
    BY <1>3 DEF PatchUnstructuredBoundContentName
  <2> HIDE DEF b
  <2>1. snap' \in [Nodes -> Snapshot]
    BY <2>0, SetFlag
  <2>2. QED
    BY <1>3, <2>1 DEF PatchUnstructuredBoundContentName
<1>4. CASE BinderDeletion(n)
  <2>1. snap' \in [Nodes -> Snapshot]
    BY <1>4, SetFlag DEF BinderDeletion
  <2> DEFINE b == content[n].ownerGone \/ content[n].st # "none"
  <2>0. b \in BOOLEAN /\ content' = [content EXCEPT ![n].ownerGone = b]
    BY <1>4 DEF BinderDeletion
  <2> HIDE DEF b
  <2>2. content' \in [Nodes -> Content]
    BY <2>0, SetFlag
  <2>3. QED
    BY <1>4, <2>1, <2>2 DEF BinderDeletion
<1>5. CASE checkConsistencyAndSetReady(n)
  <2>1. snap' \in [Nodes -> Snapshot]
    BY <1>5, SetFlag DEF checkConsistencyAndSetReady
  <2>2. QED
    BY <1>5, <2>1 DEF checkConsistencyAndSetReady
<1>6. QED
  BY <1>1, <1>2, <1>3, <1>4, <1>5 DEF Binder

\* A pass of the content controller keeps the types.
LEMMA TypePass ==
    ASSUME TypeOK, NEW n \in Nodes, NEW q \in Queues, ContentPass(q, n)
    PROVE  TypeOK'
<1> USE DEF TypeOK, rest
<1>0. /\ <<q, n>> \in Queues \X Nodes /\ content[n] \in Content /\ pass[<<q, n>>] \in Pass
      /\ vsc[n] \in Artifact
  OBVIOUS
<1>1. \A pc \in {"idle", "project", "publish", "heal", "derive", "cascade", "flip", "delete", "release"} :
          Goto(q, n, pc) => pass' \in [Queues \X Nodes -> Pass]
  BY <1>0 DEF Goto, Pass
<1>2. Finish(q, n) => pass' \in [Queues \X Nodes -> Pass]
  BY <1>0, Records DEF Finish
<1>3. CASE Begin(q, n)
  <2>1. content' \in [Nodes -> Content]
    <3>1. \/ content' = content
          \/ content' = [content EXCEPT ![n].fin = TRUE]
          \/ content' = [content EXCEPT ![n].ownerGone = TRUE]
      BY <1>3 DEF Begin
    <3>2. CASE content' = [content EXCEPT ![n].fin = TRUE]
      BY <1>0, <3>2 DEF Content
    <3>3. CASE content' = [content EXCEPT ![n].ownerGone = TRUE]
      BY <1>0, <3>3 DEF Content
    <3>4. QED
      BY <3>1, <3>2, <3>3
  <2>2. \A pc \in {"project", "cascade"} : [pc |-> pc, ob |-> content[n]] \in Pass
    BY <1>0 DEF Pass
  <2>3. pass' \in [Queues \X Nodes -> Pass]
    BY <1>0, <1>3, <2>2 DEF Begin
  <2>4. QED
    BY <1>3, <2>1, <2>3 DEF Begin
<1>4. CASE Project(q, n)
  <2>1. content' \in [Nodes -> Content]
    <3> DEFINE e == IF /\ content[n].st # "none" /\ snap[n].planned
                       /\ \A c \in snap[n].declared : Exists(c) /\ snap[c].bound
                    THEN snap[n].declared ELSE content[n].edges
               b == content[n].named \/ (content[n].st # "none" /\ mcp[n] = "request")
               new == [content[n] EXCEPT !.edges = e, !.named = b]
    <3>1. e \in SUBSET Nodes /\ b \in BOOLEAN
      BY <1>0 DEF Content, Snapshot
    <3>2. content' = [content EXCEPT ![n].edges = e, ![n].named = b]
      BY <1>4 DEF Project
    <3> HIDE DEF e, b
    <3>3. new \in Content
      BY <1>0, <3>1 DEF Content
    <3>4. content' = [content EXCEPT ![n] = new]
      BY <3>2
    <3> HIDE DEF new
    <3>5. QED
      BY <3>3, <3>4
  <2>2. vsc' \in [Nodes -> Artifact]
    BY <1>0, <1>4 DEF Project, Pinned, Artifact
  <2>3. QED
    BY <1>1, <1>4, <2>1, <2>2 DEF Project
<1>5. CASE PublishSnapshotContentDataRef(q, n)
  <2>1. content' \in [Nodes -> Content]
    BY <1>0, <1>5 DEF PublishSnapshotContentDataRef, Content, Artifact
  <2>2. QED
    BY <1>1, <1>5, <2>1 DEF PublishSnapshotContentDataRef
<1>6. CASE selfHealDataArtifactOwnerRefs(q, n)
  <2>1. vsc' \in [Nodes -> Artifact]
    BY <1>0, <1>6 DEF selfHealDataArtifactOwnerRefs, Pinned, Artifact
  <2>2. QED
    BY <1>1, <1>6, <2>1 DEF selfHealDataArtifactOwnerRefs
<1>7. CASE DeriveReady(q, n)
  <2> DEFINE ob == pass[<<q, n>>].ob
             ok == /\ content[n].st = "live" /\ snap[n].planned
                   /\ ob.named /\ (n \in DataNodes => ob.data)
                   /\ ob.edges = snap[n].declared
                   /\ \A c \in ob.edges : content[c].ready
             b == content[n].ready \/ ok
             d == snap[n].ready \/ (ok /\ Exists(n) /\ ~content[n].ownerGone)
  <2>1. /\ content' = [content EXCEPT ![n].ready = b] /\ snap' = [snap EXCEPT ![n].ready = d]
        /\ b \in BOOLEAN /\ d \in BOOLEAN
    BY <1>7 DEF DeriveReady
  <2> HIDE DEF ob, ok, b, d
  <2>2. content' \in [Nodes -> Content] /\ snap' \in [Nodes -> Snapshot]
    BY <2>1, SetFlag
  <2>3. QED
    BY <1>2, <1>7, <2>1, <2>2 DEF DeriveReady
<1>8. CASE ensureFinalizersOnChildrenForCascade(q, n)
  <2>0. ASSUME NEW c \in Nodes PROVE [content[c] EXCEPT !.fin = TRUE] \in Content
    <3>1. content[c] \in Content
      OBVIOUS
    <3>2. QED
      BY <3>1 DEF Content
  <2>1. content' \in [Nodes -> Content]
    BY <1>8, <2>0 DEF ensureFinalizersOnChildrenForCascade
  <2>2. QED
    BY <1>1, <1>8, <2>1 DEF ensureFinalizersOnChildrenForCascade
<1>9. CASE FlipToDelete(q, n)
  <2>1. vsc' \in [Nodes -> Artifact]
    BY <1>0, <1>9 DEF FlipToDelete, Artifact
  <2>2. QED
    BY <1>1, <1>9, <2>1 DEF FlipToDelete
<1>10. CASE reclaimVolumeSnapshotContent(q, n)
  <2>1. vsc' \in [Nodes -> Artifact]
    BY <1>0, <1>10 DEF reclaimVolumeSnapshotContent, Artifact
  <2>2. QED
    BY <1>1, <1>10, <2>1 DEF reclaimVolumeSnapshotContent
<1>11. CASE Release(q, n)
  BY <1>0, <1>2, <1>11, Records DEF Release
<1>12. QED
  BY <1>3, <1>4, <1>5, <1>6, <1>7, <1>8, <1>9, <1>10, <1>11 DEF ContentPass

\* What a restore request may do to its own state: fail, start, take the next
\* node, accept its content, load a checkpoint.
LEMMA ReaderSteps ==
    ASSUME TypeOK, Restore
    PROVE  /\ UNCHANGED <<policy, api, bind, pass, aborts>>
           /\ \/ reader' = NoReader /\ UNCHANGED reads
              \/ /\ reader' = [NoReader EXCEPT !.pc = "walk", !.todo = {Root}]
                 /\ reads' = reads + 1 /\ reads < MaxReads
              \/ /\ UNCHANGED reads /\ reader.pc = "walk" /\ reader.cur = {}
                 /\ \E n \in reader.todo :
                       /\ n \in VolumeLeaves \/ snap[n].ready
                       /\ reader' = [reader EXCEPT !.cur = {n},
                                       !.todo = (reader.todo \ {n}) \cup snap[n].declared]
              \/ /\ UNCHANGED reads /\ reader.pc = "walk"
                 /\ \E n \in reader.cur, pc \in {"load", "walk"} :
                       /\ pc = "load" => reader.todo = {}
                       /\ reader' = [reader EXCEPT !.cur = {}, !.tree = reader.tree \cup {n}, !.pc = pc]
              \/ /\ UNCHANGED reads /\ reader.pc = "load"
                 /\ \E n \in reader.tree, pc \in {"load", "done"} :
                       /\ pc = "done" => reader.got \cup {n} = reader.tree
                       /\ reader' = [reader EXCEPT !.got = reader.got \cup {n}, !.pc = pc]
<1> USE DEF ReaderMoves, Fail, api
<1>1. CASE StartRestore
  BY <1>1 DEF StartRestore
<1>2. CASE ReadSnapshot
  BY <1>2 DEF ReadSnapshot, ensureSnapshotReady
<1>3. CASE ReadContent
  BY <1>3 DEF ReadContent
<1>4. CASE LoadManifests
  BY <1>4 DEF LoadManifests
<1>5. CASE Answer
  BY <1>5 DEF Answer
<1>6. QED
  BY <1>1, <1>2, <1>3, <1>4, <1>5 DEF Restore

\* A restore request keeps the types.
LEMMA TypeReader ==
    ASSUME TypeOK, Restore
    PROVE  TypeOK'
<1>0. reader \in Reader /\ Root \in Nodes /\ \A n \in Nodes : snap[n].declared \subseteq Nodes
  BY TeardownAssumption DEF TypeOK, Snapshot
<1>1. reader' \in Reader
  <2>1. CASE reader' = [NoReader EXCEPT !.pc = "walk", !.todo = {Root}]
    BY <1>0, <2>1, Records DEF Reader
  <2>2. ASSUME NEW n \in reader.todo,
               reader' = [reader EXCEPT !.cur = {n}, !.todo = (reader.todo \ {n}) \cup snap[n].declared]
        PROVE  reader' \in Reader
    <3>1. {n} \in SUBSET Nodes /\ (reader.todo \ {n}) \cup snap[n].declared \in SUBSET Nodes
      BY <1>0 DEF Reader
    <3>2. QED
      BY <1>0, <2>2, <3>1 DEF Reader
  <2>3. ASSUME NEW n \in reader.cur, NEW pc \in {"load", "walk"},
               reader' = [reader EXCEPT !.cur = {}, !.tree = reader.tree \cup {n}, !.pc = pc]
        PROVE  reader' \in Reader
    <3>1. reader.tree \cup {n} \in SUBSET Nodes
      BY <1>0 DEF Reader
    <3>2. QED
      BY <1>0, <2>3, <3>1 DEF Reader
  <2>4. ASSUME NEW n \in reader.tree, NEW pc \in {"load", "done"},
               reader' = [reader EXCEPT !.got = reader.got \cup {n}, !.pc = pc]
        PROVE  reader' \in Reader
    <3>1. reader.got \cup {n} \in SUBSET Nodes
      BY <1>0 DEF Reader
    <3>2. QED
      BY <1>0, <2>4, <3>1 DEF Reader
  <2>5. QED
    BY <2>1, <2>2, <2>3, <2>4, ReaderSteps, Records
<1>2. reads' \in 0..MaxReads
  <2>1. reads' = reads \/ (reads' = reads + 1 /\ reads < MaxReads)
    BY ReaderSteps
  <2>2. QED
    BY <2>1, TeardownAssumption DEF TypeOK
<1>3. QED
  BY <1>1, <1>2, ReaderSteps DEF TypeOK, api

\* Every step keeps the types.
LEMMA TypeStep == TypeOK /\ [Next]_vars => TypeOK'
<1> SUFFICES ASSUME TypeOK, [Next]_vars PROVE TypeOK'
  OBVIOUS
<1> USE DEF rest
<1>0. TypeOK
  OBVIOUS
<1>1. ASSUME NEW n \in Nodes, Binder(n) PROVE TypeOK'
  BY <1>1, TypeBinder
<1>2. ASSUME NEW n \in Nodes, NEW q \in Queues, ContentPass(q, n) PROVE TypeOK'
  BY <1>2, TypePass
<1>3. ASSUME NEW n \in Nodes, Declare(n) PROVE TypeOK'
  <2>1. PICK c \in Kids[n] \ snap[n].declared :
          snap' = [snap EXCEPT ![n].declared = @ \cup {c},
                               ![n].planned = (Kids[n] = snap[n].declared \cup {c})]
    BY <1>3 DEF Declare
  <2> DEFINE b == Kids[n] = snap[n].declared \cup {c}
             s == [snap[n] EXCEPT !.declared = @ \cup {c}, !.planned = b]
  <2>2. c \in Nodes /\ snap[n] \in Snapshot /\ b \in BOOLEAN
    BY TeardownAssumption DEF TypeOK
  <2>3. snap' = [snap EXCEPT ![n] = s]
    BY <2>1, <2>2 DEF TypeOK
  <2> HIDE DEF b
  <2>4. s \in Snapshot
    BY <2>2 DEF Snapshot
  <2> HIDE DEF s
  <2>5. snap' \in [Nodes -> Snapshot]
    BY <2>3, <2>4 DEF TypeOK
  <2>6. QED
    BY <1>3, <2>5 DEF Declare, TypeOK
<1>4. ASSUME NEW n \in Nodes, DeleteSnapshot(n) PROVE TypeOK'
  <2>1. \A x \in {"deleting", "gone"} : [snap EXCEPT ![n].st = x] \in [Nodes -> Snapshot]
    BY SetState DEF TypeOK
  <2>2. QED
    BY <1>4, <2>1 DEF DeleteSnapshot, TypeOK
<1>5. ASSUME NEW n \in Nodes, ExecutorCaptures(n) PROVE TypeOK'
  <2>1. vsc' \in [Nodes -> Artifact]
    BY <1>5 DEF ExecutorCaptures, TypeOK, Artifact
  <2>2. QED
    BY <1>5, <2>1 DEF ExecutorCaptures, TypeOK
<1>6. ASSUME NEW n \in Nodes, CollectContent(n) PROVE TypeOK'
  BY <1>6, DeletedFacts DEF CollectContent, TypeOK
<1>7. ASSUME NEW n \in Nodes, CollectArtifacts(n) PROVE TypeOK'
  <2> DEFINE b == vsc[n].stamped \/ ~vsc[n].owned
             a == [vsc[n] EXCEPT !.st = "deleting", !.stamped = b]
  <2>0. vsc[n] \in Artifact /\ b \in BOOLEAN /\ vsc' \in {vsc, [vsc EXCEPT ![n] = a]}
    BY <1>7 DEF CollectArtifacts, TypeOK
  <2> HIDE DEF b
  <2>1. vsc' \in [Nodes -> Artifact]
    <3>1. a \in Artifact
      BY <2>0 DEF Artifact
    <3> HIDE DEF a
    <3>2. QED
      BY <2>0, <3>1 DEF TypeOK
  <2>2. mcp' \in [Nodes -> {"none", "request", "content", "gone"}]
    BY <1>7 DEF CollectArtifacts, TypeOK
  <2>3. QED
    BY <1>7, <2>1, <2>2 DEF CollectArtifacts, TypeOK
<1>8. ASSUME NEW n \in Nodes, SidecarDeletes(n) PROVE TypeOK'
  <2>1. vsc' \in [Nodes -> Artifact]
    BY <1>8 DEF SidecarDeletes, TypeOK, Artifact
  <2>2. QED
    BY <1>8, <2>1 DEF SidecarDeletes, TypeOK
<1>9. CASE reconcileDelete
  <2>1. content' \in [Nodes -> Content]
    BY <1>9, DeletedFacts, TeardownAssumption DEF reconcileDelete, TypeOK
  <2>2. snap' \in [Nodes -> Snapshot]
    <3>1. snap' = snap \/ snap' = [snap EXCEPT ![Root].st = "gone"]
      BY <1>9 DEF reconcileDelete
    <3>2. Root \in Nodes /\ snap \in [Nodes -> Snapshot] /\ "gone" \in {"live", "deleting", "gone"}
      BY TeardownAssumption DEF TypeOK
    <3>3. [snap EXCEPT ![Root].st = "gone"] \in [Nodes -> Snapshot]
      BY <3>2, SetState
    <3>4. QED
      BY <3>1, <3>2, <3>3
  <2>3. mcp' \in [Nodes -> {"none", "request", "content", "gone"}]
    BY <1>9 DEF reconcileDelete, TypeOK
  <2>4. QED
    BY <1>9, <2>1, <2>2, <2>3 DEF reconcileDelete, TypeOK
<1>10. CASE KeeperExpires
  BY <1>10 DEF KeeperExpires, TypeOK
<1>11. CASE Abort
  BY <1>11, Records, TeardownAssumption DEF Abort, TypeOK, api
<1>12. CASE Restore
  BY <1>12, TypeReader
<1>13. CASE UNCHANGED vars
  BY <1>13 DEF vars, TypeOK
<1>14. QED
  BY <1>1, <1>2, <1>3, <1>4, <1>5, <1>6, <1>7, <1>8, <1>9, <1>10, <1>11, <1>12, <1>13
     DEF Next, Environment

\* Every variable of the teardown stays in its type.
THEOREM TypeCorrect == Spec => []TypeOK
BY TypeInit, TypeStep, PTL DEF Spec

-----------------------------------------------------------------------------
(* The data of a live content. *)

Teardown == {"cascade", "flip", "delete", "release"}
Told(n) == vsc[n].st \in {"deleting", "gone"}

\* An artifact is made once, with the request, and its snapshot on the storage
\* stays while it is live.
MadeOnce ==
    \A n \in Nodes : /\ mcp[n] = "none" => vsc[n].st = "none"
                     /\ vsc[n].st = "live" => phys[n] = "held"

\* Published data has an artifact the content owns, and a live content a live one.
Owned ==
    \A n \in Nodes : content[n].data =>
        /\ content[n].st # "none"
        /\ vsc[n].owned /\ vsc[n].st # "none"
        /\ content[n].st = "live" => vsc[n].st = "live"

\* A teardown pass that has seen data works on a content that is still being
\* deleted, or comes too late to do harm: the artifact has been told to go.
HarmlessTeardown ==
    \A q \in Queues, n \in Nodes :
        pass[<<q, n>>].pc \in Teardown /\ pass[<<q, n>>].ob.data =>
            /\ (content[n].st = "deleting" /\ content[n].data) \/ Told(n)
            /\ pass[<<q, n>>].pc = "release" => Told(n)

HeldInv == MadeOnce /\ Owned /\ HarmlessTeardown

\* Nothing is made yet.
LEMMA HeldInit == Init => HeldInv
<1> SUFFICES ASSUME Init PROVE HeldInv
  OBVIOUS
<1>1. \A n \in Nodes : mcp[n] = "none" /\ vsc[n].st = "none" /\ content[n] = NoContent
  BY DEF Init
<1>2. \A q \in Queues, n \in Nodes : pass[<<q, n>>] = NoPass
  BY DEF Init
<1>3. QED
  BY <1>1, <1>2, Records DEF HeldInv, MadeOnce, Owned, HarmlessTeardown, Teardown

\* A step that makes, moves and removes no artifact keeps it, if no content
\* appears with data and no content with data disappears or comes back.
LEMMA HeldStays ==
    ASSUME TypeOK, HeldInv,
           \A n \in Nodes : mcp[n] # "none" => mcp'[n] # "none",
           \A n \in Nodes : vsc'[n].st = vsc[n].st /\ (vsc[n].owned => vsc'[n].owned),
           phys' = phys,
           \A n \in Nodes : content'[n].data =>
               \/ /\ content[n].data
                  /\ content'[n].st # "none" /\ (content'[n].st = "live" => content[n].st = "live")
               \/ content'[n].st # "none" /\ vsc[n].st = "live" /\ vsc[n].owned,
           \A n \in Nodes : content[n].data /\ content[n].st = "deleting" =>
               (content'[n].data /\ content'[n].st = "deleting") \/ Told(n),
           \A q \in Queues, n \in Nodes :
               pass'[<<q, n>>].pc \in Teardown /\ pass'[<<q, n>>].ob.data =>
                  \/ /\ content[n].data /\ content[n].st = "deleting"
                     /\ pass'[<<q, n>>].pc # "release"
                  \/ /\ pass[<<q, n>>].pc \in Teardown /\ pass[<<q, n>>].ob.data
                     /\ pass'[<<q, n>>].pc = "release" => pass[<<q, n>>].pc = "release"
    PROVE  HeldInv'
<1>1. MadeOnce'
  BY DEF HeldInv, MadeOnce
<1>2. Owned'
  BY DEF HeldInv, Owned
<1>3. HarmlessTeardown'
  BY DEF HeldInv, HarmlessTeardown, Told
<1>4. QED
  BY <1>1, <1>2, <1>3 DEF HeldInv

\* The passes of a step of one pass: it alone moves.
LEMMA OnePassMoves ==
    ASSUME TypeOK, NEW q \in Queues, NEW n \in Nodes
    PROVE  /\ <<q, n>> \in Queues \X Nodes /\ pass[<<q, n>>] \in Pass
           /\ \A pc \in {"publish", "heal", "derive", "flip", "delete", "release"} :
                  Goto(q, n, pc) =>
                     /\ pass'[<<q, n>>].pc = pc /\ pass'[<<q, n>>].ob = pass[<<q, n>>].ob
                     /\ \A w \in Queues \X Nodes : w # <<q, n>> => pass'[w] = pass[w]
           /\ Finish(q, n) =>
                  /\ pass'[<<q, n>>] = NoPass
                  /\ \A w \in Queues \X Nodes : w # <<q, n>> => pass'[w] = pass[w]
<1>1. <<q, n>> \in Queues \X Nodes /\ pass[<<q, n>>] \in Pass
  BY DEF TypeOK
<1> DEFINE w0 == <<q, n>>
<1>2. pass \in [Queues \X Nodes -> Pass] /\ w0 \in Queues \X Nodes
  BY <1>1 DEF TypeOK
<1>3. ASSUME NEW pc, Goto(q, n, pc)
      PROVE  /\ pass'[w0].pc = pc /\ pass'[w0].ob = pass[w0].ob
             /\ \A w \in Queues \X Nodes : w # w0 => pass'[w] = pass[w]
  <2>1. pass' = [pass EXCEPT ![w0].pc = pc]
    BY <1>3 DEF Goto
  <2> HIDE DEF w0
  <2>2. QED
    BY <1>2, <2>1 DEF Pass
<1>4. ASSUME Finish(q, n)
      PROVE  /\ pass'[w0] = NoPass
             /\ \A w \in Queues \X Nodes : w # w0 => pass'[w] = pass[w]
  <2>1. pass' = [pass EXCEPT ![w0] = NoPass]
    BY <1>4 DEF Finish
  <2> HIDE DEF w0
  <2>2. QED
    BY <1>2, <2>1
<1>5. QED
  BY <1>1, <1>3, <1>4

\* The steps of the content controller keep it.
LEMMA HeldPass ==
    ASSUME TypeOK, HeldInv, NEW n \in Nodes, NEW q \in Queues, ContentPass(q, n)
    PROVE  HeldInv'
<1> USE OnePassMoves DEF rest, Teardown
<1>0. content[n] \in Content /\ vsc[n] \in Artifact /\ content \in [Nodes -> Content]
      /\ vsc \in [Nodes -> Artifact]
  BY DEF TypeOK
<1>1. CASE Begin(q, n)
  <2>1. \A m \in Nodes : content'[m].data = content[m].data /\ content'[m].st = content[m].st
    BY <1>0, <1>1 DEF Begin, Content
  <2>2. \A w \in Queues \X Nodes : w # <<q, n>> => pass'[w] = pass[w]
    BY <1>1 DEF Begin, TypeOK
  <2>3. \/ pass'[<<q, n>>] = pass[<<q, n>>] \/ pass'[<<q, n>>].pc = "project"
        \/ /\ pass'[<<q, n>>].pc = "cascade" /\ pass'[<<q, n>>].ob = content[n]
           /\ content[n].st = "deleting"
    BY <1>1 DEF Begin, TypeOK
  <2>4. mcp' = mcp /\ vsc' = vsc /\ phys' = phys
    BY <1>1 DEF Begin
  <2>5. QED
    BY <2>1, <2>2, <2>3, <2>4, HeldStays DEF HeldInv, Owned
<1>2. CASE Project(q, n)
  <2>1. \A m \in Nodes : content'[m].data = content[m].data /\ content'[m].st = content[m].st
    BY <1>0, <1>2 DEF Project, Content
  <2>2. \A m \in Nodes : vsc'[m].st = vsc[m].st /\ (vsc[m].owned => vsc'[m].owned)
    BY <1>0, <1>2 DEF Project, Pinned, Artifact
  <2>3. phys' = phys /\ \A m \in Nodes : mcp[m] # "none" => mcp'[m] # "none"
    BY <1>2 DEF Project, TypeOK
  <2>4. Goto(q, n, "publish")
    BY <1>2 DEF Project
  <2>5. /\ pass'[<<q, n>>].pc = "publish"
        /\ \A w \in Queues \X Nodes : w # <<q, n>> => pass'[w] = pass[w]
    BY <2>4
  <2>6. \A r \in Queues, m \in Nodes :
            pass'[<<r, m>>].pc \in Teardown => pass'[<<r, m>>] = pass[<<r, m>>]
    BY <2>5
  <2>7. QED
    BY <2>1, <2>2, <2>3, <2>6, HeldStays DEF HeldInv, Owned, HarmlessTeardown
<1>3. CASE PublishSnapshotContentDataRef(q, n)
  <2>1. /\ \A m \in Nodes : content'[m].st = content[m].st
        /\ \A m \in Nodes : content[m].data => content'[m].data
        /\ \A m \in Nodes : content'[m].data /\ ~content[m].data =>
              content[m].st # "none" /\ vsc[m].st = "live" /\ vsc[m].owned
    <3> DEFINE b == content[n].data \/ (content[n].st # "none" /\ vsc[n].st = "live" /\ vsc[n].owned)
    <3>1. content' = [content EXCEPT ![n].data = b]
      BY <1>3 DEF PublishSnapshotContentDataRef
    <3>2. content'[n].st = content[n].st /\ content'[n].data = b
      <4> HIDE DEF b
      <4>1. QED
        BY <1>0, <3>1 DEF Content
    <3>3. \A m \in Nodes : m # n => content'[m] = content[m]
      BY <1>0, <3>1
    <3>4. QED
      BY <3>2, <3>3
  <2>2. mcp' = mcp /\ vsc' = vsc /\ phys' = phys /\ Goto(q, n, "heal")
    BY <1>3 DEF PublishSnapshotContentDataRef
  <2>3. \A p \in Queues, m \in Nodes :
            pass'[<<p, m>>].pc \in Teardown => pass'[<<p, m>>] = pass[<<p, m>>]
    BY <2>2
  <2>4. \A m \in Nodes : content[m].data /\ content[m].st = "deleting" =>
            content'[m].data /\ content'[m].st = "deleting"
    BY <2>1
  <2>5. \A m \in Nodes : content'[m].data =>
            \/ /\ content[m].data
               /\ content'[m].st # "none" /\ (content'[m].st = "live" => content[m].st = "live")
            \/ content'[m].st # "none" /\ vsc[m].st = "live" /\ vsc[m].owned
    BY <2>1 DEF HeldInv, Owned
  <2>6. QED
    BY <2>2, <2>3, <2>4, <2>5, HeldStays DEF Teardown
<1>4. CASE selfHealDataArtifactOwnerRefs(q, n)
  <2>1. \A m \in Nodes : vsc'[m].st = vsc[m].st /\ (vsc[m].owned => vsc'[m].owned)
    BY <1>0, <1>4 DEF selfHealDataArtifactOwnerRefs, Pinned, Artifact
  <2>2. mcp' = mcp /\ content' = content /\ phys' = phys /\ Goto(q, n, "derive")
    BY <1>4 DEF selfHealDataArtifactOwnerRefs
  <2>3. \A m \in Nodes : content'[m].data =>
            content'[m].st # "none" /\ vsc[m].st # "none"
    BY <2>2 DEF HeldInv, Owned
  <2>4. \A p \in Queues, m \in Nodes :
            pass'[<<p, m>>].pc \in Teardown => pass'[<<p, m>>] = pass[<<p, m>>]
    BY <2>2 DEF Teardown
  <2>5. QED
    BY <2>1, <2>2, <2>3, <2>4, HeldStays
<1>5. CASE DeriveReady(q, n)
  <2>1. \A m \in Nodes : content'[m].data = content[m].data /\ content'[m].st = content[m].st
    <3>1. PICK b : content' = [content EXCEPT ![n].ready = b]
      BY <1>5 DEF DeriveReady
    <3>2. QED
      BY <1>0, <3>1 DEF Content
  <2>2. mcp' = mcp /\ vsc' = vsc /\ phys' = phys /\ Finish(q, n)
    BY <1>5 DEF DeriveReady
  <2>3. \A p \in Queues, m \in Nodes :
            pass'[<<p, m>>].pc \in Teardown => pass'[<<p, m>>] = pass[<<p, m>>]
    BY <2>2, Records
  <2>4. QED
    BY <2>1, <2>2, <2>3, HeldStays DEF HeldInv, Owned
<1>6. CASE ensureFinalizersOnChildrenForCascade(q, n)
  <2>1. \A m \in Nodes : content'[m].data = content[m].data /\ content'[m].st = content[m].st
    BY <1>0, <1>6 DEF ensureFinalizersOnChildrenForCascade, Content
  <2>2. mcp' = mcp /\ vsc' = vsc /\ phys' = phys /\ Goto(q, n, "flip") /\ pass[<<q, n>>].pc = "cascade"
    BY <1>6 DEF ensureFinalizersOnChildrenForCascade
  <2>3. QED
    BY <2>1, <2>2, HeldStays DEF HeldInv, Owned
<1>7. CASE FlipToDelete(q, n)
  <2>1. \A m \in Nodes : vsc'[m].st = vsc[m].st /\ (vsc[m].owned => vsc'[m].owned)
    BY <1>0, <1>7 DEF FlipToDelete, Artifact
  <2>2. /\ mcp' = mcp /\ content' = content /\ phys' = phys /\ Goto(q, n, "delete")
        /\ pass[<<q, n>>].pc = "flip"
    BY <1>7 DEF FlipToDelete
  <2>3. QED
    BY <2>1, <2>2, HeldStays DEF HeldInv, Owned
<1>8. CASE reclaimVolumeSnapshotContent(q, n)
  <2>1. /\ \A m \in Nodes : vsc'[m].owned = vsc[m].owned /\ (m # n => vsc'[m] = vsc[m])
        /\ vsc'[n].st = IF pass[<<q, n>>].ob.data /\ vsc[n].st = "live" THEN "deleting" ELSE vsc[n].st
    BY <1>0, <1>8 DEF reclaimVolumeSnapshotContent, Artifact
  <2>2. /\ mcp' = mcp /\ content' = content /\ phys' = phys /\ Goto(q, n, "release")
        /\ pass[<<q, n>>].pc = "delete"
    BY <1>8 DEF reclaimVolumeSnapshotContent
  <2>3. pass[<<q, n>>].ob.data => (content[n].st = "deleting" /\ content[n].data) \/ Told(n)
    BY <2>2 DEF HeldInv, HarmlessTeardown
  <2>4. pass[<<q, n>>].ob.data => vsc[n].st # "none"
    BY <2>3 DEF HeldInv, Owned, Told
  <2>5. MadeOnce'
    BY <2>1, <2>2 DEF HeldInv, MadeOnce
  <2>6. Owned'
    BY <2>1, <2>2, <2>3 DEF HeldInv, Owned, Told
  <2>7. pass[<<q, n>>].ob.data => vsc'[n].st \in {"deleting", "gone"}
    BY <1>0, <2>1, <2>4 DEF Artifact
  <2>8. HarmlessTeardown'
    BY <2>1, <2>2, <2>7 DEF HeldInv, HarmlessTeardown, Told
  <2>9. QED
    BY <2>5, <2>6, <2>8 DEF HeldInv
<1>9. CASE Release(q, n)
  <2>1. /\ \A m \in Nodes : m # n => content'[m] = content[m]
        /\ content'[n] = IF content[n] = pass[<<q, n>>].ob THEN NoContent ELSE content[n]
    BY <1>0, <1>9 DEF Release
  <2>2. mcp' = mcp /\ vsc' = vsc /\ phys' = phys /\ Finish(q, n) /\ pass[<<q, n>>].pc = "release"
    BY <1>9 DEF Release
  <2>3. content[n] = pass[<<q, n>>].ob /\ content[n].data => Told(n)
    BY <2>2 DEF HeldInv, HarmlessTeardown
  <2>4. QED
    BY <2>1, <2>2, <2>3, HeldStays, Records DEF HeldInv, Owned
<1>10. QED
  BY <1>1, <1>2, <1>3, <1>4, <1>5, <1>6, <1>7, <1>8, <1>9 DEF ContentPass

\* Every step keeps it.
LEMMA HeldStep ==
    ASSUME TypeOK, HeldInv, [Next]_vars
    PROVE  HeldInv'
<1> USE DEF rest
<1>0. content \in [Nodes -> Content] /\ vsc \in [Nodes -> Artifact]
  BY DEF TypeOK
<1>a. ASSUME mcp' = mcp, vsc' = vsc, phys' = phys, content' = content, pass' = pass
      PROVE  HeldInv'
  BY <1>a, HeldStays DEF HeldInv, Owned
<1>1. ASSUME NEW n \in Nodes, Binder(n) PROVE HeldInv'
  <2>1. CASE BinderCreate(n)
    <3>1. /\ content'[n] = IF content[n].st = "none" THEN NewContent ELSE content[n]
          /\ \A m \in Nodes : m # n => content'[m] = content[m]
      BY <1>0, <2>1 DEF BinderCreate
    <3>2. mcp' = mcp /\ vsc' = vsc /\ phys' = phys /\ pass' = pass
      BY <2>1 DEF BinderCreate
    <3>3. QED
      BY <3>1, <3>2, HeldStays, Records DEF HeldInv, Owned
  <2>2. CASE BinderDeletion(n)
    <3>1. PICK b : content' = [content EXCEPT ![n].ownerGone = b]
      BY <2>2 DEF BinderDeletion
    <3>2. \A m \in Nodes : content'[m].data = content[m].data /\ content'[m].st = content[m].st
      BY <1>0, <3>1 DEF Content
    <3>3. mcp' = mcp /\ vsc' = vsc /\ phys' = phys /\ pass' = pass
      BY <2>2 DEF BinderDeletion
    <3>4. QED
      BY <3>2, <3>3, HeldStays DEF HeldInv, Owned
  <2>3. QED
    BY <1>1, <1>a, <2>1, <2>2 DEF Binder, BinderStart, PatchUnstructuredBoundContentName,
                                  checkConsistencyAndSetReady
<1>2. ASSUME NEW n \in Nodes, NEW q \in Queues, ContentPass(q, n) PROVE HeldInv'
  BY <1>2, HeldPass
<1>3. ASSUME NEW n \in Nodes, Declare(n) \/ DeleteSnapshot(n) PROVE HeldInv'
  BY <1>3, <1>a DEF Declare, DeleteSnapshot
<1>4. ASSUME NEW n \in Nodes, ExecutorCaptures(n) PROVE HeldInv'
  <2>1. /\ mcp[n] = "none" /\ content' = content /\ pass' = pass
        /\ mcp'[n] = "request" /\ \A m \in Nodes : m # n => mcp'[m] = mcp[m]
        /\ vsc'[n].st = IF n \in DataNodes THEN "live" ELSE vsc[n].st
        /\ vsc'[n].owned = vsc[n].owned /\ \A m \in Nodes : m # n => vsc'[m] = vsc[m]
        /\ phys'[n] = IF n \in DataNodes THEN "held" ELSE phys[n]
        /\ \A m \in Nodes : m # n => phys'[m] = phys[m]
    BY <1>0, <1>4 DEF ExecutorCaptures, TypeOK, Artifact
  <2>2. vsc[n].st = "none" /\ ~content[n].data
    BY <2>1 DEF HeldInv, MadeOnce, Owned
  <2>3. MadeOnce' /\ Owned'
    BY <2>1, <2>2 DEF HeldInv, MadeOnce, Owned
  <2>4. HarmlessTeardown'
    BY <2>1, <2>2 DEF HeldInv, HarmlessTeardown, Told
  <2>5. QED
    BY <2>3, <2>4 DEF HeldInv
<1>5. ASSUME NEW n \in Nodes, content[n].st = "live", content' = [content EXCEPT ![n] = Deleted(@)],
             \A m \in Nodes : mcp[m] # "none" => mcp'[m] # "none",
             vsc' = vsc, phys' = phys, pass' = pass
      PROVE  HeldInv'
  <2>1. content'[n] = Deleted(content[n]) /\ \A m \in Nodes : m # n => content'[m] = content[m]
    BY <1>0, <1>5
  <2>2. content'[n].data => content'[n].st = "deleting" /\ content[n].data
    BY <1>0, <2>1, DeletedFacts, Records
  <2>3. QED
    BY <1>5, <2>1, <2>2, HeldStays DEF HeldInv, Owned
<1>6. ASSUME NEW n \in Nodes, CollectContent(n) PROVE HeldInv'
  BY <1>5, <1>6 DEF CollectContent
<1>7. CASE reconcileDelete
  <2>1. Root \in Nodes /\ \A m \in Nodes : mcp[m] # "none" => mcp'[m] # "none"
    BY <1>7, TeardownAssumption DEF reconcileDelete, TypeOK
  <2>2. CASE content' = content
    BY <1>7, <2>1, <2>2, HeldStays DEF reconcileDelete, HeldInv, Owned
  <2>3. CASE content' # content
    BY <1>5, <1>7, <2>1, <2>3 DEF reconcileDelete
  <2>4. QED
    BY <2>2, <2>3
<1>8. ASSUME NEW n \in Nodes, CollectArtifacts(n) PROVE HeldInv'
  <2>1. phys' = phys /\ content' = content /\ pass' = pass
    BY <1>8 DEF CollectArtifacts
  <2>2. CASE vsc' = vsc
    <3>1. \A m \in Nodes : mcp[m] # "none" => mcp'[m] # "none"
      BY <1>8 DEF CollectArtifacts, TypeOK
    <3>2. QED
      BY <2>1, <2>2, <3>1, HeldStays DEF HeldInv, Owned
  <2>3. CASE vsc' # vsc
    <3>1. /\ vsc[n].st = "live" /\ mcp' = mcp /\ (vsc[n].owned => content[n].st = "none")
          /\ \E b : vsc' = [vsc EXCEPT ![n].st = "deleting", ![n].stamped = b]
      BY <1>8, <2>3 DEF CollectArtifacts
    <3>2. /\ vsc'[n].st = "deleting" /\ vsc'[n].owned = vsc[n].owned
          /\ \A m \in Nodes : m # n => vsc'[m] = vsc[m]
      <4>1. PICK b : vsc' = [vsc EXCEPT ![n].st = "deleting", ![n].stamped = b]
        BY <3>1
      <4>2. QED
        BY <1>0, <4>1 DEF Artifact
    <3>3. ~content[n].data
      BY <3>1 DEF HeldInv, Owned
    <3>4. MadeOnce' /\ Owned'
      <4>1. MadeOnce'
        BY <2>1, <3>1, <3>2 DEF HeldInv, MadeOnce
      <4>2. Owned'
        BY <2>1, <3>2, <3>3 DEF HeldInv, Owned
      <4>3. QED
        BY <4>1, <4>2
    <3>5. HarmlessTeardown'
      BY <2>1, <3>2 DEF HeldInv, HarmlessTeardown, Told
    <3>6. QED
      BY <3>4, <3>5 DEF HeldInv
  <2>4. QED
    BY <2>2, <2>3
<1>9. ASSUME NEW n \in Nodes, SidecarDeletes(n) PROVE HeldInv'
  <2>1. /\ vsc[n].st = "deleting" /\ mcp' = mcp /\ content' = content /\ pass' = pass
        /\ vsc'[n].st = "gone" /\ vsc'[n].owned = vsc[n].owned
        /\ \A m \in Nodes : m # n => vsc'[m] = vsc[m]
        /\ \A m \in Nodes : m # n => phys'[m] = phys[m]
    BY <1>0, <1>9 DEF SidecarDeletes, TypeOK, Artifact
  <2>2. MadeOnce' /\ Owned'
    BY <2>1 DEF HeldInv, MadeOnce, Owned
  <2>3. HarmlessTeardown'
    BY <2>1 DEF HeldInv, HarmlessTeardown, Told
  <2>4. QED
    BY <2>2, <2>3 DEF HeldInv
<1>10. CASE KeeperExpires
  BY <1>10, <1>a DEF KeeperExpires
<1>11. CASE Abort
  <2>1. mcp' = mcp /\ vsc' = vsc /\ phys' = phys /\ content' = content
    BY <1>11 DEF Abort, api
  <2>2. \A p \in Queues, m \in Nodes : pass'[<<p, m>>] \in {pass[<<p, m>>], NoPass}
    BY <1>11 DEF Abort, TypeOK
  <2>3. \A p \in Queues, m \in Nodes :
            pass'[<<p, m>>].pc \in Teardown => pass'[<<p, m>>] = pass[<<p, m>>]
    BY <2>2, Records DEF Teardown
  <2>4. QED
    BY <2>1, <2>3, HeldStays DEF HeldInv, Owned
<1>12. CASE Restore
  BY <1>12, <1>a, ReaderSteps DEF api
<1>13. CASE UNCHANGED vars
  BY <1>13, <1>a DEF vars
<1>14. QED
  BY <1>1, <1>2, <1>3, <1>4, <1>6, <1>7, <1>8, <1>9, <1>10, <1>11, <1>12, <1>13
     DEF Next, Environment

\* The invariant holds always.
LEMMA HeldInvariant == Spec => [](TypeOK /\ HeldInv)
<1>1. TypeOK /\ HeldInv /\ [Next]_vars => (TypeOK /\ HeldInv)'
  BY TypeStep, HeldStep
<1>2. QED
  BY <1>1, TypeInit, HeldInit, PTL DEF Spec

\* The data a live content publishes is on the storage, whichever queues
\* reconcile it and whoever deletes snapshots, requests and other contents.
THEOREM DataIsHeld == Spec => []LiveDataIsHeld
<1>1. HeldInv => LiveDataIsHeld
  BY DEF HeldInv, MadeOnce, Owned, LiveDataIsHeld
<1>2. QED
  BY <1>1, HeldInvariant, PTL

-----------------------------------------------------------------------------
(* The restore walk. *)

\* A snapshot that is ready or planned has declared all its children.
DeclaredIsWhole ==
    \A n \in Nodes : /\ snap[n].declared \subseteq Kids[n]
                     /\ snap[n].planned \/ snap[n].ready => snap[n].declared = Kids[n]

\* What a request has taken or still has to take holds the root and all children
\* of what it has taken.
WalkIsWhole ==
    LET known == reader.tree \cup reader.cur \cup reader.todo
    IN /\ reader.pc # "idle" => /\ Root \in known
                                /\ \A n \in reader.tree \cup reader.cur : Kids[n] \subseteq known
       /\ \A m, n \in reader.cur : m = n
       /\ reader.pc \in {"load", "done"} => reader.todo = {} /\ reader.cur = {}
       /\ reader.pc = "done" => reader.got = reader.tree

WalkInv == DeclaredIsWhole /\ WalkIsWhole

\* Nothing is declared and nothing is read yet.
LEMMA WalkInit == Init => WalkInv
<1> SUFFICES ASSUME Init PROVE WalkInv
  OBVIOUS
<1>1. DeclaredIsWhole
  BY TeardownAssumption DEF Init, DeclaredIsWhole
<1>2. reader.pc = "idle" /\ reader.cur = {}
  BY DEF Init, NoReader
<1>3. WalkIsWhole
  BY <1>2 DEF WalkIsWhole
<1>4. QED
  BY <1>1, <1>3 DEF WalkInv

\* A child set only grows until it is closed, and a snapshot is ready only when
\* its set is closed.
LEMMA DeclaredStep ==
    ASSUME TypeOK, DeclaredIsWhole, [Next]_vars
    PROVE  DeclaredIsWhole'
<1> USE DEF rest
<1>0. snap \in [Nodes -> Snapshot]
  BY DEF TypeOK
<1>a. ASSUME \A n \in Nodes : /\ snap'[n].declared = snap[n].declared
                              /\ snap'[n].planned = snap[n].planned
                              /\ snap'[n].ready => snap[n].ready \/ snap[n].planned
      PROVE  DeclaredIsWhole'
  BY <1>a DEF DeclaredIsWhole
<1>1. ASSUME snap' = snap PROVE DeclaredIsWhole'
  BY <1>1 DEF DeclaredIsWhole
<1>2. ASSUME NEW n \in Nodes, Declare(n) PROVE DeclaredIsWhole'
  <2>1. PICK c \in Kids[n] \ snap[n].declared :
          snap' = [snap EXCEPT ![n].declared = @ \cup {c},
                               ![n].planned = (Kids[n] = snap[n].declared \cup {c})]
    BY <1>2 DEF Declare
  <2> DEFINE b == Kids[n] = snap[n].declared \cup {c}
             d == snap[n].declared \cup {c}
  <2>2. snap' = [snap EXCEPT ![n].declared = d, ![n].planned = b]
    BY <2>1
  <2>3. /\ snap'[n].declared = d /\ snap'[n].planned = b /\ snap'[n].ready = snap[n].ready
        /\ \A m \in Nodes : m # n => snap'[m] = snap[m]
    <3> HIDE DEF b, d
    <3>1. QED
      BY <1>0, <2>2 DEF Snapshot
  <2>4. ~snap[n].planned /\ c \in Kids[n] /\ c \notin snap[n].declared
    BY <1>2 DEF Declare
  <2>5. ~snap[n].ready
    BY <2>4 DEF DeclaredIsWhole
  <2>6. QED
    BY <2>3, <2>4, <2>5 DEF DeclaredIsWhole
<1>3. ASSUME NEW n \in Nodes, Binder(n) PROVE DeclaredIsWhole'
  <2>1. CASE BinderStart(n) \/ BinderCreate(n)
    BY <1>1, <2>1 DEF BinderStart, BinderCreate
  <2>2. CASE PatchUnstructuredBoundContentName(n)
    <3>1. PICK b : snap' = [snap EXCEPT ![n].bound = b]
      BY <2>2 DEF PatchUnstructuredBoundContentName
    <3>2. QED
      BY <1>0, <1>a, <3>1 DEF Snapshot
  <2>3. CASE BinderDeletion(n) \/ checkConsistencyAndSetReady(n)
    <3>1. snap' = [snap EXCEPT ![n].ready = FALSE]
      BY <2>3 DEF BinderDeletion, checkConsistencyAndSetReady
    <3>2. QED
      BY <1>0, <1>a, <3>1 DEF Snapshot
  <2>4. QED
    BY <1>3, <2>1, <2>2, <2>3 DEF Binder
<1>4. ASSUME NEW n \in Nodes, NEW q \in Queues, ContentPass(q, n) PROVE DeclaredIsWhole'
  <2>1. CASE DeriveReady(q, n)
    <3>1. PICK b : snap' = [snap EXCEPT ![n].ready = snap[n].ready \/ (snap[n].planned /\ b)]
      <4>1. snap' = [snap EXCEPT ![n].ready = snap[n].ready \/ (snap[n].planned /\
                       ( /\ content[n].st = "live" /\ snap[n].planned
                         /\ pass[<<q, n>>].ob.named /\ (n \in DataNodes => pass[<<q, n>>].ob.data)
                         /\ pass[<<q, n>>].ob.edges = snap[n].declared
                         /\ \A c \in pass[<<q, n>>].ob.edges : content[c].ready
                         /\ Exists(n) /\ ~content[n].ownerGone))]
        BY <2>1 DEF DeriveReady
      <4>2. QED
        BY <4>1
    <3>2. QED
      BY <1>0, <1>a, <3>1 DEF Snapshot
  <2>2. CASE ~DeriveReady(q, n)
    BY <1>1, <1>4, <2>2 DEF ContentPass, Begin, Project, PublishSnapshotContentDataRef,
         selfHealDataArtifactOwnerRefs, ensureFinalizersOnChildrenForCascade, FlipToDelete,
         reclaimVolumeSnapshotContent, Release
  <2>3. QED
    BY <2>1, <2>2
<1>5. ASSUME NEW n \in Nodes, DeleteSnapshot(n) PROVE DeclaredIsWhole'
  <2>1. PICK x : snap' = [snap EXCEPT ![n].st = x]
    BY <1>5 DEF DeleteSnapshot
  <2>2. QED
    BY <1>0, <1>a, <2>1 DEF Snapshot
<1>6. CASE reconcileDelete
  <2>1. snap' = snap \/ snap' = [snap EXCEPT ![Root].st = "gone"]
    BY <1>6 DEF reconcileDelete
  <2>2. QED
    BY <1>0, <1>1, <1>a, <2>1, TeardownAssumption DEF Snapshot
<1>7. ASSUME NEW n \in Nodes, ExecutorCaptures(n) \/ Environment(n) PROVE DeclaredIsWhole'
  BY <1>1, <1>7 DEF ExecutorCaptures, Environment, CollectContent, CollectArtifacts, SidecarDeletes
<1>8. CASE KeeperExpires \/ Abort \/ Restore \/ UNCHANGED vars
  BY <1>1, <1>8, ReaderSteps DEF KeeperExpires, Abort, api, vars
<1>9. QED
  BY <1>2, <1>3, <1>4, <1>5, <1>6, <1>7, <1>8 DEF Next

\* A request drops no child of what it has taken.
LEMMA WalkStep ==
    ASSUME TypeOK, WalkInv, [Next]_vars
    PROVE  WalkIsWhole'
<1> USE DEF rest
<1>0. /\ reader \in Reader /\ DeclaredIsWhole /\ WalkIsWhole
      /\ Kids \in [Nodes -> SUBSET Nodes] /\ \A n \in VolumeLeaves : Kids[n] = {}
  BY TeardownAssumption DEF TypeOK, WalkInv
<1>1. CASE Restore
  <2> USE DEF WalkIsWhole
  <2>1. CASE reader' = NoReader
    BY <2>1 DEF NoReader
  <2>2. CASE reader' = [NoReader EXCEPT !.pc = "walk", !.todo = {Root}]
    <3>1. reader'.pc = "walk" /\ reader'.todo = {Root} /\ reader'.tree = {} /\ reader'.cur = {}
      BY <2>2 DEF NoReader
    <3>2. QED
      BY <3>1
  <2>3. ASSUME NEW n \in reader.todo, reader.pc = "walk", reader.cur = {},
               n \in VolumeLeaves \/ snap[n].ready,
               reader' = [reader EXCEPT !.cur = {n}, !.todo = (reader.todo \ {n}) \cup snap[n].declared]
        PROVE  WalkIsWhole'
    <3>1. /\ reader'.pc = "walk" /\ reader'.tree = reader.tree /\ reader'.cur = {n}
          /\ reader'.todo = (reader.todo \ {n}) \cup snap[n].declared /\ n \in Nodes
      BY <1>0, <2>3 DEF Reader
    <3>2. Kids[n] \subseteq reader'.todo
      BY <1>0, <2>3, <3>1 DEF DeclaredIsWhole
    <3>3. QED
      BY <1>0, <2>3, <3>1, <3>2
  <2>4. ASSUME NEW n \in reader.cur, NEW pc \in {"load", "walk"}, reader.pc = "walk",
               pc = "load" => reader.todo = {},
               reader' = [reader EXCEPT !.cur = {}, !.tree = reader.tree \cup {n}, !.pc = pc]
        PROVE  WalkIsWhole'
    <3>1. /\ reader'.pc = pc /\ reader'.tree = reader.tree \cup {n} /\ reader'.cur = {}
          /\ reader'.todo = reader.todo
      BY <1>0, <2>4 DEF Reader
    <3>2. QED
      BY <1>0, <2>4, <3>1
  <2>5. ASSUME NEW n \in reader.tree, NEW pc \in {"load", "done"}, reader.pc = "load",
               pc = "done" => reader.got \cup {n} = reader.tree,
               reader' = [reader EXCEPT !.got = reader.got \cup {n}, !.pc = pc]
        PROVE  WalkIsWhole'
    <3>1. /\ reader'.pc = pc /\ reader'.tree = reader.tree /\ reader'.cur = reader.cur
          /\ reader'.todo = reader.todo /\ reader'.got = reader.got \cup {n}
      BY <1>0, <2>5 DEF Reader
    <3>2. QED
      BY <1>0, <2>5, <3>1
  <2>6. QED
    BY <1>1, <2>1, <2>2, <2>3, <2>4, <2>5, ReaderSteps
<1>2. CASE reader' = reader
  BY <1>0, <1>2 DEF WalkIsWhole
<1>3. ASSUME NEW n \in Nodes, NEW q \in Queues, ContentPass(q, n) PROVE reader' = reader
  BY <1>3 DEF ContentPass, Begin, Project, PublishSnapshotContentDataRef,
       selfHealDataArtifactOwnerRefs, DeriveReady, ensureFinalizersOnChildrenForCascade,
       FlipToDelete, reclaimVolumeSnapshotContent, Release
<1>4. ASSUME NEW n \in Nodes,
             \/ Binder(n) \/ Declare(n) \/ Environment(n) \/ DeleteSnapshot(n) \/ ExecutorCaptures(n)
      PROVE  reader' = reader
  BY <1>4 DEF Binder, BinderStart, BinderCreate, PatchUnstructuredBoundContentName, BinderDeletion,
       checkConsistencyAndSetReady, Declare, Environment, CollectContent, CollectArtifacts,
       SidecarDeletes, DeleteSnapshot, ExecutorCaptures
<1>5. CASE reconcileDelete \/ KeeperExpires \/ Abort \/ UNCHANGED vars
  BY <1>2, <1>5 DEF reconcileDelete, KeeperExpires, Abort, vars
<1>6. QED
  BY <1>1, <1>2, <1>3, <1>4, <1>5 DEF Next

\* A finished restore answer has the manifests of every descendant of the root,
\* however the tree is captured, degraded and torn down while it is read.
THEOREM RestoredWhole == Spec => []RestoreIsWhole
<1>1. TypeOK /\ WalkInv /\ [Next]_vars => (TypeOK /\ WalkInv)'
  BY TypeStep, DeclaredStep, WalkStep DEF WalkInv
<1>2. ASSUME TypeOK, WalkInv, reader.pc = "done" PROVE reader.got = Nodes
  <2>1. /\ reader.got = reader.tree /\ reader.tree \in SUBSET Nodes /\ Root \in reader.tree
        /\ \A n \in reader.tree : Kids[n] \subseteq reader.tree
    BY <1>2 DEF WalkInv, WalkIsWhole, TypeOK, Reader
  <2>2. QED
    BY <2>1, TeardownAssumption
<1>3. TypeOK /\ WalkInv => RestoreIsWhole
  BY <1>2 DEF RestoreIsWhole
<1>4. QED
  BY <1>1, <1>3, TypeInit, WalkInit, PTL DEF Spec

-----------------------------------------------------------------------------
(* The deletion handler, when one queue reconciles a content. *)

\* A pass knows the data of its content: nobody else publishes or removes it.
PassIsAlone ==
    \A q \in Queues, n \in Nodes :
        /\ pass[<<q, n>>].pc \in {"project", "publish", "heal", "derive"} =>
              content[n].st # "none" /\ content[n].fin
        /\ pass[<<q, n>>].pc \in Teardown =>
              content[n].st = "deleting" /\ content[n].data = pass[<<q, n>>].ob.data
        /\ pass[<<q, n>>].pc \in {"delete", "release"} /\ pass[<<q, n>>].ob.data =>
              vsc[n].policy = "Delete"

\* Published data is under parent-protect, and its artifact is live or was told
\* to take the snapshot on the storage with it.
Protected ==
    \A n \in Nodes : content[n].data =>
        content[n].fin /\ (Told(n) => vsc[n].policy = "Delete")

HandlerInv == PassIsAlone /\ Protected

\* Nothing is published and no pass runs.
LEMMA HandlerInit == Init => HandlerInv
<1> SUFFICES ASSUME Init PROVE HandlerInv
  OBVIOUS
<1>1. \A n \in Nodes : content[n] = NoContent
  BY DEF Init
<1>2. \A q \in Queues, n \in Nodes : pass[<<q, n>>] = NoPass
  BY DEF Init
<1>3. QED
  BY <1>1, <1>2, Records DEF HandlerInv, PassIsAlone, Protected, Teardown

\* A step outside the content controller neither publishes data nor lifts a
\* finalizer, and may only end passes.
LEMMA HandlerStays ==
    ASSUME TypeOK, HeldInv, HandlerInv,
           \A n \in Nodes : vsc'[n].policy = vsc[n].policy,
           \A n \in Nodes : content'[n].data = content[n].data,
           \A n \in Nodes : content[n].data => (vsc'[n].st \in {"deleting", "gone"} => Told(n)),
           \A n \in Nodes : content[n].st # "none" /\ content[n].fin =>
               content'[n].st # "none" /\ content'[n].fin,
           \A n \in Nodes : content[n].st = "deleting" => content'[n].st = "deleting",
           \A q \in Queues, n \in Nodes :
               pass'[<<q, n>>] = pass[<<q, n>>] \/ pass'[<<q, n>>].pc = "idle"
    PROVE  HandlerInv'
<1>1. PassIsAlone'
  <2> SUFFICES ASSUME NEW q \in Queues, NEW n \in Nodes
               PROVE  /\ pass'[<<q, n>>].pc \in {"project", "publish", "heal", "derive"} =>
                            content'[n].st # "none" /\ content'[n].fin
                      /\ pass'[<<q, n>>].pc \in Teardown =>
                            content'[n].st = "deleting" /\ content'[n].data = pass'[<<q, n>>].ob.data
                      /\ pass'[<<q, n>>].pc \in {"delete", "release"} /\ pass'[<<q, n>>].ob.data =>
                            vsc'[n].policy = "Delete"
    BY DEF PassIsAlone
  <2>1. CASE pass'[<<q, n>>] = pass[<<q, n>>]
    BY <2>1 DEF HandlerInv, PassIsAlone
  <2>2. CASE pass'[<<q, n>>].pc = "idle"
    BY <2>2 DEF Teardown
  <2>3. QED
    BY <2>1, <2>2
<1>2. Protected'
  BY DEF HandlerInv, Protected, Told, HeldInv, Owned
<1>3. QED
  BY <1>1, <1>2 DEF HandlerInv

\* The one pass over a content knows it, from the reading to the release.
LEMMA HandlerPass ==
    ASSUME Queues = {"content"}, TypeOK, HeldInv, HandlerInv,
           NEW n \in Nodes, NEW q \in Queues, ContentPass(q, n)
    PROVE  HandlerInv'
<1> USE OnePassMoves DEF rest
<1>0. /\ content[n] \in Content /\ vsc[n] \in Artifact /\ content \in [Nodes -> Content]
      /\ vsc \in [Nodes -> Artifact] /\ content[n].data \in BOOLEAN /\ pass[<<q, n>>].ob \in Content
  BY DEF TypeOK, Content, Pass
<1> DEFINE w == <<q, n>>
           pc == pass'[w].pc
           ob == pass'[w].ob
           OthersAlone == \A m \in Nodes : m # n =>
               /\ pass'[<<q, m>>] = pass[<<q, m>>] /\ vsc'[m] = vsc[m]
               /\ content'[m].st = content[m].st /\ content'[m].data = content[m].data
               /\ content[m].fin => content'[m].fin
           AloneHere ==
               /\ pc \in {"project", "publish", "heal", "derive"} => content'[n].st # "none" /\ content'[n].fin
               /\ pc \in Teardown => content'[n].st = "deleting" /\ content'[n].data = ob.data
               /\ pc \in {"delete", "release"} /\ ob.data => vsc'[n].policy = "Delete"
           ProtectedHere ==
               content'[n].data =>
                  content'[n].fin /\ (vsc'[n].st \in {"deleting", "gone"} => vsc'[n].policy = "Delete")
<1>a. ASSUME OthersAlone, AloneHere, ProtectedHere PROVE HandlerInv'
  <2>1. \A p \in Queues : p = q
    OBVIOUS
  <2>2. PassIsAlone'
    <3>1. SUFFICES ASSUME NEW p \in Queues, NEW m \in Nodes
                   PROVE  /\ pass'[<<p, m>>].pc \in {"project", "publish", "heal", "derive"} =>
                                content'[m].st # "none" /\ content'[m].fin
                          /\ pass'[<<p, m>>].pc \in Teardown =>
                                content'[m].st = "deleting" /\ content'[m].data = pass'[<<p, m>>].ob.data
                          /\ pass'[<<p, m>>].pc \in {"delete", "release"} /\ pass'[<<p, m>>].ob.data =>
                                vsc'[m].policy = "Delete"
      BY DEF PassIsAlone, Teardown
    <3>2. p = q
      BY <2>1
    <3>3. CASE m = n
      BY <1>a, <3>2, <3>3
    <3>4. CASE m # n
      BY <1>a, <3>2, <3>4 DEF HandlerInv, PassIsAlone
    <3>5. QED
      BY <3>3, <3>4
  <2>3. Protected'
    <3>1. SUFFICES ASSUME NEW m \in Nodes, content'[m].data
                   PROVE  content'[m].fin /\ (vsc'[m].st \in {"deleting", "gone"} => vsc'[m].policy = "Delete")
      BY DEF Protected, Told
    <3>2. CASE m = n
      BY <1>a, <3>1, <3>2
    <3>3. CASE m # n
      <4>1. /\ content'[m].data = content[m].data /\ vsc'[m] = vsc[m]
            /\ content[m].fin => content'[m].fin
        BY <1>a, <3>3
      <4>2. content[m].data
        BY <3>1, <4>1
      <4>3. content[m].fin /\ (vsc[m].st \in {"deleting", "gone"} => vsc[m].policy = "Delete")
        BY <4>2 DEF HandlerInv, Protected, Told
      <4>4. QED
        BY <4>1, <4>3
    <3>4. QED
      BY <3>2, <3>3
  <2>4. QED
    BY <2>2, <2>3 DEF HandlerInv
<1>b. /\ pass[w].pc \in {"project", "publish", "heal", "derive"} => content[n].st # "none" /\ content[n].fin
      /\ pass[w].pc \in Teardown => content[n].st = "deleting" /\ content[n].data = pass[w].ob.data
      /\ pass[w].pc \in {"delete", "release"} /\ pass[w].ob.data => vsc[n].policy = "Delete"
      /\ content[n].data => content[n].fin /\ (Told(n) => vsc[n].policy = "Delete")
      /\ content[n].data => content[n].st # "none"
  BY DEF HandlerInv, PassIsAlone, Protected, HeldInv, Owned
<1>c. \A m \in Nodes : m # n => <<q, m>> # w /\ <<q, m>> \in Queues \X Nodes
  OBVIOUS
<1> USE DEF Teardown
<1>1. CASE Begin(q, n)
  <2>1. /\ \A m \in Nodes : m # n => content'[m] = content[m]
        /\ content'[n].st = content[n].st /\ content'[n].data = content[n].data
        /\ content[n].fin => content'[n].fin
    BY <1>0, <1>1 DEF Begin, Content
  <2>2. vsc' = vsc /\ \A v \in Queues \X Nodes : v # w => pass'[v] = pass[v]
    BY <1>1 DEF Begin, TypeOK
  <2>3. \/ pass'[w] = pass[w] /\ pass[w].pc = "idle"
        \/ pass'[w].pc = "project" /\ content[n].fin /\ content[n].st # "none"
        \/ pass'[w].pc = "cascade" /\ pass'[w].ob = content[n] /\ content[n].st = "deleting"
    BY <1>1 DEF Begin, TypeOK
  <2>4. OthersAlone
    BY <2>1, <2>2, <1>c
  <2>5. AloneHere
    BY <2>1, <2>2, <2>3
  <2>6. ProtectedHere
    BY <1>b, <2>1, <2>2 DEF Told
  <2>7. QED
    BY <1>a, <2>4, <2>5, <2>6
<1>2. CASE Project(q, n)
  <2>1. /\ \A m \in Nodes : m # n => content'[m] = content[m] /\ vsc'[m] = vsc[m]
        /\ content'[n].st = content[n].st /\ content'[n].data = content[n].data
        /\ content'[n].fin = content[n].fin
    BY <1>0, <1>2 DEF Project, Content
  <2>2. vsc'[n].st = vsc[n].st /\ (vsc[n].st # "live" => vsc'[n] = vsc[n])
    BY <1>0, <1>2 DEF Project, Pinned, Artifact
  <2>3. Goto(q, n, "publish") /\ pass[w].pc = "project"
    BY <1>2 DEF Project
  <2>4. OthersAlone
    BY <2>1, <2>3, <1>c
  <2>5. AloneHere
    BY <1>b, <2>1, <2>3
  <2>6. ProtectedHere
    BY <1>b, <2>1, <2>2 DEF Told
  <2>7. QED
    BY <1>a, <2>4, <2>5, <2>6
<1>3. CASE PublishSnapshotContentDataRef(q, n)
  <2> DEFINE b == content[n].data \/ (content[n].st # "none" /\ vsc[n].st = "live" /\ vsc[n].owned)
  <2>0. content' = [content EXCEPT ![n].data = b]
    BY <1>3 DEF PublishSnapshotContentDataRef
  <2>1. /\ \A m \in Nodes : m # n => content'[m] = content[m]
        /\ content'[n].st = content[n].st /\ content'[n].data = b /\ content'[n].fin = content[n].fin
    <3> HIDE DEF b
    <3>1. QED
      BY <1>0, <2>0 DEF Content
  <2>2. vsc' = vsc /\ Goto(q, n, "heal") /\ pass[w].pc = "publish"
    BY <1>3 DEF PublishSnapshotContentDataRef
  <2>3. OthersAlone
    BY <2>1, <2>2, <1>c
  <2>4. AloneHere
    BY <1>b, <2>1, <2>2
  <2>5. ProtectedHere
    BY <1>b, <2>1, <2>2 DEF Told
  <2>6. QED
    BY <1>a, <2>3, <2>4, <2>5
<1>4. CASE selfHealDataArtifactOwnerRefs(q, n)
  <2>1. /\ \A m \in Nodes : m # n => vsc'[m] = vsc[m]
        /\ vsc'[n].st = vsc[n].st /\ (vsc[n].st # "live" => vsc'[n] = vsc[n])
    BY <1>0, <1>4 DEF selfHealDataArtifactOwnerRefs, Pinned, Artifact
  <2>2. content' = content /\ Goto(q, n, "derive") /\ pass[w].pc = "heal"
    BY <1>4 DEF selfHealDataArtifactOwnerRefs
  <2>3. OthersAlone /\ AloneHere
    BY <1>b, <2>1, <2>2, <1>c
  <2>4. ProtectedHere
    BY <1>b, <2>1, <2>2 DEF Told
  <2>5. QED
    BY <1>a, <2>3, <2>4
<1>5. CASE DeriveReady(q, n)
  <2>0. PICK b : content' = [content EXCEPT ![n].ready = b]
    BY <1>5 DEF DeriveReady
  <2>1. /\ \A m \in Nodes : m # n => content'[m] = content[m]
        /\ content'[n].st = content[n].st /\ content'[n].data = content[n].data
        /\ content'[n].fin = content[n].fin
    BY <1>0, <2>0 DEF Content
  <2>2. vsc' = vsc /\ Finish(q, n)
    BY <1>5 DEF DeriveReady
  <2>3. OthersAlone /\ AloneHere
    BY <2>1, <2>2, <1>c, Records
  <2>4. ProtectedHere
    BY <1>b, <2>1, <2>2 DEF Told
  <2>5. QED
    BY <1>a, <2>3, <2>4
<1>6. CASE ensureFinalizersOnChildrenForCascade(q, n)
  <2>1. \A m \in Nodes : /\ content'[m].st = content[m].st /\ content'[m].data = content[m].data
                         /\ content[m].fin => content'[m].fin
    BY <1>0, <1>6 DEF ensureFinalizersOnChildrenForCascade, Content
  <2>2. vsc' = vsc /\ Goto(q, n, "flip") /\ pass[w].pc = "cascade"
    BY <1>6 DEF ensureFinalizersOnChildrenForCascade
  <2>3. OthersAlone
    BY <2>1, <2>2, <1>c
  <2>4. AloneHere
    BY <1>b, <2>1, <2>2
  <2>5. ProtectedHere
    BY <1>b, <2>1, <2>2 DEF Told
  <2>6. QED
    BY <1>a, <2>3, <2>4, <2>5
<1>7. CASE FlipToDelete(q, n)
  <2>1. /\ \A m \in Nodes : m # n => vsc'[m] = vsc[m]
        /\ vsc'[n].st = vsc[n].st
        /\ vsc'[n].policy = IF pass[w].ob.data /\ vsc[n].st \in {"live", "deleting"}
                            THEN "Delete" ELSE vsc[n].policy
    BY <1>0, <1>7 DEF FlipToDelete, Artifact
  <2>2. content' = content /\ Goto(q, n, "delete") /\ pass[w].pc = "flip"
    BY <1>7 DEF FlipToDelete
  <2>3. pass[w].ob.data => content[n].data /\ vsc[n].st \in {"live", "deleting", "gone"}
    BY <1>0, <1>b, <2>2 DEF HeldInv, Owned, Artifact
  <2>4. OthersAlone
    BY <2>1, <2>2, <1>c
  <2>5. AloneHere
    BY <1>b, <2>1, <2>2, <2>3 DEF Told
  <2>6. ProtectedHere
    BY <1>b, <2>1, <2>2 DEF Told
  <2>7. QED
    BY <1>a, <2>4, <2>5, <2>6
<1>8. CASE reclaimVolumeSnapshotContent(q, n)
  <2>1. /\ \A m \in Nodes : m # n => vsc'[m] = vsc[m]
        /\ vsc'[n].policy = vsc[n].policy
        /\ vsc'[n].st = IF pass[w].ob.data /\ vsc[n].st = "live" THEN "deleting" ELSE vsc[n].st
    BY <1>0, <1>8 DEF reclaimVolumeSnapshotContent, Artifact
  <2>2. content' = content /\ Goto(q, n, "release") /\ pass[w].pc = "delete"
    BY <1>8 DEF reclaimVolumeSnapshotContent
  <2>3. OthersAlone
    BY <2>1, <2>2, <1>c
  <2>4. AloneHere
    BY <1>b, <2>1, <2>2
  <2>5. ProtectedHere
    BY <1>b, <2>1, <2>2 DEF Told
  <2>6. QED
    BY <1>a, <2>3, <2>4, <2>5
<1>9. CASE Release(q, n)
  <2>1. /\ \A m \in Nodes : m # n => content'[m] = content[m]
        /\ content'[n] \in {NoContent, content[n]}
    BY <1>0, <1>9 DEF Release
  <2>2. vsc' = vsc /\ Finish(q, n)
    BY <1>9 DEF Release
  <2>3. OthersAlone /\ AloneHere
    BY <2>1, <2>2, <1>c, Records
  <2>4. ProtectedHere
    BY <1>b, <2>1, <2>2, Records DEF Told
  <2>5. QED
    BY <1>a, <2>3, <2>4
<1>10. QED
  BY <1>1, <1>2, <1>3, <1>4, <1>5, <1>6, <1>7, <1>8, <1>9 DEF ContentPass

\* Every step keeps it.
LEMMA HandlerStep ==
    ASSUME Queues = {"content"}, TypeOK, HeldInv, HandlerInv, [Next]_vars
    PROVE  HandlerInv'
<1> USE DEF rest
<1>0. /\ content \in [Nodes -> Content] /\ vsc \in [Nodes -> Artifact]
      /\ \A n \in Nodes : content[n].data \in BOOLEAN
  BY DEF TypeOK, Content
<1>a. ASSUME vsc' = vsc, content' = content, pass' = pass PROVE HandlerInv'
  BY <1>a, HandlerStays DEF Told
<1>1. ASSUME NEW n \in Nodes, Binder(n) PROVE HandlerInv'
  <2>1. CASE BinderCreate(n)
    <3>1. /\ content'[n] = IF content[n].st = "none" THEN NewContent ELSE content[n]
          /\ \A m \in Nodes : m # n => content'[m] = content[m]
      BY <1>0, <2>1 DEF BinderCreate
    <3>2. content[n].st = "none" => content[n].data = NewContent.data
      BY <1>0, Records DEF HeldInv, Owned, Content
    <3>3. vsc' = vsc /\ pass' = pass
      BY <2>1 DEF BinderCreate
    <3>4. QED
      BY <3>1, <3>2, <3>3, HandlerStays DEF Told
  <2>2. CASE BinderDeletion(n)
    <3>1. PICK b : content' = [content EXCEPT ![n].ownerGone = b]
      BY <2>2 DEF BinderDeletion
    <3>2. \A m \in Nodes : /\ content'[m].data = content[m].data /\ content'[m].st = content[m].st
                           /\ content'[m].fin = content[m].fin
      BY <1>0, <3>1 DEF Content
    <3>3. vsc' = vsc /\ pass' = pass
      BY <2>2 DEF BinderDeletion
    <3>4. QED
      BY <3>2, <3>3, HandlerStays DEF Told
  <2>3. QED
    BY <1>1, <1>a, <2>1, <2>2 DEF Binder, BinderStart, PatchUnstructuredBoundContentName,
                                  checkConsistencyAndSetReady
<1>2. ASSUME NEW n \in Nodes, NEW q \in Queues, ContentPass(q, n) PROVE HandlerInv'
  BY <1>2, HandlerPass
<1>3. ASSUME NEW n \in Nodes, Declare(n) \/ DeleteSnapshot(n) PROVE HandlerInv'
  BY <1>3, <1>a DEF Declare, DeleteSnapshot
<1>4. ASSUME NEW n \in Nodes, ExecutorCaptures(n) PROVE HandlerInv'
  <2>1. /\ mcp[n] = "none" /\ content' = content /\ pass' = pass
        /\ \A m \in Nodes : vsc'[m].policy = vsc[m].policy /\ (m # n => vsc'[m] = vsc[m])
    BY <1>0, <1>4 DEF ExecutorCaptures, Artifact
  <2>2. ~content[n].data
    BY <2>1 DEF HeldInv, MadeOnce, Owned
  <2>3. QED
    BY <2>1, <2>2, HandlerStays DEF Told
<1>5. ASSUME NEW n \in Nodes, content[n].st = "live", content' = [content EXCEPT ![n] = Deleted(@)],
             vsc' = vsc, pass' = pass
      PROVE  HandlerInv'
  <2>1. content'[n] = Deleted(content[n]) /\ \A m \in Nodes : m # n => content'[m] = content[m]
    BY <1>0, <1>5
  <2>2. CASE content[n].fin
    BY <1>0, <1>5, <2>1, <2>2, DeletedFacts, HandlerStays DEF Told
  <2>3. CASE ~content[n].fin
    <3>1. content[n].data = FALSE
      BY <1>0, <2>3 DEF HandlerInv, Protected
    <3>2. content'[n].data = FALSE
      BY <1>0, <2>1, <2>3, DeletedFacts, Records DEF Content
    <3>3. QED
      BY <1>5, <2>1, <2>3, <3>1, <3>2, HandlerStays DEF Told
  <2>4. QED
    BY <2>2, <2>3
<1>6. ASSUME NEW n \in Nodes, CollectContent(n) PROVE HandlerInv'
  BY <1>5, <1>6 DEF CollectContent
<1>7. CASE reconcileDelete
  BY <1>5, <1>7, <1>a, TeardownAssumption DEF reconcileDelete
<1>8. ASSUME NEW n \in Nodes, CollectArtifacts(n) PROVE HandlerInv'
  <2>1. content' = content /\ pass' = pass
    BY <1>8 DEF CollectArtifacts
  <2>2. CASE vsc' = vsc
    BY <1>a, <2>1, <2>2
  <2>3. CASE vsc' # vsc
    <3>1. /\ vsc[n].st = "live" /\ (vsc[n].owned => content[n].st = "none")
          /\ \E b : vsc' = [vsc EXCEPT ![n].st = "deleting", ![n].stamped = b]
      BY <1>8, <2>3 DEF CollectArtifacts
    <3>2. \A m \in Nodes : vsc'[m].policy = vsc[m].policy /\ (m # n => vsc'[m] = vsc[m])
      <4>1. PICK b : vsc' = [vsc EXCEPT ![n].st = "deleting", ![n].stamped = b]
        BY <3>1
      <4>2. QED
        BY <1>0, <4>1 DEF Artifact
    <3>3. ~content[n].data
      BY <3>1 DEF HeldInv, Owned
    <3>4. QED
      BY <2>1, <3>2, <3>3, HandlerStays DEF Told
  <2>4. QED
    BY <2>2, <2>3
<1>9. ASSUME NEW n \in Nodes, SidecarDeletes(n) PROVE HandlerInv'
  <2>1. /\ vsc[n].st = "deleting" /\ content' = content /\ pass' = pass
        /\ \A m \in Nodes : vsc'[m].policy = vsc[m].policy /\ (m # n => vsc'[m] = vsc[m])
    BY <1>0, <1>9 DEF SidecarDeletes, Artifact
  <2>2. QED
    BY <2>1, HandlerStays DEF Told
<1>10. CASE KeeperExpires
  BY <1>10, <1>a DEF KeeperExpires
<1>11. CASE Abort
  <2>1. vsc' = vsc /\ content' = content
    BY <1>11 DEF Abort, api
  <2>2. \A p \in Queues, m \in Nodes : pass'[<<p, m>>] \in {pass[<<p, m>>], NoPass}
    BY <1>11 DEF Abort, TypeOK
  <2>3. QED
    BY <2>1, <2>2, Records, HandlerStays DEF Told
<1>12. CASE Restore
  BY <1>12, <1>a, ReaderSteps DEF api
<1>13. CASE UNCHANGED vars
  BY <1>13, <1>a DEF vars
<1>14. QED
  BY <1>1, <1>2, <1>3, <1>4, <1>6, <1>7, <1>8, <1>9, <1>10, <1>11, <1>12, <1>13
     DEF Next, Environment

\* No content with data disappears before its artifact has been told to go and to
\* take the snapshot on the storage with it, when one queue reconciles contents:
\* the deletion handler is not skipped by a finalizer that was never put, nor by a
\* pass that read the content before its data was published.
THEOREM HandlerRuns ==
    ASSUME Queues = {"content"}
    PROVE  Spec => HandlerIsNotSkipped
<1> DEFINE Inv == TypeOK /\ HeldInv /\ HandlerInv
           NotSkipped == \A n \in Nodes :
               content[n].st # "none" /\ content[n].data /\ content'[n].st = "none"
                 => vsc'[n].st \in {"deleting", "gone"} /\ vsc'[n].policy = "Delete"
<1>1. Init => Inv
  BY TypeInit, HeldInit, HandlerInit
<1>2. Inv /\ [Next]_vars => Inv'
  BY TypeStep, HeldStep, HandlerStep
<1>3. ASSUME Inv, [Next]_vars PROVE [NotSkipped]_vars
  <2>1. SUFFICES ASSUME NEW n \in Nodes, content[n].st # "none", content[n].data,
                        content'[n].st = "none"
                 PROVE  vsc'[n].st \in {"deleting", "gone"} /\ vsc'[n].policy = "Delete"
    OBVIOUS
  <2>2. /\ content \in [Nodes -> Content] /\ content[n] \in Content /\ content[n].fin
        /\ content' # content
    BY <1>3, <2>1 DEF TypeOK, HandlerInv, Protected
  <2> USE DEF rest
  <2>3. ASSUME NEW m \in Nodes, NEW q \in Queues, ContentPass(q, m)
        PROVE  vsc'[n].st \in {"deleting", "gone"} /\ vsc'[n].policy = "Delete"
    <3>1. CASE Release(q, m)
      <4>1. /\ m = n /\ vsc' = vsc /\ pass[<<q, n>>].pc = "release"
            /\ content[n] = pass[<<q, n>>].ob
        BY <2>1, <2>2, <3>1 DEF Release
      <4>2. QED
        BY <1>3, <2>1, <4>1 DEF HeldInv, HarmlessTeardown, HandlerInv, PassIsAlone, Teardown, Told
    <3>2. CASE DeriveReady(q, m)
      <4>1. PICK b : content' = [content EXCEPT ![m].ready = b]
        BY <3>2 DEF DeriveReady
      <4>2. QED
        BY <2>1, <2>2, <4>1 DEF Content
    <3>3. CASE PublishSnapshotContentDataRef(q, m)
      <4>1. PICK b : content' = [content EXCEPT ![m].data = b]
        BY <3>3 DEF PublishSnapshotContentDataRef
      <4>2. QED
        BY <2>1, <2>2, <4>1 DEF Content
    <3>4. CASE Begin(q, m) \/ Project(q, m) \/ ensureFinalizersOnChildrenForCascade(q, m)
      BY <2>1, <2>2, <3>4 DEF Begin, Project, ensureFinalizersOnChildrenForCascade, Content
    <3>5. QED
      BY <2>2, <2>3, <3>1, <3>2, <3>3, <3>4 DEF ContentPass, selfHealDataArtifactOwnerRefs,
           FlipToDelete, reclaimVolumeSnapshotContent
  <2>4. ASSUME NEW m \in Nodes, Binder(m) PROVE FALSE
    <3>1. CASE BinderCreate(m)
      BY <2>1, <2>2, <3>1, Records DEF BinderCreate
    <3>2. CASE BinderDeletion(m)
      <4>1. PICK b : content' = [content EXCEPT ![m].ownerGone = b]
        BY <3>2 DEF BinderDeletion
      <4>2. QED
        BY <2>1, <2>2, <4>1 DEF Content
    <3>3. QED
      BY <2>2, <2>4, <3>1, <3>2 DEF Binder, BinderStart, PatchUnstructuredBoundContentName,
                                    checkConsistencyAndSetReady
  <2>5. ASSUME NEW m \in Nodes, content' = [content EXCEPT ![m] = Deleted(@)] PROVE FALSE
    BY <2>1, <2>2, <2>5, DeletedFacts
  <2>6. QED
    BY <1>3, <2>2, <2>3, <2>4, <2>5, TeardownAssumption DEF Next, Environment, CollectContent,
       CollectArtifacts, SidecarDeletes, Declare, DeleteSnapshot, ExecutorCaptures,
       reconcileDelete, KeeperExpires, Abort, Restore, StartRestore, ReadSnapshot, ReadContent,
       LoadManifests, Answer, ReaderMoves, Fail, api, vars
<1>4. Inv /\ [Next]_vars => [NotSkipped]_vars
  BY <1>3
<1>5. QED
  BY <1>1, <1>2, <1>4, PTL DEF Spec, HandlerIsNotSkipped
=============================================================================
