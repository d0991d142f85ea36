--------------------------- MODULE ContentTeardown ---------------------------
(***************************************************************************)
(* The life of a content tree from its binding to its removal, and the     *)
(* restore requests that read it meanwhile.                                *)
(*                                                                         *)
(* A SnapshotContent outlives its snapshot: the root content hangs on an   *)
(* ObjectKeeper that follows the root snapshot with a TTL, a child content *)
(* on its parent's content.  Its volume artifact (VSC) is pinned to Retain *)
(* while the content lives; the content's own deletion handler flips it to *)
(* Delete, stamps it, deletes it and only then lets the content go.  phys  *)
(* is the snapshot on the storage behind the VSC.                          *)
(*                                                                         *)
(* Four controllers take part: the binder (bind), the SnapshotContent      *)
(* controller (pass, one per work queue and content), the namespace        *)
(* snapshot controller and the restore API (reader).  A pass works on the  *)
(* content it read when it began (ob).  Readiness is reduced to what the   *)
(* restore walk asks for; ContentTree is the full account of it.           *)
(***************************************************************************)
EXTENDS Naturals, FiniteSets

CONSTANTS Nodes, Root,
          Kids,       \* Kids[n]: the children the domain of n declares
          DataNodes,  \* nodes with a volume
          VolumeLeaves, \* those that are VolumeSnapshots, not domain snapshots
          Queues,     \* the work queues that reconcile contents
          Workers,    \* bound: reconciles of contents that run at a time
          Policies,   \* deletion policies a root content may have: "Retain"
                      \* (capture), "Delete" (import)
          MaxAborts,  \* bound: passes cut short by an error or a restart
          MaxReads    \* bound: restore requests

ASSUME TeardownAssumption ==
    /\ IsFiniteSet(Nodes)
    /\ Root \in Nodes
    /\ Kids \in [Nodes -> SUBSET (Nodes \ {Root})]
    /\ \A m, n \in Nodes : m # n => Kids[m] \cap Kids[n] = {}
    \* Every node is below the root.
    /\ \A S \in SUBSET Nodes : Root \in S /\ (\A n \in S : Kids[n] \subseteq S) => S = Nodes
    /\ DataNodes \subseteq Nodes
    /\ VolumeLeaves \subseteq {n \in DataNodes : Kids[n] = {}}
    /\ Queues \in {{"content"}, {"content", "snapshot"}}
    /\ Policies \subseteq {"Retain", "Delete"}
    /\ {Workers, MaxAborts, MaxReads} \subseteq Nat

Snapshot ==
    [st : {"live", "deleting", "gone"},
     bound : BOOLEAN,           \* boundSnapshotContentName
     declared : SUBSET Nodes,   \* childrenSnapshotRefs
     planned : BOOLEAN,         \* the child set is closed
     ready : BOOLEAN]
Content ==
    [st : {"none", "live", "deleting"},
     fin : BOOLEAN,             \* parent-protect
     named : BOOLEAN,           \* manifestCheckpointName
     data : BOOLEAN,            \* status.data
     edges : SUBSET Nodes,      \* childrenSnapshotContentRefs
     ready : BOOLEAN,
     ownerGone : BOOLEAN]       \* boundSnapshotDeleted
Artifact ==
    [st : {"none", "live", "deleting", "gone"},
     policy : {"Retain", "Delete"},
     stamped : BOOLEAN,         \* volumesnapshot-being-deleted
     owned : BOOLEAN]           \* ownerRef of the content
Pass ==
    [pc : {"idle", "project", "publish", "heal", "derive",
           "cascade", "flip", "delete", "release"},
     ob : Content]
Reader ==
    [pc : {"idle", "walk", "load", "done"},
     cur : SUBSET Nodes,        \* the node whose content is to be read next
     todo : SUBSET Nodes, tree : SUBSET Nodes, got : SUBSET Nodes]

VARIABLES
    policy,   \* spec.deletionPolicy of the root content
    snap, keeper, content,
    mcp,      \* ManifestCheckpoint: of the request, or owned by the content
    vsc, phys,
    bind,     \* the binder's pass over each snapshot
    pass, reader,
    aborts, reads

vars == <<policy, snap, keeper, content, mcp, vsc, phys, bind, pass, reader,
          aborts, reads>>
api == <<snap, keeper, content, mcp, vsc, phys>>
rest == <<policy, bind, reader, aborts, reads>>

NoContent ==
    [st |-> "none", fin |-> FALSE, named |-> FALSE, data |-> FALSE,
     edges |-> {}, ready |-> FALSE, ownerGone |-> FALSE]
NewContent == [NoContent EXCEPT !.st = "live"]
NoPass == [pc |-> "idle", ob |-> NoContent]
NoReader == [pc |-> "idle", cur |-> {}, todo |-> {}, tree |-> {}, got |-> {}]

TypeOK ==
    /\ policy \in {"Retain", "Delete"}
    /\ snap \in [Nodes -> Snapshot]
    /\ keeper \in {"none", "held", "gone"}
    /\ content \in [Nodes -> Content]
    /\ mcp \in [Nodes -> {"none", "request", "content", "gone"}]
    /\ vsc \in [Nodes -> Artifact]
    /\ phys \in [Nodes -> {"none", "held", "reclaimed", "orphaned"}]
    /\ bind \in [Nodes -> {"idle", "create", "bind"}]
    /\ pass \in [Queues \X Nodes -> Pass]
    /\ reader \in Reader
    /\ aborts \in 0..MaxAborts
    /\ reads \in 0..MaxReads

\* The snapshots exist; nothing has been done for them yet.
Init ==
    /\ policy \in Policies
    /\ snap = [n \in Nodes |->
                 [st |-> "live", bound |-> FALSE, declared |-> {},
                  planned |-> Kids[n] = {}, ready |-> FALSE]]
    /\ keeper = "none"
    /\ content = [n \in Nodes |-> NoContent]
    /\ mcp = [n \in Nodes |-> "none"]
    /\ vsc = [n \in Nodes |-> [st |-> "none", policy |-> "Delete",
                               stamped |-> FALSE, owned |-> FALSE]]
    /\ phys = [n \in Nodes |-> "none"]
    /\ bind = [n \in Nodes |-> "idle"]
    /\ pass = [w \in Queues \X Nodes |-> NoPass]
    /\ reader = NoReader
    /\ aborts = 0
    /\ reads = 0

Parents(n) == {m \in Nodes : n \in Kids[m]}
Exists(n) == snap[n].st # "gone"

\* What the API server does with a Delete of an object with these finalizers.
Deleted(c) == IF c.fin THEN [c EXCEPT !.st = "deleting"] ELSE NoContent

-----------------------------------------------------------------------------
(* The binder. *)

IsRoot(n) == n = Root

EnsureRootObjectKeeperWithTTL == keeper' = IF keeper = "none" THEN "held" ELSE keeper

\* The bound content of the parent; a parent without one is waited for.
ResolveParentSnapshotContentOwnerRef(n) ==
    \A m \in Parents(n) :
        /\ Exists(m) /\ n \in snap[m].declared
        /\ snap[m].bound /\ content[m].st # "none"

LifecycleOwner(n) ==
    IF IsRoot(n) THEN EnsureRootObjectKeeperWithTTL
    ELSE ResolveParentSnapshotContentOwnerRef(n) /\ UNCHANGED keeper

BinderStart(n) ==
    /\ bind[n] = "idle"
    /\ snap[n].st = "live" /\ ~snap[n].bound
    /\ LifecycleOwner(n)
    /\ bind' = [bind EXCEPT ![n] = "create"]
    /\ UNCHANGED <<policy, snap, content, mcp, vsc, phys, pass, reader, aborts, reads>>

\* A content that is already there under the snapshot's deterministic name is
\* its own, left by an earlier pass: it is adopted.
BinderCreate(n) ==
    /\ bind[n] = "create"
    /\ content' = [content EXCEPT ![n] = IF @.st = "none" THEN NewContent ELSE @]
    /\ bind' = [bind EXCEPT ![n] = "bind"]
    /\ UNCHANGED <<policy, snap, keeper, mcp, vsc, phys, pass, reader, aborts, reads>>

PatchUnstructuredBoundContentName(n) ==
    /\ bind[n] = "bind"
    /\ snap' = [snap EXCEPT ![n].bound = @ \/ Exists(n)]
    /\ bind' = [bind EXCEPT ![n] = "idle"]
    /\ UNCHANGED <<policy, keeper, content, mcp, vsc, phys, pass, reader, aborts, reads>>

\* The binder sees the deletion of a snapshot a finalizer still holds: it
\* reports it and latches boundSnapshotDeleted on the content.
BinderDeletion(n) ==
    /\ snap[n].st = "deleting"
    /\ snap[n].ready \/ (content[n].st # "none" /\ ~content[n].ownerGone)
    /\ snap' = [snap EXCEPT ![n].ready = FALSE]
    /\ content' = [content EXCEPT ![n].ownerGone = @ \/ content[n].st # "none"]
    /\ UNCHANGED <<keeper, mcp, vsc, phys, pass, rest>>

\* Ready=False over a bound content that is missing or on its way out.
checkConsistencyAndSetReady(n) ==
    /\ snap[n].st = "live" /\ snap[n].bound /\ snap[n].ready
    /\ content[n].st # "live"
    /\ snap' = [snap EXCEPT ![n].ready = FALSE]
    /\ UNCHANGED <<keeper, content, mcp, vsc, phys, pass, rest>>

Binder(n) ==
    \/ BinderStart(n) \/ BinderCreate(n) \/ PatchUnstructuredBoundContentName(n)
    \/ BinderDeletion(n) \/ checkConsistencyAndSetReady(n)

-----------------------------------------------------------------------------
(* The namespace snapshot controller, and the domains.  The controller puts  *)
(* its finalizer on the root snapshot before anything else is done for it.   *)

\* A Delete content goes before its snapshot does; a Retain content stays
\* with the keeper.
reconcileDelete ==
    /\ snap[Root].st = "deleting"
    /\ IF snap[Root].bound /\ content[Root].st # "none" /\ policy = "Delete"
       THEN /\ content[Root].st = "live"
            /\ content' = [content EXCEPT ![Root] = Deleted(@)]
            /\ UNCHANGED <<snap, mcp>>
       ELSE /\ snap' = [snap EXCEPT ![Root].st = "gone"]
            /\ mcp' = [mcp EXCEPT ![Root] =
                  IF policy = "Delete" /\ ~snap[Root].bound /\ @ = "request"
                  THEN "gone" ELSE @]
            /\ UNCHANGED content
    /\ UNCHANGED <<keeper, vsc, phys, pass, rest>>

\* Children are declared one by one; the last one closes the set.
Declare(n) ==
    /\ snap[n].st = "live" /\ ~snap[n].planned
    /\ \E c \in Kids[n] \ snap[n].declared :
          snap' = [snap EXCEPT ![n].declared = @ \cup {c},
                               ![n].planned = (Kids[n] = snap[n].declared \cup {c})]
    /\ UNCHANGED <<keeper, content, mcp, vsc, phys, pass, rest>>

-----------------------------------------------------------------------------
(* The SnapshotContent controller: one pass over content n from queue q. *)

Goto(q, n, pc) == pass' = [pass EXCEPT ![<<q, n>>].pc = pc]
Finish(q, n) == pass' = [pass EXCEPT ![<<q, n>>] = NoPass]

\* parent-protect comes first; a content without an owner is left alone.
Begin(q, n) ==
    LET c == content[n] IN
    /\ pass[<<q, n>>].pc = "idle"
    /\ Cardinality({w \in Queues \X Nodes : pass[w].pc # "idle"}) < Workers
    /\ \/ /\ c.st = "live" /\ ~c.fin
          /\ content' = [content EXCEPT ![n].fin = TRUE]
          /\ UNCHANGED pass
       \/ /\ c.st = "live" /\ c.fin /\ ~c.ownerGone /\ ~Exists(n)
          /\ content' = [content EXCEPT ![n].ownerGone = TRUE]
          /\ UNCHANGED pass
       \/ /\ c.st = "live" /\ c.fin /\ ~c.ownerGone /\ Exists(n)
          /\ pass' = [pass EXCEPT ![<<q, n>>] = [pc |-> "project", ob |-> c]]
          /\ UNCHANGED content
       \/ /\ c.st = "deleting"
          /\ pass' = [pass EXCEPT ![<<q, n>>] = [pc |-> "cascade", ob |-> c]]
          /\ UNCHANGED content
    /\ UNCHANGED <<snap, keeper, mcp, vsc, phys, rest>>

\* The handoff of a live artifact: owned by the content and pinned.
Pinned(a) == [a EXCEPT !.owned = TRUE, !.policy = "Retain"]

\* Edges, checkpoint (with its handoff) and the handoff of the VSC.
Project(q, n) ==
    /\ pass[<<q, n>>].pc = "project"
    /\ content' = [content EXCEPT
          ![n].edges = IF /\ content[n].st # "none" /\ snap[n].planned
                          /\ \A c \in snap[n].declared : Exists(c) /\ snap[c].bound
                       THEN snap[n].declared ELSE @,
          ![n].named = @ \/ (content[n].st # "none" /\ mcp[n] = "request")]
    /\ mcp' = [mcp EXCEPT ![n] = IF @ = "request" THEN "content" ELSE @]
    /\ vsc' = [vsc EXCEPT ![n] = IF @.st = "live" THEN Pinned(@) ELSE @]
    /\ Goto(q, n, "publish")
    /\ UNCHANGED <<snap, keeper, phys, rest>>

\* Mutant: published whether the handoff was made or not.
PublishUnowned(q, n) ==
    /\ pass[<<q, n>>].pc = "publish"
    /\ content' = [content EXCEPT
          ![n].data = @ \/ (content[n].st # "none" /\ vsc[n].st = "live")]
    /\ Goto(q, n, "heal")
    /\ UNCHANGED <<snap, keeper, mcp, vsc, phys, rest>>

PublishSnapshotContentDataRef(q, n) ==
    /\ pass[<<q, n>>].pc = "publish"
    /\ content' = [content EXCEPT
          ![n].data = @ \/ (content[n].st # "none" /\ vsc[n].st = "live" /\ vsc[n].owned)]
    /\ Goto(q, n, "heal")
    /\ UNCHANGED <<snap, keeper, mcp, vsc, phys, rest>>

\* Drifted ownership or policy of a published artifact is repaired, unless
\* the artifact is being deleted.
selfHealDataArtifactOwnerRefs(q, n) ==
    /\ pass[<<q, n>>].pc = "heal"
    /\ vsc' = [vsc EXCEPT ![n] =
          IF pass[<<q, n>>].ob.data /\ @.st = "live" THEN Pinned(@) ELSE @]
    /\ Goto(q, n, "derive")
    /\ UNCHANGED <<snap, keeper, content, mcp, phys, rest>>

\* Mutant: Ready as soon as what has been declared so far is linked.
ReadyBeforePlanned(q, n) ==
    LET ob == pass[<<q, n>>].ob
        ok == /\ content[n].st = "live"
              /\ ob.named /\ (n \in DataNodes => ob.data)
              /\ \A c \in ob.edges : content[c].ready IN
    /\ pass[<<q, n>>].pc = "derive"
    /\ content' = [content EXCEPT ![n].ready = @ \/ ok]
    /\ snap' = [snap EXCEPT ![n].ready = @ \/ (ok /\ Exists(n) /\ ~content[n].ownerGone)]
    /\ Finish(q, n)
    /\ UNCHANGED <<keeper, mcp, vsc, phys, rest>>

\* Ready of the content, and its mirror on the owner.
DeriveReady(q, n) ==
    LET ob == pass[<<q, n>>].ob
        ok == /\ content[n].st = "live" /\ snap[n].planned
              /\ ob.named /\ (n \in DataNodes => ob.data)
              /\ ob.edges = snap[n].declared
              /\ \A c \in ob.edges : content[c].ready IN
    /\ pass[<<q, n>>].pc = "derive"
    /\ content' = [content EXCEPT ![n].ready = @ \/ ok]
    /\ snap' = [snap EXCEPT ![n].ready = @ \/ (ok /\ Exists(n) /\ ~content[n].ownerGone)]
    /\ Finish(q, n)
    /\ UNCHANGED <<keeper, mcp, vsc, phys, rest>>

ensureFinalizersOnChildrenForCascade(q, n) ==
    /\ pass[<<q, n>>].pc = "cascade"
    /\ content' = [c \in Nodes |->
          IF c \in pass[<<q, n>>].ob.edges /\ content[c].st = "live"
          THEN [content[c] EXCEPT !.fin = TRUE] ELSE content[c]]
    /\ Goto(q, n, "flip")
    /\ UNCHANGED <<snap, keeper, mcp, vsc, phys, rest>>

\* Mutant: an artifact that has its policy is not looked at for its stamp.
FlipWithoutStamp(q, n) ==
    /\ pass[<<q, n>>].pc = "flip"
    /\ vsc' = [vsc EXCEPT ![n] =
          IF pass[<<q, n>>].ob.data /\ @.st \in {"live", "deleting"}
          THEN [@ EXCEPT !.policy = "Delete"] ELSE @]
    /\ Goto(q, n, "delete")
    /\ UNCHANGED <<snap, keeper, content, mcp, phys, rest>>

\* Reclaim, first call: policy and stamp.
FlipToDelete(q, n) ==
    /\ pass[<<q, n>>].pc = "flip"
    /\ vsc' = [vsc EXCEPT ![n] =
          IF pass[<<q, n>>].ob.data /\ @.st \in {"live", "deleting"}
          THEN [@ EXCEPT !.policy = "Delete", !.stamped = TRUE] ELSE @]
    /\ Goto(q, n, "delete")
    /\ UNCHANGED <<snap, keeper, content, mcp, phys, rest>>

\* Mutant: a failing delete is not waited for.
DeleteMaybe(q, n) ==
    /\ pass[<<q, n>>].pc = "delete"
    /\ \/ vsc' = [vsc EXCEPT ![n].st =
             IF pass[<<q, n>>].ob.data /\ @ = "live" THEN "deleting" ELSE @]
       \/ UNCHANGED vsc
    /\ Goto(q, n, "release")
    /\ UNCHANGED <<snap, keeper, content, mcp, phys, rest>>

\* Reclaim, second call: the Delete.
reclaimVolumeSnapshotContent(q, n) ==
    /\ pass[<<q, n>>].pc = "delete"
    /\ vsc' = [vsc EXCEPT ![n].st =
          IF pass[<<q, n>>].ob.data /\ @ = "live" THEN "deleting" ELSE @]
    /\ Goto(q, n, "release")
    /\ UNCHANGED <<snap, keeper, content, mcp, phys, rest>>

\* The finalizer goes by an Update of the copy the pass read: a content that
\* changed meanwhile refuses it, and the pass is repeated.
Release(q, n) ==
    /\ pass[<<q, n>>].pc = "release"
    /\ content' = [content EXCEPT ![n] =
          IF content[n] = pass[<<q, n>>].ob THEN NoContent ELSE @]
    /\ Finish(q, n)
    /\ UNCHANGED <<snap, keeper, mcp, vsc, phys, rest>>

\* An error of a call, or a restart of the process, at any point.
Abort ==
    /\ aborts < MaxAborts
    /\ aborts' = aborts + 1
    /\ \/ \E w \in Queues \X Nodes :
             /\ pass[w].pc # "idle"
             /\ pass' = [pass EXCEPT ![w] = NoPass]
             /\ UNCHANGED bind
       \/ /\ bind' = [n \in Nodes |-> "idle"]
          /\ pass' = [w \in Queues \X Nodes |-> NoPass]
    /\ UNCHANGED <<policy, api, reader, reads>>

ContentPass(q, n) ==
    \/ Begin(q, n) \/ Project(q, n) \/ PublishSnapshotContentDataRef(q, n)
    \/ selfHealDataArtifactOwnerRefs(q, n) \/ DeriveReady(q, n)
    \/ ensureFinalizersOnChildrenForCascade(q, n) \/ FlipToDelete(q, n)
    \/ reclaimVolumeSnapshotContent(q, n) \/ Release(q, n)

-----------------------------------------------------------------------------
(* The restore API: resolve the run tree, then load every checkpoint. *)

ensureSnapshotReady(n) == Exists(n) /\ snap[n].ready

\* A VolumeSnapshot is asked for readyToUse and its VSC, which its status keeps
\* once it has them, not for Ready.
resolveVolumeSnapshotLeaf(n) == snap[n].st = "live" /\ vsc[n].st # "none"

\* The checkpoint is there and Ready: every chunk is read and verified.
GetArchiveFromCheckpoint(n) == mcp[n] \in {"request", "content"}

ReaderMoves(new) == reader' = new /\ UNCHANGED <<policy, api, bind, pass, aborts, reads>>
Fail == ReaderMoves(NoReader)

StartRestore ==
    /\ reads < MaxReads
    /\ reader.pc = "idle"
    /\ reads' = reads + 1
    /\ reader' = [NoReader EXCEPT !.pc = "walk", !.todo = {Root}]
    /\ UNCHANGED <<policy, api, bind, pass, aborts>>

\* The snapshot of the next node: present, ready and bound.  Its children are
\* taken from this reading.
ReadSnapshot ==
    /\ reader.pc = "walk" /\ reader.cur = {}
    /\ \E n \in reader.todo :
          IF /\ IF n \in VolumeLeaves THEN resolveVolumeSnapshotLeaf(n)
                ELSE ensureSnapshotReady(n)
             /\ snap[n].bound /\ n \notin reader.tree
          THEN ReaderMoves([reader EXCEPT !.cur = {n},
                              !.todo = (@ \ {n}) \cup snap[n].declared])
          ELSE Fail

\* Its content: present, Ready and with a checkpoint.
ReadContent ==
    /\ reader.pc = "walk"
    /\ \E n \in reader.cur :
          IF content[n].st # "none" /\ content[n].ready /\ content[n].named
          THEN ReaderMoves([reader EXCEPT !.cur = {}, !.tree = @ \cup {n},
                              !.pc = IF reader.todo = {} THEN "load" ELSE "walk"])
          ELSE Fail

LoadManifests ==
    /\ reader.pc = "load"
    /\ \E n \in reader.tree \ reader.got :
          IF GetArchiveFromCheckpoint(n)
          THEN ReaderMoves([reader EXCEPT !.got = @ \cup {n},
                              !.pc = IF reader.got \cup {n} = reader.tree
                                     THEN "done" ELSE "load"])
          ELSE Fail

Answer == reader.pc = "done" /\ ReaderMoves(NoReader)

Restore == StartRestore \/ ReadSnapshot \/ ReadContent \/ LoadManifests \/ Answer

-----------------------------------------------------------------------------
(* Outside: users, executors, the CSI side, the ObjectKeeper, the collector. *)

\* Only the root snapshot has a finalizer.
DeleteSnapshot(n) ==
    /\ snap[n].st = "live"
    /\ snap' = [snap EXCEPT ![n].st = IF n = Root THEN "deleting" ELSE "gone"]
    /\ UNCHANGED <<keeper, content, mcp, vsc, phys, pass, rest>>

CollectSnapshot(n) ==
    /\ n # Root /\ \A m \in Parents(n) : ~Exists(m)
    /\ DeleteSnapshot(n)

\* The requests of a node are done; which one is first plays no role here.
ExecutorCaptures(n) ==
    /\ snap[n].st = "live" /\ mcp[n] = "none"
    /\ mcp' = [mcp EXCEPT ![n] = "request"]
    /\ vsc' = [vsc EXCEPT ![n].st = IF n \in DataNodes THEN "live" ELSE @]
    /\ phys' = [phys EXCEPT ![n] = IF n \in DataNodes THEN "held" ELSE @]
    /\ UNCHANGED <<snap, keeper, content, pass, rest>>

\* A keeper expires some time after the snapshot it follows is gone.
KeeperExpires ==
    /\ keeper = "held" /\ ~Exists(Root)
    /\ keeper' = "gone"
    /\ UNCHANGED <<snap, content, mcp, vsc, phys, pass, rest>>

CollectContent(n) ==
    /\ content[n].st = "live"
    /\ IF n = Root THEN keeper = "gone" ELSE \A m \in Parents(n) : content[m].st = "none"
    /\ content' = [content EXCEPT ![n] = Deleted(@)]
    /\ UNCHANGED <<snap, keeper, mcp, vsc, phys, pass, rest>>

\* What belongs to a request goes with the snapshot, what belongs to a
\* content with the content (an imported artifact once its other owner, the
\* keeper of the DataImport, is gone as well).
CollectArtifacts(n) ==
    /\ \/ /\ \/ mcp[n] = "request" /\ ~Exists(n)
             \/ mcp[n] = "content" /\ content[n].st = "none"
          /\ mcp' = [mcp EXCEPT ![n] = "gone"]
          /\ UNCHANGED vsc
       \/ /\ vsc[n].st = "live"
          /\ IF vsc[n].owned THEN content[n].st = "none" ELSE ~Exists(n)
          /\ vsc' = [vsc EXCEPT ![n].st = "deleting",
                                ![n].stamped = @ \/ ~vsc[n].owned]
          /\ UNCHANGED mcp
    /\ UNCHANGED <<snap, keeper, content, phys, pass, rest>>

\* The CSI sidecar finishes a deletion by its policy; a Delete without the
\* stamp is not acted on.
SidecarDeletes(n) ==
    /\ vsc[n].st = "deleting"
    /\ vsc[n].policy = "Delete" => vsc[n].stamped
    /\ vsc' = [vsc EXCEPT ![n].st = "gone"]
    /\ phys' = [phys EXCEPT ![n] =
          IF vsc[n].policy = "Delete" THEN "reclaimed" ELSE "orphaned"]
    /\ UNCHANGED <<snap, keeper, content, mcp, pass, rest>>

Environment(n) ==
    \/ CollectContent(n) \/ CollectArtifacts(n) \/ SidecarDeletes(n)

Next ==
    \/ \E n \in Nodes :
          \/ Binder(n) \/ Declare(n) \/ Environment(n)
          \/ DeleteSnapshot(n) \/ ExecutorCaptures(n)
          \/ \E q \in Queues : ContentPass(q, n)
    \/ reconcileDelete \/ KeeperExpires
    \/ Abort \/ Restore

Spec == Init /\ [][Next]_vars

\* Every controller retries what it did not finish; the garbage collector and
\* the sidecar do their work; nobody has to delete, declare or read anything.
Fairness ==
    /\ WF_vars(reconcileDelete)
    /\ WF_vars(KeeperExpires)
    /\ \A n \in Nodes :
          /\ WF_vars(CollectContent(n))
          /\ WF_vars(CollectArtifacts(n))
          /\ WF_vars(SidecarDeletes(n))
          /\ WF_vars(CollectSnapshot(n))
          /\ WF_vars(BinderCreate(n))
          /\ WF_vars(PatchUnstructuredBoundContentName(n))
          /\ \A q \in Queues : SF_vars(ContentPass(q, n))

FairSpec == Spec /\ Fairness

-----------------------------------------------------------------------------
\* The data of a live content is there: as long as a content that publishes a
\* volume artifact is not being deleted, neither the deletion of the snapshot
\* and its requests nor a teardown elsewhere in the tree takes the snapshot on
\* the storage away (EnsureVolumeSnapshotContentsOwnedByContent).
LiveDataIsHeld ==
    \A n \in Nodes : content[n].st = "live" /\ content[n].data =>
        vsc[n].st = "live" /\ phys[n] = "held"

\* No content with data disappears before its artifact has been told to go and
\* to take the snapshot on the storage with it: not past the deletion handler,
\* not by a collector that finds no finalizer, not by a pass that read the
\* content before the data was published.
HandlerIsNotSkipped ==
    [][\A n \in Nodes : content[n].st # "none" /\ content[n].data /\ content'[n].st = "none"
          => vsc'[n].st \in {"deleting", "gone"} /\ vsc'[n].policy = "Delete"]_vars

\* A finished restore answer is whole: it has the manifests of every
\* descendant of the root, although the tree is captured, degraded and torn
\* down while it is being read ("It fails closed", ResolveRestoreTree).
RestoreIsWhole ==
    reader.pc = "done" => reader.got = Nodes

\* Nothing of a tree remains once its root snapshot is gone: the keeper
\* expires, every content runs its handler, and the artifacts go with them.
TreeGoes ==
    ~Exists(Root) ~>
        /\ keeper # "held"
        /\ \A n \in Nodes :
              content[n].st = "none" /\ mcp[n] \in {"none", "gone"}
                 /\ vsc[n].st \in {"none", "gone"}
=============================================================================
