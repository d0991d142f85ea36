----------------------------- MODULE ImportLeaf -----------------------------
(***************************************************************************)
(* The import of one data leaf of a snapshot tree.                         *)
(*                                                                         *)
(* Nothing is captured: the manifests are uploaded into a reconstructed    *)
(* ManifestCheckpoint (mcp, one chunk), the volume comes from a DataImport *)
(* that names the leaf, produces a VolumeSnapshotContent (vsc) and is      *)
(* removed by its idle TTL some time later.  What only the DataImport      *)
(* knows (meta) and what the driver reports late (size) has to reach the   *)
(* content before, and the leaf from there.                                *)
(*                                                                         *)
(* Three controllers write the leaf and the content: the binder ("binder", *)
(* every leaf), the VolumeSnapshot import controller ("vsimport", native   *)
(* leaves only) and the SnapshotContent controller, one pass per queue.    *)
(* Nobody watches DataImports: awake holds the parties an event or a       *)
(* polling interval makes run again.                                       *)
(***************************************************************************)
EXTENDS Naturals, FiniteSets

CONSTANTS Kinds,       \* kinds of leaf: "domain", "native" (VolumeSnapshot)
          Imports,     \* DataImports a user may create for the leaf
          Artifacts,   \* what a DataImport may produce: "vsc", "pv"
          Queues,      \* work queues of the SnapshotContent controller
          Uploads,     \* uploads of the manifests that may run at a time
          Payloads,    \* what they may carry
          MaxAborts    \* bound: passes and uploads that stop half way

ASSUME ImportAssumption ==
    /\ Kinds \subseteq {"domain", "native"}
    /\ Imports \subseteq Nat \ {0} /\ IsFiniteSet(Imports)
    /\ Artifacts \subseteq {"vsc", "pv"}
    /\ Queues \in {{"content"}, {"content", "snapshot"}}
    /\ Payloads \subseteq Nat \ {0}
    /\ MaxAborts \in Nat

\* Volume metadata only a DataImport attests: the StorageClass is in its spec,
\* volumeMode and fsType come with its status.
Fields == {"class", "mode"}

\* status.data; art = 0: not published.
Data == [art : Imports \cup {0}, uid : BOOLEAN, size : BOOLEAN, meta : SUBSET Fields]
NoData == [art |-> 0, uid |-> FALSE, size |-> FALSE, meta |-> {}]

Leaf ==
    [bound : BOOLEAN,
     vsc : Imports \cup {0},    \* boundVolumeSnapshotContentName
     source : BOOLEAN,          \* sourceRef
     data : Data,
     ready : {"none", "pending", "true", "ambiguous", "invalid"},
     error : BOOLEAN]           \* status.error of a VolumeSnapshot
Content == [ex : BOOLEAN, named : BOOLEAN, data : Data, ready : BOOLEAN]
DataImport ==
    [st : {"none", "live", "gone"}, art : {"none"} \cup {"vsc", "pv"},
     uid : BOOLEAN,             \* artifactRef.uid is filled
     mode : BOOLEAN]            \* status.volumeMode, status.data.fsType
Artifact == [ex : BOOLEAN, size : BOOLEAN, retain : BOOLEAN, owned : BOOLEAN]
Pass ==
    [pc : {"idle", "publish", "derive"}, ob : Content,
     new : Data,                \* the binding to publish (art = 0: none)
     pending : BOOLEAN]         \* dataLegPending

VARIABLES kind, leaf, content,
          mcp,      \* [st, info]: info is the payload the checksum is of
          chunk,    \* the payload in the chunk, 0: no chunk
          di, vsc, pass,
          native,   \* the VolumeSnapshot import controller is between its writes
          up, awake, aborts

vars == <<kind, leaf, content, mcp, chunk, di, vsc, pass, native, up, awake, aborts>>

NoPass == [pc |-> "idle", ob |-> [ex |-> FALSE, named |-> FALSE, data |-> NoData, ready |-> FALSE],
           new |-> NoData, pending |-> FALSE]
Parties == {"binder", "vsimport"} \cup Queues

TypeOK ==
    /\ kind \in Kinds
    /\ leaf \in Leaf
    /\ content \in Content
    /\ mcp \in [st : {"none", "new", "ready"}, info : Payloads \cup {0}]
    /\ chunk \in Payloads \cup {0}
    /\ di \in [Imports -> DataImport]
    /\ vsc \in [Imports -> Artifact]
    /\ pass \in [Queues -> Pass]
    /\ native \in Imports \cup {0}
    /\ up \in [Uploads -> [pc : {"idle", "chunk", "status"}, payload : Payloads \cup {0}]]
    /\ awake \subseteq Parties
    /\ aborts \in 0..MaxAborts

\* A leaf in import mode below a parent with content.
Init ==
    /\ kind \in Kinds
    /\ leaf = [bound |-> FALSE, vsc |-> 0, source |-> FALSE, data |-> NoData,
               ready |-> "none", error |-> FALSE]
    /\ content = [ex |-> FALSE, named |-> FALSE, data |-> NoData, ready |-> FALSE]
    /\ mcp = [st |-> "none", info |-> 0]
    /\ chunk = 0
    /\ di = [i \in Imports |-> [st |-> "none", art |-> "none", uid |-> FALSE, mode |-> FALSE]]
    /\ vsc = [i \in Imports |-> [ex |-> FALSE, size |-> FALSE, retain |-> FALSE, owned |-> FALSE]]
    /\ pass = [q \in Queues |-> NoPass]
    /\ native = 0
    /\ up = [u \in Uploads |-> [pc |-> "idle", payload |-> 0]]
    /\ awake = {"binder"} \cup (IF kind = "native" THEN {"vsimport"} ELSE {})
    /\ aborts = 0

-----------------------------------------------------------------------------
(* Who is woken by which write. *)

LeafWake == {"binder"} \cup (Queues \cap {"snapshot"})
               \cup (IF kind = "native" THEN {"vsimport"} ELSE {})
ContentWake == {"binder", "content"}
ArtifactWake == {"content"}

\* awake after party w ran: it polls or not, and its writes wake others.
Woken(w, polls) ==
    awake' = (awake \ (IF polls THEN {} ELSE {w}))
                \cup (IF leaf' # leaf THEN LeafWake ELSE {})
                \cup (IF content' # content THEN ContentWake ELSE {})
                \cup (IF \E i \in Imports : vsc'[i] # vsc[i] /\ vsc'[i].owned
                      THEN ArtifactWake ELSE {})

\* The mirrored Ready goes onto the leaf as it is by then.
WithReady(l, ready) == [l EXCEPT !.ready = ready]

-----------------------------------------------------------------------------
(* DataImports of the leaf. *)

Live == {i \in Imports : di[i].st = "live"}
Ambiguous == Cardinality(Live) > 1

\* 0: none, or more than one.
FindDataImportForLeaf == IF Cardinality(Live) = 1 THEN CHOOSE i \in Live : TRUE ELSE 0

importVolumeMetadataFromDataImport(i) == {"class"} \cup (IF di[i].mode THEN {"mode"} ELSE {})

-----------------------------------------------------------------------------
(* The binder: creates and binds the content, surfaces what the content    *)
(* cannot express, and mirrors the data of the content to the leaf.        *)

BindContent ==
    /\ ~leaf.bound /\ "binder" \in awake
    /\ content' = [content EXCEPT !.ex = TRUE]
    /\ leaf' = [leaf EXCEPT !.bound = TRUE]
    /\ UNCHANGED <<kind, mcp, chunk, di, vsc, pass, native, up, aborts>>
    /\ Woken("binder", TRUE)

\* A copy of what the content publishes, if anything.
mirrorLeafDataFromContent(l) ==
    IF content.data = NoData THEN l ELSE [l EXCEPT !.data = content.data]

reconcileGenericImport ==
    LET i == FindDataImportForLeaf IN
    /\ leaf.bound /\ "binder" \in awake
    /\ UNCHANGED <<kind, content, mcp, chunk, di, vsc, pass, native, up, aborts>>
    /\ \/ /\ mcp.st = "none"
          /\ UNCHANGED leaf /\ Woken("binder", TRUE)
       \/ /\ mcp.st # "none" /\ Ambiguous
          /\ leaf' = WithReady(leaf, "ambiguous") /\ Woken("binder", FALSE)
       \/ /\ mcp.st # "none" /\ Live = {} /\ content.data = NoData
          /\ UNCHANGED leaf /\ Woken("binder", TRUE)
       \/ /\ mcp.st # "none" /\ i # 0 /\ di[i].art = "pv"
          /\ leaf' = WithReady(leaf, "invalid") /\ Woken("binder", FALSE)
       \/ /\ mcp.st # "none" /\ ~Ambiguous
          /\ IF i = 0 THEN content.data # NoData ELSE di[i].art # "pv"
          /\ leaf' = mirrorLeafDataFromContent(leaf)
          /\ Woken("binder", leaf.ready # "true")

-----------------------------------------------------------------------------
(* The VolumeSnapshot import controller.  It creates the content under the   *)
(* same deterministic name as the binder; who comes second finds it there.   *)

bindBoundSnapshotContentName(l) == [l EXCEPT !.bound = TRUE]
setVolumeSnapshotError(l) == [l EXCEPT !.error = TRUE]
setLegacyVolumeSnapshotBound(l, i) == [l EXCEPT !.vsc = i]
forceVolumeSnapshotContentRetain(i) == [vsc EXCEPT ![i].retain = TRUE]

MaterializeVolumeSnapshotContent ==
    /\ kind = "native" /\ ~leaf.bound /\ "vsimport" \in awake
    /\ content' = [content EXCEPT !.ex = TRUE]
    /\ leaf' = bindBoundSnapshotContentName(leaf)
    /\ UNCHANGED <<kind, mcp, chunk, di, vsc, pass, native, up, aborts>>
    /\ Woken("vsimport", TRUE)

mirrorPublishedContentData(l) ==
    /\ leaf' = mirrorLeafDataFromContent(l)
    /\ Woken("vsimport", content.data = NoData)

\* The chunk is fetched and its checksum compared with the recorded one.
CollectReconstructedManifestObjects == chunk = mcp.info

\* From the lookup to the legacy binding: Retain, back-reference, bound name.
BindVolumeSnapshot ==
    LET i == FindDataImportForLeaf IN
    /\ kind = "native" /\ leaf.bound /\ native = 0 /\ "vsimport" \in awake
    /\ UNCHANGED <<kind, content, mcp, chunk, di, pass, up, aborts>>
    /\ \/ /\ \/ mcp.st = "none"
             \/ i # 0 /\ di[i].art = "none"
             \/ i # 0 /\ di[i].art = "vsc" /\ mcp.st = "new"
          /\ UNCHANGED <<leaf, native>>
          /\ vsc' = IF i # 0 /\ mcp.st = "new" /\ di[i].art = "vsc" /\ vsc[i].ex
                    THEN forceVolumeSnapshotContentRetain(i) ELSE vsc
          /\ Woken("vsimport", TRUE)
       \/ /\ mcp.st # "none"
          /\ \/ Ambiguous
             \/ i # 0 /\ di[i].art = "pv"
             \/ /\ i # 0 /\ di[i].art = "vsc" /\ mcp.st = "ready"
                /\ ~CollectReconstructedManifestObjects
          /\ leaf' = setVolumeSnapshotError(leaf)
          /\ UNCHANGED <<vsc, native>> /\ Woken("vsimport", FALSE)
       \/ /\ mcp.st # "none" /\ Live = {}
          /\ UNCHANGED <<vsc, native>>
          /\ mirrorPublishedContentData(leaf)
       \/ /\ i # 0 /\ di[i].art = "vsc" /\ mcp.st = "ready" /\ vsc[i].ex
          /\ CollectReconstructedManifestObjects
          /\ vsc' = forceVolumeSnapshotContentRetain(i)
          /\ leaf' = setLegacyVolumeSnapshotBound(leaf, i)
          /\ native' = i /\ Woken("vsimport", TRUE)

publishVolumeSnapshotSource ==
    /\ native # 0
    /\ native' = 0
    /\ UNCHANGED <<kind, content, mcp, chunk, di, vsc, pass, up, aborts>>
    /\ mirrorPublishedContentData([leaf EXCEPT !.source = TRUE])

-----------------------------------------------------------------------------
(* The SnapshotContent controller: the data leg of an import. *)

Binding(i, uid, meta) == [art |-> i, uid |-> uid, size |-> FALSE, meta |-> meta]
Nothing(pending) == [new |-> NoData, pending |-> pending]
Publish(b) == [new |-> b, pending |-> TRUE]

\* Mutant: published data is kept as it is when its DataImport is gone.
KeepPublishedImportLeg(d) == Nothing(d = NoData)

\* No DataImport attests the leg: a complete binding stays, an incomplete one
\* is published again from its own copy until the size is there.
completeOrKeepPublishedImportLeg(d) ==
    IF d = NoData \/ d.size THEN Nothing(d = NoData)
    ELSE Publish(Binding(d.art, d.uid, d.meta))

projectContentDataLegFromDataImport(d) ==
    LET i == FindDataImportForLeaf
        meta == importVolumeMetadataFromDataImport(i) IN
    IF i = 0 THEN completeOrKeepPublishedImportLeg(d)
    ELSE IF di[i].art # "vsc" THEN Nothing(d = NoData)
    ELSE IF d.art = i /\ d.uid = di[i].uid /\ d.size /\ meta \subseteq d.meta
    THEN Nothing(FALSE)
    ELSE Publish(Binding(i, di[i].uid, meta))

\* Mutant: without a DataImport nothing is known of the metadata.
BoundVSCForgets(d) ==
    LET i == FindDataImportForLeaf
        meta == IF i = 0 THEN {} ELSE importVolumeMetadataFromDataImport(i) IN
    IF leaf.vsc = 0 \/ ~leaf.source THEN Nothing(TRUE)
    ELSE IF d.art = leaf.vsc /\ d.size /\ meta \subseteq d.meta THEN Nothing(FALSE)
    ELSE Publish(Binding(leaf.vsc, FALSE, meta))

projectContentDataLegFromBoundVSC(d) ==
    LET i == FindDataImportForLeaf
        meta == IF i = 0 THEN d.meta ELSE importVolumeMetadataFromDataImport(i) IN
    IF leaf.vsc = 0 \/ ~leaf.source THEN Nothing(TRUE)
    ELSE IF d.art = leaf.vsc /\ d.size /\ meta \subseteq d.meta THEN Nothing(FALSE)
    ELSE Publish(Binding(leaf.vsc, FALSE, meta))

\* The beginning of a pass: manifest name, and the decision on the data leg.
Resolve(q) ==
    LET plan == IF kind = "native" THEN projectContentDataLegFromBoundVSC(content.data)
                ELSE projectContentDataLegFromDataImport(content.data) IN
    /\ pass[q].pc = "idle" /\ q \in awake /\ content.ex
    /\ content' = [content EXCEPT !.named = @ \/ mcp.st # "none"]
    /\ pass' = [pass EXCEPT ![q] =
          [pc |-> IF plan.new = NoData THEN "derive" ELSE "publish",
           ob |-> content, new |-> plan.new, pending |-> plan.pending]]
    /\ UNCHANGED leaf /\ UNCHANGED vsc
    /\ Woken(q, FALSE)
    /\ UNCHANGED <<kind, mcp, chunk, di, native, up, aborts>>

EnrichDataBindingsWithVolumeMetadata(b) ==
    [b EXCEPT !.uid = @ \/ vsc[b.art].ex, !.size = vsc[b.art].ex /\ vsc[b.art].size]

\* Mutant: published before it is handed over.
PublishWithoutHandoff(q) ==
    LET b == pass[q].new IN
    /\ pass[q].pc = "publish"
    /\ content' = [content EXCEPT !.data = EnrichDataBindingsWithVolumeMetadata(b)]
    /\ pass' = [pass EXCEPT ![q].pc = "derive"]
    /\ UNCHANGED <<leaf, vsc>> /\ Woken(q, q \in awake)
    /\ UNCHANGED <<kind, mcp, chunk, di, native, up, aborts>>

\* Enrichment, handoff and publication; an artifact that is gone refuses the
\* handoff and the pass goes on without publishing.
publishDataBindings(q) ==
    LET b == pass[q].new IN
    /\ pass[q].pc = "publish"
    /\ content' = IF vsc[b.art].ex
                  THEN [content EXCEPT !.data = EnrichDataBindingsWithVolumeMetadata(b)]
                  ELSE content
    /\ vsc' = IF vsc[b.art].ex
              THEN [vsc EXCEPT ![b.art].owned = TRUE, ![b.art].retain = TRUE] ELSE vsc
    /\ pass' = [pass EXCEPT ![q].pc = "derive"]
    /\ UNCHANGED leaf /\ Woken(q, q \in awake)
    /\ UNCHANGED <<kind, mcp, chunk, di, native, up, aborts>>

\* Ready from the content as the pass read it, and its mirror on the leaf.  A
\* pending data leg only takes a Ready away; a content that is not Ready is
\* looked at again soon.
DeriveReady(q) ==
    LET p == pass[q]
        ready == /\ p.ob.named /\ mcp.st = "ready" /\ ~p.pending
                 /\ (p.ob.data # NoData => vsc[p.ob.data.art].ex) IN
    /\ p.pc = "derive"
    /\ content' = [content EXCEPT !.ready = ready]
    /\ leaf' = IF leaf.bound THEN WithReady(leaf, IF ready THEN "true" ELSE "pending") ELSE leaf
    /\ pass' = [pass EXCEPT ![q] = NoPass]
    /\ UNCHANGED vsc
    /\ awake' = (awake \cup (IF ready THEN {} ELSE {q}))
                  \cup (IF leaf' # leaf THEN LeafWake ELSE {})
                  \cup (IF content' # content THEN ContentWake ELSE {})
    /\ UNCHANGED <<kind, mcp, chunk, di, native, up, aborts>>

ContentPass(q) == Resolve(q) \/ publishDataBindings(q) \/ DeriveReady(q)

-----------------------------------------------------------------------------
(* The upload of the manifests: refused until the leaf is bound. *)

UploadOnly == <<kind, leaf, content, di, vsc, pass, native, aborts>>

\* Upload, and ReconstructManifestCheckpoint up to the chunks.  A checkpoint
\* that is Ready is left alone.
Upload(u) ==
    /\ up[u].pc = "idle" /\ leaf.bound /\ mcp.st # "ready"
    /\ \E p \in Payloads : up' = [up EXCEPT ![u] = [pc |-> "chunk", payload |-> p]]
    /\ mcp' = [mcp EXCEPT !.st = "new"]
    /\ awake' = awake \cup ArtifactWake
    /\ UNCHANGED <<UploadOnly, chunk>>

\* Mutant: the checkpoint is Ready before its chunks are there.
StatusFirst(u) ==
    /\ up[u].pc = "chunk"
    /\ mcp' = [st |-> "ready", info |-> up[u].payload]
    /\ up' = [up EXCEPT ![u].pc = "status"]
    /\ UNCHANGED <<UploadOnly, chunk, awake>>

\* A chunk that exists is taken for one of an earlier attempt.
writeReconstructedChunks(u) ==
    /\ up[u].pc = "chunk"
    /\ chunk' = IF chunk = 0 THEN up[u].payload ELSE chunk
    /\ up' = [up EXCEPT ![u].pc = "status"]
    /\ UNCHANGED <<UploadOnly, mcp, awake>>

\* The status update carries the version read before the chunks: it fails when
\* another upload was faster.
MarkReconstructed(u) ==
    /\ up[u].pc = "status"
    /\ mcp' = IF mcp.st = "ready" THEN mcp ELSE [st |-> "ready", info |-> up[u].payload]
    /\ up' = [up EXCEPT ![u] = [pc |-> "idle", payload |-> 0]]
    /\ awake' = awake \cup ArtifactWake
    /\ UNCHANGED <<UploadOnly, chunk>>

\* A pass, or an upload, ends half way: an error, or a restart.
Abort ==
    /\ aborts < MaxAborts
    /\ aborts' = aborts + 1
    /\ \/ /\ \E q \in Queues :
                /\ pass[q].pc # "idle"
                /\ pass' = [pass EXCEPT ![q] = NoPass]
                /\ awake' = awake \cup {q}
          /\ UNCHANGED <<native, up>>
       \/ /\ native # 0 /\ native' = 0
          /\ awake' = awake \cup {"vsimport"}
          /\ UNCHANGED <<pass, up>>
       \/ /\ \E u \in Uploads :
                /\ up[u].pc # "idle"
                /\ up' = [up EXCEPT ![u] = [pc |-> "idle", payload |-> 0]]
          /\ UNCHANGED <<pass, native, awake>>
    /\ UNCHANGED <<kind, leaf, content, mcp, chunk, di, vsc>>

-----------------------------------------------------------------------------
(* Outside: the user, DataImports, the driver and the collector. *)

Outside == <<kind, leaf, content, mcp, chunk, pass, native, up, aborts>>

CreateImport(i) ==
    /\ di[i].st = "none"
    /\ di' = [di EXCEPT ![i].st = "live"]
    /\ UNCHANGED <<Outside, vsc, awake>>

\* The artifact, with or without its uid in the reference.
Produce(i) ==
    /\ di[i].st = "live" /\ di[i].art = "none"
    /\ \E a \in Artifacts, uid \in BOOLEAN :
          /\ di' = [di EXCEPT ![i].art = a, ![i].uid = uid]
          /\ vsc' = [vsc EXCEPT ![i].ex = (a = "vsc")]
    /\ UNCHANGED <<Outside, awake>>

AttestMode(i) ==
    /\ di[i].st = "live" /\ ~di[i].mode
    /\ di' = [di EXCEPT ![i].mode = TRUE]
    /\ UNCHANGED <<Outside, vsc, awake>>

\* The idle TTL of an import that has done its work.
ReapImport(i) ==
    /\ di[i].st = "live" /\ di[i].art # "none"
    /\ di' = [di EXCEPT ![i].st = "gone"]
    /\ UNCHANGED <<Outside, vsc, awake>>

CollectArtifact(i) ==
    /\ vsc[i].ex /\ di[i].st = "gone" /\ ~vsc[i].owned
    /\ vsc' = [vsc EXCEPT ![i].ex = FALSE]
    /\ UNCHANGED <<Outside, di, awake>>

DriverReportsSize(i) ==
    /\ vsc[i].ex /\ ~vsc[i].size
    /\ vsc' = [vsc EXCEPT ![i].size = TRUE]
    /\ awake' = awake \cup (IF vsc[i].owned THEN ArtifactWake ELSE {})
    /\ UNCHANGED <<Outside, di>>

Next ==
    \/ BindContent \/ reconcileGenericImport
    \/ MaterializeVolumeSnapshotContent \/ BindVolumeSnapshot
    \/ publishVolumeSnapshotSource
    \/ \E q \in Queues : ContentPass(q)
    \/ \E u \in Uploads : Upload(u) \/ writeReconstructedChunks(u) \/ MarkReconstructed(u)
    \/ Abort
    \/ \E i \in Imports :
          \/ CreateImport(i) \/ Produce(i) \/ AttestMode(i)
          \/ ReapImport(i) \/ CollectArtifact(i) \/ DriverReportsSize(i)

Spec == Init /\ [][Next]_vars

\* The controllers run as long as they are awake; the driver reports a size
\* and a finished DataImport is removed.  No user has to do anything.
Fairness ==
    /\ WF_vars(BindContent) /\ WF_vars(reconcileGenericImport)
    /\ WF_vars(MaterializeVolumeSnapshotContent)
    /\ WF_vars(BindVolumeSnapshot) /\ WF_vars(publishVolumeSnapshotSource)
    /\ \A q \in Queues : WF_vars(ContentPass(q))
    /\ \A i \in Imports : WF_vars(ReapImport(i)) /\ WF_vars(DriverReportsSize(i))

FairSpec == Spec /\ Fairness

-----------------------------------------------------------------------------
\* A checkpoint that is Ready is readable: its chunk is there and has the
\* recorded checksum ("byte-for-byte readable by the restore loader",
\* ReconstructManifestCheckpoint), although uploads stop and overlap.
ReadyIsReadable == mcp.st = "ready" => mcp.info # 0 /\ chunk = mcp.info

\* What the content publishes and what the leaf exports is an artifact that
\* exists, is pinned to Retain and belongs to the content, whatever becomes of
\* the DataImport that made it.
PublishedIsPinned ==
    \A d \in {content.data, leaf.data} : d # NoData =>
        LET a == vsc[d.art] IN a.ex /\ a.retain /\ a.owned

\* What only the DataImport knew stays on the content when it is reaped and the
\* artifact is published again for its size; only another DataImport of the
\* same leaf speaks with more authority (importVolumeMetadataFromPublished).
MetaIsKept ==
    [][( /\ content.data # NoData /\ content'.data.art = content.data.art
         /\ \A i \in Imports : di[i].st # "none" => i = content.data.art )
          => content.data.meta \subseteq content'.data.meta]_vars

\* An import whose manifests and artifact are published, and that nobody
\* disputes, ends with a Ready leaf that carries the complete descriptor, size
\* included, although the DataImport is gone before the driver reports it.
ImportIsServed ==
    <>[](content.data # NoData /\ mcp.st = "ready" /\ ~Ambiguous) =>
        <>[](/\ content.data.size /\ leaf.data = content.data
             /\ leaf.ready = "true")
=============================================================================
