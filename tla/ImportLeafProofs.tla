-------------------------- MODULE ImportLeafProofs --------------------------
(***************************************************************************)
(* Proofs about ImportLeaf, for leaves of both kinds, any number of        *)
(* DataImports, uploads and aborts.                                        *)
(***************************************************************************)
EXTENDS ImportLeaf, FiniteSetTheorems, TLAPS

\* The fixed records have their types.
LEMMA Records ==
    /\ NoData \in Data /\ NoData.art = 0 /\ NoData.meta = {}
    /\ NoPass \in Pass /\ NoPass.pc = "idle"
<1>1. NoData \in Data /\ NoData.art = 0 /\ NoData.meta = {}
  BY DEF NoData, Data, Fields
<1>2. [ex |-> FALSE, named |-> FALSE, data |-> NoData, ready |-> FALSE] \in Content
  BY <1>1 DEF Content
<1>3. NoPass \in Pass /\ NoPass.pc = "idle"
  BY <1>1, <1>2 DEF NoPass, Pass
<1>4. QED
  BY <1>1, <1>3

\* The DataImport that attests the leaf, if there is one, is live, and no other is.
LEMMA TheImport ==
    /\ FindDataImportForLeaf \in Imports \cup {0}
    /\ FindDataImportForLeaf # 0 => FindDataImportForLeaf \in Live
<1>1. CASE Cardinality(Live) = 1
  <2>1. Live # {}
    BY <1>1, FS_EmptySet
  <2>2. QED
    BY <1>1, <2>1 DEF FindDataImportForLeaf, Live
<1>2. CASE Cardinality(Live) # 1
  BY <1>2 DEF FindDataImportForLeaf
<1>3. QED
  BY <1>1, <1>2

-----------------------------------------------------------------------------
(* Type correctness. *)

\* The initial state is well typed.
LEMMA TypeInit == Init => TypeOK
<1> SUFFICES ASSUME Init PROVE TypeOK
  OBVIOUS
<1> USE Records
<1>1. leaf \in Leaf
  BY DEF Init, Leaf
<1>2. content \in Content
  BY DEF Init, Content
<1>3. mcp \in [st : {"none", "new", "ready"}, info : Payloads \cup {0}]
  BY DEF Init
<1>4. di \in [Imports -> DataImport]
  BY DEF Init, DataImport
<1>5. vsc \in [Imports -> Artifact]
  BY DEF Init, Artifact
<1>6. up \in [Uploads -> [pc : {"idle", "chunk", "status"}, payload : Payloads \cup {0}]]
  BY DEF Init
<1>7. awake \subseteq Parties /\ aborts \in 0..MaxAborts
  BY ImportAssumption DEF Init, Parties
<1>8. QED
  BY <1>1, <1>2, <1>3, <1>4, <1>5, <1>6, <1>7 DEF Init, TypeOK

\* A write to the leaf keeps its type.
LEMMA LeafFields ==
    ASSUME NEW l \in Leaf, NEW d \in Data, NEW i \in Imports \cup {0},
           NEW r \in {"none", "pending", "true", "ambiguous", "invalid"}
    PROVE  /\ [l EXCEPT !.bound = TRUE] \in Leaf /\ [l EXCEPT !.source = TRUE] \in Leaf
           /\ [l EXCEPT !.error = TRUE] \in Leaf /\ [l EXCEPT !.vsc = i] \in Leaf
           /\ [l EXCEPT !.ready = r] \in Leaf /\ [l EXCEPT !.data = d] \in Leaf
<1>1. [l EXCEPT !.bound = TRUE] \in Leaf
  BY DEF Leaf
<1>2. [l EXCEPT !.source = TRUE] \in Leaf
  BY DEF Leaf
<1>3. [l EXCEPT !.error = TRUE] \in Leaf
  BY DEF Leaf
<1>4. [l EXCEPT !.vsc = i] \in Leaf /\ [l EXCEPT !.ready = r] \in Leaf /\ [l EXCEPT !.data = d] \in Leaf
  BY DEF Leaf
<1>5. QED
  BY <1>1, <1>2, <1>3, <1>4

\* The same for the content.
LEMMA ContentFields ==
    ASSUME NEW c \in Content, NEW d \in Data, NEW b \in BOOLEAN
    PROVE  /\ [c EXCEPT !.named = b] \in Content /\ [c EXCEPT !.ready = b] \in Content
           /\ [c EXCEPT !.data = d] \in Content /\ [c EXCEPT !.ex = TRUE] \in Content
<1>1. /\ [c EXCEPT !.named = b] \in Content /\ [c EXCEPT !.ready = b] \in Content
      /\ [c EXCEPT !.data = d] \in Content
  BY DEF Content
<1>2. [c EXCEPT !.ex = TRUE] \in Content
  BY DEF Content
<1>3. QED
  BY <1>1, <1>2

\* Whoever runs, only the controllers are woken.
LEMMA WokenType ==
    ASSUME TypeOK, NEW w, NEW b, Woken(w, b)
    PROVE  awake' \subseteq Parties
<1>1. LeafWake \subseteq Parties /\ ContentWake \subseteq Parties /\ ArtifactWake \subseteq Parties
  BY ImportAssumption DEF LeafWake, ContentWake, ArtifactWake, Parties
<1>2. QED
  BY <1>1 DEF Woken, TypeOK

\* A binding is data, of the artifact it names.
LEMMA BindingType ==
    ASSUME NEW i \in Imports \cup {0}, NEW uid \in BOOLEAN, NEW meta \in SUBSET Fields
    PROVE  /\ Binding(i, uid, meta) \in Data
           /\ Binding(i, uid, meta).art = i /\ Binding(i, uid, meta).meta = meta
BY DEF Binding, Data

Decision == IF kind = "native" THEN projectContentDataLegFromBoundVSC(content.data)
            ELSE projectContentDataLegFromDataImport(content.data)

\* What the data leg of a leaf decides: nothing, or a binding to publish, made of
\* what the DataImport attests or of what the content has already.
LEMMA DecisionFacts ==
    ASSUME TypeOK
    PROVE  /\ Decision.new \in Data /\ Decision.pending \in BOOLEAN
           /\ Decision.new # NoData =>
                 \/ Decision.new.art \in Imports
                 \/ content.data # NoData /\ Decision.new.art = content.data.art
           /\ Decision.new # NoData =>
                 \/ /\ FindDataImportForLeaf # 0
                    /\ Decision.new.meta = importVolumeMetadataFromDataImport(FindDataImportForLeaf)
                 \/ FindDataImportForLeaf = 0 /\ Decision.new.meta = content.data.meta
<1> DEFINE i == FindDataImportForLeaf
           d == content.data
<1>0. /\ d \in Data /\ i \in Imports \cup {0} /\ d.art \in Imports \cup {0} /\ d.uid \in BOOLEAN
      /\ d.meta \in SUBSET Fields /\ leaf.vsc \in Imports \cup {0}
  BY TheImport DEF TypeOK, Content, Data, Leaf
<1>1. \A j : importVolumeMetadataFromDataImport(j) \in SUBSET Fields
  BY DEF importVolumeMetadataFromDataImport, Fields
<1>2. \A j \in Imports : di[j].uid \in BOOLEAN
  BY DEF TypeOK, DataImport
<1>3. ASSUME NEW b \in BOOLEAN, Decision = Nothing(b)
      PROVE  Decision.new = NoData /\ Decision.pending \in BOOLEAN
  BY <1>3 DEF Nothing
<1>4. ASSUME NEW b \in Data, Decision = Publish(b)
      PROVE  Decision.new = b /\ Decision.pending \in BOOLEAN
  BY <1>4 DEF Publish
<1> DEFINE Goal ==
           /\ Decision.new \in Data /\ Decision.pending \in BOOLEAN
           /\ Decision.new # NoData =>
                 \/ Decision.new.art \in Imports
                 \/ content.data # NoData /\ Decision.new.art = content.data.art
           /\ Decision.new # NoData =>
                 \/ /\ FindDataImportForLeaf # 0
                    /\ Decision.new.meta = importVolumeMetadataFromDataImport(FindDataImportForLeaf)
                 \/ FindDataImportForLeaf = 0 /\ Decision.new.meta = content.data.meta
<1>5. ASSUME NEW b \in BOOLEAN, Decision = Nothing(b) PROVE Goal
  BY <1>3, <1>5, Records
<1>6. ASSUME NEW j \in Imports, NEW uid \in BOOLEAN, i # 0,
             Decision = Publish(Binding(j, uid, importVolumeMetadataFromDataImport(i)))
      PROVE  Goal
  <2>1. Binding(j, uid, importVolumeMetadataFromDataImport(i)) \in Data
    BY <1>1, BindingType
  <2>2. /\ Decision.new = Binding(j, uid, importVolumeMetadataFromDataImport(i))
        /\ Decision.pending \in BOOLEAN
    BY <1>4, <1>6, <2>1
  <2>3. Decision.new.art = j /\ Decision.new.meta = importVolumeMetadataFromDataImport(i)
    BY <1>1, <2>2, BindingType
  <2>4. QED
    BY <1>6, <2>1, <2>2, <2>3
<1>7. ASSUME NEW j \in Imports \cup {0}, NEW uid \in BOOLEAN, i = 0,
             j \in Imports \/ (d # NoData /\ j = d.art),
             Decision = Publish(Binding(j, uid, d.meta))
      PROVE  Goal
  <2>1. Binding(j, uid, d.meta) \in Data
    BY <1>0, BindingType
  <2>2. Decision.new = Binding(j, uid, d.meta) /\ Decision.pending \in BOOLEAN
    BY <1>4, <1>7, <2>1
  <2>3. Decision.new.art = j /\ Decision.new.meta = d.meta
    BY <1>0, <2>2, BindingType
  <2>4. QED
    BY <1>7, <2>1, <2>2, <2>3
<1> HIDE DEF Goal
<1>8. ASSUME kind = "native" PROVE Goal
  <2> DEFINE meta == IF i = 0 THEN d.meta ELSE importVolumeMetadataFromDataImport(i)
             v == leaf.vsc
  <2>1. \/ Decision = Nothing(TRUE) \/ Decision = Nothing(FALSE)
        \/ v # 0 /\ Decision = Publish(Binding(v, FALSE, meta))
    BY <1>8 DEF Decision, projectContentDataLegFromBoundVSC
  <2>2. FALSE \in BOOLEAN /\ TRUE \in BOOLEAN /\ (v # 0 => v \in Imports)
    BY <1>0
  <2>3. QED
    BY <2>1, <2>2, <1>5, <1>6, <1>7
<1>9. ASSUME kind # "native", i = 0 PROVE Goal
  <2> DEFINE none == d = NoData
  <2>1. \/ Decision = Nothing(none)
        \/ d # NoData /\ Decision = Publish(Binding(d.art, d.uid, d.meta))
    BY <1>9 DEF Decision, projectContentDataLegFromDataImport, completeOrKeepPublishedImportLeg
  <2>2. none \in BOOLEAN
    OBVIOUS
  <2> HIDE DEF none
  <2>3. QED
    BY <1>0, <1>9, <2>1, <2>2, <1>5, <1>7
<1>10. ASSUME kind # "native", i # 0 PROVE Goal
  <2> DEFINE none == d = NoData
             meta == importVolumeMetadataFromDataImport(i)
  <2>1. \/ Decision = Nothing(none) \/ Decision = Nothing(FALSE)
        \/ Decision = Publish(Binding(i, di[i].uid, meta))
    BY <1>10 DEF Decision, projectContentDataLegFromDataImport
  <2>2. none \in BOOLEAN /\ FALSE \in BOOLEAN /\ i \in Imports /\ di[i].uid \in BOOLEAN
    BY <1>0, <1>2, <1>10
  <2> HIDE DEF none
  <2>3. QED
    BY <1>10, <2>1, <2>2, <1>5, <1>6
<1>11. QED
  BY <1>8, <1>9, <1>10 DEF Goal

\* The beginning of a pass: the manifest name, and the decision it carries.
LEMMA ResolveFacts ==
    ASSUME TypeOK, NEW q \in Queues, Resolve(q)
    PROVE  /\ content' \in Content /\ content'.data = content.data
           /\ pass' \in [Queues -> Pass]
           /\ \A p \in Queues : p # q => pass'[p] = pass[p]
           /\ pass'[q].new = Decision.new
           /\ pass'[q].pc = IF Decision.new = NoData THEN "derive" ELSE "publish"
           /\ UNCHANGED <<kind, leaf, mcp, chunk, di, vsc, native, up, aborts>>
<1> DEFINE b == content.named \/ mcp.st # "none"
           new == [pc |-> IF Decision.new = NoData THEN "derive" ELSE "publish",
                   ob |-> content, new |-> Decision.new, pending |-> Decision.pending]
<1>1. /\ content' = [content EXCEPT !.named = b] /\ b \in BOOLEAN
      /\ pass' = [pass EXCEPT ![q] = new]
      /\ UNCHANGED <<kind, leaf, mcp, chunk, di, vsc, native, up, aborts>>
  BY DEF Resolve, Decision
<1>2. content \in Content /\ pass \in [Queues -> Pass]
  BY DEF TypeOK
<1>3. new \in Pass
  BY <1>2, DecisionFacts DEF Pass
<1> HIDE DEF b
<1>4. content' \in Content /\ content'.data = content.data
  BY <1>1, <1>2 DEF Content
<1>5. new.new = Decision.new /\ new.pc = IF Decision.new = NoData THEN "derive" ELSE "publish"
  OBVIOUS
<1> HIDE DEF new
<1>6. QED
  BY <1>1, <1>2, <1>3, <1>4, <1>5

\* The enrichment of a binding touches neither its artifact nor its metadata.
LEMMA EnrichFacts ==
    ASSUME NEW b \in Data
    PROVE  LET e == EnrichDataBindingsWithVolumeMetadata(b)
           IN e \in Data /\ e.art = b.art /\ e.meta = b.meta
<1> DEFINE uid == b.uid \/ vsc[b.art].ex
           size == vsc[b.art].ex /\ vsc[b.art].size
           e == [b EXCEPT !.uid = uid, !.size = size]
<1>1. EnrichDataBindingsWithVolumeMetadata(b) = e /\ uid \in BOOLEAN /\ size \in BOOLEAN
  BY DEF EnrichDataBindingsWithVolumeMetadata
<1> HIDE DEF uid, size
<1>2. e \in Data /\ e.art = b.art /\ e.meta = b.meta
  BY <1>1 DEF Data
<1>3. QED
  BY <1>1, <1>2

\* The publication of a binding: the artifact exists and is handed over, or
\* nothing is written.
LEMMA PublishFacts ==
    ASSUME TypeOK, NEW q \in Queues, publishDataBindings(q)
    PROVE  LET b == pass[q].new
           IN /\ pass[q].pc = "publish" /\ b \in Data
              /\ pass' \in [Queues -> Pass] /\ pass'[q].pc = "derive"
              /\ \A p \in Queues : p # q => pass'[p] = pass[p]
              /\ UNCHANGED <<kind, leaf, mcp, chunk, di, native, up, aborts>>
              /\ \/ content' = content /\ vsc' = vsc
                 \/ /\ vsc[b.art].ex /\ content' \in Content
                    /\ content'.data.art = b.art /\ content'.data.meta = b.meta
                    /\ vsc' = [vsc EXCEPT ![b.art].owned = TRUE, ![b.art].retain = TRUE]
<1> DEFINE b == pass[q].new
           e == EnrichDataBindingsWithVolumeMetadata(b)
<1>1. content \in Content /\ pass \in [Queues -> Pass] /\ pass[q] \in Pass /\ b \in Data
  BY DEF TypeOK, Pass
<1>2. e \in Data /\ e.art = b.art /\ e.meta = b.meta
  BY <1>1, EnrichFacts
<1>3. /\ pass[q].pc = "publish" /\ pass' = [pass EXCEPT ![q].pc = "derive"]
      /\ UNCHANGED <<kind, leaf, mcp, chunk, di, native, up, aborts>>
      /\ \/ content' = content /\ vsc' = vsc
         \/ /\ vsc[b.art].ex /\ content' = [content EXCEPT !.data = e]
            /\ vsc' = [vsc EXCEPT ![b.art].owned = TRUE, ![b.art].retain = TRUE]
  BY DEF publishDataBindings
<1>4. /\ pass' \in [Queues -> Pass] /\ pass'[q].pc = "derive"
      /\ \A p \in Queues : p # q => pass'[p] = pass[p]
  BY <1>1, <1>3 DEF Pass
<1> HIDE DEF b, e
<1>5. [content EXCEPT !.data = e] \in Content /\ [content EXCEPT !.data = e].data = e
  BY <1>1, <1>2 DEF Content
<1>6. QED
  BY <1>1, <1>2, <1>3, <1>4, <1>5 DEF b

\* The end of a pass: Ready on the content and on the leaf, nothing else.
LEMMA DeriveFacts ==
    ASSUME TypeOK, NEW q \in Queues, DeriveReady(q)
    PROVE  /\ content' \in Content /\ content'.data = content.data
           /\ leaf' \in Leaf /\ leaf'.data = leaf.data /\ leaf'.vsc = leaf.vsc
           /\ pass' = [pass EXCEPT ![q] = NoPass]
           /\ awake' \subseteq Parties
           /\ UNCHANGED <<kind, mcp, chunk, di, vsc, native, up, aborts>>
<1> DEFINE p == pass[q]
           ready == /\ p.ob.named /\ mcp.st = "ready" /\ ~p.pending
                    /\ (p.ob.data # NoData => vsc[p.ob.data.art].ex)
           word == IF ready THEN "true" ELSE "pending"
<1>1. /\ content' = [content EXCEPT !.ready = ready] /\ ready \in BOOLEAN
      /\ leaf' \in {leaf, [leaf EXCEPT !.ready = word]} /\ word \in {"true", "pending"}
      /\ pass' = [pass EXCEPT ![q] = NoPass]
      /\ UNCHANGED <<kind, mcp, chunk, di, vsc, native, up, aborts>>
  BY DEF DeriveReady, WithReady
<1>2. awake' \subseteq Parties
  <2>1. LeafWake \subseteq Parties /\ ContentWake \subseteq Parties /\ q \in Parties
    BY ImportAssumption DEF LeafWake, ContentWake, Parties
  <2>2. awake' \subseteq awake \cup {q} \cup LeafWake \cup ContentWake
    BY DEF DeriveReady
  <2>3. QED
    BY <2>1, <2>2 DEF TypeOK
<1>3. content \in Content /\ leaf \in Leaf
  BY DEF TypeOK
<1> HIDE DEF ready, word
<1>4. content' \in Content /\ content'.data = content.data
  BY <1>1, <1>3 DEF Content
<1>5. leaf' \in Leaf /\ leaf'.data = leaf.data /\ leaf'.vsc = leaf.vsc
  BY <1>1, <1>3 DEF Leaf
<1>6. QED
  BY <1>1, <1>2, <1>4, <1>5

\* The steps of the binder and of the VolumeSnapshot import controller.
LeafStep == \/ BindContent \/ reconcileGenericImport
            \/ MaterializeVolumeSnapshotContent \/ BindVolumeSnapshot
            \/ publishVolumeSnapshotSource

\* They pin an artifact at most, keep what the content publishes and copy
\* nothing else to the leaf.
LEMMA LeafStepFacts ==
    ASSUME TypeOK, LeafStep
    PROVE  /\ leaf' \in Leaf /\ content' \in Content /\ content'.data = content.data
           /\ \/ leaf'.data = leaf.data
              \/ content.data # NoData /\ leaf'.data = content.data
           /\ \/ vsc' = vsc
              \/ \E i \in Imports : vsc' = [vsc EXCEPT ![i].retain = TRUE]
           /\ native' \in Imports \cup {0} /\ awake' \subseteq Parties
           /\ UNCHANGED <<kind, mcp, chunk, di, pass, up, aborts>>
<1> DEFINE i == FindDataImportForLeaf
           d == content.data
           Words == {"none", "pending", "true", "ambiguous", "invalid"}
<1>1. /\ leaf \in Leaf /\ content \in Content /\ d \in Data /\ native \in Imports \cup {0}
      /\ i \in Imports \cup {0}
  BY TheImport DEF TypeOK, Content
<1>2. /\ \A l \in Leaf : mirrorLeafDataFromContent(l) \in Leaf
      /\ \A l \in Leaf : \/ mirrorLeafDataFromContent(l).data = l.data
                         \/ d # NoData /\ mirrorLeafDataFromContent(l).data = d
  BY <1>1 DEF mirrorLeafDataFromContent, Leaf
<1>3. \A l \in Leaf : /\ [l EXCEPT !.source = TRUE] \in Leaf
                      /\ [l EXCEPT !.source = TRUE].data = l.data
  BY DEF Leaf
<1>4. \A l \in Leaf : /\ [l EXCEPT !.bound = TRUE] \in Leaf
                      /\ [l EXCEPT !.bound = TRUE].data = l.data
  BY DEF Leaf
<1>5. \A l \in Leaf : /\ [l EXCEPT !.error = TRUE] \in Leaf
                      /\ [l EXCEPT !.error = TRUE].data = l.data
  BY DEF Leaf
<1>6. \A l \in Leaf : /\ [l EXCEPT !.vsc = i] \in Leaf
                      /\ [l EXCEPT !.vsc = i].data = l.data
  BY <1>1 DEF Leaf
<1>7. \A l \in Leaf, r \in Words : WithReady(l, r) \in Leaf /\ WithReady(l, r).data = l.data
  BY DEF Leaf, WithReady
<1>8. [content EXCEPT !.ex = TRUE] \in Content /\ [content EXCEPT !.ex = TRUE].data = d
  BY <1>1 DEF Content
<1> DEFINE Goal ==
           /\ leaf' \in Leaf /\ content' \in Content /\ content'.data = content.data
           /\ \/ leaf'.data = leaf.data
              \/ content.data # NoData /\ leaf'.data = content.data
           /\ \/ vsc' = vsc
              \/ \E j \in Imports : vsc' = [vsc EXCEPT ![j].retain = TRUE]
           /\ native' \in Imports \cup {0} /\ awake' \subseteq Parties
           /\ UNCHANGED <<kind, mcp, chunk, di, pass, up, aborts>>
<1>9. ASSUME BindContent PROVE Goal
  <2>1. awake' \subseteq Parties
    BY <1>9, WokenType DEF BindContent
  <2>2. QED
    BY <1>1, <1>4, <1>8, <1>9, <2>1 DEF BindContent
<1>10. ASSUME MaterializeVolumeSnapshotContent PROVE Goal
  <2>1. awake' \subseteq Parties
    BY <1>10, WokenType DEF MaterializeVolumeSnapshotContent
  <2>2. QED
    BY <1>1, <1>4, <1>8, <1>10, <2>1
    DEF MaterializeVolumeSnapshotContent, bindBoundSnapshotContentName
<1>11. ASSUME reconcileGenericImport PROVE Goal
  <2> DEFINE polls == leaf.ready # "true"
  <2>1. /\ UNCHANGED <<kind, content, mcp, chunk, di, vsc, pass, native, up, aborts>>
        /\ \/ leaf' = leaf \/ leaf' = WithReady(leaf, "ambiguous")
           \/ leaf' = WithReady(leaf, "invalid") \/ leaf' = mirrorLeafDataFromContent(leaf)
        /\ Woken("binder", TRUE) \/ Woken("binder", FALSE) \/ Woken("binder", polls)
    BY <1>11 DEF reconcileGenericImport
  <2>2. awake' \subseteq Parties
    BY <2>1, WokenType
  <2>3. leaf' \in Leaf /\ (leaf'.data = leaf.data \/ (d # NoData /\ leaf'.data = d))
    BY <2>1, <1>1, <1>2, <1>7
  <2>4. QED
    BY <1>1, <2>1, <2>2, <2>3
<1>12. ASSUME BindVolumeSnapshot PROVE Goal
  <2> DEFINE polls == content.data = NoData
  <2>1. /\ UNCHANGED <<kind, content, mcp, chunk, di, pass, up, aborts>>
        /\ \/ leaf' = leaf \/ leaf' = setVolumeSnapshotError(leaf)
           \/ leaf' = mirrorLeafDataFromContent(leaf)
           \/ leaf' = setLegacyVolumeSnapshotBound(leaf, i)
        /\ vsc' = vsc \/ (i # 0 /\ vsc' = forceVolumeSnapshotContentRetain(i))
        /\ native' = native \/ native' = i
        /\ Woken("vsimport", TRUE) \/ Woken("vsimport", FALSE) \/ Woken("vsimport", polls)
    BY <1>12 DEF BindVolumeSnapshot, mirrorPublishedContentData
  <2>2. awake' \subseteq Parties
    BY <2>1, WokenType
  <2>3. leaf' \in Leaf /\ (leaf'.data = leaf.data \/ (d # NoData /\ leaf'.data = d))
    BY <2>1, <1>1, <1>2, <1>5, <1>6
    DEF setVolumeSnapshotError, setLegacyVolumeSnapshotBound
  <2>4. vsc' = vsc \/ \E j \in Imports : vsc' = [vsc EXCEPT ![j].retain = TRUE]
    BY <2>1, <1>1 DEF forceVolumeSnapshotContentRetain
  <2>5. QED
    BY <1>1, <2>1, <2>2, <2>3, <2>4
<1>13. ASSUME publishVolumeSnapshotSource PROVE Goal
  <2> DEFINE l == [leaf EXCEPT !.source = TRUE]
             polls == content.data = NoData
  <2>1. /\ UNCHANGED <<kind, content, mcp, chunk, di, vsc, pass, up, aborts>> /\ native' = 0
        /\ leaf' = mirrorLeafDataFromContent(l) /\ Woken("vsimport", polls)
    BY <1>13 DEF publishVolumeSnapshotSource, mirrorPublishedContentData
  <2>2. awake' \subseteq Parties
    BY <2>1, WokenType
  <2>3. leaf' \in Leaf /\ (leaf'.data = leaf.data \/ (d # NoData /\ leaf'.data = d))
    BY <2>1, <1>1, <1>2, <1>3
  <2>4. QED
    BY <1>1, <2>1, <2>2, <2>3
<1>14. QED
  BY <1>9, <1>10, <1>11, <1>12, <1>13 DEF LeafStep

OutsideStep(i) == \/ CreateImport(i) \/ Produce(i) \/ AttestMode(i)
                  \/ ReapImport(i) \/ CollectArtifact(i) \/ DriverReportsSize(i)

\* The steps outside change DataImports and artifacts only, and keep their types.
LEMMA OutsideType ==
    ASSUME TypeOK, NEW i \in Imports, OutsideStep(i)
    PROVE  /\ di' \in [Imports -> DataImport] /\ vsc' \in [Imports -> Artifact]
           /\ awake' \subseteq Parties /\ UNCHANGED Outside
<1>1. di \in [Imports -> DataImport] /\ vsc \in [Imports -> Artifact] /\ awake \subseteq Parties
  BY DEF TypeOK
<1>2. ArtifactWake \subseteq Parties
  BY ImportAssumption DEF ArtifactWake, Parties
<1> DEFINE Goal == /\ di' \in [Imports -> DataImport] /\ vsc' \in [Imports -> Artifact]
                   /\ awake' \subseteq Parties /\ UNCHANGED Outside
<1>3. ASSUME CreateImport(i) PROVE Goal
  BY <1>1, <1>3 DEF CreateImport, DataImport
<1>4. ASSUME Produce(i) PROVE Goal
  <2>1. UNCHANGED <<Outside, awake>>
    BY <1>4 DEF Produce
  <2>2. PICK a \in Artifacts, uid \in BOOLEAN :
           /\ di' = [di EXCEPT ![i].art = a, ![i].uid = uid]
           /\ vsc' = [vsc EXCEPT ![i].ex = (a = "vsc")]
    BY <1>4 DEF Produce
  <2>3. a \in {"vsc", "pv"}
    BY ImportAssumption
  <2>4. di' \in [Imports -> DataImport]
    <3> DEFINE new == [di[i] EXCEPT !.art = a, !.uid = uid]
    <3>1. new \in DataImport
      BY <1>1, <2>3 DEF DataImport
    <3>2. di' = [di EXCEPT ![i] = new]
      BY <1>1, <2>2
    <3> HIDE DEF new
    <3>3. QED
      BY <1>1, <3>1, <3>2
  <2> DEFINE b == a = "vsc"
  <2>5. vsc' = [vsc EXCEPT ![i].ex = b] /\ b \in BOOLEAN
    BY <2>2
  <2> HIDE DEF b
  <2>6. vsc' \in [Imports -> Artifact]
    BY <1>1, <2>5 DEF Artifact
  <2>7. QED
    BY <1>1, <2>1, <2>4, <2>6
<1>5. ASSUME AttestMode(i) PROVE Goal
  BY <1>1, <1>5 DEF AttestMode, DataImport
<1>6. ASSUME ReapImport(i) PROVE Goal
  BY <1>1, <1>6 DEF ReapImport, DataImport
<1>7. ASSUME CollectArtifact(i) PROVE Goal
  BY <1>1, <1>7 DEF CollectArtifact, Artifact
<1>8. ASSUME DriverReportsSize(i) PROVE Goal
  BY <1>1, <1>2, <1>8 DEF DriverReportsSize, Artifact
<1>9. QED
  BY <1>3, <1>4, <1>5, <1>6, <1>7, <1>8 DEF OutsideStep

UploadStep(u) == Upload(u) \/ writeReconstructedChunks(u) \/ MarkReconstructed(u)

\* The steps of an upload change the checkpoint, its chunk and the upload only.
LEMMA UploadType ==
    ASSUME TypeOK, NEW u \in Uploads, UploadStep(u)
    PROVE  /\ mcp' \in [st : {"none", "new", "ready"}, info : Payloads \cup {0}]
           /\ chunk' \in Payloads \cup {0}
           /\ up' \in [Uploads -> [pc : {"idle", "chunk", "status"}, payload : Payloads \cup {0}]]
           /\ awake' \subseteq Parties /\ UNCHANGED UploadOnly
<1>1. /\ mcp \in [st : {"none", "new", "ready"}, info : Payloads \cup {0}]
      /\ chunk \in Payloads \cup {0} /\ awake \subseteq Parties
      /\ up \in [Uploads -> [pc : {"idle", "chunk", "status"}, payload : Payloads \cup {0}]]
      /\ up[u].payload \in Payloads \cup {0}
  BY DEF TypeOK
<1>2. ArtifactWake \subseteq Parties
  BY ImportAssumption DEF ArtifactWake, Parties
<1>3. CASE Upload(u)
  BY <1>1, <1>2, <1>3 DEF Upload
<1>4. CASE writeReconstructedChunks(u)
  BY <1>1, <1>2, <1>4 DEF writeReconstructedChunks
<1>5. CASE MarkReconstructed(u)
  BY <1>1, <1>2, <1>5 DEF MarkReconstructed
<1>6. QED
  BY <1>3, <1>4, <1>5 DEF UploadStep

\* An abort resets one pass, the native binding or an upload.
LEMMA AbortType ==
    ASSUME TypeOK, Abort
    PROVE  /\ aborts' \in 0..MaxAborts /\ awake' \subseteq Parties
           /\ native' \in Imports \cup {0}
           /\ pass' = pass \/ \E q \in Queues : pass' = [pass EXCEPT ![q] = NoPass]
           /\ \/ up' = up
              \/ \E u \in Uploads : up' = [up EXCEPT ![u] = [pc |-> "idle", payload |-> 0]]
           /\ UNCHANGED <<kind, leaf, content, mcp, chunk, di, vsc>>
<1>1. aborts' \in 0..MaxAborts
  BY ImportAssumption DEF Abort, TypeOK
<1>2. awake' \subseteq Parties
  BY DEF Abort, TypeOK, Parties
<1>3. native' \in Imports \cup {0}
  BY DEF Abort, TypeOK
<1>4. QED
  BY <1>1, <1>2, <1>3 DEF Abort

\* A step is one of the five kinds above, or of a pass of the content controller.
LEMMA Steps ==
    ASSUME Next
    PROVE  \/ LeafStep \/ Abort
           \/ \E q \in Queues : Resolve(q) \/ publishDataBindings(q) \/ DeriveReady(q)
           \/ \E u \in Uploads : UploadStep(u)
           \/ \E i \in Imports : OutsideStep(i)
BY DEF Next, LeafStep, ContentPass, UploadStep, OutsideStep

\* Every step keeps the types.
LEMMA TypeStep == TypeOK /\ [Next]_vars => TypeOK'
<1> SUFFICES ASSUME TypeOK, Next PROVE TypeOK'
  BY DEF TypeOK, vars
<1>1. CASE LeafStep
  <2>1. vsc' \in [Imports -> Artifact]
    <3>1. vsc \in [Imports -> Artifact]
      BY DEF TypeOK
    <3>2. CASE vsc' = vsc
      BY <3>1, <3>2
    <3>3. ASSUME NEW i \in Imports, vsc' = [vsc EXCEPT ![i].retain = TRUE]
          PROVE  vsc' \in [Imports -> Artifact]
      BY <3>1, <3>3 DEF Artifact
    <3>4. QED
      BY <1>1, <3>2, <3>3, LeafStepFacts
  <2>2. QED
    BY <1>1, <2>1, LeafStepFacts DEF TypeOK
<1>2. CASE Abort
  <2>1. pass' \in [Queues -> Pass]
    BY <1>2, AbortType, Records DEF TypeOK
  <2>2. up' \in [Uploads -> [pc : {"idle", "chunk", "status"}, payload : Payloads \cup {0}]]
    BY <1>2, AbortType DEF TypeOK
  <2>3. QED
    BY <1>2, <2>1, <2>2, AbortType DEF TypeOK
<1>3. ASSUME NEW q \in Queues, Resolve(q) PROVE TypeOK'
  <2>1. awake' \subseteq Parties
    BY <1>3, WokenType DEF Resolve
  <2>2. QED
    BY <1>3, <2>1, ResolveFacts DEF TypeOK
<1>4. ASSUME NEW q \in Queues, publishDataBindings(q) PROVE TypeOK'
  <2> DEFINE a == pass[q].new.art
             polls == q \in awake
  <2>1. Woken(q, polls)
    BY <1>4 DEF publishDataBindings
  <2>2. awake' \subseteq Parties
    BY <2>1, WokenType
  <2>3. vsc' \in [Imports -> Artifact]
    <3>1. vsc' = vsc \/ vsc' = [vsc EXCEPT ![a].owned = TRUE, ![a].retain = TRUE]
      BY <1>4, PublishFacts
    <3>2. vsc \in [Imports -> Artifact]
      BY DEF TypeOK
    <3> HIDE DEF a
    <3>3. [vsc EXCEPT ![a].owned = TRUE, ![a].retain = TRUE] \in [Imports -> Artifact]
      BY <3>2 DEF Artifact
    <3>4. QED
      BY <3>1, <3>2, <3>3
  <2>4. content' \in Content
    BY <1>4, PublishFacts DEF TypeOK
  <2>5. QED
    BY <1>4, <2>2, <2>3, <2>4, PublishFacts DEF TypeOK
<1>5. ASSUME NEW q \in Queues, DeriveReady(q) PROVE TypeOK'
  <2>1. pass' \in [Queues -> Pass]
    BY <1>5, DeriveFacts, Records DEF TypeOK
  <2>2. QED
    BY <1>5, <2>1, DeriveFacts DEF TypeOK
<1>6. ASSUME NEW u \in Uploads, UploadStep(u) PROVE TypeOK'
  BY <1>6, UploadType DEF TypeOK, UploadOnly
<1>7. ASSUME NEW i \in Imports, OutsideStep(i) PROVE TypeOK'
  BY <1>7, OutsideType DEF TypeOK, Outside
<1>8. QED
  BY <1>1, <1>2, <1>3, <1>4, <1>5, <1>6, <1>7, Steps

\* Whatever the controllers, the uploads and the world outside do, and wherever
\* they stop, the leaf, the content and the checkpoint keep their types.
THEOREM TypeCorrect == Spec => []TypeOK
<1>1. QED
  BY TypeInit, TypeStep, PTL DEF Spec

-----------------------------------------------------------------------------
(* What is published is pinned. *)

\* An artifact is there only once its DataImport has produced it.
Produced == \A i \in Imports : vsc[i].ex => di[i].art # "none"

Secured(d) == /\ d.art \in Imports
              /\ vsc[d.art].ex /\ vsc[d.art].retain /\ vsc[d.art].owned

\* A pass publishes an artifact, whatever the content said when it decided so.
Named == \A q \in Queues : pass[q].pc = "publish" => pass[q].new.art \in Imports

PinInv ==
    /\ TypeOK
    /\ Produced
    /\ Named
    /\ content.data # NoData => Secured(content.data)
    /\ leaf.data # NoData => Secured(leaf.data)

\* The steps outside neither take away a secured artifact nor make one that no
\* DataImport produced.
LEMMA OutsideSecures ==
    ASSUME TypeOK, Produced, NEW i \in Imports, OutsideStep(i)
    PROVE  /\ Produced'
           /\ \A j \in Imports : vsc[j].ex /\ vsc[j].retain /\ vsc[j].owned
                 => vsc'[j].ex /\ vsc'[j].retain /\ vsc'[j].owned
<1>1. di \in [Imports -> DataImport] /\ vsc \in [Imports -> Artifact]
  BY DEF TypeOK
<1> DEFINE Goal == /\ Produced'
                   /\ \A j \in Imports : vsc[j].ex /\ vsc[j].retain /\ vsc[j].owned
                         => vsc'[j].ex /\ vsc'[j].retain /\ vsc'[j].owned
<1>2. ASSUME CreateImport(i) PROVE Goal
  BY <1>1, <1>2 DEF CreateImport, DataImport, Artifact, Produced
<1>3. ASSUME Produce(i) PROVE Goal
  <2>1. ~vsc[i].ex
    BY <1>3 DEF Produce, Produced
  <2>2. PICK a \in Artifacts, uid \in BOOLEAN :
           /\ di' = [di EXCEPT ![i].art = a, ![i].uid = uid]
           /\ vsc' = [vsc EXCEPT ![i].ex = (a = "vsc")]
    BY <1>3 DEF Produce
  <2>3. a # "none"
    BY ImportAssumption
  <2>4. /\ di'[i].art = a
        /\ \A j \in Imports : j # i => di'[j] = di[j] /\ vsc'[j] = vsc[j]
    BY <1>1, <2>2 DEF DataImport
  <2>5. QED
    BY <2>1, <2>3, <2>4 DEF Produced
<1>4. ASSUME AttestMode(i) PROVE Goal
  BY <1>1, <1>4 DEF AttestMode, DataImport, Artifact, Produced
<1>5. ASSUME ReapImport(i) PROVE Goal
  BY <1>1, <1>5 DEF ReapImport, DataImport, Artifact, Produced
<1>6. ASSUME CollectArtifact(i) PROVE Goal
  BY <1>1, <1>6 DEF CollectArtifact, DataImport, Artifact, Produced
<1>7. ASSUME DriverReportsSize(i) PROVE Goal
  BY <1>1, <1>7 DEF DriverReportsSize, DataImport, Artifact, Produced
<1>8. QED
  BY <1>2, <1>3, <1>4, <1>5, <1>6, <1>7 DEF OutsideStep

\* Handing an artifact over, or pinning it, leaves the others alone.
LEMMA Handoff ==
    ASSUME TypeOK, NEW a \in Imports,
           \/ vsc' = [vsc EXCEPT ![a].owned = TRUE, ![a].retain = TRUE]
           \/ vsc' = [vsc EXCEPT ![a].retain = TRUE]
    PROVE  /\ \A j \in Imports : vsc'[j].ex = vsc[j].ex
           /\ \A j \in Imports : vsc[j].ex /\ vsc[j].retain /\ vsc[j].owned
                 => vsc'[j].ex /\ vsc'[j].retain /\ vsc'[j].owned
BY DEF TypeOK, Artifact

\* A pass that is reset has nothing to publish.
LEMMA NamedReset ==
    ASSUME TypeOK, Named, NEW q \in Queues, pass' = [pass EXCEPT ![q] = NoPass]
    PROVE  Named'
BY Records DEF TypeOK, Named

\* Every step keeps the invariant.
LEMMA PinStep == PinInv /\ [Next]_vars => PinInv'
<1>1. CASE PinInv /\ UNCHANGED vars
  BY <1>1 DEF PinInv, TypeOK, Produced, Named, Secured, vars
<1> SUFFICES ASSUME PinInv, Next PROVE PinInv'
  BY <1>1
<1>2. TypeOK /\ TypeOK' /\ Produced /\ Named
  BY TypeStep DEF PinInv
<1> DEFINE Safe(i) == vsc[i].ex /\ vsc[i].retain /\ vsc[i].owned
           Same == content'.data = content.data /\ leaf'.data = leaf.data
           Pinned == /\ content'.data # NoData => Secured(content.data)'
                     /\ leaf'.data # NoData => Secured(leaf.data)'
<1>3. ASSUME \A i \in Imports : Safe(i) => Safe(i)',
             content'.data = content.data,
             leaf'.data = leaf.data \/ (content.data # NoData /\ leaf'.data = content.data)
      PROVE  Pinned
  BY <1>3 DEF PinInv, Secured
<1>4. CASE LeafStep
  <2>1. (\A i \in Imports : Safe(i) => Safe(i)') /\ Produced'
    <3>1. CASE vsc' = vsc
      BY <1>2, <1>4, <3>1, LeafStepFacts DEF Produced
    <3>2. ASSUME NEW i \in Imports, vsc' = [vsc EXCEPT ![i].retain = TRUE]
          PROVE  (\A j \in Imports : Safe(j) => Safe(j)') /\ Produced'
      BY <1>2, <1>4, <3>2, Handoff, LeafStepFacts DEF Produced
    <3>3. QED
      BY <1>2, <1>4, <3>1, <3>2, LeafStepFacts
  <2>2. Pinned
    BY <1>2, <1>3, <1>4, <2>1, LeafStepFacts
  <2>3. Named'
    BY <1>2, <1>4, LeafStepFacts DEF Named
  <2>4. QED
    BY <1>2, <2>1, <2>2, <2>3 DEF PinInv
<1>5. CASE Abort
  <2>1. (\A i \in Imports : Safe(i) => Safe(i)') /\ Produced' /\ Same
    BY <1>2, <1>5, AbortType DEF Produced
  <2>2. Named'
    BY <1>2, <1>5, AbortType, NamedReset DEF Named
  <2>3. QED
    BY <1>2, <1>3, <2>1, <2>2 DEF PinInv
<1>6. ASSUME NEW q \in Queues, Resolve(q) PROVE PinInv'
  <2>1. (\A i \in Imports : Safe(i) => Safe(i)') /\ Produced' /\ Same
    BY <1>2, <1>6, ResolveFacts DEF Produced
  <2>2. Decision.new # NoData => Decision.new.art \in Imports
    BY <1>2, DecisionFacts DEF PinInv, Secured
  <2>3. Named'
    BY <1>2, <1>6, <2>2, ResolveFacts DEF Named
  <2>4. QED
    BY <1>2, <1>3, <2>1, <2>3 DEF PinInv
<1>7. ASSUME NEW q \in Queues, publishDataBindings(q) PROVE PinInv'
  <2> DEFINE a == pass[q].new.art
  <2>1. a \in Imports
    BY <1>2, <1>7, PublishFacts DEF Named
  <2>2. Named'
    BY <1>2, <1>7, PublishFacts DEF Named
  <2>3. CASE content' = content /\ vsc' = vsc
    <3>1. (\A i \in Imports : Safe(i) => Safe(i)') /\ Produced' /\ Same
      BY <1>2, <1>7, <2>3, PublishFacts DEF Produced
    <3>2. QED
      BY <1>2, <1>3, <2>2, <3>1 DEF PinInv
  <2>4. CASE /\ vsc[a].ex /\ content'.data.art = a
             /\ vsc' = [vsc EXCEPT ![a].owned = TRUE, ![a].retain = TRUE]
    <3>1. (\A i \in Imports : Safe(i) => Safe(i)') /\ Produced' /\ leaf' = leaf
      BY <1>2, <1>7, <2>1, <2>4, Handoff, PublishFacts DEF Produced
    <3>2. vsc'[a].ex /\ vsc'[a].retain /\ vsc'[a].owned
      <4>1. vsc \in [Imports -> Artifact] /\ vsc[a] \in Artifact
        BY <1>2, <2>1 DEF TypeOK
      <4> HIDE DEF a
      <4>2. vsc'[a] = [vsc[a] EXCEPT !.owned = TRUE, !.retain = TRUE]
        BY <2>1, <2>4, <4>1
      <4>3. QED
        BY <2>4, <4>1, <4>2 DEF Artifact
    <3>3. Secured(content.data)' /\ (leaf'.data # NoData => Secured(leaf.data)')
      BY <2>1, <2>4, <3>1, <3>2 DEF Secured, PinInv
    <3>4. QED
      BY <1>2, <2>2, <3>1, <3>3 DEF PinInv
  <2>5. QED
    BY <1>2, <1>7, <2>3, <2>4, PublishFacts
<1>8. ASSUME NEW q \in Queues, DeriveReady(q) PROVE PinInv'
  <2>1. (\A i \in Imports : Safe(i) => Safe(i)') /\ Produced' /\ Same
    BY <1>2, <1>8, DeriveFacts DEF Produced
  <2>2. Named'
    BY <1>2, <1>8, DeriveFacts, NamedReset
  <2>3. QED
    BY <1>2, <1>3, <2>1, <2>2 DEF PinInv
<1>9. ASSUME NEW u \in Uploads, UploadStep(u) PROVE PinInv'
  BY <1>2, <1>9, UploadType DEF PinInv, Produced, Named, Secured, UploadOnly
<1>10. ASSUME NEW i \in Imports, OutsideStep(i) PROVE PinInv'
  <2>1. UNCHANGED Outside /\ Produced' /\ \A j \in Imports : Safe(j) => Safe(j)'
    BY <1>2, <1>10, OutsideSecures, OutsideType
  <2>2. Same /\ Named'
    BY <1>2, <2>1 DEF Outside, Named
  <2>3. QED
    BY <1>2, <1>3, <2>1, <2>2 DEF PinInv
<1>11. QED
  BY <1>4, <1>5, <1>6, <1>7, <1>8, <1>9, <1>10, Steps

\* The invariant holds throughout, with any number of queues.
LEMMA PinAlways == Spec => []PinInv
<1>1. Init => PinInv
  <2> SUFFICES ASSUME Init PROVE PinInv
    OBVIOUS
  <2>1. TypeOK /\ content.data = NoData /\ leaf.data = NoData
    BY TypeInit DEF Init
  <2>2. Produced /\ Named
    BY Records DEF Init, Produced, Named
  <2>3. QED
    BY <2>1, <2>2 DEF PinInv
<1>2. QED
  BY <1>1, PinStep, PTL DEF Spec

\* What an imported leaf publishes exists, is pinned to Retain and belongs to the
\* content, for every interleaving of the binder, the native import and the
\* passes of both queues with the reaping of the DataImports.
THEOREM PublishedPinned == Spec => []PublishedIsPinned
<1>1. PinInv => PublishedIsPinned
  BY DEF PinInv, Secured, PublishedIsPinned
<1>2. QED
  BY <1>1, PinAlways, PTL

-----------------------------------------------------------------------------
(* What is Ready is readable. *)

\* An upload that is past its chunk left one there, and so did the one that
\* made the checkpoint Ready.
ReadInv ==
    /\ TypeOK
    /\ \A u \in Uploads : up[u].pc # "idle" => up[u].payload # 0
    /\ \A u \in Uploads : up[u].pc = "status" => chunk # 0
    /\ mcp.st = "ready" => mcp.info # 0 /\ chunk # 0

\* The invariant holds throughout: uploads write the chunk before the status.
LEMMA ReadAlways == Spec => []ReadInv
<1>1. Init => ReadInv
  BY TypeInit DEF Init, ReadInv
<1>2. ReadInv /\ [Next]_vars => ReadInv'
  <2>1. CASE ReadInv /\ UNCHANGED vars
    BY <2>1 DEF ReadInv, TypeOK, vars
  <2> SUFFICES ASSUME ReadInv, Next PROVE ReadInv'
    BY <2>1
  <2>2. TypeOK /\ TypeOK' /\ 0 \notin Payloads
    BY TypeStep, ImportAssumption DEF ReadInv
  <2>3. CASE UNCHANGED <<mcp, chunk, up>>
    BY <2>2, <2>3 DEF ReadInv
  <2>4. CASE Abort
    <3>1. mcp' = mcp /\ chunk' = chunk
      BY <2>2, <2>4, AbortType
    <3>2. \A u \in Uploads : up'[u] = up[u] \/ up'[u].pc = "idle"
      BY <2>2, <2>4, AbortType DEF TypeOK
    <3>3. QED
      BY <2>2, <3>1, <3>2 DEF ReadInv
  <2>5. ASSUME NEW u \in Uploads, Upload(u) PROVE ReadInv'
    <3>1. PICK p \in Payloads : up' = [up EXCEPT ![u] = [pc |-> "chunk", payload |-> p]]
      BY <2>5 DEF Upload
    <3>2. /\ up'[u].pc = "chunk" /\ up'[u].payload = p
          /\ \A v \in Uploads : v # u => up'[v] = up[v]
      BY <2>2, <3>1 DEF TypeOK
    <3>3. chunk' = chunk /\ mcp'.st = "new"
      BY <2>2, <2>5 DEF Upload, TypeOK
    <3>4. QED
      BY <2>2, <3>2, <3>3 DEF ReadInv
  <2>6. ASSUME NEW u \in Uploads, writeReconstructedChunks(u) PROVE ReadInv'
    <3>1. chunk' # 0 /\ mcp' = mcp
      BY <2>6 DEF writeReconstructedChunks, ReadInv
    <3>2. \A v \in Uploads : up'[v].payload = up[v].payload /\ (up'[v].pc # "idle" => up[v].pc # "idle")
      BY <2>2, <2>6 DEF writeReconstructedChunks, TypeOK
    <3>3. QED
      BY <2>2, <3>1, <3>2 DEF ReadInv
  <2>7. ASSUME NEW u \in Uploads, MarkReconstructed(u) PROVE ReadInv'
    <3>1. chunk' = chunk /\ chunk # 0 /\ up[u].payload # 0
      BY <2>7 DEF MarkReconstructed, ReadInv
    <3>2. mcp' = mcp \/ mcp'.info = up[u].payload
      BY <2>7 DEF MarkReconstructed
    <3>3. \A v \in Uploads : up'[v] = up[v] \/ up'[v].pc = "idle"
      BY <2>2, <2>7 DEF MarkReconstructed, TypeOK
    <3>4. QED
      BY <2>2, <3>1, <3>2, <3>3 DEF ReadInv
  <2>8. QED
    <3>1. LeafStep => UNCHANGED <<mcp, chunk, up>>
      BY <2>2, LeafStepFacts
    <3>2. ASSUME NEW q \in Queues, Resolve(q) \/ publishDataBindings(q) \/ DeriveReady(q)
          PROVE  UNCHANGED <<mcp, chunk, up>>
      BY <2>2, <3>2, ResolveFacts, PublishFacts, DeriveFacts
    <3>3. ASSUME NEW i \in Imports, OutsideStep(i) PROVE UNCHANGED <<mcp, chunk, up>>
      BY <2>2, <3>3, OutsideType DEF Outside
    <3>4. QED
      BY <2>3, <2>4, <2>5, <2>6, <2>7, <3>1, <3>2, <3>3, Steps DEF UploadStep
<1>3. QED
  BY <1>1, <1>2, PTL DEF Spec

\* Uploads of the same manifests, however many run at a time and wherever they
\* stop, leave a checkpoint that is Ready only with the chunk its checksum is of.
THEOREM ReadableWhenReady ==
    ASSUME NEW CONSTANT p, Payloads = {p}
    PROVE  Spec => []ReadyIsReadable
<1>1. ReadInv => ReadyIsReadable
  BY DEF ReadInv, TypeOK, ReadyIsReadable
<1>2. QED
  BY <1>1, ReadAlways, PTL

-----------------------------------------------------------------------------
(* What the DataImport attested is kept. *)

\* No other DataImport was ever created for the leaf.
Sole(a) == \A i \in Imports : di[i].st # "none" => i = a

Attested(d) == d.meta \subseteq importVolumeMetadataFromDataImport(d.art)

\* What a pass is about to publish is attested too, and no less than what the
\* content says of the same artifact.
Carried(q) ==
    LET new == pass[q].new IN
    pass[q].pc = "publish" =>
        /\ Sole(new.art) => Attested(new)
        /\ ( /\ content.data # NoData /\ Sole(content.data.art)
             /\ new.art = content.data.art )
             => content.data.meta \subseteq new.meta

MetaInv ==
    /\ PinInv
    /\ \A i \in Imports : di[i].art # "none" => di[i].st # "none"
    /\ content.data # NoData /\ Sole(content.data.art) => Attested(content.data)
    /\ \A q \in Queues : Carried(q)

\* A DataImport that was created is never forgotten, and takes back neither its
\* artifact nor what it attests.
LEMMA ImportsGrow ==
    ASSUME TypeOK, NEW i \in Imports, OutsideStep(i)
    PROVE  \A j \in Imports : /\ di[j].st # "none" => di'[j].st # "none"
                              /\ di[j].mode => di'[j].mode
                              /\ \/ di'[j].art = di[j].art
                                 \/ di'[j].st # "none"
<1>1. di \in [Imports -> DataImport]
  BY DEF TypeOK
<1> DEFINE Goal == \A j \in Imports : /\ di[j].st # "none" => di'[j].st # "none"
                                      /\ di[j].mode => di'[j].mode
                                      /\ \/ di'[j].art = di[j].art
                                         \/ di'[j].st # "none"
<1>2. ASSUME CreateImport(i) PROVE Goal
  BY <1>1, <1>2 DEF CreateImport, DataImport
<1>3. ASSUME Produce(i) PROVE Goal
  <2>1. PICK a \in Artifacts, uid \in BOOLEAN : di' = [di EXCEPT ![i].art = a, ![i].uid = uid]
    BY <1>3 DEF Produce
  <2>2. /\ di'[i].st = di[i].st /\ di'[i].mode = di[i].mode
        /\ \A j \in Imports : j # i => di'[j] = di[j]
    BY <1>1, <2>1 DEF DataImport
  <2>3. di[i].st = "live"
    BY <1>3 DEF Produce
  <2>4. QED
    BY <2>2, <2>3
<1>4. ASSUME AttestMode(i) PROVE Goal
  BY <1>1, <1>4 DEF AttestMode, DataImport
<1>5. ASSUME ReapImport(i) PROVE Goal
  BY <1>1, <1>5 DEF ReapImport, DataImport
<1>6. ASSUME CollectArtifact(i) \/ DriverReportsSize(i) PROVE Goal
  BY <1>6 DEF CollectArtifact, DriverReportsSize
<1>7. QED
  BY <1>2, <1>3, <1>4, <1>5, <1>6 DEF OutsideStep

\* With one queue every step keeps the invariant, and the metadata.
LEMMA MetaStep ==
    ASSUME Queues = {"content"}, MetaInv, [Next]_vars
    PROVE  /\ MetaInv'
           /\ ( /\ content.data # NoData /\ content'.data.art = content.data.art
                /\ Sole(content.data.art) )
                => content.data.meta \subseteq content'.data.meta
<1> DEFINE Goal ==
           /\ MetaInv'
           /\ ( /\ content.data # NoData /\ content'.data.art = content.data.art
                /\ Sole(content.data.art) )
                => content.data.meta \subseteq content'.data.meta
           M(i) == importVolumeMetadataFromDataImport(i)
           Created == \A i \in Imports : di[i].art # "none" => di[i].st # "none"
           d == content.data
<1>1. /\ PinInv /\ PinInv' /\ TypeOK /\ TypeOK' /\ Created
      /\ d # NoData => d.art \in Imports
      /\ \A q \in Queues : pass[q].pc = "publish" => pass[q].new.art \in Imports
  BY PinStep DEF MetaInv, PinInv, Named, Secured
<1>2. ASSUME UNCHANGED di, content'.data = content.data,
             \A q \in Queues : pass'[q] = pass[q] \/ pass'[q].pc # "publish"
      PROVE  Goal
  <2>1. Created'
    BY <1>1, <1>2
  <2>2. \A a : (Sole(a)' <=> Sole(a)) /\ importVolumeMetadataFromDataImport(a)' = M(a)
    BY <1>2 DEF Sole, importVolumeMetadataFromDataImport
  <2>3. content'.data # NoData /\ Sole(content.data.art)' => Attested(content.data)'
    BY <1>2, <2>2 DEF MetaInv, Attested, Sole, importVolumeMetadataFromDataImport
  <2>4. \A q \in Queues : Carried(q)'
    BY <1>2 DEF MetaInv, Carried, Attested, Sole, importVolumeMetadataFromDataImport
  <2>5. QED
    BY <1>1, <1>2, <2>1, <2>3, <2>4 DEF MetaInv
<1> HIDE DEF Goal
<1>3. ASSUME UNCHANGED vars PROVE Goal
  BY <1>2, <1>3 DEF vars
<1>4. ASSUME LeafStep PROVE Goal
  BY <1>1, <1>2, <1>4, LeafStepFacts
<1>5. ASSUME Abort PROVE Goal
  <2>1. \A q \in Queues : pass'[q] = pass[q] \/ pass'[q].pc # "publish"
    BY <1>1, <1>5, AbortType, Records DEF TypeOK
  <2>2. QED
    BY <1>1, <1>2, <1>5, <2>1, AbortType
<1>6. ASSUME NEW q \in Queues, DeriveReady(q) PROVE Goal
  <2>1. \A r \in Queues : pass'[r] = pass[r] \/ pass'[r].pc # "publish"
    BY <1>1, <1>6, DeriveFacts, Records DEF TypeOK
  <2>2. QED
    BY <1>1, <1>2, <1>6, <2>1, DeriveFacts
<1>7. ASSUME NEW u \in Uploads, UploadStep(u) PROVE Goal
  BY <1>1, <1>2, <1>7, UploadType DEF UploadOnly
<1>8. ASSUME NEW i \in Imports, OutsideStep(i) PROVE Goal
  <2>1. /\ content' = content /\ pass' = pass
        /\ \A j \in Imports : /\ di[j].st # "none" => di'[j].st # "none"
                              /\ di[j].mode => di'[j].mode
                              /\ di'[j].art = di[j].art \/ di'[j].st # "none"
    BY <1>1, <1>8, OutsideType, ImportsGrow DEF Outside
  <2>2. \A a : Sole(a)' => Sole(a)
    BY <2>1 DEF Sole
  <2>3. \A a \in Imports : M(a) \subseteq importVolumeMetadataFromDataImport(a)'
    BY <2>1 DEF importVolumeMetadataFromDataImport
  <2>4. Created'
    BY <1>1, <2>1
  <2>5. content'.data # NoData /\ Sole(content.data.art)' => Attested(content.data)'
    BY <1>1, <2>1, <2>2, <2>3 DEF MetaInv, Attested
  <2>6. \A q \in Queues : Carried(q)'
    BY <1>1, <2>1, <2>2, <2>3 DEF MetaInv, Carried, Attested
  <2>7. MetaInv'
    BY <1>1, <2>4, <2>5, <2>6 DEF MetaInv
  <2>8. QED
    BY <2>1, <2>7 DEF Goal
<1>9. ASSUME NEW q \in Queues, Resolve(q) PROVE Goal
  <2> DEFINE new == Decision.new
             i == FindDataImportForLeaf
  <2>1. /\ content'.data = d /\ di' = di /\ pass'[q].new = new /\ q = "content"
        /\ pass'[q].pc = "publish" => new # NoData
    BY <1>1, <1>9, ResolveFacts
  <2>2. i # 0 => i \in Imports /\ di[i].st # "none"
    BY TheImport DEF Live
  <2>3. new # NoData => \/ i # 0 /\ new.meta = M(i)
                        \/ i = 0 /\ new.meta = d.meta
    BY <1>1, DecisionFacts
  <2>4. d # NoData => di[d.art].st # "none"
    BY <1>1 DEF PinInv, Secured, Produced
  <2>5. d # NoData /\ Sole(d.art) => d.meta \subseteq M(d.art)
    BY DEF MetaInv, Attested
  <2>6. new # NoData /\ Sole(new.art) => new.meta \subseteq M(new.art)
    <3>1. ASSUME new # NoData, Sole(new.art), i # 0 PROVE new.meta \subseteq M(new.art)
      BY <2>2, <2>3, <3>1 DEF Sole
    <3>2. ASSUME new # NoData, Sole(new.art), i = 0, d # NoData
          PROVE  new.meta \subseteq M(new.art)
      <4>1. d.art = new.art
        BY <1>1, <2>4, <3>2 DEF Sole
      <4>2. QED
        BY <2>3, <2>5, <3>2, <4>1
    <3>3. ASSUME new # NoData, i = 0, d = NoData PROVE new.meta \subseteq M(new.art)
      BY <2>3, <3>3, Records
    <3>4. QED
      BY <3>1, <3>2, <3>3
  <2>7. new # NoData /\ d # NoData /\ Sole(d.art) => d.meta \subseteq new.meta
    BY <2>2, <2>3, <2>5 DEF Sole
  <2> HIDE DEF new, i
  <2>8. d # NoData /\ Sole(content.data.art)' => Attested(content.data)'
    BY <2>1, <2>5 DEF Attested, Sole, importVolumeMetadataFromDataImport
  <2>9. \A r \in Queues : Carried(r)'
    BY <2>1, <2>6, <2>7 DEF Carried, Attested, Sole, importVolumeMetadataFromDataImport
  <2>10. Created'
    BY <1>1, <2>1
  <2>11. MetaInv'
    BY <1>1, <2>1, <2>8, <2>9, <2>10 DEF MetaInv
  <2>12. QED
    BY <2>1, <2>11 DEF Goal
<1>10. ASSUME NEW q \in Queues, publishDataBindings(q) PROVE Goal
  <2> DEFINE b == pass[q].new
  <2>1. /\ di' = di /\ \A r \in Queues : pass'[r].pc # "publish"
        /\ pass[q].pc = "publish"
        /\ \/ content' = content
           \/ content'.data.art = b.art /\ content'.data.meta = b.meta
    BY <1>1, <1>10, PublishFacts
  <2>2. CASE content' = content
    BY <1>2, <2>1, <2>2
  <2>3. CASE content'.data.art = b.art /\ content'.data.meta = b.meta
    <3>1. Sole(b.art) => b.meta \subseteq M(b.art)
      BY <2>1 DEF MetaInv, Carried, Attested
    <3>2. d # NoData /\ Sole(d.art) /\ b.art = d.art => d.meta \subseteq b.meta
      BY <2>1 DEF MetaInv, Carried
    <3>3. Sole(content.data.art)' => Attested(content.data)'
      BY <2>1, <2>3, <3>1 DEF Attested, Sole, importVolumeMetadataFromDataImport
    <3>4. Created'
      BY <1>1, <2>1
    <3>5. MetaInv'
      BY <1>1, <2>1, <3>3, <3>4 DEF MetaInv, Carried
    <3>6. QED
      BY <2>3, <3>2, <3>5 DEF Goal
  <2>4. QED
    BY <2>1, <2>2, <2>3
<1>11. QED
  BY <1>3, <1>4, <1>5, <1>6, <1>7, <1>8, <1>9, <1>10, Steps DEF Goal

\* With one queue the metadata that only the DataImport of the leaf knew never
\* leaves the content again, whether the import is reaped before the driver has
\* reported the size or the artifact is published a second time.
THEOREM MetadataKept ==
    ASSUME Queues = {"content"}
    PROVE  Spec => MetaIsKept
<1>1. Init => MetaInv
  <2> SUFFICES ASSUME Init PROVE MetaInv
    OBVIOUS
  <2>1. TypeOK /\ content.data = NoData /\ leaf.data = NoData
    BY TypeInit DEF Init
  <2>2. \A q \in Queues : pass[q].pc # "publish"
    BY Records DEF Init
  <2>3. Produced /\ Named /\ \A i \in Imports : di[i].art = "none"
    BY <2>2 DEF Init, Produced, Named
  <2>4. QED
    BY <2>1, <2>2, <2>3 DEF MetaInv, Carried, PinInv
<1>2. MetaInv /\ [Next]_vars => MetaInv'
  BY MetaStep
<1>3. MetaInv /\ [Next]_vars =>
        [( /\ content.data # NoData /\ content'.data.art = content.data.art
           /\ \A i \in Imports : di[i].st # "none" => i = content.data.art )
            => content.data.meta \subseteq content'.data.meta]_vars
  BY MetaStep DEF Sole
<1>4. QED
  BY <1>1, <1>2, <1>3, PTL DEF Spec, MetaIsKept
=============================================================================
