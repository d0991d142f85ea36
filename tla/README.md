# state-snapshotter: verification project

state-snapshotter is a Kubernetes module that captures a namespace, or one
domain resource with everything below it, as a tree of snapshots: the manifests
of the objects go into `ManifestCheckpoint`s, their volumes into
`VolumeSnapshotContent`s, and the cluster-scoped tree of `SnapshotContent`
objects holds both and outlives the namespaced snapshots. It has no database and
no protocol of its own. Its state is a dozen Kubernetes objects, and its
correctness is a matter of which controller writes which field in which order,
over copies that may be old. That is what this directory models.

All paths below are relative to `src/`; `controllers/` stands for
`images/state-snapshotter-controller/internal/controllers/`.

## 1. The system

### Components, their state and their operations

| Component | State it keeps | Operations | Interacts through |
|---|---|---|---|
| Manifest capture executor (`controllers/manifestcapture/checkpoint_controller.go`) | MCR `Ready`, `checkpointName`; ObjectKeeper; MCP and its chunks | reconcile of one MCR, TTL scanner | cached reads, optimistic and merge patches |
| Request cleanup (`controllers/manifestcapture/request_cleanup.go`) | none | durability gate before an MCR is deleted | live reads of MCR, MCP, content |
| SnapshotContent controller (`controllers/snapshotcontent/`) | content status: edges, checkpoint name, data, conditions, `subtreeManifestsPersisted`; owner latches and mirrored `Ready` | one reconcile of five stages; the data leg of an import | watches on contents, artifacts, requests and, per snapshot kind, on snapshots |
| Content teardown (`controllers/snapshotcontent/controller.go`, `reclaim.go`, `controllers/snapshot/controller.go`) | finalizers, root ObjectKeeper, deletion policy of volume artifacts | deletion handler of a content, deletion of the root snapshot | ownership, the garbage collector, the CSI sidecar |
| Snapshot SDK (`pkg/snapshotsdk/`) | `captureState.domainSpecificController` of a snapshot: phase, children, request names | EnsureChildren, EnsureVolumeCapture, EnsureManifestCapture, phase transitions, CoreCaptureOutcome, subtree walk | called from domain controllers |
| Namespace snapshot controller (`controllers/snapshot/`) | the same fields on the root snapshot | planning in weight layers, orphan VolumeSnapshot wave, freeze, subtree-ordered capture, deletion | the SDK's fields; lists of the namespace |
| Generic binder (`controllers/genericbinder/`) | content object, bound name, ObjectKeepers | create and bind the content top-down, consistency checks, import | snapshot and content watches |
| VolumeSnapshot import controller (`controllers/volumesnapshotimport/`) | legacy binding, source and data of an imported VolumeSnapshot | bind, verify the manifests, mirror the content's data | polling, watches on VolumeSnapshots |
| Import upload (`internal/usecase/import_upload.go`, `import_manifest_reconstruct.go`) | reconstructed MCP and chunks | upload over HTTP, resumable | create-if-absent, optimistic status update |
| Restore and archive (`internal/usecase/restore/`, `archive_service.go`) | none | resolve the tree, load the checkpoints, transform | live reads |
| Volume request cleanup (`controllers/volumecapture/`) | none | gate and projection of a VCR's result | reads of VCR, VSC |
| Subtree identities, covered volumes (`internal/usecase/`) | none | which objects and volumes the subtree captured already | read by aggregators |
| CSD registry and unified runtime, backfill, webhooks, hooks | see `PROJECT.json` | | |

### How a capture goes

1. A snapshot appears. Its domain (the namespace controller for the root, a
   domain controller through the SDK elsewhere) plans: it creates and declares
   child snapshots and places a manifest and, if it has a volume, a volume
   request, and announces the end of planning with `phase=Planned` (barrier 1).
2. The binder creates the content of each claimed snapshot, the parent's first.
3. The executor turns the manifest request into a checkpoint with chunks,
   kept alive by an ObjectKeeper that follows the request.
4. The SnapshotContent controller copies declared children, checkpoint name and
   data result from the owner to the content, takes the checkpoint over
   (ownership moves from the keeper to the content), derives `Ready`, sets the
   latches of the owner, deletes the finished requests and mirrors `Ready`.
5. An aggregator (the root) captures its own manifests last, and leaves out
   everything its subtree captured already.
6. The domain sees its legs latched and writes `phase=Finished` (barrier 2),
   after which the mirror may show `Ready=True`.

Afterwards the tree can be restored (the restore API walks snapshots and contents and loads
every checkpoint) and deleted (the root's ObjectKeeper expires, every content runs its deletion
handler and reclaims its artifact). An import builds the same tree without capturing: manifests
are uploaded, volumes come from DataImports.

### What is hard

- Every controller reads informer caches, so what it decides on may be old; some
  writes carry a resource version and fail when it is, others are merge patches
  that land regardless.
- One reconcile is many API calls; everybody else moves between two of them.
- `addSnapshotStatusWatchLocked` builds a further controller with its own work
  queue for every snapshot kind over the same Reconcile, so one content may be
  reconciled by two workers at once.
- The important fields are one-way latches. A latch that is set too early
  is wrong for ever.
- Nothing polls in general. A tree reaches its final state only if every
  change wakes somebody, one level up at a time.
- Ownership decides what the garbage collector removes: between the creation of
  a checkpoint and its handoff it lives only as long as its request.

The list `hazards` of `PROJECT.json` places each of these at its line and names the
properties that watch it.

### What makes each part correct

- Executor: a Ready checkpoint is whole and of one reading (no mixture of chunks
  of different passes); a captured or completed request has a checkpoint the
  garbage collector leaves alone; terminal stays terminal; every request ends.
- Content tree: a latch covers what it claims; `Ready` climbs from the leaves;
  a snapshot says `Ready` only for a content that was ready and a domain that
  finished; a request is deleted only when its result is durable; a loss
  or deletion anywhere becomes visible at the top; every capture ends.
- Teardown: the data of a live content is never taken away, no content goes before its
  artifact has been told to go, and in the end nothing is left.
- Restore: an answer is whole or there is none.
- Import: what is published exists, is pinned and owned; what only a DataImport knew survives
  it; an import that has all its parts is served to the end.
- Planning: every object of the namespace is captured by somebody, a volume by one member only;
  the set is frozen before anything is asked for, and asked for once; the root ends.

## 2. Modules

| Module | What it is |
|---|---|
| `ManifestCapture` | one manifest request, API call by API call, with informer caches |
| `ContentTree` | a tree of snapshots and contents, reconcile pass by reconcile pass |
| `ContentTeardown` | the same tree from binding to removal, with finalizers, artifacts and a restore reading it |
| `ImportLeaf` | the import of one data leaf by three controllers, uploads and DataImports |
| `NamespacePlan` | how the root decides what it consists of, over a namespace that changes |
| `PointInTime` | abstract specification: what a namespace snapshot promises about time; `NamespacePlan` implements it |
| `CaptureLeg` | abstract specification: what one manifest request promises; `ManifestCapture` implements it when caches do not trail, and so does every undisturbed manifest leg of `ContentTree` |
| `ManifestCaptureProofs`, `ContentTreeProofs`, `ContentTreeDataProofs`, `ContentTreeWholeProofs`, `ContentTreeLegProofs`, `ContentTeardownProofs`, `ImportLeafProofs`, `NamespacePlanProofs` | theorems and their inductive invariants |
| `MC...` | the small sets of the configurations, one module per specification |

The specifications meet at the objects they share. `ContentTree!CaptureManifest` is a single step
for what `ManifestCapture` spells out, and `ManifestCapture!PublishCheckpointName`,
`ensureManifestCheckpointOwnedByContent`, `LatchManifestCaptured` and `ReapRequest` are the four
places where the content controller touches the request. Both implement `CaptureLeg`: `ManifestCapture` call by
call (`IsCaptureLeg`), `ContentTree` for each of its snapshots (`LegsAreCaptureLegs`). `NamespacePlan` has one step where
`ContentTree` has the pass of a member (`PersistManifests`, `LatchSubtreePlanned`);
`ContentTeardown` reduces readiness, which `ContentTree` spells out, to what the restore walk asks
for. Definitions carry the names of the Go functions wherever there is one; `map` in
`PROJECT.json` gives the lines of each. A definition whose comment begins with "Mutant" is a
plausible mistake in its neighbour, kept to show that a property notices it.

### ManifestCapture

State: the source objects `src`, the API server's `mcr`, `keeper`, `mcp`, `chunk`;
for each a cached copy (`mcrC`, `keeperC`, `mcpC`, `chunkC`); the content's
`published` name and the owner's `captured` latch; and the local variables of the
running reconcile (`pc`, `next`, `lm`, `lp`, `cpHeld`, `objs`).

- Each API call of `Reconcile`/`processCaptureRequest` is one action, named after
  the function or the step, with one more action for its error return. A
  `pc` value names the next call. The order of calls, early returns and the
  split into terminal failures (request and checkpoint `Failed`) and transient
  ones (return the error, requeue) follow the code.
- A typed `Get` reads the cached copy. `Lag = FALSE` makes the copy follow each
  write at once, `Lag = TRUE` leaves it to the `Sync*` actions. Instead of
  version numbers, `mcrFresh`, `mcpFresh` and `cpHeld` record whether a copy has the
  current resource version: optimistic writes (`SetProcessing`,
  `markMCRCheckpointPendingHandoff`, the checkpoint's status updates) need it,
  the merge patch of `finalizeMCR` does not.
- `Rejects` is the set of object contents whose chunk the API server refuses for good.
  A refused `Create` that the code does not retry is recorded in `createErr`.
- Beside the executor run the content controller's four actions, the TTL scanner
  (`ExpireRequest`; time is left out, so it may act at any moment after the request
  is terminal), the ObjectKeeper controller, the garbage collector, a user who
  changes or deletes a source object, and restarts of the process.

Abstractions: a chunk carries exactly one target, and its checksum is its content;
packing, encoding and compression are left out. The Ready condition is its reason.
Messages count only as a possible move of the resource version (`ProgressMessage`).
The content controller's own passes are atomic here; their staleness is the subject
of `ContentTree`.

`CaptureLeg` says what all these calls amount to: one copy, written at once, handed over while the request is
open and before anything counts on it, never altered or taken back. `IsCaptureLeg` is its specification under
the mapping of `ManifestCapture`'s state (a checkpoint is a copy once it is Ready). Its `Latch` may take the request
along, as one pass of `ContentTree` does.

### ContentTree

State per node: the snapshot (`snap`: phase, declared children, request names, latches,
`Ready`), its content (`content`: edges, name, data, persist latch, the three legs,
`Ready`, `boundSnapshotDeleted`), the states of its requests and artifacts (`mcr`, `mcp`,
`vcr`, `vsc`), and per work queue the reconcile that is running (`pass`) and whether
a request waits (`queued`).

A reconcile of a content is five steps, with any other step allowed between them:

| Step | Code | Reads / writes |
|---|---|---|
| `Observe` | start of `Reconcile`, the three projections | remembers content (`ob`) and owner (`ow`); publishes edges, checkpoint name, data |
| `Derive` | the leg validations, `deriveReadyStatus`, the domain-phase fold | live artifacts and child contents, `ob`, `ow`; the handoff of the checkpoint |
| `WriteStatus` | the status patch | conditions, and the latch if it differs from `ob`: a merge patch, no lock |
| `reconcileOwnerCaptureLegs` | `capture_legs.go` | live owner; latches, then deletes the requests |
| `mirrorReadyToOwnerSnapshot` | `ready_mirror.go`, `lost_children.go` | writes the owner's `Ready` if it differs from `ow` |

`latchBoundSnapshotDeletedForMissingOwner` is the pass that ends at once because the
owner is gone. Each write puts into `queued` what the watches of the code would
(`ContentWake`, `SnapshotWake`, `ArtifactWake`), and a pass ends with the requeue decision of
`snapshotContentNeedsActiveRequeue`. With `Resync = TRUE` any content may be
reconciled at any time instead, which is the right environment for safety; with
`Resync = FALSE` only the wake-ups are there, which is the right one for liveness.

The domains are one action per SDK call. `Aggregators` are nodes that behave like the
namespace root: barrier 1 waits for `subtreePlanned` of every child, the manifests are
captured after the subtree. `Announces` and `Ordered` are two things domains usually
do and the SDK does not enforce: to write a phase before anything else, and
to declare no child after the manifest request.

Abstractions: a reason is its class (pending, failed, completed; on a snapshot also lost
and deleted); a domain's free-form failure reasons all belong to the class `Failed`.
`FailPlanning` is one step for the phase write and the local `Ready`
write that follows it. An SDK call is one step. The objects inside a checkpoint are
not represented. Import, native VolumeSnapshot data legs, excludedRefs and the deletion of contents
are outside.

### ContentTeardown

State per node: snapshot (live, deleting, gone; bound, declared children, `Ready`), content (with its
parent-protect finalizer), checkpoint, volume artifact (`vsc`: policy, stamp, ownership) and `phys`,
the snapshot on the storage behind it; one root `keeper`; where the binder (`bind`), the content passes
(`pass`) and a restore request (`reader`) are.

- The binder's create and bind are separate calls; a content under the deterministic name is adopted.
- A content pass either projects, publishes, heals and derives, or, for a content being deleted, protects
  the children, flips the artifact to Delete and stamps it, deletes it and releases the content. Each
  is one action; the release is an Update of the copy the pass began with and fails on a newer one.
- `reconcileDelete` is the deletion of the root snapshot; `Policies` are the two deletion policies a root
  content can have (Retain by capture, Delete by import).
- The restore reads snapshot and content of every node in two steps, then one checkpoint at a time, and
  fails on the first thing that is missing or not ready.
- `Abort` ends a pass anywhere, or all of them (a restart). The collector follows owner references, the
  sidecar the policy of the artifact.

Abstractions: the TTL of the keeper is "some time later"; a content's `Ready` does not go down again
(losses are `ContentTree`'s); the artifact-protect finalizer of checkpoints and artifacts goes with
the step that needs it gone; `ensureObjectKeeper` of the binder is not called by anything and not modelled.

### ImportLeaf

State: the leaf snapshot, its content, the reconstructed checkpoint (`mcp`) and its `chunk`, the
DataImports (`di`) and their artifacts (`vsc`), the content pass per queue, the VolumeSnapshot import controller
between its two writes (`native`), the uploads, and `awake`: the parties that an event or their polling
interval makes run again. Nobody watches DataImports, so `awake` is what liveness depends on.

The binder's import pass (`reconcileGenericImport`) is one step with one disjunct per return of the code; so
is `BindVolumeSnapshot`. A content pass has three: decide (`Resolve`, from the content it read), hand over and
publish (`publishDataBindings`), derive and mirror. An upload has three: checkpoint, chunk, status, and may
stop after each. Of the descriptor of a volume the model keeps who made it, whether the artifact's uid and
size are known, and which of the fields that only a DataImport attests are filled.

Abstractions: one chunk; the wait of the binder for its own `Ready` is its requeue; the mirror's skip when
nothing changed is the stuttering step; the children an upload declares are left out.

### NamespacePlan and PointInTime

State: the objects of the namespace (`live`, with the histories `late` and `gone`), for each possible member
what its snapshot has reached (`st`, `kids`, `bad`), the root (`phase`, `refs`, `term` for a terminal `Ready`), its
manifest leg (`mcr`, the cached view `seen`, `named`, `mcp`, `captured`) and the running `pass`.

A pass is: plan layer by layer (`PlanLayer`), create the children, publish them, compute the residue (the
orphan wave), create VolumeSnapshots, declare them, freeze. After the freeze: decide the targets, look the
request up, create it, publish its name, finish. All of these are single steps between which the
namespace changes, children plan, fail or are deleted, the mirror writes `Ready`, and the pass may stop.

`PointInTime` says what this amounts to: members only while open, then the freeze, then one request, one result
equal to it. `IsPointInTime` is its specification under the mapping of `NamespacePlan`'s state (`INSTANCE ... WITH`).

Abstractions: the tree is two levels deep; a list of a layer is one step; the wait for the root's content
is folded into the wait for the subtree; a claim without a class stands for every terminal reason of the
wave; `excludedRefs` and the waits for unreadable types and RBAC (other than `SourceListForbidden`) are left out.

## 3. Runs

Passing runs:

| Run | Instance | Shows |
|---|---|---|
| `capture_sync` | 2 targets, 3 contents, one of them rejected; 2 transient failures of any call, 1 source change, 1 restart; caches follow at once | `CheckpointIntegrity`, `CapturedIsDurable`, `CompletedIsHandedOff`, `FailedHasCause`, `TerminalIsFinal`, `DoneIsStable`, `IsCaptureLeg` (refinement); every request ends (`RequestSettles`) |
| `capture_lag` | 2 targets, lagging caches, 1 transient chunk failure, 1 source change | the safety of captured manifests does not depend on cache freshness |
| `tree_queues` | 2 levels, 2 queues, 2 concurrent passes | the persist latch, the walk gate and `Ready` cover complete subtrees only, requests are reaped only when durable, barrier 2 holds, under concurrent passes of one content |
| `tree_data` | 2 levels below a plain domain, a volume, 1 failure of any party, 1 loss | the persist latch waits for the declared children although the parent captured itself first; a Ready snapshot has its whole tree behind it, down to usable artifacts (`ReadyIsWhole`); every manifest leg takes steps of `CaptureLeg` only; with one queue a loss is never reported away |
| `tree_deletion` | 2 levels, 1 deletion at any point, wake-ups only | the planning latch survives deletion, cascade and garbage collection; the deletion of a captured child shows on its captured owner |
| `tree_live` | 2 levels, 2 queues, 1 failing manifest request, 1 loss, wake-ups only | the root ends Ready or terminal, for good; a lost checkpoint takes the root's `Ready` down for good |
| `teardown` | root and volume leaf, both policies, 2 concurrent passes, 1 interruption, 1 restore | `LiveDataIsHeld`, `HandlerIsNotSkipped`, `RestoreIsWhole` while the tree is bound, captured, deleted and torn down in any order |
| `teardown_live` | the same, 1 pass at a time, no restore | once the root snapshot is gone, keeper, contents, checkpoints and artifacts all go (`TreeGoes`) |
| `import` | domain or native leaf, 2 DataImports | `PublishedIsPinned`, `MetaIsKept` although DataImports come, finish and are reaped at any point |
| `import_live` | domain or native leaf, 1 DataImport of either kind of artifact, 2 uploads, 1 interruption | `ReadyIsReadable`; an undisputed import ends Ready with its complete descriptor, size included, although the DataImport is reaped first (`ImportIsServed`) |
| `plan` | a machine, its disk, the disk's claim, a free claim and an excluded one, any of machine and disk missing at first; 1 object comes or goes, 1 child fails, 1 is deleted, 1 pass stops | `NothingIsLost`, `VolumeIsCapturedOnce`, `IsPointInTime` (refinement), `RootEnds` |

One run ends in a violation and refutes a comment of the repository; `findings` quotes it.

| Run | What happens |
|---|---|
| `plan_lost` | one claim has no usable VolumeSnapshotClass. The orphan wave writes that on `Ready`, creates no VolumeSnapshot for any claim and returns as if it had succeeded; the root is frozen, the mirror writes over the report, the manifest leg leaves every residual claim out, and the root ends Finished with neither data nor manifest of the healthy claim (`DroppedIsNeverLost`) |

The same models show more when a constant of a passing run is changed. These are the limits
of the properties above:

- `capture_sync` with `Lag = TRUE`: `IsCaptureLeg` fails, and so do `TerminalIsFinal` (`markMCRCheckpointPendingHandoff` and
  the Processing update re-read the request but do not ask again whether it is terminal, so a pass that
  began on a stale copy reopens it) and `DoneIsStable` (after AlreadyExists the resume path
  rewrites `Ready=True` to Processing). Behind a stale keeper cache a retry gets AlreadyExists for its own
  ObjectKeeper and gives up for good.
- `tree_queues` with `Ordered = FALSE` and no aggregator: `PersistedIsComplete` fails. A domain that
  requests its manifests before it declares children gets the one-way latch over an empty set. `ReadyIsWhole` fails
  with it (`tree_data`), and on a chain of three the walk of the aggregator at the top misses the leaf.
- On the same chain with `Ordered`, an aggregator that asks while the latch is still nil (the code refuses `false`
  only) misses the leaf as well: the walk sees the edges published so far. `WalkWhole` therefore starts from a latch that is set.
- `tree_queues` with `Announces = FALSE` and no aggregator: `OwnerReadyIsEarned` fails (and `ReadyIsWhole` in `tree_data`). The fold has no
  opinion on an empty phase, so a domain that never wrote one is mirrored `Ready=True`.

- `tree_data` with two queues: `LossIsFinal` fails. The pass with the older reading patches last, without a
  lock, and a failed content looks Ready again (`snapshotcontent/controller.go:749`, `:2240`). The mirror does the same to the
  owner: a pass that read Ready before the failure writes it on the snapshot after.
- `teardown` with two queues: `HandlerIsNotSkipped` fails. A pass of the other queue that began before the
  deletion takes the artifact over once more between the handler's flip to Delete and its delete: it goes
  with Retain and the snapshot on the storage is left behind.
- `import` with two queues: `MetaIsKept` fails. An older pass blanks metadata a newer one published.
- `import_live` with two payloads: `ReadyIsReadable` fails. The chunk of one upload is taken as the other's, and
  the checkpoint becomes Ready with a checksum that does not match.

Met while modelling. No run is about these; the properties are stated so as to exclude them, or do not reach them:

Capture:

- A transient chunk error is requeued; when the target changes meanwhile the retry meets its own older chunk and
  the checksum comparison fails the request for good (`checkpoint_controller.go:1111`).
- A request that fails in its first pass never carries a checkpoint name, so the content keeps waiting and the
  failure does not surface above.

Tree:

- While the walk gate is nil the subtree walk runs over edges that are not published yet, and an aggregator may
  capture grandchildren twice (`pkg/snapshotsdk/subtree_identities.go:78`).
- An owner that turns terminal before its failed child's `Ready` is mirrored never gets `childrenSettled`
  (`capture_legs.go:308`).
- A captured child deleted before its owner's persist latch can never be linked; the
  owner waits for the link without end. `DeletionSurfaces` starts after the latch.
- A checkpoint lost between its handoff and the `manifestCaptured` latch is reported as still
  pending, never as lost: `ManifestLeg` is terminal on NotFound only after the latch.
- The deletion of a chunk is watched by nobody; it surfaces with the next event of the
  content. `LossSurfaces` therefore speaks of checkpoints and volume artifacts.
- A content whose owner is gone (`boundSnapshotDeleted`) is not reconciled further, so its
  later losses do not surface.

Teardown:

- An artifact that was taken over and pinned to Retain, but not published because the pass stopped there, is not
  known to the deletion handler; when the content goes the snapshot on the storage is left behind.
  `HandlerIsNotSkipped` speaks of published data, and `TreeGoes` of Kubernetes objects.

Import:

- Two DataImports for one leaf: the binder writes the ambiguity to `Ready`, the mirror the content's view, and each
  write wakes the other (`genericbinder/import.go:219`, `ready_mirror.go:134`). `ImportIsServed` excludes it.
- A second DataImport replaces the published artifact of the first. A domain leaf with a live DataImport that has
  produced nothing never gets the size of what is published.
- A DataImport that leaves `artifactRef.uid` empty never matches the published binding, which is then published again
  on every pass.
- A native leaf with `status.error` is not looked at again until somebody writes it.

Planning:

- A source that the root plans and a machine that appears later takes as its child is captured twice when it has no
  volume: the duplicate check knows volumes only.
- A failed child whose object is gone is no longer wanted, so its failure is not looked at, and as it still exists it is
  not lost either: the root stays in planning. A grandchild deleted before the freeze keeps the root waiting
  too. `RootEnds` names these cases (`Stuck`).
- A volume covered twice after the freeze is reported on `Ready` while the mirror writes over it: the root fails only
  when a pass happens to read its own report.

### Bounds

Budgets (`MaxHiccups`, `MaxChanges`, `MaxCrashes`, `MaxFailures`, `MaxLosses`,
`MaxDeletions`) cap how often the environment misbehaves; `Workers` caps concurrent passes.
Two targets are enough to leave a checkpoint between two chunks, three contents to
tell an older, a newer and a rejected one apart; two hiccups allow a failing retry. A pair
with two queues and two workers has two passes over the same content in every relative
order, and a parent and a child pass interleaved. Every latch and wake-up rule of the code
relates a node to its direct children or its parent; deeper trees matter where a fact travels
through a middle node, and for those facts the theorems hold for every tree.

`teardown` has a parent and a child content in the handler at once, and one interruption at every point of
binding, capture and removal. `import` lets two DataImports of one leaf exist one after the other and together;
`import_live` gives up the second for overlapping uploads. `plan` has both ways an object can be left to somebody
else (a layer leaves the disk to the machine, the wave leaves the claim to the disk), both can fail to happen, and
every single misfortune of the environment is in it once, so that any two kinds of them meet.

The root of the tree runs is an aggregator, as the namespace snapshot is, except in `tree_data`,
where it is a plain domain that captures itself while its child is still at work: the case the
declared-vs-linked check of the latch exists for. Domains announce their phases and declare
their children first, as the SDK's documentation asks.

Deadlock is checked for `ManifestCapture`. It is off for the others: a captured tree, a removed one, a served
import and a finished root with its budgets used up have nothing left to do, and that is their intended
end. The liveness runs say that they end in the right place.

### Fairness

`ManifestCapture`: weak fairness of the executor (a request that is not terminal is
requeued with back-off by controller-runtime), of the four content controller actions
(every write they wait for is watched), and of informer delivery. None for the user, the
TTL scanner, the garbage collector, failures and restarts.

`ContentTree`: weak fairness of a domain's and of the environment's next step (binder,
executor, storage, collectors), and strong fairness of `ContentPass` for each queue and
node. Strong, because with few workers a waiting request is enabled and disabled as
other passes begin and end, and the work queue is first-in first-out: a request that
waits gets its turn. None for failures, losses and deletions.

`ContentTeardown`: weak fairness of the root's deletion, of a binder pass that has begun, of the ObjectKeeper
controller, the garbage collector and the sidecar; strong fairness of the content passes, for the reason
above. Nobody has to delete, declare or read anything.

`ImportLeaf`: weak fairness of each controller, whose steps need it to be awake, of the driver's report and of the
idle TTL. None for users, uploads and the work of a DataImport.

`NamespacePlan`: weak fairness of the root's pass (it polls), of the executor and the latch, and of each child's own
progress. None for the mirror, the reaping, failures, deletions and changes of the namespace: the root has to end
without them.

## 4. Proofs

The theorems hold for every value of the constants: any number of targets, contents
and budgets for the capture; any tree, one queue or two, any number of workers, any
budgets and any mixture of domains for the tree and its teardown; any number of DataImports
and uploads for the import; any sources, weights, uses and claims for the plan. Every safety
property that a run checks is stated by a theorem.

| Theorem | Statement | Hypothesis |
|---|---|---|
| `ManifestCaptureProofs!TypeCorrect` | `TypeOK` | |
| `ManifestCaptureProofs!CapturedDurable` | `CapturedIsDurable` | |
| `ManifestCaptureProofs!CompletedHandedOff` | `CompletedIsHandedOff` | |
| `ManifestCaptureProofs!CheckpointWhole` | `CheckpointIntegrity` | |
| `ManifestCaptureProofs!FailedForCause` | `FailedHasCause` | |
| `ManifestCaptureProofs!TerminalFinal` | `TerminalIsFinal` | `~Lag` |
| `ManifestCaptureProofs!DoneStable` | `DoneIsStable` | `~Lag` |
| `ManifestCaptureProofs!CaptureLegHolds` | `IsCaptureLeg` (refinement) | `~Lag` |
| `ContentTreeProofs!TypeCorrect` | `TypeOK` | |
| `ContentTreeProofs!PlannedDeep` | `PlannedIsDeep` | |
| `ContentTreeProofs!TreeInvariant` | the inductive invariant | `Ordered` |
| `ContentTreeProofs!PersistedComplete` | `PersistedIsComplete` | `Ordered` |
| `ContentTreeProofs!ReadyBottomUp` | `ReadyAfterChildren` | `Ordered` |
| `ContentTreeProofs!KidsLatchComplete` | `KidsLatchIsComplete` | `Ordered` |
| `ContentTreeDataProofs!ReapedDurable` | `ReapedIsDurable` | |
| `ContentTreeDataProofs!OwnerReadyEarned` | `OwnerReadyIsEarned` | `Announces` |
| `ContentTreeDataProofs!ReadyHadData` | `ReadyHasData` (a part of `ReadyIsWhole`) | `Announces` |
| `ContentTreeDataProofs!LossFinal` | `LossIsFinal` | one queue |
| `ContentTreeDataProofs!FailedForGood` | a content that failed is never Ready again | one queue |
| `ContentTreeWholeProofs!ReadyWhole` | `ReadyIsWhole` | `Ordered`, `Announces` |
| `ContentTreeWholeProofs!WalkWhole` | `WalkMissesNobody`: the walk behind the gate leaves out what every snapshot below captured | `Ordered` |
| `ContentTreeWholeProofs!OwnerFailsForGood` | a snapshot whose content failed, once not Ready, is never Ready again | one queue |
| `ContentTreeLegProofs!LegsTakeTheirSteps` | `LegsAreCaptureLegs` | |
| `ContentTreeLegProofs!TreeLegsHold` | `CaptureLeg` (refinement), for each snapshot | the snapshot is not deleted, its checkpoint not lost |
| `ContentTeardownProofs!TypeCorrect` | `TypeOK` | |
| `ContentTeardownProofs!DataIsHeld` | `LiveDataIsHeld` | |
| `ContentTeardownProofs!RestoredWhole` | `RestoreIsWhole` | |
| `ContentTeardownProofs!HandlerRuns` | `HandlerIsNotSkipped` | one queue |
| `ImportLeafProofs!TypeCorrect` | `TypeOK` | |
| `ImportLeafProofs!PublishedPinned` | `PublishedIsPinned` | |
| `ImportLeafProofs!ReadableWhenReady` | `ReadyIsReadable` | one payload |
| `ImportLeafProofs!MetadataKept` | `MetaIsKept` | one queue |
| `NamespacePlanProofs!TypeCorrect` | `TypeOK` | |
| `NamespacePlanProofs!CapturedOnce` | `VolumeIsCapturedOnce` | |
| `NamespacePlanProofs!NoObjectIsLost` | `NothingIsLost` | |
| `NamespacePlanProofs!PointInTimeHolds` | `IsPointInTime` (refinement) | |

Each hypothesis is the setting of the run that checks the property, and each is needed: for the
property with the hypothesis removed section 3 names the counterexample (`Lag`, `Ordered`, `Announces`, two queues, two
payloads). `ReadyHasData` needs `Announces` because the fold on an empty phase lets a content be Ready
before its domain has placed the volume request.

From the constants the proofs use the named assumption of each module and nothing else. Apart from
types these say: a request has a target; children are disjoint and the root is nobody's child, and in
`ContentTeardown` every node is below the root; a snapshot kind that uses others is not used itself
(two levels), and no source has the name of a planner or is the value that stands for no request.

All inductive invariants were model-checked on the instance of a run before they were proved (`LossInv` and
`ReadyIsKnown` with one queue, `SyncInv` and `LegInv` without lag; `WholeInv` and `WalkMissesNobody` also on a chain of
three, for on two levels the walk has nothing to follow).

### The arguments

**Handoff** (`HandoffInv`). The captured latch and the completed condition are set from
different copies: the latch from live reads, the condition from the executor's local copy of
the checkpoint. The invariant adds that the cached and the local copies never claim a content owner
that the checkpoint does not have. Since ownership by the content is never given
back, and the garbage collector takes only checkpoints of a missing keeper, both
properties follow.

**Checkpoint** (`CheckpointInv`). Between the first chunk and the status update a pass relies
on chunks that other passes may have written. The invariant says that while this pass
holds the current resource version and has passed target `t`, chunk `t` is what
the pass collected; chunks are created once and vanish only with the checkpoint,
which takes the resource version away.

**Causes** (`CauseInv`). A pass fails the request when a chunk differs from what it collected. The
invariant says that without a change of an object every copy and every chunk is of the initial
objects, so that a difference has a change behind it; a cause, once there, stays (`CauseStays`).

**No lag** (`SyncInv`). `finalizeMCR` writes without a resource version, so a terminal condition is final only
because no pass runs for a terminal request; likewise a done checkpoint is stable only because no pass that
writes chunks runs for one. Both rest on the early returns reading what is there.

**The abstract request** (`LegInv`, `LegSimulation`). `CaptureLeg` needs more than the properties above: the
copy is handed over while the request is open, and never for a failed one. The invariant puts the facts in the order of
the code: the checkpoint is done, the request names it, the content publishes the name, takes the
checkpoint over, the latch is set. A pass that may still write the checkpoint began on a request
without a name, and its request keeps its keeper. A failed request with a Ready checkpoint (the name could not be written, and the
objects were gone at the retry) has no name, so nobody takes its checkpoint over. The simulation has one case per call that shows
in the abstract state; all others stutter (`LegStutter`).

**Tree** (`TreeInv`). A pass writes what it derived earlier from copies that were old then.
The invariant says why that is sound:

- `RequestsInOrder`: no checkpoint without a request;
- `StaleButTrue`: what a running pass remembers of edges and of the latch is still true of
  the content, because both only grow;
- `PlansHold`: a plan that is about to be written is still right, because what it rests on
  (children linked, persisted, once ready) is one-way as well;
- `ContentsHold`, `KidsHold`: the latches are complete. An owner whose latch is set has
  requested its manifests, so with `Ordered` its declared set is closed.

Its preservation is proved through four lemmas that say what any step may do
to the snapshots, the contents, the artifacts and the passes (`StepMovesSnapshots`,
`StepMovesContents`, `StepMovesArtifacts`, `StepMovesPasses`), each with one case per action; the
parts of the invariant then follow from these movements without the actions. `TreeInv` was
model-checked on the instances of `tree_queues`, `tree_data` and `tree_deletion` and on a chain of
three first. `LatchTreeKeeps` says what the latching half of the leg pass leaves alone.

**Owner and data** (`DurableInv`, `EarnedInv`, `DataInv`). The mirror writes the owner's `Ready` from a remembered
owner, so the invariant speaks of that memory: a phase that was closed when it was read is closed still,
a content that names a checkpoint has an owner with a phase, and a pass about to write `Completed` has seen a closed
phase. With the phase closed the volume request is there, or never comes, and the pass that read the owner so either has its data or
waits or fails (`VolumesHold`).

**Failed for good** (`LossInv`). A content that failed is derived anew on every pass, and one property of one
content is not inductive: it may have failed because of a child, which failed because of its own. The invariant
says that there is a set `S` of doomed contents (`Dooms`): every failed content is in it, each member is ill for good
or has an edge to a member, none is Ready, and no running pass on one is about to make it so. A step extends `S` by the content it fails;
what makes a content ill is never repaired (`IllStays`), and with one queue a pass remembers nothing that is
no longer so (`MemoryHolds`). `FailedForGood` states what this gives beyond the next step.
`OwnerFailsForGood` takes it to the owner: with one queue a pass knows the Ready of its content to the end (`ReadyIsKnown`),
so none is left to mirror a Ready from before.

**Whole trees** (`WholeInv`). The properties above speak of a snapshot and its children; what a user relies on
is that Ready at the top stands for everything below. Three facts carry this down without induction over the tree: the set `everReady`
is closed under declared children, a content that was Ready once stays complete (`EverReadyHolds`: the latch, the
closed phase and the artifact outlive the Ready that needed them), and without a loss nothing that counts is missing (`Intact`; every
loss is counted, `StepCountsLosses`). A tree is the least closed set with its root, hence inside `everReady` (`TreeIsLeast`). The
walk is the same argument the other way: the persisted contents among those the walk reaches are a closed set with all
declared children of the aggregator, so nothing below it is outside (`WalkReachesBelow`).

**The legs of the tree** (`LegMoves`, `LegSimulated`). A step does one of seven things to the manifest leg of one snapshot (`LegMoves`,
proved action by action); with `DurableInv` each is a step of `CaptureLeg` or none. What it needs of the invariant is that a
checkpoint not yet handed over still has its request (`LegKeepsRequest`). The hypothesis is where the two models part: `CaptureLeg`
knows neither users who delete the snapshot nor the loss of what was handed over.

**Teardown** (`HeldInv`, `WalkInv`, `HandlerInv`). Published data has an artifact its content owns, live as long as the
content is; a handler pass that saw data works on a content being deleted, or the artifact has been told to go
already, so an old pass does no harm. The walk: what is taken or still to be taken holds the root and all
children of what is taken, hence every node when nothing is left. The handler with one queue knows the data of its
content, and the finalizer stays on until the artifact has the policy to take the snapshot on the storage along.

**Import** (`PinInv`, `ReadInv`, `MetaInv`). An artifact is pinned and owned before it is published and neither is
taken back. An upload past its chunk left one behind, so with one payload the checksum is of it. What a pass is about to publish
carries at least what the content says of the same artifact (`Carried`); this is where a second queue breaks in.

**Plan** (`PlanInv`). `InOrder`: where a pass can be in each phase, and that latch and reaping come after
the name. `WellNamed`: who declares what. `Closed`: once anything is asked for, the subtree is captured and disjoint.
`TargetsAreComplete` and `VolumesAreCovered`: what the tree does not capture is in the targets, in the request, in the result;
from the wave on every volume has a member or gets one, or a member was lost and the root cannot finish.
The refinement is one case per step with a step of `PointInTime` each (`StepRefines`); the freeze
precedes the request by `InOrder`, and there is one request because the second needs an empty name.

### Only model-checked

Liveness: `RequestSettles`, `TreeSettles`, `LossSurfaces`, `DeletionSurfaces`, `TreeGoes`, `ImportIsServed`,
`RootEnds`. Fairness and ENABLED are out of the prover's reach. `DroppedIsNeverLost` is the property that
`plan_lost` refutes.

## 5. Not modelled, and the plan

Next, in this order:

1. **Algorithms**: chunk packing and the completeness rules of a data binding (`api/storage/v1alpha1/dataleg`), each
   against a reference definition.
2. **Composition**: the member that `NamespacePlan` has in one step as a node of `ContentTree`, so that the root's
   promise about time and the tree's about completeness are one specification.
3. **The walk on three levels** as a run of its own, with the nil latch.

Not modelled:

- excludedRefs (which of the vetoed objects are reported): reporting only, nothing depends on it.
- CSD registry, unified runtime and start-up (`cmd/main.go`): which kinds exist and when their watches begin. The
  models start when the kinds of the tree are registered; what happens to a tree whose kind is registered
  late is open.
- The transformation of restored objects, the archive format and the aggregated manifests: read-only assembly of
  documents.
- Backfill: one-off migration. Webhooks: stateless validation of single requests. Hooks and templates: RBAC,
  certificates, packaging. Generated code and tests.
