--------------------------- MODULE ManifestCapture ---------------------------
(***************************************************************************)
(* The executor of one ManifestCaptureRequest (MCR): the controller that   *)
(* reads the target objects, writes them as content chunks under a         *)
(* ManifestCheckpoint (MCP) and completes the request once the MCP belongs *)
(* to a SnapshotContent; and the three parties that work beside it on the  *)
(* same objects: the SnapshotContent controller (publishes the checkpoint  *)
(* name, takes the MCP over, latches manifestCaptured, reaps the MCR), the *)
(* TTL scanner and the garbage collector.                                  *)
(*                                                                         *)
(* One reconcile is a sequence of API calls; each call is one action, so   *)
(* every other party may move between two of them.  Typed reads of the     *)
(* executor go to the informer cache (mcrC, mcpC, keeperC, chunkC), which  *)
(* trails the API server when Lag holds.  A resource version is not a      *)
(* number: mcrFresh, mcpFresh and cpHeld say whether the cached copies and *)
(* the executor's local MCP copy carry the current one, which is all that  *)
(* an optimistic-lock write asks.                                          *)
(*                                                                         *)
(* Chunk t carries target t (which objects share a chunk is left out); the *)
(* content of an object is a number in 1..V, and 0 stands for "no such     *)
(* object".  A request has at least one target: the empty chunk of a       *)
(* request without any is a constant.                                      *)
(***************************************************************************)
EXTENDS Naturals

CONSTANTS N,            \* number of targets (spec.targets) of the request
          V,            \* number of distinct contents an object may have
          Lag,          \* may the informer caches trail the API server?
          Flaky,        \* the calls that may fail transiently
          Rejects,      \* contents whose chunk the API server refuses for good
          MaxHiccups,   \* bound: transient failures in a behaviour
          MaxChanges,   \* bound: changes of the source objects
          MaxCrashes    \* bound: controller restarts

Calls == {"collect", "keeper", "checkpoint", "chunk", "status"}

ASSUME CaptureAssumption ==
    /\ N \in Nat \ {0}
    /\ V \in Nat
    /\ Lag \in BOOLEAN
    /\ Flaky \subseteq Calls
    /\ Rejects \subseteq 1..V
    /\ MaxHiccups \in Nat
    /\ MaxChanges \in Nat
    /\ MaxCrashes \in Nat

Targets == 1..N
Data == 0..V

\* The Ready condition of an MCR ("None": no condition yet) and of an MCP
\* ("absent": no such object, "new": created, no condition yet).
MCRReady == {"None", "Processing", "Completed", "Failed"}
MCPState == {"absent", "new", "Processing", "Completed", "Failed"}
Request == [ex : BOOLEAN, ready : MCRReady, named : BOOLEAN]
Checkpoint == [st : MCPState, owner : {"keeper", "content"},
               info : [Targets -> Data]]

VARIABLES
    src,        \* the target objects in the cluster: Targets -> Data
    mcr,        \* the MCR (ex: exists; named: status.checkpointName is set)
    mcrC,       \* its informer copy
    mcrFresh,   \* mcrC has the current resource version
    keeper,     \* the execution ObjectKeeper exists
    keeperC,    \* ... in the informer cache
    mcp,        \* the MCP (info: the chunk checksums of status.chunks)
    mcpC,       \* its informer copy
    mcpFresh,   \* mcpC has the current resource version
    chunk,      \* the content chunks of this MCP: Targets -> Data
    chunkC,     \* the chunks the informer cache shows
    published,  \* SnapshotContent.status.manifestCheckpointName is set
    captured,   \* the owner snapshot's manifestCaptured latch
    pc,         \* the executor's next call ("idle": no reconcile runs)
    next,       \* the next target of the running loop
    lm,         \* the executor's local MCR (ready, named)
    lp,         \* the executor's local MCP
    cpHeld,     \* lp carries the MCP's current resource version
    objs,       \* the objects this reconcile collected
    hiccups, changes, crashes,  \* used budgets
    createErr   \* history: an ObjectKeeper or MCP Create was refused

api    == <<src, mcr, keeper, mcp, chunk, published, captured>>
cache  == <<mcrC, mcrFresh, keeperC, mcpC, mcpFresh, chunkC>>
local  == <<pc, next, lm, lp, cpHeld, objs>>
budget == <<hiccups, changes, crashes, createErr>>
vars   == <<src, mcr, mcrC, mcrFresh, keeper, keeperC, mcp, mcpC, mcpFresh,
            chunk, chunkC, published, captured, pc, next, lm, lp, cpHeld,
            objs, hiccups, changes, crashes, createErr>>

Steps == {"idle", "process", "collect", "keeper", "lookup", "create",
          "markcp", "chunks", "cpfail", "ready", "pendReady", "handoff",
          "pendHandoff", "fail", "complete"}

NoData == [t \in Targets |-> 0]
NoCheckpoint == [st |-> "absent", owner |-> "keeper", info |-> NoData]

Init ==
    /\ src \in [Targets -> Data \ {0}]
    /\ mcr = [ex |-> TRUE, ready |-> "None", named |-> FALSE]
    /\ mcrC = mcr
    /\ mcrFresh = TRUE
    /\ keeper = FALSE
    /\ keeperC = FALSE
    /\ mcp = NoCheckpoint
    /\ mcpC = NoCheckpoint
    /\ mcpFresh = TRUE
    /\ chunk = NoData
    /\ chunkC = {}
    /\ published = FALSE
    /\ captured = FALSE
    /\ pc = "idle"
    /\ next = 1
    /\ lm = [ready |-> "None", named |-> FALSE]
    /\ lp = NoCheckpoint
    /\ cpHeld = FALSE
    /\ objs = NoData
    /\ hiccups = 0
    /\ changes = 0
    /\ crashes = 0
    /\ createErr = FALSE

-----------------------------------------------------------------------------
\* Mutant: a failed request is taken up again.
isTerminalIfCompleted(ready) == ready = "Completed"

\* isTerminal: Processing (and no condition) is in progress, the rest is final.
isTerminal(ready) == ready \in {"Completed", "Failed"}

\* Mutant: a failed checkpoint is resumed.
manifestCheckpointDone(cp) == cp.st = "Completed"

\* manifestCheckpointDoneOrFailed: no further chunk creation is needed.
manifestCheckpointDoneOrFailed(cp) == cp.st \in {"Completed", "Failed"}

\* Mutant: any Ready checkpoint counts as handed over.
manifestCheckpointOwnedByAnyone(cp) == TRUE

manifestCheckpointOwnedBySnapshotContent(cp) == cp.owner = "content"

\* A write of the MCR or the MCP moves its resource version; the informer
\* copy follows at once, or later when caches lag.
WriteMCR(new) ==
    /\ mcr' = new
    /\ mcrC' = IF Lag THEN mcrC ELSE new
    /\ mcrFresh' = ~Lag

WriteMCP(new) ==
    /\ mcp' = new
    /\ mcpC' = IF Lag THEN mcpC ELSE new
    /\ mcpFresh' = ~Lag

\* updateProcessingMessage: a best-effort write of the message alone, which
\* shows here only as a possible move of the MCR's resource version.
ProgressMessage == mcrFresh' \in (IF Lag THEN {mcrFresh, FALSE} ELSE {TRUE})

\* A transient failure of a call: the budget is spent, nothing is written.
Hiccup(call) ==
    /\ call \in Flaky
    /\ hiccups < MaxHiccups
    /\ hiccups' = hiccups + 1

\* The reconcile returns; whatever it held locally is gone.
Return ==
    /\ pc' = "idle"
    /\ next' = 1
    /\ lm' = [ready |-> "None", named |-> FALSE]
    /\ lp' = NoCheckpoint
    /\ cpHeld' = FALSE
    /\ objs' = NoData

-----------------------------------------------------------------------------
\* The executor.

\* Reconcile: read the MCR from the cache; stop if it is gone or terminal; go
\* to the handoff check if its checkpoint is already there, else process it.
Reconcile ==
    /\ pc = "idle"
    /\ mcrC.ex
    /\ ~isTerminal(mcrC.ready)
    /\ lm' = [ready |-> mcrC.ready, named |-> mcrC.named]
    /\ IF mcrC.named /\ mcpC.st # "absent"
       THEN pc' = "handoff" /\ lp' = mcpC
       ELSE pc' = "process" /\ UNCHANGED lp
    /\ UNCHANGED <<next, cpHeld, objs, api, cache, budget>>

\* processCaptureRequest, first part: publish Ready=False/Processing with an
\* optimistic lock on the cached MCR, unless it already says so.
SetProcessing ==
    /\ pc = "process"
    /\ IF lm.ready = "Processing"
       THEN /\ pc' = "collect"
            /\ UNCHANGED <<lm, mcr, mcrC, mcrFresh>>
       ELSE /\ mcrC.ex
            /\ IF mcrC.ready = "Processing"
               THEN /\ lm' = [ready |-> "Processing", named |-> mcrC.named]
                    /\ UNCHANGED <<mcr, mcrC, mcrFresh>>
               ELSE /\ mcrFresh /\ mcr.ex
                    /\ WriteMCR([mcrC EXCEPT !.ready = "Processing"])
                    /\ lm' = [ready |-> "Processing", named |-> mcrC.named]
            /\ pc' = "collect"
    /\ UNCHANGED <<next, lp, cpHeld, objs, src, keeper, mcp, chunk, published,
                   captured, keeperC, mcpC, mcpFresh, chunkC, budget>>

\* ... the MCR is gone, the cached copy is stale (409), or the call fails.
SetProcessingError ==
    /\ pc = "process"
    /\ lm.ready # "Processing"
    /\ \/ /\ ~mcrC.ex \/ ~mcr.ex \/ (~mcrFresh /\ mcrC.ready # "Processing")
          /\ UNCHANGED hiccups
       \/ Hiccup("status")
    /\ Return
    /\ UNCHANGED <<api, cache, changes, crashes, createErr>>

\* collectTargetObjects: read each target from the API server.
collectTargetObjects ==
    /\ pc = "collect"
    /\ IF next > N
       THEN /\ pc' = "keeper"
            /\ next' = 1
            /\ UNCHANGED objs
       ELSE IF src[next] = 0
       THEN /\ pc' = "fail"              \* NotFound is terminal
            /\ UNCHANGED <<next, objs>>
       ELSE /\ objs' = [objs EXCEPT ![next] = src[next]]
            /\ next' = next + 1
            /\ UNCHANGED pc
    /\ UNCHANGED <<lm, lp, cpHeld, api, cache, budget>>

\* Mutant: any read error fails the request.
CollectErrorIsTerminal ==
    /\ pc = "collect"
    /\ Hiccup("collect")
    /\ pc' = "fail"
    /\ UNCHANGED <<next, lm, lp, cpHeld, objs, api, cache, changes, crashes,
                   createErr>>

\* Any other read error is returned, and the request stays Processing.
CollectError ==
    /\ pc = "collect"
    /\ Hiccup("collect")
    /\ Return
    /\ UNCHANGED <<api, cache, changes, crashes, createErr>>

\* The execution ObjectKeeper: cached Get, then Create.  Every Create error,
\* AlreadyExists behind a stale cache included, fails the request.
EnsureKeeper ==
    /\ pc = "keeper"
    /\ ProgressMessage
    /\ IF keeperC
       THEN /\ pc' = "lookup"
            /\ UNCHANGED <<keeper, keeperC, hiccups, createErr>>
       ELSE \/ /\ ~keeper
               /\ keeper' = TRUE
               /\ keeperC' = ~Lag
               /\ pc' = "lookup"
               /\ UNCHANGED <<hiccups, createErr>>
            \/ /\ keeper \/ ("keeper" \in Flaky /\ hiccups < MaxHiccups)
               /\ hiccups' = IF keeper THEN hiccups ELSE hiccups + 1
               /\ createErr' = TRUE
               /\ pc' = "fail"
               /\ UNCHANGED <<keeper, keeperC>>
    /\ UNCHANGED <<src, mcr, mcp, chunk, published, captured, mcrC, mcpC,
                   mcpFresh, chunkC, next, lm, lp, cpHeld, objs, changes,
                   crashes>>

\* The read-back of the new keeper through the APIReader fails: requeue.
KeeperReadBackError ==
    /\ pc = "keeper"
    /\ ~keeperC
    /\ ~keeper
    /\ Hiccup("keeper")
    /\ keeper' = TRUE
    /\ keeperC' = ~Lag
    /\ Return
    /\ UNCHANGED <<src, mcr, mcp, chunk, published, captured, mcrC, mcrFresh,
                   mcpC, mcpFresh, chunkC, changes, crashes, createErr>>

\* A cached checkpoint that is done or failed goes to the handoff check; any
\* other one falls through to Create, whose AlreadyExists resumes it.
LookupCheckpoint ==
    /\ pc = "lookup"
    /\ IF manifestCheckpointDoneOrFailed(mcpC)
       THEN /\ pc' = "handoff"
            /\ lp' = mcpC
            /\ lm' = [lm EXCEPT !.named = TRUE]
       ELSE /\ pc' = "create"
            /\ UNCHANGED <<lp, lm>>
    /\ UNCHANGED <<next, cpHeld, objs, api, cache, budget>>

\* Create the MCP, owned by the keeper.  AlreadyExists: take the cached copy
\* and resume; the Processing condition is rewritten unless it is already set.
CreateCheckpoint ==
    /\ pc = "create"
    /\ IF mcp.st = "absent"
       THEN /\ WriteMCP([st |-> "new", owner |-> "keeper", info |-> NoData])
            /\ lp' = [st |-> "new", owner |-> "keeper", info |-> NoData]
            /\ cpHeld' = TRUE
            /\ pc' = "markcp"
       ELSE /\ mcpC.st # "absent"
            /\ lp' = mcpC
            /\ cpHeld' = mcpFresh
            /\ pc' = IF mcpC.st = "Processing" THEN "chunks" ELSE "markcp"
            /\ UNCHANGED <<mcp, mcpC, mcpFresh>>
    /\ UNCHANGED <<src, mcr, keeper, chunk, published, captured, mcrC,
                   mcrFresh, keeperC, chunkC, next, lm, objs, budget>>

\* Any other Create error fails the request; a cache that does not show the
\* existing MCP yet only requeues.
CreateCheckpointError ==
    /\ pc = "create"
    /\ \/ /\ Hiccup("checkpoint")
          /\ createErr' = TRUE
          /\ pc' = "fail"
          /\ UNCHANGED <<next, lm, lp, cpHeld, objs>>
       \/ /\ mcp.st # "absent"
          /\ mcpC.st = "absent"
          /\ Return
          /\ UNCHANGED <<hiccups, createErr>>
    /\ UNCHANGED <<api, cache, changes, crashes>>

\* Set Processing on the MCP.  A refused write is only logged: the local copy
\* says Processing all the same, and the pass goes on.
MarkCheckpointProcessing ==
    /\ pc = "markcp"
    /\ ProgressMessage
    /\ pc' = "chunks"
    /\ lp' = [lp EXCEPT !.st = "Processing"]
    /\ \/ /\ cpHeld
          /\ WriteMCP([mcp EXCEPT !.st = "Processing", !.info = lp.info])
          /\ UNCHANGED hiccups
       \/ /\ ~cpHeld
          /\ UNCHANGED <<mcp, mcpC, mcpFresh, hiccups>>
       \/ /\ Hiccup("status")
          /\ UNCHANGED <<mcp, mcpC, mcpFresh>>
    /\ UNCHANGED <<src, mcr, keeper, chunk, published, captured, mcrC, keeperC,
                   chunkC, next, lm, cpHeld, objs, changes, crashes, createErr>>

\* Mutant: an existing chunk is taken for granted.
AnyChunkMatches(t) == TRUE

\* An existing chunk t has the checksum of what this pass collected.
ChunkMatches(t) == chunk[t] = objs[t]

\* createChunks: chunk by chunk, Create; an existing chunk must carry the same
\* checksum, or the failure is terminal.  A chunk created for an MCP that is
\* gone is owned by nobody and is collected at once.
createChunks ==
    /\ pc = "chunks"
    /\ IF next > N
       THEN /\ pc' = "ready"
            /\ next' = 1
            /\ UNCHANGED <<chunk, chunkC>>
       ELSE IF chunk[next] = 0
       THEN IF objs[next] \in Rejects
            THEN pc' = "cpfail" /\ UNCHANGED <<next, chunk, chunkC>>
            ELSE /\ chunk' = IF mcp.st = "absent" THEN chunk
                             ELSE [chunk EXCEPT ![next] = objs[next]]
                 /\ chunkC' = IF Lag \/ mcp.st = "absent" THEN chunkC
                              ELSE chunkC \cup {next}
                 /\ next' = next + 1
                 /\ UNCHANGED pc
       ELSE /\ next \in chunkC
            /\ IF ChunkMatches(next)
               THEN next' = next + 1 /\ UNCHANGED pc
               ELSE pc' = "cpfail" /\ UNCHANGED next
            /\ UNCHANGED <<chunk, chunkC>>
    /\ UNCHANGED <<src, mcr, keeper, mcp, published, captured, mcrC, mcrFresh,
                   keeperC, mcpC, mcpFresh, lm, lp, cpHeld, objs, budget>>

\* Mutant: a chunk that is not in the cache yet is a terminal failure.
ChunkErrorIsTerminal ==
    /\ pc = "chunks"
    /\ next \in Targets
    /\ \/ Hiccup("chunk")
       \/ chunk[next] # 0 /\ next \notin chunkC /\ UNCHANGED hiccups
    /\ pc' = "cpfail"
    /\ UNCHANGED <<next, lm, lp, cpHeld, objs, api, cache, changes, crashes,
                   createErr>>

\* A transient Create error, or an existing chunk the cache does not show yet:
\* requeue, the request stays Processing.
ChunkError ==
    /\ pc = "chunks"
    /\ next \in Targets
    /\ \/ Hiccup("chunk")
       \/ chunk[next] # 0 /\ next \notin chunkC /\ UNCHANGED hiccups
    /\ ProgressMessage
    /\ Return
    /\ UNCHANGED <<src, mcr, keeper, mcp, chunk, published, captured, mcrC,
                   keeperC, mcpC, mcpFresh, chunkC, changes, crashes, createErr>>

\* A terminal chunk failure: mark the MCP Failed (a refused write is only
\* logged), then fail the request.
FailCheckpoint ==
    /\ pc = "cpfail"
    /\ pc' = "fail"
    /\ lp' = [lp EXCEPT !.st = "Failed"]
    /\ \/ /\ cpHeld
          /\ WriteMCP([mcp EXCEPT !.st = "Failed", !.info = lp.info])
          /\ UNCHANGED hiccups
       \/ /\ ~cpHeld
          /\ UNCHANGED <<mcp, mcpC, mcpFresh, hiccups>>
       \/ /\ Hiccup("status")
          /\ UNCHANGED <<mcp, mcpC, mcpFresh>>
    /\ UNCHANGED <<src, mcr, keeper, chunk, published, captured, mcrC, mcrFresh,
                   keeperC, chunkC, next, lm, cpHeld, objs, changes, crashes,
                   createErr>>

\* Publish status.chunks and Ready=True on the MCP.
PublishReady ==
    /\ pc = "ready"
    /\ cpHeld
    /\ WriteMCP([mcp EXCEPT !.st = "Completed", !.info = objs])
    /\ lp' = [lp EXCEPT !.st = "Completed", !.info = objs]
    /\ lm' = [lm EXCEPT !.named = TRUE]
    /\ pc' = "pendReady"
    /\ UNCHANGED <<src, mcr, keeper, chunk, published, captured, mcrC, mcrFresh,
                   keeperC, chunkC, next, cpHeld, objs, budget>>

\* ... refused: a stale resource version, or a failing call.
PublishReadyError ==
    /\ pc = "ready"
    /\ \/ ~cpHeld /\ UNCHANGED hiccups
       \/ Hiccup("status")
    /\ Return
    /\ UNCHANGED <<api, cache, changes, crashes, createErr>>

\* finalizeMCRIfCheckpointHandedOff: decide from the local MCP copy.
finalizeMCRIfCheckpointHandedOff ==
    /\ pc = "handoff"
    /\ pc' = CASE lp.st = "Failed" -> "fail"
               [] lp.st = "Completed" /\ manifestCheckpointOwnedBySnapshotContent(lp)
                    -> "complete"
               [] OTHER -> "pendHandoff"
    /\ lm' = [lm EXCEPT !.named = TRUE]
    /\ UNCHANGED <<next, lp, cpHeld, objs, api, cache, budget>>

\* Mutant: waiting for the handoff has a reason of its own, outside the API's.
HandoffReason == "PendingHandoff"

\* A request that waits for the handoff is Processing.
PendingReason == "Processing"

\* markMCRCheckpointPendingHandoff: name the checkpoint, keep (or make) the
\* request Processing; an optimistic-lock write of the cached copy.
markMCRCheckpointPendingHandoff ==
    /\ pc \in {"pendReady", "pendHandoff"}
    /\ mcrC.ex /\ mcr.ex /\ mcrFresh
    /\ LET new == [mcrC EXCEPT !.named = TRUE, !.ready = PendingReason]
       IN  IF new = mcr THEN UNCHANGED <<mcr, mcrC, mcrFresh>> ELSE WriteMCR(new)
    /\ IF pc = "pendReady"
       THEN pc' = "handoff" /\ UNCHANGED <<next, lm, lp, cpHeld, objs>>
       ELSE Return
    /\ UNCHANGED <<src, keeper, mcp, chunk, published, captured, keeperC, mcpC,
                   mcpFresh, chunkC, budget>>

MarkPendingError ==
    /\ pc \in {"pendReady", "pendHandoff"}
    /\ \/ (~mcrC.ex \/ ~mcr.ex \/ ~mcrFresh) /\ UNCHANGED hiccups
       \/ Hiccup("status")
    /\ Return
    /\ UNCHANGED <<api, cache, changes, crashes, createErr>>

\* Mutant: a finished request names its checkpoint, whatever became of it.
FinalizeWithName ==
    /\ pc \in {"fail", "complete"}
    /\ IF mcrC.ex /\ mcr.ex
       THEN WriteMCR([mcr EXCEPT
                !.ready = IF pc = "fail" THEN "Failed" ELSE "Completed",
                !.named = TRUE])
       ELSE UNCHANGED <<mcr, mcrC, mcrFresh>>
    /\ Return
    /\ UNCHANGED <<src, keeper, mcp, chunk, published, captured, keeperC, mcpC,
                   mcpFresh, chunkC, budget>>

\* finalizeMCR: a merge patch from the cached copy to the local status, with
\* no resource version.  The condition is always new (it carries the time);
\* the name is in the patch only if it differs from the cached copy.
finalizeMCR ==
    /\ pc \in {"fail", "complete"}
    /\ IF mcrC.ex /\ mcr.ex
       THEN WriteMCR([mcr EXCEPT
                !.ready = IF pc = "fail" THEN "Failed" ELSE "Completed",
                !.named = IF mcrC.named = lm.named THEN @ ELSE lm.named])
       ELSE UNCHANGED <<mcr, mcrC, mcrFresh>>
    /\ Return
    /\ UNCHANGED <<src, keeper, mcp, chunk, published, captured, keeperC, mcpC,
                   mcpFresh, chunkC, budget>>

FinalizeError ==
    /\ pc \in {"fail", "complete"}
    /\ Hiccup("status")
    /\ Return
    /\ UNCHANGED <<api, cache, changes, crashes, createErr>>

Executor ==
    \/ Reconcile \/ SetProcessing \/ SetProcessingError
    \/ collectTargetObjects \/ CollectError
    \/ EnsureKeeper \/ KeeperReadBackError
    \/ LookupCheckpoint \/ CreateCheckpoint \/ CreateCheckpointError
    \/ MarkCheckpointProcessing \/ createChunks \/ ChunkError
    \/ FailCheckpoint \/ PublishReady \/ PublishReadyError
    \/ finalizeMCRIfCheckpointHandedOff
    \/ markMCRCheckpointPendingHandoff \/ MarkPendingError
    \/ finalizeMCR \/ FinalizeError

-----------------------------------------------------------------------------
\* The SnapshotContent controller, as far as it touches these objects.

\* Mutant: the name is published only once the request is complete.
PublishNameOfCompleted ==
    /\ ~published
    /\ mcrC.ex /\ mcrC.named /\ mcrC.ready = "Completed"
    /\ published' = TRUE
    /\ UNCHANGED <<src, mcr, keeper, mcp, chunk, captured, cache, local, budget>>

\* reconcileManifestCheckpointNameProjection: publish the checkpoint name once
\* the cached MCR carries it.
PublishCheckpointName ==
    /\ ~published
    /\ mcrC.ex /\ mcrC.named
    /\ published' = TRUE
    /\ UNCHANGED <<src, mcr, keeper, mcp, chunk, captured, cache, local, budget>>

\* validateCommonContentManifestCheckpoint and the handoff it performs: a
\* cached Ready MCP gets the content as its controller owner (merge patch).
ensureManifestCheckpointOwnedByContent ==
    /\ published
    /\ mcpC.st = "Completed"
    /\ mcpC.owner = "keeper"
    /\ mcp.st # "absent"
    /\ WriteMCP([mcp EXCEPT !.owner = "content"])
    /\ cpHeld' = FALSE
    /\ UNCHANGED <<src, mcr, keeper, chunk, published, captured, mcrC, mcrFresh,
                   keeperC, chunkC, pc, next, lm, lp, objs, budget>>

\* Mutant: a Ready checkpoint is durable whoever owns it.
ReadyCheckpointIsDurable == published /\ mcp.st = "Completed"

\* isManifestCheckpointDurable, on live reads: the content names a Ready MCP
\* and owns it.
isManifestCheckpointDurable ==
    published /\ mcp.st = "Completed" /\ mcp.owner = "content"

\* ... and the MCR, if it still exists, names that MCP as well.
ManifestCaptureRequestSafeToDelete ==
    isManifestCheckpointDurable /\ (mcr.ex => mcr.named)

\* reconcileOwnerCaptureLegs, manifest leg: latch first ...
LatchManifestCaptured ==
    /\ ~captured
    /\ ManifestCaptureRequestSafeToDelete
    /\ captured' = TRUE
    /\ UNCHANGED <<src, mcr, keeper, mcp, chunk, published, cache, local, budget>>

DeleteMCR == WriteMCR([ex |-> FALSE, ready |-> "None", named |-> FALSE])

\* ... then delete the MCR, in the same pass or in a later one (recovery reap).
ReapRequest ==
    /\ captured
    /\ mcr.ex
    /\ DeleteMCR
    /\ UNCHANGED <<src, keeper, mcp, chunk, published, captured, keeperC, mcpC,
                   mcpFresh, chunkC, local, budget>>

\* scanAndDeleteExpiredMCRs: a terminal MCR goes when its TTL has passed.
ExpireRequest ==
    /\ mcrC.ex /\ mcr.ex
    /\ isTerminal(mcrC.ready)
    /\ DeleteMCR
    /\ UNCHANGED <<src, keeper, mcp, chunk, published, captured, keeperC, mcpC,
                   mcpFresh, chunkC, local, budget>>

-----------------------------------------------------------------------------
\* The cluster around them.

\* The ObjectKeeper controller: a FollowObject keeper goes with its MCR.
KeeperFollowsRequest ==
    /\ keeper
    /\ ~mcr.ex
    /\ keeper' = FALSE
    /\ keeperC' = IF Lag THEN keeperC ELSE FALSE
    /\ UNCHANGED <<src, mcr, mcp, chunk, published, captured, mcrC, mcrFresh,
                   mcpC, mcpFresh, chunkC, local, budget>>

\* The garbage collector: an MCP whose keeper is gone goes with its chunks.
\* Chunk names carry the MCP's UID, so cached ones are of no use any more.
CollectGarbage ==
    /\ mcp.st # "absent"
    /\ mcp.owner = "keeper"
    /\ ~keeper
    /\ WriteMCP(NoCheckpoint)
    /\ chunk' = NoData
    /\ chunkC' = {}
    /\ cpHeld' = FALSE
    /\ UNCHANGED <<src, mcr, keeper, published, captured, mcrC, mcrFresh,
                   keeperC, pc, next, lm, lp, objs, budget>>

\* A user changes or deletes (0) a source object while the capture runs.
ChangeSource ==
    /\ changes < MaxChanges
    /\ changes' = changes + 1
    /\ \E t \in Targets, d \in Data :
          d # src[t] /\ src' = [src EXCEPT ![t] = d]
    /\ UNCHANGED <<mcr, keeper, mcp, chunk, published, captured, cache, local,
                   hiccups, crashes, createErr>>

\* The informers catch up, one object type at a time.
SyncRequests ==
    /\ ~mcrFresh
    /\ mcrC' = mcr /\ mcrFresh' = TRUE
    /\ UNCHANGED <<api, keeperC, mcpC, mcpFresh, chunkC, local, budget>>

SyncKeepers ==
    /\ keeperC # keeper
    /\ keeperC' = keeper
    /\ UNCHANGED <<api, mcrC, mcrFresh, mcpC, mcpFresh, chunkC, local, budget>>

SyncCheckpoints ==
    /\ ~mcpFresh
    /\ mcpC' = mcp /\ mcpFresh' = TRUE
    /\ UNCHANGED <<api, mcrC, mcrFresh, keeperC, chunkC, local, budget>>

SyncChunks ==
    /\ \E t \in Targets \ chunkC :
          chunk[t] # 0 /\ chunkC' = chunkC \cup {t}
    /\ UNCHANGED <<api, mcrC, mcrFresh, keeperC, mcpC, mcpFresh, local, budget>>

Sync == SyncRequests \/ SyncKeepers \/ SyncCheckpoints \/ SyncChunks

\* The controller process restarts: the running reconcile is lost, and the
\* informers list everything anew.
Restart ==
    /\ crashes < MaxCrashes
    /\ crashes' = crashes + 1
    /\ Return
    /\ mcrC' = mcr /\ mcrFresh' = TRUE
    /\ keeperC' = keeper
    /\ mcpC' = mcp /\ mcpFresh' = TRUE
    /\ chunkC' = {t \in Targets : chunk[t] # 0}
    /\ UNCHANGED <<api, hiccups, changes, createErr>>

ContentController ==
    \/ PublishCheckpointName \/ ensureManifestCheckpointOwnedByContent
    \/ LatchManifestCaptured \/ ReapRequest

Environment ==
    \/ ExpireRequest \/ KeeperFollowsRequest \/ CollectGarbage
    \/ ChangeSource \/ Sync \/ Restart

\* A captured, cleaned-up request is a quiescent state, not a deadlock.
Quiescent == ~mcrC.ex /\ pc = "idle" /\ UNCHANGED vars

Next == Executor \/ ContentController \/ Environment \/ Quiescent

Spec == Init /\ [][Next]_vars

\* Work-queue delivery: a failed or waiting reconcile is requeued, so the
\* executor keeps running; the content controller polls while its content is
\* not Ready; watches deliver every change to the informers.  Nothing obliges
\* a user to change objects, a process to restart or a TTL to be short.
Fairness ==
    /\ WF_vars(Executor)
    /\ WF_vars(PublishCheckpointName)
    /\ WF_vars(ensureManifestCheckpointOwnedByContent)
    /\ WF_vars(LatchManifestCaptured)
    /\ WF_vars(ReapRequest)
    /\ WF_vars(SyncRequests)
    /\ WF_vars(SyncKeepers)
    /\ WF_vars(SyncCheckpoints)
    /\ WF_vars(SyncChunks)

FairSpec == Spec /\ Fairness
-----------------------------------------------------------------------------
\* Properties.

ApiType ==
    /\ src \in [Targets -> Data]
    /\ mcr \in Request
    /\ keeper \in BOOLEAN
    /\ mcp \in Checkpoint
    /\ chunk \in [Targets -> Data]
    /\ published \in BOOLEAN
    /\ captured \in BOOLEAN

CacheType ==
    /\ mcrC \in Request
    /\ mcrFresh \in BOOLEAN
    /\ keeperC \in BOOLEAN
    /\ mcpC \in Checkpoint
    /\ mcpFresh \in BOOLEAN
    /\ chunkC \subseteq Targets

LocalType ==
    /\ pc \in Steps
    /\ next \in 1..(N + 1)
    /\ lm \in [ready : MCRReady, named : BOOLEAN]
    /\ lp \in Checkpoint
    /\ cpHeld \in BOOLEAN
    /\ objs \in [Targets -> Data]

BudgetType ==
    /\ hiccups \in 0..MaxHiccups
    /\ changes \in 0..MaxChanges
    /\ crashes \in 0..MaxCrashes
    /\ createErr \in BOOLEAN

\* Every variable stays in its type; in particular the conditions that the
\* executor writes on the MCR and the MCP have reasons of the API's.
TypeOK == ApiType /\ CacheType /\ LocalType /\ BudgetType

\* A Ready checkpoint is whole: every chunk its status lists exists and holds
\* what the status says, although chunk creation may have been interrupted,
\* restarted and resumed against objects that changed in between
\* (createChunks' checksum comparison).
CheckpointIntegrity ==
    mcp.st = "Completed" =>
        \A t \in Targets : chunk[t] # 0 /\ chunk[t] = mcp.info[t]

\* What manifestCaptured promises: once the owner's latch is set the content
\* owns the checkpoint, so deleting the MCR (and with it the keeper) can no
\* longer take the captured manifests away.
CapturedIsDurable ==
    captured => mcp.st # "absent" /\ mcp.owner = "content"

\* MCR Ready=True is delayed until the handoff: a completed request has its
\* checkpoint owned by the content, so the TTL scanner may delete it.
CompletedIsHandedOff ==
    mcr.ready = "Completed" => mcp.st # "absent" /\ mcp.owner = "content"

\* A request fails for a reason: an object changed or vanished during the
\* capture, the API server refused a chunk for good, or it refused the keeper
\* or the checkpoint.  Failing reads, chunk writes and status writes, and
\* restarts, never fail it (terminalCaptureError).
FailedHasCause ==
    mcr.ready = "Failed" =>
        \/ changes > 0
        \/ createErr
        \/ \E t \in Targets : src[t] \in Rejects

\* "MCR is immutable once terminal" (Reconcile).
TerminalIsFinal ==
    [][mcr.ready \in {"Completed", "Failed"}
          => mcr'.ready = mcr.ready \/ ~mcr'.ex]_vars

\* "the checkpoint has reached a stable state where no further chunk creation
\* is needed" (manifestCheckpointDoneOrFailed).
DoneIsStable ==
    [][mcp.st \in {"Completed", "Failed"}
          => mcp'.st \in {mcp.st, "absent"}]_vars

\* Every request ends: it is completed or failed, or its capture was latched
\* and it was reaped.
RequestSettles == <>[](~mcr.ex \/ mcr.ready \in {"Completed", "Failed"})

-----------------------------------------------------------------------------
\* Inductive strengthenings of the safety invariants (ManifestCaptureProofs).

HandedOff == mcp.st # "absent" /\ mcp.owner = "content"

\* Ownership by the content is stable, so what any cached or local copy, the
\* latch or a terminal request says about it remains true.
HandoffInv ==
    /\ mcp.owner = "content" => mcp.st # "absent"
    /\ mcpC.owner = "content" => HandedOff
    /\ lp.owner = "content" => HandedOff
    /\ pc = "complete" => HandedOff
    /\ captured => HandedOff
    /\ mcr.ready = "Completed" => HandedOff

\* The chunks of the targets the running loop has passed hold what this pass
\* collected, as long as its copy of the MCP is the current one.
CheckpointInv ==
    /\ mcpFresh => mcpC = mcp
    /\ cpHeld => mcp.st # "absent"
    /\ pc \in {"idle", "process", "keeper", "lookup", "create", "markcp"} => next = 1
    /\ pc = "collect" => \A t \in Targets : t < next => objs[t] # 0
    /\ pc \in {"keeper", "lookup", "create", "markcp", "chunks", "ready"}
          => \A t \in Targets : objs[t] # 0
    /\ pc = "chunks" /\ cpHeld
          => \A t \in Targets : t < next => chunk[t] = objs[t]
    /\ pc = "ready" /\ cpHeld
          => \A t \in Targets : chunk[t] = objs[t]
    /\ CheckpointIntegrity

\* Whatever says that the capture failed has a cause behind it; as long as there
\* is none the objects are the initial ones, and every collected copy and every
\* chunk that exists holds them.
Cause == changes > 0 \/ createErr \/ \E t \in Targets : src[t] \in Rejects

CauseInv ==
    /\ "Failed" \in {mcr.ready, mcp.st, mcpC.st, lp.st} => Cause
    /\ pc \in {"fail", "cpfail"} => Cause
    /\ changes = 0 =>
          \A t \in Targets : /\ src[t] # 0
                             /\ objs[t] \in {0, src[t]}
                             /\ chunk[t] \in {0, src[t]}

\* With caches that do not trail, a reconcile runs only for a request that is
\* not terminal, and writes chunks only for a checkpoint that is not done.
SyncInv ==
    /\ mcrC = mcr /\ mcpC = mcp
    /\ mcr.ready \in {"Completed", "Failed"} => pc = "idle"
    /\ pc \in {"create", "markcp", "chunks", "cpfail", "ready"}
          => mcp.st \notin {"Completed", "Failed"}

-----------------------------------------------------------------------------
\* The request as CaptureLeg sees it: it is open until its condition is terminal,
\* and a checkpoint is a copy to rely on once it is Ready.
RequestStage ==
    CASE ~mcr.ex -> "gone"
      [] mcr.ex /\ mcr.ready = "Completed" -> "completed"
      [] mcr.ex /\ mcr.ready = "Failed" -> "failed"
      [] OTHER -> "open"

ReadyCopy == IF mcp.st = "Completed" THEN mcp.info ELSE NoData

Leg == INSTANCE CaptureLeg WITH
          Copies <- [Targets -> Data \ {0}], Nothing <- NoData,
          request <- RequestStage, copy <- ReadyCopy, owner <- mcp.owner

\* However many calls the executor makes, fails at and repeats, and whatever the
\* other controllers do in between, a request is seen to do no more than CaptureLeg
\* says: one copy, written at once, handed over before it counts, never taken back.
IsCaptureLeg == Leg!LegSpec

\* What the mapping rests on, with caches that do not trail.  A pass that may
\* still create or fill the checkpoint runs for a request without a name, and a
\* request has a name only when its checkpoint is done, so what is published,
\* handed over or captured is never written again.
Early == {"process", "collect", "keeper", "lookup", "create", "markcp", "chunks",
          "cpfail", "ready"}
Done == mcp.st \in {"Completed", "Failed"}

LegInv ==
    /\ keeperC = keeper
    /\ pc \in Early => mcr.ex /\ ~mcr.named /\ ~lm.named
    /\ pc # "idle" => mcr.ex \/ captured
    /\ captured \/ published => (mcr.ex => mcr.named)
    /\ mcp.owner = "content" => published /\ mcp.st = "Completed"
    /\ mcr.ex /\ mcr.named => Done
    /\ pc \in {"handoff", "pendReady", "pendHandoff", "complete"} => Done
    /\ pc \in {"handoff", "pendReady"} => lp.st = mcp.st
    /\ pc = "fail" => mcr.ex /\ (mcp.st = "Completed" => ~mcr.named /\ ~lm.named)
    /\ pc \in {"fail", "complete"} => (mcr.ex /\ mcr.named => lm.named) /\ (lm.named => Done)
    /\ mcp.st = "Completed" /\ mcp.owner = "keeper" =>
          (published => mcr.ex) /\ (mcr.named => mcr.ready # "Failed")
    /\ mcr.ex /\ (mcp.st # "absent" \/ pc \in {"lookup", "create"}) => keeper
=============================================================================
