------------------------ MODULE ManifestCaptureProofs ------------------------
(***************************************************************************)
(* Proofs about ManifestCapture, for every number of targets and contents, *)
(* every bound on failures, changes and restarts, and with or without      *)
(* lagging caches.                                                         *)
(***************************************************************************)
EXTENDS ManifestCapture, TLAPS

USE DEF api, cache, local, budget

\* The empty target map is a target map.
LEMMA NoDataType == NoData \in [Targets -> Data]
  BY CaptureAssumption DEF CaptureAssumption, NoData, Targets, Data

\* The absent checkpoint is a checkpoint.
LEMMA NoCheckpointType == NoCheckpoint \in Checkpoint
  BY NoDataType DEF NoCheckpoint, Checkpoint, MCPState

\* A reconcile that returns leaves well-typed local state.
LEMMA ReturnType ==
    ASSUME Return
    PROVE  LocalType'
<1>1. pc' \in Steps /\ next' \in 1..(N + 1)
      BY CaptureAssumption DEF Return, Steps, CaptureAssumption
<1>2. lm' \in [ready : MCRReady, named : BOOLEAN] /\ cpHeld' \in BOOLEAN
      BY DEF Return, MCRReady
<1>3. lp' \in Checkpoint /\ objs' \in [Targets -> Data]
      BY NoDataType, NoCheckpointType DEF Return
<1> QED
    BY <1>1, <1>2, <1>3 DEF LocalType

\* A status write of the MCR keeps the object and its informer copy in type.
LEMMA WriteMCRType ==
    ASSUME TypeOK, NEW new \in Request, WriteMCR(new)
    PROVE  mcr' \in Request /\ mcrC' \in Request /\ mcrFresh' \in BOOLEAN
  BY CaptureAssumption DEF CaptureAssumption, WriteMCR, TypeOK, CacheType

\* ... and so does a write of the MCP.
LEMMA WriteMCPType ==
    ASSUME TypeOK, NEW new \in Checkpoint, WriteMCP(new)
    PROVE  mcp' \in Checkpoint /\ mcpC' \in Checkpoint /\ mcpFresh' \in BOOLEAN
  BY CaptureAssumption DEF CaptureAssumption, WriteMCP, TypeOK, CacheType

\* The initial states are well typed.
LEMMA TypeInit == Init => TypeOK
<1> SUFFICES ASSUME Init PROVE TypeOK
    OBVIOUS
<1>1. ApiType /\ CacheType
      BY NoDataType, NoCheckpointType
         DEF Init, ApiType, CacheType, Request, MCRReady, Data
<1>2. LocalType
  <2>1. pc \in Steps /\ next \in 1..(N + 1)
        BY CaptureAssumption DEF CaptureAssumption, Init, Steps
  <2>2. lm \in [ready : MCRReady, named : BOOLEAN] /\ cpHeld \in BOOLEAN
        BY DEF Init, MCRReady
  <2> QED
      BY <2>1, <2>2, NoDataType, NoCheckpointType DEF Init, LocalType
<1>3. BudgetType
  <2>1. createErr \in BOOLEAN
        BY DEF Init
  <2> QED
      BY <2>1, CaptureAssumption DEF CaptureAssumption, Init, BudgetType
<1> QED
    BY <1>1, <1>2, <1>3 DEF TypeOK

\* Every call of the executor, and every step beside it, keeps the types.
LEMMA TypeStep == TypeOK /\ [Next]_vars => TypeOK'
<1> SUFFICES ASSUME TypeOK, [Next]_vars PROVE TypeOK'
    OBVIOUS
<1> USE CaptureAssumption DEF CaptureAssumption, TypeOK
<1>1. CASE Reconcile
  <2>1. ApiType' /\ CacheType'
        BY <1>1
        DEF Reconcile, ApiType, CacheType
  <2>2. LocalType'
        BY <1>1
        DEF Reconcile, ApiType, CacheType, LocalType, Steps, Request
  <2>3. BudgetType'
        BY <1>1 DEF Reconcile, BudgetType
  <2> QED
      BY <2>1, <2>2, <2>3
<1>2. CASE SetProcessing
  <2>1. ApiType' /\ CacheType'
        BY <1>2, WriteMCRType
        DEF SetProcessing, ApiType, CacheType, LocalType, Request, MCRReady
  <2>2. LocalType'
        BY <1>2
        DEF SetProcessing, ApiType, CacheType, LocalType, Steps, Request, MCRReady
  <2>3. BudgetType'
        BY <1>2 DEF SetProcessing, BudgetType
  <2> QED
      BY <2>1, <2>2, <2>3
<1>3. CASE SetProcessingError
  <2>1. ApiType' /\ CacheType'
        BY <1>3 DEF SetProcessingError, ApiType, CacheType
  <2>2. LocalType'
        BY <1>3, ReturnType DEF SetProcessingError
  <2>3. BudgetType'
        BY <1>3 DEF SetProcessingError, Hiccup, BudgetType
  <2> QED
      BY <2>1, <2>2, <2>3
<1>4. CASE collectTargetObjects
  <2>1. ApiType' /\ CacheType'
        BY <1>4
        DEF collectTargetObjects, ApiType, CacheType
  <2>2. LocalType'
        BY <1>4
        DEF collectTargetObjects, ApiType, CacheType, LocalType, Steps, Targets
  <2>3. BudgetType'
        BY <1>4 DEF collectTargetObjects, BudgetType
  <2> QED
      BY <2>1, <2>2, <2>3
<1>5. CASE CollectError
  <2>1. ApiType' /\ CacheType'
        BY <1>5 DEF CollectError, ApiType, CacheType
  <2>2. LocalType'
        BY <1>5, ReturnType DEF CollectError
  <2>3. BudgetType'
        BY <1>5 DEF CollectError, Hiccup, BudgetType
  <2> QED
      BY <2>1, <2>2, <2>3
<1>6. CASE EnsureKeeper
  <2>1. ApiType' /\ CacheType'
        BY <1>6 DEF EnsureKeeper, ProgressMessage, ApiType, CacheType
  <2>2. LocalType'
        BY <1>6 DEF EnsureKeeper, LocalType, Steps
  <2>3. hiccups' \in 0..MaxHiccups /\ UNCHANGED <<changes, crashes>>
        BY <1>6 DEF EnsureKeeper, BudgetType
  <2>4. createErr' \in BOOLEAN
        BY <1>6 DEF EnsureKeeper, BudgetType
  <2> QED
      BY <2>1, <2>2, <2>3, <2>4 DEF BudgetType
<1>7. CASE KeeperReadBackError
  <2>1. ApiType' /\ CacheType'
        BY <1>7 DEF KeeperReadBackError, ApiType, CacheType
  <2>2. LocalType'
        BY <1>7, ReturnType DEF KeeperReadBackError
  <2>3. BudgetType'
        BY <1>7 DEF KeeperReadBackError, Hiccup, BudgetType
  <2> QED
      BY <2>1, <2>2, <2>3
<1>8. CASE LookupCheckpoint
  <2>1. ApiType' /\ CacheType'
        BY <1>8
        DEF LookupCheckpoint, ApiType, CacheType
  <2>2. LocalType'
        BY <1>8
        DEF LookupCheckpoint, ApiType, CacheType, LocalType, Steps, MCRReady
  <2>3. BudgetType'
        BY <1>8 DEF LookupCheckpoint, BudgetType
  <2> QED
      BY <2>1, <2>2, <2>3
<1>9. CASE CreateCheckpoint
  <2>1. [st |-> "new", owner |-> "keeper", info |-> NoData] \in Checkpoint
        BY NoDataType DEF Checkpoint, MCPState
  <2>2. ApiType' /\ CacheType'
        BY <1>9, <2>1, WriteMCPType
        DEF CreateCheckpoint, ApiType, CacheType
  <2>3. LocalType'
        BY <1>9, <2>1
        DEF CreateCheckpoint, ApiType, CacheType, LocalType, Steps
  <2>4. BudgetType'
        BY <1>9 DEF CreateCheckpoint, BudgetType
  <2> QED
      BY <2>2, <2>3, <2>4
<1>10. CASE CreateCheckpointError
  <2>1. ApiType' /\ CacheType'
        BY <1>10 DEF CreateCheckpointError, ApiType, CacheType
  <2>2. LocalType'
        BY <1>10, ReturnType DEF CreateCheckpointError, LocalType, Steps
  <2>3. hiccups' \in 0..MaxHiccups /\ UNCHANGED <<changes, crashes>>
        BY <1>10 DEF CreateCheckpointError, Hiccup, BudgetType
  <2>4. createErr' \in BOOLEAN
        BY <1>10 DEF CreateCheckpointError, BudgetType
  <2> QED
      BY <2>1, <2>2, <2>3, <2>4 DEF BudgetType
<1>11. CASE MarkCheckpointProcessing
  <2>1. [mcp EXCEPT !.st = "Processing", !.info = lp.info] \in Checkpoint
        BY DEF Checkpoint, MCPState, ApiType, LocalType
  <2>2. [lp EXCEPT !.st = "Processing"] \in Checkpoint
        BY DEF Checkpoint, MCPState, LocalType
  <2>3. ApiType' /\ CacheType'
        BY <1>11, <2>1, WriteMCPType DEF MarkCheckpointProcessing, ProgressMessage, ApiType, CacheType
  <2>4. LocalType'
        BY <1>11, <2>2 DEF MarkCheckpointProcessing, LocalType, Steps
  <2>5. BudgetType'
        BY <1>11 DEF MarkCheckpointProcessing, Hiccup, BudgetType
  <2> QED
      BY <2>3, <2>4, <2>5
<1>12. CASE createChunks
  <2>0. next \in Targets \/ next > N
        BY DEF LocalType, Targets
  <2>1. ApiType'
        BY <1>12, <2>0 DEF createChunks, ApiType, LocalType
  <2>2. CacheType'
        BY <1>12, <2>0 DEF createChunks, ApiType, CacheType
  <2>3. LocalType'
        BY <1>12
        DEF createChunks, ApiType, CacheType, LocalType, Steps, Targets
  <2>4. BudgetType'
        BY <1>12 DEF createChunks, BudgetType
  <2> QED
      BY <2>1, <2>2, <2>3, <2>4
<1>13. CASE ChunkError
  <2>1. ApiType' /\ CacheType'
        BY <1>13 DEF ChunkError, ApiType, CacheType, ProgressMessage
  <2>2. LocalType'
        BY <1>13, ReturnType DEF ChunkError
  <2>3. BudgetType'
        BY <1>13 DEF ChunkError, Hiccup, BudgetType
  <2> QED
      BY <2>1, <2>2, <2>3
<1>14. CASE FailCheckpoint
  <2>1. [mcp EXCEPT !.st = "Failed", !.info = lp.info] \in Checkpoint
        BY DEF Checkpoint, MCPState, ApiType, LocalType
  <2>2. [lp EXCEPT !.st = "Failed"] \in Checkpoint
        BY DEF Checkpoint, MCPState, LocalType
  <2>3. ApiType' /\ CacheType'
        BY <1>14, <2>1, WriteMCPType DEF FailCheckpoint, ApiType, CacheType
  <2>4. LocalType'
        BY <1>14, <2>2 DEF FailCheckpoint, LocalType, Steps
  <2>5. BudgetType'
        BY <1>14 DEF FailCheckpoint, Hiccup, BudgetType
  <2> QED
      BY <2>3, <2>4, <2>5
<1>15. CASE PublishReady
  <2>1. [mcp EXCEPT !.st = "Completed", !.info = objs] \in Checkpoint
        BY DEF Checkpoint, MCPState, ApiType, LocalType
  <2>2. [lp EXCEPT !.st = "Completed", !.info = objs] \in Checkpoint
        BY DEF Checkpoint, MCPState, LocalType
  <2>3. ApiType' /\ CacheType'
        BY <1>15, <2>1, WriteMCPType DEF PublishReady, ApiType, CacheType
  <2>4. LocalType'
        BY <1>15, <2>2 DEF PublishReady, LocalType, Steps
  <2>5. BudgetType'
        BY <1>15 DEF PublishReady, BudgetType
  <2> QED
      BY <2>3, <2>4, <2>5
<1>16. CASE PublishReadyError
  <2>1. ApiType' /\ CacheType'
        BY <1>16 DEF PublishReadyError, ApiType, CacheType
  <2>2. LocalType'
        BY <1>16, ReturnType DEF PublishReadyError
  <2>3. BudgetType'
        BY <1>16 DEF PublishReadyError, Hiccup, BudgetType
  <2> QED
      BY <2>1, <2>2, <2>3
<1>17. CASE finalizeMCRIfCheckpointHandedOff
  <2>1. ApiType' /\ CacheType'
        BY <1>17
        DEF finalizeMCRIfCheckpointHandedOff, ApiType, CacheType
  <2>2. LocalType'
        BY <1>17
        DEF finalizeMCRIfCheckpointHandedOff, ApiType, CacheType, LocalType, Steps
  <2>3. BudgetType'
        BY <1>17 DEF finalizeMCRIfCheckpointHandedOff, BudgetType
  <2> QED
      BY <2>1, <2>2, <2>3
<1>18. CASE markMCRCheckpointPendingHandoff
  <2>1. [mcrC EXCEPT !.named = TRUE, !.ready = PendingReason] \in Request
        BY DEF Request, MCRReady, CacheType, PendingReason
  <2>2. ApiType' /\ CacheType'
        BY <1>18, <2>1, WriteMCRType DEF markMCRCheckpointPendingHandoff, ApiType, CacheType
  <2>3. LocalType'
        BY <1>18, ReturnType DEF markMCRCheckpointPendingHandoff, LocalType, Steps
  <2>4. BudgetType'
        BY <1>18 DEF markMCRCheckpointPendingHandoff, BudgetType
  <2> QED
      BY <2>2, <2>3, <2>4
<1>19. CASE MarkPendingError
  <2>1. ApiType' /\ CacheType'
        BY <1>19 DEF MarkPendingError, ApiType, CacheType
  <2>2. LocalType'
        BY <1>19, ReturnType DEF MarkPendingError
  <2>3. BudgetType'
        BY <1>19 DEF MarkPendingError, Hiccup, BudgetType
  <2> QED
      BY <2>1, <2>2, <2>3
<1>20. CASE finalizeMCR
  <2>1. [mcr EXCEPT !.ready = IF pc = "fail" THEN "Failed" ELSE "Completed",
                     !.named = IF mcrC.named = lm.named THEN @ ELSE lm.named] \in Request
        BY DEF Request, MCRReady, ApiType, LocalType
  <2>2. ApiType' /\ CacheType'
        BY <1>20, <2>1, WriteMCRType DEF finalizeMCR, ApiType, CacheType
  <2>3. LocalType'
        BY <1>20, ReturnType DEF finalizeMCR
  <2>4. BudgetType'
        BY <1>20 DEF finalizeMCR, BudgetType
  <2> QED
      BY <2>2, <2>3, <2>4
<1>21. CASE FinalizeError
  <2>1. ApiType' /\ CacheType'
        BY <1>21 DEF FinalizeError, ApiType, CacheType
  <2>2. LocalType'
        BY <1>21, ReturnType DEF FinalizeError
  <2>3. BudgetType'
        BY <1>21 DEF FinalizeError, Hiccup, BudgetType
  <2> QED
      BY <2>1, <2>2, <2>3
<1>22. CASE PublishCheckpointName
      BY <1>22
         DEF PublishCheckpointName, ApiType, CacheType, LocalType, BudgetType
<1>23. CASE ensureManifestCheckpointOwnedByContent
  <2>1. [mcp EXCEPT !.owner = "content"] \in Checkpoint
        BY DEF Checkpoint, ApiType
  <2>2. ApiType' /\ CacheType'
        BY <1>23, <2>1, WriteMCPType
        DEF ensureManifestCheckpointOwnedByContent, ApiType, CacheType
  <2>3. LocalType' /\ BudgetType'
        BY <1>23 DEF ensureManifestCheckpointOwnedByContent, LocalType, BudgetType
  <2> QED
      BY <2>2, <2>3
<1>24. CASE LatchManifestCaptured
      BY <1>24
         DEF LatchManifestCaptured, ApiType, CacheType, LocalType, BudgetType
<1>25. CASE ReapRequest \/ ExpireRequest
  <2>1. [ex |-> FALSE, ready |-> "None", named |-> FALSE] \in Request
        BY DEF Request, MCRReady
  <2>2. ApiType' /\ CacheType'
        BY <1>25, <2>1, WriteMCRType
        DEF ReapRequest, ExpireRequest, DeleteMCR, ApiType, CacheType
  <2>3. LocalType' /\ BudgetType'
        BY <1>25 DEF ReapRequest, ExpireRequest, LocalType, BudgetType
  <2> QED
      BY <2>2, <2>3
<1>26. CASE KeeperFollowsRequest
      BY <1>26
         DEF KeeperFollowsRequest, ApiType, CacheType, LocalType, BudgetType
<1>27. CASE CollectGarbage
  <2>1. ApiType' /\ CacheType'
        BY <1>27, NoDataType, NoCheckpointType, WriteMCPType
        DEF CollectGarbage, ApiType, CacheType
  <2>2. LocalType' /\ BudgetType'
        BY <1>27 DEF CollectGarbage, LocalType, BudgetType
  <2> QED
      BY <2>1, <2>2
<1>28. CASE ChangeSource
      BY <1>28
         DEF ChangeSource, ApiType, CacheType, LocalType, BudgetType
<1>29. CASE SyncRequests \/ SyncKeepers \/ SyncCheckpoints
  <2>1. CASE SyncRequests
        BY <2>1 DEF SyncRequests, ApiType, CacheType, LocalType, BudgetType
  <2>2. CASE SyncKeepers
        BY <2>2 DEF SyncKeepers, ApiType, CacheType, LocalType, BudgetType
  <2>3. CASE SyncCheckpoints
        BY <2>3 DEF SyncCheckpoints, ApiType, CacheType, LocalType, BudgetType
  <2> QED
      BY <1>29, <2>1, <2>2, <2>3
<1>30. CASE SyncChunks
      BY <1>30
         DEF SyncChunks, ApiType, CacheType, LocalType, BudgetType
<1>31. CASE Restart
  <2>1. ApiType' /\ CacheType'
        BY <1>31 DEF Restart, ApiType, CacheType
  <2>2. LocalType'
        BY <1>31, ReturnType DEF Restart
  <2>3. BudgetType'
        BY <1>31 DEF Restart, BudgetType
  <2> QED
      BY <2>1, <2>2, <2>3
<1>32. CASE Quiescent \/ UNCHANGED vars
      BY <1>32
         DEF Quiescent, vars, ApiType, CacheType, LocalType, BudgetType
<1> QED
    BY <1>1, <1>2, <1>3, <1>4, <1>5, <1>6, <1>7, <1>8, <1>9, <1>10, <1>11,
       <1>12, <1>13, <1>14, <1>15, <1>16, <1>17, <1>18, <1>19, <1>20,
       <1>21, <1>22, <1>23, <1>24, <1>25, <1>26, <1>27, <1>28, <1>29,
       <1>30, <1>31, <1>32
    DEF Next, Executor, ContentController, Environment, Sync

\* Every variable of the executor, the content controller, the caches and the
\* cluster stays in its type.
THEOREM TypeCorrect == Spec => []TypeOK
  BY TypeInit, TypeStep, PTL DEF Spec

-----------------------------------------------------------------------------
(***************************************************************************)
(* The handoff.  Once the content owns the MCP nobody takes it back and    *)
(* the garbage collector passes it by, so HandedOff is stable; every copy  *)
(* of the MCP that shows the content as owner, every latch and every       *)
(* completed request was derived from a state where it held.               *)
(***************************************************************************)
\* Nothing is handed off initially.
LEMMA HandoffInit == Init => HandoffInv
  BY DEF Init, HandoffInv, NoCheckpoint

\* No step of the executor, the content controller, the TTL scanner or the
\* garbage collector takes a handed-off checkpoint back.
LEMMA HandoffStep == TypeOK /\ HandoffInv /\ [Next]_vars => HandoffInv'
<1> SUFFICES ASSUME TypeOK, HandoffInv, [Next]_vars PROVE HandoffInv'
    OBVIOUS
<1> USE DEF TypeOK, ApiType, CacheType, LocalType, HandoffInv, HandedOff
<1>1. CASE Reconcile
      BY <1>1 DEF Reconcile, Request, Checkpoint
<1>2. CASE SetProcessing
      BY <1>2 DEF SetProcessing, WriteMCR, Request, Checkpoint
<1>3. CASE SetProcessingError
      BY <1>3 DEF SetProcessingError, Return, NoCheckpoint, Request,
         Checkpoint
<1>4. CASE collectTargetObjects
      BY <1>4 DEF collectTargetObjects, Request, Checkpoint
<1>5. CASE CollectError
      BY <1>5 DEF CollectError, Return, NoCheckpoint, Request, Checkpoint
<1>6. CASE EnsureKeeper
      BY <1>6 DEF EnsureKeeper, Request, Checkpoint
<1>7. CASE KeeperReadBackError
      BY <1>7 DEF KeeperReadBackError, Return, NoCheckpoint, Request,
         Checkpoint
<1>8. CASE LookupCheckpoint
      BY <1>8 DEF LookupCheckpoint, Request, Checkpoint
<1>9. CASE CreateCheckpoint
      BY <1>9 DEF CreateCheckpoint, WriteMCP, Request, Checkpoint
<1>10. CASE CreateCheckpointError
      BY <1>10 DEF CreateCheckpointError, Return, NoCheckpoint, Request,
         Checkpoint
<1>11. CASE MarkCheckpointProcessing
      BY <1>11 DEF MarkCheckpointProcessing, WriteMCP, Request, Checkpoint
<1>12. CASE createChunks
      BY <1>12 DEF createChunks, Request, Checkpoint
<1>13. CASE ChunkError
      BY <1>13 DEF ChunkError, Return, NoCheckpoint, Request, Checkpoint
<1>14. CASE FailCheckpoint
      BY <1>14 DEF FailCheckpoint, WriteMCP, Request, Checkpoint
<1>15. CASE PublishReady
      BY <1>15 DEF PublishReady, WriteMCP, Request, Checkpoint
<1>16. CASE PublishReadyError
      BY <1>16 DEF PublishReadyError, Return, NoCheckpoint, Request,
         Checkpoint
<1>17. CASE finalizeMCRIfCheckpointHandedOff
      BY <1>17 DEF finalizeMCRIfCheckpointHandedOff,
         manifestCheckpointOwnedBySnapshotContent, Request, Checkpoint
<1>18. CASE markMCRCheckpointPendingHandoff
  <2>1. UNCHANGED <<mcp, mcpC, captured>>
        BY <1>18 DEF markMCRCheckpointPendingHandoff
  <2>2. lp'.owner = "content" => lp.owner = "content"
        BY <1>18 DEF markMCRCheckpointPendingHandoff, Return, NoCheckpoint
  <2>3. pc' # "complete"
        BY <1>18 DEF markMCRCheckpointPendingHandoff, Return
  <2>4. mcr'.ready = "Completed" => mcr.ready = "Completed"
        BY <1>18 DEF markMCRCheckpointPendingHandoff, WriteMCR, PendingReason, Request
  <2> QED
      BY <2>1, <2>2, <2>3, <2>4
<1>19. CASE MarkPendingError
      BY <1>19 DEF MarkPendingError, Return, NoCheckpoint, Request,
         Checkpoint
<1>20. CASE finalizeMCR
      BY <1>20 DEF finalizeMCR, WriteMCR, Return, NoCheckpoint, Request,
         Checkpoint
<1>21. CASE FinalizeError
      BY <1>21 DEF FinalizeError, Return, NoCheckpoint, Request, Checkpoint
<1>22. CASE PublishCheckpointName
      BY <1>22 DEF PublishCheckpointName, Request, Checkpoint
<1>23. CASE ensureManifestCheckpointOwnedByContent
      BY <1>23 DEF ensureManifestCheckpointOwnedByContent, WriteMCP,
         Request, Checkpoint
<1>24. CASE LatchManifestCaptured
      BY <1>24 DEF LatchManifestCaptured,
         ManifestCaptureRequestSafeToDelete, isManifestCheckpointDurable,
         Request, Checkpoint
<1>25. CASE ReapRequest
      BY <1>25 DEF ReapRequest, DeleteMCR, WriteMCR, Request, Checkpoint
<1>26. CASE ExpireRequest
      BY <1>26 DEF ExpireRequest, DeleteMCR, WriteMCR, Request, Checkpoint
<1>27. CASE KeeperFollowsRequest
      BY <1>27 DEF KeeperFollowsRequest, Request, Checkpoint
<1>28. CASE CollectGarbage
      BY <1>28 DEF CollectGarbage, WriteMCP, NoCheckpoint, Request,
         Checkpoint
<1>29. CASE ChangeSource
      BY <1>29 DEF ChangeSource, Request, Checkpoint
<1>30. CASE SyncRequests
      BY <1>30 DEF SyncRequests, Request, Checkpoint
<1>31. CASE SyncKeepers
      BY <1>31 DEF SyncKeepers, Request, Checkpoint
<1>32. CASE SyncCheckpoints
      BY <1>32 DEF SyncCheckpoints, Request, Checkpoint
<1>33. CASE SyncChunks
      BY <1>33 DEF SyncChunks, Request, Checkpoint
<1>34. CASE Restart
      BY <1>34 DEF Restart, Return, NoCheckpoint, Request, Checkpoint
<1>35. CASE Quiescent
      BY <1>35 DEF Quiescent, vars, Request, Checkpoint
<1>36. CASE UNCHANGED vars
      BY <1>36 DEF vars, Request, Checkpoint
<1> QED
    BY <1>1, <1>2, <1>3, <1>4, <1>5, <1>6, <1>7, <1>8, <1>9, <1>10, <1>11,
       <1>12, <1>13, <1>14, <1>15, <1>16, <1>17, <1>18, <1>19, <1>20,
       <1>21, <1>22, <1>23, <1>24, <1>25, <1>26, <1>27, <1>28, <1>29,
       <1>30, <1>31, <1>32, <1>33, <1>34, <1>35, <1>36
    DEF Next, Executor, ContentController, Environment, Sync

\* Hence whatever is known to be handed off is handed off.
LEMMA HandoffAlways == Spec => []HandoffInv
<1>1. TypeOK /\ HandoffInv /\ [Next]_vars => HandoffInv'
      BY HandoffStep
<1> QED
    BY <1>1, HandoffInit, TypeCorrect, PTL DEF Spec

\* The latch manifestCaptured (reconcileOwnerCaptureLegs) is only ever set on a
\* checkpoint that the content owns, and it stays owned: neither the reap of
\* the MCR nor the TTL scanner takes a captured manifest away.
THEOREM CapturedDurable == Spec => []CapturedIsDurable
<1>1. HandoffInv => CapturedIsDurable
      BY DEF HandoffInv, HandedOff, CapturedIsDurable
<1> QED
    BY <1>1, HandoffAlways, PTL

\* A completed request has been handed off, whatever the caches showed to the
\* executor (finalizeMCRIfCheckpointHandedOff).
THEOREM CompletedHandedOff == Spec => []CompletedIsHandedOff
<1>1. HandoffInv => CompletedIsHandedOff
      BY DEF HandoffInv, HandedOff, CompletedIsHandedOff
<1> QED
    BY <1>1, HandoffAlways, PTL

-----------------------------------------------------------------------------
(***************************************************************************)
(* The checkpoint.  A pass may resume what an earlier one began with other *)
(* contents of the targets; the checksum comparison of createChunks makes  *)
(* every chunk the pass has gone by equal to what it collected itself, and *)
(* the optimistic lock of the last write makes the MCP the one it began.   *)
(***************************************************************************)
\* There is no checkpoint initially.
LEMMA CheckpointInit == Init => CheckpointInv
  BY DEF Init, CheckpointInv, CheckpointIntegrity, NoCheckpoint

\* Every call keeps what the pass knows about the chunks it has gone by, and
\* with it the integrity of a Ready checkpoint.
LEMMA CheckpointStep == TypeOK /\ CheckpointInv /\ [Next]_vars => CheckpointInv'
<1> SUFFICES ASSUME TypeOK, CheckpointInv, [Next]_vars PROVE CheckpointInv'
    OBVIOUS
<1> USE DEF TypeOK, ApiType, CacheType, LocalType, CheckpointInv, CheckpointIntegrity
<1>1. CASE Reconcile
      BY <1>1 DEF Reconcile, Checkpoint, Targets
<1>2. CASE SetProcessing
      BY <1>2 DEF SetProcessing, WriteMCR, Checkpoint, Targets
<1>3. CASE SetProcessingError
      BY <1>3 DEF SetProcessingError, Return, NoCheckpoint, Checkpoint,
         Targets
<1>4. CASE collectTargetObjects
  <2>1. UNCHANGED <<mcp, mcpC, mcpFresh, cpHeld, chunk>>
        BY <1>4 DEF collectTargetObjects
  <2>2. CASE next > N
        BY <1>4, <2>1, <2>2, CaptureAssumption
        DEF CaptureAssumption, collectTargetObjects, Targets
  <2>3. CASE ~(next > N) /\ src[next] = 0
        BY <1>4, <2>1, <2>3 DEF collectTargetObjects
  <2>4. CASE ~(next > N) /\ src[next] # 0
    <3>1. /\ objs' = [objs EXCEPT ![next] = src[next]]
          /\ next' = next + 1
          /\ pc' = "collect"
          BY <1>4, <2>4 DEF collectTargetObjects
    <3>2. \A t \in Targets : t < next' => objs'[t] # 0
          BY <1>4, <2>4, <3>1 DEF collectTargetObjects, Targets
    <3> QED
        BY <2>1, <3>1, <3>2
  <2> QED
      BY <2>2, <2>3, <2>4
<1>5. CASE CollectError
      BY <1>5 DEF CollectError, Return, NoCheckpoint, Checkpoint, Targets
<1>6. CASE EnsureKeeper
      BY <1>6 DEF EnsureKeeper, Checkpoint, Targets
<1>7. CASE KeeperReadBackError
      BY <1>7 DEF KeeperReadBackError, Return, NoCheckpoint, Checkpoint,
         Targets
<1>8. CASE LookupCheckpoint
      BY <1>8 DEF LookupCheckpoint, Checkpoint, Targets
<1>9. CASE CreateCheckpoint
      BY <1>9 DEF CreateCheckpoint, WriteMCP, NoCheckpoint, Checkpoint,
         Targets
<1>10. CASE CreateCheckpointError
      BY <1>10 DEF CreateCheckpointError, Return, NoCheckpoint, Checkpoint,
         Targets
<1>11. CASE MarkCheckpointProcessing
  <2>1. pc = "markcp" /\ pc' = "chunks" /\ UNCHANGED <<next, objs, chunk, cpHeld>>
        BY <1>11 DEF MarkCheckpointProcessing
  <2>2. CASE UNCHANGED <<mcp, mcpC, mcpFresh>>
        BY <2>1, <2>2 DEF Targets
  <2>3. CASE WriteMCP([mcp EXCEPT !.st = "Processing", !.info = lp.info])
    <3>1. mcp'.st = "Processing" /\ (mcpFresh' => mcpC' = mcp')
          BY <2>3 DEF WriteMCP, Checkpoint
    <3> QED
        BY <2>1, <3>1 DEF Targets
  <2> QED
      BY <1>11, <2>2, <2>3 DEF MarkCheckpointProcessing
<1>12. CASE createChunks
  <2>1. pc = "chunks" /\ UNCHANGED <<mcp, mcpC, mcpFresh, cpHeld, objs>>
        BY <1>12 DEF createChunks
  <2>2. CASE next > N
    <3>1. pc' = "ready" /\ UNCHANGED chunk
          BY <1>12, <2>2 DEF createChunks
    <3> QED
        BY <2>1, <2>2, <3>1, CaptureAssumption DEF CaptureAssumption, Targets
  <2>3. CASE next \in Targets /\ pc' = "cpfail" /\ UNCHANGED chunk
        BY <2>1, <2>3
  <2>4. CASE next \in Targets /\ pc' = "chunks" /\ next' = next + 1
    <3>1. CASE chunk[next] # 0 /\ chunk[next] = objs[next] /\ UNCHANGED chunk
          BY <2>1, <2>4, <3>1 DEF Targets
    <3>2. CASE /\ chunk[next] = 0
               /\ chunk' = IF mcp.st = "absent" THEN chunk
                           ELSE [chunk EXCEPT ![next] = objs[next]]
      <4>1. mcp.st # "Completed"
            BY <2>4, <3>2
      <4>2. cpHeld => \A t \in Targets : t < next' => chunk'[t] = objs[t]
            BY <2>1, <2>4, <3>2 DEF Targets
      <4> QED
          BY <2>1, <2>4, <4>1, <4>2
    <3> QED
        BY <1>12, <2>4, <3>1, <3>2 DEF createChunks, ChunkMatches, Targets
  <2> QED
      BY <1>12, <2>2, <2>3, <2>4, CaptureAssumption
      DEF CaptureAssumption, createChunks, ChunkMatches, Targets
<1>13. CASE ChunkError
      BY <1>13 DEF ChunkError, Return, NoCheckpoint, Checkpoint, Targets
<1>14. CASE FailCheckpoint
  <2>1. pc = "cpfail" /\ pc' = "fail" /\ UNCHANGED <<next, objs, chunk, cpHeld>>
        BY <1>14 DEF FailCheckpoint
  <2>2. CASE UNCHANGED <<mcp, mcpC, mcpFresh>>
        BY <2>1, <2>2 DEF Targets
  <2>3. CASE WriteMCP([mcp EXCEPT !.st = "Failed", !.info = lp.info])
    <3>1. mcp'.st = "Failed" /\ (mcpFresh' => mcpC' = mcp')
          BY <2>3 DEF WriteMCP, Checkpoint
    <3> QED
        BY <2>1, <3>1 DEF Targets
  <2> QED
      BY <1>14, <2>2, <2>3 DEF FailCheckpoint
<1>15. CASE PublishReady
      BY <1>15 DEF PublishReady, WriteMCP, Checkpoint, Targets
<1>16. CASE PublishReadyError
      BY <1>16 DEF PublishReadyError, Return, NoCheckpoint, Checkpoint,
         Targets
<1>17. CASE finalizeMCRIfCheckpointHandedOff
      BY <1>17 DEF finalizeMCRIfCheckpointHandedOff,
         manifestCheckpointOwnedBySnapshotContent, Checkpoint, Targets
<1>18. CASE markMCRCheckpointPendingHandoff
      BY <1>18 DEF markMCRCheckpointPendingHandoff, WriteMCR, PendingReason,
         Return, NoCheckpoint, Checkpoint, Targets
<1>19. CASE MarkPendingError
      BY <1>19 DEF MarkPendingError, Return, NoCheckpoint, Checkpoint,
         Targets
<1>20. CASE finalizeMCR
      BY <1>20 DEF finalizeMCR, WriteMCR, Return, NoCheckpoint, Checkpoint,
         Targets
<1>21. CASE FinalizeError
      BY <1>21 DEF FinalizeError, Return, NoCheckpoint, Checkpoint, Targets
<1>22. CASE PublishCheckpointName
      BY <1>22 DEF PublishCheckpointName, Checkpoint, Targets
<1>23. CASE ensureManifestCheckpointOwnedByContent
      BY <1>23 DEF ensureManifestCheckpointOwnedByContent, WriteMCP,
         Checkpoint, Targets
<1>24. CASE LatchManifestCaptured
      BY <1>24 DEF LatchManifestCaptured,
         ManifestCaptureRequestSafeToDelete, isManifestCheckpointDurable,
         Checkpoint, Targets
<1>25. CASE ReapRequest
      BY <1>25 DEF ReapRequest, DeleteMCR, WriteMCR, Checkpoint, Targets
<1>26. CASE ExpireRequest
      BY <1>26 DEF ExpireRequest, DeleteMCR, WriteMCR, Checkpoint, Targets
<1>27. CASE KeeperFollowsRequest
      BY <1>27 DEF KeeperFollowsRequest, Checkpoint, Targets
<1>28. CASE CollectGarbage
      BY <1>28 DEF CollectGarbage, WriteMCP, NoCheckpoint, Checkpoint,
         Targets
<1>29. CASE ChangeSource
      BY <1>29 DEF ChangeSource, Checkpoint, Targets
<1>30. CASE SyncRequests
      BY <1>30 DEF SyncRequests, Checkpoint, Targets
<1>31. CASE SyncKeepers
      BY <1>31 DEF SyncKeepers, Checkpoint, Targets
<1>32. CASE SyncCheckpoints
      BY <1>32 DEF SyncCheckpoints, Checkpoint, Targets
<1>33. CASE SyncChunks
      BY <1>33 DEF SyncChunks, Checkpoint, Targets
<1>34. CASE Restart
      BY <1>34 DEF Restart, Return, NoCheckpoint, Checkpoint, Targets
<1>35. CASE Quiescent
      BY <1>35 DEF Quiescent, vars, Checkpoint, Targets
<1>36. CASE UNCHANGED vars
      BY <1>36 DEF vars, Checkpoint, Targets
<1> QED
    BY <1>1, <1>2, <1>3, <1>4, <1>5, <1>6, <1>7, <1>8, <1>9, <1>10, <1>11,
       <1>12, <1>13, <1>14, <1>15, <1>16, <1>17, <1>18, <1>19, <1>20,
       <1>21, <1>22, <1>23, <1>24, <1>25, <1>26, <1>27, <1>28, <1>29,
       <1>30, <1>31, <1>32, <1>33, <1>34, <1>35, <1>36
    DEF Next, Executor, ContentController, Environment, Sync

\* A Ready checkpoint is whole (createChunks, processCaptureRequest).
THEOREM CheckpointWhole == Spec => []CheckpointIntegrity
<1>1. TypeOK /\ CheckpointInv /\ [Next]_vars => CheckpointInv'
      BY CheckpointStep
<1>2. CheckpointInv => CheckpointIntegrity
      BY DEF CheckpointInv
<1> QED
    BY <1>1, <1>2, CheckpointInit, TypeCorrect, PTL DEF Spec

-----------------------------------------------------------------------------
(***************************************************************************)
(* Terminal means final, when the informer caches do not trail: then a     *)
(* reconcile begins only for a request that is not terminal, resumes only  *)
(* a checkpoint that is not done, and nobody else writes either status.    *)
(***************************************************************************)
\* Without lag every call of the executor reads what is there, and no reconcile
\* is left running when its request is terminal.
LEMMA SyncStep == ~Lag /\ TypeOK /\ SyncInv /\ [Next]_vars => SyncInv'
<1> SUFFICES ASSUME ~Lag, TypeOK, SyncInv, [Next]_vars PROVE SyncInv'
    OBVIOUS
<1> USE DEF TypeOK, ApiType, CacheType, LocalType, SyncInv
<1>1. CASE Reconcile
      BY <1>1 DEF Reconcile, isTerminal, Request, Checkpoint
<1>2. CASE SetProcessing
      BY <1>2 DEF SetProcessing, WriteMCR, Request, Checkpoint
<1>3. CASE SetProcessingError
      BY <1>3 DEF SetProcessingError, Return, NoCheckpoint, Hiccup, Request,
         Checkpoint
<1>4. CASE collectTargetObjects
      BY <1>4 DEF collectTargetObjects, Request, Checkpoint
<1>5. CASE CollectError
      BY <1>5 DEF CollectError, Return, NoCheckpoint, Hiccup, Request,
         Checkpoint
<1>6. CASE EnsureKeeper
      BY <1>6 DEF EnsureKeeper, Request, Checkpoint
<1>7. CASE KeeperReadBackError
      BY <1>7 DEF KeeperReadBackError, Return, NoCheckpoint, Request,
         Checkpoint
<1>8. CASE LookupCheckpoint
      BY <1>8 DEF LookupCheckpoint, manifestCheckpointDoneOrFailed, Request,
         Checkpoint
<1>9. CASE CreateCheckpoint
      BY <1>9 DEF CreateCheckpoint, WriteMCP, NoData, Request, Checkpoint
<1>10. CASE CreateCheckpointError
      BY <1>10 DEF CreateCheckpointError, Return, NoCheckpoint, Request,
         Checkpoint
<1>11. CASE MarkCheckpointProcessing
      BY <1>11 DEF MarkCheckpointProcessing, WriteMCP, Request, Checkpoint
<1>12. CASE createChunks
      BY <1>12 DEF createChunks, Request, Checkpoint
<1>13. CASE ChunkError
      BY <1>13 DEF ChunkError, Return, NoCheckpoint, Request, Checkpoint
<1>14. CASE FailCheckpoint
      BY <1>14 DEF FailCheckpoint, WriteMCP, Request, Checkpoint
<1>15. CASE PublishReady
      BY <1>15 DEF PublishReady, WriteMCP, Request, Checkpoint
<1>16. CASE PublishReadyError
      BY <1>16 DEF PublishReadyError, Return, NoCheckpoint, Request,
         Checkpoint
<1>17. CASE finalizeMCRIfCheckpointHandedOff
      BY <1>17 DEF finalizeMCRIfCheckpointHandedOff,
         manifestCheckpointOwnedBySnapshotContent, Request, Checkpoint
<1>18. CASE markMCRCheckpointPendingHandoff
      BY <1>18 DEF markMCRCheckpointPendingHandoff, WriteMCR, PendingReason,
         Return, NoCheckpoint, Request, Checkpoint
<1>19. CASE MarkPendingError
      BY <1>19 DEF MarkPendingError, Return, NoCheckpoint, Request, Checkpoint
<1>20. CASE finalizeMCR
      BY <1>20 DEF finalizeMCR, WriteMCR, Return, NoCheckpoint, Request,
         Checkpoint
<1>21. CASE FinalizeError
      BY <1>21 DEF FinalizeError, Return, NoCheckpoint, Request, Checkpoint
<1>22. CASE PublishCheckpointName
      BY <1>22 DEF PublishCheckpointName, Request, Checkpoint
<1>23. CASE ensureManifestCheckpointOwnedByContent
      BY <1>23 DEF ensureManifestCheckpointOwnedByContent, WriteMCP, Request,
         Checkpoint
<1>24. CASE LatchManifestCaptured
      BY <1>24 DEF LatchManifestCaptured, Request, Checkpoint
<1>25. CASE ReapRequest
      BY <1>25 DEF ReapRequest, DeleteMCR, WriteMCR, Request, Checkpoint
<1>26. CASE ExpireRequest
      BY <1>26 DEF ExpireRequest, DeleteMCR, WriteMCR, Request, Checkpoint
<1>27. CASE KeeperFollowsRequest
      BY <1>27 DEF KeeperFollowsRequest, Request, Checkpoint
<1>28. CASE CollectGarbage
      BY <1>28 DEF CollectGarbage, WriteMCP, NoCheckpoint, Request, Checkpoint
<1>29. CASE ChangeSource
      BY <1>29 DEF ChangeSource, Request, Checkpoint
<1>30. CASE SyncRequests
      BY <1>30 DEF SyncRequests, Request, Checkpoint
<1>31. CASE SyncKeepers
      BY <1>31 DEF SyncKeepers, Request, Checkpoint
<1>32. CASE SyncCheckpoints
      BY <1>32 DEF SyncCheckpoints, Request, Checkpoint
<1>33. CASE SyncChunks
      BY <1>33 DEF SyncChunks, Request, Checkpoint
<1>34. CASE Restart
      BY <1>34 DEF Restart, Return, NoCheckpoint, Request, Checkpoint
<1>35. CASE Quiescent
      BY <1>35 DEF Quiescent, vars, Request, Checkpoint
<1>36. CASE UNCHANGED vars
      BY <1>36 DEF vars, Request, Checkpoint
<1> QED
    BY <1>1, <1>2, <1>3, <1>4, <1>5, <1>6, <1>7, <1>8, <1>9, <1>10, <1>11,
       <1>12, <1>13, <1>14, <1>15, <1>16, <1>17, <1>18, <1>19, <1>20,
       <1>21, <1>22, <1>23, <1>24, <1>25, <1>26, <1>27, <1>28, <1>29,
       <1>30, <1>31, <1>32, <1>33, <1>34, <1>35, <1>36
    DEF Next, Executor, ContentController, Environment, Sync

\* Without lag the invariant of the reconcile holds throughout.
LEMMA SyncAlways == ASSUME ~Lag PROVE Spec => []SyncInv
<1>1. Init => SyncInv
      BY DEF Init, SyncInv, NoCheckpoint
<1>2. TypeOK /\ SyncInv /\ [Next]_vars => SyncInv'
      BY SyncStep
<1> QED
    BY <1>1, <1>2, TypeCorrect, PTL DEF Spec

\* A request that is Completed or Failed keeps that condition until it is
\* deleted (the early return of Reconcile), although finalizeMCR writes with no
\* resource version.
THEOREM TerminalFinal == ASSUME ~Lag PROVE Spec => TerminalIsFinal
<1>1. TypeOK /\ SyncInv /\ [Next]_vars =>
        [mcr.ready \in {"Completed", "Failed"} => mcr'.ready = mcr.ready \/ ~mcr'.ex]_vars
  <2> SUFFICES ASSUME TypeOK, SyncInv, [Next]_vars, mcr.ready \in {"Completed", "Failed"},
                      mcr'.ready # mcr.ready
               PROVE  ~mcr'.ex
      OBVIOUS
  <2>1. pc = "idle"
        BY DEF SyncInv
  <2>2. CASE Executor
        BY <2>1, <2>2 DEF Executor, Reconcile, SetProcessing, SetProcessingError,
           collectTargetObjects, CollectError, EnsureKeeper, KeeperReadBackError,
           LookupCheckpoint, CreateCheckpoint, CreateCheckpointError,
           MarkCheckpointProcessing, createChunks, ChunkError, FailCheckpoint, PublishReady,
           PublishReadyError, finalizeMCRIfCheckpointHandedOff,
           markMCRCheckpointPendingHandoff, MarkPendingError, finalizeMCR, FinalizeError
  <2>3. CASE ContentController
        BY <2>3 DEF ContentController, PublishCheckpointName,
           ensureManifestCheckpointOwnedByContent, LatchManifestCaptured, ReapRequest,
           DeleteMCR, WriteMCR
  <2>4. CASE Environment
    <3>1. CASE ExpireRequest
          BY <3>1 DEF ExpireRequest, DeleteMCR, WriteMCR
    <3>2. CASE Sync \/ Restart
          BY <3>2 DEF Sync, SyncRequests, SyncKeepers, SyncCheckpoints, SyncChunks, Restart
    <3>3. CASE KeeperFollowsRequest \/ CollectGarbage \/ ChangeSource
          BY <3>3 DEF KeeperFollowsRequest, CollectGarbage, ChangeSource
    <3> QED
        BY <2>4, <3>1, <3>2, <3>3 DEF Environment
  <2>5. CASE Quiescent \/ UNCHANGED vars
        BY <2>5 DEF Quiescent, vars
  <2> QED
      BY <2>2, <2>3, <2>4, <2>5 DEF Next
<1> QED
    BY <1>1, SyncAlways, TypeCorrect, PTL DEF Spec, TerminalIsFinal

\* A checkpoint that is done or failed keeps that state until it is collected:
\* no pass resumes it (manifestCheckpointDoneOrFailed).
THEOREM DoneStable == ASSUME ~Lag PROVE Spec => DoneIsStable
<1>1. TypeOK /\ SyncInv /\ [Next]_vars =>
        [mcp.st \in {"Completed", "Failed"} => mcp'.st \in {mcp.st, "absent"}]_vars
  <2> SUFFICES ASSUME TypeOK, SyncInv, [Next]_vars, mcp.st \in {"Completed", "Failed"}
               PROVE  mcp'.st \in {mcp.st, "absent"}
      OBVIOUS
  <2>1. pc \notin {"create", "markcp", "chunks", "cpfail", "ready"} /\ mcp \in Checkpoint
        BY DEF SyncInv, TypeOK, ApiType
  <2>2. CASE Executor
        BY <2>1, <2>2 DEF Executor, Reconcile, SetProcessing, SetProcessingError,
           collectTargetObjects, CollectError, EnsureKeeper, KeeperReadBackError,
           LookupCheckpoint, CreateCheckpoint, CreateCheckpointError,
           MarkCheckpointProcessing, createChunks, ChunkError, FailCheckpoint, PublishReady,
           PublishReadyError, finalizeMCRIfCheckpointHandedOff,
           markMCRCheckpointPendingHandoff, MarkPendingError, finalizeMCR, FinalizeError
  <2>3. CASE ContentController
        BY <2>1, <2>3 DEF ContentController, PublishCheckpointName,
           ensureManifestCheckpointOwnedByContent, LatchManifestCaptured, ReapRequest,
           WriteMCP, Checkpoint
  <2>4. CASE Environment
    <3>1. CASE CollectGarbage
          BY <3>1 DEF CollectGarbage, WriteMCP, NoCheckpoint
    <3>2. CASE Sync \/ Restart
          BY <3>2 DEF Sync, SyncRequests, SyncKeepers, SyncCheckpoints, SyncChunks, Restart
    <3>3. CASE KeeperFollowsRequest \/ ExpireRequest \/ ChangeSource
          BY <3>3 DEF KeeperFollowsRequest, ExpireRequest, ChangeSource
    <3> QED
        BY <2>4, <3>1, <3>2, <3>3 DEF Environment
  <2>5. CASE Quiescent \/ UNCHANGED vars
        BY <2>5 DEF Quiescent, vars
  <2> QED
      BY <2>2, <2>3, <2>4, <2>5 DEF Next
<1> QED
    BY <1>1, SyncAlways, TypeCorrect, PTL DEF Spec, DoneIsStable

-----------------------------------------------------------------------------
(***************************************************************************)
(* A failed request.  The cause of a failure is history and stays; what    *)
(* can fail the request without one would be a chunk that differs from     *)
(* what the pass collected, and as long as no object changed both hold the *)
(* initial objects.                                                        *)
(***************************************************************************)
\* A cause of failure is not forgotten, and without a change of an object the
\* objects are what they were.
LEMMA CauseStays ==
    ASSUME TypeOK, [Next]_vars
    PROVE  (Cause => Cause') /\ (changes' = 0 => changes = 0 /\ src' = src)
<1>1. changes \in Nat /\ createErr \in BOOLEAN
      BY CaptureAssumption DEF CaptureAssumption, TypeOK, BudgetType
<1>2. CASE ChangeSource
  <2>1. changes' = changes + 1
        BY <1>2 DEF ChangeSource
  <2> QED
      BY <1>1, <2>1 DEF Cause
<1>3. CASE UNCHANGED <<src, changes>> /\ (createErr => createErr')
      BY <1>3 DEF Cause
<1>4. CASE Executor
  <2>1. UNCHANGED <<src, changes>>
        BY <1>4 DEF Executor, Reconcile, SetProcessing, SetProcessingError,
           collectTargetObjects, CollectError, EnsureKeeper, KeeperReadBackError,
           LookupCheckpoint, CreateCheckpoint, CreateCheckpointError,
           MarkCheckpointProcessing, createChunks, ChunkError, FailCheckpoint, PublishReady,
           PublishReadyError, finalizeMCRIfCheckpointHandedOff,
           markMCRCheckpointPendingHandoff, MarkPendingError, finalizeMCR, FinalizeError
  <2>2. createErr => createErr'
        BY <1>1, <1>4 DEF Executor, Reconcile, SetProcessing, SetProcessingError,
           collectTargetObjects, CollectError, EnsureKeeper, KeeperReadBackError,
           LookupCheckpoint, CreateCheckpoint, CreateCheckpointError,
           MarkCheckpointProcessing, createChunks, ChunkError, FailCheckpoint, PublishReady,
           PublishReadyError, finalizeMCRIfCheckpointHandedOff,
           markMCRCheckpointPendingHandoff, MarkPendingError, finalizeMCR, FinalizeError
  <2> QED
      BY <1>3, <2>1, <2>2
<1>5. CASE ContentController
      BY <1>3, <1>5 DEF ContentController, PublishCheckpointName,
         ensureManifestCheckpointOwnedByContent, LatchManifestCaptured, ReapRequest
<1>6. CASE ExpireRequest \/ KeeperFollowsRequest \/ CollectGarbage
      BY <1>3, <1>6 DEF ExpireRequest, KeeperFollowsRequest, CollectGarbage
<1>7. CASE Sync \/ Restart
      BY <1>3, <1>7 DEF Sync, SyncRequests, SyncKeepers, SyncCheckpoints, SyncChunks, Restart
<1>8. CASE Quiescent \/ UNCHANGED vars
      BY <1>3, <1>8 DEF Quiescent, vars
<1> QED
    BY <1>2, <1>4, <1>5, <1>6, <1>7, <1>8 DEF Next, Environment

\* No call fails the request or its checkpoint without a cause.
LEMMA CauseStep == TypeOK /\ CheckpointInv /\ CauseInv /\ [Next]_vars => CauseInv'
<1> SUFFICES ASSUME TypeOK, CheckpointInv, CauseInv, [Next]_vars PROVE CauseInv'
    OBVIOUS
<1>0. /\ Cause => Cause'
      /\ changes' = 0 => changes = 0 /\ src' = src
      /\ pc = "chunks" => \A t \in Targets : objs[t] # 0
      BY CauseStays DEF CheckpointInv
<1> USE <1>0 DEF TypeOK, ApiType, CacheType, LocalType, BudgetType, CauseInv
<1>1. CASE Reconcile
      BY <1>1 DEF Reconcile, isTerminal, Request, Checkpoint
<1>2. CASE SetProcessing
      BY <1>2 DEF SetProcessing, WriteMCR, Request, Checkpoint
<1>3. CASE SetProcessingError
      BY <1>3 DEF SetProcessingError, Return, NoCheckpoint, NoData, Request,
         Checkpoint
<1>4. CASE collectTargetObjects
  <2>1. UNCHANGED <<src, mcr, mcp, mcpC, chunk, lp, changes>>
        BY <1>4 DEF collectTargetObjects
  <2>2. CASE next > N
        BY <1>0, <1>4, <2>1, <2>2 DEF collectTargetObjects
  <2>3. CASE ~(next > N) /\ src[next] = 0
    <3>1. changes > 0
          BY <2>3, CaptureAssumption DEF CaptureAssumption, Targets, BudgetType
    <3> QED
        BY <1>0, <1>4, <2>1, <2>3, <3>1 DEF collectTargetObjects, Cause
  <2>4. CASE ~(next > N) /\ src[next] # 0
        BY <1>0, <1>4, <2>1, <2>4 DEF collectTargetObjects
  <2> QED
      BY <2>2, <2>3, <2>4
<1>5. CASE CollectError
      BY <1>5 DEF CollectError, Return, NoCheckpoint, NoData, Request,
         Checkpoint
<1>6. CASE EnsureKeeper
  <2>1. /\ UNCHANGED <<src, mcr, mcp, mcpC, chunk, lp, objs, changes>>
        /\ pc' = "lookup" \/ (pc' = "fail" /\ createErr')
        BY <1>6 DEF EnsureKeeper
  <2>2. createErr' => Cause'
        BY DEF Cause
  <2> QED
      BY <1>0, <2>1, <2>2
<1>7. CASE KeeperReadBackError
      BY <1>7 DEF KeeperReadBackError, Return, NoCheckpoint, NoData, Request,
         Checkpoint
<1>8. CASE LookupCheckpoint
      BY <1>8 DEF LookupCheckpoint, manifestCheckpointDoneOrFailed, Request,
         Checkpoint
<1>9. CASE CreateCheckpoint
      BY <1>9 DEF CreateCheckpoint, WriteMCP, NoData, Request, Checkpoint
<1>10. CASE CreateCheckpointError
  <2>1. /\ UNCHANGED <<src, mcr, mcp, mcpC, chunk, changes>>
        /\ \/ pc' = "fail" /\ createErr' /\ UNCHANGED <<lp, objs>>
           \/ pc' = "idle" /\ lp' = NoCheckpoint /\ objs' = NoData
        BY <1>10 DEF CreateCheckpointError, Return
  <2>2. createErr' => Cause'
        BY DEF Cause
  <2> QED
      BY <1>0, <2>1, <2>2 DEF NoCheckpoint, NoData
<1>11. CASE MarkCheckpointProcessing
      BY <1>11 DEF MarkCheckpointProcessing, WriteMCP, Request, Checkpoint
<1>12. CASE createChunks
  <2>1. pc = "chunks" /\ UNCHANGED <<src, mcr, mcp, mcpC, lp, objs, changes>>
        BY <1>12 DEF createChunks
  <2>2. CASE next > N
        BY <1>0, <1>12, <2>1, <2>2 DEF createChunks
  <2>3. CASE next \in Targets /\ pc' = "cpfail" /\ UNCHANGED chunk
    <3>1. changes = 0 => objs[next] = src[next] /\ chunk[next] \in {0, src[next]}
          BY <2>1, <2>3
    <3>2. changes = 0 => src[next] \in Rejects
          BY <1>12, <2>3, <3>1, CaptureAssumption
          DEF CaptureAssumption, createChunks, ChunkMatches, Targets
    <3>3. Cause
          BY <2>3, <3>2 DEF Cause, BudgetType
    <3> QED
        BY <1>0, <2>1, <2>3, <3>3
  <2>4. CASE /\ next \in Targets /\ pc' = "chunks"
             /\ chunk' = chunk \/ chunk' = [chunk EXCEPT ![next] = objs[next]]
        BY <1>0, <2>1, <2>4
  <2> QED
      BY <1>12, <2>2, <2>3, <2>4, CaptureAssumption
      DEF CaptureAssumption, createChunks, Targets
<1>13. CASE ChunkError
      BY <1>13 DEF ChunkError, Return, NoCheckpoint, NoData, Request, Checkpoint
<1>14. CASE FailCheckpoint
      BY <1>14 DEF FailCheckpoint, WriteMCP, Request, Checkpoint
<1>15. CASE PublishReady
      BY <1>15 DEF PublishReady, WriteMCP, Request, Checkpoint
<1>16. CASE PublishReadyError
      BY <1>16 DEF PublishReadyError, Return, NoCheckpoint, NoData, Request,
         Checkpoint
<1>17. CASE finalizeMCRIfCheckpointHandedOff
      BY <1>17 DEF finalizeMCRIfCheckpointHandedOff,
         manifestCheckpointOwnedBySnapshotContent, Request, Checkpoint
<1>18. CASE markMCRCheckpointPendingHandoff
  <2>1. UNCHANGED <<src, mcp, mcpC, chunk>>
        BY <1>18 DEF markMCRCheckpointPendingHandoff
  <2>2. \/ pc' = "handoff" /\ UNCHANGED <<lp, objs>>
        \/ pc' = "idle" /\ lp' = NoCheckpoint /\ objs' = NoData
        BY <1>18 DEF markMCRCheckpointPendingHandoff, Return
  <2>3. mcr'.ready = "Failed" => mcr.ready = "Failed"
        BY <1>18 DEF markMCRCheckpointPendingHandoff, WriteMCR, PendingReason, Request
  <2> QED
      BY <2>1, <2>2, <2>3 DEF NoCheckpoint, NoData
<1>19. CASE MarkPendingError
      BY <1>19 DEF MarkPendingError, Return, NoCheckpoint, NoData, Request, Checkpoint
<1>20. CASE finalizeMCR
      BY <1>20 DEF finalizeMCR, WriteMCR, Return, NoCheckpoint, NoData, Request,
         Checkpoint
<1>21. CASE FinalizeError
      BY <1>21 DEF FinalizeError, Return, NoCheckpoint, NoData, Request, Checkpoint
<1>22. CASE PublishCheckpointName
      BY <1>22 DEF PublishCheckpointName, Request, Checkpoint
<1>23. CASE ensureManifestCheckpointOwnedByContent
      BY <1>23 DEF ensureManifestCheckpointOwnedByContent, WriteMCP, Request,
         Checkpoint
<1>24. CASE LatchManifestCaptured
      BY <1>24 DEF LatchManifestCaptured, Request, Checkpoint
<1>25. CASE ReapRequest
      BY <1>25 DEF ReapRequest, DeleteMCR, WriteMCR, Request, Checkpoint
<1>26. CASE ExpireRequest
      BY <1>26 DEF ExpireRequest, DeleteMCR, WriteMCR, Request, Checkpoint
<1>27. CASE KeeperFollowsRequest
      BY <1>27 DEF KeeperFollowsRequest, Request, Checkpoint
<1>28. CASE CollectGarbage
      BY <1>28 DEF CollectGarbage, WriteMCP, NoCheckpoint, NoData, Request, Checkpoint
<1>29. CASE ChangeSource
  <2>1. changes' > 0 /\ UNCHANGED <<mcr, mcp, mcpC, chunk, lp, objs, pc>>
        BY <1>29 DEF ChangeSource, BudgetType
  <2> QED
      BY <1>0, <2>1
<1>30. CASE SyncRequests
      BY <1>30 DEF SyncRequests, Request, Checkpoint
<1>31. CASE SyncKeepers
      BY <1>31 DEF SyncKeepers, Request, Checkpoint
<1>32. CASE SyncCheckpoints
      BY <1>32 DEF SyncCheckpoints, Request, Checkpoint
<1>33. CASE SyncChunks
      BY <1>33 DEF SyncChunks, Request, Checkpoint
<1>34. CASE Restart
      BY <1>34 DEF Restart, Return, NoCheckpoint, NoData, Request, Checkpoint
<1>35. CASE Quiescent
      BY <1>35 DEF Quiescent, vars, Request, Checkpoint
<1>36. CASE UNCHANGED vars
      BY <1>36 DEF vars, Request, Checkpoint
<1> QED
    BY <1>1, <1>2, <1>3, <1>4, <1>5, <1>6, <1>7, <1>8, <1>9, <1>10, <1>11,
       <1>12, <1>13, <1>14, <1>15, <1>16, <1>17, <1>18, <1>19, <1>20,
       <1>21, <1>22, <1>23, <1>24, <1>25, <1>26, <1>27, <1>28, <1>29,
       <1>30, <1>31, <1>32, <1>33, <1>34, <1>35, <1>36
    DEF Next, Executor, ContentController, Environment, Sync

\* A request that failed has a cause, whatever the caches showed: reads, chunk
\* writes and status writes that failed, and restarts, are not among them
\* (terminalCaptureError).
THEOREM FailedForCause == Spec => []FailedHasCause
<1>1. Init => CauseInv
      BY DEF Init, CauseInv, NoCheckpoint, NoData
<1>2. TypeOK /\ CheckpointInv /\ CauseInv /\ [Next]_vars => CauseInv'
      BY CauseStep
<1>3. TypeOK /\ CheckpointInv /\ [Next]_vars => CheckpointInv'
      BY CheckpointStep
<1>4. CauseInv => FailedHasCause
      BY DEF CauseInv, Cause, FailedHasCause
<1> QED
    BY <1>1, <1>2, <1>3, <1>4, CheckpointInit, TypeCorrect, PTL DEF Spec

-----------------------------------------------------------------------------
(***************************************************************************)
(* The abstract request.  The order of two things is what the mapping      *)
(* rests on: the checkpoint is done before the request names it, and the   *)
(* request names it before the content publishes, owns or counts it.  A    *)
(* pass that may still write the checkpoint began on a request without a   *)
(* name, and its own request keeps the keeper alive.                       *)
(***************************************************************************)
\* Every call keeps the order of done, named, published, handed over, captured.
LEMMA LegStep ==
    ~Lag /\ TypeOK /\ SyncInv /\ HandoffInv /\ CheckpointInv /\ LegInv /\ [Next]_vars
        => LegInv'
<1> SUFFICES ASSUME ~Lag, TypeOK, SyncInv, HandoffInv, CheckpointInv, LegInv,
                    [Next]_vars
             PROVE  LegInv'
    OBVIOUS
<1>0. cpHeld => mcp.st # "absent"
    BY DEF CheckpointInv
<1> USE <1>0 DEF TypeOK, ApiType, CacheType, LocalType, SyncInv, HandoffInv, HandedOff, LegInv, Early,
            Done
<1>1. CASE Reconcile
      BY <1>1 DEF Reconcile, isTerminal, Request, Checkpoint
<1>2. CASE SetProcessing
      BY <1>2 DEF SetProcessing, WriteMCR, Request, Checkpoint
<1>3. CASE SetProcessingError
      BY <1>3 DEF SetProcessingError, Return, NoCheckpoint, Hiccup, Request,
         Checkpoint
<1>4. CASE collectTargetObjects
      BY <1>4 DEF collectTargetObjects, Request, Checkpoint
<1>5. CASE CollectError
      BY <1>5 DEF CollectError, Return, NoCheckpoint, Hiccup, Request,
         Checkpoint
<1>6. CASE EnsureKeeper
      BY <1>6 DEF EnsureKeeper, Request, Checkpoint
<1>7. CASE KeeperReadBackError
      BY <1>7 DEF KeeperReadBackError, Return, NoCheckpoint, Request,
         Checkpoint
<1>8. CASE LookupCheckpoint
      BY <1>8 DEF LookupCheckpoint, manifestCheckpointDoneOrFailed, Request,
         Checkpoint
<1>9. CASE CreateCheckpoint
      BY <1>9 DEF CreateCheckpoint, WriteMCP, NoData, Request, Checkpoint
<1>10. CASE CreateCheckpointError
      BY <1>10 DEF CreateCheckpointError, Return, NoCheckpoint, Request,
         Checkpoint
<1>11. CASE MarkCheckpointProcessing
  <2>1. /\ pc = "markcp" /\ pc' = "chunks"
        /\ UNCHANGED <<mcr, mcrC, keeper, keeperC, published, captured, lm>>
        /\ mcp' = mcp \/ (cpHeld /\ mcp' = [mcp EXCEPT !.st = "Processing", !.info = lp.info])
        BY <1>11 DEF MarkCheckpointProcessing, WriteMCP
  <2>2. mcp'.owner = mcp.owner /\ (mcp' = mcp \/ (cpHeld /\ mcp'.st = "Processing"))
        BY <2>1 DEF Checkpoint
  <2> QED
      BY <2>1, <2>2 DEF Request, Checkpoint
<1>12. CASE createChunks
      BY <1>12 DEF createChunks, Request, Checkpoint
<1>13. CASE ChunkError
      BY <1>13 DEF ChunkError, Return, NoCheckpoint, Request, Checkpoint
<1>14. CASE FailCheckpoint
  <2>1. /\ pc = "cpfail" /\ pc' = "fail"
        /\ UNCHANGED <<mcr, mcrC, keeper, keeperC, published, captured, lm>>
        /\ mcp' = mcp \/ (cpHeld /\ mcp' = [mcp EXCEPT !.st = "Failed", !.info = lp.info])
        BY <1>14 DEF FailCheckpoint, WriteMCP
  <2>2. mcp'.owner = mcp.owner /\ (mcp' = mcp \/ (cpHeld /\ mcp'.st = "Failed"))
        BY <2>1 DEF Checkpoint
  <2> QED
      BY <2>1, <2>2 DEF Request, Checkpoint
<1>15. CASE PublishReady
      BY <1>15 DEF PublishReady, WriteMCP, Request, Checkpoint
<1>16. CASE PublishReadyError
      BY <1>16 DEF PublishReadyError, Return, NoCheckpoint, Request,
         Checkpoint
<1>17. CASE finalizeMCRIfCheckpointHandedOff
      BY <1>17 DEF finalizeMCRIfCheckpointHandedOff,
         manifestCheckpointOwnedBySnapshotContent, Request, Checkpoint
<1>18. CASE markMCRCheckpointPendingHandoff
  <2>1. /\ UNCHANGED <<mcp, keeper, keeperC, published, captured>>
        /\ mcr.ex /\ mcr'.ex /\ mcr'.named /\ mcr'.ready = "Processing"
        /\ Done
        BY <1>18 DEF markMCRCheckpointPendingHandoff, WriteMCR, PendingReason, Request
  <2>2. pc' = "idle" \/ (pc = "pendReady" /\ pc' = "handoff" /\ UNCHANGED lp)
        BY <1>18 DEF markMCRCheckpointPendingHandoff, Return
  <2> QED
      BY <2>1, <2>2 DEF Request, Checkpoint
<1>19. CASE MarkPendingError
      BY <1>19 DEF MarkPendingError, Return, NoCheckpoint, Request, Checkpoint
<1>20. CASE finalizeMCR
      BY <1>20 DEF finalizeMCR, WriteMCR, Return, NoCheckpoint, Request,
         Checkpoint
<1>21. CASE FinalizeError
      BY <1>21 DEF FinalizeError, Return, NoCheckpoint, Request, Checkpoint
<1>22. CASE PublishCheckpointName
      BY <1>22 DEF PublishCheckpointName, Request, Checkpoint
<1>23. CASE ensureManifestCheckpointOwnedByContent
      BY <1>23 DEF ensureManifestCheckpointOwnedByContent, WriteMCP, Request,
         Checkpoint
<1>24. CASE LatchManifestCaptured
      BY <1>24 DEF LatchManifestCaptured, ManifestCaptureRequestSafeToDelete,
         isManifestCheckpointDurable, Request, Checkpoint
<1>25. CASE ReapRequest
      BY <1>25 DEF ReapRequest, DeleteMCR, WriteMCR, Request, Checkpoint
<1>26. CASE ExpireRequest
      BY <1>26 DEF ExpireRequest, isTerminal, DeleteMCR, WriteMCR, Request,
         Checkpoint
<1>27. CASE KeeperFollowsRequest
      BY <1>27 DEF KeeperFollowsRequest, Request, Checkpoint
<1>28. CASE CollectGarbage
      BY <1>28 DEF CollectGarbage, WriteMCP, NoCheckpoint, Request, Checkpoint
<1>29. CASE ChangeSource
      BY <1>29 DEF ChangeSource, Request, Checkpoint
<1>30. CASE SyncRequests
      BY <1>30 DEF SyncRequests, Request, Checkpoint
<1>31. CASE SyncKeepers
      BY <1>31 DEF SyncKeepers, Request, Checkpoint
<1>32. CASE SyncCheckpoints
      BY <1>32 DEF SyncCheckpoints, Request, Checkpoint
<1>33. CASE SyncChunks
      BY <1>33 DEF SyncChunks, Request, Checkpoint
<1>34. CASE Restart
      BY <1>34 DEF Restart, Return, NoCheckpoint, Request, Checkpoint
<1>35. CASE Quiescent
      BY <1>35 DEF Quiescent, vars, Request, Checkpoint
<1>36. CASE UNCHANGED vars
      BY <1>36 DEF vars, Request, Checkpoint
<1> QED
    BY <1>1, <1>2, <1>3, <1>4, <1>5, <1>6, <1>7, <1>8, <1>9, <1>10, <1>11,
       <1>12, <1>13, <1>14, <1>15, <1>16, <1>17, <1>18, <1>19, <1>20,
       <1>21, <1>22, <1>23, <1>24, <1>25, <1>26, <1>27, <1>28, <1>29,
       <1>30, <1>31, <1>32, <1>33, <1>34, <1>35, <1>36
    DEF Next, Executor, ContentController, Environment, Sync

\* The order holds throughout.
LEMMA LegAlways == ASSUME ~Lag PROVE Spec => []LegInv
<1>1. Init => LegInv
  <2> SUFFICES ASSUME Init PROVE LegInv
      OBVIOUS
  <2>1. pc = "idle" /\ keeperC = keeper /\ ~captured /\ ~published
        BY DEF Init
  <2>2. mcr.ex = TRUE /\ mcr.named = FALSE
        BY DEF Init
  <2>3. mcp.st = "absent" /\ mcp.owner = "keeper"
        BY DEF Init, NoCheckpoint
  <2> QED
      BY <2>1, <2>2, <2>3 DEF LegInv, Early
<1>2. TypeOK /\ SyncInv /\ HandoffInv /\ CheckpointInv /\ LegInv /\ [Next]_vars => LegInv'
      BY LegStep
<1>3. TypeOK /\ HandoffInv /\ [Next]_vars => HandoffInv'
      BY HandoffStep
<1>4. TypeOK /\ CheckpointInv /\ [Next]_vars => CheckpointInv'
      BY CheckpointStep
<1> QED
    BY <1>1, <1>2, <1>3, <1>4, SyncAlways, HandoffInit, CheckpointInit, TypeCorrect, PTL DEF Spec

\* A step that leaves the request's stage, the checkpoint and the latch alone
\* is none of CaptureLeg's.
LEMMA LegStutter ==
    ASSUME UNCHANGED <<mcp, captured>>,
           UNCHANGED mcr \/ (RequestStage = "open" /\ RequestStage' = "open")
    PROVE  UNCHANGED Leg!legVars
<1>1. UNCHANGED RequestStage
      BY DEF RequestStage
<1>2. UNCHANGED ReadyCopy
      BY DEF ReadyCopy
<1> QED
    BY <1>1, <1>2 DEF Leg!legVars

\* Every call of every party is a step of CaptureLeg or none at all.
LEMMA LegSimulation ==
    ~Lag /\ TypeOK /\ SyncInv /\ HandoffInv /\ CheckpointInv /\ LegInv /\ [Next]_vars
        => [Leg!LegNext]_(Leg!legVars)
<1> SUFFICES ASSUME ~Lag, TypeOK, SyncInv, HandoffInv, CheckpointInv, LegInv, [Next]_vars
             PROVE  [Leg!LegNext]_(Leg!legVars)
    OBVIOUS
<1>1. mcr \in Request /\ mcp \in Checkpoint /\ mcrC = mcr /\ mcpC = mcp
      BY DEF TypeOK, ApiType, SyncInv
<1>2. pc # "idle" /\ mcr.ex => RequestStage = "open"
      BY DEF SyncInv, RequestStage
<1>3. CASE UNCHANGED <<mcr, mcp, captured>>
      BY <1>3, LegStutter
<1>4. CASE SetProcessing \/ markMCRCheckpointPendingHandoff
  <2>1. UNCHANGED <<mcp, captured>> /\ pc # "idle"
        BY <1>4 DEF SetProcessing, markMCRCheckpointPendingHandoff
  <2>2. CASE UNCHANGED mcr
        BY <1>3, <2>1, <2>2
  <2>3. CASE mcr.ex /\ mcr' = [mcr EXCEPT !.ready = "Processing"]
    <3>1. RequestStage' = "open"
          BY <1>1, <2>3 DEF RequestStage, Request
    <3> QED
        BY <1>2, <2>1, <2>3, <3>1, LegStutter
  <2>4. CASE mcr.ex /\ mcr' = [mcr EXCEPT !.named = TRUE, !.ready = "Processing"]
    <3>1. RequestStage' = "open"
          BY <1>1, <2>4 DEF RequestStage, Request
    <3> QED
        BY <1>2, <2>1, <2>4, <3>1, LegStutter
  <2> QED
      BY <1>1, <1>4, <2>2, <2>3, <2>4
      DEF SetProcessing, markMCRCheckpointPendingHandoff, WriteMCR, PendingReason
<1>5. CASE CreateCheckpoint \/ MarkCheckpointProcessing \/ FailCheckpoint
  <2>1. UNCHANGED <<mcr, captured>> /\ mcp.st # "Completed"
        BY <1>5 DEF CreateCheckpoint, MarkCheckpointProcessing, FailCheckpoint, SyncInv
  <2>2. mcp.st = "absent" => mcp.owner = "keeper"
        BY <1>1 DEF HandoffInv, Checkpoint
  <2>3. \/ mcp' = mcp
        \/ mcp.st = "absent" /\ mcp' = [st |-> "new", owner |-> "keeper", info |-> NoData]
        \/ mcp' = [mcp EXCEPT !.st = "Processing", !.info = lp.info]
        \/ mcp' = [mcp EXCEPT !.st = "Failed", !.info = lp.info]
        BY <1>5 DEF CreateCheckpoint, MarkCheckpointProcessing, FailCheckpoint, WriteMCP
  <2>4. mcp'.owner = mcp.owner /\ mcp'.st # "Completed"
    <3>1. CASE mcp.st = "absent" /\ mcp' = [st |-> "new", owner |-> "keeper", info |-> NoData]
          BY <2>2, <3>1
    <3>2. CASE mcp' = [mcp EXCEPT !.st = "Processing", !.info = lp.info]
          BY <1>1, <3>2 DEF Checkpoint
    <3>3. CASE mcp' = [mcp EXCEPT !.st = "Failed", !.info = lp.info]
          BY <1>1, <3>3 DEF Checkpoint
    <3> QED
        BY <2>1, <2>3, <3>1, <3>2, <3>3
  <2> QED
      BY <2>1, <2>4 DEF Leg!legVars, RequestStage, ReadyCopy
<1>6. CASE PublishReady
  <2>1. RequestStage = "open" /\ ReadyCopy = NoData
        BY <1>2, <1>6 DEF PublishReady, LegInv, Early, SyncInv, ReadyCopy
  <2>2. /\ UNCHANGED <<mcr, captured>>
        /\ mcp'.owner = mcp.owner /\ mcp'.st = "Completed" /\ mcp'.info = objs
        BY <1>1, <1>6 DEF PublishReady, WriteMCP, Checkpoint
  <2>3. objs \in [Targets -> Data \ {0}]
        BY <1>6 DEF PublishReady, CheckpointInv, TypeOK, LocalType
  <2>4. Leg!Write
        BY <2>1, <2>2, <2>3 DEF Leg!Write, RequestStage, ReadyCopy
  <2> QED
      BY <2>4 DEF Leg!LegNext
<1>7. CASE finalizeMCR
  <2>1. UNCHANGED <<mcp, captured>> /\ pc \in {"fail", "complete"}
        BY <1>7 DEF finalizeMCR
  <2>2. CASE ~mcr.ex
        BY <1>1, <1>3, <1>7, <2>1, <2>2 DEF finalizeMCR
  <2>3. CASE mcr.ex
    <3>1. RequestStage = "open" /\ mcr'.ex
          /\ mcr'.ready = IF pc = "fail" THEN "Failed" ELSE "Completed"
          BY <1>1, <1>2, <1>7, <2>1, <2>3 DEF finalizeMCR, WriteMCR, Request
    <3>2. UNCHANGED ReadyCopy
          BY <2>1 DEF ReadyCopy
    <3>3. CASE pc = "complete"
      <4>1. RequestStage' = "completed" /\ mcp.owner = "content"
            BY <3>1, <3>3 DEF RequestStage, HandoffInv, HandedOff
      <4> QED
          BY <2>1, <3>1, <3>2, <4>1 DEF Leg!LegNext, Leg!Complete
    <3>4. CASE pc = "fail"
      <4>1. RequestStage' = "failed"
            BY <3>1, <3>4 DEF RequestStage
      <4>2. mcp.owner = "keeper"
            BY <1>1, <2>3, <3>4 DEF LegInv, Checkpoint
      <4> QED
          BY <2>1, <3>1, <3>2, <4>1, <4>2 DEF Leg!LegNext, Leg!Fail
    <3> QED
        BY <2>1, <3>3, <3>4
  <2> QED
      BY <2>2, <2>3
<1>8. CASE ensureManifestCheckpointOwnedByContent
  <2>1. /\ UNCHANGED <<mcr, captured>>
        /\ published /\ mcp.st = "Completed" /\ mcp.owner = "keeper"
        /\ mcp' = [mcp EXCEPT !.owner = "content"]
        BY <1>1, <1>8 DEF ensureManifestCheckpointOwnedByContent, WriteMCP
  <2>2. RequestStage = "open"
        BY <2>1 DEF LegInv, HandoffInv, HandedOff, RequestStage
  <2>3. ReadyCopy # NoData
    <3>1. 1 \in Targets
          BY CaptureAssumption DEF CaptureAssumption, Targets
    <3>2. mcp.info[1] # 0
          BY <2>1, <3>1 DEF CheckpointInv, CheckpointIntegrity
    <3> QED
        BY <2>1, <3>1, <3>2 DEF ReadyCopy, NoData
  <2>4. mcp'.owner = "content" /\ UNCHANGED <<RequestStage, ReadyCopy>>
        BY <1>1, <2>1 DEF Checkpoint, RequestStage, ReadyCopy
  <2> QED
      BY <2>1, <2>2, <2>3, <2>4 DEF Leg!LegNext, Leg!HandOver
<1>9. CASE LatchManifestCaptured
  <2>1. UNCHANGED <<mcr, mcp>> /\ captured' = TRUE /\ mcp.owner = "content"
        BY <1>9 DEF LatchManifestCaptured, ManifestCaptureRequestSafeToDelete,
           isManifestCheckpointDurable
  <2> QED
      BY <2>1 DEF Leg!LegNext, Leg!Latch, RequestStage, ReadyCopy
<1>10. CASE ReapRequest \/ ExpireRequest
  <2>1. /\ UNCHANGED <<mcp, captured>> /\ ~mcr'.ex
        /\ mcr.ex /\ (captured \/ mcr.ready \in {"Completed", "Failed"})
        BY <1>1, <1>10 DEF ReapRequest, ExpireRequest, DeleteMCR, WriteMCR, isTerminal
  <2>2. /\ captured \/ RequestStage \in {"completed", "failed"}
        /\ RequestStage' = "gone" /\ UNCHANGED ReadyCopy
        BY <2>1 DEF RequestStage, ReadyCopy
  <2> QED
      BY <2>1, <2>2 DEF Leg!LegNext, Leg!Withdraw
<1>11. CASE CollectGarbage
  <2>1. /\ UNCHANGED <<mcr, captured>>
        /\ mcp.st # "absent" /\ mcp.owner = "keeper" /\ ~keeper
        /\ mcp' = NoCheckpoint
        BY <1>11 DEF CollectGarbage, WriteMCP
  <2>2. RequestStage = "gone"
        BY <2>1 DEF LegInv, RequestStage
  <2>3. mcp'.owner = "keeper" /\ ReadyCopy' = NoData /\ UNCHANGED RequestStage
        BY <2>1 DEF NoCheckpoint, ReadyCopy, RequestStage
  <2> QED
      BY <2>1, <2>2, <2>3 DEF Leg!LegNext, Leg!Collect
<1>12. CASE Executor
      BY <1>3, <1>4, <1>5, <1>6, <1>7, <1>12
      DEF Executor, Reconcile, SetProcessingError, collectTargetObjects, CollectError,
          EnsureKeeper, KeeperReadBackError, LookupCheckpoint, CreateCheckpointError,
          createChunks, ChunkError, PublishReadyError, finalizeMCRIfCheckpointHandedOff,
          MarkPendingError, FinalizeError, api
<1>13. CASE PublishCheckpointName \/ KeeperFollowsRequest \/ ChangeSource \/ Sync \/ Restart
      BY <1>3, <1>13 DEF PublishCheckpointName, KeeperFollowsRequest, ChangeSource, Sync,
         SyncRequests, SyncKeepers, SyncCheckpoints, SyncChunks, Restart, api
<1>14. CASE Quiescent \/ UNCHANGED vars
      BY <1>3, <1>14 DEF Quiescent, vars
<1> QED
    BY <1>8, <1>9, <1>10, <1>11, <1>12, <1>13, <1>14 DEF Next, ContentController, Environment

\* The request implements CaptureLeg when the caches do not trail: its initial
\* states map to the initial state, and every call of the executor, the content
\* controller, the TTL scanner and the collectors to a step of it or to none.
THEOREM CaptureLegHolds == ASSUME ~Lag PROVE Spec => IsCaptureLeg
<1>1. Init => Leg!LegInit
      BY DEF Init, Leg!LegInit, NoCheckpoint, RequestStage, ReadyCopy
<1>2. TypeOK /\ SyncInv /\ HandoffInv /\ CheckpointInv /\ LegInv /\ [Next]_vars
        => [Leg!LegNext]_(Leg!legVars)
      BY LegSimulation
<1>3. TypeOK /\ HandoffInv /\ [Next]_vars => HandoffInv'
      BY HandoffStep
<1>4. TypeOK /\ CheckpointInv /\ [Next]_vars => CheckpointInv'
      BY CheckpointStep
<1> QED
    BY <1>1, <1>2, <1>3, <1>4, LegAlways, SyncAlways, HandoffInit, CheckpointInit, TypeCorrect,
       PTL DEF Spec, IsCaptureLeg, Leg!LegSpec
=============================================================================
