----------------------------- MODULE CaptureLeg -----------------------------
(***************************************************************************)
(* What one manifest request promises, whatever the executor, the content  *)
(* controller and the collectors do with their many calls: the copy of the *)
(* objects appears at once and is never altered, it changes hands from the *)
(* keeper to the content while the request is open, only then may it count *)
(* as captured or the request as completed, a failed request hands nothing *)
(* over, and nothing is collected that was ever handed over.               *)
(***************************************************************************)
CONSTANTS Copies,    \* the copies that may be captured
          Nothing    \* no copy

VARIABLES request,   \* "open", "completed", "failed", "gone"
          copy,      \* the copy readers may rely on
          owner,     \* whom it lives with: "keeper" (the request's) or "content"
          captured   \* the owner snapshot was told that it is captured

legVars == <<request, copy, owner, captured>>

LegInit ==
    /\ request = "open"
    /\ copy = Nothing
    /\ owner = "keeper"
    /\ captured = FALSE

Write ==
    /\ request = "open"
    /\ copy = Nothing
    /\ copy' \in Copies
    /\ UNCHANGED <<request, owner, captured>>

HandOver ==
    /\ request = "open"
    /\ copy # Nothing
    /\ owner = "keeper"
    /\ owner' = "content"
    /\ UNCHANGED <<request, copy, captured>>

\* The request may go in the same step.
Latch ==
    /\ owner = "content"
    /\ captured' = TRUE
    /\ request' \in {request, "gone"}
    /\ UNCHANGED <<copy, owner>>

Complete ==
    /\ request = "open"
    /\ owner = "content"
    /\ request' = "completed"
    /\ UNCHANGED <<copy, owner, captured>>

Fail ==
    /\ request = "open"
    /\ owner = "keeper"
    /\ request' = "failed"
    /\ UNCHANGED <<copy, owner, captured>>

\* A request goes when it is over or nobody needs it any more.
Withdraw ==
    /\ captured \/ request \in {"completed", "failed"}
    /\ request' = "gone"
    /\ UNCHANGED <<copy, owner, captured>>

\* What was not handed over goes with its request, and not before.
Collect ==
    /\ request = "gone"
    /\ owner = "keeper"
    /\ copy' = Nothing
    /\ UNCHANGED <<request, owner, captured>>

LegNext == Write \/ HandOver \/ Latch \/ Complete \/ Fail \/ Withdraw \/ Collect

LegSpec == LegInit /\ [][LegNext]_legVars
=============================================================================
