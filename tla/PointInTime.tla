---------------------------- MODULE PointInTime ----------------------------
(***************************************************************************)
(* What a namespace snapshot promises about time, whatever its controllers *)
(* do: its members are only declared while it is open, they are frozen     *)
(* before anything of its own is asked for, what is asked for is decided   *)
(* once, and what it holds in the end is exactly what was asked for.       *)
(***************************************************************************)
CONSTANTS Members,   \* what may become a member of the snapshot
          Things,    \* what the snapshot may ask for
          Nothing    \* no request, no result

VARIABLES stage,     \* "open", "frozen", "done", "failed"
          members, request, result

pitVars == <<stage, members, request, result>>

PitInit ==
    /\ stage = "open"
    /\ members = {}
    /\ request = Nothing
    /\ result = Nothing

Declare ==
    /\ stage = "open"
    /\ \E m \in SUBSET Members : members' = members \cup m
    /\ UNCHANGED <<stage, request, result>>

Freeze ==
    /\ stage = "open"
    /\ stage' = "frozen"
    /\ UNCHANGED <<members, request, result>>

Ask ==
    /\ stage = "frozen"
    /\ request = Nothing /\ result = Nothing
    /\ request' # Nothing /\ request' \in SUBSET Things
    /\ UNCHANGED <<stage, members, result>>

Answer ==
    /\ request # Nothing /\ result = Nothing
    /\ result' = request
    /\ UNCHANGED <<stage, members, request>>

\* The request is removed when it has been answered, never before.
Withdraw ==
    /\ request # Nothing /\ result # Nothing
    /\ request' = Nothing
    /\ UNCHANGED <<stage, members, result>>

Finish ==
    /\ stage = "frozen" /\ result # Nothing
    /\ stage' = "done"
    /\ UNCHANGED <<members, request, result>>

Fail ==
    /\ stage \in {"open", "frozen"}
    /\ stage' = "failed"
    /\ UNCHANGED <<members, request, result>>

PitNext == Declare \/ Freeze \/ Ask \/ Answer \/ Withdraw \/ Finish \/ Fail

PitSpec == PitInit /\ [][PitNext]_pitVars
=============================================================================
