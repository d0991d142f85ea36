-------------------------- MODULE MCContentTeardown --------------------------
(***************************************************************************)
(* A root with one child that has a volume, for ContentTeardown.           *)
(***************************************************************************)
EXTENDS ContentTeardown

Pair == {"root", "disk"}
PairKids == [n \in Pair |-> IF n = "root" THEN {"disk"} ELSE {}]
TheDisk == {"disk"}
OneQueue == {"content"}
AllPolicies == {"Retain", "Delete"}
=============================================================================
