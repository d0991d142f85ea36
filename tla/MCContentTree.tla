---------------------------- MODULE MCContentTree ----------------------------
(***************************************************************************)
(* Small trees for ContentTree.                                            *)
(***************************************************************************)
EXTENDS ContentTree

Pair == {"root", "disk"}
PairKids == [n \in Pair |-> IF n = "root" THEN {"disk"} ELSE {}]
OneQueue == {"content"}
TwoQueues == {"content", "snapshot"}
None == {}
TheRoot == {"root"}
TheDisk == {"disk"}
TheManifest == {"manifest"}
AllFailures == {"manifest", "volume", "domain"}
=============================================================================
