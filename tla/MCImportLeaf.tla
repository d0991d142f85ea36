---------------------------- MODULE MCImportLeaf ----------------------------
(***************************************************************************)
(* Leaves of both kinds and up to two DataImports, for ImportLeaf.         *)
(***************************************************************************)
EXTENDS ImportLeaf

AllKinds == {"domain", "native"}
OneQueue == {"content"}
AllArtifacts == {"vsc", "pv"}
VolumeOnly == {"vsc"}
=============================================================================
