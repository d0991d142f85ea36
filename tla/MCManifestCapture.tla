-------------------------- MODULE MCManifestCapture --------------------------
(***************************************************************************)
(* Small instances of ManifestCapture for TLC.                             *)
(***************************************************************************)
EXTENDS ManifestCapture

AllCalls == Calls
ChunkCalls == {"chunk"}
=============================================================================
