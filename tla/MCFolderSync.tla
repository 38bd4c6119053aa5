---------------------------- MODULE MCFolderSync ----------------------------
(* Small instances of FolderSync.                                            *)
EXTENDS FolderSync
=============================================================================
