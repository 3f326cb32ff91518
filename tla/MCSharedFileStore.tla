---------------------------- MODULE MCSharedFileStore ----------------------------
(* The instances of MCFileStore, for SharedFileStore.                       *)
EXTENDS SharedFileStore, MCFileStore
================================================================================
