---------------------------- MODULE MCSyncSystem ----------------------------
(* SyncSystem on small instances: values are given in the .cfg files.      *)
EXTENDS SyncSystem
=============================================================================
