------------------------------ MODULE MCSender ------------------------------
(* Sender on small instances: values are given in the .cfg files.          *)
EXTENDS Sender
=============================================================================
