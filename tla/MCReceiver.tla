----------------------------- MODULE MCReceiver -----------------------------
(* Receiver on small instances: model values are given in the .cfg files.  *)
EXTENDS Receiver
=============================================================================
