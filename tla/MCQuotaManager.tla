--------------------------- MODULE MCQuotaManager ---------------------------
(* QuotaManager on small instances: values are given in the .cfg files.    *)
EXTENDS QuotaManager
=============================================================================
