------------------------- MODULE MCMlReportDelivery -------------------------
(* Values for checking MlReportDelivery: while it is being sent, the report  *)
(* grows from two chunks to three and then shrinks to one.                   *)
EXTENDS MlReportDelivery

Varying == <<2, 3, 1>>
=============================================================================
