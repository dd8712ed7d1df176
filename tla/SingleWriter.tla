---------------------------- MODULE SingleWriter ----------------------------
(***************************************************************************)
(* What market.services.autosync promises of exclusive_db_write: the       *)
(* market database is never written by two workers at the same time.  A    *)
(* writer begins when nobody writes; it stops by leaving the context       *)
(* manager or by dying.                                                    *)
(***************************************************************************)
CONSTANTS Workers, Nobody

VARIABLE writer

Init == writer = Nobody

Begin(w) == writer = Nobody /\ writer' = w

End == writer # Nobody /\ writer' = Nobody

Next == End \/ \E w \in Workers : Begin(w)

Spec == Init /\ [][Next]_writer
=============================================================================
