----------------------------- MODULE MCAccounts -----------------------------
(* Small populations for checking Accounts.                                *)
EXTENDS Accounts, TLC

CONSTANTS a1, a2, u1,   \* users
          r1, r2        \* requests

TwoAdmins == [u \in {a1, a2} |-> "admin"]
AdminsAndVisitor == (a1 :> "admin" @@ a2 :> "admin" @@ u1 :> "absent")
=============================================================================
