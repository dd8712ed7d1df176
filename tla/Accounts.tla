------------------------------ MODULE Accounts ------------------------------
(***************************************************************************)
(* Accounts and the requests that manage them (accounts/services.py and    *)
(* accounts/views.py): sign-up and approval, activation, roles, deletion,  *)
(* temporary passwords and the change they force.                          *)
(*                                                                         *)
(* A request reads the acting user and the target when it starts and works *)
(* on those copies; what it saves are the named columns (update_fields)    *)
(* except in the profile form, which saves every column of the profile.    *)
(* Statements outside transaction.atomic commit one by one.                *)
(***************************************************************************)
EXTENDS Integers, FiniteSets

CONSTANTS Users,
          Start,      \* Start[u]: the account u has initially, or "absent"
          Requests,   \* requests being served at the same time
          Ops         \* the operations the requests of a run ask for

AllOps == {"activate", "deactivate", "promote", "demote", "delete", "reset",
           "change_password", "edit_profile"}

ASSUME AccountsAssumption ==
    /\ Users # {}
    /\ Start \in [Users -> {"admin", "staff", "user", "absent"}]
    /\ Ops \subseteq AllOps

VARIABLES account,   \* the rows of auth_user and UserProfile
          request    \* what each request is doing

vars == <<account, request>>

Account == [row : {"never", "live", "deleted"}, is_staff : BOOLEAN, is_superuser : BOOLEAN,
            is_active : BOOLEAN,
            password : {"unusable", "temporary", "own"},
            must_change : BOOLEAN,
            deadline : {"none", "running", "passed"},   \* temp_password_expires_at
            pending : BOOLEAN, verified : BOOLEAN]

Absent == [row |-> "never", is_staff |-> FALSE, is_superuser |-> FALSE,
           is_active |-> FALSE, password |-> "unusable", must_change |-> FALSE,
           deadline |-> "none", pending |-> FALSE, verified |-> FALSE]

Existing(role) == [Absent EXCEPT !.row = "live", !.is_active = TRUE,
                                 !.password = "own",
                                 !.is_staff = role \in {"admin", "staff"},
                                 !.is_superuser = role = "admin"]

\* accounts/roles.py
IsAdmin(a) == a.is_active /\ a.is_superuser /\ a.is_staff
IsStaffMember(a) == a.is_active /\ a.is_staff /\ ~a.is_superuser

\* A session can be held, and AccountStateMiddleware lets it reach more than the
\* password change.
SignedIn(a) == a.row = "live" /\ a.is_active /\ a.password # "unusable"
Unrestricted(a) == SignedIn(a) /\ ~a.must_change

\* What a request keeps of its actor.
Role(a) == [Absent EXCEPT !.is_active = a.is_active, !.is_staff = a.is_staff,
                          !.is_superuser = a.is_superuser]

ActiveAdmins == {u \in Users : account[u].row = "live" /\ IsAdmin(account[u])}

Steps == {"idle", "guard", "save", "reset", "approve", "clear_flags"}

Idle == [op |-> "none", step |-> "idle", who |-> Absent,
         target |-> CHOOSE u \in Users : TRUE, saw |-> Absent]

TypeOK ==
    /\ account \in [Users -> Account]
    /\ request \in [Requests -> [op : AllOps \cup {"none"}, step : Steps,
                                 who : Account, target : Users, saw : Account]]

Init ==
    /\ account = [u \in Users |-> IF Start[u] = "absent" THEN Absent
                                  ELSE Existing(Start[u])]
    /\ request = [r \in Requests |-> Idle]

-----------------------------------------------------------------------------
(* Steps that do not depend on what an earlier statement read              *)

Save(u, row) == account' = [account EXCEPT ![u] = row]

Temporary(a) == [a EXCEPT !.password = "temporary", !.must_change = TRUE,
                          !.deadline = "running"]

\* signup: inactive, without a usable password, waiting for approval.
SignUp(u) ==
    /\ account[u].row = "never"
    /\ Save(u, [Absent EXCEPT !.row = "live", !.pending = TRUE])
    /\ UNCHANGED request

VerifyEmail(u) ==
    /\ account[u].row = "live"
    /\ account[u].pending
    /\ Save(u, [account[u] EXCEPT !.verified = TRUE])
    /\ UNCHANGED request

\* create_account: "user" by Staff or Admin, "staff" by Admin only.
CreateAccount(actor, u, role, active) ==
    /\ Unrestricted(account[actor])
    /\ IsAdmin(account[actor]) \/ (IsStaffMember(account[actor]) /\ role = "user")
    /\ account[u].row = "never"
    /\ Save(u, Temporary([Absent EXCEPT !.row = "live", !.is_active = active,
                                        !.is_staff = role = "staff"]))
    /\ UNCHANGED request

\* The fifteen minutes of a temporary password are over.
DeadlinePasses(u) ==
    /\ account[u].deadline = "running"
    /\ Save(u, [account[u] EXCEPT !.deadline = "passed"])
    /\ UNCHANGED request

-----------------------------------------------------------------------------
(* Requests                                                                *)

Go(r, step) == request' = [request EXCEPT ![r].step = step]
Done(r) == request' = [request EXCEPT ![r] = Idle]

\* The decorators and the queryset an operation is reached through.
Reaches(op, who, actor, target, a) ==
    CASE op \in {"activate", "deactivate", "reset"} ->
           IsAdmin(who) \/ (IsStaffMember(who) /\ ~a.is_staff /\ ~a.is_superuser)
      [] op \in {"promote", "demote"} -> IsAdmin(who)
      [] op = "delete" -> IsAdmin(who) /\ target # actor /\ ~IsAdmin(a)
      [] op = "change_password" -> target = actor /\ a.must_change
      [] op = "edit_profile" -> target = actor

\* account_activate refuses a pending registration without a verified email.
Unverified(op, a) == op = "activate" /\ ~a.is_active /\ a.pending /\ ~a.verified

Begin(r, op, actor, target) ==
    /\ request[r].step = "idle"
    /\ SignedIn(account[actor])
    /\ op # "change_password" => Unrestricted(account[actor])
    /\ account[target].row = "live"
    /\ Reaches(op, account[actor], actor, target, account[target])
    /\ ~Unverified(op, account[target])
    /\ request' = [request EXCEPT ![r] =
          [op |-> op, step |-> "guard", who |-> Role(account[actor]),
           target |-> target, saw |-> account[target]]]
    /\ UNCHANGED account

\* The rules of set_active and reset_password.
MayManage(who, a) ==
    /\ IsAdmin(who) \/ IsStaffMember(who)
    /\ IsAdmin(a) => IsAdmin(who)
    /\ IsStaffMember(who) => ~a.is_staff

\* Fault: the last administrator is counted one off.
AllowedToTheLast(r) ==
    LET who == request[r].who
        a == request[r].saw
    IN  CASE request[r].op \in {"activate", "reset"} -> MayManage(who, a)
          [] request[r].op = "deactivate" ->
               /\ MayManage(who, a)
               /\ ~(IsAdmin(a) /\ Cardinality(ActiveAdmins) < 1)
          [] request[r].op = "promote" -> ~IsAdmin(a) /\ ~a.is_staff
          [] request[r].op = "demote" -> ~IsAdmin(a) /\ a.is_staff
          [] OTHER -> TRUE

\* The checks of the service function, on the copies the request holds; only
\* the number of active administrators is read anew.
Allowed(r) ==
    LET who == request[r].who
        a == request[r].saw
    IN  CASE request[r].op \in {"activate", "reset"} -> MayManage(who, a)
          [] request[r].op = "deactivate" ->
               /\ MayManage(who, a)
               /\ ~(IsAdmin(a) /\ Cardinality(ActiveAdmins) <= 1)
          [] request[r].op = "promote" -> ~IsAdmin(a) /\ ~a.is_staff
          [] request[r].op = "demote" -> ~IsAdmin(a) /\ a.is_staff
          [] OTHER -> TRUE

Guard(r) ==
    /\ request[r].step = "guard"
    /\ IF Allowed(r) THEN Go(r, "save") ELSE Done(r)
    /\ UNCHANGED account

\* What the operation saves over the current row.
Saved(op, row, saw) ==
    CASE op = "activate" -> [row EXCEPT !.is_active = TRUE]
      [] op = "deactivate" -> [row EXCEPT !.is_active = FALSE]
      [] op = "promote" -> [row EXCEPT !.is_staff = TRUE]
      [] op = "demote" -> [row EXCEPT !.is_staff = FALSE]
      [] op = "delete" -> [Absent EXCEPT !.row = "deleted"]
      [] op = "reset" -> Temporary(row)
      [] op = "change_password" -> [row EXCEPT !.password = "own"]
      [] op = "edit_profile" ->
           [row EXCEPT !.must_change = saw.must_change, !.deadline = saw.deadline,
                       !.pending = saw.pending, !.verified = saw.verified]

\* set_active saves nothing when the copy is already as asked for.
NoOp(op, saw) == \/ op = "activate" /\ saw.is_active
                 \/ op = "deactivate" /\ ~saw.is_active

\* Fault: the registration is approved before it has a password.
AfterUnreset(op, saw) ==
    IF op = "activate" /\ ~saw.is_active /\ saw.pending THEN "approve"
    ELSE IF op = "change_password" THEN "clear_flags"
    ELSE "idle"

After(op, saw) ==
    IF op = "activate" /\ ~saw.is_active /\ saw.pending THEN "reset"
    ELSE IF op = "change_password" THEN "clear_flags"
    ELSE "idle"

Proceed(r, step) == IF step = "idle" THEN Done(r) ELSE Go(r, step)

SaveOp(r) ==
    LET op == request[r].op
        u == request[r].target
        saw == request[r].saw
    IN  /\ request[r].step = "save"
        /\ account[u].row = "live"
        /\ IF NoOp(op, saw) THEN UNCHANGED account
           ELSE Save(u, Saved(op, account[u], saw))
        /\ Proceed(r, After(op, saw))

\* The approval of a registration goes on with reset_password ...
ApprovalReset(r) ==
    LET u == request[r].target
    IN  /\ request[r].step = "reset"
        /\ account[u].row = "live"
        /\ Save(u, Temporary(account[u]))
        /\ Go(r, "approve")

\* ... and then clears is_pending_approval.
ApprovalDone(r) ==
    LET u == request[r].target
    IN  /\ request[r].step = "approve"
        /\ account[u].row = "live"
        /\ Save(u, [account[u] EXCEPT !.pending = FALSE])
        /\ Done(r)

\* force_password_change: the profile is saved after the user.
ClearFlags(r) ==
    LET u == request[r].target
    IN  /\ request[r].step = "clear_flags"
        /\ account[u].row = "live"
        /\ Save(u, [account[u] EXCEPT !.must_change = FALSE, !.deadline = "none"])
        /\ Done(r)

\* The row is gone and the save raises, or the process stops.
Fail(r) ==
    /\ request[r].step # "idle"
    /\ Done(r)
    /\ UNCHANGED account

Next ==
    \/ \E u \in Users : SignUp(u) \/ VerifyEmail(u) \/ DeadlinePasses(u)
    \/ \E actor, u \in Users, role \in {"user", "staff"}, active \in BOOLEAN :
         CreateAccount(actor, u, role, active)
    \/ \E r \in Requests :
         \/ \E op \in Ops, actor, target \in Users : Begin(r, op, actor, target)
         \/ Guard(r) \/ SaveOp(r) \/ ApprovalReset(r) \/ ApprovalDone(r)
         \/ ClearFlags(r) \/ Fail(r)

Spec == Init /\ [][Next]_vars

-----------------------------------------------------------------------------

\* Somebody can always administer the deployment: "an Admin cannot deactivate
\* the last active Admin account - neither their own nor anyone else's"
\* (README.md, Protecting the last Admin).
AnAdminRemains == ActiveAdmins # {}

\* No step of an approval, however it is interleaved or cut short, leaves an
\* approved account without a password to sign in with.
ApprovedHasPassword ==
    \A u \in Users :
      account[u].row = "live" /\ ~account[u].pending => account[u].password # "unusable"
=============================================================================
