------------------------------ MODULE Employees ------------------------------
(***************************************************************************)
(* An employee's account and workspace access: the status of the user and  *)
(* the membership, which updateEmployee and deleteEmployee write in two    *)
(* statements without a transaction. The error of the second is ignored.   *)
(***************************************************************************)
EXTENDS Integers

CONSTANTS
  Managers,       \* requests
  MaxStaffFaults  \* bound on second statements that fail

ASSUME EmployeesAssumption == MaxStaffFaults \in Nat

VARIABLES
  user,         \* users.status, or deleted
  membership,   \* company_memberships.status
  manager,      \* the membership status a request has yet to write
  staffFaults,
  entangled     \* history: did two requests overlap?

staffVars == <<user, membership, manager, staffFaults, entangled>>

Nothing == "nothing"

\* createEmployee inserts both rows in one transaction.
StaffInit ==
  /\ user = "active" /\ membership = "active"
  /\ manager = [q \in Managers |-> Nothing]
  /\ staffFaults = 0 /\ entangled = FALSE

Overlapping == entangled \/ \E p \in Managers : manager[p] # Nothing

MembershipAlwaysActive(status) == "active"

MembershipFor(status) == IF status = "active" THEN "active" ELSE "suspended"

SetStatus(q, status) ==
  /\ manager[q] = Nothing
  /\ user # "deleted"
  /\ user' = status
  /\ manager' = [manager EXCEPT ![q] = MembershipFor(status)]
  /\ entangled' = Overlapping
  /\ UNCHANGED <<membership, staffFaults>>

UpdateEmployee(q) == \E status \in {"active", "blocked"} : SetStatus(q, status)

DeleteEmployee(q) == SetStatus(q, "deleted")

\* A user who is deleted is not found.
EmployeeRefused(q) ==
  /\ manager[q] = Nothing
  /\ user = "deleted"
  /\ UNCHANGED staffVars

WriteMembership(q) ==
  /\ manager[q] # Nothing
  /\ \/ membership' = manager[q] /\ UNCHANGED staffFaults
     \/ /\ staffFaults < MaxStaffFaults /\ staffFaults' = staffFaults + 1
        /\ UNCHANGED membership
  /\ manager' = [manager EXCEPT ![q] = Nothing]
  /\ UNCHANGED <<user, entangled>>

StaffNext ==
  \E q \in Managers : UpdateEmployee(q) \/ DeleteEmployee(q) \/ EmployeeRefused(q) \/ WriteMembership(q)

StaffSpec == StaffInit /\ [][StaffNext]_staffVars

-----------------------------------------------------------------------------
(***************************************************************************)
(* Between requests the workspace is open to the employee exactly when the *)
(* account is active, unless two requests overlapped or a second statement *)
(* failed: switchWorkspace asks the membership, login the account.         *)
(***************************************************************************)
AccessFollowsAccount ==
  (\A q \in Managers : manager[q] = Nothing) =>
    (membership = "active" <=> user = "active") \/ entangled \/ staffFaults > 0
=============================================================================
