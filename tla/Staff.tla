------------------------------- MODULE Staff -------------------------------
(***************************************************************************)
(* Employee accounts: who holds which role, who is active, who reports to  *)
(* whom, and what a session may do about it.  A session has a door, and a  *)
(* role may sleep behind the wrong one: an administrator who signed in at  *)
(* the ordinary door is not one there.  What the roles in force permit is  *)
(* the permission matrix's to say, box by box; a box stands for the four   *)
(* actions of a module.                                                    *)
(***************************************************************************)
EXTENDS Naturals

CONSTANTS Staff, Founder, Nobody,
          Roles,    \* the roles besides the base role, among them Admin
          Boxes,    \* the boxes <<role, module>> of the matrix an instance changes
          Team,     \* Team[p]: the people in the units p heads
          MaxDepth  \* HierarchyService.MAX_DEPTH

Admin == "tenant_admin"
Base == "employee"
StaffDoors == {"employee", "admin", "finance"}
Administration == {"employees", "organization", "settings"}
Operations == {"schedules", "leave", "finances", "reports"}
DoorRole == [admin |-> Admin, finance |-> "finance"]
DoorRoles == {Admin, "finance"}
FullScope == {Admin, "hr", "finance"}

ASSUME StaffAssumption ==
    /\ Founder \in Staff /\ Nobody \notin Staff
    /\ FullScope \subseteq Roles /\ Base \notin Roles
    /\ Boxes \subseteq (Roles \union {Base}) \X (Administration \union Operations)
    /\ Team \in [Staff -> SUBSET Staff]
    /\ MaxDepth \in Nat

VARIABLES employment,   \* employment[p]: users.is_active, or no row yet
          holds,     \* holds[p]: the roles stored for p, the base role aside
          manager,   \* manager[p]: users.reports_to_id
          ticked,    \* the boxes of the permission matrix that are ticked
          asked      \* the person and the door of the request last carried out

staffVars == <<employment, holds, manager, ticked, asked>>

StaffTypeOK ==
    /\ employment \in [Staff -> {"none", "active", "inactive"}]
    /\ holds \in [Staff -> SUBSET Roles]
    /\ manager \in [Staff -> Staff \union {Nobody}]
    /\ ticked \subseteq (Roles \union {Base}) \X (Administration \union Operations)
    /\ asked \in [by : Staff, door : StaffDoors]

\* DEFAULT_PERMISSIONS, as far as these modules go: hr runs the operations and
\* the people, finance the finances.  The administrator's row is never read
\* for a module of administration.
Seeded == {<<"hr", "employees">>, <<"hr", "schedules">>, <<"finance", "finances">>}

StaffInit ==
    /\ employment = [p \in Staff |-> IF p = Founder THEN "active" ELSE "none"]
    /\ holds = [p \in Staff |-> IF p = Founder THEN {Admin} ELSE {}]
    /\ manager = [p \in Staff |-> Nobody]
    /\ ticked = Seeded
    /\ asked = [by |-> Founder, door |-> "admin"]

\* A slip: the stored roles answer, asleep or not.
AwakeEverywhere(stored, door) == stored \union {Base}

\* roles_in_force: behind a privileged door only that door's role is awake,
\* in front of it every role but theirs.
RoleInForce(stored, door) ==
    IF door = "employee" THEN (stored \ DoorRoles) \union {Base}
                         ELSE (stored \intersect {DoorRole[door]}) \union {Base}

\* is_eligible: a door opens to those who hold its role.
SignedInAs(p, door) ==
    /\ employment[p] = "active"
    /\ door # "employee" => DoorRole[door] \in holds[p]

\* matrix_role_ids: whose boxes count for a module in this request.
Counting(p, door, module) ==
    IF module = "finances" /\ door # "finance" THEN {}
    ELSE IF module \in Operations THEN RoleInForce(holds[p], door) \ {Admin}
    ELSE RoleInForce(holds[p], door)

\* admin_bypasses, user_can.
Can(p, door, module) ==
    \/ module \in Administration /\ Admin \in RoleInForce(holds[p], door)
    \/ \E r \in Counting(p, door, module) : <<r, module>> \in ticked

\* assert_manages: roles of full scope act on everyone, others on their team.
Reaches(a, door, p) == RoleInForce(holds[a], door) \intersect FullScope # {} \/ p \in Team[a] \union {a}

Asks(a, door) == SignedInAs(a, door) /\ asked' = [by |-> a, door |-> door]

ActiveAdmins == {p \in Staff : employment[p] = "active" /\ Admin \in holds[p]}

\* validate_reports_to: the walk up from m, at most MaxDepth managers high.
LeadsBackTo(p, m) ==
    LET above[n \in Nat] ==
            IF n = 0 THEN m ELSE IF above[n - 1] = Nobody THEN Nobody ELSE manager[above[n - 1]]
    IN p = m \/ \E n \in 1..MaxDepth : above[n] = p

MayReportTo(p, m) == m # Nobody => employment[m] # "none" /\ ~LeadsBackTo(p, m)

\* assert_may_grant, assert_may_revoke, assert_may_change_own_roles,
\* assert_may_remove_admin_role.
MaySetRoles(a, door, p, wanted) ==
    LET changed == (wanted \ holds[p]) \union (holds[p] \ wanted) IN
    /\ Admin \in changed => Admin \in RoleInForce(holds[a], door)
    /\ a = p /\ changed # {} => Admin \notin changed /\ door = "admin"
    /\ Admin \in holds[p] \ wanted /\ employment[p] = "active" => ActiveAdmins \ {p} # {}

CreateUser(a, door, p) ==
    /\ employment[p] = "none"
    /\ Asks(a, door) /\ Can(a, door, "employees")
    /\ \E roles \in SUBSET Roles, m \in Staff \union {Nobody} :
        /\ Admin \in roles => Admin \in RoleInForce(holds[a], door)
        /\ m # Nobody => employment[m] # "none"
        /\ holds' = [holds EXCEPT ![p] = roles]
        /\ manager' = [manager EXCEPT ![p] = m]
    /\ employment' = [employment EXCEPT ![p] = "active"]
    /\ UNCHANGED ticked

\* The employee form, a row of the bulk edit or of the imported file: roles
\* and the line manager, all or nothing.
UpdateUser(a, door, p) ==
    /\ employment[p] # "none"
    /\ Asks(a, door) /\ Can(a, door, "employees") /\ Reaches(a, door, p)
    /\ \E wanted \in SUBSET Roles, m \in Staff \union {Nobody} :
        /\ MaySetRoles(a, door, p, wanted)
        /\ m # manager[p] => MayReportTo(p, m)
        /\ holds' = [holds EXCEPT ![p] = wanted]
        /\ manager' = [manager EXCEPT ![p] = m]
    /\ UNCHANGED <<employment, ticked>>

\* assert_may_change_active_status.
MayChangeStatus(a, door, p) ==
    a # p /\ (Admin \in holds[p] => Admin \in RoleInForce(holds[a], door))

SeparateEmployee(a, door, p) ==
    /\ employment[p] = "active"
    /\ Asks(a, door) /\ Can(a, door, "employees") /\ Reaches(a, door, p)
    /\ MayChangeStatus(a, door, p)
    /\ Admin \in holds[p] => ActiveAdmins \ {p} # {}
    /\ employment' = [employment EXCEPT ![p] = "inactive"]
    /\ UNCHANGED <<holds, manager, ticked>>

ReinstateEmployee(a, door, p) ==
    /\ employment[p] = "inactive"
    /\ Asks(a, door) /\ Can(a, door, "employees") /\ Reaches(a, door, p)
    /\ MayChangeStatus(a, door, p)
    /\ employment' = [employment EXCEPT ![p] = "active"]
    /\ UNCHANGED <<holds, manager, ticked>>

UpdateRolePermissions(a, door, box) ==
    /\ Asks(a, door) /\ Admin \in RoleInForce(holds[a], door)
    /\ ticked' = IF box \in ticked THEN ticked \ {box} ELSE ticked \union {box}
    /\ UNCHANGED <<employment, holds, manager>>

StaffNext ==
    \E a \in Staff, door \in StaffDoors :
        \/ \E p \in Staff : \/ CreateUser(a, door, p)
                            \/ UpdateUser(a, door, p)
                            \/ SeparateEmployee(a, door, p)
                            \/ ReinstateEmployee(a, door, p)
        \/ \E box \in Boxes : UpdateRolePermissions(a, door, box)

StaffSpec == StaffInit /\ [][StaffNext]_staffVars
-----------------------------------------------------------------------------
\* "Administration is not operations": whatever boxes somebody ticks on the
\* administrator's row, a person who is an administrator and nothing else runs
\* none of the operations, through no door; and nobody touches the finances
\* but through the finance door.  (Boxes of the base role are everybody's.)
DutiesStayApart ==
    \A p \in Staff, door \in StaffDoors, module \in Operations :
        SignedInAs(p, door) /\ Can(p, door, module) =>
            /\ <<Base, module>> \notin ticked => holds[p] # {Admin}
            /\ module = "finances" => door = "finance" /\ "finance" \in holds[p]

IsAdmin(p) == employment[p] = "active" /\ Admin \in holds[p]

\* Who is an administrator is only ever changed by another administrator, from
\* the admin dashboard: neither hr nor an administrator at the ordinary door
\* makes, unmakes, lets go or takes back one.
MadeByOthers ==
    \A p \in Staff : IsAdmin(p) # IsAdmin(p)' =>
        \E by \in Staff \ {p} : /\ asked' = [by |-> by, door |-> "admin"]
                                /\ IsAdmin(by) /\ IsAdmin(by)'

AdministratorsAreMadeByOthers == [][MadeByOthers]_staffVars

\* assert_valid_reports_to: line managers never form a circle, in which
\* approval chains and org charts would walk forever: in any group there is
\* somebody whose manager is not of it.
NobodyReportsInACircle ==
    \A group \in (SUBSET Staff) \ {{}} : \E p \in group : manager[p] \notin group

\* Administration, the operations and the finances stay in different
\* hands, whatever boxes and roles are changed by whom.
PowersStayApart ==
    [](StaffTypeOK /\ DutiesStayApart /\ NobodyReportsInACircle) /\ AdministratorsAreMadeByOthers
=============================================================================
