----------------------------- MODULE Memberships -----------------------------
(***************************************************************************)
(* Members and seats of an organization, changed by approved proposals:    *)
(* the operations of app/services/operational_resource_service.py and the  *)
(* onboarding and offboarding workflows of                                 *)
(* app/workplace_resources/workflows.py, with the reads that precede them. *)
(*                                                                         *)
(* A proposal is prepared (what it will change is read and shown to those  *)
(* who approve it), prepared again when it is executed, checked by its     *)
(* handler and written.  On SQLite the reads are outside the transaction,  *)
(* which begins with the first write and excludes other writers: whatever  *)
(* was read before it may be outdated.  Operations repeat the version they *)
(* have read in the WHERE clause of their UPDATE; workflows write the rows *)
(* they have loaded.  The SELECTs of one preparation are one step, there   *)
(* is one seat pool, and every user is already in the user directory.      *)
(***************************************************************************)
EXTENDS Naturals, FiniteSets

CONSTANTS
    Users,
    Proposals,
    Plans,       \* what proposals ask for
    Founding,    \* the memberships an organization may start with
    Total,       \* total_seats of its seat pool
    OldSeat,     \* the assignment it may start with
    None

Kinds == {"invite", "activate", "role", "remove", "assign", "revoke",
          "onboard", "offboard"}
Roles == {"admin", "member"}

\* role and seat are arguments of some kinds only; by has made the proposal.
Plan == [kind : Kinds, user : Users, role : Roles, seat : BOOLEAN, by : Users]

Membership == [status  : {"absent", "invited", "active", "suspended", "removed"},
               role    : Roles,
               version : Nat]
Absent == [status |-> "absent", role |-> "member", version |-> 0]

IsAdmin(row) == row.status = "active" /\ row.role = "admin"

ASSUME FoundingAssumption ==
    /\ Plans \subseteq Plan
    /\ Total \in Nat
    /\ OldSeat \notin Proposals /\ None \notin Users
    /\ IsFiniteSet(Users) /\ IsFiniteSet(Proposals)
    /\ Founding \subseteq [Users -> Membership]
    /\ \A f \in Founding :
          /\ \E u \in Users : IsAdmin(f[u])
          /\ \A u \in Users : f[u].status = "absent" => f[u] = Absent

Seats == Proposals \cup {OldSeat}

VARIABLES
    members,     \* organization_memberships, a row for each user
    seats,       \* seat_assignments: a proposal inserts at most one
    pool,        \* the version of the seat pool
    sessions,    \* the proposals and what their executions have read
    outdated     \* the kinds of the changes that were made on an outdated check

tables == <<members, seats, pool>>
vars == <<tables, sessions, outdated>>

Admins == {u \in Users : IsAdmin(members[u])}
Active == {s \in Seats : seats[s].active}
SeatsOf(u) == {s \in Active : seats[s].user = u}

-----------------------------------------------------------------------------
(* Sessions.                                                               *)

View == [row   : Membership,      \* what a preparation shows: the membership,
         seats : SUBSET Seats,    \* the active seats of the user and
         pool  : Nat]             \* the version of the pool

Session == [at    : {"none", "proposed", "revalidated", "checked", "loaded",
                     "gathered", "done", "over"},
            plan  : Plan \cup {None},
            view  : View,              \* as approved
            row   : Membership,        \* as its handler has read it
            held  : SUBSET Seats,
            dirty : BOOLEAN]           \* something has changed since the check
NoView == [row |-> Absent, seats |-> {}, pool |-> 0]
NoSession == [at |-> "none", plan |-> None, view |-> NoView, row |-> Absent,
              held |-> {}, dirty |-> FALSE]

Kind(p) == sessions[p].plan.kind
User(p) == sessions[p].plan.user
At(p, phase) == sessions[p].at = phase
Become(p, new) == sessions' = [sessions EXCEPT ![p] = new]
Workflows == {"onboard", "offboard"}

Init ==
    /\ members \in Founding
    /\ \E holder \in {None} \cup {u \in Users : members[u].status = "active"} :
           /\ holder # None => Total > 0
           /\ seats = [s \in Seats |->
                 [user |-> IF s = OldSeat THEN holder ELSE None,
                  active |-> s = OldSeat /\ holder # None]]
    /\ pool = 1
    /\ sessions = [p \in Proposals |-> NoSession]
    /\ outdated = {}

-----------------------------------------------------------------------------
(* Preparations.                                                           *)

\* Mutant: one administrator is enough.
KeepsAdminOffByOne(plan) ==
    \/ plan.user \notin Admins
    \/ plan.kind = "role" /\ plan.role = "admin"
    \/ Cardinality(Admins) >= 1

\* The last active administrator is neither demoted nor removed.
KeepsAdmin(plan) ==
    \/ plan.user \notin Admins
    \/ plan.kind = "role" /\ plan.role = "admin"
    \/ Cardinality(Admins) > 1

SeatAvailable(u) == SeatsOf(u) = {} /\ Cardinality(Active) < Total

\* Mutant: members are removed together with their seats.
RemovableWithSeat(plan) ==
    members[plan.user].status \notin {"absent", "removed"} /\ KeepsAdmin(plan)

\* Seats have to be revoked first.
Removable(plan) ==
    /\ members[plan.user].status \notin {"absent", "removed"}
    /\ SeatsOf(plan.user) = {}
    /\ KeepsAdmin(plan)

\* prepare raises when there is nothing to change or a rule forbids it.
Feasible(plan) ==
    LET row == members[plan.user]
    IN  CASE plan.kind = "invite" -> row.status = "absent"
          [] plan.kind = "activate" -> row.status = "invited"
          [] plan.kind = "role" -> /\ row.status = "active" /\ row.role # plan.role
                                   /\ KeepsAdmin(plan)
          [] plan.kind = "remove" -> Removable(plan)
          [] plan.kind = "assign" -> row.status = "active" /\ SeatAvailable(plan.user)
          [] plan.kind = "revoke" -> row.status = "active" /\ SeatsOf(plan.user) # {}
          [] plan.kind = "onboard" -> /\ row.status # "active"
                                      /\ plan.seat => SeatAvailable(plan.user)
          [] plan.kind = "offboard" -> /\ row.status \notin {"absent", "removed"}
                                       /\ KeepsAdmin(plan)

\* What a preparation compares of the membership it has read.
Shown(kind, row) ==
    CASE kind \in {"assign", "revoke"} -> Absent
      [] kind \in {"activate", "remove"} -> [row EXCEPT !.role = "member"]
      [] OTHER -> row

\* Mutant: a preparation that needs no pool has no version of it.
ViewWithoutPool(plan) ==
    [row   |-> Shown(plan.kind, members[plan.user]),
     seats |-> IF plan.kind \in {"revoke", "offboard"} THEN SeatsOf(plan.user) ELSE {},
     pool  |-> IF plan.kind = "assign" THEN pool ELSE None]

ViewOf(plan) ==
    LET held == SeatsOf(plan.user)
        usesPool == \/ plan.kind = "assign"
                    \/ plan.kind = "onboard" /\ plan.seat
                    \/ plan.kind = "offboard" /\ held # {}
    IN  [row   |-> Shown(plan.kind, members[plan.user]),
         seats |-> IF plan.kind \in {"revoke", "offboard"} THEN held ELSE {},
         pool  |-> IF usesPool THEN pool ELSE 0]

Propose(p) ==
    /\ At(p, "none")
    /\ \E plan \in Plans :
           /\ Feasible(plan)
           /\ Become(p, [NoSession EXCEPT
                 !.at = "proposed", !.plan = plan, !.view = ViewOf(plan)])
    /\ UNCHANGED <<tables, outdated>>

\* An approved proposal is executed: the action service prepares again and
\* compares; start_execution then commits.
Revalidate(p) ==
    /\ At(p, "proposed")
    /\ LET plan == sessions[p].plan
       IN  Feasible(plan) /\ ViewOf(plan) = sessions[p].view
    /\ Become(p, [sessions[p] EXCEPT !.at = "revalidated"])
    /\ UNCHANGED <<tables, outdated>>

-----------------------------------------------------------------------------
(* Executions.                                                             *)

\* Mutant: a seat is assigned whatever has happened to the others.
AnyPool(p) == TRUE

\* The precondition of assign_seat, checked before it writes and again in the
\* WHERE clause.
SamePool(p) == pool = sessions[p].view.pool

\* What the handler checks before it writes.  An operation compares versions
\* only; every active seat has version 1, so revoke takes any of them.
Ready(p) ==
    LET plan == sessions[p].plan
        view == sessions[p].view
        row == members[plan.user]
    IN  CASE plan.kind = "invite" -> row.status = "absent"
          [] plan.kind = "activate" -> TRUE
          [] plan.kind = "role" -> /\ row.version = view.row.version
                                   /\ row.status = "active" /\ KeepsAdmin(plan)
          [] plan.kind = "remove" -> /\ plan.by # plan.user
                                     /\ row.version = view.row.version
                                     /\ Feasible(plan)
          [] plan.kind = "assign" -> /\ SamePool(p)
                                     /\ Feasible(plan)
          [] plan.kind = "revoke" -> Feasible(plan)
          [] plan.kind = "onboard" -> Feasible(plan) /\ ViewOf(plan) = view
          [] plan.kind = "offboard" -> /\ plan.by # plan.user
                                       /\ Feasible(plan) /\ ViewOf(plan) = view

Check(p) ==
    /\ At(p, "revalidated") /\ Ready(p)
    /\ Become(p, [sessions[p] EXCEPT
           !.at = "checked", !.row = members[User(p)], !.held = SeatsOf(User(p))])
    /\ UNCHANGED <<tables, outdated>>

\* A workflow selects once more the rows that it is going to write, the
\* membership and then, to offboard, the seats.
Load(p) ==
    /\ At(p, "checked") /\ Kind(p) \in Workflows
    /\ Become(p, [sessions[p] EXCEPT !.at = "loaded", !.row = members[User(p)]])
    /\ UNCHANGED <<tables, outdated>>

Gather(p) ==
    /\ At(p, "loaded") /\ Kind(p) = "offboard"
    /\ Become(p, [sessions[p] EXCEPT !.at = "gathered", !.held = SeatsOf(User(p))])
    /\ UNCHANGED <<tables, outdated>>

Checked == {"checked", "loaded", "gathered"}

\* The last step of a transaction.  What the others have checked is outdated.
Commit(p) ==
    /\ sessions' = [q \in Proposals |->
          IF q = p THEN [NoSession EXCEPT !.at = "done"]
          ELSE IF sessions[q].at \in Checked THEN [sessions[q] EXCEPT !.dirty = TRUE]
          ELSE sessions[q]]
    /\ outdated' = outdated \cup IF sessions[p].dirty THEN {Kind(p)} ELSE {}

SetMember(u, row) == members' = [members EXCEPT ![u] = row]

\* Mutant: the UPDATE names only the member.
MatchesAny(p) == TRUE

\* The version in the WHERE clause of an UPDATE.
Matches(p) == members[User(p)].version = sessions[p].view.row.version

\* Mutant: no unique index.
SeatAlwaysFree(u) == TRUE

\* uq_active_seat_per_user_pool
SeatFree(u) == SeatsOf(u) = {}
AddSeat(p) == seats' = [seats EXCEPT ![p] = [user |-> User(p), active |-> TRUE]]
Revoked(held) ==
    [s \in Seats |-> IF s \in held THEN [seats[s] EXCEPT !.active = FALSE]
                     ELSE seats[s]]

Invite(p) ==
    /\ At(p, "checked") /\ Kind(p) = "invite"
    /\ members[User(p)] = Absent               \* uq_org_membership_user
    /\ SetMember(User(p), [status |-> "invited", role |-> sessions[p].plan.role,
                           version |-> 1])
    /\ Commit(p)
    /\ UNCHANGED <<seats, pool>>

Activate(p) ==
    /\ At(p, "checked") /\ Kind(p) = "activate"
    /\ Matches(p) /\ members[User(p)].status = "invited"
    /\ SetMember(User(p), [members[User(p)] EXCEPT !.status = "active",
                                                   !.version = @ + 1])
    /\ Commit(p)
    /\ UNCHANGED <<seats, pool>>

UpdateRole(p) ==
    /\ At(p, "checked") /\ Kind(p) = "role"
    /\ Matches(p) /\ members[User(p)].status = "active"
    /\ members[User(p)].role = sessions[p].row.role
    /\ SetMember(User(p), [members[User(p)] EXCEPT !.role = sessions[p].plan.role,
                                                   !.version = @ + 1])
    /\ Commit(p)
    /\ UNCHANGED <<seats, pool>>

RemoveMember(p) ==
    /\ At(p, "checked") /\ Kind(p) = "remove"
    /\ Matches(p)
    /\ SetMember(User(p), [members[User(p)] EXCEPT !.status = "removed",
                                                   !.version = @ + 1])
    /\ Commit(p)
    /\ UNCHANGED <<seats, pool>>

AssignSeat(p) ==
    /\ At(p, "checked") /\ Kind(p) = "assign"
    /\ SamePool(p)
    /\ SeatFree(User(p)) /\ AddSeat(p)
    /\ pool' = pool + 1
    /\ Commit(p)
    /\ UNCHANGED members

RevokeSeat(p) ==
    /\ At(p, "checked") /\ Kind(p) = "revoke"
    /\ \E s \in sessions[p].held \cap Active : seats' = Revoked({s})
    /\ pool' = pool + 1
    /\ Commit(p)
    /\ UNCHANGED members

\* The unit of work writes the columns that differ from what was loaded.
Overwrite(row, loaded, new) ==
    [row EXCEPT !.status = IF new.status = loaded.status THEN @ ELSE new.status,
                !.role = IF new.role = loaded.role THEN @ ELSE new.role,
                !.version = loaded.version + 1]

Onboard(p) ==
    LET u == User(p)
        plan == sessions[p].plan
        loaded == sessions[p].row
        new == [status |-> "active", role |-> plan.role, version |-> 1]
    IN  /\ At(p, "loaded") /\ Kind(p) = "onboard"
        /\ IF loaded = Absent
           THEN members[u] = Absent /\ SetMember(u, new)
           ELSE SetMember(u, Overwrite(members[u], loaded, new))
        /\ IF plan.seat THEN SeatFree(u) /\ AddSeat(p) /\ pool' = pool + 1
                        ELSE UNCHANGED <<seats, pool>>
        /\ Commit(p)

Offboard(p) ==
    LET u == User(p)
        loaded == sessions[p].row
        held == sessions[p].held
    IN  /\ At(p, "gathered") /\ Kind(p) = "offboard"
        /\ SetMember(u, Overwrite(members[u], loaded,
                                  [loaded EXCEPT !.status = "removed"]))
        /\ seats' = Revoked(held)
        /\ pool' = IF held = {} THEN pool ELSE pool + 1
        /\ Commit(p)

\* A comparison that fails, an exception or a crash: nothing is written.
Fail(p) ==
    /\ sessions[p].at \in {"proposed", "revalidated"} \cup Checked
    /\ Become(p, [NoSession EXCEPT !.at = "over"])
    /\ UNCHANGED <<tables, outdated>>

Execute(p) ==
    \/ Invite(p) \/ Activate(p) \/ UpdateRole(p) \/ RemoveMember(p)
    \/ AssignSeat(p) \/ RevokeSeat(p) \/ Onboard(p) \/ Offboard(p)

Next ==
    \E p \in Proposals :
        \/ Propose(p) \/ Revalidate(p) \/ Check(p) \/ Load(p) \/ Gather(p)
        \/ Execute(p) \/ Fail(p)

Spec == Init /\ [][Next]_vars

-----------------------------------------------------------------------------
(* Properties.                                                             *)

\* Types of the tables, of the sessions and of what they have read.
TypeOK ==
    /\ members \in [Users -> Membership]
    /\ seats \in [Seats -> [user : Users \cup {None}, active : BOOLEAN]]
    /\ pool \in Nat
    /\ sessions \in [Proposals -> Session]
    /\ outdated \subseteq Kinds

\* A user never holds two active seats, however assign_seat, revoke_seat and
\* the two workflows overlap.
OneSeat ==
    \A s, t \in Active : seats[s].user = seats[t].user => s = t

\* The organization keeps an active administrator as long as no change to a
\* role or a membership was made on an outdated check: the rule that three
\* preparations state is enough for executions that do not overlap, and
\* overlapping changes of the other kinds never break it.
AdminRemains ==
    outdated \cap {"role", "remove", "offboard", "onboard"} = {} => Admins # {}

\* Operational changes never assign more seats than the pool has, however
\* they overlap: assign_seat compares the version of the pool that every
\* change of its seats advances.  Only an onboarding on an outdated check can.
SeatsWithinPool ==
    "onboard" \notin outdated => Cardinality(Active) <= Total

\* Whoever holds a seat is an active member, unless a change to a seat or a
\* removal was made on an outdated check.
SeatedMembersActive ==
    outdated \cap {"assign", "remove", "onboard", "offboard"} = {} =>
        \A s \in Active : members[seats[s].user].status = "active"

\* A membership is overwritten only as it was shown to those who approved the
\* change: versions detect every change in between, also for overlapping
\* executions, unless a workflow has written a row on an outdated check.
ReviewedRow ==
    [][\A p \in Proposals :
          LET u == User(p)
          IN  sessions'[p].at = "done" /\ sessions[p].at # "done"
              /\ Kind(p) \notin {"assign", "revoke"}
              /\ outdated' \cap Workflows = {}
                => Shown(Kind(p), members[u]) = sessions[p].view.row]_vars

\* docs/WORKPLACE_WORKFLOWS.md: removal of the last active administrator is
\* blocked.
LastAdminKept == Admins # {}
=============================================================================
