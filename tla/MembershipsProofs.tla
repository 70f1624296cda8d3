-------------------------- MODULE MembershipsProofs --------------------------
(* Theorems about Memberships, for any users, proposals, plans and pool.    *)
EXTENDS Memberships, FiniteSetTheorems, TLAPS

-----------------------------------------------------------------------------
(* Types.  TypeOK is inductive together with the fact that a session which  *)
(* has begun and is not over has a plan.                                    *)

Live == {"proposed", "revalidated"} \cup Checked

Planned == \A p \in Proposals : sessions[p].at \in Live => sessions[p].plan \in Plan

TypeInv == TypeOK /\ Planned

LEMMA AbsentTyped == Absent \in Membership
  BY DEF Absent, Membership, Roles

LEMMA NoSessionTyped ==
    /\ NoSession \in Session
    /\ NoSession.at = "none" /\ ~NoSession.dirty
  <1>1. NoView \in View
    BY AbsentTyped DEF NoView, View
  <1> QED
    BY <1>1, AbsentTyped DEF NoSession, Session

LEMMA InitTyped == Init => TypeInv
<1> SUFFICES ASSUME Init PROVE TypeInv
  OBVIOUS
<1>1. members \in [Users -> Membership]
  BY FoundingAssumption DEF Init
<1>2. seats \in [Seats -> [user : Users \cup {None}, active : BOOLEAN]]
  <2>1. PICK holder \in {None} \cup {u \in Users : members[u].status = "active"} :
            seats = [s \in Seats |->
                       [user |-> IF s = OldSeat THEN holder ELSE None,
                        active |-> s = OldSeat /\ holder # None]]
    BY DEF Init
  <2>2. holder \in Users \cup {None}
    OBVIOUS
  <2> QED
    BY <2>1, <2>2
<1>3. sessions \in [Proposals -> Session]
  BY NoSessionTyped DEF Init
<1>4. Planned
  BY NoSessionTyped DEF Init, Planned, Live, Checked
<1> QED
  BY <1>1, <1>2, <1>3, <1>4 DEF Init, TypeInv, TypeOK

\* A step that changes one session only.
LEMMA BecomeTyped ==
    ASSUME TypeInv, NEW p \in Proposals, NEW new \in Session,
           new.at \in Live => new.plan \in Plan,
           Become(p, new), UNCHANGED <<tables, outdated>>
    PROVE  TypeInv'
  BY DEF TypeInv, TypeOK, Planned, Become, tables

LEMMA ShownTyped ==
    ASSUME NEW kind \in Kinds, NEW row \in Membership
    PROVE  Shown(kind, row) \in Membership
<1> DEFINE plain == [row EXCEPT !.role = "member"]
<1>1. plain \in Membership
  BY DEF Membership, Roles
<1> HIDE DEF plain
<1>2. Shown(kind, row) \in {Absent, plain, row}
  BY DEF Shown, plain, Kinds
<1> QED
  BY <1>1, <1>2, AbsentTyped

LEMMA ViewTyped ==
    ASSUME TypeOK, NEW plan \in Plan
    PROVE  ViewOf(plan) \in View
<1>1. plan.user \in Users /\ plan.kind \in Kinds
  BY DEF Plan
<1>2. Shown(plan.kind, members[plan.user]) \in Membership
  BY <1>1, ShownTyped DEF TypeOK
<1>3. SeatsOf(plan.user) \subseteq Seats
  BY DEF SeatsOf, Active
<1> QED
  BY <1>2, <1>3 DEF ViewOf, View, TypeOK

LEMMA CommitTyped ==
    ASSUME TypeInv, NEW p \in Proposals, sessions[p].at \in Live, Commit(p),
           members' \in [Users -> Membership],
           seats' \in [Seats -> [user : Users \cup {None}, active : BOOLEAN]],
           pool' \in Nat
    PROVE  TypeInv'
<1> DEFINE ended == [NoSession EXCEPT !.at = "done"]
           marked(q) == [sessions[q] EXCEPT !.dirty = TRUE]
<1>1. ended \in Session /\ ended.at = "done"
  BY NoSessionTyped DEF Session, NoSession
<1>2. ASSUME NEW q \in Proposals
      PROVE  /\ marked(q) \in Session
             /\ marked(q).at = sessions[q].at /\ marked(q).plan = sessions[q].plan
  <2>1. sessions[q] \in Session
    BY DEF TypeInv, TypeOK
  <2> QED
    BY <2>1 DEF Session
<1>3. sessions' = [q \in Proposals |->
          IF q = p THEN ended
          ELSE IF sessions[q].at \in Checked THEN marked(q) ELSE sessions[q]]
  BY DEF Commit
<1> HIDE DEF ended, marked
<1>4. sessions' \in [Proposals -> Session]
  BY <1>1, <1>2, <1>3 DEF TypeInv, TypeOK
<1>5. Planned'
  <2> SUFFICES ASSUME NEW q \in Proposals, sessions'[q].at \in Live
               PROVE  sessions'[q].plan \in Plan
    BY DEF Planned
  <2>1. q # p
    BY <1>1, <1>3 DEF Live, Checked
  <2>2. sessions'[q].plan = sessions[q].plan /\ sessions'[q].at = sessions[q].at
    BY <1>2, <1>3, <2>1
  <2> QED
    BY <2>2 DEF TypeInv, Planned
<1>6. outdated' \subseteq Kinds
  <2>1. Kind(p) \in Kinds
    BY DEF TypeInv, Planned, Kind, Plan
  <2> QED
    BY <2>1 DEF Commit, TypeInv, TypeOK
<1> QED
  BY <1>4, <1>5, <1>6 DEF TypeInv, TypeOK

-----------------------------------------------------------------------------
(* What the writes do to the tables.                                        *)

Moved(row, status) == [row EXCEPT !.status = status, !.version = @ + 1]
Recast(row, role) == [row EXCEPT !.role = role, !.version = @ + 1]

LEMMA RowsTyped ==
    ASSUME NEW row \in Membership
    PROVE  /\ \A status \in {"active", "removed"} :
                 /\ Moved(row, status) \in Membership
                 /\ Moved(row, status).status = status
                 /\ Moved(row, status).role = row.role
                 /\ Moved(row, status).version = row.version + 1
           /\ \A role \in Roles :
                 /\ Recast(row, role) \in Membership
                 /\ Recast(row, role).status = row.status
                 /\ Recast(row, role).role = role
                 /\ Recast(row, role).version = row.version + 1
<1>1. row.version \in Nat /\ row.version + 1 \in Nat
  BY DEF Membership
<1> DEFINE next == row.version + 1
<1>2. next \in Nat
  BY <1>1
<1> HIDE DEF next
<1>3. ASSUME NEW status \in {"active", "removed"}
      PROVE  /\ [row EXCEPT !.status = status, !.version = next] \in Membership
             /\ [row EXCEPT !.status = status, !.version = next].status = status
             /\ [row EXCEPT !.status = status, !.version = next].role = row.role
             /\ [row EXCEPT !.status = status, !.version = next].version = next
  BY <1>2 DEF Membership
<1>4. ASSUME NEW role \in Roles
      PROVE  /\ [row EXCEPT !.role = role, !.version = next] \in Membership
             /\ [row EXCEPT !.role = role, !.version = next].status = row.status
             /\ [row EXCEPT !.role = role, !.version = next].role = role
             /\ [row EXCEPT !.role = role, !.version = next].version = next
  BY <1>2 DEF Membership
<1> QED
  BY <1>3, <1>4 DEF Moved, Recast, next

LEMMA OverwriteTyped ==
    ASSUME NEW row \in Membership, NEW loaded \in Membership, NEW new \in Membership
    PROVE  /\ Overwrite(row, loaded, new) \in Membership
           /\ Overwrite(row, loaded, new).version = loaded.version + 1
           /\ Overwrite(row, loaded, new).status \in {row.status, new.status}
           /\ row = loaded => /\ Overwrite(row, loaded, new).status = new.status
                              /\ Overwrite(row, loaded, new).role = new.role
<1> DEFINE next == loaded.version + 1
           status == IF new.status = loaded.status THEN row.status ELSE new.status
           role == IF new.role = loaded.role THEN row.role ELSE new.role
           over == [row EXCEPT !.status = status, !.role = role, !.version = next]
<1>1. next \in Nat
  BY DEF Membership
<1>2. /\ status \in {"absent", "invited", "active", "suspended", "removed"}
      /\ status \in {row.status, new.status} /\ role \in Roles
  BY DEF Membership
<1>3. row = loaded => status = new.status /\ role = new.role
  OBVIOUS
<1>4. Overwrite(row, loaded, new) = over
  BY DEF Overwrite
<1> HIDE DEF next, status, role
<1>5. over \in Membership /\ over.status = status /\ over.role = role /\ over.version = next
  BY <1>1, <1>2 DEF Membership
<1> QED
  BY <1>2, <1>3, <1>4, <1>5 DEF next

\* The membership that a committed write leaves behind, if it writes one.
Written(p) ==
    LET row == members[User(p)]
        loaded == sessions[p].row
        plan == sessions[p].plan
        hired == [status |-> "active", role |-> plan.role, version |-> 1]
    IN  CASE Kind(p) = "invite" -> [status |-> "invited", role |-> plan.role,
                                    version |-> 1]
          [] Kind(p) = "activate" -> Moved(row, "active")
          [] Kind(p) = "role" -> Recast(row, plan.role)
          [] Kind(p) = "remove" -> Moved(row, "removed")
          [] Kind(p) = "onboard" -> IF loaded = Absent THEN hired
                                    ELSE Overwrite(row, loaded, hired)
          [] Kind(p) = "offboard" -> Overwrite(row, loaded,
                                               [loaded EXCEPT !.status = "removed"])
          [] OTHER -> row

SeatsKept == seats' = seats /\ pool' = pool
SeatAdded(p) == SeatFree(User(p)) /\ AddSeat(p) /\ pool' = pool + 1
SeatsRevoked(held) == seats' = Revoked(held) /\ pool' = pool + 1

LEMMA LivePlan ==
    ASSUME TypeInv, NEW p \in Proposals, sessions[p].at \in Live
    PROVE  /\ sessions[p] \in Session
           /\ sessions[p].plan \in Plan
           /\ User(p) \in Users /\ Kind(p) \in Kinds
           /\ sessions[p].plan.role \in Roles
           /\ members[User(p)] \in Membership
           /\ sessions[p].row \in Membership
           /\ sessions[p].held \subseteq Seats
  BY DEF TypeInv, TypeOK, Planned, Session, Plan, User, Kind

\* The kinds of the writes, and what each of them does to a membership.
LEMMA ExecuteWrites ==
    ASSUME TypeInv, NEW p \in Proposals, Execute(p)
    PROVE  /\ Commit(p)
           /\ sessions[p].at \in Checked
           /\ members' = [members EXCEPT ![User(p)] = Written(p)]
           /\ Written(p) \in Membership
<1>0. sessions[p].at \in Checked
  BY DEF Execute, Invite, Activate, UpdateRole, RemoveMember, AssignSeat,
         RevokeSeat, Onboard, Offboard, At, Checked
<1>1. sessions[p].at \in Live
  BY <1>0 DEF Live
<1>2. /\ sessions[p] \in Session /\ sessions[p].plan \in Plan
      /\ User(p) \in Users /\ sessions[p].plan.role \in Roles
      /\ members[User(p)] \in Membership /\ sessions[p].row \in Membership
  BY <1>1, LivePlan
<1>3. members \in [Users -> Membership]
  BY DEF TypeInv, TypeOK
<1> DEFINE row == members[User(p)]
           loaded == sessions[p].row
           invited == [status |-> "invited", role |-> sessions[p].plan.role, version |-> 1]
           hired == [status |-> "active", role |-> sessions[p].plan.role, version |-> 1]
           gone == [loaded EXCEPT !.status = "removed"]
<1>4. invited \in Membership /\ hired \in Membership /\ gone \in Membership
  BY <1>2 DEF Membership
<1>5. CASE Invite(p)
  <2>1. Written(p) = invited
    BY <1>5 DEF Invite, Written
  <2> QED
    BY <1>0, <1>4, <1>5, <2>1 DEF Invite, SetMember
<1>6. CASE Activate(p)
  <2>1. Written(p) = Moved(row, "active")
    BY <1>6 DEF Activate, Written
  <2>2. members' = [members EXCEPT ![User(p)] = Moved(row, "active")]
    BY <1>6 DEF Activate, SetMember, Moved
  <2> QED
    BY <1>0, <1>2, <1>6, <2>1, <2>2, RowsTyped DEF Activate
<1>7. CASE UpdateRole(p)
  <2>1. Written(p) = Recast(row, sessions[p].plan.role)
    BY <1>7 DEF UpdateRole, Written
  <2>2. members' = [members EXCEPT ![User(p)] = Recast(row, sessions[p].plan.role)]
    BY <1>7 DEF UpdateRole, SetMember, Recast
  <2> QED
    BY <1>0, <1>2, <1>7, <2>1, <2>2, RowsTyped DEF UpdateRole
<1>8. CASE RemoveMember(p)
  <2>1. Written(p) = Moved(row, "removed")
    BY <1>8 DEF RemoveMember, Written
  <2>2. members' = [members EXCEPT ![User(p)] = Moved(row, "removed")]
    BY <1>8 DEF RemoveMember, SetMember, Moved
  <2> QED
    BY <1>0, <1>2, <1>8, <2>1, <2>2, RowsTyped DEF RemoveMember
<1>9. CASE AssignSeat(p) \/ RevokeSeat(p)
  <2>1. Written(p) = row
    BY <1>9 DEF AssignSeat, RevokeSeat, Written
  <2>2. members' = members
    BY <1>9 DEF AssignSeat, RevokeSeat
  <2> QED
    BY <1>0, <1>2, <1>3, <1>9, <2>1, <2>2 DEF AssignSeat, RevokeSeat
<1>10. CASE Onboard(p)
  <2>1. Written(p) = IF loaded = Absent THEN hired ELSE Overwrite(row, loaded, hired)
    BY <1>10 DEF Onboard, Written
  <2>2. Overwrite(row, loaded, hired) \in Membership
    BY <1>2, <1>4, OverwriteTyped
  <2>3. members' = [members EXCEPT ![User(p)] = Written(p)]
    BY <1>10, <2>1 DEF Onboard, SetMember
  <2> QED
    BY <1>0, <1>4, <1>10, <2>1, <2>2, <2>3 DEF Onboard
<1>11. CASE Offboard(p)
  <2>1. Written(p) = Overwrite(row, loaded, gone)
    BY <1>11 DEF Offboard, Written
  <2>2. Overwrite(row, loaded, gone) \in Membership
    BY <1>2, <1>4, OverwriteTyped
  <2>3. members' = [members EXCEPT ![User(p)] = Written(p)]
    BY <1>11, <2>1 DEF Offboard, SetMember
  <2> QED
    BY <1>0, <1>11, <2>1, <2>2, <2>3 DEF Offboard
<1> QED
  BY <1>5, <1>6, <1>7, <1>8, <1>9, <1>10, <1>11 DEF Execute

\* Seats are kept, or one is added for a user who has none, or some are
\* revoked; the version of the pool advances whenever they change.
LEMMA ExecuteSeats ==
    ASSUME TypeInv, NEW p \in Proposals, Execute(p)
    PROVE  \/ SeatsKept
           \/ SeatAdded(p) /\ Kind(p) = "assign" /\ SamePool(p)
           \/ SeatAdded(p) /\ Kind(p) = "onboard" /\ sessions[p].plan.seat
           \/ \E held \in SUBSET Seats : SeatsRevoked(held)
<1>0. sessions[p].at \in Live
  BY DEF Execute, Invite, Activate, UpdateRole, RemoveMember, AssignSeat,
         RevokeSeat, Onboard, Offboard, At, Checked, Live
<1>1. sessions[p].held \subseteq Seats
  BY <1>0, LivePlan
<1>2. seats = [s \in Seats |-> seats[s]]
  BY DEF TypeInv, TypeOK
<1>3. CASE Invite(p) \/ Activate(p) \/ UpdateRole(p) \/ RemoveMember(p)
  BY <1>3 DEF Invite, Activate, UpdateRole, RemoveMember, SeatsKept
<1>4. CASE AssignSeat(p)
  BY <1>4 DEF AssignSeat, SeatAdded
<1>5. CASE RevokeSeat(p)
  <2>1. \E s \in Seats : seats' = Revoked({s})
    BY <1>5 DEF RevokeSeat, Active
  <2>2. pool' = pool + 1
    BY <1>5 DEF RevokeSeat
  <2> QED
    BY <2>1, <2>2 DEF SeatsRevoked
<1>6. CASE Onboard(p)
  BY <1>6 DEF Onboard, SeatAdded, SeatsKept
<1>7. CASE Offboard(p)
  <2>1. CASE sessions[p].held = {}
    <3>1. Revoked({}) = [s \in Seats |-> seats[s]]
      BY DEF Revoked
    <3> QED
      BY <1>2, <1>7, <2>1, <3>1 DEF Offboard, SeatsKept
  <2>2. CASE sessions[p].held # {}
    BY <1>1, <1>7, <2>2 DEF Offboard, SeatsRevoked
  <2> QED
    BY <2>1, <2>2
<1> QED
  BY <1>3, <1>4, <1>5, <1>6, <1>7 DEF Execute

LEMMA SeatsTyped ==
    ASSUME TypeInv, NEW p \in Proposals, Execute(p)
    PROVE  /\ seats' \in [Seats -> [user : Users \cup {None}, active : BOOLEAN]]
           /\ pool' \in Nat
<1>0. sessions[p].at \in Live
  BY ExecuteWrites DEF Live
<1>1. User(p) \in Users /\ p \in Seats
  BY <1>0, LivePlan DEF Seats
<1>2. CASE SeatsKept
  BY <1>2 DEF SeatsKept, TypeInv, TypeOK
<1>3. CASE SeatAdded(p)
  BY <1>1, <1>3 DEF SeatAdded, AddSeat, TypeInv, TypeOK
<1>4. ASSUME NEW held \in SUBSET Seats, SeatsRevoked(held)
      PROVE  /\ seats' \in [Seats -> [user : Users \cup {None}, active : BOOLEAN]]
             /\ pool' \in Nat
  <2>1. \A s \in Seats : [seats[s] EXCEPT !.active = FALSE]
                            \in [user : Users \cup {None}, active : BOOLEAN]
    BY DEF TypeInv, TypeOK
  <2> QED
    BY <1>4, <2>1 DEF SeatsRevoked, Revoked, TypeInv, TypeOK
<1> QED
  BY <1>2, <1>3, <1>4, ExecuteSeats

LEMMA ExecuteTyped ==
    ASSUME TypeInv, NEW p \in Proposals, Execute(p)
    PROVE  TypeInv'
<1>1. members' \in [Users -> Membership]
  BY ExecuteWrites DEF TypeInv, TypeOK
<1>2. sessions[p].at \in Live
  BY ExecuteWrites DEF Live
<1> QED
  BY <1>1, <1>2, ExecuteWrites, SeatsTyped, CommitTyped

\* What the steps that write nothing make of a session.
LEMMA QuietTyped ==
    ASSUME TypeInv, NEW p \in Proposals
    PROVE  /\ Propose(p) => TypeInv'
           /\ Revalidate(p) => TypeInv'
           /\ Check(p) => TypeInv'
           /\ Load(p) => TypeInv'
           /\ Gather(p) => TypeInv'
           /\ Fail(p) => TypeInv'
<1>0. sessions[p] \in Session
  BY DEF TypeInv, TypeOK
<1>1. ASSUME Propose(p) PROVE TypeInv'
  <2>1. PICK plan \in Plans : Become(p, [NoSession EXCEPT
            !.at = "proposed", !.plan = plan, !.view = ViewOf(plan)])
    BY <1>1 DEF Propose
  <2>2. plan \in Plan /\ ViewOf(plan) \in View
    BY FoundingAssumption, ViewTyped DEF TypeInv
  <2> DEFINE new == [NoSession EXCEPT
            !.at = "proposed", !.plan = plan, !.view = ViewOf(plan)]
  <2>3. new \in Session /\ new.plan \in Plan
    BY <2>2, NoSessionTyped DEF Session
  <2>4. Become(p, new) /\ UNCHANGED <<tables, outdated>>
    BY <1>1, <2>1 DEF Propose
  <2> HIDE DEF new
  <2> QED
    BY <2>3, <2>4, BecomeTyped
<1>2. ASSUME Revalidate(p) PROVE TypeInv'
  <2> DEFINE new == [sessions[p] EXCEPT !.at = "revalidated"]
  <2>1. new \in Session /\ new.plan = sessions[p].plan
    BY <1>0 DEF Session
  <2>2. sessions[p].plan \in Plan
    BY <1>2 DEF Revalidate, At, TypeInv, Planned, Live
  <2>3. Become(p, new) /\ UNCHANGED <<tables, outdated>>
    BY <1>2 DEF Revalidate
  <2> HIDE DEF new
  <2> QED
    BY <2>1, <2>2, <2>3, BecomeTyped
<1>3. ASSUME Check(p) PROVE TypeInv'
  <2> DEFINE new == [sessions[p] EXCEPT
           !.at = "checked", !.row = members[User(p)], !.held = SeatsOf(User(p))]
  <2>1. sessions[p].at \in Live
    BY <1>3 DEF Check, At, Live
  <2>2. sessions[p].plan \in Plan /\ members[User(p)] \in Membership
    BY <2>1, LivePlan
  <2>3. SeatsOf(User(p)) \in SUBSET Seats
    BY DEF SeatsOf, Active
  <2>4. new \in Session /\ new.plan = sessions[p].plan
    BY <1>0, <2>2, <2>3 DEF Session
  <2>5. Become(p, new) /\ UNCHANGED <<tables, outdated>>
    BY <1>3 DEF Check
  <2> HIDE DEF new
  <2> QED
    BY <2>2, <2>4, <2>5, BecomeTyped
<1>4. ASSUME Load(p) PROVE TypeInv'
  <2> DEFINE new == [sessions[p] EXCEPT !.at = "loaded", !.row = members[User(p)]]
  <2>1. sessions[p].at \in Live
    BY <1>4 DEF Load, At, Live, Checked
  <2>2. sessions[p].plan \in Plan /\ members[User(p)] \in Membership
    BY <2>1, LivePlan
  <2>3. new \in Session /\ new.plan = sessions[p].plan
    BY <1>0, <2>2 DEF Session
  <2>4. Become(p, new) /\ UNCHANGED <<tables, outdated>>
    BY <1>4 DEF Load
  <2> HIDE DEF new
  <2> QED
    BY <2>2, <2>3, <2>4, BecomeTyped
<1>5. ASSUME Gather(p) PROVE TypeInv'
  <2> DEFINE new == [sessions[p] EXCEPT !.at = "gathered", !.held = SeatsOf(User(p))]
  <2>1. sessions[p].at \in Live
    BY <1>5 DEF Gather, At, Live, Checked
  <2>2. sessions[p].plan \in Plan
    BY <2>1, LivePlan
  <2>3. SeatsOf(User(p)) \in SUBSET Seats
    BY DEF SeatsOf, Active
  <2>4. new \in Session /\ new.plan = sessions[p].plan
    BY <1>0, <2>3 DEF Session
  <2>5. Become(p, new) /\ UNCHANGED <<tables, outdated>>
    BY <1>5 DEF Gather
  <2> HIDE DEF new
  <2> QED
    BY <2>2, <2>4, <2>5, BecomeTyped
<1>6. ASSUME Fail(p) PROVE TypeInv'
  <2> DEFINE new == [NoSession EXCEPT !.at = "over"]
  <2>1. new \in Session /\ new.at \notin Live
    BY NoSessionTyped DEF Session, Live, Checked
  <2>2. Become(p, new) /\ UNCHANGED <<tables, outdated>>
    BY <1>6 DEF Fail
  <2> HIDE DEF new
  <2> QED
    BY <2>1, <2>2, BecomeTyped
<1> QED
  BY <1>1, <1>2, <1>3, <1>4, <1>5, <1>6

LEMMA StepTyped ==
    ASSUME TypeInv, [Next]_vars
    PROVE  TypeInv'
<1>1. CASE UNCHANGED vars
  BY <1>1 DEF vars, tables, TypeInv, TypeOK, Planned
<1>2. ASSUME NEW p \in Proposals,
             \/ Propose(p) \/ Revalidate(p) \/ Check(p) \/ Load(p) \/ Gather(p)
             \/ Execute(p) \/ Fail(p)
      PROVE  TypeInv'
  BY <1>2, QuietTyped, ExecuteTyped
<1> QED
  BY <1>1, <1>2 DEF Next

\* Whatever proposals overlap, the tables, the sessions and what they have read
\* are well typed (the columns of db/orm_models.py and the preparations of
\* agent/action_contracts.py).
THEOREM TypeCorrect == Spec => []TypeOK
<1>1. Init => TypeInv
  BY InitTyped
<1>2. TypeInv /\ [Next]_vars => TypeInv'
  BY StepTyped
<1>3. TypeInv => TypeOK
  BY DEF TypeInv
<1> QED
  BY <1>1, <1>2, <1>3, PTL DEF Spec

-----------------------------------------------------------------------------
(* One seat for each user.                                                  *)

LEMMA ActiveAfter ==
    ASSUME TypeInv
    PROVE  /\ SeatsKept => Active' = Active
           /\ \A p \in Proposals : SeatAdded(p) =>
                 /\ Active' = Active \cup {p}
                 /\ seats'[p].user = User(p)
                 /\ \A s \in Seats \ {p} : seats'[s] = seats[s]
           /\ \A held \in SUBSET Seats : SeatsRevoked(held) =>
                 /\ Active' = Active \ held
                 /\ \A s \in Seats : seats'[s].user = seats[s].user
<1>1. seats \in [Seats -> [user : Users \cup {None}, active : BOOLEAN]]
  BY DEF TypeInv, TypeOK
<1>2. ASSUME SeatsKept PROVE Active' = Active
  BY <1>2 DEF SeatsKept, Active
<1>3. ASSUME NEW p \in Proposals, SeatAdded(p)
      PROVE  /\ Active' = Active \cup {p}
             /\ seats'[p].user = User(p)
             /\ \A s \in Seats \ {p} : seats'[s] = seats[s]
  <2>1. p \in Seats
    BY DEF Seats
  <2>2. seats' = [seats EXCEPT ![p] = [user |-> User(p), active |-> TRUE]]
    BY <1>3 DEF SeatAdded, AddSeat
  <2> QED
    BY <1>1, <2>1, <2>2 DEF Active
<1>4. ASSUME NEW held \in SUBSET Seats, SeatsRevoked(held)
      PROVE  /\ Active' = Active \ held
             /\ \A s \in Seats : seats'[s].user = seats[s].user
  <2>1. seats' = [s \in Seats |-> IF s \in held THEN [seats[s] EXCEPT !.active = FALSE]
                                  ELSE seats[s]]
    BY <1>4 DEF SeatsRevoked, Revoked
  <2>2. \A s \in Seats : /\ [seats[s] EXCEPT !.active = FALSE].user = seats[s].user
                         /\ ~[seats[s] EXCEPT !.active = FALSE].active
    BY <1>1
  <2> QED
    BY <1>1, <2>1, <2>2 DEF Active
<1> QED
  BY <1>2, <1>3, <1>4

\* Only executions write to the tables.
LEMMA OnlyExecutionsWrite ==
    ASSUME [Next]_vars
    PROVE  \/ UNCHANGED <<tables, outdated>>
           \/ \E p \in Proposals : Execute(p)
  BY DEF Next, vars, Propose, Revalidate, Check, Load, Gather, Fail

LEMMA SeatStep ==
    ASSUME TypeInv, OneSeat, [Next]_vars
    PROVE  OneSeat'
<1>1. CASE UNCHANGED <<tables, outdated>>
  BY <1>1 DEF OneSeat, Active, tables
<1>2. ASSUME NEW p \in Proposals, Execute(p) PROVE OneSeat'
  <2>1. CASE SeatsKept
    BY <2>1 DEF SeatsKept, OneSeat, Active
  <2>2. CASE SeatAdded(p)
    <3>1. \A s \in Active : seats[s].user # User(p)
      BY <2>2 DEF SeatAdded, SeatFree, SeatsOf
    <3> QED
      BY <2>2, <3>1, ActiveAfter DEF OneSeat, Active
  <2>3. ASSUME NEW held \in SUBSET Seats, SeatsRevoked(held) PROVE OneSeat'
    BY <2>3, ActiveAfter DEF OneSeat, Active
  <2> QED
    BY <1>2, <2>1, <2>2, <2>3, ExecuteSeats
<1> QED
  BY <1>1, <1>2, OnlyExecutionsWrite

\* At first there is at most one assignment, to an active member.
LEMMA FoundingSeats ==
    Init => /\ Active \subseteq {OldSeat}
            /\ \A s \in Active : Total > 0 /\ members[seats[s].user].status = "active"
<1> SUFFICES ASSUME Init
             PROVE  \A s \in Active :
                       s = OldSeat /\ Total > 0 /\ members[seats[s].user].status = "active"
  OBVIOUS
<1>1. PICK holder \in {None} \cup {u \in Users : members[u].status = "active"} :
          /\ holder # None => Total > 0
          /\ seats = [s \in Seats |->
                        [user |-> IF s = OldSeat THEN holder ELSE None,
                         active |-> s = OldSeat /\ holder # None]]
  BY DEF Init
<1>2. ASSUME NEW s \in Active
      PROVE  s = OldSeat /\ holder # None /\ seats[s].user = holder
  BY <1>1 DEF Active
<1> QED
  BY <1>1, <1>2

\* No overlap of assignments, revocations and workflows gives a user a second
\* active seat: the unique index on the active assignments of a user decides.
THEOREM OneSeatEach == Spec => []OneSeat
<1>1. Init => TypeInv /\ OneSeat
  <2>1. Init => OneSeat
    BY FoundingSeats DEF OneSeat
  <2> QED
    BY <2>1, InitTyped
<1>2. TypeInv /\ OneSeat /\ [Next]_vars => TypeInv' /\ OneSeat'
  BY StepTyped, SeatStep
<1> QED
  BY <1>1, <1>2, PTL DEF Spec

-----------------------------------------------------------------------------
(* What a check has found is so until something is committed: a session     *)
(* that has checked and is not marked dirty still sees what it has read.    *)

Clean == \A p \in Proposals :
    sessions[p].at \in Checked /\ ~sessions[p].dirty =>
        /\ Ready(p)
        /\ sessions[p].row = members[User(p)]
        /\ sessions[p].held = SeatsOf(User(p))

LEMMA CommitMarks ==
    ASSUME TypeInv, NEW p \in Proposals, Commit(p)
    PROVE  /\ sessions'[p].at = "done"
           /\ \A q \in Proposals \ {p} :
                 /\ sessions'[q].at = sessions[q].at
                 /\ sessions'[q].plan = sessions[q].plan
                 /\ sessions'[q].view = sessions[q].view
                 /\ sessions[q].at \in Checked => sessions'[q].dirty
           /\ outdated \subseteq outdated'
           /\ Kind(p) \notin outdated' => ~sessions[p].dirty
<1>1. [NoSession EXCEPT !.at = "done"].at = "done"
  BY DEF NoSession
<1>2. ASSUME NEW q \in Proposals
      PROVE  /\ [sessions[q] EXCEPT !.dirty = TRUE].at = sessions[q].at
             /\ [sessions[q] EXCEPT !.dirty = TRUE].plan = sessions[q].plan
             /\ [sessions[q] EXCEPT !.dirty = TRUE].view = sessions[q].view
             /\ [sessions[q] EXCEPT !.dirty = TRUE].dirty
  <2>1. sessions[q] \in Session
    BY DEF TypeInv, TypeOK
  <2> QED
    BY <2>1 DEF Session
<1>3. sessions' = [q \in Proposals |->
          IF q = p THEN [NoSession EXCEPT !.at = "done"]
          ELSE IF sessions[q].at \in Checked THEN [sessions[q] EXCEPT !.dirty = TRUE]
          ELSE sessions[q]]
  BY DEF Commit
<1>4. outdated' = outdated \cup IF sessions[p].dirty THEN {Kind(p)} ELSE {}
  BY DEF Commit
<1> QED
  BY <1>1, <1>2, <1>3, <1>4

LEMMA ReadyStays ==
    ASSUME NEW p \in Proposals, UNCHANGED tables, Ready(p),
           sessions'[p].plan = sessions[p].plan, sessions'[p].view = sessions[p].view
    PROVE  Ready(p)'
  BY ZenonT(40) DEF Ready, Feasible, KeepsAdmin, Removable, SeatAvailable, SeatsOf, Active,
         Admins, IsAdmin, ViewOf, Shown, SamePool, tables

LEMMA CleanBecome ==
    ASSUME TypeInv, Clean, NEW p \in Proposals, NEW new,
           Become(p, new), UNCHANGED <<tables, outdated>>,
           new.at \in Checked /\ ~new.dirty =>
               /\ new.plan = sessions[p].plan /\ new.view = sessions[p].view
               /\ Ready(p)
               /\ new.row = members[User(p)] /\ new.held = SeatsOf(User(p))
    PROVE  Clean'
<1> SUFFICES ASSUME NEW q \in Proposals,
                    sessions'[q].at \in Checked, ~sessions'[q].dirty
             PROVE  /\ Ready(q)'
                    /\ sessions'[q].row = members'[User(q)']
                    /\ sessions'[q].held = SeatsOf(User(q))'
  BY DEF Clean
<1>1. sessions \in [Proposals -> Session]
  BY DEF TypeInv, TypeOK
<1>2. sessions' = [sessions EXCEPT ![p] = new]
  BY DEF Become
<1>3. /\ sessions'[q].plan = sessions[q].plan
      /\ sessions'[q].view = sessions[q].view
      /\ Ready(q)
      /\ sessions'[q].row = members[User(q)]
      /\ sessions'[q].held = SeatsOf(User(q))
  <2>1. CASE q = p
    BY <1>1, <1>2, <2>1
  <2>2. CASE q # p
    BY <1>1, <1>2, <2>2 DEF Clean
  <2> QED
    BY <2>1, <2>2
<1>4. User(q)' = User(q)
  BY <1>3 DEF User
<1>5. SeatsOf(User(q))' = SeatsOf(User(q))
  BY <1>4 DEF SeatsOf, Active, tables
<1>6. Ready(q)'
  BY <1>3, ReadyStays
<1> QED
  BY <1>3, <1>4, <1>5, <1>6 DEF tables

LEMMA CleanStep ==
    ASSUME TypeInv, Clean, [Next]_vars
    PROVE  Clean'
<1>1. CASE UNCHANGED vars
  <2> SUFFICES ASSUME NEW q \in Proposals,
                      sessions'[q].at \in Checked, ~sessions'[q].dirty
               PROVE  /\ Ready(q)'
                      /\ sessions'[q].row = members'[User(q)']
                      /\ sessions'[q].held = SeatsOf(User(q))'
    BY DEF Clean
  <2>1. UNCHANGED tables /\ sessions' = sessions
    BY <1>1 DEF vars
  <2>2. Ready(q)'
    BY <2>1, ReadyStays DEF Clean
  <2>3. User(q)' = User(q) /\ SeatsOf(User(q))' = SeatsOf(User(q))
    BY <2>1 DEF User, SeatsOf, Active, tables
  <2> QED
    BY <2>1, <2>2, <2>3 DEF Clean, tables
<1>2. ASSUME NEW p \in Proposals, Execute(p) PROVE Clean'
  <2>1. Commit(p)
    BY <1>2, ExecuteWrites
  <2> QED
    BY <2>1, CommitMarks DEF Clean, Checked
<1>3. ASSUME NEW p \in Proposals,
             \/ Propose(p) \/ Revalidate(p) \/ Check(p) \/ Load(p) \/ Gather(p) \/ Fail(p)
      PROVE  Clean'
  <2>0. sessions[p] \in Session
    BY DEF TypeInv, TypeOK
  <2>1. CASE Propose(p)
    <3>1. PICK plan \in Plans : Become(p, [NoSession EXCEPT
              !.at = "proposed", !.plan = plan, !.view = ViewOf(plan)])
      BY <2>1 DEF Propose
    <3> DEFINE new == [NoSession EXCEPT
              !.at = "proposed", !.plan = plan, !.view = ViewOf(plan)]
    <3>2. new.at \notin Checked
      BY DEF NoSession, Checked
    <3>3. Become(p, new) /\ UNCHANGED <<tables, outdated>>
      BY <2>1, <3>1 DEF Propose
    <3> HIDE DEF new
    <3> QED
      BY <3>2, <3>3, CleanBecome
  <2>2. CASE Revalidate(p)
    <3> DEFINE new == [sessions[p] EXCEPT !.at = "revalidated"]
    <3>1. new.at \notin Checked
      BY <2>0 DEF Session, Checked
    <3>2. Become(p, new) /\ UNCHANGED <<tables, outdated>>
      BY <2>2 DEF Revalidate
    <3> HIDE DEF new
    <3> QED
      BY <3>1, <3>2, CleanBecome
  <2>3. CASE Check(p)
    <3> DEFINE new == [sessions[p] EXCEPT
           !.at = "checked", !.row = members[User(p)], !.held = SeatsOf(User(p))]
    <3>1. /\ new.plan = sessions[p].plan /\ new.view = sessions[p].view
          /\ new.row = members[User(p)] /\ new.held = SeatsOf(User(p))
      BY <2>0 DEF Session
    <3>2. Ready(p) /\ Become(p, new) /\ UNCHANGED <<tables, outdated>>
      BY <2>3 DEF Check
    <3> HIDE DEF new
    <3> QED
      BY <3>1, <3>2, CleanBecome
  <2>4. CASE Load(p)
    <3> DEFINE new == [sessions[p] EXCEPT !.at = "loaded", !.row = members[User(p)]]
    <3>1. /\ new.plan = sessions[p].plan /\ new.view = sessions[p].view
          /\ new.row = members[User(p)] /\ new.held = sessions[p].held
          /\ new.dirty = sessions[p].dirty
      BY <2>0 DEF Session
    <3>2. Become(p, new) /\ UNCHANGED <<tables, outdated>>
      BY <2>4 DEF Load
    <3>3. sessions[p].at \in Checked
      BY <2>4 DEF Load, At, Checked
    <3> HIDE DEF new
    <3> QED
      BY <3>1, <3>2, <3>3, CleanBecome DEF Clean
  <2>5. CASE Gather(p)
    <3> DEFINE new == [sessions[p] EXCEPT !.at = "gathered", !.held = SeatsOf(User(p))]
    <3>1. /\ new.plan = sessions[p].plan /\ new.view = sessions[p].view
          /\ new.row = sessions[p].row /\ new.held = SeatsOf(User(p))
          /\ new.dirty = sessions[p].dirty
      BY <2>0 DEF Session
    <3>2. Become(p, new) /\ UNCHANGED <<tables, outdated>>
      BY <2>5 DEF Gather
    <3>3. sessions[p].at \in Checked
      BY <2>5 DEF Gather, At, Checked
    <3> HIDE DEF new
    <3> QED
      BY <3>1, <3>2, <3>3, CleanBecome DEF Clean
  <2>6. CASE Fail(p)
    <3> DEFINE new == [NoSession EXCEPT !.at = "over"]
    <3>1. new.at \notin Checked
      BY DEF NoSession, Checked
    <3>2. Become(p, new) /\ UNCHANGED <<tables, outdated>>
      BY <2>6 DEF Fail
    <3> HIDE DEF new
    <3> QED
      BY <3>1, <3>2, CleanBecome
  <2> QED
    BY <1>3, <2>1, <2>2, <2>3, <2>4, <2>5, <2>6
<1> QED
  BY <1>1, <1>2, <1>3 DEF Next

LEMMA InitClean == Init => Clean
  BY NoSessionTyped DEF Init, Clean, Checked

\* The kind of an execution, the guard of its write and what it writes.
LEMMA ExecuteKinds ==
    ASSUME TypeInv, NEW p \in Proposals, Execute(p)
    PROVE  LET row == members[User(p)]
               loaded == sessions[p].row
               role == sessions[p].plan.role
               hired == [status |-> "active", role |-> role, version |-> 1]
           IN  \/ /\ Kind(p) = "invite" /\ SeatsKept /\ row = Absent
                  /\ Written(p).status = "invited" /\ Written(p).version = 1
               \/ /\ Kind(p) = "activate" /\ SeatsKept /\ Matches(p)
                  /\ row.status = "invited" /\ Written(p) = Moved(row, "active")
               \/ /\ Kind(p) = "role" /\ SeatsKept /\ Matches(p)
                  /\ row.status = "active" /\ Written(p) = Recast(row, role)
               \/ /\ Kind(p) = "remove" /\ SeatsKept /\ Matches(p)
                  /\ Written(p) = Moved(row, "removed")
               \/ /\ Kind(p) = "assign" /\ SeatAdded(p) /\ SamePool(p)
                  /\ Written(p) = row
               \/ /\ Kind(p) = "revoke" /\ Written(p) = row
                  /\ \E held \in SUBSET Seats : SeatsRevoked(held)
               \/ /\ Kind(p) = "onboard"
                  /\ SeatsKept \/ (SeatAdded(p) /\ sessions[p].plan.seat)
                  /\ Written(p) = IF loaded = Absent THEN hired
                                  ELSE Overwrite(row, loaded, hired)
               \/ /\ Kind(p) = "offboard"
                  /\ \/ SeatsKept /\ sessions[p].held = {}
                     \/ SeatsRevoked(sessions[p].held)
                  /\ Written(p) = Overwrite(row, loaded,
                                            [loaded EXCEPT !.status = "removed"])
<1> DEFINE row == members[User(p)]
           loaded == sessions[p].row
           role == sessions[p].plan.role
           hired == [status |-> "active", role |-> role, version |-> 1]
<1>1. CASE Invite(p)
  BY <1>1 DEF Invite, Written, SeatsKept
<1>2. CASE Activate(p)
  BY <1>2 DEF Activate, Written, SeatsKept
<1>3. CASE UpdateRole(p)
  BY <1>3 DEF UpdateRole, Written, SeatsKept
<1>4. CASE RemoveMember(p)
  BY <1>4 DEF RemoveMember, Written, SeatsKept
<1>5. CASE AssignSeat(p)
  BY <1>5 DEF AssignSeat, Written, SeatAdded
<1>6. CASE RevokeSeat(p)
  <2>1. \E s \in Seats : seats' = Revoked({s})
    BY <1>6 DEF RevokeSeat, Active
  <2>2. pool' = pool + 1
    BY <1>6 DEF RevokeSeat
  <2>3. \E held \in SUBSET Seats : SeatsRevoked(held)
    BY <2>1, <2>2 DEF SeatsRevoked
  <2>4. Kind(p) = "revoke" /\ Written(p) = row
    BY <1>6 DEF RevokeSeat, Written
  <2> QED
    BY <2>3, <2>4
<1>7. CASE Onboard(p)
  <2>1. Kind(p) = "onboard"
    BY <1>7 DEF Onboard
  <2>2. SeatsKept \/ (SeatAdded(p) /\ sessions[p].plan.seat)
    BY <1>7 DEF Onboard, SeatAdded, SeatsKept
  <2>3. Written(p) = IF loaded = Absent THEN hired ELSE Overwrite(row, loaded, hired)
    BY <2>1 DEF Written
  <2> QED
    BY <2>1, <2>2, <2>3
<1>8. CASE Offboard(p)
  <2>1. Kind(p) = "offboard"
    BY <1>8 DEF Offboard
  <2>2. (SeatsKept /\ sessions[p].held = {}) \/ SeatsRevoked(sessions[p].held)
    <3>1. seats = [s \in Seats |-> seats[s]]
      BY DEF TypeInv, TypeOK
    <3>2. Revoked({}) = [s \in Seats |-> seats[s]]
      BY DEF Revoked
    <3> QED
      BY <1>8, <3>1, <3>2 DEF Offboard, SeatsKept, SeatsRevoked
  <2>3. Written(p) = Overwrite(row, loaded, [loaded EXCEPT !.status = "removed"])
    BY <2>1 DEF Written
  <2> QED
    BY <2>1, <2>2, <2>3
<1> QED
  BY <1>1, <1>2, <1>3, <1>4, <1>5, <1>6, <1>7, <1>8 DEF Execute

\* What an execution with a check that is not outdated can rely on.
LEMMA CleanFacts ==
    ASSUME TypeInv, Clean, NEW p \in Proposals, Execute(p), Kind(p) \notin outdated'
    PROVE  /\ Ready(p)
           /\ sessions[p].row = members[User(p)]
           /\ sessions[p].held = SeatsOf(User(p))
  BY ExecuteWrites, CommitMarks DEF Clean

\* A seat that is active after a write was so before or is the one it added.
LEMMA ActiveBefore ==
    ASSUME TypeInv, NEW p \in Proposals, Execute(p), NEW s \in Active'
    PROVE  \/ s \in Active /\ seats'[s].user = seats[s].user
           \/ s = p /\ SeatAdded(p) /\ seats'[s].user = User(p)
<1>1. CASE SeatsKept
  BY <1>1, ActiveAfter DEF SeatsKept
<1>2. CASE SeatAdded(p)
  BY <1>2, ActiveAfter DEF Active
<1>3. ASSUME NEW held \in SUBSET Seats, SeatsRevoked(held)
      PROVE  s \in Active /\ seats'[s].user = seats[s].user
  BY <1>3, ActiveAfter DEF Active
<1> QED
  BY <1>1, <1>2, <1>3, ExecuteSeats

-----------------------------------------------------------------------------
(* Seats of active members.                                                 *)

SeatKinds == {"assign", "remove", "onboard", "offboard"}

LEMMA HolderStaysActive ==
    ASSUME TypeInv, Clean, SeatedMembersActive, NEW p \in Proposals, Execute(p),
           outdated' \cap SeatKinds = {},
           NEW s \in Active', seats'[s].user = User(p)
    PROVE  Written(p).status = "active"
<1> DEFINE row == members[User(p)]
           loaded == sessions[p].row
           hired == [status |-> "active", role |-> sessions[p].plan.role, version |-> 1]
           gone == [loaded EXCEPT !.status = "removed"]
<1>0. sessions[p].at \in Live /\ Commit(p)
  BY ExecuteWrites DEF Live
<1>1. /\ sessions[p].plan \in Plan /\ row \in Membership /\ loaded \in Membership
      /\ sessions[p].plan.role \in Roles
  BY <1>0, LivePlan
<1>2. outdated \cap SeatKinds = {}
  BY <1>0, CommitMarks
<1>3. s \in Active /\ seats[s].user = User(p) => row.status = "active"
  BY <1>2 DEF SeatedMembersActive, SeatKinds
<1>4. \/ s \in Active /\ seats[s].user = User(p)
      \/ SeatAdded(p)
  BY ActiveBefore
<1>5. SeatsKept => s \in Active /\ seats[s].user = User(p)
  BY ActiveAfter DEF SeatsKept
<1>6. Kind(p) \in SeatKinds => /\ Ready(p) /\ loaded = row
                               /\ sessions[p].held = SeatsOf(User(p))
  BY CleanFacts
<1>7. CASE Kind(p) = "invite" /\ SeatsKept /\ row = Absent
  BY <1>3, <1>5, <1>7 DEF Absent
<1>8. CASE Written(p) = Moved(row, "active")
  BY <1>1, <1>8, RowsTyped
<1>9. CASE row.status = "active" /\ Written(p) = Recast(row, sessions[p].plan.role)
  BY <1>1, <1>9, RowsTyped
<1>10. CASE Kind(p) = "remove" /\ SeatsKept
  <2>1. SeatsOf(User(p)) = {}
    BY <1>6, <1>10 DEF SeatKinds, Ready, Feasible, Removable, Kind, User
  <2> QED
    BY <1>5, <1>10, <2>1 DEF SeatsOf
<1>11. CASE Kind(p) = "assign" /\ Written(p) = row
  BY <1>6, <1>11 DEF SeatKinds, Ready, Feasible, Kind, User
<1>12. CASE /\ Kind(p) = "revoke" /\ Written(p) = row
            /\ \E held \in SUBSET Seats : SeatsRevoked(held)
  <2>1. s \in Active
    BY <1>12, ActiveAfter
  <2>2. seats[s].user = User(p)
    BY <1>12, <2>1, ActiveAfter DEF Active
  <2> QED
    BY <1>3, <1>12, <2>1, <2>2
<1>13. CASE Kind(p) = "onboard" /\ Written(p) = IF loaded = Absent THEN hired
                                                ELSE Overwrite(row, loaded, hired)
  <2>1. hired \in Membership /\ hired.status = "active"
    BY <1>1 DEF Membership
  <2>2. loaded = row
    BY <1>6, <1>13 DEF SeatKinds
  <2>3. Overwrite(row, loaded, hired).status = "active"
    BY <1>1, <2>1, <2>2, OverwriteTyped
  <2> QED
    BY <1>13, <2>1, <2>3
<1>14. CASE /\ Kind(p) = "offboard"
            /\ \/ SeatsKept /\ sessions[p].held = {}
               \/ SeatsRevoked(sessions[p].held)
  <2>1. sessions[p].held = SeatsOf(User(p))
    BY <1>6, <1>14 DEF SeatKinds
  <2>2. CASE SeatsKept /\ sessions[p].held = {}
    BY <1>5, <2>1, <2>2 DEF SeatsOf
  <2>3. CASE SeatsRevoked(sessions[p].held)
    <3>1. sessions[p].held \in SUBSET Seats
      BY <1>0, LivePlan
    <3>2. s \in Active \ sessions[p].held /\ s \in Seats
      BY <2>3, <3>1, ActiveAfter DEF Active
    <3>3. seats'[s].user = seats[s].user
      BY <2>3, <3>1, <3>2, ActiveAfter
    <3> QED
      BY <2>1, <3>2, <3>3 DEF SeatsOf
  <2> QED
    BY <1>14, <2>2, <2>3
<1> QED
  BY <1>7, <1>8, <1>9, <1>10, <1>11, <1>12, <1>13, <1>14, ExecuteKinds

LEMMA SeatedStep ==
    ASSUME TypeInv, Clean, SeatedMembersActive, [Next]_vars
    PROVE  SeatedMembersActive'
<1>1. CASE UNCHANGED <<tables, outdated>>
  BY <1>1 DEF SeatedMembersActive, Active, tables
<1>2. ASSUME NEW p \in Proposals, Execute(p),
             outdated' \cap SeatKinds = {}, NEW s \in Active'
      PROVE  members'[seats'[s].user].status = "active"
  <2>0. sessions[p].at \in Live /\ Commit(p) /\ User(p) \in Users
    BY <1>2, ExecuteWrites, LivePlan DEF Live
  <2>1. members' = [members EXCEPT ![User(p)] = Written(p)]
    BY <1>2, ExecuteWrites
  <2>2. CASE seats'[s].user = User(p)
    <3>1. Written(p).status = "active"
      BY <1>2, <2>2, HolderStaysActive
    <3> QED
      BY <2>0, <2>1, <2>2, <3>1 DEF TypeInv, TypeOK
  <2>3. CASE seats'[s].user # User(p)
    <3>1. s \in Active /\ seats'[s].user = seats[s].user
      BY <1>2, <2>3, ActiveBefore
    <3>2. members[seats[s].user].status = "active"
      BY <1>2, <2>0, <3>1, CommitMarks DEF SeatedMembersActive, SeatKinds
    <3> QED
      BY <2>1, <2>3, <3>1, <3>2 DEF TypeInv, TypeOK
  <2> QED
    BY <2>2, <2>3
<1> QED
  BY <1>1, <1>2, OnlyExecutionsWrite DEF SeatedMembersActive, SeatKinds

\* Where assignments, removals and workflows act on what they have checked,
\* no seat is held by somebody who is not an active member: of all orders of
\* executions only those in which a check is outdated when it is acted on can
\* leave a seat behind (remove_member, execute_offboard).
THEOREM LeaversHaveNoSeat == Spec => []SeatedMembersActive
<1>1. Init => TypeInv /\ Clean /\ SeatedMembersActive
  BY InitTyped, InitClean, FoundingSeats DEF SeatedMembersActive
<1>2. TypeInv /\ Clean /\ SeatedMembersActive /\ [Next]_vars
        => TypeInv' /\ Clean' /\ SeatedMembersActive'
  BY StepTyped, CleanStep, SeatedStep
<1> QED
  BY <1>1, <1>2, PTL DEF Spec

-----------------------------------------------------------------------------
(* Administrators.                                                          *)

RowKinds == {"role", "remove", "offboard", "onboard"}

LEMMA AnotherAdmin ==
    ASSUME TypeInv, Cardinality(Admins) > 1, NEW u
    PROVE  \E v \in Admins : v # u
<1>1. SUFFICES ASSUME Admins \subseteq {u} PROVE FALSE
  OBVIOUS
<1>2. IsFiniteSet({u}) /\ Cardinality({u}) = 1
  BY FS_Singleton
<1>3. Cardinality(Admins) <= 1
  BY <1>1, <1>2, FS_Subset
<1>4. IsFiniteSet(Admins)
  BY <1>1, <1>2, FS_Subset
<1>5. Cardinality(Admins) \in Nat
  BY <1>4, FS_CardinalityType
<1> QED
  BY <1>3, <1>5

\* A write touches no administrator, leaves another one, or its own.
LEMMA AdminSpared ==
    ASSUME TypeInv, Clean, NEW p \in Proposals, Execute(p),
           outdated' \cap RowKinds = {}
    PROVE  \/ User(p) \notin Admins
           \/ \E v \in Admins : v # User(p)
           \/ IsAdmin(Written(p))
<1> DEFINE row == members[User(p)]
<1>0. sessions[p].at \in Live
  BY ExecuteWrites DEF Live
<1>1. row \in Membership /\ sessions[p].plan \in Plan
  BY <1>0, LivePlan
<1>2. Kind(p) \in RowKinds => Ready(p)
  BY CleanFacts
<1>3. KeepsAdmin(sessions[p].plan)
        => \/ User(p) \notin Admins
           \/ Kind(p) = "role" /\ sessions[p].plan.role = "admin"
           \/ \E v \in Admins : v # User(p)
  BY AnotherAdmin DEF KeepsAdmin, User, Kind
<1>4. row.status # "active" => User(p) \notin Admins
  BY DEF Admins, IsAdmin
<1>5. CASE Kind(p) = "invite" /\ row = Absent
  BY <1>4, <1>5 DEF Absent
<1>6. CASE row.status = "invited"
  BY <1>4, <1>6
<1>7. CASE Kind(p) = "role" /\ row.status = "active"
           /\ Written(p) = Recast(row, sessions[p].plan.role)
  <2>1. KeepsAdmin(sessions[p].plan)
    BY <1>2, <1>7 DEF RowKinds, Ready, Kind, User
  <2>2. sessions[p].plan.role = "admin" => IsAdmin(Written(p))
    BY <1>1, <1>7, RowsTyped DEF IsAdmin, Roles
  <2> QED
    BY <1>3, <2>1, <2>2
<1>8. CASE Kind(p) \in {"remove", "offboard"}
  <2>1. KeepsAdmin(sessions[p].plan)
    BY <1>2, <1>8 DEF RowKinds, Ready, Feasible, Removable, Kind, User
  <2> QED
    BY <1>3, <1>8, <2>1
<1>9. CASE Written(p) = row
  BY <1>9 DEF Admins, IsAdmin
<1>10. CASE Kind(p) = "onboard"
  <2>1. row.status # "active"
    BY <1>2, <1>10 DEF RowKinds, Ready, Feasible, Kind, User
  <2> QED
    BY <1>4, <2>1
<1> QED
  BY <1>5, <1>6, <1>7, <1>8, <1>9, <1>10, ExecuteKinds

LEMMA AdminStep ==
    ASSUME TypeInv, Clean, AdminRemains, [Next]_vars
    PROVE  AdminRemains'
<1>1. CASE UNCHANGED <<tables, outdated>>
  BY <1>1 DEF AdminRemains, Admins, tables
<1>2. ASSUME NEW p \in Proposals, Execute(p), outdated' \cap RowKinds = {}
      PROVE  Admins' # {}
  <2>0. sessions[p].at \in Live /\ Commit(p) /\ User(p) \in Users
    BY <1>2, ExecuteWrites, LivePlan DEF Live
  <2>1. members' = [members EXCEPT ![User(p)] = Written(p)]
    BY <1>2, ExecuteWrites
  <2>2. PICK v \in Admins : TRUE
    BY <1>2, <2>0, CommitMarks DEF AdminRemains, RowKinds
  <2>3. ASSUME NEW w \in Admins, w # User(p) PROVE Admins' # {}
    BY <2>1, <2>3 DEF Admins, TypeInv, TypeOK
  <2>4. CASE IsAdmin(Written(p))
    BY <2>0, <2>1, <2>4 DEF Admins, TypeInv, TypeOK
  <2> QED
    BY <1>2, <2>2, <2>3, <2>4, AdminSpared
<1> QED
  BY <1>1, <1>2, OnlyExecutionsWrite DEF AdminRemains, RowKinds

\* The rule that one administrator has to remain is stated by three
\* preparations and by no write.  It holds for ever where changes to a role or
\* a membership act on what they have checked, whatever else overlaps
\* (KeepsAdmin in inspect_membership and prepare_offboard).
THEOREM AnAdminRemains == Spec => []AdminRemains
<1>1. Init => TypeInv /\ Clean /\ AdminRemains
  <2>1. Init => AdminRemains
    BY FoundingAssumption DEF Init, AdminRemains, Admins
  <2> QED
    BY <2>1, InitTyped, InitClean
<1>2. TypeInv /\ Clean /\ AdminRemains /\ [Next]_vars
        => TypeInv' /\ Clean' /\ AdminRemains'
  BY StepTyped, CleanStep, AdminStep
<1> QED
  BY <1>1, <1>2, PTL DEF Spec

-----------------------------------------------------------------------------
(* Seats of the pool.                                                       *)

\* A step that writes nothing keeps what a session was approved for, ends it,
\* or proposes a change that the tables allow.
LEMMA QuietKeeps ==
    ASSUME TypeInv, NEW p \in Proposals,
           \/ Propose(p) \/ Revalidate(p) \/ Check(p) \/ Load(p) \/ Gather(p) \/ Fail(p)
    PROVE  /\ UNCHANGED <<tables, outdated>>
           /\ \A q \in Proposals \ {p} : sessions'[q] = sessions[q]
           /\ sessions'[p].at # "done"
           /\ \/ sessions'[p].at \notin Live
              \/ /\ sessions[p].at \in Live
                 /\ sessions'[p].plan = sessions[p].plan
                 /\ sessions'[p].view = sessions[p].view
              \/ /\ sessions'[p].plan \in Plan /\ Feasible(sessions'[p].plan)
                 /\ sessions'[p].view = ViewOf(sessions'[p].plan)
<1>0. sessions[p] \in Session /\ sessions \in [Proposals -> Session]
  BY DEF TypeInv, TypeOK
<1>1. CASE Propose(p)
  <2>1. PICK plan \in Plans :
            /\ Feasible(plan)
            /\ Become(p, [NoSession EXCEPT
                  !.at = "proposed", !.plan = plan, !.view = ViewOf(plan)])
    BY <1>1 DEF Propose
  <2> DEFINE new == [NoSession EXCEPT
                  !.at = "proposed", !.plan = plan, !.view = ViewOf(plan)]
  <2>2. new.at = "proposed" /\ new.plan = plan /\ new.view = ViewOf(plan)
    BY DEF NoSession
  <2>3. sessions' = [sessions EXCEPT ![p] = new]
    BY <2>1 DEF Become
  <2> HIDE DEF new
  <2>4. sessions'[p] = new /\ \A q \in Proposals \ {p} : sessions'[q] = sessions[q]
    BY <1>0, <2>3
  <2> QED
    BY <1>1, <2>1, <2>2, <2>4, FoundingAssumption DEF Propose
<1>2. CASE Revalidate(p)
  <2>1. sessions' = [sessions EXCEPT ![p] = [sessions[p] EXCEPT !.at = "revalidated"]]
    BY <1>2 DEF Revalidate, Become
  <2> QED
    BY <1>0, <1>2, <2>1 DEF Revalidate, At, Live, Session
<1>3. CASE Check(p)
  <2>1. sessions' = [sessions EXCEPT ![p] = [sessions[p] EXCEPT
           !.at = "checked", !.row = members[User(p)], !.held = SeatsOf(User(p))]]
    BY <1>3 DEF Check, Become
  <2> QED
    BY <1>0, <1>3, <2>1 DEF Check, At, Live, Session
<1>4. CASE Load(p)
  <2>1. sessions' = [sessions EXCEPT ![p] = [sessions[p] EXCEPT
           !.at = "loaded", !.row = members[User(p)]]]
    BY <1>4 DEF Load, Become
  <2> QED
    BY <1>0, <1>4, <2>1 DEF Load, At, Live, Checked, Session
<1>5. CASE Gather(p)
  <2>1. sessions' = [sessions EXCEPT ![p] = [sessions[p] EXCEPT
           !.at = "gathered", !.held = SeatsOf(User(p))]]
    BY <1>5 DEF Gather, Become
  <2> QED
    BY <1>0, <1>5, <2>1 DEF Gather, At, Live, Checked, Session
<1>6. CASE Fail(p)
  <2>1. sessions' = [sessions EXCEPT ![p] = [NoSession EXCEPT !.at = "over"]]
    BY <1>6 DEF Fail, Become
  <2>2. [NoSession EXCEPT !.at = "over"].at = "over"
    BY DEF NoSession
  <2> QED
    BY <1>0, <1>6, <2>1, <2>2 DEF Fail, Live, Checked
<1> QED
  BY <1>1, <1>2, <1>3, <1>4, <1>5, <1>6

\* As long as the pool has the version that an assignment was approved for,
\* one of its seats is free.
RoomShown == \A p \in Proposals :
    sessions[p].at \in Live /\ Kind(p) = "assign" =>
        /\ sessions[p].view.pool <= pool
        /\ sessions[p].view.pool = pool => Cardinality(Active) < Total

LEMMA ActiveFinite == IsFiniteSet(Active) /\ Cardinality(Active) \in Nat
<1>1. IsFiniteSet(Seats)
  BY FoundingAssumption, FS_AddElement DEF Seats
<1>2. Active \subseteq Seats
  BY DEF Active
<1> QED
  BY <1>1, <1>2, FS_Subset, FS_CardinalityType

LEMMA RoomStep ==
    ASSUME TypeInv, RoomShown, [Next]_vars
    PROVE  RoomShown'
<1>0. pool \in Nat
  BY DEF TypeInv, TypeOK
<1>1. CASE UNCHANGED vars
  BY <1>1 DEF vars, tables, RoomShown, Kind, Active
<1>2. ASSUME NEW p \in Proposals,
             \/ Propose(p) \/ Revalidate(p) \/ Check(p) \/ Load(p) \/ Gather(p) \/ Fail(p)
      PROVE  RoomShown'
  <2> SUFFICES ASSUME NEW q \in Proposals, sessions'[q].at \in Live, Kind(q)' = "assign"
               PROVE  /\ sessions'[q].view.pool <= pool
                      /\ sessions'[q].view.pool = pool => Cardinality(Active) < Total
    BY <1>2, QuietKeeps DEF RoomShown, Active, tables
  <2>1. CASE q # p
    BY <1>2, <2>1, QuietKeeps DEF RoomShown, Kind
  <2>2. CASE /\ q = p /\ sessions[p].at \in Live
             /\ sessions'[p].plan = sessions[p].plan
             /\ sessions'[p].view = sessions[p].view
    BY <2>2 DEF RoomShown, Kind
  <2>3. CASE /\ q = p /\ Feasible(sessions'[p].plan)
             /\ sessions'[p].view = ViewOf(sessions'[p].plan)
    <3>1. sessions'[p].plan.kind = "assign"
      BY <2>3 DEF Kind
    <3>2. sessions'[p].view.pool = pool
      BY <2>3, <3>1 DEF ViewOf
    <3>3. Cardinality(Active) < Total
      BY <2>3, <3>1 DEF Feasible, SeatAvailable
    <3> QED
      BY <1>0, <2>3, <3>2, <3>3
  <2> QED
    BY <1>2, <2>1, <2>2, <2>3, QuietKeeps
<1>3. ASSUME NEW p \in Proposals, Execute(p) PROVE RoomShown'
  <2> SUFFICES ASSUME NEW q \in Proposals, sessions'[q].at \in Live, Kind(q)' = "assign"
               PROVE  /\ sessions'[q].view.pool <= pool'
                      /\ sessions'[q].view.pool = pool' => Cardinality(Active)' < Total
    BY DEF RoomShown
  <2>1. /\ sessions'[q].at = sessions[q].at /\ sessions'[q].plan = sessions[q].plan
        /\ sessions'[q].view = sessions[q].view
    BY <1>3, ExecuteWrites, CommitMarks DEF Live, Checked
  <2>2. /\ sessions[q].view.pool <= pool
        /\ sessions[q].view.pool = pool => Cardinality(Active) < Total
    BY <2>1 DEF RoomShown, Kind
  <2>3. sessions[q].view.pool \in Nat
    BY DEF TypeInv, TypeOK, Session, View
  <2>4. CASE SeatsKept
    <3>1. Active' = Active /\ pool' = pool
      BY <2>4, ActiveAfter DEF SeatsKept
    <3> QED
      BY <2>1, <2>2, <3>1
  <2>5. CASE pool' = pool + 1
    BY <1>0, <2>1, <2>2, <2>3, <2>5
  <2> QED
    BY <1>3, <2>4, <2>5, ExecuteSeats DEF SeatAdded, SeatsRevoked
<1> QED
  BY <1>1, <1>2, <1>3 DEF Next

LEMMA PoolStep ==
    ASSUME TypeInv, Clean, RoomShown, SeatsWithinPool, [Next]_vars
    PROVE  SeatsWithinPool'
<1>1. CASE UNCHANGED <<tables, outdated>>
  BY <1>1 DEF SeatsWithinPool, Active, tables
<1>2. ASSUME NEW p \in Proposals, Execute(p), "onboard" \notin outdated'
      PROVE  Cardinality(Active)' <= Total
  <2>0. /\ sessions[p].at \in Live /\ Commit(p)
        /\ Total \in Nat /\ Cardinality(Active) \in Nat
    BY <1>2, ExecuteWrites, FoundingAssumption, ActiveFinite DEF Live
  <2>1. Cardinality(Active) <= Total
    BY <1>2, <2>0, CommitMarks DEF SeatsWithinPool
  <2>2. CASE SeatsKept
    BY <2>1, <2>2, ActiveAfter
  <2>3. CASE SeatAdded(p) /\ Cardinality(Active) < Total
    <3>1. Active' = Active \cup {p}
      BY <2>3, ActiveAfter
    <3>2. Cardinality(Active \cup {p}) \in {Cardinality(Active), Cardinality(Active) + 1}
      BY ActiveFinite, FS_AddElement
    <3> QED
      BY <2>0, <2>3, <3>1, <3>2
  <2>4. CASE SeatAdded(p) /\ Kind(p) = "assign" /\ SamePool(p)
    <3>1. Cardinality(Active) < Total
      BY <2>0, <2>4 DEF RoomShown, SamePool
    <3> QED
      BY <2>3, <2>4, <3>1
  <2>5. CASE SeatAdded(p) /\ Kind(p) = "onboard" /\ sessions[p].plan.seat
    <3>1. Ready(p)
      BY <1>2, <2>5, CleanFacts
    <3>2. Cardinality(Active) < Total
      BY <2>5, <3>1 DEF Ready, Feasible, SeatAvailable, Kind
    <3> QED
      BY <2>3, <2>5, <3>2
  <2>6. ASSUME NEW held \in SUBSET Seats, SeatsRevoked(held)
        PROVE  Cardinality(Active)' <= Total
    <3>1. Active' \subseteq Active
      BY <2>6, ActiveAfter
    <3>2. Cardinality(Active') <= Cardinality(Active) /\ IsFiniteSet(Active')
      BY <3>1, ActiveFinite, FS_Subset
    <3>3. Cardinality(Active') \in Nat
      BY <3>2, FS_CardinalityType
    <3> QED
      BY <2>0, <2>1, <3>2, <3>3
  <2> QED
    BY <1>2, <2>2, <2>4, <2>5, <2>6, ExecuteSeats
<1> QED
  BY <1>1, <1>2, OnlyExecutionsWrite DEF SeatsWithinPool

\* Assignments never exceed the pool, however they overlap with each other,
\* with revocations and with offboardings: the version of the pool that
\* assign_seat compares is advanced by every change of its seats.
THEOREM PoolSuffices == Spec => []SeatsWithinPool
<1>1. Init => TypeInv /\ Clean /\ RoomShown /\ SeatsWithinPool
  <2>1. Init => RoomShown
    BY NoSessionTyped DEF Init, RoomShown, Live, Checked
  <2>2. ASSUME Init PROVE SeatsWithinPool
    <3>1. Active \subseteq {OldSeat} /\ (Active # {} => Total > 0)
      BY <2>2, FoundingSeats
    <3>2. Cardinality({OldSeat}) = 1 /\ IsFiniteSet({OldSeat}) /\ Cardinality({}) = 0
      BY FS_Singleton, FS_EmptySet
    <3>3. Cardinality(Active) <= 1 /\ Cardinality(Active) \in Nat
      BY <3>1, <3>2, FS_Subset, FS_CardinalityType
    <3>4. CASE Active = {}
      BY <3>2, <3>4, FoundingAssumption DEF SeatsWithinPool
    <3>5. CASE Active # {}
      BY <3>1, <3>3, <3>5, FoundingAssumption DEF SeatsWithinPool
    <3> QED
      BY <3>4, <3>5
  <2> QED
    BY <2>1, <2>2, InitTyped, InitClean
<1>2. TypeInv /\ Clean /\ RoomShown /\ SeatsWithinPool /\ [Next]_vars
        => TypeInv' /\ Clean' /\ RoomShown' /\ SeatsWithinPool'
  BY StepTyped, CleanStep, RoomStep, PoolStep
<1> QED
  BY <1>1, <1>2, PTL DEF Spec

-----------------------------------------------------------------------------
(* Versions.                                                                *)

SeatOperations == {"assign", "revoke"}

Canonical == \A u \in Users : members[u].status = "absent" => members[u] = Absent

\* As long as a membership has the version that a change was approved for, it
\* is the membership that was shown.
RowsShown == \A p \in Proposals :
    sessions[p].at \in Live /\ Kind(p) \notin SeatOperations =>
        /\ sessions[p].view.row.version <= members[User(p)].version
        /\ sessions[p].view.row.version = members[User(p)].version
             => Shown(Kind(p), members[User(p)]) = sessions[p].view.row
        /\ Kind(p) = "invite" => sessions[p].view.row = Absent

VersionInv == outdated \cap Workflows = {} => Canonical /\ RowsShown

\* Every write advances the version of the membership.
LEMMA VersionAdvances ==
    ASSUME TypeInv, Clean, NEW p \in Proposals, Execute(p),
           outdated' \cap Workflows = {}
    PROVE  \/ Kind(p) \in SeatOperations /\ Written(p) = members[User(p)]
           \/ /\ members[User(p)].version < Written(p).version
              /\ Written(p).status # "absent"
<1> DEFINE row == members[User(p)]
           loaded == sessions[p].row
           hired == [status |-> "active", role |-> sessions[p].plan.role, version |-> 1]
           gone == [loaded EXCEPT !.status = "removed"]
<1>1. /\ sessions[p].plan.role \in Roles
      /\ row \in Membership /\ loaded \in Membership
  <2>1. sessions[p].at \in Live
    BY ExecuteWrites DEF Live
  <2> QED
    BY <2>1, LivePlan
<1>2. row.version \in Nat /\ row.version < row.version + 1
  BY <1>1 DEF Membership
<1>3. Kind(p) \in Workflows => loaded = row
  BY CleanFacts
<1>4. CASE row = Absent /\ Written(p).status = "invited" /\ Written(p).version = 1
  BY <1>4 DEF Absent
<1>5. CASE \/ Written(p) = Moved(row, "active")
           \/ Written(p) = Moved(row, "removed")
           \/ /\ row.status = "active"
              /\ Written(p) = Recast(row, sessions[p].plan.role)
  BY <1>1, <1>2, <1>5, RowsTyped
<1>6. CASE Kind(p) \in {"assign", "revoke"} /\ Written(p) = row
  BY <1>6 DEF SeatOperations
<1>7. CASE Kind(p) = "onboard"
  <2>1. hired \in Membership /\ hired.status = "active" /\ hired.version = 1
    BY <1>1 DEF Membership
  <2>2. loaded = row
    BY <1>3, <1>7 DEF Workflows
  <2>3. Written(p) = IF loaded = Absent THEN hired ELSE Overwrite(row, loaded, hired)
    BY <1>7 DEF Written
  <2> HIDE DEF hired
  <2>4. CASE loaded = Absent
    <3>1. row.version = 0
      BY <2>2, <2>4 DEF Absent
    <3> QED
      BY <2>1, <2>3, <2>4, <3>1
  <2>5. CASE loaded # Absent
    <3>1. Written(p) = Overwrite(row, loaded, hired)
      BY <2>3, <2>5
    <3> QED
      BY <1>1, <1>2, <2>1, <2>2, <3>1, OverwriteTyped
  <2> QED
    BY <2>4, <2>5
<1>8. CASE Kind(p) = "offboard"
  <2>1. gone \in Membership /\ gone.status = "removed"
    BY <1>1 DEF Membership
  <2>2. loaded = row
    BY <1>3, <1>8 DEF Workflows
  <2>3. Written(p) = Overwrite(row, loaded, gone)
    BY <1>8 DEF Written
  <2> HIDE DEF gone
  <2> QED
    BY <1>1, <1>2, <2>1, <2>2, <2>3, OverwriteTyped
<1> QED
  BY <1>4, <1>5, <1>6, <1>7, <1>8, ExecuteKinds

LEMMA ShownVersion ==
    ASSUME NEW kind \in Kinds \ SeatOperations, NEW row \in Membership
    PROVE  /\ Shown(kind, row).version = row.version
           /\ kind = "invite" => Shown(kind, row) = row
  BY DEF Shown, Membership, SeatOperations, Kinds

LEMMA VersionStep ==
    ASSUME TypeInv, Clean, VersionInv, [Next]_vars
    PROVE  VersionInv'
<1>0. members \in [Users -> Membership] /\ sessions \in [Proposals -> Session]
  BY DEF TypeInv, TypeOK
<1>1. CASE UNCHANGED vars
  BY <1>1 DEF vars, tables, VersionInv, Canonical, RowsShown, Kind, User
<1>2. ASSUME NEW p \in Proposals,
             \/ Propose(p) \/ Revalidate(p) \/ Check(p) \/ Load(p) \/ Gather(p) \/ Fail(p)
      PROVE  VersionInv'
  <2>0. members' = members /\ outdated' = outdated
    BY <1>2, QuietKeeps DEF tables
  <2> SUFFICES ASSUME Canonical, RowsShown,
                      NEW q \in Proposals, sessions'[q].at \in Live,
                      Kind(q)' \notin SeatOperations
               PROVE  /\ sessions'[q].view.row.version <= members[User(q)'].version
                      /\ sessions'[q].view.row.version = members[User(q)'].version
                           => Shown(Kind(q)', members[User(q)']) = sessions'[q].view.row
                      /\ Kind(q)' = "invite" => sessions'[q].view.row = Absent
    BY <2>0 DEF VersionInv, Canonical, RowsShown
  <2>1. CASE q # p
    BY <1>2, <2>1, QuietKeeps DEF RowsShown, Kind, User
  <2>2. CASE /\ q = p /\ sessions[p].at \in Live
             /\ sessions'[p].plan = sessions[p].plan
             /\ sessions'[p].view = sessions[p].view
    BY <2>2 DEF RowsShown, Kind, User
  <2>3. CASE /\ q = p /\ sessions'[p].plan \in Plan /\ Feasible(sessions'[p].plan)
             /\ sessions'[p].view = ViewOf(sessions'[p].plan)
    <3> DEFINE plan == sessions'[p].plan
               row == members[plan.user]
    <3>1. plan.user \in Users /\ plan.kind \in Kinds \ SeatOperations /\ row \in Membership
      BY <1>0, <2>3 DEF Plan, Kind
    <3>2. sessions'[q].view.row = Shown(plan.kind, row)
      BY <2>3 DEF ViewOf
    <3>3. Kind(q)' = plan.kind /\ User(q)' = plan.user
      BY <2>3 DEF Kind, User
    <3>4. plan.kind = "invite" => row = Absent
      BY <2>3, <3>1 DEF Feasible, Canonical
    <3>5. row.version \in Nat /\ row.version <= row.version
      BY <3>1 DEF Membership
    <3> QED
      BY <3>1, <3>2, <3>3, <3>4, <3>5, ShownVersion
  <2> QED
    BY <1>2, <2>1, <2>2, <2>3, QuietKeeps
<1>3. ASSUME NEW p \in Proposals, Execute(p) PROVE VersionInv'
  <2> SUFFICES ASSUME outdated' \cap Workflows = {}
               PROVE  Canonical' /\ RowsShown'
    BY DEF VersionInv
  <2>1. /\ sessions[p].at \in Live /\ Commit(p) /\ User(p) \in Users
        /\ members' = [members EXCEPT ![User(p)] = Written(p)]
        /\ Written(p) \in Membership
    BY <1>3, ExecuteWrites, LivePlan DEF Live
  <2>2. Canonical /\ RowsShown
    BY <2>1, CommitMarks DEF VersionInv
  <2>3. \/ Kind(p) \in SeatOperations /\ Written(p) = members[User(p)]
        \/ /\ members[User(p)].version < Written(p).version
           /\ Written(p).status # "absent"
    BY <1>3, VersionAdvances
  <2>4. ASSUME NEW u \in Users, members'[u].status = "absent"
        PROVE  members'[u] = Absent
    BY <1>0, <2>1, <2>2, <2>3, <2>4 DEF Canonical
  <2>5. ASSUME NEW q \in Proposals, sessions'[q].at \in Live,
               Kind(q)' \notin SeatOperations
        PROVE  /\ sessions'[q].view.row.version <= members'[User(q)'].version
               /\ sessions'[q].view.row.version = members'[User(q)'].version
                    => Shown(Kind(q)', members'[User(q)']) = sessions'[q].view.row
               /\ Kind(q)' = "invite" => sessions'[q].view.row = Absent
    <3>1. /\ sessions'[q].at = sessions[q].at /\ sessions'[q].plan = sessions[q].plan
          /\ sessions'[q].view = sessions[q].view
      BY <2>1, <2>5, CommitMarks DEF Live, Checked
    <3>2. Kind(q)' = Kind(q) /\ User(q)' = User(q)
      BY <3>1 DEF Kind, User
    <3>3. /\ sessions[q].view.row.version <= members[User(q)].version
          /\ sessions[q].view.row.version = members[User(q)].version
               => Shown(Kind(q), members[User(q)]) = sessions[q].view.row
          /\ Kind(q) = "invite" => sessions[q].view.row = Absent
      BY <2>2, <2>5, <3>1, <3>2 DEF RowsShown
    <3>4. CASE members'[User(q)] = members[User(q)]
      BY <3>1, <3>2, <3>3, <3>4
    <3>5. CASE members'[User(q)] # members[User(q)]
      <4>1. User(q) \in Users
        BY <2>5, <3>1, LivePlan
      <4>2. members'[User(q)] = Written(p) /\ User(q) = User(p)
        BY <1>0, <2>1, <3>5, <4>1
      <4>3. members[User(q)].version < Written(p).version
        BY <2>3, <3>5, <4>2
      <4>4. /\ sessions[q].view.row.version \in Nat
            /\ members[User(q)].version \in Nat /\ Written(p).version \in Nat
        BY <1>0, <2>1, <4>1 DEF Session, View, Membership
      <4> QED
        BY <3>1, <3>2, <3>3, <4>2, <4>3, <4>4
    <3> QED
      BY <3>4, <3>5
  <2> QED
    BY <2>4, <2>5 DEF Canonical, RowsShown
<1> QED
  BY <1>1, <1>2, <1>3 DEF Next

\* A step that executes a proposal writes a membership as it was shown.
LEMMA ReviewedStep ==
    ASSUME TypeInv, Clean, VersionInv, [Next]_vars,
           NEW p \in Proposals, sessions'[p].at = "done", sessions[p].at # "done",
           Kind(p) \notin SeatOperations, outdated' \cap Workflows = {}
    PROVE  Shown(Kind(p), members[User(p)]) = sessions[p].view.row
<1>1. Execute(p)
  <2>1. CASE UNCHANGED vars
    BY <2>1 DEF vars
  <2>2. ASSUME NEW q \in Proposals,
               \/ Propose(q) \/ Revalidate(q) \/ Check(q) \/ Load(q) \/ Gather(q) \/ Fail(q)
        PROVE  FALSE
    BY <2>2, QuietKeeps
  <2>3. ASSUME NEW q \in Proposals, Execute(q), q # p
        PROVE  FALSE
    BY <2>3, ExecuteWrites, CommitMarks
  <2> QED
    BY <2>1, <2>2, <2>3 DEF Next
<1>2. sessions[p].at \in Live /\ Commit(p)
  BY <1>1, ExecuteWrites DEF Live
<1>3. Kind(p) \in Kinds /\ members[User(p)] \in Membership
  BY <1>2, LivePlan
<1>4. RowsShown
  BY <1>2, CommitMarks DEF VersionInv
<1>5. CASE Matches(p)
  BY <1>2, <1>4, <1>5 DEF RowsShown, Matches
<1>6. CASE Kind(p) = "invite" /\ members[User(p)] = Absent
  <2>1. sessions[p].view.row = Absent
    BY <1>2, <1>4, <1>6 DEF RowsShown, SeatOperations
  <2>2. Shown("invite", Absent) = Absent
    BY DEF Shown
  <2> QED
    BY <1>6, <2>1, <2>2
<1>7. CASE Kind(p) \in Workflows
  <2>1. Ready(p)
    BY <1>1, <1>7, CleanFacts
  <2>2. ViewOf(sessions[p].plan) = sessions[p].view
    BY <1>7, <2>1 DEF Ready, Workflows, Kind
  <2>3. ViewOf(sessions[p].plan).row = Shown(Kind(p), members[User(p)])
    BY DEF ViewOf, Kind, User
  <2> QED
    BY <2>2, <2>3
<1> QED
  BY <1>1, <1>5, <1>6, <1>7, ExecuteKinds DEF SeatOperations, Workflows

\* Whatever overlaps, an approved change is written to the membership that was
\* shown to those who approved it: versions only grow, so the version in the
\* WHERE clause stands for the whole row, until a workflow has written one
\* that it had loaded before somebody else changed it.
THEOREM WritesAreReviewed == Spec => ReviewedRow
<1>1. Init => TypeInv /\ Clean /\ VersionInv
  <2>1. Init => Canonical
    BY FoundingAssumption DEF Init, Canonical
  <2>2. Init => RowsShown
    BY NoSessionTyped DEF Init, RowsShown, Live, Checked
  <2> QED
    BY <2>1, <2>2, InitTyped, InitClean DEF VersionInv
<1>2. TypeInv /\ Clean /\ VersionInv /\ [Next]_vars
        => TypeInv' /\ Clean' /\ VersionInv'
  BY StepTyped, CleanStep, VersionStep
<1>3. TypeInv /\ Clean /\ VersionInv /\ [Next]_vars
        => [\A p \in Proposals :
               LET u == User(p)
               IN  sessions'[p].at = "done" /\ sessions[p].at # "done"
                   /\ Kind(p) \notin {"assign", "revoke"}
                   /\ outdated' \cap Workflows = {}
                     => Shown(Kind(p), members[u]) = sessions[p].view.row]_vars
  BY ReviewedStep DEF SeatOperations
<1> QED
  BY <1>1, <1>2, <1>3, PTL DEF Spec, ReviewedRow

=============================================================================
