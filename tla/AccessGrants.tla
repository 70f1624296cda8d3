---------------------------- MODULE AccessGrants ----------------------------
(***************************************************************************)
(* The accesses of an organization in the Nucleus store, changed by        *)
(* approved proposals: grants and revocations of                           *)
(* app/repositories/nucleus_organization_repository.py (categories and     *)
(* reports, which have an IsActive column) and                             *)
(* nucleus_administration_repository.py (companies, drugs, indications and *)
(* markets, which do not: a tombstone revokes them, and an intent row      *)
(* guards their first grant), and the access package workflow of           *)
(* app/workplace_resources/workflows.py, which changes both.               *)
(*                                                                         *)
(* A row has its version in a sidecar table.  As in Memberships, the reads *)
(* of a session are outside its transaction, which begins with its first   *)
(* write and excludes other writers; the SELECTs that describe one access  *)
(* are one step.                                                           *)
(***************************************************************************)
EXTENDS Naturals, Sequences, FiniteSets

CONSTANTS
    Accesses,    \* what may be granted: a category, a drug, ...
    Managed,     \* those without an IsActive column
    Proposals,
    Plans,       \* what proposals ask for
    Founding     \* the rows the store may start with

Kinds == {"grant", "revoke", "package"}
Makers == {"seed", "grant", "package"}

\* A package has several entries, no two of them for one access.
Entry == [access : Accesses, active : BOOLEAN]
Plan == [kind : Kinds, entries : Seq(Entry)]

\* An access row with its version in the sidecar; its id is its place in the
\* table.  A managed row is active while it has no tombstone.
Row == [access : Accesses, active : BOOLEAN, version : Nat \ {0}, by : Makers]

ASSUME AccessAssumption ==
    /\ Managed \subseteq Accesses
    /\ \A plan \in Plans :
          /\ plan \in Plan
          /\ plan.entries # <<>>
          /\ plan.kind # "package" => Len(plan.entries) = 1
          /\ plan.kind = "grant" => plan.entries[1].active
          /\ plan.kind = "revoke" => ~plan.entries[1].active
          /\ \A i, j \in DOMAIN plan.entries :
                plan.entries[i].access = plan.entries[j].access => i = j
    /\ \A table \in Founding :
          /\ table \in Seq(Row)
          /\ \A i \in DOMAIN table : table[i].by = "seed"
          /\ \A i, j \in DOMAIN table : table[i].access = table[j].access => i = j

VARIABLES
    rows,        \* the access tables and the sidecar, a sequence of rows
    intents,     \* the managed accesses that have been granted for the first time
    sessions,    \* the proposals and what their executions have read
    outdated     \* the kinds of the changes that were made on an outdated check

vars == <<rows, intents, sessions, outdated>>

-----------------------------------------------------------------------------
(* Sessions.                                                               *)

\* What a preparation or a check has read of an access; id 0 is no row.
Reading == [id : Nat, active : BOOLEAN, version : Nat]
NoRow == [id |-> 0, active |-> FALSE, version |-> 0]

Session == [at    : {"none", "proposed", "revalidated", "checked", "loaded",
                     "done", "over"},
            plan  : Plan,
            view  : Seq(Reading),      \* of each entry, as approved
            read  : Reading,           \* of the first entry, by the execution
            dirty : BOOLEAN]           \* something has changed since that
NoPlan == [kind |-> "package", entries |-> <<>>]
NoSession == [at |-> "none", plan |-> NoPlan, view |-> <<>>, read |-> NoRow,
              dirty |-> FALSE]

Kind(p) == sessions[p].plan.kind
First(p) == sessions[p].plan.entries[1]
At(p, phase) == sessions[p].at = phase
Become(p, new) == sessions' = [sessions EXCEPT ![p] = new]

Init ==
    /\ rows \in Founding
    /\ intents = {}
    /\ sessions = [p \in Proposals |-> NoSession]
    /\ outdated = {}

-----------------------------------------------------------------------------
(* Preparations.                                                           *)

ReadingOf(id) ==
    IF id = 0 THEN NoRow
    ELSE [id |-> id, active |-> rows[id].active, version |-> rows[id].version]

RowsOf(access) == {id \in DOMAIN rows : rows[id].access = access}

\* ORDER BY id DESC, the first one.
Latest(access) ==
    LET ids == RowsOf(access)
    IN  IF ids = {} THEN NoRow
        ELSE ReadingOf(CHOOSE id \in ids : \A other \in ids : other <= id)

Latests(entries) == [i \in DOMAIN entries |-> Latest(entries[i].access)]

\* A revocation names a row; a grant and a package find the newest one.
Views(plan) ==
    IF plan.kind = "revoke" THEN {<<ReadingOf(id)>> : id \in RowsOf(plan.entries[1].access)}
    ELSE {Latests(plan.entries)}

\* Entries that would change nothing are refused or left out.
Changes(plan, view) ==
    \A i \in DOMAIN plan.entries : view[i].active # plan.entries[i].active

Propose(p) ==
    /\ At(p, "none")
    /\ \E plan \in Plans : \E view \in Views(plan) :
          /\ Changes(plan, view)
          /\ Become(p, [NoSession EXCEPT !.at = "proposed", !.plan = plan, !.view = view])
    /\ UNCHANGED <<rows, intents, outdated>>

\* What the same preparation reads now.
ViewNow(p) ==
    IF Kind(p) = "revoke" THEN <<ReadingOf(sessions[p].view[1].id)>>
    ELSE Latests(sessions[p].plan.entries)

\* The action service prepares again and compares; start_execution commits.
Revalidate(p) ==
    /\ At(p, "proposed")
    /\ ViewNow(p) = sessions[p].view
    /\ Become(p, [sessions[p] EXCEPT !.at = "revalidated"])
    /\ UNCHANGED <<rows, intents, outdated>>

-----------------------------------------------------------------------------
(* Executions.                                                             *)

\* Mutant: the version that was approved is not looked at.
SameVersionOrNot(p, reading) == TRUE

SameVersion(p, reading) == reading.version = sessions[p].view[1].version

\* A grant and a revocation read the access again, compare its version and
\* whether there is anything to change.
Check(p) ==
    /\ At(p, "revalidated") /\ Kind(p) # "package"
    /\ LET reading == ViewNow(p)[1]
       IN  /\ SameVersion(p, reading) /\ reading.active # First(p).active
           /\ Become(p, [sessions[p] EXCEPT !.at = "checked", !.read = reading])
    /\ UNCHANGED <<rows, intents, outdated>>

\* A package is prepared and compared once more ...
CheckPackage(p) ==
    /\ At(p, "revalidated") /\ Kind(p) = "package"
    /\ ViewNow(p) = sessions[p].view
    /\ Become(p, [sessions[p] EXCEPT !.at = "checked"])
    /\ UNCHANGED <<rows, intents, outdated>>

\* ... before it reads and compares its first entry again, with no write
\* before it; the other entries follow within the transaction.
SameRow(reading, shown) == reading.id = shown.id /\ reading.version = shown.version

Load(p) ==
    /\ At(p, "checked") /\ Kind(p) = "package"
    /\ LET reading == Latest(First(p).access)
       IN  /\ SameRow(reading, sessions[p].view[1])
           /\ Become(p, [sessions[p] EXCEPT !.at = "loaded", !.read = reading,
                                           !.dirty = FALSE])
    /\ UNCHANGED <<rows, intents, outdated>>

\* The last step of a transaction.  What the others have checked is outdated.
Commit(p) ==
    /\ sessions' = [q \in Proposals |->
          IF q = p THEN [NoSession EXCEPT !.at = "done"]
          ELSE IF sessions[q].at \in {"checked", "loaded"}
                 THEN [sessions[q] EXCEPT !.dirty = TRUE]
          ELSE sessions[q]]
    /\ outdated' = outdated \cup IF sessions[p].dirty THEN {Kind(p)} ELSE {}

NewRow(access, maker) == [access |-> access, active |-> TRUE, version |-> 1, by |-> maker]

\* Mutant: an intent for every access.
IntendAlways(access) == access \notin intents /\ intents' = intents \cup {access}

\* Mutant: the intent is not recorded.
IntendTwice(access) == UNCHANGED intents

\* The intent of a first grant has a primary key; categories and reports have
\* no such guard.
Intend(access) ==
    IF access \in Managed
      THEN access \notin intents /\ intents' = intents \cup {access}
      ELSE UNCHANGED intents

GrantNew(p) ==
    /\ At(p, "checked") /\ Kind(p) = "grant" /\ sessions[p].read = NoRow
    /\ Intend(First(p).access)
    /\ rows' = Append(rows, NewRow(First(p).access, "grant"))
    /\ Commit(p)

\* The UPDATE of the sidecar compares the version that was read; a tombstone
\* is deleted by a grant and inserted by a revocation, once.
Flip(p) ==
    LET id == sessions[p].read.id
    IN  /\ rows[id].version = sessions[p].read.version
        /\ First(p).access \in Managed => rows[id].active # First(p).active
        /\ rows' = [rows EXCEPT ![id].active = First(p).active, ![id].version = @ + 1]
        /\ Commit(p)
        /\ UNCHANGED intents

GrantAgain(p) ==
    /\ At(p, "checked") /\ Kind(p) = "grant" /\ sessions[p].read # NoRow
    /\ Flip(p)

Revoke(p) ==
    /\ At(p, "checked") /\ Kind(p) = "revoke"
    /\ Flip(p)

\* A package has read its first entry before its transaction, the others
\* within it.
Readings(p) ==
    [Latests(sessions[p].plan.entries) EXCEPT ![1] = sessions[p].read]

\* Mutant: the tombstone is left as it is.
OverwriteFlagOnly(row, reading, active) ==
    [row EXCEPT !.version = reading.version + 1,
                !.active = IF row.access \in Managed THEN @ ELSE active]

\* It writes the sidecar and the flag of the row it has loaded, without
\* comparing them; a flag only when it differs from the one that was loaded.
Overwrite(row, reading, active) ==
    [row EXCEPT !.version = reading.version + 1,
                !.active = IF row.access \notin Managed /\ active = reading.active
                             THEN @ ELSE active]

\* The entries without a row, in the order of the plan.
Missing(p) == {i \in DOMAIN Readings(p) : Readings(p)[i] = NoRow}
Orders(p) ==
    {order \in [1 .. Cardinality(Missing(p)) -> Missing(p)] :
        /\ \A i \in Missing(p) : \E j \in DOMAIN order : order[j] = i
        /\ \A j, k \in DOMAIN order : j < k => order[j] < order[k]}

\* The row of this place, as the package leaves it.
Applied(p, id) ==
    LET entries == sessions[p].plan.entries
        mine == {i \in DOMAIN entries : Readings(p)[i].id = id}
    IN  IF mine = {} THEN rows[id]
        ELSE LET i == CHOOSE i \in mine : TRUE
             IN  Overwrite(rows[id], Readings(p)[i], entries[i].active)

ApplyPackage(p) ==
    /\ At(p, "loaded")
    /\ \A i \in DOMAIN Readings(p) : SameRow(Readings(p)[i], sessions[p].view[i])
    /\ \E order \in Orders(p) :
          rows' = [id \in DOMAIN rows |-> Applied(p, id)]
                  \o [j \in DOMAIN order |->
                        NewRow(sessions[p].plan.entries[order[j]].access, "package")]
    /\ Commit(p)
    /\ UNCHANGED intents

\* A comparison that fails, an exception or a crash: nothing is written.
Fail(p) ==
    /\ sessions[p].at \in {"proposed", "revalidated", "checked", "loaded"}
    /\ Become(p, [NoSession EXCEPT !.at = "over"])
    /\ UNCHANGED <<rows, intents, outdated>>

Next ==
    \E p \in Proposals :
        \/ Propose(p) \/ Revalidate(p)
        \/ Check(p) \/ CheckPackage(p) \/ Load(p)
        \/ GrantNew(p) \/ GrantAgain(p) \/ Revoke(p) \/ ApplyPackage(p)
        \/ Fail(p)

Spec == Init /\ [][Next]_vars

-----------------------------------------------------------------------------
(* Properties.                                                             *)

\* Types of the rows, the intents and the sessions.
TypeOK ==
    /\ rows \in Seq(Row)
    /\ intents \subseteq Managed
    /\ sessions \in [Proposals -> Session]
    /\ outdated \subseteq Kinds

Active(access) == {id \in RowsOf(access) : rows[id].active}

\* Grants of a managed access never make a second row, however many of them
\* overlap (the intent of grant_access_if_version), and no access is granted
\* by two rows, of which a revocation would find one, unless a grant or a
\* package created one on an outdated check.
OneAccess ==
    /\ \A access \in Managed : \A id, other \in RowsOf(access) :
          rows[id].by = "grant" /\ rows[other].by = "grant" => id = other
    /\ outdated \cap {"grant", "package"} = {} =>
          \A access \in Accesses : \A id, other \in Active(access) : id = other

\* What was shown for an entry of a proposal is what this row holds.  Where an
\* access has two rows, a grant takes the one for the other, because it compares
\* the version only.
Shows(p, i, id) ==
    LET shown == sessions[p].view[i]
    IN  /\ shown.id \in RowsOf(rows[id].access)
        /\ shown.active = rows[id].active /\ shown.version = rows[id].version

ReviewedChange ==
    "package" \notin outdated' =>
        \A id \in DOMAIN rows : rows'[id] # rows[id] =>
            \E p \in Proposals :
                /\ sessions'[p].at = "done" /\ sessions[p].at # "done"
                /\ \E i \in DOMAIN sessions[p].view : Shows(p, i, id)

\* A row is changed only by a proposal that showed exactly what it holds, for
\* any overlap of grants and revocations, unless a package was applied on an
\* outdated check.
ReviewedAccess == [][ReviewedChange]_vars

Wanted(p, access, active) ==
    [access |-> access, active |-> active] \in
        {sessions[p].plan.entries[i] : i \in DOMAIN sessions[p].plan.entries}

ApprovedOutcome ==
    outdated' \cap {"grant", "package"} = {} =>
        \A p \in Proposals :
            sessions'[p].at = "done" /\ sessions[p].at # "done" =>
                \A access \in Accesses :
                    /\ Wanted(p, access, TRUE) => Active(access)' # {}
                    /\ Wanted(p, access, FALSE) => Active(access)' = {}

\* What was approved is so when the execution has committed: every entry of a
\* package, or none, and for a revocation no row of the access is left, unless
\* a row was created on an outdated check.
ApprovedIsSo == [][ApprovedOutcome]_vars
=============================================================================
