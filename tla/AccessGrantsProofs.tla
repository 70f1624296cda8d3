-------------------------- MODULE AccessGrantsProofs --------------------------
(* Theorems about AccessGrants, for any accesses, proposals, plans and      *)
(* founding rows.                                                           *)
EXTENDS AccessGrants, FiniteSetTheorems, WellFoundedInduction, TLAPS

-----------------------------------------------------------------------------
(* Lemmas about the data.                                                   *)

\* A set of places in a table has a largest one.
LEMMA LargestExists ==
    ASSUME NEW n \in Nat, NEW ids \in SUBSET (1 .. n), ids # {}
    PROVE  \E id \in ids : \A other \in ids : other <= id
<1> DEFINE rest(id) == id .. n
           rests == {rest(id) : id \in ids}
           order == StrictSubsetOrdering(1 .. n)
<1>1. IsFiniteSet(1 .. n)
  BY FS_Interval
<1>2. \A id \in ids : rest(id) \in SUBSET (1 .. n)
  OBVIOUS
<1>3. FiniteSubsetsOf(1 .. n) = SUBSET (1 .. n)
  BY <1>1, FS_FiniteSubsetsOfFinite
<1>4. rests \subseteq FiniteSubsetsOf(1 .. n) /\ rests # {}
  <2>1. \A id \in ids : rest(id) \in FiniteSubsetsOf(1 .. n)
    BY <1>2, <1>3
  <2>2. PICK some \in ids : TRUE
    OBVIOUS
  <2>3. rest(some) \in rests
    OBVIOUS
  <2> HIDE DEF rest
  <2> QED
    BY <2>1, <2>3
<1>5. IsWellFoundedOn(order, FiniteSubsetsOf(1 .. n))
  BY <1>1, FS_StrictSubsetOrderingWellFounded
<1>6. PICK least \in rests : \A other \in rests : ~(<<other, least>> \in order)
  <2> HIDE DEF rests, order
  <2> QED
    BY <1>4, <1>5, WFMin
<1>7. PICK id \in ids : least = rest(id)
  OBVIOUS
<1>8. ASSUME NEW other \in ids PROVE other <= id
  <2> SUFFICES ASSUME id < other PROVE FALSE
    OBVIOUS
  <2>1. rest(other) \subseteq rest(id) /\ id \in rest(id) /\ id \notin rest(other)
    OBVIOUS
  <2>2. <<rest(other), rest(id)>> \in order
    BY <1>2, <2>1 DEF StrictSubsetOrdering
  <2> QED
    BY <1>6, <1>7, <2>2
<1> QED
  BY <1>8

LEMMA PlanTyped ==
    ASSUME NEW plan \in Plans
    PROVE  /\ plan \in Plan /\ plan.kind \in Kinds
           /\ plan.entries \in Seq(Entry) /\ Len(plan.entries) \in Nat
           /\ DOMAIN plan.entries = 1 .. Len(plan.entries)
           /\ 1 \in DOMAIN plan.entries
           /\ \A i \in DOMAIN plan.entries :
                 /\ plan.entries[i] \in Entry
                 /\ plan.entries[i].access \in Accesses
                 /\ plan.entries[i].active \in BOOLEAN
<1>1. plan \in Plan /\ plan.entries # <<>>
  BY AccessAssumption
<1>2. plan.kind \in Kinds /\ plan.entries \in Seq(Entry)
  BY <1>1 DEF Plan
<1>3. 1 \in DOMAIN plan.entries
  BY <1>1, <1>2
<1>4. \A i \in DOMAIN plan.entries : plan.entries[i] \in Entry
  BY <1>2
<1> QED
  BY <1>1, <1>2, <1>3, <1>4 DEF Entry

LEMMA RowsTyped ==
    ASSUME rows \in Seq(Row)
    PROVE  /\ Len(rows) \in Nat /\ DOMAIN rows = 1 .. Len(rows)
           /\ \A id \in DOMAIN rows :
                 /\ rows[id] \in Row /\ id \in Nat \ {0}
                 /\ rows[id].access \in Accesses
                 /\ rows[id].active \in BOOLEAN
                 /\ rows[id].version \in Nat \ {0}
                 /\ rows[id].by \in Makers
                 /\ ReadingOf(id) \in Reading
                 /\ ReadingOf(id).id = id
                 /\ ReadingOf(id).active = rows[id].active
                 /\ ReadingOf(id).version = rows[id].version
<1>1. \A id \in DOMAIN rows : rows[id] \in Row
  OBVIOUS
<1> QED
  BY <1>1 DEF Row, Reading, ReadingOf

\* The newest row of an access, or none.
LEMMA LatestIs ==
    ASSUME rows \in Seq(Row), NEW access
    PROVE  \/ RowsOf(access) = {} /\ Latest(access) = NoRow
           \/ \E id \in RowsOf(access) : Latest(access) = ReadingOf(id)
<1> DEFINE ids == RowsOf(access)
<1>1. ids \in SUBSET (1 .. Len(rows)) /\ Len(rows) \in Nat
  BY RowsTyped DEF RowsOf
<1>2. CASE ids = {}
  BY <1>2 DEF Latest
<1>3. CASE ids # {}
  <2>1. \E id \in ids : \A other \in ids : other <= id
    BY <1>1, <1>3, LargestExists
  <2> QED
    BY <1>3, <2>1 DEF Latest
<1> QED
  BY <1>2, <1>3

\* A reading that stands for a row of the access, or for none.
Stands(reading, access) ==
    /\ reading \in Reading
    /\ reading = NoRow \/ (reading.id \in RowsOf(access) /\ reading.version # 0)

LEMMA NoRowStands == \A access : NoRow.id = 0 /\ ~NoRow.active /\ NoRow.version = 0
                                 /\ Stands(NoRow, access)
  BY DEF NoRow, Stands, Reading

LEMMA ReadingStands ==
    ASSUME rows \in Seq(Row), NEW access, NEW id \in RowsOf(access)
    PROVE  Stands(ReadingOf(id), access) /\ ReadingOf(id) # NoRow
  BY RowsTyped DEF RowsOf, Stands, NoRow

LEMMA LatestStands ==
    ASSUME rows \in Seq(Row), NEW access
    PROVE  /\ Stands(Latest(access), access)
           /\ (Latest(access) = NoRow) <=> (RowsOf(access) = {})
           /\ Latest(access) # NoRow =>
                 /\ Latest(access).id \in RowsOf(access)
                 /\ Latest(access) = ReadingOf(Latest(access).id)
<1>1. CASE RowsOf(access) = {} /\ Latest(access) = NoRow
  BY <1>1, NoRowStands
<1>2. CASE \E id \in RowsOf(access) : Latest(access) = ReadingOf(id)
  <2>1. PICK id \in RowsOf(access) : Latest(access) = ReadingOf(id)
    BY <1>2
  <2>2. ReadingOf(id).id = id
    BY RowsTyped DEF RowsOf
  <2> QED
    BY <2>1, <2>2, ReadingStands
<1> QED
  BY <1>1, <1>2, LatestIs

-----------------------------------------------------------------------------
(* The inductive invariant.                                                 *)

Live == {"proposed", "revalidated", "checked", "loaded"}

\* The sessions that have read the access for the last time before they write:
\* grants and revocations when checked, packages when loaded.
ReadLast(s) == s.at = "loaded" \/ (s.at = "checked" /\ s.plan.kind # "package")

\* A session that has begun has a plan, and shows each entry of it.
Planned(s) ==
    s.at \in Live =>
        /\ s.plan \in Plans
        /\ DOMAIN s.view = DOMAIN s.plan.entries
        /\ Changes(s.plan, s.view)
        /\ s.at = "loaded" => s.plan.kind = "package"

\* What it shows and what it has read stands for a row of the access.
Placed(s) ==
    /\ s.at \in Live =>
          \A i \in DOMAIN s.plan.entries : Stands(s.view[i], s.plan.entries[i].access)
    /\ ReadLast(s) => Stands(s.read, s.plan.entries[1].access)

\* A checked grant or revocation has read what was approved.
Reviewed(s) ==
    s.at = "checked" /\ s.plan.kind # "package" =>
        /\ s.read.version = s.view[1].version
        /\ s.read.active # s.plan.entries[1].active
        /\ s.plan.kind = "revoke" => s.read # NoRow

\* A reading of what there is now.
Current(reading, access) ==
    \/ RowsOf(access) = {} /\ reading = NoRow
    \/ reading.id \in RowsOf(access) /\ reading = ReadingOf(reading.id)

\* What no other session has made outdated is what there is.
Fresh(s) ==
    ReadLast(s) /\ ~s.dirty /\ s.plan.kind # "revoke" =>
        Current(s.read, s.plan.entries[1].access)

\* A version stands for one state of a row.
Honest(reading) ==
    reading # NoRow =>
        /\ reading.version <= rows[reading.id].version
        /\ reading.version = rows[reading.id].version =>
              reading.active = rows[reading.id].active

Canonical(s) ==
    /\ s.at \in Live => \A i \in DOMAIN s.plan.entries : Honest(s.view[i])
    /\ ReadLast(s) => Honest(s.read)

Sound(s) ==
    /\ Planned(s) /\ Placed(s) /\ Reviewed(s) /\ Fresh(s)
    /\ "package" \notin outdated => Canonical(s)

\* One row for an access, and one intent for each first grant of a managed one.
Single ==
    outdated \cap {"grant", "package"} = {} =>
        \A id, other \in DOMAIN rows : rows[id].access = rows[other].access => id = other

Intended ==
    \A id \in DOMAIN rows : rows[id].by = "grant" /\ rows[id].access \in Managed =>
        /\ rows[id].access \in intents
        /\ \A other \in DOMAIN rows :
              rows[other].by = "grant" /\ rows[other].access = rows[id].access => other = id

Sounds == \A p \in Proposals : Sound(sessions[p])

IInv == TypeOK /\ Sounds /\ Single /\ Intended

LEMMA NoSessionTyped ==
    /\ NoSession \in Session
    /\ NoSession.at = "none" /\ ~NoSession.dirty
  BY DEF NoSession, Session, NoPlan, NoRow, Plan, Kinds, Reading

LEMMA OverIsSound ==
    ASSUME NEW s, s.at \notin Live
    PROVE  Sound(s)
  BY DEF Sound, Planned, Placed, Reviewed, Fresh, Canonical, ReadLast, Live

LEMMA InitHolds == Init => IInv
<1> SUFFICES ASSUME Init PROVE IInv
  OBVIOUS
<1>1. TypeOK
  BY AccessAssumption, NoSessionTyped DEF Init, TypeOK
<1>2. \A p \in Proposals : sessions[p].at \notin Live
  BY NoSessionTyped DEF Init, Live
<1>3. Sounds
  BY <1>2, OverIsSound DEF Sounds
<1>4. Single
  BY AccessAssumption DEF Init, Single
<1>5. Intended
  BY AccessAssumption DEF Init, Intended
<1> QED
  BY <1>1, <1>3, <1>4, <1>5 DEF IInv

\* What the invariant says of a live session, for use in the steps.
LEMMA SessionFacts ==
    ASSUME TypeOK, Sounds, NEW p \in Proposals, sessions[p].at \in Live
    PROVE  /\ sessions[p] \in Session
           /\ sessions[p].plan \in Plans /\ Kind(p) \in Kinds
           /\ First(p) \in Entry /\ First(p).access \in Accesses
           /\ First(p).active \in BOOLEAN
           /\ 1 \in DOMAIN sessions[p].plan.entries
           /\ sessions[p].view \in Seq(Reading)
           /\ Kind(p) = "grant" => First(p).active
           /\ Kind(p) = "revoke" => ~First(p).active
           /\ Kind(p) # "package" => DOMAIN sessions[p].plan.entries = {1}
<1>1. sessions[p] \in Session /\ sessions[p].plan \in Plans
  BY DEF TypeOK, Sounds, Sound, Planned
<1>2. /\ Kind(p) \in Kinds /\ First(p) \in Entry /\ First(p).access \in Accesses
      /\ First(p).active \in BOOLEAN /\ 1 \in DOMAIN sessions[p].plan.entries
  BY <1>1, PlanTyped DEF Kind, First
<1>3. sessions[p].view \in Seq(Reading)
  BY <1>1 DEF Session
<1>4. /\ Kind(p) = "grant" => First(p).active
      /\ Kind(p) = "revoke" => ~First(p).active
      /\ Kind(p) # "package" => Len(sessions[p].plan.entries) = 1
  BY <1>1, AccessAssumption DEF Kind, First
<1>5. DOMAIN sessions[p].plan.entries = 1 .. Len(sessions[p].plan.entries)
  BY <1>1, PlanTyped
<1>6. 1 .. 1 = {1}
  OBVIOUS
<1>7. Kind(p) # "package" => DOMAIN sessions[p].plan.entries = {1}
  BY <1>4, <1>5, <1>6
<1> QED
  BY <1>1, <1>2, <1>3, <1>4, <1>7

-----------------------------------------------------------------------------
(* The steps that write nothing.                                            *)

LEMMA SoundStays ==
    ASSUME NEW p \in Proposals, NEW s, sessions'[p] = s, Sound(s),
           UNCHANGED <<rows, outdated>>
    PROVE  Sound(sessions[p])'
<1>1. \A access : RowsOf(access)' = RowsOf(access)
  BY DEF RowsOf
<1>2. \A id : ReadingOf(id)' = ReadingOf(id)
  BY DEF ReadingOf
<1> QED
  BY <1>1, <1>2 DEF Sound, Planned, Placed, Reviewed, Fresh, Canonical, ReadLast,
     Changes, Stands, Current, Honest, RowsOf, ReadingOf

LEMMA BecomeSound ==
    ASSUME IInv, NEW p \in Proposals, NEW new \in Session, Sound(new),
           Become(p, new), UNCHANGED <<rows, intents, outdated>>
    PROVE  IInv'
<1>1. TypeOK'
  BY DEF IInv, TypeOK, Become
<1>2. Sounds'
  <2> SUFFICES ASSUME NEW q \in Proposals PROVE Sound(sessions[q])'
    BY DEF Sounds
  <2>1. CASE q = p
    <3>1. sessions'[q] = new
      BY <2>1 DEF IInv, TypeOK, Become
    <3> QED
      BY <3>1, SoundStays
  <2>2. CASE q # p
    <3>1. sessions'[q] = sessions[q] /\ Sound(sessions[q])
      BY <2>2 DEF IInv, TypeOK, Sounds, Become
    <3> QED
      BY <3>1, SoundStays
  <2> QED
    BY <2>1, <2>2
<1>3. Single' /\ Intended'
  BY DEF IInv, Single, Intended
<1> QED
  BY <1>1, <1>2, <1>3 DEF IInv

LEMMA ReadingHonest ==
    ASSUME rows \in Seq(Row), NEW id \in DOMAIN rows
    PROVE  Honest(ReadingOf(id))
<1>1. /\ ReadingOf(id).id = id /\ ReadingOf(id).version = rows[id].version
      /\ ReadingOf(id).active = rows[id].active /\ rows[id].version \in Nat
  BY RowsTyped
<1> QED
  BY <1>1 DEF Honest

LEMMA LatestFacts ==
    ASSUME rows \in Seq(Row), NEW access
    PROVE  /\ Latest(access) \in Reading
           /\ Stands(Latest(access), access)
           /\ Current(Latest(access), access)
           /\ Honest(Latest(access))
<1>1. Stands(Latest(access), access)
  BY LatestStands
<1>2. Current(Latest(access), access)
  BY LatestStands DEF Current
<1>3. Honest(Latest(access))
  <2>1. CASE Latest(access) = NoRow
    BY <2>1 DEF Honest
  <2>2. CASE Latest(access) # NoRow
    <3>1. /\ Latest(access).id \in DOMAIN rows
          /\ Latest(access) = ReadingOf(Latest(access).id)
      BY <2>2, LatestStands DEF RowsOf
    <3> QED
      BY <3>1, ReadingHonest
  <2> QED
    BY <2>1, <2>2
<1> QED
  BY <1>1, <1>2, <1>3 DEF Stands

\* What a preparation shows.
LEMMA ViewFacts ==
    ASSUME rows \in Seq(Row), NEW plan \in Plans, NEW view \in Views(plan)
    PROVE  /\ view \in Seq(Reading) /\ DOMAIN view = DOMAIN plan.entries
           /\ \A i \in DOMAIN plan.entries :
                 Stands(view[i], plan.entries[i].access) /\ Honest(view[i])
<1>1. CASE plan.kind = "revoke"
  <2>1. PICK id \in RowsOf(plan.entries[1].access) : view = <<ReadingOf(id)>>
    BY <1>1 DEF Views
  <2>2. id \in DOMAIN rows
    BY DEF RowsOf
  <2>3. /\ ReadingOf(id) \in Reading /\ Stands(ReadingOf(id), plan.entries[1].access)
        /\ Honest(ReadingOf(id))
    BY <2>2, RowsTyped, ReadingStands, ReadingHonest
  <2>4. Len(plan.entries) = 1 /\ plan.entries \in Seq(Entry)
    BY <1>1, PlanTyped, AccessAssumption
  <2>5. DOMAIN plan.entries = {1} /\ DOMAIN view = {1} /\ view[1] = ReadingOf(id)
    BY <2>1, <2>4
  <2>6. view \in Seq(Reading)
    BY <2>1, <2>3
  <2> QED
    BY <2>3, <2>5, <2>6
<1>2. CASE plan.kind # "revoke"
  <2>1. view = [i \in DOMAIN plan.entries |-> Latest(plan.entries[i].access)]
    BY <1>2 DEF Views, Latests
  <2>2. ASSUME NEW i \in DOMAIN plan.entries
        PROVE  /\ view[i] \in Reading /\ Stands(view[i], plan.entries[i].access)
               /\ Honest(view[i])
    BY <2>1, LatestFacts
  <2>3. view \in [1 .. Len(plan.entries) -> Reading] /\ Len(plan.entries) \in Nat
    BY <2>1, <2>2, PlanTyped
  <2>4. view \in Seq(Reading)
    BY <2>3
  <2> QED
    BY <2>1, <2>2, <2>4
<1> QED
  BY <1>1, <1>2

LEMMA ProposeKeeps ==
    ASSUME IInv, NEW p \in Proposals, Propose(p)
    PROVE  IInv'
<1>0. PICK plan \in Plans : \E view \in Views(plan) :
          /\ Changes(plan, view)
          /\ Become(p, [NoSession EXCEPT !.at = "proposed", !.plan = plan, !.view = view])
  BY DEF Propose
<1>1. PICK view \in Views(plan) :
          /\ Changes(plan, view)
          /\ Become(p, [NoSession EXCEPT !.at = "proposed", !.plan = plan, !.view = view])
  BY <1>0
<1> DEFINE new == [NoSession EXCEPT !.at = "proposed", !.plan = plan, !.view = view]
<1>2. /\ view \in Seq(Reading) /\ DOMAIN view = DOMAIN plan.entries
      /\ \A i \in DOMAIN plan.entries :
            Stands(view[i], plan.entries[i].access) /\ Honest(view[i])
  BY ViewFacts DEF IInv, TypeOK
<1>3. plan \in Plan
  BY PlanTyped
<1>4. new \in Session /\ new.at = "proposed" /\ new.plan = plan /\ new.view = view
  BY <1>2, <1>3, NoSessionTyped DEF Session
<1>5. Become(p, new) /\ UNCHANGED <<rows, intents, outdated>>
  BY <1>1 DEF Propose
<1> HIDE DEF new
<1>6. Sound(new)
  BY <1>1, <1>2, <1>4 DEF Sound, Planned, Placed, Reviewed, Fresh, Canonical, ReadLast
<1> QED
  BY <1>4, <1>5, <1>6, BecomeSound

LEMMA RevalidateKeeps ==
    ASSUME IInv, NEW p \in Proposals, Revalidate(p)
    PROVE  IInv'
<1> DEFINE new == [sessions[p] EXCEPT !.at = "revalidated"]
<1>1. sessions[p] \in Session /\ Sound(sessions[p]) /\ sessions[p].at = "proposed"
  BY DEF Revalidate, At, IInv, TypeOK, Sounds
<1>2. /\ new \in Session /\ new.at = "revalidated"
      /\ new.plan = sessions[p].plan /\ new.view = sessions[p].view
  BY <1>1 DEF Session
<1>3. Become(p, new) /\ UNCHANGED <<rows, intents, outdated>>
  BY DEF Revalidate
<1> HIDE DEF new
<1>4. Sound(new)
  BY <1>1, <1>2 DEF Sound, Planned, Placed, Reviewed, Fresh, Canonical, ReadLast, Live
<1> QED
  BY <1>2, <1>3, <1>4, BecomeSound

LEMMA CheckPackageKeeps ==
    ASSUME IInv, NEW p \in Proposals, CheckPackage(p)
    PROVE  IInv'
<1> DEFINE new == [sessions[p] EXCEPT !.at = "checked"]
<1>1. /\ sessions[p] \in Session /\ Sound(sessions[p])
      /\ sessions[p].at = "revalidated" /\ sessions[p].plan.kind = "package"
  BY DEF CheckPackage, At, Kind, IInv, TypeOK, Sounds
<1>2. /\ new \in Session /\ new.at = "checked"
      /\ new.plan = sessions[p].plan /\ new.view = sessions[p].view
  BY <1>1 DEF Session
<1>3. Become(p, new) /\ UNCHANGED <<rows, intents, outdated>>
  BY DEF CheckPackage
<1> HIDE DEF new
<1>4. Sound(new)
  BY <1>1, <1>2 DEF Sound, Planned, Placed, Reviewed, Fresh, Canonical, ReadLast, Live
<1> QED
  BY <1>2, <1>3, <1>4, BecomeSound

LEMMA FailKeeps ==
    ASSUME IInv, NEW p \in Proposals, Fail(p)
    PROVE  IInv'
<1> DEFINE new == [NoSession EXCEPT !.at = "over"]
<1>1. new \in Session /\ new.at = "over"
  BY NoSessionTyped DEF Session
<1>2. Become(p, new) /\ UNCHANGED <<rows, intents, outdated>>
  BY DEF Fail
<1> HIDE DEF new
<1>3. Sound(new)
  BY <1>1, OverIsSound DEF Live
<1> QED
  BY <1>1, <1>2, <1>3, BecomeSound

\* What a check of a grant or a revocation reads.
LEMMA CheckReads ==
    ASSUME IInv, NEW p \in Proposals, sessions[p].at = "revalidated", Kind(p) # "package"
    PROVE  /\ ViewNow(p)[1] \in Reading
           /\ Stands(ViewNow(p)[1], First(p).access) /\ Honest(ViewNow(p)[1])
           /\ Kind(p) = "revoke" => ViewNow(p)[1] # NoRow
           /\ Kind(p) = "grant" => Current(ViewNow(p)[1], First(p).access)
<1>1. /\ rows \in Seq(Row) /\ Kind(p) \in Kinds /\ 1 \in DOMAIN sessions[p].plan.entries
      /\ First(p).active \in BOOLEAN
      /\ Kind(p) = "revoke" => ~First(p).active
  BY SessionFacts DEF IInv, TypeOK, Live
<1>2. /\ Stands(sessions[p].view[1], First(p).access)
      /\ sessions[p].view[1].active # First(p).active
  BY <1>1 DEF IInv, Sounds, Sound, Planned, Placed, Changes, Live, First
<1>3. CASE Kind(p) = "revoke"
  <2> DEFINE id == sessions[p].view[1].id
  <2>0. sessions[p].view[1] # NoRow
    <3>1. First(p).active = FALSE /\ NoRow.active = FALSE
      BY <1>1, <1>3 DEF NoRow
    <3> QED
      BY <1>2, <3>1
  <2>1. id \in RowsOf(First(p).access)
    BY <1>2, <2>0 DEF Stands
  <2>2. ViewNow(p)[1] = ReadingOf(id)
    BY <1>3 DEF ViewNow
  <2>3. id \in DOMAIN rows
    BY <2>1 DEF RowsOf
  <2>4. /\ ReadingOf(id) \in Reading /\ Stands(ReadingOf(id), First(p).access)
        /\ ReadingOf(id) # NoRow /\ Honest(ReadingOf(id))
    BY <1>1, <2>1, <2>3, RowsTyped, ReadingStands, ReadingHonest
  <2> QED
    BY <1>3, <2>2, <2>4
<1>4. CASE Kind(p) = "grant"
  <2>1. ViewNow(p)[1] = Latest(First(p).access)
    BY <1>1, <1>4 DEF ViewNow, Latests, First
  <2> QED
    BY <1>1, <1>4, <2>1, LatestFacts
<1> QED
  BY <1>1, <1>3, <1>4 DEF Kinds

LEMMA CheckKeeps ==
    ASSUME IInv, NEW p \in Proposals, Check(p)
    PROVE  IInv'
<1> DEFINE reading == ViewNow(p)[1]
           new == [sessions[p] EXCEPT !.at = "checked", !.read = reading]
<1>1. /\ sessions[p] \in Session /\ Sound(sessions[p])
      /\ sessions[p].at = "revalidated" /\ sessions[p].plan.kind # "package"
      /\ reading.version = sessions[p].view[1].version
      /\ reading.active # sessions[p].plan.entries[1].active
  BY DEF Check, At, Kind, First, SameVersion, IInv, TypeOK, Sounds
<1>2. /\ reading \in Reading
      /\ Stands(reading, sessions[p].plan.entries[1].access) /\ Honest(reading)
      /\ sessions[p].plan.kind = "revoke" => reading # NoRow
      /\ sessions[p].plan.kind = "grant" =>
            Current(reading, sessions[p].plan.entries[1].access)
  BY <1>1, CheckReads DEF Kind, First
<1>3. Become(p, new) /\ UNCHANGED <<rows, intents, outdated>>
  BY DEF Check
<1>4. sessions[p].plan.kind \in Kinds
  BY <1>1, SessionFacts DEF IInv, Live, Kind
<1> HIDE DEF reading
<1>5. /\ new \in Session /\ new.at = "checked" /\ new.read = reading
      /\ new.plan = sessions[p].plan /\ new.view = sessions[p].view
  BY <1>1, <1>2 DEF Session
<1> HIDE DEF new
<1>6. Planned(new) /\ Placed(new) /\ Reviewed(new)
  BY <1>1, <1>2, <1>5 DEF Sound, Planned, Placed, Reviewed, ReadLast, Live
<1>7. Fresh(new)
  BY <1>1, <1>2, <1>4, <1>5 DEF Fresh, Kinds
<1>8. "package" \notin outdated => Canonical(new)
  BY <1>1, <1>2, <1>5 DEF Sound, Canonical, ReadLast, Live
<1>9. Sound(new)
  BY <1>6, <1>7, <1>8 DEF Sound
<1> QED
  BY <1>3, <1>5, <1>9, BecomeSound

LEMMA LoadKeeps ==
    ASSUME IInv, NEW p \in Proposals, Load(p)
    PROVE  IInv'
<1> DEFINE reading == Latest(First(p).access)
           new == [sessions[p] EXCEPT !.at = "loaded", !.read = reading, !.dirty = FALSE]
<1>1. /\ sessions[p] \in Session /\ Sound(sessions[p])
      /\ sessions[p].at = "checked" /\ sessions[p].plan.kind = "package"
  BY DEF Load, At, Kind, IInv, TypeOK, Sounds
<1>2. /\ reading \in Reading /\ Honest(reading)
      /\ Stands(reading, sessions[p].plan.entries[1].access)
      /\ Current(reading, sessions[p].plan.entries[1].access)
  BY LatestFacts DEF IInv, TypeOK, First
<1>3. Become(p, new) /\ UNCHANGED <<rows, intents, outdated>>
  BY DEF Load
<1> HIDE DEF reading
<1>4. /\ new \in Session /\ new.at = "loaded" /\ new.read = reading
      /\ new.plan = sessions[p].plan /\ new.view = sessions[p].view
  BY <1>1, <1>2 DEF Session
<1> HIDE DEF new
<1>5. Planned(new) /\ Placed(new) /\ Reviewed(new) /\ Fresh(new)
  BY <1>1, <1>2, <1>4 DEF Sound, Planned, Placed, Reviewed, Fresh, ReadLast, Live
<1>6. "package" \notin outdated => Canonical(new)
  BY <1>1, <1>2, <1>4 DEF Sound, Canonical, ReadLast, Live
<1>7. Sound(new)
  BY <1>5, <1>6 DEF Sound
<1> QED
  BY <1>3, <1>4, <1>7, BecomeSound

-----------------------------------------------------------------------------
(* The steps that commit.                                                   *)

\* Rows are never removed, and keep their access and their maker ...
Kept ==
    /\ rows' \in Seq(Row)
    /\ \A id \in DOMAIN rows :
          /\ id \in DOMAIN rows'
          /\ rows'[id].access = rows[id].access /\ rows'[id].by = rows[id].by

\* ... and a change of a row takes its next version.
Advanced ==
    \A id \in DOMAIN rows :
        rows'[id] # rows[id] => rows'[id].version = rows[id].version + 1

LEMMA CommitMarks ==
    ASSUME TypeOK, NEW p \in Proposals, Commit(p)
    PROVE  /\ sessions'[p].at = "done"
           /\ \A q \in Proposals \ {p} :
                 /\ sessions'[q].at = sessions[q].at
                 /\ sessions'[q].plan = sessions[q].plan
                 /\ sessions'[q].view = sessions[q].view
                 /\ sessions'[q].read = sessions[q].read
                 /\ sessions[q].at \in {"checked", "loaded"} => sessions'[q].dirty
           /\ outdated \subseteq outdated'
           /\ Kind(p) \notin outdated' => ~sessions[p].dirty
<1>1. [NoSession EXCEPT !.at = "done"].at = "done"
  BY DEF NoSession
<1>2. ASSUME NEW q \in Proposals
      PROVE  /\ [sessions[q] EXCEPT !.dirty = TRUE].at = sessions[q].at
             /\ [sessions[q] EXCEPT !.dirty = TRUE].plan = sessions[q].plan
             /\ [sessions[q] EXCEPT !.dirty = TRUE].view = sessions[q].view
             /\ [sessions[q] EXCEPT !.dirty = TRUE].read = sessions[q].read
             /\ [sessions[q] EXCEPT !.dirty = TRUE].dirty
  <2>1. sessions[q] \in Session
    BY DEF TypeOK
  <2> QED
    BY <2>1 DEF Session
<1>3. sessions' = [q \in Proposals |->
          IF q = p THEN [NoSession EXCEPT !.at = "done"]
          ELSE IF sessions[q].at \in {"checked", "loaded"}
                 THEN [sessions[q] EXCEPT !.dirty = TRUE]
          ELSE sessions[q]]
  BY DEF Commit
<1>4. outdated' = outdated \cup IF sessions[p].dirty THEN {Kind(p)} ELSE {}
  BY DEF Commit
<1> QED
  BY <1>1, <1>2, <1>3, <1>4

LEMMA CommitTyped ==
    ASSUME TypeOK, NEW p \in Proposals, Kind(p) \in Kinds, Commit(p)
    PROVE  sessions' \in [Proposals -> Session] /\ outdated' \subseteq Kinds
<1> DEFINE ended == [NoSession EXCEPT !.at = "done"]
           marked(q) == [sessions[q] EXCEPT !.dirty = TRUE]
<1>1. ended \in Session
  BY NoSessionTyped DEF Session
<1>2. ASSUME NEW q \in Proposals PROVE marked(q) \in Session
  <2>1. sessions[q] \in Session
    BY DEF TypeOK
  <2> QED
    BY <2>1 DEF Session
<1>3. sessions' = [q \in Proposals |->
          IF q = p THEN ended
          ELSE IF sessions[q].at \in {"checked", "loaded"} THEN marked(q) ELSE sessions[q]]
  BY DEF Commit
<1> HIDE DEF ended, marked
<1> QED
  BY <1>1, <1>2, <1>3 DEF Commit, TypeOK

\* What others have seen remains as true as it must be.
LEMMA CommitSound ==
    ASSUME TypeOK, Sounds, NEW p \in Proposals, Commit(p),
           Kept, "package" \notin outdated' => Advanced
    PROVE  Sounds'
<1> SUFFICES ASSUME NEW q \in Proposals PROVE Sound(sessions[q])'
  BY DEF Sounds
<1>1. CASE q = p
  <2>1. sessions'[q].at = "done"
    BY <1>1, CommitMarks
  <2> QED
    BY <2>1 DEF Sound, Planned, Placed, Reviewed, Fresh, Canonical, ReadLast, Live
<1>2. CASE q # p
  <2>1. /\ sessions'[q].at = sessions[q].at /\ sessions'[q].plan = sessions[q].plan
        /\ sessions'[q].view = sessions[q].view /\ sessions'[q].read = sessions[q].read
        /\ sessions[q].at \in {"checked", "loaded"} => sessions'[q].dirty
        /\ outdated \subseteq outdated'
    BY <1>2, CommitMarks
  <2>2. Sound(sessions[q])
    BY DEF Sounds
  <2>3. Planned(sessions[q])' /\ Reviewed(sessions[q])'
    BY <2>1, <2>2 DEF Sound, Planned, Reviewed, Changes
  <2>4. \A access : RowsOf(access) \subseteq RowsOf(access)'
    BY DEF Kept, RowsOf
  <2>5. Placed(sessions[q])'
    BY <2>1, <2>2, <2>4 DEF Sound, Placed, Stands, ReadLast
  <2>6. Fresh(sessions[q])'
    BY <2>1 DEF Fresh, ReadLast
  <2>7. ASSUME "package" \notin outdated' PROVE Canonical(sessions[q])'
    <3>1. ASSUME NEW reading, NEW access, Stands(reading, access), Honest(reading)
          PROVE  reading # NoRow =>
                    /\ reading.version <= rows'[reading.id].version
                    /\ reading.version = rows'[reading.id].version =>
                          reading.active = rows'[reading.id].active
      <4> SUFFICES ASSUME reading # NoRow
                   PROVE  /\ reading.version <= rows'[reading.id].version
                          /\ reading.version = rows'[reading.id].version =>
                                reading.active = rows'[reading.id].active
        OBVIOUS
      <4>1. reading.id \in DOMAIN rows /\ reading.version \in Nat
        BY <3>1 DEF Stands, Reading, RowsOf
      <4>2. rows[reading.id].version \in Nat
        BY <4>1, RowsTyped DEF TypeOK
      <4>3. \/ rows'[reading.id] = rows[reading.id]
            \/ rows'[reading.id].version = rows[reading.id].version + 1
        BY <2>7, <4>1 DEF Advanced
      <4>4. /\ reading.version <= rows[reading.id].version
            /\ reading.version = rows[reading.id].version =>
                  reading.active = rows[reading.id].active
        BY <3>1 DEF Honest
      <4> QED
        BY <4>1, <4>2, <4>3, <4>4
    <3>2. Canonical(sessions[q]) /\ Placed(sessions[q])
      BY <2>1, <2>2, <2>7 DEF Sound
    <3> QED
      BY <2>1, <3>1, <3>2 DEF Canonical, Placed, Honest, ReadLast
  <2> QED
    BY <2>3, <2>5, <2>6, <2>7 DEF Sound
<1> QED
  BY <1>1, <1>2

LEMMA CommitKeeps ==
    ASSUME IInv, NEW p \in Proposals, Kind(p) \in Kinds, Commit(p),
           Kept, "package" \notin outdated' => Advanced,
           intents' \subseteq Managed, Single', Intended'
    PROVE  IInv'
<1>1. TypeOK'
  BY CommitTyped DEF IInv, TypeOK, Kept
<1>2. Sounds'
  BY CommitSound DEF IInv
<1> QED
  BY <1>1, <1>2 DEF IInv

\* Where no row is added, each access has as many as before.
LEMMA NoNewRow ==
    ASSUME IInv, Kept, DOMAIN rows' = DOMAIN rows, UNCHANGED intents,
           outdated \subseteq outdated'
    PROVE  Single' /\ Intended'
<1>1. \A id \in DOMAIN rows : rows'[id].access = rows[id].access /\ rows'[id].by = rows[id].by
  BY DEF Kept
<1>2. Single'
  BY <1>1 DEF IInv, Single
<1>3. Intended'
  BY <1>1 DEF IInv, Intended
<1> QED
  BY <1>2, <1>3

LEMMA NewRowTyped ==
    ASSUME NEW access \in Accesses, NEW maker \in Makers
    PROVE  /\ NewRow(access, maker) \in Row
           /\ NewRow(access, maker).access = access
           /\ NewRow(access, maker).by = maker
           /\ NewRow(access, maker).active
  BY DEF NewRow, Row

LEMMA GrantNewWrites ==
    ASSUME IInv, NEW p \in Proposals, GrantNew(p)
    PROVE  /\ Len(rows) \in Nat /\ DOMAIN rows = 1 .. Len(rows)
           /\ DOMAIN rows' = 1 .. (Len(rows) + 1)
           /\ rows' \in Seq(Row)
           /\ \A id \in DOMAIN rows : rows'[id] = rows[id]
           /\ rows'[Len(rows) + 1] = NewRow(First(p).access, "grant")
<1>1. First(p).access \in Accesses
  BY SessionFacts DEF GrantNew, At, Live, IInv
<1>2. rows \in Seq(Row) /\ NewRow(First(p).access, "grant") \in Row
  BY <1>1, NewRowTyped DEF IInv, TypeOK, Makers
<1>3. rows' = Append(rows, NewRow(First(p).access, "grant"))
  BY DEF GrantNew
<1> QED
  BY <1>2, <1>3

\* A grant or a package that nobody has made outdated meets no row where it has
\* read none.
LEMMA NoneMeansNone ==
    ASSUME rows \in Seq(Row), NEW access, Current(NoRow, access)
    PROVE  RowsOf(access) = {}
  BY RowsTyped, NoRowStands DEF Current, RowsOf

LEMMA GrantNewKeeps ==
    ASSUME IInv, NEW p \in Proposals, GrantNew(p)
    PROVE  IInv'
<1> DEFINE n == Len(rows) + 1
           access == First(p).access
           new == NewRow(access, "grant")
<1>1. /\ sessions[p].at = "checked" /\ Kind(p) = "grant" /\ sessions[p].read = NoRow
      /\ Intend(access) /\ Commit(p)
  BY DEF GrantNew, At
<1>2. access \in Accesses
  BY <1>1, SessionFacts DEF IInv, Live
<1>3. new \in Row /\ new.access = access /\ new.by = "grant"
  BY <1>2, NewRowTyped DEF Makers
<1>4. /\ n \in Nat /\ n \notin DOMAIN rows /\ DOMAIN rows' = DOMAIN rows \cup {n}
      /\ rows' \in Seq(Row) /\ rows'[n] = new
      /\ \A id \in DOMAIN rows : rows'[id] = rows[id]
  <2>1. \A k \in Nat : k + 1 \in Nat /\ k + 1 \notin 1 .. k
                       /\ 1 .. (k + 1) = (1 .. k) \cup {k + 1}
    OBVIOUS
  <2>2. /\ Len(rows) \in Nat /\ DOMAIN rows = 1 .. Len(rows)
        /\ DOMAIN rows' = 1 .. (Len(rows) + 1)
    BY GrantNewWrites
  <2>3. n \in Nat /\ n \notin DOMAIN rows /\ DOMAIN rows' = DOMAIN rows \cup {n}
    BY <2>1, <2>2
  <2> QED
    BY <2>3, GrantNewWrites
<1>5. Kept /\ Advanced
  BY <1>4 DEF Kept, Advanced
<1>6. outdated \subseteq outdated' /\ ("grant" \notin outdated' => ~sessions[p].dirty)
  BY <1>1, CommitMarks DEF IInv, TypeOK
<1>7. intents' \subseteq Managed /\ intents \subseteq intents'
  BY <1>1 DEF Intend, IInv, TypeOK
<1> HIDE DEF n, new
<1>8. Single'
  <2> SUFFICES ASSUME outdated' \cap {"grant", "package"} = {},
                      NEW id \in DOMAIN rows', NEW other \in DOMAIN rows',
                      rows'[id].access = rows'[other].access
               PROVE  id = other
    BY DEF Single
  <2>1. Current(NoRow, access)
    <3>1. ~sessions[p].dirty /\ Fresh(sessions[p])
      BY <1>6 DEF IInv, Sounds, Sound
    <3> QED
      BY <1>1, <3>1 DEF Fresh, ReadLast, Kind, First
  <2>2. \A old \in DOMAIN rows : rows[old].access # access
    BY <2>1, NoneMeansNone DEF RowsOf, IInv, TypeOK
  <2>3. \A old, older \in DOMAIN rows : rows[old].access = rows[older].access => old = older
    BY <1>6 DEF IInv, Single
  <2> QED
    BY <1>3, <1>4, <2>2, <2>3
<1>9. Intended'
  <2> SUFFICES ASSUME NEW id \in DOMAIN rows', rows'[id].by = "grant",
                      rows'[id].access \in Managed
               PROVE  /\ rows'[id].access \in intents'
                      /\ \A other \in DOMAIN rows' :
                            rows'[other].by = "grant"
                            /\ rows'[other].access = rows'[id].access => other = id
    BY DEF Intended
  <2>1. access \in Managed => access \notin intents /\ access \in intents'
    BY <1>1 DEF Intend
  <2>2. \A old \in DOMAIN rows : rows[old].by = "grant" /\ rows[old].access \in Managed =>
            /\ rows[old].access \in intents
            /\ \A other \in DOMAIN rows :
                  rows[other].by = "grant" /\ rows[other].access = rows[old].access
                      => other = old
    BY DEF IInv, Intended
  <2>3. CASE id = n
    BY <1>3, <1>4, <2>1, <2>2, <2>3
  <2>4. CASE id \in DOMAIN rows
    BY <1>3, <1>4, <1>7, <2>1, <2>2, <2>4
  <2> QED
    BY <1>4, <2>3, <2>4
<1> QED
  BY <1>1, <1>5, <1>7, <1>8, <1>9, CommitKeeps DEF Kinds

\* What an UPDATE of a grant or a revocation does.
LEMMA FlipWrites ==
    ASSUME IInv, NEW p \in Proposals, GrantAgain(p) \/ Revoke(p)
    PROVE  /\ sessions[p].at = "checked" /\ Kind(p) \in {"grant", "revoke"}
           /\ Commit(p) /\ UNCHANGED intents
           /\ sessions[p].read.id \in RowsOf(First(p).access)
           /\ rows[sessions[p].read.id].version = sessions[p].read.version
           /\ rows' \in Seq(Row) /\ DOMAIN rows' = DOMAIN rows
           /\ \A id \in DOMAIN rows \ {sessions[p].read.id} : rows'[id] = rows[id]
           /\ rows'[sessions[p].read.id].access = rows[sessions[p].read.id].access
           /\ rows'[sessions[p].read.id].by = rows[sessions[p].read.id].by
           /\ rows'[sessions[p].read.id].active = First(p).active
           /\ rows'[sessions[p].read.id].version = rows[sessions[p].read.id].version + 1
<1> DEFINE id == sessions[p].read.id
           next == rows[id].version + 1
           new == [rows[id] EXCEPT !.active = First(p).active, !.version = next]
<1>1. sessions[p].at = "checked" /\ Kind(p) \in {"grant", "revoke"} /\ Flip(p)
  BY DEF GrantAgain, Revoke, At
<1>2. First(p).active \in BOOLEAN
  BY <1>1, SessionFacts DEF IInv, Live
<1>3. sessions[p].read # NoRow
  BY <1>1 DEF GrantAgain, Revoke, IInv, Sounds, Sound, Reviewed, Kind
<1>4. id \in RowsOf(First(p).access)
  BY <1>1, <1>3 DEF IInv, Sounds, Sound, Placed, ReadLast, Stands, Kind, First
<1>5. id \in DOMAIN rows /\ rows \in Seq(Row) /\ rows[id] \in Row
      /\ rows[id].version \in Nat
  BY <1>4, RowsTyped DEF RowsOf, IInv, TypeOK
<1>6. next \in Nat \ {0}
  <2> DEFINE version == rows[id].version
  <2>1. version \in Nat /\ next = version + 1
    BY <1>5
  <2> HIDE DEF version, next
  <2> QED
    BY <2>1
<1>7. rows' = [rows EXCEPT ![id] = new]
  BY <1>1, <1>5 DEF Flip
<1> HIDE DEF next
<1>8. /\ new \in Row /\ new.access = rows[id].access /\ new.by = rows[id].by
      /\ new.active = First(p).active /\ new.version = next
  BY <1>2, <1>5, <1>6 DEF Row
<1>9. Commit(p) /\ UNCHANGED intents /\ rows[id].version = sessions[p].read.version
  BY <1>1 DEF Flip
<1> HIDE DEF new, id
<1>10. rows' \in Seq(Row) /\ DOMAIN rows' = DOMAIN rows /\ rows'[id] = new
       /\ \A other \in DOMAIN rows \ {id} : rows'[other] = rows[other]
  BY <1>5, <1>7, <1>8
<1> QED
  BY <1>1, <1>4, <1>8, <1>9, <1>10 DEF id, next

LEMMA FlipKeeps ==
    ASSUME IInv, NEW p \in Proposals, GrantAgain(p) \/ Revoke(p)
    PROVE  IInv'
<1>1. Commit(p) /\ Kind(p) \in Kinds /\ UNCHANGED intents /\ DOMAIN rows' = DOMAIN rows
  BY FlipWrites DEF Kinds
<1>2. Kept /\ Advanced
  BY FlipWrites DEF Kept, Advanced
<1>3. outdated \subseteq outdated' /\ intents' \subseteq Managed
  BY <1>1, CommitMarks DEF IInv, TypeOK
<1> QED
  BY <1>1, <1>2, <1>3, NoNewRow, CommitKeeps

LEMMA OverwriteTyped ==
    ASSUME NEW row \in Row, NEW reading \in Reading, NEW active \in BOOLEAN
    PROVE  /\ Overwrite(row, reading, active) \in Row
           /\ Overwrite(row, reading, active).access = row.access
           /\ Overwrite(row, reading, active).by = row.by
           /\ Overwrite(row, reading, active).version = reading.version + 1
           /\ reading.active = row.active => Overwrite(row, reading, active).active = active
<1> DEFINE next == reading.version + 1
           flag == IF row.access \notin Managed /\ active = reading.active
                     THEN row.active ELSE active
           over == [row EXCEPT !.version = next, !.active = flag]
<1>1. next \in Nat \ {0} /\ flag \in BOOLEAN
  BY DEF Reading, Row
<1>2. reading.active = row.active => flag = active
  OBVIOUS
<1>3. Overwrite(row, reading, active) = over
  BY DEF Overwrite, Row
<1> HIDE DEF next, flag
<1>4. /\ over \in Row /\ over.access = row.access /\ over.by = row.by
      /\ over.version = next /\ over.active = flag
  BY <1>1 DEF Row
<1> QED
  BY <1>2, <1>3, <1>4 DEF next

\* What a package has read when it writes.
LEMMA PackageReads ==
    ASSUME IInv, NEW p \in Proposals, sessions[p].at = "loaded"
    PROVE  /\ Kind(p) = "package"
           /\ DOMAIN Readings(p) = DOMAIN sessions[p].plan.entries
           /\ \A i \in DOMAIN sessions[p].plan.entries :
                 /\ Readings(p)[i] \in Reading
                 /\ Stands(Readings(p)[i], sessions[p].plan.entries[i].access)
                 /\ ~sessions[p].dirty =>
                       Current(Readings(p)[i], sessions[p].plan.entries[i].access)
<1> DEFINE entries == sessions[p].plan.entries
<1>1. Kind(p) = "package" /\ 1 \in DOMAIN entries /\ rows \in Seq(Row)
  BY SessionFacts DEF IInv, TypeOK, Live, Sounds, Sound, Planned, Kind
<1>2. DOMAIN Latests(entries) = DOMAIN entries
  BY DEF Latests
<1>3. /\ DOMAIN Readings(p) = DOMAIN entries
      /\ Readings(p)[1] = sessions[p].read
      /\ \A i \in DOMAIN entries \ {1} : Readings(p)[i] = Latest(entries[i].access)
  BY <1>1, <1>2 DEF Readings, Latests
<1>4. /\ Stands(sessions[p].read, entries[1].access)
      /\ ~sessions[p].dirty => Current(sessions[p].read, entries[1].access)
  BY <1>1 DEF IInv, Sounds, Sound, Placed, Fresh, ReadLast, Kind
<1>5. ASSUME NEW i \in DOMAIN entries
      PROVE  /\ Stands(Readings(p)[i], entries[i].access)
             /\ ~sessions[p].dirty => Current(Readings(p)[i], entries[i].access)
  <2>1. CASE i = 1
    BY <1>3, <1>4, <2>1
  <2>2. CASE i # 1
    BY <1>1, <1>3, <2>2, LatestFacts
  <2> QED
    BY <2>1, <2>2
<1> QED
  BY <1>1, <1>3, <1>5 DEF Stands

\* A row is written for the one entry that stands for it.
LEMMA AppliedRow ==
    ASSUME IInv, NEW p \in Proposals, sessions[p].at = "loaded", NEW id \in DOMAIN rows
    PROVE  /\ Applied(p, id) \in Row
           /\ Applied(p, id).access = rows[id].access
           /\ Applied(p, id).by = rows[id].by
           /\ \/ /\ Applied(p, id) = rows[id]
                 /\ \A i \in DOMAIN sessions[p].plan.entries : Readings(p)[i].id # id
              \/ \E i \in DOMAIN sessions[p].plan.entries :
                    /\ Readings(p)[i].id = id
                    /\ sessions[p].plan.entries[i].access = rows[id].access
                    /\ Applied(p, id).version = Readings(p)[i].version + 1
                    /\ Readings(p)[i].active = rows[id].active =>
                          Applied(p, id).active = sessions[p].plan.entries[i].active
<1> DEFINE entries == sessions[p].plan.entries
           mine == {i \in DOMAIN entries : Readings(p)[i].id = id}
<1>1. rows[id] \in Row /\ id # 0
  BY RowsTyped DEF IInv, TypeOK
<1>2. CASE mine = {}
  <2>1. Applied(p, id) = rows[id]
    BY <1>2 DEF Applied
  <2> QED
    BY <1>1, <1>2, <2>1
<1>3. CASE mine # {}
  <2>1. PICK i \in mine : Applied(p, id) = Overwrite(rows[id], Readings(p)[i], entries[i].active)
    BY <1>3 DEF Applied
  <2>2. /\ Readings(p)[i] \in Reading /\ Stands(Readings(p)[i], entries[i].access)
        /\ Readings(p)[i].id = id
    BY PackageReads
  <2>3. sessions[p].plan \in Plans
    BY SessionFacts DEF IInv, Live
  <2>4. entries[i].active \in BOOLEAN
    BY <2>3, PlanTyped
  <2>5. entries[i].access = rows[id].access
    BY <1>1, <2>2, NoRowStands DEF Stands, RowsOf
  <2> QED
    BY <1>1, <2>1, <2>2, <2>4, <2>5, OverwriteTyped, SMTT(20)
<1> QED
  BY <1>2, <1>3

\* The entries without a row are listed once each.
LEMMA OrderFacts ==
    ASSUME IInv, NEW p \in Proposals, sessions[p].at = "loaded", NEW order \in Orders(p)
    PROVE  \E k \in Nat :
              /\ DOMAIN order = 1 .. k
              /\ \A j \in 1 .. k : /\ order[j] \in DOMAIN sessions[p].plan.entries
                                   /\ Readings(p)[order[j]] = NoRow
              /\ \A j, l \in 1 .. k : order[j] = order[l] => j = l
              /\ \A i \in DOMAIN sessions[p].plan.entries :
                    Readings(p)[i] = NoRow => \E j \in 1 .. k : order[j] = i
<1> DEFINE entries == sessions[p].plan.entries
           k == Cardinality(Missing(p))
<1>1. /\ Missing(p) \subseteq DOMAIN entries
      /\ \A i \in DOMAIN entries : i \in Missing(p) <=> Readings(p)[i] = NoRow
  BY PackageReads DEF Missing
<1>2. sessions[p].plan \in Plans
  BY SessionFacts DEF IInv, Live
<1>3. DOMAIN entries = 1 .. Len(entries) /\ Len(entries) \in Nat
  BY <1>2, PlanTyped
<1>4. IsFiniteSet(DOMAIN entries)
  BY <1>3, FS_Interval
<1>5. k \in Nat
  BY <1>1, <1>4, FS_Subset, FS_CardinalityType
<1> HIDE DEF k
<1>6. /\ order \in [1 .. k -> Missing(p)]
      /\ \A i \in Missing(p) : \E j \in DOMAIN order : order[j] = i
      /\ \A j, l \in DOMAIN order : j < l => order[j] < order[l]
  BY DEF Orders, k
<1>7. \A j \in 1 .. k : order[j] \in Missing(p) /\ order[j] \in Nat
  BY <1>1, <1>3, <1>6
<1>8. \A j, l \in 1 .. k : order[j] = order[l] => j = l
  <2> SUFFICES ASSUME NEW j \in 1 .. k, NEW l \in 1 .. k, order[j] = order[l], j # l
               PROVE  FALSE
    OBVIOUS
  <2>1. order[j] < order[l] \/ order[l] < order[j]
    BY <1>5, <1>6
  <2> QED
    BY <1>7, <2>1
<1>9. DOMAIN order = 1 .. k
  BY <1>6
<1>10. \A j \in 1 .. k : order[j] \in DOMAIN entries /\ Readings(p)[order[j]] = NoRow
  BY <1>1, <1>7
<1>11. \A i \in DOMAIN entries : Readings(p)[i] = NoRow => \E j \in 1 .. k : order[j] = i
  BY <1>1, <1>6, <1>9
<1> HIDE DEF entries
<1> QED
  BY <1>5, <1>8, <1>9, <1>10, <1>11 DEF entries

LEMMA Concatenation ==
    ASSUME NEW S, NEW s \in Seq(S), NEW t \in Seq(S)
    PROVE  /\ s \o t \in Seq(S) /\ Len(s \o t) = Len(s) + Len(t)
           /\ \A i \in 1 .. Len(s) : (s \o t)[i] = s[i]
           /\ \A i \in (Len(s) + 1) .. (Len(s) + Len(t)) : (s \o t)[i] = t[i - Len(s)]
  OBVIOUS

LEMMA PackageWrites ==
    ASSUME IInv, NEW p \in Proposals, ApplyPackage(p)
    PROVE  /\ sessions[p].at = "loaded" /\ Commit(p) /\ UNCHANGED intents
           /\ rows' \in Seq(Row)
           /\ \A id \in DOMAIN rows : id \in DOMAIN rows' /\ rows'[id] = Applied(p, id)
           /\ \E place \in [DOMAIN rows' \ DOMAIN rows -> DOMAIN sessions[p].plan.entries] :
                 /\ \A id \in DOMAIN rows' \ DOMAIN rows :
                       /\ Readings(p)[place[id]] = NoRow
                       /\ rows'[id] = NewRow(sessions[p].plan.entries[place[id]].access,
                                             "package")
                 /\ \A id, other \in DOMAIN rows' \ DOMAIN rows :
                       place[id] = place[other] => id = other
                 /\ \A i \in DOMAIN sessions[p].plan.entries : Readings(p)[i] = NoRow =>
                       \E id \in DOMAIN rows' \ DOMAIN rows : place[id] = i
<1> DEFINE entries == sessions[p].plan.entries
           n == Len(rows)
           old == [id \in DOMAIN rows |-> Applied(p, id)]
<1>1. sessions[p].at = "loaded" /\ Commit(p) /\ UNCHANGED intents
  BY DEF ApplyPackage, At
<1>2. PICK order \in Orders(p) :
          rows' = old \o [j \in DOMAIN order |-> NewRow(entries[order[j]].access, "package")]
  BY DEF ApplyPackage
<1>3. PICK k \in Nat :
          /\ DOMAIN order = 1 .. k
          /\ \A j \in 1 .. k : order[j] \in DOMAIN entries /\ Readings(p)[order[j]] = NoRow
          /\ \A j, l \in 1 .. k : order[j] = order[l] => j = l
          /\ \A i \in DOMAIN entries :
                Readings(p)[i] = NoRow => \E j \in 1 .. k : order[j] = i
  BY <1>1, OrderFacts
<1> DEFINE added == [j \in 1 .. k |-> NewRow(entries[order[j]].access, "package")]
<1>4. n \in Nat /\ DOMAIN rows = 1 .. n
  BY RowsTyped DEF IInv, TypeOK
<1>5. old \in [1 .. n -> Row] /\ \A id \in 1 .. n : old[id] = Applied(p, id)
  BY <1>1, <1>4, AppliedRow
<1>6. \A i \in DOMAIN entries : entries[i].access \in Accesses
  <2>1. sessions[p].plan \in Plans
    BY <1>1, SessionFacts DEF IInv, Live
  <2> QED
    BY <2>1, PlanTyped
<1>7. /\ added \in [1 .. k -> Row]
      /\ \A j \in 1 .. k : added[j] = NewRow(entries[order[j]].access, "package")
  BY <1>3, <1>6, NewRowTyped DEF Makers
<1>8. rows' = old \o added
  BY <1>2, <1>3
<1> HIDE DEF old, added, n
<1>9. old \in Seq(Row) /\ Len(old) = n /\ added \in Seq(Row) /\ Len(added) = k
  BY <1>4, <1>5, <1>7
<1>10. /\ rows' \in Seq(Row) /\ Len(rows') = n + k
       /\ \A id \in 1 .. n : rows'[id] = old[id]
       /\ \A id \in (n + 1) .. (n + k) : rows'[id] = added[id - n]
  BY <1>8, <1>9, Concatenation, ZenonT(40)
<1>11. DOMAIN rows' = 1 .. (n + k)
  BY <1>10
<1>12. DOMAIN rows' \ DOMAIN rows = (n + 1) .. (n + k)
  BY <1>4, <1>11
<1>13. \A id \in (n + 1) .. (n + k) : id - n \in 1 .. k
  BY <1>4
<1> DEFINE place == [id \in (n + 1) .. (n + k) |-> order[id - n]]
<1>14. place \in [DOMAIN rows' \ DOMAIN rows -> DOMAIN entries]
  BY <1>3, <1>12, <1>13
<1>15. ASSUME NEW id \in DOMAIN rows' \ DOMAIN rows
       PROVE  /\ Readings(p)[place[id]] = NoRow
              /\ rows'[id] = NewRow(entries[place[id]].access, "package")
  BY <1>3, <1>7, <1>10, <1>12, <1>13
<1>16. ASSUME NEW id \in DOMAIN rows' \ DOMAIN rows, NEW other \in DOMAIN rows' \ DOMAIN rows,
              place[id] = place[other]
       PROVE  id = other
  <2>1. id - n = other - n
    BY <1>3, <1>12, <1>13, <1>16
  <2> QED
    BY <1>4, <1>12, <2>1
<1>17. ASSUME NEW i \in DOMAIN entries, Readings(p)[i] = NoRow
       PROVE  \E id \in DOMAIN rows' \ DOMAIN rows : place[id] = i
  <2>1. PICK j \in 1 .. k : order[j] = i
    BY <1>3, <1>17
  <2>2. n + j \in (n + 1) .. (n + k) /\ (n + j) - n = j
    BY <1>4
  <2>3. place[n + j] = i
    BY <2>1, <2>2
  <2> QED
    BY <1>12, <2>2, <2>3
<1>18. \A id \in DOMAIN rows : id \in DOMAIN rows' /\ rows'[id] = Applied(p, id)
  BY <1>4, <1>5, <1>10, <1>11
<1> HIDE DEF place
<1> QED
  BY <1>1, <1>10, <1>14, <1>15, <1>16, <1>17, <1>18

\* A package that nobody has made outdated writes what it has read.
LEMMA PackageAdvances ==
    ASSUME IInv, NEW p \in Proposals, sessions[p].at = "loaded", ~sessions[p].dirty,
           NEW id \in DOMAIN rows
    PROVE  \/ /\ Applied(p, id) = rows[id]
              /\ \A i \in DOMAIN sessions[p].plan.entries : Readings(p)[i].id # id
           \/ \E i \in DOMAIN sessions[p].plan.entries :
                 /\ Readings(p)[i] = ReadingOf(id)
                 /\ sessions[p].plan.entries[i].access = rows[id].access
                 /\ Applied(p, id).version = rows[id].version + 1
                 /\ Applied(p, id).active = sessions[p].plan.entries[i].active
<1>1. CASE /\ Applied(p, id) = rows[id]
           /\ \A i \in DOMAIN sessions[p].plan.entries : Readings(p)[i].id # id
  BY <1>1
<1>2. ASSUME NEW i \in DOMAIN sessions[p].plan.entries,
             /\ Readings(p)[i].id = id
             /\ sessions[p].plan.entries[i].access = rows[id].access
             /\ Applied(p, id).version = Readings(p)[i].version + 1
             /\ Readings(p)[i].active = rows[id].active =>
                   Applied(p, id).active = sessions[p].plan.entries[i].active
      PROVE  /\ Readings(p)[i] = ReadingOf(id)
             /\ sessions[p].plan.entries[i].access = rows[id].access
             /\ Applied(p, id).version = rows[id].version + 1
             /\ Applied(p, id).active = sessions[p].plan.entries[i].active
  <2>1. Current(Readings(p)[i], sessions[p].plan.entries[i].access)
    BY PackageReads
  <2>2. id # 0 /\ NoRow.id = 0
    BY RowsTyped, NoRowStands DEF IInv, TypeOK
  <2>3. Readings(p)[i] = ReadingOf(id)
    BY <1>2, <2>1, <2>2 DEF Current
  <2>4. /\ ReadingOf(id).version = rows[id].version
        /\ ReadingOf(id).active = rows[id].active
    BY RowsTyped DEF IInv, TypeOK
  <2> QED
    BY <1>2, <2>3, <2>4
<1> QED
  BY <1>1, <1>2, AppliedRow

LEMMA PackageKeeps ==
    ASSUME IInv, NEW p \in Proposals, ApplyPackage(p)
    PROVE  IInv'
<1> DEFINE entries == sessions[p].plan.entries
<1>1. /\ sessions[p].at = "loaded" /\ Commit(p) /\ UNCHANGED intents
      /\ rows' \in Seq(Row)
      /\ \A id \in DOMAIN rows : id \in DOMAIN rows' /\ rows'[id] = Applied(p, id)
  BY PackageWrites
<1>2. Kind(p) = "package" /\ sessions[p].plan \in Plans
  BY <1>1, PackageReads, SessionFacts DEF IInv, Live
<1>3. PICK place \in [DOMAIN rows' \ DOMAIN rows -> DOMAIN entries] :
          /\ \A id \in DOMAIN rows' \ DOMAIN rows :
                /\ Readings(p)[place[id]] = NoRow
                /\ rows'[id] = NewRow(entries[place[id]].access, "package")
          /\ \A id, other \in DOMAIN rows' \ DOMAIN rows :
                place[id] = place[other] => id = other
  BY PackageWrites, ZenonT(40)
<1>4. \A i \in DOMAIN entries : entries[i].access \in Accesses
  BY <1>2, PlanTyped
<1>5. ASSUME NEW id \in DOMAIN rows' \ DOMAIN rows
      PROVE  /\ rows'[id].access = entries[place[id]].access
             /\ rows'[id].by = "package" /\ place[id] \in DOMAIN entries
  BY <1>3, <1>4, NewRowTyped DEF Makers
<1>6. outdated \subseteq outdated' /\ ("package" \notin outdated' => ~sessions[p].dirty)
  BY <1>1, <1>2, CommitMarks DEF IInv, TypeOK
<1>7. Kept
  BY <1>1, AppliedRow DEF Kept
<1>8. "package" \notin outdated' => Advanced
  BY <1>1, <1>6, PackageAdvances DEF Advanced
<1>9. Single'
  <2> SUFFICES ASSUME outdated' \cap {"grant", "package"} = {},
                      NEW id \in DOMAIN rows', NEW other \in DOMAIN rows',
                      rows'[id].access = rows'[other].access
               PROVE  id = other
    BY DEF Single
  <2>1. \A old, older \in DOMAIN rows : rows[old].access = rows[older].access => old = older
    BY <1>6 DEF IInv, Single
  <2>2. \A old \in DOMAIN rows : rows'[old].access = rows[old].access
    BY <1>7 DEF Kept
  <2>3. ASSUME NEW new \in DOMAIN rows' \ DOMAIN rows, NEW old \in DOMAIN rows
        PROVE  rows'[new].access # rows'[old].access
    <3>1. Current(NoRow, entries[place[new]].access)
      BY <1>1, <1>3, <1>5, <1>6, PackageReads
    <3>2. RowsOf(entries[place[new]].access) = {}
      BY <3>1, NoneMeansNone DEF IInv, TypeOK
    <3> QED
      BY <1>5, <2>2, <3>2 DEF RowsOf
  <2>4. ASSUME NEW new \in DOMAIN rows' \ DOMAIN rows,
               NEW newer \in DOMAIN rows' \ DOMAIN rows,
               rows'[new].access = rows'[newer].access
        PROVE  new = newer
    <3>1. place[new] = place[newer]
      BY <1>2, <1>5, <2>4, AccessAssumption
    <3> QED
      BY <1>3, <3>1
  <2> QED
    BY <2>1, <2>2, <2>3, <2>4
<1>10. Intended'
  <2>1. \A id \in DOMAIN rows' : rows'[id].by = "grant" => id \in DOMAIN rows
    BY <1>5
  <2>2. \A id \in DOMAIN rows : rows'[id].access = rows[id].access /\ rows'[id].by = rows[id].by
    BY <1>7 DEF Kept
  <2> QED
    BY <1>1, <2>1, <2>2 DEF IInv, Intended
<1>11. intents' \subseteq Managed
  BY <1>1 DEF IInv, TypeOK
<1> QED
  BY <1>1, <1>2, <1>7, <1>8, <1>9, <1>10, <1>11, CommitKeeps DEF Kinds

LEMMA NextKeeps ==
    ASSUME IInv, [Next]_vars
    PROVE  IInv'
<1>1. CASE UNCHANGED vars
  <2>1. UNCHANGED <<rows, intents, sessions, outdated>>
    BY <1>1 DEF vars
  <2>2. Sounds'
    <3> SUFFICES ASSUME NEW q \in Proposals PROVE Sound(sessions[q])'
      BY DEF Sounds
    <3>1. sessions'[q] = sessions[q] /\ Sound(sessions[q])
      BY <2>1 DEF IInv, Sounds
    <3> QED
      BY <2>1, <3>1, SoundStays
  <2> QED
    BY <2>1, <2>2 DEF IInv, TypeOK, Single, Intended
<1>2. ASSUME NEW p \in Proposals,
             \/ Propose(p) \/ Revalidate(p)
             \/ Check(p) \/ CheckPackage(p) \/ Load(p)
             \/ GrantNew(p) \/ GrantAgain(p) \/ Revoke(p) \/ ApplyPackage(p)
             \/ Fail(p)
      PROVE  IInv'
  BY <1>2, ProposeKeeps, RevalidateKeeps, CheckKeeps, CheckPackageKeeps, LoadKeeps,
     GrantNewKeeps, FlipKeeps, PackageKeeps, FailKeeps
<1> QED
  BY <1>1, <1>2 DEF Next

LEMMA InvariantHolds == Spec => []IInv
<1> QED
  BY InitHolds, NextKeeps, PTL DEF Spec

-----------------------------------------------------------------------------
(* Theorems.                                                                *)

\* Whatever proposals overlap, the access tables, their versions, the intents
\* and the sessions are well typed (db/nucleus_models.py).
THEOREM TypeCorrect == Spec => []TypeOK
<1>1. IInv => TypeOK
  BY DEF IInv
<1> QED
  BY <1>1, InvariantHolds, PTL

\* However many first grants of a drug, a company or a market overlap, one row
\* is made (the intent of grant_access_if_version); and no access is granted by
\* two rows unless a grant or a package created one on an outdated check.
THEOREM OneRowForAnAccess == Spec => []OneAccess
<1>1. IInv => OneAccess
  <2> SUFFICES ASSUME IInv PROVE OneAccess
    OBVIOUS
  <2>1. \A access \in Managed : \A id, other \in RowsOf(access) :
            rows[id].by = "grant" /\ rows[other].by = "grant" => id = other
    BY DEF IInv, Intended, RowsOf
  <2>2. outdated \cap {"grant", "package"} = {} =>
            \A access \in Accesses : \A id, other \in Active(access) : id = other
    BY DEF IInv, Single, Active, RowsOf
  <2> QED
    BY <2>1, <2>2 DEF OneAccess
<1> QED
  BY <1>1, InvariantHolds, PTL

-----------------------------------------------------------------------------
(* Changes are reviewed, and have the outcome that was approved.            *)

Writes(p) == GrantNew(p) \/ GrantAgain(p) \/ Revoke(p) \/ ApplyPackage(p)

LEMMA OthersWriteNothing ==
    ASSUME TypeOK, [Next]_vars
    PROVE  \/ /\ rows' = rows
              /\ \A p \in Proposals : sessions'[p].at = "done" => sessions[p].at = "done"
           \/ \E p \in Proposals :
                 /\ Writes(p) /\ Commit(p)
                 /\ sessions'[p].at = "done" /\ sessions[p].at \in {"checked", "loaded"}
                 /\ \A q \in Proposals \ {p} : sessions'[q].at = sessions[q].at
<1>1. CASE UNCHANGED vars
  BY <1>1 DEF vars
<1>2. ASSUME NEW p \in Proposals, Writes(p)
      PROVE  /\ Commit(p)
             /\ sessions'[p].at = "done" /\ sessions[p].at \in {"checked", "loaded"}
             /\ \A q \in Proposals \ {p} : sessions'[q].at = sessions[q].at
  <2>1. Commit(p) /\ sessions[p].at \in {"checked", "loaded"}
    BY <1>2 DEF Writes, GrantNew, GrantAgain, Revoke, Flip, ApplyPackage, At
  <2> QED
    BY <2>1, CommitMarks
<1>3. ASSUME NEW p \in Proposals,
             \/ Propose(p) \/ Revalidate(p) \/ Check(p) \/ CheckPackage(p) \/ Load(p)
             \/ Fail(p)
      PROVE  /\ rows' = rows
             /\ \A q \in Proposals : sessions'[q].at = "done" => sessions[q].at = "done"
  <2>1. PICK new : Become(p, new) /\ new.at # "done" /\ rows' = rows
    <3>1. sessions[p] \in Session /\ NoSession \in Session
      BY NoSessionTyped DEF TypeOK
    <3>2. CASE Propose(p)
      <4>1. PICK plan \in Plans : \E view \in Views(plan) :
                Become(p, [NoSession EXCEPT !.at = "proposed", !.plan = plan, !.view = view])
        BY <3>2 DEF Propose
      <4>2. PICK view \in Views(plan) :
                Become(p, [NoSession EXCEPT !.at = "proposed", !.plan = plan, !.view = view])
        BY <4>1
      <4>3. [NoSession EXCEPT !.at = "proposed", !.plan = plan, !.view = view].at = "proposed"
        BY DEF NoSession
      <4> QED
        BY <3>2, <4>2, <4>3 DEF Propose
    <3>3. CASE Revalidate(p)
      <4>1. [sessions[p] EXCEPT !.at = "revalidated"].at = "revalidated"
        BY <3>1 DEF Session
      <4> QED
        BY <3>3, <4>1 DEF Revalidate
    <3>4. CASE Check(p)
      <4>1. [sessions[p] EXCEPT !.at = "checked", !.read = ViewNow(p)[1]].at = "checked"
        BY <3>1 DEF Session
      <4> QED
        BY <3>4, <4>1 DEF Check
    <3>5. CASE CheckPackage(p)
      <4>1. [sessions[p] EXCEPT !.at = "checked"].at = "checked"
        BY <3>1 DEF Session
      <4> QED
        BY <3>5, <4>1 DEF CheckPackage
    <3>6. CASE Load(p)
      <4> DEFINE reading == Latest(First(p).access)
      <4>1. [sessions[p] EXCEPT !.at = "loaded", !.read = reading, !.dirty = FALSE].at
                = "loaded"
        BY <3>1 DEF Session
      <4> QED
        BY <3>6, <4>1 DEF Load
    <3>7. CASE Fail(p)
      <4>1. [NoSession EXCEPT !.at = "over"].at = "over"
        BY DEF NoSession
      <4> QED
        BY <3>7, <4>1 DEF Fail
    <3> QED
      BY <1>3, <3>2, <3>3, <3>4, <3>5, <3>6, <3>7
  <2> QED
    BY <2>1 DEF Become, TypeOK
<1> QED
  BY <1>1, <1>2, <1>3 DEF Next, Writes

LEMMA ReviewedStep ==
    ASSUME IInv, [Next]_vars
    PROVE  ReviewedChange
<1> SUFFICES ASSUME "package" \notin outdated', NEW id \in DOMAIN rows, rows'[id] # rows[id]
             PROVE  \E p \in Proposals :
                       /\ sessions'[p].at = "done" /\ sessions[p].at # "done"
                       /\ \E i \in DOMAIN sessions[p].view : Shows(p, i, id)
  BY DEF ReviewedChange
<1>1. PICK p \in Proposals :
          /\ Writes(p) /\ Commit(p)
          /\ sessions'[p].at = "done" /\ sessions[p].at \in {"checked", "loaded"}
  BY OthersWriteNothing DEF IInv
<1>2. /\ outdated \subseteq outdated'
      /\ Kind(p) = "package" => ~sessions[p].dirty
  BY <1>1, CommitMarks DEF IInv, TypeOK
<1>3. /\ Sound(sessions[p]) /\ Canonical(sessions[p])
      /\ DOMAIN sessions[p].view = DOMAIN sessions[p].plan.entries
      /\ 1 \in DOMAIN sessions[p].plan.entries
      /\ First(p).active \in BOOLEAN /\ sessions[p] \in Session
  BY <1>1, <1>2, SessionFacts DEF IInv, Sounds, Sound, Planned, Live
<1>4. /\ rows[id].version \in Nat \ {0} /\ id # 0 /\ rows[id].active \in BOOLEAN
      /\ ReadingOf(id).id = id /\ ReadingOf(id).version = rows[id].version
  BY RowsTyped DEF IInv, TypeOK
<1>5. CASE GrantAgain(p) \/ Revoke(p)
  <2> DEFINE read == sessions[p].read
             shown == sessions[p].view[1]
  <2>1. /\ sessions[p].at = "checked" /\ Kind(p) # "package"
        /\ read.id \in RowsOf(First(p).access)
        /\ rows[read.id].version = read.version /\ id = read.id
    BY <1>5, FlipWrites
  <2>2. read # NoRow
    BY <1>4, <2>1, NoRowStands
  <2>3. /\ read.version = shown.version /\ read.active # First(p).active
        /\ read.active = rows[id].active
        /\ shown.active # First(p).active /\ Stands(shown, First(p).access)
    BY <1>1, <1>3, <2>1, <2>2 DEF Sound, Planned, Placed, Reviewed, Canonical, Honest,
       Changes, ReadLast, Live, Kind, First
  <2>4. shown.id \in RowsOf(First(p).access)
    BY <1>4, <2>1, <2>3, NoRowStands DEF Stands
  <2>5. rows[id].access = First(p).access
    BY <2>1 DEF RowsOf
  <2>6. shown.active = rows[id].active
    <3>1. shown.active \in BOOLEAN
      BY <2>3 DEF Stands, Reading
    <3> QED
      BY <1>3, <1>4, <2>3, <3>1
  <2>7. Shows(p, 1, id)
    BY <2>1, <2>3, <2>4, <2>5, <2>6 DEF Shows
  <2> QED
    BY <1>1, <1>3, <2>7
<1>6. CASE ApplyPackage(p)
  <2>1. /\ sessions[p].at = "loaded" /\ rows'[id] = Applied(p, id)
        /\ ~sessions[p].dirty
    BY <1>2, <1>6, PackageWrites, PackageReads
  <2>2. PICK i \in DOMAIN sessions[p].plan.entries : Readings(p)[i] = ReadingOf(id)
    BY <2>1, PackageAdvances
  <2> DEFINE shown == sessions[p].view[i]
  <2>3. SameRow(Readings(p)[i], shown)
    BY <1>6, <2>1, PackageReads DEF ApplyPackage
  <2>4. shown.id = id /\ shown.version = rows[id].version
    BY <1>4, <2>2, <2>3 DEF SameRow
  <2>5. shown # NoRow
    BY <1>4, <2>4, NoRowStands
  <2>6. shown.active = rows[id].active
    BY <1>1, <1>3, <2>4, <2>5 DEF Canonical, Honest, Live
  <2>7. Shows(p, i, id)
    BY <2>4, <2>6 DEF Shows, RowsOf
  <2> QED
    BY <1>1, <1>3, <2>7
<1>7. CASE GrantNew(p)
  BY <1>7, GrantNewWrites
<1> QED
  BY <1>1, <1>5, <1>6, <1>7 DEF Writes

\* For any overlap of grants and revocations, a row changes only from the state
\* that was shown to those who approved the change: the sidecar's version
\* stands for one state of the row, as long as no package has written a row that
\* it had loaded before somebody else changed it.
THEOREM ChangesAreReviewed == Spec => ReviewedAccess
<1>1. IInv /\ [Next]_vars => [ReviewedChange]_vars
  BY ReviewedStep
<1> QED
  BY <1>1, InvariantHolds, PTL DEF Spec, ReviewedAccess

\* The row an entry of a package stands for has the state that was wanted.
LEMMA EntryApplied ==
    ASSUME IInv, NEW p \in Proposals, ApplyPackage(p), ~sessions[p].dirty,
           NEW i \in DOMAIN sessions[p].plan.entries, Readings(p)[i] # NoRow
    PROVE  LET id == Readings(p)[i].id
           IN  /\ id \in DOMAIN rows /\ id \in DOMAIN rows'
               /\ rows'[id].access = sessions[p].plan.entries[i].access
               /\ rows'[id].active = sessions[p].plan.entries[i].active
<1> DEFINE entries == sessions[p].plan.entries
           id == Readings(p)[i].id
<1>1. sessions[p].at = "loaded" /\ sessions[p].plan \in Plans
  BY PackageWrites, SessionFacts DEF IInv, Live
<1>2. id \in RowsOf(entries[i].access)
  BY <1>1, PackageReads DEF Stands
<1>3. id \in DOMAIN rows /\ rows[id].access = entries[i].access
  BY <1>2 DEF RowsOf
<1>4. id \in DOMAIN rows' /\ rows'[id] = Applied(p, id)
  BY <1>3, PackageWrites
<1>5. PICK k \in DOMAIN entries :
          /\ entries[k].access = rows[id].access
          /\ Applied(p, id).active = entries[k].active
  BY <1>1, <1>3, PackageAdvances
<1>6. k = i
  BY <1>1, <1>3, <1>5, AccessAssumption
<1>7. Applied(p, id).access = rows[id].access
  BY <1>1, <1>3, AppliedRow
<1> QED
  BY <1>3, <1>4, <1>5, <1>6, <1>7

LEMMA OutcomeStep ==
    ASSUME IInv, [Next]_vars
    PROVE  ApprovedOutcome
<1> SUFFICES ASSUME outdated' \cap {"grant", "package"} = {},
                    NEW p \in Proposals, sessions'[p].at = "done", sessions[p].at # "done",
                    NEW access \in Accesses
             PROVE  /\ Wanted(p, access, TRUE) => Active(access)' # {}
                    /\ Wanted(p, access, FALSE) => Active(access)' = {}
  BY DEF ApprovedOutcome
<1>1. Writes(p) /\ Commit(p) /\ sessions[p].at \in {"checked", "loaded"}
  BY OthersWriteNothing DEF IInv
<1>2. Kind(p) \in {"grant", "package"} => ~sessions[p].dirty
  BY <1>1, CommitMarks DEF IInv, TypeOK
<1>3. \A id, other \in DOMAIN rows' : rows'[id].access = rows'[other].access => id = other
  BY NextKeeps DEF IInv, Single
<1>4. /\ First(p).access \in Accesses
      /\ Kind(p) = "grant" => First(p).active
      /\ Kind(p) = "revoke" => ~First(p).active
      /\ Kind(p) # "package" => DOMAIN sessions[p].plan.entries = {1}
  BY <1>1, SessionFacts DEF IInv, Live
<1>5. ASSUME Kind(p) # "package", NEW active \in BOOLEAN, Wanted(p, access, active)
      PROVE  First(p).access = access /\ First(p).active = active
  <2>1. First(p) = [access |-> access, active |-> active]
    BY <1>4, <1>5 DEF Wanted, First
  <2> QED
    BY <2>1
<1>6. ASSUME NEW id \in DOMAIN rows', rows'[id].access = access
      PROVE  /\ rows'[id].active => Active(access)' # {}
             /\ ~rows'[id].active => Active(access)' = {}
  BY <1>3, <1>6 DEF Active, RowsOf
<1>7. CASE GrantNew(p)
  <2> DEFINE n == Len(rows) + 1
  <2>1. Kind(p) = "grant"
    BY <1>7 DEF GrantNew
  <2>2. n \in DOMAIN rows' /\ rows'[n] = NewRow(First(p).access, "grant")
    BY <1>7, GrantNewWrites
  <2>3. rows'[n].access = First(p).access /\ rows'[n].active
    BY <1>4, <2>2, NewRowTyped DEF Makers
  <2> HIDE DEF n
  <2>4. Wanted(p, access, TRUE) => Active(access)' # {}
    BY <1>5, <1>6, <2>1, <2>2, <2>3
  <2>5. ~Wanted(p, access, FALSE)
    BY <1>4, <1>5, <2>1
  <2> QED
    BY <2>4, <2>5
<1>8. CASE GrantAgain(p) \/ Revoke(p)
  <2> DEFINE id == sessions[p].read.id
  <2>1. /\ Kind(p) # "package" /\ id \in DOMAIN rows'
        /\ rows'[id].access = First(p).access /\ rows'[id].active = First(p).active
    BY <1>8, FlipWrites DEF RowsOf
  <2> HIDE DEF id
  <2>2. ASSUME Wanted(p, access, TRUE) PROVE Active(access)' # {}
    BY <1>5, <1>6, <2>1, <2>2
  <2>3. ASSUME Wanted(p, access, FALSE) PROVE Active(access)' = {}
    BY <1>5, <1>6, <2>1, <2>3
  <2> QED
    BY <2>2, <2>3
<1>9. CASE ApplyPackage(p)
  <2> DEFINE entries == sessions[p].plan.entries
  <2>1. sessions[p].at = "loaded" /\ Kind(p) = "package" /\ ~sessions[p].dirty
    BY <1>2, <1>9, PackageWrites, PackageReads
  <2>2. ASSUME NEW active \in BOOLEAN, Wanted(p, access, active)
        PROVE  \E i \in DOMAIN entries :
                  entries[i].access = access /\ entries[i].active = active
    <3>1. PICK i \in DOMAIN entries : entries[i] = [access |-> access, active |-> active]
      BY <2>2 DEF Wanted
    <3>2. entries[i].access = access /\ entries[i].active = active
      BY <3>1
    <3> QED
      BY <3>2
  <2>3. ASSUME NEW i \in DOMAIN entries, entries[i].access = access,
               Readings(p)[i] # NoRow
        PROVE  /\ entries[i].active => Active(access)' # {}
               /\ ~entries[i].active => Active(access)' = {}
    BY <1>6, <1>9, <2>1, <2>3, EntryApplied
  <2>4. ASSUME NEW i \in DOMAIN entries, entries[i].access = access,
               Readings(p)[i] = NoRow
        PROVE  entries[i].active = TRUE /\ Active(access)' # {}
    <3>1. PICK id \in DOMAIN rows' : rows'[id] = NewRow(access, "package")
      BY <1>9, <2>4, PackageWrites
    <3>2. rows'[id].access = access /\ rows'[id].active
      BY <3>1, NewRowTyped DEF Makers
    <3>3. entries[i].active = TRUE
      <4> DEFINE shown == sessions[p].view[i]
      <4>1. shown.id = 0
        BY <1>9, <2>1, <2>4, PackageReads, NoRowStands DEF ApplyPackage, SameRow
      <4>2. Stands(shown, access) /\ shown.active # entries[i].active
        BY <2>1, <2>4 DEF IInv, Sounds, Sound, Planned, Placed, Changes, Live
      <4>3. shown = NoRow
        BY <4>1, <4>2, RowsTyped DEF Stands, RowsOf, IInv, TypeOK
      <4>4. entries[i].active \in BOOLEAN /\ NoRow.active = FALSE
        <5>1. sessions[p].plan \in Plans
          BY <2>1, SessionFacts DEF IInv, Live
        <5> QED
          BY <5>1, PlanTyped DEF NoRow
      <4> QED
        BY <4>2, <4>3, <4>4
    <3> QED
      BY <1>6, <3>2, <3>3
  <2>5. ASSUME Wanted(p, access, TRUE) PROVE Active(access)' # {}
    BY <2>2, <2>3, <2>4, <2>5
  <2>6. ASSUME Wanted(p, access, FALSE) PROVE Active(access)' = {}
    BY <2>2, <2>3, <2>4, <2>6
  <2> QED
    BY <2>5, <2>6
<1> QED
  BY <1>1, <1>7, <1>8, <1>9 DEF Writes

\* Whatever overlaps, an execution that has committed leaves every access as it
\* was approved: a package all of its entries, a revocation no active row, unless
\* a grant or a package has created a row on an outdated check.
THEOREM OutcomeIsApproved == Spec => ApprovedIsSo
<1>1. IInv /\ [Next]_vars => [ApprovedOutcome]_vars
  BY OutcomeStep
<1> QED
  BY <1>1, InvariantHolds, PTL DEF Spec, ApprovedIsSo

=============================================================================
