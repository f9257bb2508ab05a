--------------------- MODULE TelegramPublicationProofs ---------------------
(***************************************************************************)
(* Proofs about TelegramPublication, for any posts, request threads,       *)
(* headlines, windows and limits.                                          *)
(***************************************************************************)
EXTENDS TelegramPublication, FiniteSetTheorems, TLAPS

\* The status of a record is what its last revision did.
WellFormed(record) ==
    record.status = IF record.revisions = <<>> THEN "active"
                    ELSE record.revisions[Len(record.revisions)].action

\* What a correction or a withdrawal makes of a record.
Extends(record, new) ==
    LET n == Len(record.revisions) + 1
        last == new.revisions[n]
    IN  /\ new.approvedAt = record.approvedAt
        /\ Len(new.revisions) = n
        /\ \A k \in 1 .. n - 1 : new.revisions[k] = record.revisions[k]
        /\ new.status = last.action
        /\ IF last.action = "corrected" THEN last.previous = record.headline
           ELSE new.headline = record.headline

\* The artifact shows only versions that these rows retain.
Retained(entries, rows) ==
    \A i \in Items : entries[i] # None =>
        rows[i] # None /\ IsVersionOf(entries[i], rows[i].record)

\* Whoever works in the critical section holds the lock.
LockInv == \A h \in Handlers : req[h].phase # "idle" => lock = h

\* What a request carries from its reads to its commit is still so.
ApprovingInv(r) ==
    /\ publication[r.item] = None
    /\ Cardinality(LiveNow) < MaxPublic
    /\ \E d \in previews : d.item = r.item /\ d.digest = r.digest /\ r.record = FirstRecord(d)

CorrectingInv(r) ==
    /\ publication[r.item] # None
    /\ publication[r.item].record.status # "withdrawn"
    /\ Extends(publication[r.item].record, r.record)
    /\ r.record.status = "corrected"
    /\ r.record.headline # publication[r.item].record.headline

RequestInv ==
    \A h \in Handlers :
        /\ req[h].phase = "approving" => ApprovingInv(req[h])
        /\ req[h].phase = "correcting" => CorrectingInv(req[h])
        /\ req[h].phase = "writing" => req[h].records = AllRecords

RecordsWellFormed ==
    \A i \in Items : publication[i] # None => WellFormed(publication[i].record)

ArtifactsInv ==
    /\ Retained(wire, publication)
    /\ pending # None => Retained(pending, publication)
    /\ \A s \in Stagers :
          /\ stage[s].phase \in {"current", "merging"} => Retained(stage[s].before, publication)
          /\ stage[s].phase = "merging" => Retained(stage[s].proposed, publication)

CapacityInv == IsFiniteSet(LiveNow) /\ CapacityHolds

DeskInv ==
    /\ TypeOK
    /\ LockInv
    /\ RequestInv
    /\ RecordsWellFormed
    /\ ArtifactsInv
    /\ CapacityInv
    /\ ApprovedWasPreviewed

\* Without a crash and with an unlink that works, the artifact is up to date
\* until the request in the critical section has committed, and gone when it
\* is about to be written.
Fresh ==
    \A i \in Items : publication[i] # None /\ Live(i, now) =>
        pending[i] = publication[i].record

BeforeCommit ==
    lock = None \/ \E h \in Handlers : lock = h /\ req[h].phase \in {"approving", "correcting"}

PendingInv ==
    /\ pending # None /\ BeforeCommit => Fresh
    /\ \A h \in Handlers : req[h].phase = "writing" => pending = None

\* A single staging run has read the wire that is still there.
StagerInv ==
    \A s \in Stagers : stage[s].phase \in {"current", "merging"} => stage[s].before = wire

-----------------------------------------------------------------------------
(***************************************************************************)
(* Records: the versions a record retains, without CHOOSE.                 *)
(***************************************************************************)
LEMMA LeastExists ==
    ASSUME NEW S, S \subseteq Nat, S # {}
    PROVE  \E m \in S : \A n \in S : m <= n
<1>1. \E m \in S : \A n \in S : <<n, m>> \notin OpToRel(<, Nat)
  BY WFMin, NatLessThanWellFounded, Zenon
<1>2. \A m \in S, n \in S : <<n, m>> \notin OpToRel(<, Nat) => m <= n
  BY DEF OpToRel
<1>. QED  BY <1>1, <1>2

LEMMA RecordFields ==
    ASSUME NEW r \in Records
    PROVE  /\ r = [headline |-> r.headline, approvedAt |-> r.approvedAt,
                   status |-> r.status, revisions |-> r.revisions]
           /\ r.headline \in Headlines /\ r.approvedAt \in Nat
           /\ r.status \in {"active", "corrected", "withdrawn"}
           /\ r.revisions \in Seq(Revisions) /\ Len(r.revisions) \in Nat
           /\ \A k \in 1 .. Len(r.revisions) :
                 /\ r.revisions[k] \in Revisions
                 /\ r.revisions[k].action \in {"corrected", "withdrawn"}
           /\ r.revisions = <<>> <=> Len(r.revisions) = 0
<1>1. /\ r.headline \in Headlines /\ r.approvedAt \in Nat
      /\ r.status \in {"active", "corrected", "withdrawn"}
      /\ r.revisions \in Seq(Revisions)
  BY DEF Records
<1>2. Len(r.revisions) \in Nat /\ \A k \in 1 .. Len(r.revisions) : r.revisions[k] \in Revisions
  BY <1>1
<1>3. \A x \in Revisions : x.action \in {"corrected", "withdrawn"}
  BY DEF Revisions
<1>4. r.revisions = <<>> <=> Len(r.revisions) = 0
  BY <1>1
<1>5. r = [headline |-> r.headline, approvedAt |-> r.approvedAt,
           status |-> r.status, revisions |-> r.revisions]
  BY DEF Records
<1>. QED  BY <1>1, <1>2, <1>3, <1>4, <1>5

\* The revisions from k on that are corrections.
CorrectionsFrom(revisions, k) ==
    {m \in k .. Len(revisions) : revisions[m].action = "corrected"}

IsLeast(m, S) == m \in S /\ \A n \in S : m <= n

LEMMA HeadlineIsLastOne ==
    ASSUME NEW r, NEW k, CorrectionsFrom(r.revisions, k) = {}
    PROVE  HeadlineAt(r, k) = r.headline
  BY DEF HeadlineAt, CorrectionsFrom

LEMMA HeadlineIsPreviousOne ==
    ASSUME NEW r, NEW k, k .. Len(r.revisions) \subseteq Nat,
           NEW m, IsLeast(m, CorrectionsFrom(r.revisions, k))
    PROVE  HeadlineAt(r, k) = r.revisions[m].previous
<1>. DEFINE C == CorrectionsFrom(r.revisions, k)
            c == CHOOSE x \in C : \A n \in C : x <= n
<1>1. C \subseteq Nat /\ m \in C /\ \A n \in C : m <= n
  BY DEF CorrectionsFrom, IsLeast
<1>2. c \in C /\ \A n \in C : c <= n
  BY <1>1
<1>3. c = m
  <2>. HIDE DEF C, c
  <2>. QED  BY <1>1, <1>2
<1>4. C # {}
  BY <1>1
<1>5. HeadlineAt(r, k) = r.revisions[c].previous
  BY <1>4 DEF HeadlineAt, CorrectionsFrom
<1>. QED  BY <1>3, <1>5

LEMMA CorrectionsHaveLeast ==
    ASSUME NEW r \in Records, NEW k \in Nat, CorrectionsFrom(r.revisions, k) # {}
    PROVE  \E m : IsLeast(m, CorrectionsFrom(r.revisions, k))
<1>1. CorrectionsFrom(r.revisions, k) \subseteq Nat
  BY RecordFields DEF CorrectionsFrom
<1>. QED  BY <1>1, LeastExists DEF IsLeast

LEMMA VersionFields ==
    ASSUME NEW r \in Records, NEW k \in 1 .. Len(r.revisions) + 1
    PROVE  /\ VersionAt(r, k).headline = HeadlineAt(r, k)
           /\ VersionAt(r, k).approvedAt = r.approvedAt
           /\ VersionAt(r, k).status = IF k = 1 THEN "active" ELSE r.revisions[k - 1].action
           /\ VersionAt(r, k).revisions = SubSeq(r.revisions, 1, k - 1)
           /\ VersionAt(r, k).revisions \in Seq(Revisions)
           /\ Len(VersionAt(r, k).revisions) = k - 1
           /\ \A m \in 1 .. k - 1 : VersionAt(r, k).revisions[m] = r.revisions[m]
<1>. DEFINE s == SubSeq(r.revisions, 1, k - 1)
<1>1. r.revisions \in Seq(Revisions) /\ Len(r.revisions) \in Nat
  BY RecordFields
<1>2. s \in Seq(Revisions) /\ Len(s) = k - 1 /\ \A m \in 1 .. k - 1 : s[m] = r.revisions[m]
  BY <1>1
<1>. HIDE DEF s
<1>3. VersionAt(r, k) =
        [headline |-> HeadlineAt(r, k), approvedAt |-> r.approvedAt,
         status |-> IF k = 1 THEN "active" ELSE r.revisions[k - 1].action, revisions |-> s]
  BY Zenon DEF VersionAt, s
<1>4. s = SubSeq(r.revisions, 1, k - 1)
  BY Zenon DEF s
<1>. QED  BY <1>2, <1>3, <1>4

\* Two sequences with the same elements have the same beginnings.
LEMMA SameBeginning ==
    ASSUME NEW S, NEW s \in Seq(S), NEW t \in Seq(S), NEW n \in Nat,
           n <= Len(s), n <= Len(t), \A m \in 1 .. n : s[m] = t[m]
    PROVE  SubSeq(s, 1, n) = SubSeq(t, 1, n)
  OBVIOUS

\* A record whose status is what its last revision did is its own last version.
LEMMA LastVersion ==
    ASSUME NEW r \in Records, WellFormed(r)
    PROVE  VersionAt(r, Len(r.revisions) + 1) = r
<1>. DEFINE n == Len(r.revisions) + 1
<1>1. r.revisions \in Seq(Revisions) /\ Len(r.revisions) \in Nat
      /\ (r.revisions = <<>> <=> Len(r.revisions) = 0)
  BY RecordFields
<1>2. CorrectionsFrom(r.revisions, n) = {}
  BY <1>1 DEF CorrectionsFrom
<1>3. HeadlineAt(r, n) = r.headline
  BY <1>2, HeadlineIsLastOne, Zenon
<1>4. SubSeq(r.revisions, 1, n - 1) = r.revisions
  BY <1>1
<1>5. (IF n = 1 THEN "active" ELSE r.revisions[n - 1].action) = r.status
  BY <1>1 DEF WellFormed
<1>6. r = [headline |-> r.headline, approvedAt |-> r.approvedAt,
           status |-> r.status, revisions |-> r.revisions]
  BY RecordFields, Zenon
<1>. QED  BY <1>3, <1>4, <1>5, <1>6, Zenon DEF VersionAt

\* A correction or a withdrawal changes no version the record had.
LEMMA ExtensionKeepsHeadlines ==
    ASSUME NEW r \in Records, NEW new \in Records, Extends(r, new),
           NEW k \in 1 .. Len(r.revisions) + 1
    PROVE  HeadlineAt(new, k) = HeadlineAt(r, k)
<1>. DEFINE C == CorrectionsFrom(r.revisions, k)
            D == CorrectionsFrom(new.revisions, k)
            n == Len(r.revisions) + 1
<1>1. /\ Len(r.revisions) \in Nat /\ k \in Nat /\ Len(new.revisions) = n
      /\ \A m \in 1 .. n - 1 : new.revisions[m] = r.revisions[m]
  BY RecordFields DEF Extends
<1>2. D = IF new.revisions[n].action = "corrected" THEN C \cup {n} ELSE C
  BY <1>1 DEF CorrectionsFrom
<1>3. k .. Len(r.revisions) \subseteq Nat /\ k .. Len(new.revisions) \subseteq Nat
  BY <1>1
<1>4. CASE C # {}
  <2>1. PICK m : IsLeast(m, C)
    BY <1>1, <1>4, CorrectionsHaveLeast
  <2>2. m \in 1 .. n - 1
    BY <1>1, <2>1 DEF IsLeast, CorrectionsFrom
  <2>3. IsLeast(m, D)
    BY <1>1, <1>2, <2>1, <2>2 DEF IsLeast
  <2>4. HeadlineAt(r, k) = r.revisions[m].previous
    BY <1>3, <2>1, HeadlineIsPreviousOne
  <2>5. HeadlineAt(new, k) = new.revisions[m].previous
    BY <1>3, <2>3, HeadlineIsPreviousOne
  <2>. QED  BY <1>1, <2>2, <2>4, <2>5
<1>5. CASE C = {} /\ new.revisions[n].action = "corrected"
  <2>1. IsLeast(n, D)
    BY <1>1, <1>2, <1>5 DEF IsLeast
  <2>2. HeadlineAt(new, k) = new.revisions[n].previous
    BY <1>3, <2>1, HeadlineIsPreviousOne
  <2>3. HeadlineAt(r, k) = r.headline
    BY <1>5, HeadlineIsLastOne
  <2>. QED  BY <1>5, <2>2, <2>3 DEF Extends
<1>6. CASE C = {} /\ new.revisions[n].action # "corrected"
  <2>1. D = {}
    BY <1>2, <1>6
  <2>2. HeadlineAt(new, k) = new.headline /\ HeadlineAt(r, k) = r.headline
    BY <1>6, <2>1, HeadlineIsLastOne
  <2>. QED  BY <1>6, <2>2 DEF Extends
<1>. QED  BY <1>4, <1>5, <1>6

LEMMA ExtensionKeepsVersions ==
    ASSUME NEW r \in Records, NEW new \in Records, Extends(r, new),
           NEW k \in 1 .. Len(r.revisions) + 1
    PROVE  VersionAt(new, k) = VersionAt(r, k)
<1>1. /\ Len(r.revisions) \in Nat /\ k \in Nat /\ Len(new.revisions) = Len(r.revisions) + 1
      /\ r.revisions \in Seq(Revisions) /\ new.revisions \in Seq(Revisions)
      /\ \A m \in 1 .. Len(r.revisions) : new.revisions[m] = r.revisions[m]
  BY RecordFields DEF Extends
<1>2. SubSeq(new.revisions, 1, k - 1) = SubSeq(r.revisions, 1, k - 1)
  BY <1>1, SameBeginning
<1>3. k # 1 => new.revisions[k - 1].action = r.revisions[k - 1].action
  BY <1>1
<1>4. new.approvedAt = r.approvedAt
  BY DEF Extends
<1>5. HeadlineAt(new, k) = HeadlineAt(r, k)
  BY ExtensionKeepsHeadlines
<1>. QED  BY <1>2, <1>3, <1>4, <1>5, Zenon DEF VersionAt

LEMMA ExtensionRetains ==
    ASSUME NEW r \in Records, NEW new \in Records, Extends(r, new),
           NEW old, IsVersionOf(old, r)
    PROVE  IsVersionOf(old, new)
<1>1. PICK k \in 1 .. Len(r.revisions) + 1 : old = VersionAt(r, k)
  BY DEF IsVersionOf
<1>2. k \in 1 .. Len(new.revisions) + 1
  BY RecordFields DEF Extends
<1>3. old = VersionAt(new, k)
  BY <1>1, ExtensionKeepsVersions
<1>. QED  BY <1>2, <1>3 DEF IsVersionOf

LEMMA RetainsItself ==
    ASSUME NEW r \in Records, WellFormed(r)
    PROVE  IsVersionOf(r, r)
<1>1. Len(r.revisions) + 1 \in 1 .. Len(r.revisions) + 1
  BY RecordFields
<1>. QED  BY <1>1, LastVersion, Zenon DEF IsVersionOf

LEMMA FirstRecordFacts ==
    ASSUME NEW d \in Previews
    PROVE  /\ FirstRecord(d) \in Records
           /\ WellFormed(FirstRecord(d))
           /\ FirstRecord(d).status = "active"
           /\ VersionAt(FirstRecord(d), 1) = FirstRecord(d)
<1>1. FirstRecord(d) \in Records /\ WellFormed(FirstRecord(d)) /\ FirstRecord(d).status = "active"
  BY DEF Previews, Records, FirstRecord, WellFormed
<1>2. Len(FirstRecord(d).revisions) + 1 = 1
  BY DEF FirstRecord
<1>. QED  BY <1>1, <1>2, LastVersion

LEMMA CorrectedFacts ==
    ASSUME NEW r \in Records, NEW hl \in Headlines, now \in Nat
    PROVE  /\ Corrected(r, hl) \in Records
           /\ WellFormed(Corrected(r, hl))
           /\ Extends(r, Corrected(r, hl))
           /\ Corrected(r, hl).status = "corrected"
           /\ Corrected(r, hl).headline = hl
<1>. DEFINE x == [action |-> "corrected", at |-> now, previous |-> r.headline]
            s == Append(r.revisions, x)
<1>1. Corrected(r, hl) = [headline |-> hl, approvedAt |-> r.approvedAt,
                          status |-> "corrected", revisions |-> s]
  <2>1. Corrected(r, hl) = [r EXCEPT !.status = "corrected", !.headline = hl, !.revisions = s]
    BY DEF Corrected
  <2>. HIDE DEF s
  <2>. QED  BY <2>1 DEF Records
<1>2. x \in Revisions /\ x.action = "corrected" /\ x.previous = r.headline
  BY RecordFields DEF Revisions
<1>. HIDE DEF x
<1>3. /\ s \in Seq(Revisions) /\ Len(s) = Len(r.revisions) + 1 /\ s[Len(r.revisions) + 1] = x
      /\ \A k \in 1 .. Len(r.revisions) : s[k] = r.revisions[k]
      /\ s # <<>>
  BY <1>2, RecordFields
<1>. HIDE DEF s
<1>4. Corrected(r, hl) \in Records
  BY <1>1, <1>3, RecordFields DEF Records
<1>. QED  BY <1>1, <1>2, <1>3, <1>4, RecordFields DEF WellFormed, Extends

LEMMA WithdrawnFacts ==
    ASSUME NEW r \in Records, now \in Nat
    PROVE  /\ Withdrawn(r) \in Records
           /\ WellFormed(Withdrawn(r))
           /\ Extends(r, Withdrawn(r))
           /\ Withdrawn(r).status = "withdrawn"
           /\ Withdrawn(r).headline = r.headline
<1>. DEFINE x == [action |-> "withdrawn", at |-> now, previous |-> None]
            s == Append(r.revisions, x)
<1>1. Withdrawn(r) = [headline |-> r.headline, approvedAt |-> r.approvedAt,
                      status |-> "withdrawn", revisions |-> s]
  <2>1. Withdrawn(r) = [r EXCEPT !.status = "withdrawn", !.revisions = s]
    BY DEF Withdrawn
  <2>. HIDE DEF s
  <2>. QED  BY <2>1 DEF Records
<1>2. x \in Revisions /\ x.action = "withdrawn"
  BY DEF Revisions
<1>. HIDE DEF x
<1>3. /\ s \in Seq(Revisions) /\ Len(s) = Len(r.revisions) + 1 /\ s[Len(r.revisions) + 1] = x
      /\ \A k \in 1 .. Len(r.revisions) : s[k] = r.revisions[k]
      /\ s # <<>>
  BY <1>2, RecordFields
<1>. HIDE DEF s
<1>4. Withdrawn(r) \in Records
  BY <1>1, <1>3, RecordFields DEF Records
<1>. QED  BY <1>1, <1>2, <1>3, <1>4, RecordFields DEF WellFormed, Extends

-----------------------------------------------------------------------------
(***************************************************************************)
(* The pieces of the types.                                                *)
(***************************************************************************)
LEMMA RequestFields ==
    ASSUME NEW r \in Requests
    PROVE  /\ r.phase \in {"idle", "unlinking", "writing", "approving", "correcting"}
           /\ r = Idle <=> r.phase = "idle"
           /\ r.phase = "writing" => r.records \in Entries
           /\ r.phase \in {"approving", "correcting"} =>
                 r.item \in Items /\ r.record \in Records /\ r.digest \in Digests
  BY DEF Requests, Idle

LEMMA StageFields ==
    ASSUME NEW r \in Stages
    PROVE  /\ r.phase \in {"idle", "current", "merging"}
           /\ r = Idle <=> r.phase = "idle"
           /\ r.phase \in {"current", "merging"} => r.before \in Entries
           /\ r.phase = "merging" => r.proposed \in Entries
  BY DEF Stages, Idle

LEMMA RequestTypes ==
    /\ Idle \in Requests
    /\ [phase |-> "unlinking"] \in Requests
    /\ \A e \in Entries : [phase |-> "writing", records |-> e] \in Requests
    /\ \A p \in {"approving", "correcting"}, i \in Items, r \in Records, d \in Digests :
          [phase |-> p, item |-> i, record |-> r, digest |-> d] \in Requests
  BY DEF Requests, Idle

LEMMA StageTypes ==
    /\ Idle \in Stages
    /\ \A e \in Entries : [phase |-> "current", before |-> e] \in Stages
    /\ \A e, f \in Entries : [phase |-> "merging", before |-> e, proposed |-> f] \in Stages
  BY DEF Stages, Idle

LEMMA RowFields ==
    ASSUME TypeOK, NEW i \in Items, publication[i] # None
    PROVE  publication[i] \in Publications /\ publication[i].record \in Records
           /\ publication[i].digest \in Digests
  BY DEF TypeOK, Publications

LEMMA EntryTypes ==
    ASSUME TypeOK
    PROVE  /\ AllRecords \in Entries
           /\ \A e \in Entries : Recent(e) \in Entries
           /\ \A e, f \in Entries : Merge(e, f) \in Entries
<1>1. AllRecords \in Entries
  BY RowFields DEF AllRecords, Entries
<1>. QED  BY <1>1 DEF Recent, Merge, Entries

LEMMA TypeInit ==
    ASSUME Init
    PROVE  TypeOK
<1>1. [i \in Items |-> None] \in Entries
  BY DEF Entries
<1>. QED  BY <1>1, RequestTypes, StageTypes DEF Init, TypeOK

LEMMA EnterTypes ==
    ASSUME TypeOK, NEW h \in Handlers, NEW r \in Requests, Enter(h, r)
    PROVE  lock' \in Handlers \cup {None} /\ req' \in [Handlers -> Requests]
  BY DEF TypeOK, Enter

LEMMA LeaveTypes ==
    ASSUME TypeOK, NEW h \in Handlers, Leave(h)
    PROVE  lock' \in Handlers \cup {None} /\ req' \in [Handlers -> Requests]
  BY RequestTypes DEF TypeOK, Leave

LEMMA CommitTypes ==
    ASSUME TypeOK, NEW h \in Handlers, req[h].phase \in {"approving", "correcting"},
           publication' = [publication EXCEPT ![req[h].item] =
                              [record |-> req[h].record, digest |-> req[h].digest]]
    PROVE  /\ req[h].item \in Items
           /\ publication' \in [Items -> Publications \cup {None}]
<1>1. req[h] \in Requests
  BY DEF TypeOK
<1>2. req[h].item \in Items /\ req[h].record \in Records /\ req[h].digest \in Digests
  BY <1>1, RequestFields
<1>3. [record |-> req[h].record, digest |-> req[h].digest] \in Publications
  BY <1>2 DEF Publications
<1>. QED  BY <1>2, <1>3 DEF TypeOK

LEMMA TypeStep ==
    ASSUME TypeOK, [Next]_vars
    PROVE  TypeOK'
<1>1. CASE Tick
  BY <1>1 DEF Tick, TypeOK
<1>2. ASSUME NEW i \in Items, Collect(i)  PROVE TypeOK'
  BY <1>2 DEF Collect, TypeOK
<1>3. ASSUME NEW i \in Items, NEW hl \in Headlines, Preview(i, hl)  PROVE TypeOK'
  BY <1>3 DEF Preview, TypeOK, Previews
<1>4. ASSUME NEW h \in Handlers, NEW d \in previews, ApproveLoad(h, d)  PROVE TypeOK'
  <2>1. d \in Previews /\ d.item \in Items /\ item[d.item].digest \in Digests
    BY DEF TypeOK, Previews
  <2>2. FirstRecord(d) \in Records
    BY <2>1, FirstRecordFacts
  <2>3. \E r \in Requests : Enter(h, r)
    BY <1>4, <2>1, <2>2, RequestTypes DEF ApproveLoad
  <2>. QED  BY <1>4, <2>3, EnterTypes DEF ApproveLoad, TypeOK
<1>5. ASSUME NEW h \in Handlers, ApproveCommit(h)  PROVE TypeOK'
  BY <1>5, CommitTypes, RequestTypes DEF ApproveCommit, ToExport, TypeOK
<1>6. ASSUME NEW h \in Handlers, NEW i \in Items, NEW hl \in Headlines, CorrectLoad(h, i, hl)
      PROVE TypeOK'
  <2>1. item[i].digest \in Digests /\ now \in Nat
    BY DEF TypeOK
  <2>2. Corrected(publication[i].record, hl) \in Records
    BY <1>6, <2>1, RowFields, CorrectedFacts DEF CorrectLoad
  <2>3. \E r \in Requests : Enter(h, r)
    BY <1>6, <2>1, <2>2, RequestTypes DEF CorrectLoad
  <2>. QED  BY <1>6, <2>3, EnterTypes DEF CorrectLoad, TypeOK
<1>7. ASSUME NEW h \in Handlers, CorrectCommit(h)  PROVE TypeOK'
  BY <1>7, CommitTypes, RequestTypes DEF CorrectCommit, ToExport, TypeOK
<1>8. ASSUME NEW h \in Handlers, NEW i \in Items, Withdraw(h, i)  PROVE TypeOK'
  <2>1. lock' \in Handlers \cup {None} /\ req' \in [Handlers -> Requests]
    BY <1>8, EnterTypes, RequestTypes DEF Withdraw
  <2>2. publication[i] \in Publications /\ Withdrawn(publication[i].record) \in Records
    BY <1>8, RowFields, WithdrawnFacts DEF Withdraw, TypeOK
  <2>3. [publication[i] EXCEPT !.record = Withdrawn(@)] \in Publications
    BY <2>2 DEF Publications
  <2>4. publication' \in [Items -> Publications \cup {None}]
    BY <1>8, <2>3 DEF Withdraw, TypeOK
  <2>. QED  BY <1>8, <2>1, <2>4 DEF Withdraw, TypeOK
<1>9. ASSUME NEW h \in Handlers, Rebuild(h)  PROVE TypeOK'
  BY <1>9, EnterTypes, RequestTypes DEF Rebuild, TypeOK
<1>10. ASSUME NEW h \in Handlers, Unlink(h)  PROVE TypeOK'
  BY <1>10, EntryTypes, RequestTypes DEF Unlink, TypeOK
<1>11. ASSUME NEW h \in Handlers, WritePending(h)  PROVE TypeOK'
  <2>1. req[h].records \in Entries
    BY <1>11, RequestFields DEF WritePending, TypeOK
  <2>. QED  BY <1>11, <2>1, EntryTypes, LeaveTypes DEF WritePending, TypeOK
<1>12. ASSUME NEW h \in Handlers, Fail(h)  PROVE TypeOK'
  BY <1>12, LeaveTypes DEF Fail, TypeOK
<1>13. CASE Crash
  BY <1>13, RequestTypes DEF Crash, TypeOK
<1>14. ASSUME NEW s \in Stagers, StageReadCurrent(s)  PROVE TypeOK'
  BY <1>14, StageTypes DEF StageReadCurrent, TypeOK
<1>15. ASSUME NEW s \in Stagers, StageReadPending(s)  PROVE TypeOK'
  <2>1. stage[s] \in Stages /\ stage[s].before \in Entries
    BY <1>15, StageFields DEF StageReadPending, TypeOK
  <2>2. stage' = [stage EXCEPT ![s] = stage'[s]] /\ stage'[s] \in Stages
    BY <1>15, <2>1, StageTypes DEF StageReadPending, TypeOK
  <2>. QED  BY <1>15, <2>2 DEF StageReadPending, TypeOK
<1>16. ASSUME NEW s \in Stagers, StageWrite(s)  PROVE TypeOK'
  <2>1. stage[s] \in Stages /\ stage[s].before \in Entries /\ stage[s].proposed \in Entries
    BY <1>16, StageFields DEF StageWrite, TypeOK
  <2>2. wire' \in Entries
    BY <1>16, <2>1, EntryTypes DEF StageWrite, TypeOK
  <2>. QED  BY <1>16, <2>2, StageTypes DEF StageWrite, TypeOK
<1>17. CASE UNCHANGED vars
  BY <1>17 DEF vars, TypeOK
<1>. QED
  BY <1>1, <1>2, <1>3, <1>4, <1>5, <1>6, <1>7, <1>8, <1>9, <1>10, <1>11, <1>12, <1>13,
     <1>14, <1>15, <1>16, <1>17 DEF Next, Critical, Staging

-----------------------------------------------------------------------------
(***************************************************************************)
(* What a step may do to the committed records.                            *)
(***************************************************************************)
LEMMA ExtensionIsWellFormed ==
    ASSUME NEW r \in Records, NEW new \in Records, Extends(r, new)
    PROVE  WellFormed(new)
<1>1. Len(new.revisions) = Len(r.revisions) + 1 /\ new.revisions # <<>>
  BY RecordFields DEF Extends
<1>. QED  BY <1>1 DEF Extends, WellFormed

\* A row is replaced, or none is.
SetRow(i, p) == p \in Publications /\ publication' = [publication EXCEPT ![i] = p]

Approved(i) ==
    /\ publication[i] = None
    /\ Cardinality(LiveNow) < MaxPublic
    /\ \E d \in previews : d.item = i /\ SetRow(i, [record |-> FirstRecord(d), digest |-> d.digest])

Revised(i) ==
    /\ publication[i] # None
    /\ publication[i].record.status # "withdrawn"
    /\ \E p \in Publications :
          /\ SetRow(i, p)
          /\ Extends(publication[i].record, p.record)
          /\ p.record.status \in {"corrected", "withdrawn"}
          /\ p.record.status = "corrected" <=> p.record.headline # publication[i].record.headline

\* Nothing but the rows and the requests is touched by a commit.
Commit ==
    /\ \E i \in Items : Approved(i) \/ Revised(i)
    /\ UNCHANGED <<now, previews, wire>>

LEMMA CommitSteps ==
    ASSUME DeskInv, [Next]_vars
    PROVE  publication' = publication \/ Commit
<1>. USE DEF DeskInv
<1>1. ASSUME NEW h \in Handlers, ApproveCommit(h)  PROVE Commit
  <2>. DEFINE i == req[h].item
  <2>1. i \in Items /\ ApprovingInv(req[h])
    BY <1>1, CommitTypes DEF ApproveCommit, RequestInv
  <2>2. PICK d \in previews : d.item = i /\ d.digest = req[h].digest /\ req[h].record = FirstRecord(d)
    BY <2>1 DEF ApprovingInv
  <2>3. d \in Previews
    BY DEF TypeOK
  <2>4. [record |-> FirstRecord(d), digest |-> d.digest] \in Publications
    BY <2>3, FirstRecordFacts DEF Previews, Publications
  <2>5. Approved(i)
    BY <1>1, <2>1, <2>2, <2>4 DEF ApproveCommit, ApprovingInv, Approved, SetRow
  <2>. QED  BY <1>1, <2>1, <2>5 DEF ApproveCommit, Commit
<1>2. ASSUME NEW h \in Handlers, CorrectCommit(h)  PROVE Commit
  <2>. DEFINE i == req[h].item
              p == [record |-> req[h].record, digest |-> req[h].digest]
  <2>1. i \in Items /\ CorrectingInv(req[h])
    BY <1>2, CommitTypes DEF CorrectCommit, RequestInv
  <2>2. req[h].record \in Records /\ req[h].digest \in Digests
    BY <1>2, RequestFields DEF CorrectCommit, TypeOK
  <2>3. p \in Publications /\ p.record = req[h].record
    BY <2>2 DEF Publications
  <2>4. SetRow(i, p)
    BY <1>2, <2>3 DEF CorrectCommit, SetRow
  <2>5. Revised(i)
    BY <2>1, <2>3, <2>4, Zenon DEF CorrectingInv, Revised
  <2>. QED  BY <1>2, <2>1, <2>5 DEF CorrectCommit, Commit
<1>3. ASSUME NEW h \in Handlers, NEW i \in Items, Withdraw(h, i)
      PROVE  publication' = publication \/ Commit
  <2>1. CASE publication' = publication
    BY <2>1
  <2>2. CASE /\ publication[i].record.status # "withdrawn"
             /\ publication' = [publication EXCEPT ![i].record = Withdrawn(@)]
    <3>. DEFINE r == publication[i].record
                p == [publication[i] EXCEPT !.record = Withdrawn(@)]
    <3>1. publication[i] # None /\ publication[i] \in Publications /\ r \in Records
      BY <1>3, RowFields DEF Withdraw
    <3>2. /\ Withdrawn(r) \in Records
          /\ Extends(r, Withdrawn(r))
          /\ Withdrawn(r).status = "withdrawn" /\ Withdrawn(r).headline = r.headline
      BY <3>1, WithdrawnFacts DEF TypeOK
    <3>3. p \in Publications /\ p.record = Withdrawn(r)
      BY <3>1, <3>2 DEF Publications
    <3>4. SetRow(i, p)
      BY <2>2, <3>3 DEF SetRow
    <3>5. Revised(i)
      BY <2>2, <3>1, <3>2, <3>3, <3>4, Zenon DEF Revised
    <3>. QED  BY <1>3, <3>5 DEF Withdraw, Commit
  <2>. QED  BY <1>3, <2>1, <2>2 DEF Withdraw
<1>4. ASSUME NEW h \in Handlers, Critical(h)  PROVE publication' = publication \/ Commit
  BY <1>1, <1>2, <1>3, <1>4 DEF Critical, ApproveLoad, CorrectLoad, Rebuild, Unlink, WritePending, Fail
<1>. QED
  BY <1>4 DEF Next, Tick, Collect, Preview, Crash, Staging, StageReadCurrent,
     StageReadPending, StageWrite, vars

\* Whatever a step commits, what an artifact retains stays retained.
LEMMA RowsGrow ==
    ASSUME DeskInv, [Next]_vars, NEW i \in Items, publication[i] # None
    PROVE  /\ publication'[i] # None
           /\ \/ publication'[i] = publication[i]
              \/ Extends(publication[i].record, publication'[i].record)
<1>1. CASE publication' = publication
  BY <1>1
<1>2. ASSUME NEW j \in Items, Approved(j)  PROVE publication'[i] = publication[i]
  BY <1>2 DEF Approved, SetRow, DeskInv, TypeOK
<1>3. ASSUME NEW j \in Items, Revised(j)
      PROVE  /\ publication'[i] # None
             /\ \/ publication'[i] = publication[i]
                \/ Extends(publication[i].record, publication'[i].record)
  BY <1>3, NoneAssumption DEF Revised, SetRow, DeskInv, TypeOK
<1>. QED  BY <1>1, <1>2, <1>3, CommitSteps DEF Commit

LEMMA RetainedKept ==
    ASSUME DeskInv, [Next]_vars, NEW e, Retained(e, publication)
    PROVE  Retained(e, publication')
<1>. SUFFICES ASSUME NEW i \in Items, e[i] # None
              PROVE  publication'[i] # None /\ IsVersionOf(e[i], publication'[i].record)
  BY DEF Retained
<1>1. publication[i] # None /\ IsVersionOf(e[i], publication[i].record)
  BY DEF Retained
<1>2. publication'[i] # None
  BY <1>1, RowsGrow
<1>3. publication[i].record \in Records /\ publication'[i].record \in Records
  <2>1. TypeOK /\ TypeOK'
    BY TypeStep DEF DeskInv
  <2>. QED  BY <1>1, <1>2, <2>1 DEF TypeOK, Publications
<1>. QED  BY <1>1, <1>2, <1>3, RowsGrow, ExtensionRetains

LEMMA RecordsStep ==
    ASSUME DeskInv, [Next]_vars
    PROVE  RecordsWellFormed'
<1>. SUFFICES ASSUME NEW i \in Items, publication'[i] # None
              PROVE  WellFormed(publication'[i].record)
  BY DEF RecordsWellFormed
<1>1. CASE publication'[i] = publication[i]
  BY <1>1 DEF DeskInv, RecordsWellFormed
<1>2. ASSUME NEW j \in Items, Approved(j), publication'[i] # publication[i]
      PROVE  WellFormed(publication'[i].record)
  <2>1. PICK d \in previews : SetRow(j, [record |-> FirstRecord(d), digest |-> d.digest])
    BY <1>2 DEF Approved
  <2>2. publication'[i].record = FirstRecord(d) /\ d \in Previews
    BY <1>2, <2>1 DEF SetRow, DeskInv, TypeOK
  <2>. QED  BY <2>2, FirstRecordFacts
<1>3. ASSUME NEW j \in Items, Revised(j), publication'[i] # publication[i]
      PROVE  WellFormed(publication'[i].record)
  <2>1. PICK p \in Publications : SetRow(j, p) /\ Extends(publication[j].record, p.record)
    BY <1>3 DEF Revised
  <2>2. publication'[i] = p /\ j = i
    BY <1>3, <2>1 DEF SetRow, DeskInv, TypeOK
  <2>3. p.record \in Records /\ publication[j].record \in Records
    BY <1>3, RowFields DEF Publications, Revised, DeskInv
  <2>. QED  BY <2>1, <2>2, <2>3, ExtensionIsWellFormed
<1>. QED  BY <1>1, <1>2, <1>3, CommitSteps DEF Commit

-----------------------------------------------------------------------------
(***************************************************************************)
(* The parts of the invariant, one after the other.                        *)
(***************************************************************************)
LEMMA RetainedParts ==
    ASSUME NEW rows, NEW e, NEW f, Retained(e, rows), Retained(f, rows)
    PROVE  Retained(Recent(e), rows) /\ Retained(Merge(e, f), rows)
  BY DEF Retained, Recent, Merge

LEMMA AllRecordsRetained ==
    ASSUME DeskInv
    PROVE  Retained(AllRecords, publication)
<1>. SUFFICES ASSUME NEW i \in Items, publication[i] # None
              PROVE  IsVersionOf(publication[i].record, publication[i].record)
  BY DEF Retained, AllRecords
<1>. QED  BY RowFields, RetainsItself DEF DeskInv, RecordsWellFormed

LEMMA StagesRetained ==
    ASSUME DeskInv, NEW s \in Stagers
    PROVE  /\ stage[s].phase \in {"current", "merging"} => Retained(stage[s].before, publication)
           /\ stage[s].phase = "merging" => Retained(stage[s].proposed, publication)
  BY DEF DeskInv, ArtifactsInv

LEMMA ArtifactsStep ==
    ASSUME DeskInv, [Next]_vars
    PROVE  ArtifactsInv'
<1>. DEFINE Kept(e) == Retained(e, publication')
            KeptStage(r) ==
                /\ r.phase \in {"current", "merging"} => Kept(r.before)
                /\ r.phase = "merging" => Kept(r.proposed)
<1>1. /\ Kept(wire) /\ Kept(AllRecords) /\ (pending # None => Kept(pending))
      /\ \A s \in Stagers : KeptStage(stage[s])
  BY StagesRetained, AllRecordsRetained, RetainedKept DEF DeskInv, ArtifactsInv
<1>2. Kept(wire')
  <2>1. ASSUME NEW s \in Stagers, StageWrite(s)  PROVE Kept(wire')
    <3>1. Kept(stage[s].before) /\ Kept(stage[s].proposed)
      BY <1>1, <2>1 DEF StageWrite
    <3>2. Kept(Merge(stage[s].before, stage[s].proposed))
      BY <3>1, RetainedParts
    <3>3. Kept(Recent(Merge(stage[s].before, stage[s].proposed)))
      BY <3>2, RetainedParts
    <3>. QED  BY <1>1, <2>1, <3>3 DEF StageWrite
  <2>2. wire' = wire \/ \E s \in Stagers : StageWrite(s)
    BY DEF Next, vars, Tick, Collect, Preview, Crash, Staging, StageReadCurrent, StageReadPending,
       Critical, ApproveLoad, ApproveCommit, CorrectLoad, CorrectCommit, Withdraw, Rebuild,
       Unlink, WritePending, Fail
  <2>. QED  BY <1>1, <2>1, <2>2
<1>3. pending' # None => Kept(pending')
  <2>1. ASSUME NEW h \in Handlers, WritePending(h)  PROVE Kept(pending')
    <3>1. req[h].records = AllRecords
      BY <2>1 DEF WritePending, DeskInv, RequestInv
    <3>. QED  BY <1>1, <2>1, <3>1, RetainedParts DEF WritePending
  <2>2. pending' = pending \/ pending' = None \/ \E h \in Handlers : WritePending(h)
    BY DEF Next, vars, Tick, Collect, Preview, Crash, Staging, StageReadCurrent, StageReadPending,
       StageWrite, Critical, ApproveLoad, ApproveCommit, CorrectLoad, CorrectCommit, Withdraw,
       Rebuild, Unlink, Fail
  <2>. QED  BY <1>1, <2>1, <2>2
<1>4. ASSUME NEW s \in Stagers  PROVE KeptStage(stage'[s])
  <2>. HIDE DEF Kept
  <2>1. ASSUME NEW t \in Stagers, StageReadCurrent(t)  PROVE KeptStage(stage'[s])
    BY <1>1, <2>1 DEF StageReadCurrent, DeskInv, TypeOK
  <2>2. ASSUME NEW t \in Stagers, StageReadPending(t)  PROVE KeptStage(stage'[s])
    BY <1>1, <2>2 DEF StageReadPending, DeskInv, TypeOK, Idle
  <2>3. ASSUME NEW t \in Stagers, StageWrite(t)  PROVE KeptStage(stage'[s])
    BY <1>1, <2>3 DEF StageWrite, DeskInv, TypeOK, Idle
  <2>4. stage' = stage \/ \E t \in Stagers : Staging(t)
    BY DEF Next, vars, Tick, Collect, Preview, Crash,
       Critical, ApproveLoad, ApproveCommit, CorrectLoad, CorrectCommit, Withdraw, Rebuild,
       Unlink, WritePending, Fail
  <2>. QED  BY <1>1, <2>1, <2>2, <2>3, <2>4 DEF Staging
<1>. QED  BY <1>2, <1>3, <1>4 DEF ArtifactsInv

\* A step of the critical section is a step of the thread that holds the lock.
LEMMA LockStep ==
    ASSUME DeskInv, [Next]_vars
    PROVE  LockInv'
<1>. USE DEF DeskInv, TypeOK, LockInv, Idle
<1>1. ASSUME NEW h \in Handlers, NEW r, Enter(h, r)  PROVE LockInv'
  BY <1>1, TelegramAssumption DEF Enter, LockFree
<1>2. ASSUME NEW h \in Handlers, Leave(h), req[h].phase # "idle"  PROVE LockInv'
  BY <1>2 DEF Leave
<1>3. ASSUME NEW h \in Handlers, req[h].phase # "idle", UNCHANGED lock,
             NEW r, req' = [req EXCEPT ![h] = r]
      PROVE  LockInv'
  BY <1>3
<1>4. CASE UNCHANGED <<lock, req>>
  BY <1>4
<1>5. CASE Crash
  BY <1>5 DEF Crash
<1>6. ASSUME NEW h \in Handlers, Critical(h)  PROVE LockInv'
  <2>1. ApproveCommit(h) \/ CorrectCommit(h) \/ Unlink(h) => LockInv'
    BY <1>3 DEF ApproveCommit, CorrectCommit, Unlink, ToExport
  <2>2. WritePending(h) \/ Fail(h) => LockInv'
    BY <1>2 DEF WritePending, Fail
  <2>3. Rebuild(h) \/ (\E d \in previews : ApproveLoad(h, d)) \/ (\E i \in Items : Withdraw(h, i))
          => LockInv'
    BY <1>1 DEF Rebuild, ApproveLoad, Withdraw
  <2>4. (\E i \in Items, hl \in Headlines : CorrectLoad(h, i, hl)) => LockInv'
    BY <1>1 DEF CorrectLoad
  <2>. QED  BY <1>6, <2>1, <2>2, <2>3, <2>4 DEF Critical
<1>. QED
  BY <1>4, <1>5, <1>6 DEF Next, vars, Tick, Collect, Preview, Staging, StageReadCurrent,
     StageReadPending, StageWrite

\* Time passes and previews are kept.
LEMMA Grows ==
    ASSUME TypeOK, [Next]_vars
    PROVE  now \in Nat /\ now' \in Nat /\ now <= now' /\ previews \subseteq previews'
<1>1. now' = now \/ now' = now + 1
  BY DEF Next, vars, Tick, Collect, Preview, Crash, Staging, StageReadCurrent, StageReadPending,
     StageWrite, Critical, ApproveLoad, ApproveCommit, CorrectLoad, CorrectCommit, Withdraw,
     Rebuild, Unlink, WritePending, Fail
<1>2. previews \subseteq previews'
  BY DEF Next, vars, Tick, Collect, Preview, Crash, Staging, StageReadCurrent, StageReadPending,
     StageWrite, Critical, ApproveLoad, ApproveCommit, CorrectLoad, CorrectCommit, Withdraw,
     Rebuild, Unlink, WritePending, Fail
<1>. QED  BY <1>1, <1>2 DEF TypeOK

LEMMA LiveShrinks ==
    ASSUME TypeOK, [Next]_vars, NEW i \in Items, Live(i, now')
    PROVE  Live(i, now)
<1>1. PublishedAt[i] \in Nat /\ Window \in Nat
  BY TelegramAssumption
<1>. QED  BY <1>1, Grows DEF Live

LEMMA LiveNowShrinks ==
    ASSUME DeskInv, [Next]_vars,
           \A i \in Items : publication'[i] # None => publication[i] # None
    PROVE  LiveNow' \subseteq LiveNow /\ IsFiniteSet(LiveNow') /\ Cardinality(LiveNow') <= Cardinality(LiveNow)
<1>1. LiveNow' \subseteq LiveNow
  BY LiveShrinks DEF LiveNow, DeskInv
<1>2. IsFiniteSet(LiveNow)
  BY DEF DeskInv, CapacityInv
<1>. QED  BY <1>1, <1>2, FS_Subset

\* While a thread is in the critical section nobody else changes the rows.
LEMMA RowsAreLocked ==
    ASSUME DeskInv, [Next]_vars, NEW h \in Handlers, req[h].phase # "idle", req'[h] = req[h]
    PROVE  publication' = publication
<1>1. lock = h /\ lock # None
  BY TelegramAssumption DEF DeskInv, LockInv
<1>2. ASSUME NEW g \in Handlers, ApproveCommit(g) \/ CorrectCommit(g)  PROVE FALSE
  <2>1. g = h
    BY <1>1, <1>2 DEF ApproveCommit, CorrectCommit, DeskInv, LockInv
  <2>2. req'[h].phase = "unlinking"
    BY <1>2, <2>1 DEF ApproveCommit, CorrectCommit, ToExport, DeskInv, TypeOK
  <2>. QED  BY <1>2, <2>1, <2>2 DEF ApproveCommit, CorrectCommit
<1>3. \A g \in Handlers, i \in Items : ~Withdraw(g, i)
  BY <1>1 DEF Withdraw, Enter, LockFree
<1>. QED
  BY <1>2, <1>3 DEF Next, vars, Tick, Collect, Preview, Crash, Staging, StageReadCurrent,
     StageReadPending, StageWrite, Critical, ApproveLoad, CorrectLoad,
     Rebuild, Unlink, WritePending, Fail

\* The step that brings a request into the phase it is in.
LEMMA PhaseIsEntered ==
    ASSUME DeskInv, [Next]_vars, NEW h \in Handlers, req'[h] # req[h]
    PROVE  \/ req'[h].phase \in {"idle", "unlinking"}
           \/ \E d \in previews : ApproveLoad(h, d)
           \/ \E i \in Items, hl \in Headlines : CorrectLoad(h, i, hl)
           \/ Unlink(h)
<1>. USE DEF DeskInv, TypeOK, Idle
<1>1. ASSUME NEW g \in Handlers, NEW r, req' = [req EXCEPT ![g] = r]
      PROVE  h = g /\ req'[h] = r
  BY <1>1
<1>2. ASSUME NEW g \in Handlers, ApproveCommit(g) \/ CorrectCommit(g)
      PROVE  req'[h].phase = "unlinking"
  BY <1>2, <1>1 DEF ApproveCommit, CorrectCommit, ToExport
<1>3. ASSUME NEW g \in Handlers, WritePending(g) \/ Fail(g)
      PROVE  req'[h].phase = "idle"
  BY <1>3, <1>1 DEF WritePending, Fail, Leave
<1>4. ASSUME NEW g \in Handlers, Rebuild(g) \/ \E i \in Items : Withdraw(g, i)
      PROVE  req'[h].phase = "unlinking"
  BY <1>4, <1>1 DEF Rebuild, Withdraw, Enter
<1>5. ASSUME NEW g \in Handlers, NEW d \in previews, ApproveLoad(g, d)  PROVE h = g
  BY <1>5, <1>1 DEF ApproveLoad, Enter
<1>6. ASSUME NEW g \in Handlers, NEW i \in Items, NEW hl \in Headlines, CorrectLoad(g, i, hl)
      PROVE  h = g
  BY <1>6, <1>1 DEF CorrectLoad, Enter
<1>7. ASSUME NEW g \in Handlers, Unlink(g)  PROVE h = g
  BY <1>7, <1>1 DEF Unlink
<1>8. Crash => req'[h].phase = "idle"
  BY DEF Crash
<1>9. req' = req \/ Crash \/ \E g \in Handlers : Critical(g)
  BY DEF Next, vars, Tick, Collect, Preview, Staging, StageReadCurrent, StageReadPending, StageWrite
<1>. QED  BY <1>2, <1>3, <1>4, <1>5, <1>6, <1>7, <1>8, <1>9 DEF Critical

LEMMA RequestStep ==
    ASSUME DeskInv, [Next]_vars
    PROVE  RequestInv'
<1>. DEFINE Sound(h) ==
        /\ req[h].phase = "approving" => ApprovingInv(req[h])
        /\ req[h].phase = "correcting" => CorrectingInv(req[h])
        /\ req[h].phase = "writing" => req[h].records = AllRecords
<1>. SUFFICES ASSUME NEW h \in Handlers  PROVE Sound(h)'
  BY DEF RequestInv
<1>1. ASSUME req'[h] = req[h], req[h].phase \in {"approving", "correcting", "writing"}
      PROVE  Sound(h)'
  <2>1. publication' = publication
    BY <1>1, RowsAreLocked
  <2>2. req[h].phase \in {"approving", "correcting"} => req[h].item \in Items
    BY RequestFields DEF DeskInv, TypeOK
  <2>3. Cardinality(LiveNow) < MaxPublic => Cardinality(LiveNow') < MaxPublic
    <3>1. IsFiniteSet(LiveNow) /\ Cardinality(LiveNow) \in Nat
      BY FS_CardinalityType DEF DeskInv, CapacityInv
    <3>2. Cardinality(LiveNow') \in Nat /\ Cardinality(LiveNow') <= Cardinality(LiveNow)
      BY <2>1, LiveNowShrinks, FS_CardinalityType
    <3>. QED  BY <3>1, <3>2, TelegramAssumption
  <2>4. previews \subseteq previews'
    BY Grows DEF DeskInv
  <2>5. AllRecords' = AllRecords
    BY <2>1 DEF AllRecords
  <2>6. ApprovingInv(req[h]) => ApprovingInv(req[h])'
    BY <1>1, <2>1, <2>3, <2>4 DEF ApprovingInv
  <2>7. CorrectingInv(req[h]) => CorrectingInv(req[h])'
    BY <1>1, <2>1 DEF CorrectingInv
  <2>8. Sound(h)
    BY DEF DeskInv, RequestInv
  <2>. QED  BY <1>1, <2>5, <2>6, <2>7, <2>8
<1>2. ASSUME NEW d \in previews, ApproveLoad(h, d)  PROVE Sound(h)'
  <2>1. publication' = publication /\ previews' = previews /\ now' = now
    BY <1>2 DEF ApproveLoad
  <2>2. LiveNow' = LiveNow
    BY <2>1 DEF LiveNow
  <2>3. CASE req'[h] = [phase |-> "unlinking"]
    BY <2>3
  <2>4. CASE /\ publication[d.item] = None /\ HasCapacity(d.item)
             /\ req'[h] = [phase |-> "approving", item |-> d.item, record |-> FirstRecord(d),
                           digest |-> d.digest]
    <3>1. Cardinality(LiveNow) < MaxPublic
      BY <2>4 DEF HasCapacity
    <3>2. ApprovingInv(req[h])'
      BY <2>1, <2>2, <2>4, <3>1 DEF ApprovingInv, FirstRecord
    <3>. QED  BY <2>4, <3>2
  <2>. QED  BY <1>2, <2>3, <2>4 DEF ApproveLoad, DraftIsCurrent, Enter, DeskInv, TypeOK
<1>3. ASSUME NEW i \in Items, NEW hl \in Headlines, CorrectLoad(h, i, hl)  PROVE Sound(h)'
  <2>1. publication' = publication
    BY <1>3 DEF CorrectLoad
  <2>2. req'[h] = [phase |-> "correcting", item |-> i,
                   record |-> Corrected(publication[i].record, hl), digest |-> item[i].digest]
    BY <1>3 DEF CorrectLoad, Enter, DeskInv, TypeOK
  <2>3. /\ publication[i] # None /\ publication[i].record.status # "withdrawn"
        /\ hl # publication[i].record.headline
    BY <1>3 DEF CorrectLoad, CanCorrect
  <2>4. publication[i].record \in Records
    BY <2>3, RowFields DEF DeskInv
  <2>. DEFINE c == Corrected(publication[i].record, hl)
  <2>5. Extends(publication[i].record, c) /\ c.status = "corrected" /\ c.headline = hl
    BY <2>4, CorrectedFacts DEF DeskInv, TypeOK
  <2>. HIDE DEF c
  <2>6. req'[h].phase = "correcting" /\ req'[h].item = i /\ req'[h].record = c
    BY <2>2 DEF c
  <2>7. CorrectingInv(req[h])'
    BY <2>1, <2>3, <2>5, <2>6 DEF CorrectingInv
  <2>. QED  BY <2>6, <2>7
<1>4. ASSUME Unlink(h)  PROVE Sound(h)'
  <2>1. req'[h] = [phase |-> "writing", records |-> AllRecords] /\ publication' = publication
    BY <1>4 DEF Unlink, DeskInv, TypeOK
  <2>. QED  BY <2>1 DEF AllRecords
<1>. QED  BY <1>1, <1>2, <1>3, <1>4, PhaseIsEntered

LEMMA CapacityStep ==
    ASSUME DeskInv, [Next]_vars
    PROVE  CapacityInv'
<1>1. IsFiniteSet(LiveNow) /\ Cardinality(LiveNow) \in Nat /\ Cardinality(LiveNow) <= MaxPublic
      /\ MaxPublic \in Nat
  BY FS_CardinalityType, TelegramAssumption DEF DeskInv, CapacityInv, CapacityHolds
<1>2. CASE \A i \in Items : publication'[i] # None => publication[i] # None
  <2>1. IsFiniteSet(LiveNow') /\ Cardinality(LiveNow') <= Cardinality(LiveNow)
    BY <1>2, LiveNowShrinks
  <2>2. Cardinality(LiveNow') \in Nat
    BY <2>1, FS_CardinalityType
  <2>. QED  BY <1>1, <2>1, <2>2 DEF CapacityInv, CapacityHolds
<1>3. ASSUME NEW j \in Items, Approved(j), now' = now  PROVE CapacityInv'
  <2>1. LiveNow' \subseteq LiveNow \cup {j}
    BY <1>3 DEF Approved, SetRow, LiveNow, DeskInv, TypeOK
  <2>2. j \notin LiveNow /\ Cardinality(LiveNow) < MaxPublic
    BY <1>3 DEF Approved, LiveNow
  <2>3. IsFiniteSet(LiveNow \cup {j}) /\ Cardinality(LiveNow \cup {j}) = Cardinality(LiveNow) + 1
    BY <1>1, <2>2, FS_AddElement
  <2>4. IsFiniteSet(LiveNow') /\ Cardinality(LiveNow') <= Cardinality(LiveNow) + 1
    BY <2>1, <2>3, FS_Subset
  <2>5. Cardinality(LiveNow') \in Nat
    BY <2>4, FS_CardinalityType
  <2>. QED  BY <1>1, <2>2, <2>4, <2>5 DEF CapacityInv, CapacityHolds
<1>4. ASSUME NEW j \in Items, Revised(j)
      PROVE  \A i \in Items : publication'[i] # None => publication[i] # None
  BY <1>4 DEF Revised, SetRow, DeskInv, TypeOK
<1>. QED  BY <1>2, <1>3, <1>4, CommitSteps DEF Commit

\* The draft a row was approved from, and what is left of it.
Draft(d, i, p) ==
    /\ d.item = i
    /\ VersionAt(p.record, 1) = FirstRecord(d)
    /\ p.record.status = "active" => p.digest = d.digest

LEMMA PreviewedStep ==
    ASSUME DeskInv, [Next]_vars
    PROVE  ApprovedWasPreviewed'
<1>. SUFFICES ASSUME NEW i \in Items, publication'[i] # None
              PROVE  \E d \in previews' : Draft(d, i, publication'[i])
  BY DEF ApprovedWasPreviewed, Draft, VersionAt, HeadlineAt, FirstRecord
<1>1. previews \subseteq previews' /\ previews \subseteq Previews
  BY Grows DEF DeskInv, TypeOK
<1>2. publication[i] # None => \E d \in previews : Draft(d, i, publication[i])
  BY DEF DeskInv, ApprovedWasPreviewed, Draft
<1>3. CASE publication'[i] = publication[i]
  BY <1>1, <1>2, <1>3
<1>4. ASSUME NEW j \in Items, Approved(j), publication'[i] # publication[i]
      PROVE  \E d \in previews : Draft(d, i, publication'[i])
  <2>1. PICK d \in previews :
            d.item = j /\ SetRow(j, [record |-> FirstRecord(d), digest |-> d.digest])
    BY <1>4 DEF Approved
  <2>2. i = j /\ publication'[i] = [record |-> FirstRecord(d), digest |-> d.digest]
    BY <1>4, <2>1 DEF SetRow, DeskInv, TypeOK
  <2>3. VersionAt(FirstRecord(d), 1) = FirstRecord(d)
    BY <1>1, FirstRecordFacts
  <2>. QED  BY <2>1, <2>2, <2>3 DEF Draft
<1>5. ASSUME NEW j \in Items, Revised(j), publication'[i] # publication[i]
      PROVE  \E d \in previews : Draft(d, i, publication'[i])
  <2>1. PICK p \in Publications : /\ SetRow(j, p)
                                  /\ Extends(publication[j].record, p.record)
                                  /\ p.record.status \in {"corrected", "withdrawn"}
    BY <1>5 DEF Revised
  <2>2. i = j /\ publication'[i] = p /\ publication[i] # None
    BY <1>5, <2>1 DEF SetRow, DeskInv, TypeOK, Revised
  <2>3. publication[i].record \in Records /\ p.record \in Records
    BY <2>2, RowFields DEF DeskInv, Publications
  <2>4. 1 \in 1 .. Len(publication[i].record.revisions) + 1
    BY <2>3, RecordFields
  <2>5. VersionAt(p.record, 1) = VersionAt(publication[i].record, 1)
    BY <2>1, <2>2, <2>3, <2>4, ExtensionKeepsVersions
  <2>. QED  BY <1>2, <2>1, <2>2, <2>5 DEF Draft
<1>. QED  BY <1>1, <1>3, <1>4, <1>5, CommitSteps DEF Commit

-----------------------------------------------------------------------------
(***************************************************************************)
(* The invariant and what follows from it.                                 *)
(***************************************************************************)
LEMMA DeskInit ==
    ASSUME Init
    PROVE  DeskInv
<1>1. TypeOK
  BY TypeInit
<1>2. LockInv /\ RequestInv /\ RecordsWellFormed /\ ArtifactsInv /\ ApprovedWasPreviewed
  BY DEF Init, Idle, LockInv, RequestInv, RecordsWellFormed, ArtifactsInv, Retained,
     ApprovedWasPreviewed
<1>3. LiveNow = {}
  BY DEF Init, LiveNow
<1>4. CapacityInv
  BY <1>3, FS_EmptySet, TelegramAssumption DEF CapacityInv, CapacityHolds
<1>. QED  BY <1>1, <1>2, <1>4 DEF DeskInv

LEMMA DeskStep ==
    ASSUME DeskInv, [Next]_vars
    PROVE  DeskInv'
<1>1. TypeOK'
  BY TypeStep DEF DeskInv
<1>. QED
  BY <1>1, LockStep, RequestStep, RecordsStep, ArtifactsStep, CapacityStep, PreviewedStep
  DEF DeskInv

LEMMA DeskInvariant == Spec => []DeskInv
<1>1. Init => DeskInv
  BY DeskInit
<1>2. DeskInv /\ [Next]_vars => DeskInv'
  BY DeskStep
<1>. QED  BY <1>1, <1>2, PTL DEF Spec

\* Tables, files, the lock and every process hold values of their types.
THEOREM PublicationTypes == Spec => []TypeOK
<1>1. DeskInv => TypeOK
  BY DEF DeskInv
<1>. QED  BY <1>1, DeskInvariant, PTL

\* Whatever fails or runs late, and however many staging runs overlap, the
\* public wire shows only versions the editors committed.
THEOREM WireIsCommitted == Spec => []WireFollowsDatabase
<1>1. DeskInv => WireFollowsDatabase
  BY DEF DeskInv, ArtifactsInv, Retained, WireFollowsDatabase
<1>. QED  BY <1>1, DeskInvariant, PTL

\* Every publication began as the record of a stored preview, and until it
\* is corrected or withdrawn it carries the digest the analyst was shown.
THEOREM PublishedWasPreviewed == Spec => []ApprovedWasPreviewed
<1>1. DeskInv => ApprovedWasPreviewed
  BY DEF DeskInv
<1>. QED  BY <1>1, DeskInvariant, PTL

\* Competing approvals never put more leads in the window than the schema
\* allows.
THEOREM CapacityIsKept == Spec => []CapacityHolds
<1>1. DeskInv => CapacityHolds
  BY DEF DeskInv, CapacityInv
<1>. QED  BY <1>1, DeskInvariant, PTL

-----------------------------------------------------------------------------
(***************************************************************************)
(* The pending artifact, when the server does not stop in the critical     *)
(* section and the unlink works; the write may fail.                       *)
(***************************************************************************)
NoCrashNorUnlinkFault == "crash" \notin Faults /\ "unlink" \notin Faults

LEMMA FreshKept ==
    ASSUME DeskInv, PendingInv, [Next]_vars, BeforeCommit \/ pending = None,
           UNCHANGED <<publication, pending>>
    PROVE  pending' # None => Fresh'
<1>. SUFFICES ASSUME pending # None, NEW i \in Items, publication[i] # None, Live(i, now')
              PROVE  pending[i] = publication[i].record
  BY DEF Fresh, Live
<1>1. Fresh
  BY DEF PendingInv
<1>2. Live(i, now)
  BY LiveShrinks DEF DeskInv
<1>. QED  BY <1>1, <1>2 DEF Fresh

LEMMA PendingStep ==
    ASSUME NoCrashNorUnlinkFault, DeskInv, PendingInv, [Next]_vars
    PROVE  PendingInv'
<1>. DEFINE Ready == pending # None /\ BeforeCommit => Fresh
            Gone == \A h \in Handlers : req[h].phase = "writing" => pending = None
<1>. USE DEF DeskInv, TypeOK
<1>1. ASSUME UNCHANGED <<publication, pending, lock, req>>  PROVE PendingInv'
  <2>1. BeforeCommit' => BeforeCommit
    BY <1>1 DEF BeforeCommit
  <2>2. Ready'
    BY <1>1, <2>1, FreshKept
  <2>3. Gone'
    BY <1>1 DEF PendingInv
  <2>. QED  BY <2>2, <2>3 DEF PendingInv
<1>2. ASSUME NEW h \in Handlers, NEW r, Enter(h, r), r.phase # "writing",
             UNCHANGED <<publication, pending>>
      PROVE  PendingInv'
  <2>1. BeforeCommit
    BY <1>2 DEF Enter, LockFree, BeforeCommit
  <2>2. Ready'
    BY <1>2, <2>1, FreshKept
  <2>3. Gone'
    BY <1>2 DEF PendingInv, Enter
  <2>. QED  BY <2>2, <2>3 DEF PendingInv
<1>3. ASSUME NEW h \in Handlers, ApproveCommit(h) \/ CorrectCommit(h)  PROVE PendingInv'
  <2>1. lock' = h /\ req'[h].phase = "unlinking" /\ pending' = pending
        /\ \A g \in Handlers : req'[g].phase = "writing" => req[g].phase = "writing"
    BY <1>3 DEF ApproveCommit, CorrectCommit, ToExport, LockInv
  <2>2. ~BeforeCommit'
    BY <2>1, TelegramAssumption DEF BeforeCommit
  <2>3. Gone'
    BY <2>1 DEF PendingInv
  <2>. QED  BY <2>2, <2>3 DEF PendingInv
<1>4. ASSUME NEW h \in Handlers, NEW i \in Items, Withdraw(h, i)  PROVE PendingInv'
  <2>1. lock' = h /\ req'[h].phase = "unlinking" /\ pending' = pending
        /\ \A g \in Handlers : req'[g].phase = "writing" => req[g].phase = "writing"
    BY <1>4 DEF Withdraw, Enter
  <2>2. ~BeforeCommit'
    BY <2>1, TelegramAssumption DEF BeforeCommit
  <2>3. Gone'
    BY <2>1 DEF PendingInv
  <2>. QED  BY <2>2, <2>3 DEF PendingInv
<1>5. ASSUME NEW h \in Handlers, Unlink(h)  PROVE PendingInv'
  BY <1>5 DEF Unlink, PendingInv
<1>6. ASSUME NEW h \in Handlers, WritePending(h)  PROVE PendingInv'
  <2>1. pending' = Recent(AllRecords) /\ UNCHANGED <<publication, now>>
    BY <1>6 DEF WritePending, RequestInv
  <2>2. Fresh'
    BY <2>1 DEF Fresh, Recent, AllRecords, Live
  <2>3. \A g \in Handlers : req'[g].phase # "writing"
    BY <1>6, TelegramAssumption DEF WritePending, Leave, LockInv, Idle
  <2>. QED  BY <2>2, <2>3 DEF PendingInv
<1>7. ASSUME NEW h \in Handlers, Fail(h)  PROVE PendingInv'
  <2>1. lock = h /\ UNCHANGED <<publication, pending>>
    BY <1>7 DEF Fail, LockInv
  <2>2. BeforeCommit \/ pending = None
    BY <1>7, <2>1 DEF Fail, BeforeCommit, NoCrashNorUnlinkFault, PendingInv
  <2>3. Ready'
    BY <2>1, <2>2, FreshKept
  <2>4. Gone'
    BY <1>7 DEF Fail, Leave, Idle, PendingInv
  <2>. QED  BY <2>3, <2>4 DEF PendingInv
<1>8. ~Crash
  BY DEF Crash, NoCrashNorUnlinkFault
<1>9. ASSUME NEW h \in Handlers, NEW d \in previews, ApproveLoad(h, d)  PROVE PendingInv'
  BY <1>2, <1>9 DEF ApproveLoad
<1>10. ASSUME NEW h \in Handlers, NEW i \in Items, NEW hl \in Headlines, CorrectLoad(h, i, hl)
       PROVE PendingInv'
  BY <1>2, <1>10 DEF CorrectLoad
<1>11. ASSUME NEW h \in Handlers, Rebuild(h)  PROVE PendingInv'
  BY <1>2, <1>11 DEF Rebuild
<1>. QED
  BY <1>1, <1>3, <1>4, <1>5, <1>6, <1>7, <1>8, <1>9, <1>10, <1>11
  DEF Next, vars, Critical, Tick, Collect, Preview, Staging, StageReadCurrent,
      StageReadPending, StageWrite

\* While no request is in the critical section, the pending artifact is
\* absent or holds the committed version of every live record.
THEOREM PendingIsCurrent ==
    ASSUME NoCrashNorUnlinkFault
    PROVE  Spec => []PendingMatchesDatabase
<1>1. Init => PendingInv
  BY DEF Init, PendingInv, Idle
<1>2. DeskInv /\ PendingInv /\ [Next]_vars => PendingInv'
  BY PendingStep
<1>3. PendingInv => PendingMatchesDatabase
  BY DEF PendingInv, BeforeCommit, Fresh, PendingMatchesDatabase
<1>. QED  BY <1>1, <1>2, <1>3, DeskInvariant, PTL DEF Spec

-----------------------------------------------------------------------------
(***************************************************************************)
(* The versions a record retains, as the history of its lead.              *)
(***************************************************************************)
HistoryVersions == [status : {"active", "corrected", "withdrawn"}, headline : Headlines \cup {None}]

Shown(record) == [status |-> record.status, headline |-> record.headline]

LEMMA VersionType ==
    ASSUME NEW r \in Records, NEW k \in 1 .. Len(r.revisions) + 1
    PROVE  Shown(VersionAt(r, k)) \in HistoryVersions
<1>1. k \in Nat /\ Len(r.revisions) \in Nat
  BY RecordFields
<1>2. HeadlineAt(r, k) \in Headlines \cup {None}
  <2>1. CASE CorrectionsFrom(r.revisions, k) = {}
    BY <2>1, HeadlineIsLastOne, RecordFields
  <2>2. CASE CorrectionsFrom(r.revisions, k) # {}
    <3>1. PICK m : IsLeast(m, CorrectionsFrom(r.revisions, k))
      BY <1>1, <2>2, CorrectionsHaveLeast
    <3>2. HeadlineAt(r, k) = r.revisions[m].previous
      BY <1>1, <3>1, HeadlineIsPreviousOne
    <3>3. r.revisions[m] \in Revisions
      BY <1>1, <3>1, RecordFields DEF IsLeast, CorrectionsFrom
    <3>. QED  BY <3>2, <3>3 DEF Revisions
  <2>. QED  BY <2>1, <2>2
<1>3. VersionAt(r, k).status \in {"active", "corrected", "withdrawn"}
  <2>1. k = 1 \/ k - 1 \in 1 .. Len(r.revisions)
    BY <1>1
  <2>. QED  BY <2>1, VersionFields, RecordFields
<1>. QED  BY <1>2, <1>3, VersionFields DEF Shown, HistoryVersions

LEMMA VersionsFacts ==
    ASSUME NEW r \in Records
    PROVE  /\ Versions(r) \in Seq(HistoryVersions)
           /\ Len(Versions(r)) = Len(r.revisions) + 1
           /\ \A k \in 1 .. Len(r.revisions) + 1 : Versions(r)[k] = Shown(VersionAt(r, k))
<1>. DEFINE n == Len(r.revisions) + 1
<1>1. n \in Nat
  BY RecordFields
<1>2. Versions(r) = [k \in 1 .. n |-> Shown(VersionAt(r, k))]
  BY NoneAssumption DEF Versions, Shown
<1>3. \A k \in 1 .. n : Shown(VersionAt(r, k)) \in HistoryVersions
  BY VersionType
<1>. HIDE DEF n
<1>4. Versions(r) \in Seq(HistoryVersions) /\ Len(Versions(r)) = n
  BY <1>1, <1>2, <1>3
<1>. QED  BY <1>2, <1>4 DEF n

\* Sequences with the same length and elements are the same.
LEMMA SameSequence ==
    ASSUME NEW S, NEW s \in Seq(S), NEW t \in Seq(S), Len(s) = Len(t),
           \A m \in 1 .. Len(s) : s[m] = t[m]
    PROVE  s = t
  OBVIOUS

LEMMA LatestVersion ==
    ASSUME NEW r \in Records, WellFormed(r)
    PROVE  Versions(r)[Len(Versions(r))] = Shown(r)
<1>1. Len(r.revisions) + 1 \in 1 .. Len(r.revisions) + 1
  BY RecordFields
<1>. QED  BY <1>1, VersionsFacts, LastVersion

LEMMA FirstVersions ==
    ASSUME NEW d \in Previews
    PROVE  Versions(FirstRecord(d)) = <<Shown(FirstRecord(d))>>
<1>. DEFINE r == FirstRecord(d)
            s == Versions(r)
<1>1. r \in Records /\ VersionAt(r, 1) = r
  BY FirstRecordFacts
<1>2. Len(r.revisions) + 1 = 1
  BY DEF FirstRecord
<1>. HIDE DEF r
<1>3. s \in Seq(HistoryVersions) /\ Len(s) = 1 /\ s[1] = Shown(r)
  <2>1. /\ s \in Seq(HistoryVersions) /\ Len(s) = Len(r.revisions) + 1
        /\ \A k \in 1 .. Len(r.revisions) + 1 : s[k] = Shown(VersionAt(r, k))
    BY <1>1, VersionsFacts
  <2>. HIDE DEF s
  <2>2. s[1] = Shown(VersionAt(r, 1))
    BY <1>2, <2>1
  <2>. QED  BY <1>1, <1>2, <2>1, <2>2
<1>. HIDE DEF s
<1>4. Shown(r) \in HistoryVersions
  BY <1>3
<1>5. s = <<Shown(r)>>
  BY <1>3, <1>4
<1>. QED  BY <1>5 DEF s, r

\* A correction or a withdrawal appends one version to the history.
LEMMA ExtensionAppends ==
    ASSUME NEW r \in Records, NEW new \in Records, Extends(r, new)
    PROVE  Versions(new) = Append(Versions(r), Shown(new))
<1>. DEFINE n == Len(r.revisions) + 1
            s == Versions(r)
            t == Versions(new)
<1>1. n \in Nat /\ Len(new.revisions) = n
  BY RecordFields DEF Extends
<1>2. s \in Seq(HistoryVersions) /\ Len(s) = n /\ \A k \in 1 .. n : s[k] = Shown(VersionAt(r, k))
  BY VersionsFacts
<1>3. t \in Seq(HistoryVersions) /\ Len(t) = n + 1
      /\ \A k \in 1 .. n + 1 : t[k] = Shown(VersionAt(new, k))
  BY <1>1, VersionsFacts
<1>4. \A k \in 1 .. n : t[k] = s[k]
  BY <1>1, <1>2, <1>3, ExtensionKeepsVersions
<1>5. t[n + 1] = Shown(new)
  BY <1>1, <1>3, LatestVersion, ExtensionIsWellFormed
<1>. HIDE DEF s, t, n
<1>6. Shown(new) \in HistoryVersions
  BY <1>1, <1>3, <1>5
<1>7. Append(s, Shown(new)) \in Seq(HistoryVersions) /\ Len(Append(s, Shown(new))) = n + 1
      /\ \A k \in 1 .. n : Append(s, Shown(new))[k] = s[k]
      /\ Append(s, Shown(new))[n + 1] = Shown(new)
  BY <1>1, <1>2, <1>6
<1>8. \A k \in 1 .. n + 1 : t[k] = Append(s, Shown(new))[k]
  BY <1>1, <1>4, <1>5, <1>7
<1>9. t = Append(s, Shown(new))
  BY <1>3, <1>7, <1>8, SameSequence
<1>. QED  BY <1>9 DEF s, t

\* The headlines that an earlier version of a record retains.
LEMMA EarlierHeadline ==
    ASSUME NEW r \in Records, NEW k \in 1 .. Len(r.revisions) + 1, NEW j \in 1 .. k,
           VersionAt(r, k) \in Records
    PROVE  HeadlineAt(VersionAt(r, k), j) = HeadlineAt(r, j)
<1>. DEFINE v == VersionAt(r, k)
            C == CorrectionsFrom(v.revisions, j)
            D == CorrectionsFrom(r.revisions, j)
<1>1. /\ Len(r.revisions) \in Nat /\ k \in Nat /\ j \in Nat /\ j <= k /\ k <= Len(r.revisions) + 1
      /\ Len(v.revisions) = k - 1 /\ v.headline = HeadlineAt(r, k)
      /\ \A m \in 1 .. k - 1 : v.revisions[m] = r.revisions[m]
  BY VersionFields, RecordFields
<1>. HIDE DEF v
<1>2. j .. Len(r.revisions) \subseteq Nat /\ j .. Len(v.revisions) \subseteq Nat
      /\ k .. Len(r.revisions) \subseteq Nat /\ 1 <= j
  BY <1>1
<1>3. C = {m \in D : m <= k - 1}
  BY <1>1, <1>2 DEF CorrectionsFrom
<1>4. CASE C # {}
  <2>1. PICK m : IsLeast(m, C)
    BY <1>1, <1>4, CorrectionsHaveLeast DEF v
  <2>2. m \in 1 .. k - 1 /\ m \in D
    BY <1>1, <1>2, <2>1 DEF IsLeast, CorrectionsFrom
  <2>3. IsLeast(m, D)
    BY <1>1, <1>2, <1>3, <2>1, <2>2 DEF IsLeast, CorrectionsFrom
  <2>4. HeadlineAt(v, j) = v.revisions[m].previous
    BY <1>2, <2>1, HeadlineIsPreviousOne
  <2>5. HeadlineAt(r, j) = r.revisions[m].previous
    BY <1>2, <2>3, HeadlineIsPreviousOne
  <2>. QED  BY <1>1, <2>2, <2>4, <2>5 DEF v
<1>5. CASE C = {}
  <2>1. HeadlineAt(v, j) = HeadlineAt(r, k)
    BY <1>1, <1>5, HeadlineIsLastOne
  <2>2. D = CorrectionsFrom(r.revisions, k)
    BY <1>1, <1>2, <1>3, <1>5 DEF CorrectionsFrom
  <2>3. CASE D = {}
    BY <2>1, <2>2, <2>3, HeadlineIsLastOne DEF v
  <2>4. CASE D # {}
    <3>1. PICK m : IsLeast(m, D)
      BY <1>1, <2>4, CorrectionsHaveLeast
    <3>2. HeadlineAt(r, j) = r.revisions[m].previous
      BY <1>2, <3>1, HeadlineIsPreviousOne
    <3>3. HeadlineAt(r, k) = r.revisions[m].previous
      BY <1>2, <2>2, <3>1, HeadlineIsPreviousOne
    <3>. QED  BY <2>1, <3>2, <3>3 DEF v
  <2>. QED  BY <2>3, <2>4
<1>. QED  BY <1>4, <1>5

\* The history of an earlier version is a beginning of the record's history.
LEMMA EarlierHistory ==
    ASSUME NEW r \in Records, NEW k \in 1 .. Len(r.revisions) + 1, VersionAt(r, k) \in Records
    PROVE  /\ Len(Versions(VersionAt(r, k))) = k
           /\ Versions(VersionAt(r, k)) = SubSeq(Versions(r), 1, k)
<1>. DEFINE v == VersionAt(r, k)
            s == Versions(v)
            t == Versions(r)
<1>1. /\ Len(r.revisions) \in Nat /\ k \in Nat /\ 1 <= k /\ k <= Len(r.revisions) + 1
      /\ Len(v.revisions) = k - 1
  BY VersionFields, RecordFields
<1>2. s \in Seq(HistoryVersions) /\ Len(s) = k /\ \A j \in 1 .. k : s[j] = Shown(VersionAt(v, j))
  BY <1>1, VersionsFacts
<1>3. t \in Seq(HistoryVersions) /\ Len(t) = Len(r.revisions) + 1
      /\ \A j \in 1 .. k : t[j] = Shown(VersionAt(r, j))
  BY <1>1, VersionsFacts
<1>4. ASSUME NEW j \in 1 .. k  PROVE s[j] = t[j]
  <2>1. VersionAt(v, j).headline = VersionAt(r, j).headline
    BY <1>1, EarlierHeadline DEF VersionAt
  <2>2. VersionAt(v, j).status = VersionAt(r, j).status
    <3>1. j \in 1 .. Len(r.revisions) + 1 /\ j \in 1 .. Len(v.revisions) + 1 /\ j \in Nat
      BY <1>1
    <3>2. j # 1 => j - 1 \in 1 .. k - 1
      BY <1>1, <3>1
    <3>3. \A m \in 1 .. k - 1 : v.revisions[m] = r.revisions[m]
      BY VersionFields
    <3>4. VersionAt(v, j).status = IF j = 1 THEN "active" ELSE v.revisions[j - 1].action
      BY <3>1, VersionFields
    <3>5. VersionAt(r, j).status = IF j = 1 THEN "active" ELSE r.revisions[j - 1].action
      BY <3>1, VersionFields
    <3>. QED  BY <3>2, <3>3, <3>4, <3>5
  <2>. QED  BY <1>2, <1>3, <2>1, <2>2 DEF Shown
<1>. HIDE DEF s, t, v
<1>5. SubSeq(t, 1, k) \in Seq(HistoryVersions) /\ Len(SubSeq(t, 1, k)) = k
      /\ \A j \in 1 .. k : SubSeq(t, 1, k)[j] = t[j]
  BY <1>1, <1>3
<1>6. s = SubSeq(t, 1, k)
  BY <1>2, <1>4, <1>5, SameSequence
<1>. QED  BY <1>2, <1>6 DEF s, t, v

-----------------------------------------------------------------------------
(***************************************************************************)
(* The workflow implements EditorialHistory, when one staging run at a     *)
(* time works on the wire.                                                 *)
(***************************************************************************)
OneStager == \A s, t \in Stagers : s = t

RowHistory(p) == IF p = None THEN <<>> ELSE Versions(p.record)

LEMMA HistoryOfRows ==
    /\ [i \in Items |-> Versions(AllRecords[i])] = [i \in Items |-> RowHistory(publication[i])]
    /\ [i \in Items |-> Versions(AllRecords'[i])] = [i \in Items |-> RowHistory(publication'[i])]
  BY DEF AllRecords, RowHistory, Versions

LEMMA StagerStep ==
    ASSUME OneStager, TypeOK, StagerInv, [Next]_vars
    PROVE  StagerInv'
<1>. SUFFICES ASSUME NEW s \in Stagers, stage'[s].phase \in {"current", "merging"}
              PROVE  stage'[s].before = wire'
  BY DEF StagerInv
<1>. USE DEF TypeOK, StagerInv, Idle, OneStager
<1>1. CASE StageReadCurrent(s)
  BY <1>1 DEF StageReadCurrent
<1>2. CASE StageReadPending(s)
  BY <1>2 DEF StageReadPending
<1>3. CASE StageWrite(s)
  BY <1>3 DEF StageWrite
<1>4. CASE UNCHANGED <<wire, stage>>
  BY <1>4
<1>5. UNCHANGED <<wire, stage>> \/ Staging(s)
  BY DEF Next, vars, Tick, Collect, Preview, Crash,
     Critical, ApproveLoad, ApproveCommit, CorrectLoad, CorrectCommit, Withdraw, Rebuild,
     Unlink, WritePending, Fail
<1>. QED  BY <1>1, <1>2, <1>3, <1>4, <1>5 DEF Staging

LEMMA ApprovedIsApprove ==
    ASSUME DeskInv, NEW i \in Items, Approved(i), wire' = wire
    PROVE  History!Approve(i)
<1>1. PICK d \in previews :
          d.item = i /\ SetRow(i, [record |-> FirstRecord(d), digest |-> d.digest])
  BY DEF Approved
<1>. DEFINE p == [record |-> FirstRecord(d), digest |-> d.digest]
<1>2. d \in Previews /\ d.headline \in Headlines /\ p # None
  BY <1>1, NoneAssumption DEF SetRow, DeskInv, TypeOK, Previews
<1>3. RowHistory(p) = <<History!Version("active", d.headline)>>
  BY <1>2, FirstVersions DEF RowHistory, Shown, FirstRecord, History!Version
<1>4. RowHistory(publication[i]) = <<>>
  BY DEF Approved, RowHistory
<1>5. [j \in Items |-> RowHistory(publication'[j])] =
          [[j \in Items |-> RowHistory(publication[j])] EXCEPT ![i] = RowHistory(p)]
  BY <1>1 DEF SetRow, DeskInv, TypeOK
<1>. QED  BY <1>2, <1>3, <1>4, <1>5, HistoryOfRows DEF History!Approve

LEMMA RevisedIsRevision ==
    ASSUME DeskInv, NEW i \in Items, Revised(i), wire' = wire
    PROVE  History!Correct(i) \/ History!Withdraw(i)
<1>1. PICK p \in Publications :
          /\ SetRow(i, p)
          /\ Extends(publication[i].record, p.record)
          /\ p.record.status \in {"corrected", "withdrawn"}
          /\ p.record.status = "corrected" <=> p.record.headline # publication[i].record.headline
  BY DEF Revised
<1>. DEFINE r == publication[i].record
            s == RowHistory(publication[i])
<1>2. r \in Records /\ p.record \in Records /\ WellFormed(r) /\ publication[i] # None /\ p # None
      /\ r.status # "withdrawn"
  BY RowFields, NoneAssumption DEF Revised, DeskInv, RecordsWellFormed, Publications
<1>3. s = Versions(r) /\ s # <<>> /\ History!Latest(s) = Shown(r)
  <2>1. Len(Versions(r)) = Len(r.revisions) + 1 /\ Len(r.revisions) \in Nat
        /\ Versions(r) \in Seq(HistoryVersions)
    BY <1>2, VersionsFacts, RecordFields
  <2>2. Versions(r) # <<>>
    BY <2>1
  <2>. QED  BY <1>2, <2>2, LatestVersion DEF RowHistory, History!Latest
<1>4. RowHistory(p) = Append(s, Shown(p.record))
  BY <1>1, <1>2, <1>3, ExtensionAppends DEF RowHistory
<1>5. [j \in Items |-> RowHistory(publication'[j])] =
          [[j \in Items |-> RowHistory(publication[j])] EXCEPT ![i] = RowHistory(p)]
  BY <1>1 DEF SetRow, DeskInv, TypeOK
<1>. HIDE DEF s, r
<1>6. CASE p.record.status = "corrected"
  <2>1. /\ Shown(p.record) = History!Version("corrected", p.record.headline)
        /\ p.record.headline \in Headlines \ {History!Latest(s).headline}
        /\ History!Latest(s).status # "withdrawn"
    BY <1>1, <1>2, <1>3, <1>6, RecordFields DEF Shown, History!Version, r
  <2>. DEFINE c == [j \in Items |-> RowHistory(publication[j])]
  <2>2. c[i] = s
    BY DEF s
  <2>3. [j \in Items |-> RowHistory(publication'[j])] =
            [c EXCEPT ![i] = Append(c[i], History!Version("corrected", p.record.headline))]
    BY <1>4, <1>5, <2>1, <2>2
  <2>. HIDE DEF c
  <2>4. [j \in Items |-> Versions(AllRecords[j])] = c
        /\ [j \in Items |-> Versions(AllRecords[j])]' =
              [c EXCEPT ![i] = Append(c[i], History!Version("corrected", p.record.headline))]
    BY <2>3, HistoryOfRows DEF c
  <2>. QED  BY <1>3, <2>1, <2>2, <2>4 DEF History!Correct
<1>7. CASE p.record.status = "withdrawn"
  <2>1. /\ Shown(p.record) = History!Version("withdrawn", History!Latest(s).headline)
        /\ History!Latest(s).status # "withdrawn"
    BY <1>1, <1>2, <1>3, <1>7 DEF Shown, History!Version, r
  <2>. QED  BY <1>3, <1>4, <1>5, <2>1, HistoryOfRows DEF History!Withdraw, s
<1>. QED  BY <1>1, <1>6, <1>7

LEMMA VersionsOfNone == Versions(None) = <<>>
  BY DEF Versions

\* A version of a record is shown as a beginning of its history.
LEMMA VersionBegins ==
    ASSUME NEW r \in Records, NEW old \in Records, IsVersionOf(old, r)
    PROVE  History!IsBeginningOf(Versions(old), Versions(r))
<1>1. PICK k \in 1 .. Len(r.revisions) + 1 : old = VersionAt(r, k)
  BY DEF IsVersionOf
<1>2. Len(Versions(old)) = k /\ Versions(old) = SubSeq(Versions(r), 1, k)
  BY <1>1, EarlierHistory
<1>3. Len(Versions(r)) = Len(r.revisions) + 1 /\ Len(r.revisions) \in Nat
  BY VersionsFacts, RecordFields
<1>. QED  BY <1>1, <1>2, <1>3 DEF History!IsBeginningOf

\* Of two versions of a record, the one with fewer revisions is a beginning.
LEMMA EarlierBegins ==
    ASSUME NEW r \in Records, NEW old \in Records, NEW new \in Records,
           IsVersionOf(old, r), IsVersionOf(new, r),
           Len(old.revisions) <= Len(new.revisions)
    PROVE  History!IsBeginningOf(Versions(old), Versions(new))
<1>1. PICK k \in 1 .. Len(r.revisions) + 1 : old = VersionAt(r, k)
  BY DEF IsVersionOf
<1>2. PICK m \in 1 .. Len(r.revisions) + 1 : new = VersionAt(r, m)
  BY DEF IsVersionOf
<1>. DEFINE t == Versions(r)
<1>3. Len(old.revisions) = k - 1 /\ Len(new.revisions) = m - 1
  BY <1>1, <1>2, VersionFields
<1>4. /\ Len(Versions(old)) = k /\ Versions(old) = SubSeq(t, 1, k)
      /\ Len(Versions(new)) = m /\ Versions(new) = SubSeq(t, 1, m)
  BY <1>1, <1>2, EarlierHistory
<1>5. /\ Len(r.revisions) \in Nat /\ k \in Nat /\ m \in Nat /\ k <= m /\ m <= Len(r.revisions) + 1
      /\ t \in Seq(HistoryVersions) /\ Len(t) = Len(r.revisions) + 1
  BY <1>3, VersionsFacts, RecordFields
<1>. HIDE DEF t
<1>6. SubSeq(t, 1, m) \in Seq(HistoryVersions) /\ Len(SubSeq(t, 1, m)) = m
      /\ \A j \in 1 .. m : SubSeq(t, 1, m)[j] = t[j]
  BY <1>5
<1>7. SubSeq(SubSeq(t, 1, m), 1, k) = SubSeq(t, 1, k)
  BY <1>5, <1>6, SameBeginning
<1>. QED  BY <1>4, <1>5, <1>7 DEF History!IsBeginningOf

LEMMA EmptyBegins ==
    ASSUME NEW r \in Records
    PROVE  History!IsBeginningOf(<<>>, Versions(r))
<1>. DEFINE t == Versions(r)
<1>1. t \in Seq(HistoryVersions) /\ Len(t) \in Nat
  BY VersionsFacts, RecordFields
<1>. HIDE DEF t
<1>2. SubSeq(t, 1, 0) = <<>>
  BY <1>1
<1>3. Len(<<>>) = 0
  OBVIOUS
<1>. QED  BY <1>1, <1>2, <1>3 DEF History!IsBeginningOf, t

LEMMA StagingIsStage ==
    ASSUME DeskInv, StagerInv, NEW s \in Stagers, StageWrite(s), wire' # wire
    PROVE  History!Stage
<1>. DEFINE before == stage[s].before
            proposed == stage[s].proposed
<1>1. /\ before = wire /\ before \in Entries /\ proposed \in Entries
      /\ Retained(before, publication) /\ Retained(proposed, publication)
  BY StageFields DEF StageWrite, StagerInv, DeskInv, TypeOK, ArtifactsInv
<1>2. AllMergeable(before, proposed) /\ wire' = Recent(Merge(before, proposed))
      /\ publication' = publication
  BY DEF StageWrite
<1>. HIDE DEF before, proposed
<1>3. ASSUME NEW i \in Items, wire'[i] # None
      PROVE  /\ History!IsBeginningOf(Versions(wire[i]), Versions(wire'[i]))
             /\ History!IsBeginningOf(Versions(wire'[i]), RowHistory(publication[i]))
  <2>. DEFINE new == wire'[i]
              r == publication[i].record
  <2>1. new = (IF proposed[i] = None THEN before[i] ELSE proposed[i])
    BY <1>2, <1>3 DEF Recent, Merge
  <2>2. publication[i] # None /\ IsVersionOf(new, r) /\ (before[i] # None => IsVersionOf(before[i], r))
    BY <1>1, <1>3, <2>1 DEF Retained
  <2>3. r \in Records /\ new \in Records /\ (before[i] # None => before[i] \in Records)
    BY <1>1, <1>3, <2>1, <2>2, RowFields DEF Entries, DeskInv
  <2>4. before[i] # None => Len(before[i].revisions) <= Len(new.revisions)
    <3>1. CASE before[i] # None /\ proposed[i] # None
      <4>1. Mergeable(before[i], proposed[i])
        BY <1>2, <3>1 DEF AllMergeable
      <4>2. before[i] = proposed[i] \/ Len(proposed[i].revisions) > Len(before[i].revisions)
        BY <4>1 DEF Mergeable
      <4>. QED  BY <2>1, <2>3, <3>1, <4>2, RecordFields
    <3>2. CASE proposed[i] = None
      BY <2>1, <2>3, <3>2, RecordFields
    <3>. QED  BY <3>1, <3>2
  <2>5. History!IsBeginningOf(Versions(new), RowHistory(publication[i]))
    BY <2>2, <2>3, VersionBegins DEF RowHistory
  <2>6. History!IsBeginningOf(Versions(before[i]), Versions(new))
    BY <2>2, <2>3, <2>4, EarlierBegins, EmptyBegins, VersionsOfNone
  <2>. QED  BY <1>1, <2>5, <2>6
<1>. DEFINE c == [i \in Items |-> Versions(AllRecords[i])]
            p == [i \in Items |-> Versions(wire[i])]
            q == [i \in Items |-> Versions(wire'[i])]
<1>4. c = [i \in Items |-> RowHistory(publication[i])]
      /\ [i \in Items |-> Versions(AllRecords'[i])] = c
  BY <1>2, HistoryOfRows
<1>5. \A i \in Items : \/ q[i] = <<>>
                       \/ History!IsBeginningOf(p[i], q[i]) /\ History!IsBeginningOf(q[i], c[i])
  BY <1>3, <1>4, VersionsOfNone
<1>6. q = [i \in Items |-> q[i]]
  OBVIOUS
<1>. QED  BY <1>4, <1>5, <1>6 DEF History!Stage

LEMMA StepIsHistoryStep ==
    ASSUME DeskInv, StagerInv, [Next]_vars
    PROVE  [History!Next]_(History!vars)
<1>1. ASSUME UNCHANGED <<publication, wire>>  PROVE UNCHANGED History!vars
  <2>1. AllRecords' = AllRecords
    BY <1>1 DEF AllRecords
  <2>. QED  BY <1>1, <2>1 DEF History!vars
<1>2. CASE Commit
  BY <1>2, ApprovedIsApprove, RevisedIsRevision DEF Commit, History!Next
<1>3. ASSUME NEW s \in Stagers, StageWrite(s), wire' # wire  PROVE History!Next
  BY <1>3, StagingIsStage DEF History!Next
<1>4. publication' = publication \/ Commit
  BY CommitSteps
<1>5. wire' = wire \/ \E s \in Stagers : StageWrite(s)
  BY DEF Next, vars, Tick, Collect, Preview, Crash, Staging, StageReadCurrent, StageReadPending,
     Critical, ApproveLoad, ApproveCommit, CorrectLoad, CorrectCommit, Withdraw, Rebuild,
     Unlink, WritePending, Fail
<1>. QED  BY <1>1, <1>2, <1>3, <1>4, <1>5

\* The whole workflow, crashes and failures included, does only what the
\* abstract history of the leads allows.
THEOREM WorkflowImplementsHistory ==
    ASSUME OneStager
    PROVE  Spec => ImplementsEditorialHistory
<1>1. Init => StagerInv
  BY DEF Init, StagerInv, Idle
<1>2. DeskInv /\ StagerInv /\ [Next]_vars => StagerInv'
  BY StagerStep DEF DeskInv
<1>3. Init => History!Init
  BY VersionsOfNone DEF Init, History!Init, AllRecords
<1>4. DeskInv /\ StagerInv /\ [Next]_vars => [History!Next]_(History!vars)
  BY StepIsHistoryStep
<1>. QED
  BY <1>1, <1>2, <1>3, <1>4, DeskInvariant, PTL
  DEF Spec, ImplementsEditorialHistory, History!Spec

============================================================================
