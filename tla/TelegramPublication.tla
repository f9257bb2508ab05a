------------------------ MODULE TelegramPublication ------------------------
(***************************************************************************)
(* The editorial gate for public Telegram leads: preview, approval,        *)
(* correction and withdrawal in the collector API, the private pending     *)
(* artifact it rewrites after every commit, and the separate command that  *)
(* stages that artifact into the tracked public wire.                      *)
(*                                                                         *)
(* Who runs together:                                                      *)
(*   - request threads; approve, correct, withdraw and the rebuild of the  *)
(*     pending artifact hold publication_lock from their reads to the      *)
(*     write of the artifact, a preview holds nothing;                     *)
(*   - the collector, which takes no lock: it may edit or delete a post    *)
(*     between the reads and the commit of a request;                      *)
(*   - the staging command, another process: it reads the current wire,    *)
(*     then the pending artifact, then replaces the wire.                  *)
(* The server may stop between any two steps; the lock dies with it, the   *)
(* database and both files stay.  Every file is replaced atomically.       *)
(*                                                                         *)
(* A lead's channel, permanent link and publication time never change      *)
(* (nothing in the server updates them), so a lead is its intake item.     *)
(* Inputs are those that pass the checklist and the length rules.          *)
(***************************************************************************)
EXTENDS Integers, FiniteSets, Sequences

CONSTANTS
    Items,          \* intake items of approved Telegram channels
    Handlers,       \* request threads of the API
    Stagers,        \* concurrent runs of the staging command
    Headlines,      \* bilingual headlines an analyst may write
    Digests,        \* source digests of a post the collector may store
    PublishedAt,    \* source publication time of each post
    Window,         \* the seven-day publication window
    PreviewLife,    \* PREVIEW_LIFETIME
    MaxPublic,      \* MAX_PUBLIC_TELEGRAM_ENTRIES
    MaxClock,       \* bound on the clock
    MaxPreviews,    \* bound on the rows of telegram_publication_previews
    Faults,         \* the failures this instance considers
    None            \* an absent row or file, a free lock

ASSUME TelegramAssumption ==
    /\ PublishedAt \in [Items -> Nat]
    /\ Window \in Nat /\ PreviewLife \in Nat /\ MaxPublic \in Nat
    /\ MaxClock \in Nat /\ MaxPreviews \in Nat
    /\ Faults \subseteq {"crash", "unlink", "write"}
    /\ None \notin Handlers

VARIABLES
    now,            \* wall clock
    item,           \* intake_items: source digest, deleted_at is set
    previews,       \* telegram_publication_previews
    publication,    \* telegram_publications by item
    lock,           \* publication_lock
    req,            \* what each request thread holds
    pending,        \* pending-exports/telegram-pending.v1.json
    wire,           \* data/public/telegram-wire.v1.json
    stage           \* what each run of the staging command holds

vars == <<now, item, previews, publication, lock, req, pending, wire, stage>>

Revisions == [action : {"corrected", "withdrawn"}, at : Nat,
              previous : Headlines \cup {None}]

\* A sanitized public record; identity and link are the item's.
Records == [headline : Headlines, approvedAt : Nat,
            status : {"active", "corrected", "withdrawn"},
            revisions : Seq(Revisions)]

Publications == [record : Records, digest : Digests]
Previews == [item : Items, headline : Headlines, digest : Digests, at : Nat]

\* The absent row is none of the records and rows there are.
ASSUME NoneAssumption == None \notin Records \cup Publications

\* The entries of an artifact.
Entries == [Items -> Records \cup {None}]

Idle == [phase |-> "idle"]

-----------------------------------------------------------------------------
Live(i, t) == PublishedAt[i] >= t - Window

LiveNow == {i \in Items : publication[i] # None /\ Live(i, now)}

\* _sanitized_record: the post still exists and t is within its window.
Sanitizable(i, t) == ~item[i].deleted /\ PublishedAt[i] <= t /\ Live(i, t)

HasCapacity(i) == publication[i] # None \/ Cardinality(LiveNow) < MaxPublic

DraftNeverStale(d) == d \in previews            \* mutant: the digest is not compared

\* The record rebuilt from the post equals the reviewed one.
DraftIsCurrent(d) == item[d.item].digest = d.digest

FirstRecord(d) == [headline |-> d.headline, approvedAt |-> d.at,
                   status |-> "active", revisions |-> <<>>]

LastEdit(record) ==
    IF record.revisions = <<>> THEN record.approvedAt
    ELSE record.revisions[Len(record.revisions)].at

CorrectedForgetful(record, headline) ==         \* mutant: earlier revisions are lost
    [record EXCEPT
        !.status = "corrected", !.headline = headline,
        !.revisions = <<[action |-> "corrected", at |-> now,
                         previous |-> record.headline]>>]

Corrected(record, headline) ==
    [record EXCEPT
        !.status = "corrected", !.headline = headline,
        !.revisions = Append(@, [action |-> "corrected", at |-> now,
                                 previous |-> record.headline])]

WithdrawnBlank(record) ==                       \* mutant: the headline is cleared
    [record EXCEPT
        !.status = "withdrawn", !.headline = None,
        !.revisions = Append(@, [action |-> "withdrawn", at |-> now,
                                 previous |-> record.headline])]

Withdrawn(record) ==
    [record EXCEPT
        !.status = "withdrawn",
        !.revisions = Append(@, [action |-> "withdrawn", at |-> now,
                                 previous |-> None])]

\* _merge_record accepts incoming over the current entry of the same lead.
Mergeable(current, incoming) ==
    LET old == current.revisions
        new == incoming.revisions
    IN  \/ current = incoming
        \/ /\ current.approvedAt = incoming.approvedAt
           /\ Len(new) > Len(old)
           /\ SubSeq(new, 1, Len(old)) = old
           /\ new[Len(old) + 1].action = "corrected" =>
                 new[Len(old) + 1].previous = current.headline
           /\ current.status # "withdrawn"

Merge(before, proposed) ==
    [i \in Items |-> IF proposed[i] = None THEN before[i] ELSE proposed[i]]

Recent(entries) == [i \in Items |-> IF Live(i, now) THEN entries[i] ELSE None]

AllRecords ==
    [i \in Items |-> IF publication[i] = None THEN None ELSE publication[i].record]

-----------------------------------------------------------------------------
Init ==
    /\ now = 0
    /\ item \in [Items -> [digest : Digests, deleted : {FALSE}]]
    /\ previews = {}
    /\ publication = [i \in Items |-> None]
    /\ lock = None
    /\ req = [h \in Handlers |-> Idle]
    /\ pending = None
    /\ wire = [i \in Items |-> None]
    /\ stage = [s \in Stagers |-> Idle]

Tick ==
    /\ now < MaxClock
    /\ now' = now + 1
    /\ UNCHANGED <<item, previews, publication, lock, req, pending, wire, stage>>

(***************************************************************************)
(* The collector commits an edited or deleted post.  Deletion is final:    *)
(* no code resets deleted_at.                                              *)
(***************************************************************************)
Collect(i) ==
    /\ \/ \E d \in Digests \ {item[i].digest} :
             item' = [item EXCEPT ![i].digest = d]
       \/ ~item[i].deleted /\ item' = [item EXCEPT ![i].deleted = TRUE]
    /\ UNCHANGED <<now, previews, publication, lock, req, pending, wire, stage>>

(***************************************************************************)
(* POST /intake-items/{id}/publication-preview.  It reads the post once    *)
(* and inserts what it read; the insert of a row already there is skipped. *)
(***************************************************************************)
Preview(i, headline) ==
    LET d == [item |-> i, headline |-> headline,
              digest |-> item[i].digest, at |-> now]
    IN  /\ HasCapacity(i)
        /\ Sanitizable(i, now)
        /\ d \notin previews
        /\ Cardinality(previews) < MaxPreviews
        /\ previews' = previews \cup {d}
        /\ UNCHANGED <<now, item, publication, lock, req, pending, wire, stage>>

-----------------------------------------------------------------------------
(***************************************************************************)
(* The critical section: reads, commit, unlink, write.                     *)
(***************************************************************************)
AlwaysFree == lock \in Handlers \cup {None}     \* mutant: the lock is not taken

LockFree == lock = None

Enter(h, r) ==
    /\ LockFree
    /\ req[h] = Idle
    /\ lock' = h
    /\ req' = [req EXCEPT ![h] = r]

Leave(h) ==
    /\ lock' = None
    /\ req' = [req EXCEPT ![h] = Idle]

ToExport(h) == req' = [req EXCEPT ![h] = [phase |-> "unlinking"]]

\* approve_publication up to its writes; a repeated approval writes nothing.
ApproveLoad(h, d) ==
    /\ d.at + PreviewLife >= now
    /\ Live(d.item, now)
    /\ Sanitizable(d.item, d.at)
    /\ DraftIsCurrent(d)
    /\ \/ /\ publication[d.item] = None
          /\ HasCapacity(d.item)
          /\ Enter(h, [phase |-> "approving", item |-> d.item, record |-> FirstRecord(d),
                       digest |-> item[d.item].digest])
       \/ /\ publication[d.item] =
                [record |-> FirstRecord(d), digest |-> item[d.item].digest]
          /\ Enter(h, [phase |-> "unlinking"])
    /\ UNCHANGED <<now, item, previews, publication, pending, wire, stage>>

\* The insert; item_id is UNIQUE.
ApproveCommit(h) ==
    /\ req[h].phase = "approving"
    /\ publication[req[h].item] = None
    /\ publication' = [publication EXCEPT ![req[h].item] =
                          [record |-> req[h].record, digest |-> req[h].digest]]
    /\ ToExport(h)
    /\ UNCHANGED <<now, item, previews, lock, pending, wire, stage>>

CanCorrectAny(record) == now > LastEdit(record) \* mutant: withdrawn is not final

CanCorrect(record) == record.status # "withdrawn" /\ now > LastEdit(record)

\* correct_publication up to its writes.
CorrectLoad(h, i, headline) ==
    /\ publication[i] # None
    /\ CanCorrect(publication[i].record)
    /\ Sanitizable(i, now)
    /\ headline # publication[i].record.headline
    /\ Enter(h, [phase |-> "correcting", item |-> i,
                 record |-> Corrected(publication[i].record, headline),
                 digest |-> item[i].digest])
    /\ UNCHANGED <<now, item, previews, publication, pending, wire, stage>>

CorrectCommit(h) ==
    /\ req[h].phase = "correcting"
    /\ publication' = [publication EXCEPT ![req[h].item] =
                          [record |-> req[h].record, digest |-> req[h].digest]]
    /\ ToExport(h)
    /\ UNCHANGED <<now, item, previews, lock, pending, wire, stage>>

\* withdraw_publication reads only what the lock protects: one step.
Withdraw(h, i) ==
    /\ publication[i] # None
    /\ \/ /\ publication[i].record.status # "withdrawn"
          /\ now > LastEdit(publication[i].record)
          /\ publication' = [publication EXCEPT ![i].record = Withdrawn(@)]
       \/ \* the same reason again: nothing is written
          /\ publication[i].record.status = "withdrawn"
          /\ UNCHANGED publication
    /\ Enter(h, [phase |-> "unlinking"])
    /\ UNCHANGED <<now, item, previews, pending, wire, stage>>

\* POST /telegram-publications/export-pending
Rebuild(h) ==
    /\ Enter(h, [phase |-> "unlinking"])
    /\ UNCHANGED <<now, item, previews, publication, pending, wire, stage>>

\* pending_telegram_export: read every record, then remove the artifact.
UnlinkNothing(h) ==                             \* mutant: the old artifact is kept
    /\ req[h].phase = "unlinking"
    /\ req' = [req EXCEPT ![h] = [phase |-> "writing", records |-> AllRecords]]
    /\ UNCHANGED <<now, item, previews, publication, lock, pending, wire, stage>>

Unlink(h) ==
    /\ req[h].phase = "unlinking"
    /\ pending' = None
    /\ req' = [req EXCEPT ![h] = [phase |-> "writing", records |-> AllRecords]]
    /\ UNCHANGED <<now, item, previews, publication, lock, wire, stage>>

WritePending(h) ==
    /\ req[h].phase = "writing"
    /\ pending' = Recent(req[h].records)
    /\ Leave(h)
    /\ UNCHANGED <<now, item, previews, publication, wire, stage>>

\* An error before the commit (the database is busy), or a file error after
\* it: the request ends, the lock is released, no compensation runs.
Fail(h) ==
    /\ \/ req[h].phase \in {"approving", "correcting"}
       \/ req[h].phase = "unlinking" /\ "unlink" \in Faults
       \/ req[h].phase = "writing" /\ "write" \in Faults
    /\ Leave(h)
    /\ UNCHANGED <<now, item, previews, publication, pending, wire, stage>>

\* The server stops and is started again; start-up touches no publication.
Crash ==
    /\ "crash" \in Faults
    /\ lock' = None
    /\ req' = [h \in Handlers |-> Idle]
    /\ UNCHANGED <<now, item, previews, publication, pending, wire, stage>>

-----------------------------------------------------------------------------
(***************************************************************************)
(* stage_telegram_wire, whose target is also its current wire.             *)
(***************************************************************************)
StageReadCurrent(s) ==
    /\ stage[s].phase = "idle"
    /\ stage' = [stage EXCEPT ![s] = [phase |-> "current", before |-> wire]]
    /\ UNCHANGED <<now, item, previews, publication, lock, req, pending, wire>>

StageReadPending(s) ==
    /\ stage[s].phase = "current"
    /\ stage' = [stage EXCEPT ![s] =
                    IF pending = None THEN Idle
                    ELSE [phase |-> "merging", before |-> @.before, proposed |-> pending]]
    /\ UNCHANGED <<now, item, previews, publication, lock, req, pending, wire>>

AllMergeable(before, proposed) ==
    \A i \in Items : before[i] # None /\ proposed[i] # None =>
                        Mergeable(before[i], proposed[i])

\* A refused merge leaves the wire as it is.
StageWrite(s) ==
    /\ stage[s].phase = "merging"
    /\ wire' = IF AllMergeable(stage[s].before, stage[s].proposed)
               THEN Recent(Merge(stage[s].before, stage[s].proposed))
               ELSE wire
    /\ stage' = [stage EXCEPT ![s] = Idle]
    /\ UNCHANGED <<now, item, previews, publication, lock, req, pending>>

Critical(h) ==
    \/ \E d \in previews : ApproveLoad(h, d)
    \/ ApproveCommit(h)
    \/ \E i \in Items, hl \in Headlines : CorrectLoad(h, i, hl)
    \/ CorrectCommit(h)
    \/ \E i \in Items : Withdraw(h, i)
    \/ Rebuild(h)
    \/ Unlink(h)
    \/ WritePending(h)
    \/ Fail(h)

Staging(s) == StageReadCurrent(s) \/ StageReadPending(s) \/ StageWrite(s)

Next ==
    \/ Tick
    \/ \E i \in Items : Collect(i)
    \/ \E i \in Items, hl \in Headlines : Preview(i, hl)
    \/ \E h \in Handlers : Critical(h)
    \/ Crash
    \/ \E s \in Stagers : Staging(s)

Spec == Init /\ [][Next]_vars

-----------------------------------------------------------------------------
(***************************************************************************)
(* Properties.                                                             *)
(***************************************************************************)
Requests ==
    {Idle} \cup [phase : {"unlinking"}] \cup [phase : {"writing"}, records : Entries]
    \cup [phase : {"approving", "correcting"}, item : Items,
          record : Records, digest : Digests]

Stages ==
    {Idle} \cup [phase : {"current"}, before : Entries]
    \cup [phase : {"merging"}, before : Entries, proposed : Entries]

\* Type invariant of every table, file, lock and process.
TypeOK ==
    /\ now \in Nat
    /\ item \in [Items -> [digest : Digests, deleted : BOOLEAN]]
    /\ previews \subseteq Previews
    /\ publication \in [Items -> Publications \cup {None}]
    /\ lock \in Handlers \cup {None}
    /\ req \in [Handlers -> Requests]
    /\ pending \in Entries \cup {None}
    /\ wire \in Entries
    /\ stage \in [Stagers -> Stages]

\* The headline a record had after its first k - 1 revisions, as the record
\* itself retains it.
HeadlineAt(record, k) ==
    LET corrections == {m \in k .. Len(record.revisions) :
                           record.revisions[m].action = "corrected"}
    IN  IF corrections = {} THEN record.headline
        ELSE record.revisions[CHOOSE m \in corrections :
                                 \A n \in corrections : m <= n].previous

VersionAt(record, k) ==
    [headline |-> HeadlineAt(record, k), approvedAt |-> record.approvedAt,
     status |-> IF k = 1 THEN "active" ELSE record.revisions[k - 1].action,
     revisions |-> SubSeq(record.revisions, 1, k - 1)]

IsVersionOf(old, record) ==
    \E k \in 1 .. Len(record.revisions) + 1 : old = VersionAt(record, k)

\* Whatever crashes, fails or runs late, every lead on the public wire is a
\* version the editors committed: the database, which the artifacts are
\* derived from, is never behind them (approve, correct and withdraw commit
\* before the artifact is rewritten, and revisions are only appended).
WireFollowsDatabase ==
    \A i \in Items : wire[i] # None =>
        publication[i] # None /\ IsVersionOf(wire[i], publication[i].record)

\* What was approved is what was previewed: the first version of every
\* publication is the record of a stored preview, and until a correction it
\* carries the digest that preview was made of (the comparison under the
\* lock in approve_publication).
ApprovedWasPreviewed ==
    \A i \in Items : publication[i] # None =>
        \E d \in previews :
            /\ d.item = i
            /\ VersionAt(publication[i].record, 1) = FirstRecord(d)
            /\ publication[i].record.status = "active" => publication[i].digest = d.digest

\* At most MaxPublic leads are live, so no artifact ever exceeds the public
\* schema's limit: competing approvals share the last slot because each
\* counts under publication_lock.
CapacityHolds == Cardinality(LiveNow) <= MaxPublic

\* When no request is in the critical section, the artifact is absent or
\* holds the committed version of every record that is still live ("If
\* rewriting fails, an old artifact must not be stageable").
PendingMatchesDatabase ==
    lock = None /\ pending # None =>
        \A i \in Items : publication[i] # None /\ Live(i, now) =>
            pending[i] = publication[i].record

(***************************************************************************)
(* The workflow implements the abstract editorial history: the versions a  *)
(* record retains are its history.                                         *)
(***************************************************************************)
Versions(record) ==
    IF record = None THEN <<>>
    ELSE [k \in 1 .. Len(record.revisions) + 1 |->
            [status |-> VersionAt(record, k).status,
             headline |-> VersionAt(record, k).headline]]

History == INSTANCE EditorialHistory WITH
    Leads <- Items,
    committed <- [i \in Items |-> Versions(AllRecords[i])],
    public <- [i \in Items |-> Versions(wire[i])]

\* Every step of the database, the artifacts and the processes is a step of
\* the abstract history or invisible to it.
ImplementsEditorialHistory == History!Spec
=============================================================================
