------------------------ MODULE FeedCollectionProofs ------------------------
(***************************************************************************)
(* Proofs about FeedCollection, for any feeds, bodies and threads: types,  *)
(* validators that stand for stored entries, duplicates beside originals;  *)
(* and, for the scheduler alone, audited health and polls an interval      *)
(* apart.                                                                  *)
(***************************************************************************)
EXTENDS FeedCollection, TLAPS

\* A validator that may end up in a cursor of f: its entries are stored.
Sound(f, etag) == etag # None => Stored(f, etag)

Schedules == [state : {"sleeping", "cycle", "dead"},
              due : SUBSET [feed : Feeds, etag : Validators], age : 0 .. Interval]

\* The fields that jobs of the two later phases have in common.
HoldsOutcome(j) ==
    /\ j.feed \in Feeds /\ j.etag \in Validators /\ j.age \in 0 .. Interval
    /\ j.loaded \in Cursors \cup {None} /\ j.status \in Statuses

StoringJob(j) ==
    /\ j = [phase |-> "storing", feed |-> j.feed, age |-> j.age, status |-> j.status,
            entries |-> j.entries, etag |-> j.etag, first |-> j.first,
            absent |-> j.absent, loaded |-> j.loaded]
    /\ HoldsOutcome(j)

\* What a thread holds: a row as it was in the table, and a validator that is
\* stored already or that is the one of the entries to be stored with it.
JobIsSound(j) ==
    /\ j.phase # "idle" /\ j.loaded # None => Sound(j.feed, j.loaded.etag)
    /\ j.phase = "fetching" => Sound(j.feed, j.etag)
    /\ j.phase \in {"fetched", "storing"} =>
          Sound(j.feed, j.etag) \/ j.entries = Entries[j.etag]

FeedInv ==
    /\ TypeOK
    /\ rows = [f \in Feeds |-> rows[f]]
    /\ sched \in Schedules
    /\ job = [a \in Actors |-> job[a]]
    /\ \A a \in Actors : job[a] \in Jobs \/ StoringJob(job[a])
    /\ \A d \in sched.due : Sound(d.feed, d.etag)
    /\ \A a \in Actors : JobIsSound(job[a])
    /\ EtagImpliesStored
    /\ DuplicatesHaveOriginal

-----------------------------------------------------------------------------
LEMMA NoJobType == NoJob \in Jobs /\ NoJob.phase = "idle" /\ JobIsSound(NoJob)
  BY DEF NoJob, Jobs, JobIsSound

LEMMA StoringIsNoJob ==
    ASSUME NEW j, j \in Jobs
    PROVE  j.phase # "storing"
  BY DEF Jobs, NoJob

LEMMA StoringPhase ==
    ASSUME NEW j, StoringJob(j)
    PROVE  j.phase = "storing"
  BY DEF StoringJob

LEMMA FetchingJob ==
    ASSUME NEW j, j \in Jobs \/ StoringJob(j), j.phase = "fetching"
    PROVE  /\ j.feed \in Feeds /\ j.etag \in Validators /\ j.age \in 0 .. Interval
           /\ j.loaded \in Cursors \cup {None}
  BY DEF Jobs, NoJob, StoringJob

LEMMA FetchedJob ==
    ASSUME NEW j, j \in Jobs \/ StoringJob(j), j.phase \in {"fetched", "storing"}
    PROVE  HoldsOutcome(j)
  BY DEF Jobs, NoJob, StoringJob, HoldsOutcome

LEMMA CursorFields ==
    ASSUME NEW c \in Cursors
    PROVE  /\ c.etag \in Validators /\ c.left \in 0 .. Interval /\ c.since \in 0 .. Interval
           /\ c.failures \in 0 .. MaxFailures /\ c.status \in Statuses
  BY DEF Cursors

LEMMA UnpolledType == Unpolled \in Cursors /\ Unpolled.etag = None
  BY FeedAssumption DEF Unpolled, Cursors, Validators, Statuses

\* StoreAll only adds rows, stores each entry, and each duplicate's original.
LEMMA StoreAllGrows ==
    ASSUME NEW es, NEW stored
    PROVE  /\ stored \subseteq StoreAll(es, stored)
           /\ \A k \in DOMAIN es : \E r \in StoreAll(es, stored) : r.id = es[k].id
  BY DEF StoreAll, Original

LEMMA StoreAllKeepsOriginals ==
    ASSUME NEW es, NEW stored,
           \A r \in stored : [id |-> r.id, digest |-> None] \in stored
    PROVE  \A r \in StoreAll(es, stored) :
              [id |-> r.id, digest |-> None] \in StoreAll(es, stored)
  <1> SUFFICES ASSUME NEW r \in StoreAll(es, stored)
               PROVE  [id |-> r.id, digest |-> None] \in StoreAll(es, stored)
    OBVIOUS
  <1>1. CASE r \in stored
    BY <1>1, StoreAllGrows
  <1>2. ASSUME NEW k \in DOMAIN es, r = Original(es[k]) \/ r = Duplicate(es[k])
        PROVE  [id |-> r.id, digest |-> None] \in StoreAll(es, stored)
    <2>1. r.id = es[k].id
      BY <1>2 DEF Original, Duplicate
    <2>2. Original(es[k]) \in StoreAll(es, stored)
      BY DEF StoreAll
    <2>. QED  BY <2>1, <2>2 DEF Original
  <1>. QED  BY <1>1, <1>2 DEF StoreAll

\* Rows are never removed, so what is stored stays stored.
LEMMA StoredIsKept ==
    ASSUME NEW f, NEW etag, rows[f] \subseteq rows'[f], Sound(f, etag)
    PROVE  Sound(f, etag)'
  BY DEF Sound, Stored

LEMMA FeedInitInv == Init => FeedInv
  <1> SUFFICES ASSUME Init PROVE FeedInv
    OBVIOUS
  <1>1. \A a \in Actors : job[a] = NoJob
    BY DEF Init
  <1>2. sched \in Schedules /\ sched.due = {}
    BY FeedAssumption DEF Init, Schedules
  <1>3. TypeOK
    BY <1>1, <1>2, NoJobType DEF Init, TypeOK, Schedules
  <1>. QED
    BY <1>1, <1>2, <1>3, NoJobType DEF Init, FeedInv, EtagImpliesStored, DuplicatesHaveOriginal

-----------------------------------------------------------------------------
\* What stays sound when the tables stay as they are.
LEMMA SameRows ==
    ASSUME FeedInv, UNCHANGED <<rows, cursor>>
    PROVE  /\ \A f, etag : Sound(f, etag)' <=> Sound(f, etag)
           /\ \A j : JobIsSound(j)' <=> JobIsSound(j)
           /\ EtagImpliesStored' /\ DuplicatesHaveOriginal'
           /\ (rows = [f \in Feeds |-> rows[f]])'
  BY DEF FeedInv, Sound, Stored, JobIsSound, EtagImpliesStored, DuplicatesHaveOriginal

\* One job changes, and the schedule.
LEMMA JobStep ==
    ASSUME FeedInv, NEW a \in Actors, NEW j,
           j \in Jobs \/ StoringJob(j), JobIsSound(j),
           job' = [job EXCEPT ![a] = j],
           UNCHANGED <<remote, rows, cursor, audit>>,
           sched' \in Schedules, \A d \in sched'.due : Sound(d.feed, d.etag)
    PROVE  FeedInv'
  <1>1. \A b \in Actors : job'[b] = IF b = a THEN j ELSE job[b]
    BY DEF FeedInv
  <1>2. job' = [b \in Actors |-> job'[b]]
    BY DEF FeedInv
  <1>3. \A b \in Actors : job'[b] \in Jobs \/ StoringJob(job'[b])
    BY <1>1 DEF FeedInv
  <1>4. \A b \in Actors : JobIsSound(job'[b])
    BY <1>1 DEF FeedInv
  <1>5. TypeOK'
    BY <1>1, <1>3, StoringIsNoJob DEF FeedInv, TypeOK, Schedules, StoringJob
  <1>. QED
    <2>1. /\ \A b \in Actors : JobIsSound(job[b])'
          /\ \A d \in sched'.due : Sound(d.feed, d.etag)'
      BY <1>4, SameRows
    <2>2. \A b \in Actors : StoringJob(job'[b]) <=> StoringJob(job[b])'
      BY DEF StoringJob, HoldsOutcome
    <2>. QED  BY <1>2, <1>3, <1>5, <2>1, <2>2, SameRows DEF FeedInv

\* A scheduler that goes on with the feeds it has selected.
LEMMA ScheduleKept ==
    ASSUME FeedInv
    PROVE  sched \in Schedules /\ \A d \in sched.due : Sound(d.feed, d.etag)
  BY DEF FeedInv

LEMMA PublishStep ==
    ASSUME FeedInv, NEW f \in Feeds, Publish(f)
    PROVE  FeedInv'
  <1>1. UNCHANGED <<rows, cursor, audit, sched, job>> /\ remote' \in [Feeds -> Versions]
    BY DEF Publish, FeedInv, TypeOK
  <1>2. TypeOK'
    BY <1>1 DEF FeedInv, TypeOK
  <1>. QED  BY <1>1, <1>2, SameRows DEF FeedInv, StoringJob, HoldsOutcome

LEMMA EtagOfCursor ==
    ASSUME FeedInv, NEW f \in Feeds
    PROVE  /\ Etag(f) \in Validators /\ Sound(f, Etag(f))
           /\ cursor[f] \in Cursors \cup {None}
           /\ cursor[f] # None => Sound(f, cursor[f].etag)
  <1>1. cursor[f] \in Cursors \cup {None}
    BY DEF FeedInv, TypeOK
  <1>. QED
    BY <1>1, CursorFields DEF FeedInv, Etag, Sound, EtagImpliesStored, Validators

LEMMA TimelessRow ==
    ASSUME NEW c \in Cursors
    PROVE  /\ [c EXCEPT !.left = 0, !.since = 0] \in Cursors
           /\ [c EXCEPT !.left = 0, !.since = 0].etag = c.etag
           /\ [c EXCEPT !.left = 0, !.since = 0].status = c.status
  <1>1. 0 \in 0 .. Interval
    BY FeedAssumption
  <1>2. c \in [etag : Validators, left : 0 .. Interval, since : 0 .. Interval,
               failures : 0 .. MaxFailures, status : Statuses]
    BY DEF Cursors
  <1>. QED  BY <1>1, <1>2 DEF Cursors

\* What a session holds of a row: all but its times.
LEMMA LoadedRow ==
    ASSUME FeedInv, NEW f \in Feeds
    PROVE  /\ Loaded(f) \in Cursors \cup {None}
           /\ Loaded(f) # None <=> cursor[f] # None
           /\ Loaded(f) # None => /\ Sound(f, Loaded(f).etag)
                                  /\ Loaded(f).status = cursor[f].status
  <1>1. CASE cursor[f] = None
    BY <1>1 DEF Loaded
  <1>2. CASE cursor[f] # None
    <2>1. cursor[f] \in Cursors /\ Sound(f, cursor[f].etag)
      BY <1>2, EtagOfCursor
    <2>2. Loaded(f) \in Cursors /\ Loaded(f).etag = cursor[f].etag
          /\ Loaded(f).status = cursor[f].status
      BY <1>2, <2>1, TimelessRow DEF Loaded
    <2>. QED  BY <1>2, <2>1, <2>2, NoneAssumption
  <1>. QED  BY <1>1, <1>2

LEMMA WakeStep ==
    ASSUME FeedInv, Wake
    PROVE  FeedInv'
  <1>1. UNCHANGED <<remote, rows, cursor, audit, job>>
    BY DEF Wake
  <1>2. sched' = [state |-> "cycle", age |-> 0,
                  due |-> {[feed |-> f, etag |-> Etag(f)] : f \in {g \in Feeds : IsDue(g)}}]
    BY DEF Wake
  <1>3. \A d \in sched'.due : d \in [feed : Feeds, etag : Validators] /\ Sound(d.feed, d.etag)
    BY <1>2, EtagOfCursor
  <1>4. sched' \in Schedules
    BY <1>2, <1>3, FeedAssumption DEF Schedules
  <1>5. TypeOK'
    BY <1>1, <1>4 DEF FeedInv, TypeOK, Schedules
  <1>. QED  BY <1>1, <1>3, <1>4, <1>5, SameRows DEF FeedInv, StoringJob, HoldsOutcome

LEMMA StartedJob ==
    ASSUME NEW f \in Feeds, NEW etag \in Validators, NEW age \in 0 .. Interval,
           NEW loaded \in Cursors \cup {None},
           Sound(f, etag), loaded # None => Sound(f, loaded.etag),
           NEW j, j = [phase |-> "fetching", feed |-> f, etag |-> etag,
                       age |-> age, loaded |-> loaded]
    PROVE  j \in Jobs /\ JobIsSound(j)
  BY DEF Jobs, JobIsSound

LEMMA ScheduledCollectStep ==
    ASSUME FeedInv, NEW d, ScheduledCollect(d)
    PROVE  FeedInv'
  <1> DEFINE j == [phase |-> "fetching", feed |-> d.feed, etag |-> d.etag,
                   age |-> sched.age, loaded |-> None]
  <1>1. d \in sched.due /\ sched \in Schedules /\ Sound(d.feed, d.etag)
    BY ScheduleKept DEF ScheduledCollect
  <1>2. d.feed \in Feeds /\ d.etag \in Validators /\ sched.age \in 0 .. Interval
    BY <1>1 DEF Schedules
  <1>3. j \in Jobs /\ JobIsSound(j)
    BY <1>1, <1>2, StartedJob
  <1>4. /\ job' = [job EXCEPT !["scheduler"] = j]
        /\ UNCHANGED <<remote, rows, cursor, audit>>
        /\ sched' = [sched EXCEPT !.due = @ \ {d}]
    BY DEF ScheduledCollect, StartJob
  <1>5. sched' \in Schedules /\ \A e \in sched'.due : Sound(e.feed, e.etag)
    BY <1>1, <1>4, ScheduleKept DEF Schedules
  <1>6. "scheduler" \in Actors
    BY DEF Actors
  <1> HIDE DEF j
  <1>. QED  BY <1>3, <1>4, <1>5, <1>6, JobStep

LEMMA SleepStep ==
    ASSUME FeedInv, Sleep
    PROVE  FeedInv'
  <1>1. UNCHANGED <<remote, rows, cursor, audit, job>>
    BY DEF Sleep
  <1>2. sched' \in Schedules /\ sched'.due = {}
    BY FeedAssumption DEF Sleep, Schedules
  <1>3. TypeOK'
    BY <1>1, <1>2 DEF FeedInv, TypeOK, Schedules
  <1>. QED  BY <1>1, <1>2, <1>3, SameRows DEF FeedInv, StoringJob, HoldsOutcome

LEMMA ManualCollectStep ==
    ASSUME FeedInv, NEW h \in Handlers, NEW f \in Feeds, ManualCollect(h, f)
    PROVE  FeedInv'
  <1> DEFINE j == [phase |-> "fetching", feed |-> f, etag |-> Etag(f),
                   age |-> 0, loaded |-> Loaded(f)]
  <1>1. 0 \in 0 .. Interval /\ h \in Actors
    BY FeedAssumption DEF Actors
  <1>2. j \in Jobs /\ JobIsSound(j)
    BY <1>1, EtagOfCursor, LoadedRow, StartedJob
  <1>3. job' = [job EXCEPT ![h] = j] /\ UNCHANGED <<remote, rows, cursor, audit, sched>>
    BY DEF ManualCollect, StartJob
  <1> HIDE DEF j
  <1>. QED  BY <1>1, <1>2, <1>3, JobStep, ScheduleKept

-----------------------------------------------------------------------------
\* A fetch ends: the job keeps its feed, its age and the row it holds.
LEMMA OutcomeStep ==
    ASSUME FeedInv, NEW a \in Actors, job[a].phase = "fetching",
           NEW status \in Statuses, NEW v \in Versions \cup {None}, NEW etag \in Validators,
           Sound(job[a].feed, etag) \/ v = etag,
           Outcome(a, status, v, etag), UNCHANGED <<remote, rows, cursor, audit, sched>>
    PROVE  FeedInv'
  <1> DEFINE es == IF v = None THEN <<>> ELSE Entries[v]
             j == [phase |-> "fetched", feed |-> job[a].feed, age |-> job[a].age,
                   loaded |-> job[a].loaded, status |-> status, entries |-> es,
                   etag |-> etag]
  <1>1. job[a] \in Jobs \/ StoringJob(job[a])
    BY DEF FeedInv
  <1>2. /\ job[a].feed \in Feeds /\ job[a].age \in 0 .. Interval
        /\ job[a].loaded \in Cursors \cup {None}
    BY <1>1, FetchingJob
  <1>3. es \in {Entries[w] : w \in Versions} \cup {<<>>}
    OBVIOUS
  <1>4. j \in Jobs
    BY <1>2, <1>3 DEF Jobs
  <1>5. Sound(job[a].feed, etag) \/ es = Entries[etag]
    BY DEF Sound
  <1>6. JobIsSound(j)
    BY <1>5 DEF FeedInv, JobIsSound
  <1>7. job' = [job EXCEPT ![a] = j]
    BY DEF Outcome, FeedInv
  <1> HIDE DEF j
  <1>. QED  BY <1>4, <1>6, <1>7, JobStep, ScheduleKept

LEMMA FetchSteps ==
    ASSUME FeedInv, NEW a \in Actors, FetchBody(a) \/ FetchNotModified(a) \/ FetchDelayed(a)
    PROVE  FeedInv'
  <1>1. job[a].phase = "fetching" /\ UNCHANGED <<remote, rows, cursor, audit, sched>>
    BY DEF FetchBody, FetchNotModified, FetchDelayed
  <1>2. /\ job[a].feed \in Feeds /\ job[a].etag \in Validators
        /\ Sound(job[a].feed, job[a].etag)
    BY <1>1, FetchingJob DEF FeedInv, JobIsSound
  <1>3. remote[job[a].feed] \in Versions
    BY <1>2 DEF FeedInv, TypeOK
  <1>4. None \in Validators /\ Versions \subseteq Validators
        /\ "healthy" \in Statuses /\ "not-modified" \in Statuses /\ "delayed" \in Statuses
    BY DEF Validators, Statuses
  <1>5. CASE FetchBody(a)
    <2>1. PICK etag \in {remote[job[a].feed], job[a].etag} :
             Outcome(a, "healthy", remote[job[a].feed], etag)
      BY <1>5 DEF FetchBody
    <2>. QED  BY <2>1, <1>1, <1>2, <1>3, <1>4, OutcomeStep
  <1>6. CASE FetchNotModified(a)
    BY <1>6, <1>1, <1>2, <1>4, OutcomeStep DEF FetchNotModified
  <1>7. CASE FetchDelayed(a)
    <2>1. Sound(job[a].feed, None)
      BY DEF Sound
    <2>. QED  BY <1>7, <2>1, <1>1, <1>4, OutcomeStep DEF FetchDelayed
  <1>. QED  BY <1>5, <1>6, <1>7

LEMMA UnhandledStep ==
    ASSUME FeedInv, NEW a \in Actors, Unhandled(a)
    PROVE  FeedInv'
  <1>1. /\ job' = [job EXCEPT ![a] = NoJob]
        /\ UNCHANGED <<remote, rows, cursor, audit>>
    BY DEF Unhandled
  <1>2. CASE a = "scheduler"
    <2>1. sched' \in Schedules /\ sched'.due = {}
      BY <1>2, FeedAssumption DEF Unhandled, Schedules
    <2>. QED  BY <1>1, <2>1, JobStep, NoJobType
  <1>3. CASE a # "scheduler"
    <2>1. sched' = sched
      BY <1>3 DEF Unhandled
    <2>. QED  BY <1>1, <2>1, JobStep, NoJobType, ScheduleKept
  <1>. QED  BY <1>2, <1>3

LEMMA StoreReadStep ==
    ASSUME FeedInv, NEW a \in Actors, StoreRead(a)
    PROVE  FeedInv'
  <1> DEFINE f == job[a].feed
             first == FirstInsert(job[a].entries, rows[f])
             held == IF job[a].loaded = None /\ first = {} THEN Loaded(f) ELSE job[a].loaded
             j == [phase |-> "storing", feed |-> f, age |-> job[a].age,
                   status |-> job[a].status, entries |-> job[a].entries,
                   etag |-> job[a].etag, first |-> first,
                   absent |-> job[a].loaded = None /\ first = {} /\ cursor[f] = None,
                   loaded |-> held]
  <1>1. job[a].phase = "fetched" /\ UNCHANGED <<remote, rows, cursor, audit, sched>>
    BY DEF StoreRead
  <1>2. HoldsOutcome(job[a])
    BY <1>1, FetchedJob DEF FeedInv
  <1>3. JobIsSound(job[a])
    BY DEF FeedInv
  <1>4. held \in Cursors \cup {None} /\ (held # None => Sound(f, held.etag))
    BY <1>1, <1>2, <1>3, LoadedRow DEF HoldsOutcome, JobIsSound
  <1>5. StoringJob(j)
    BY <1>2, <1>4 DEF StoringJob, HoldsOutcome
  <1>6. JobIsSound(j)
    BY <1>1, <1>3, <1>4 DEF JobIsSound
  <1>7. job' = [job EXCEPT ![a] = j]
    BY DEF StoreRead, FeedInv
  <1> HIDE DEF j
  <1>. QED  BY <1>1, <1>5, <1>6, <1>7, JobStep, ScheduleKept

-----------------------------------------------------------------------------
(***************************************************************************)
(* The commit: what becomes of a cursor.                                   *)
(***************************************************************************)
\* The row that an update of current leaves, when the session loaded before.
Merged(current, before, new) ==
    [EmitOver(current, before, new) EXCEPT !.left = new.left, !.since = new.since]

LEMMA MergedRow ==
    ASSUME NEW current \in Cursors, NEW before \in Cursors, NEW new \in Cursors
    PROVE  /\ Merged(current, before, new) \in Cursors
           /\ Merged(current, before, new).etag \in {current.etag, new.etag}
  <1>0. PICK row : row = Merged(current, before, new)
    OBVIOUS
  <1>1. DOMAIN new = {"etag", "left", "since", "failures", "status"}
    BY DEF Cursors
  <1>2. row = [etag |-> EmitOver(current, before, new).etag, left |-> new.left,
               since |-> new.since, failures |-> EmitOver(current, before, new).failures,
               status |-> EmitOver(current, before, new).status]
    BY <1>0, <1>1 DEF EmitOver, Merged
  <1>3. /\ EmitOver(current, before, new).etag \in {current.etag, new.etag}
        /\ EmitOver(current, before, new).failures \in {current.failures, new.failures}
        /\ EmitOver(current, before, new).status \in {current.status, new.status}
    BY <1>1 DEF EmitOver
  <1>. QED  BY <1>0, <1>2, <1>3, CursorFields DEF Cursors

\* The new row of a cursor has the validator of the row in the table, of the
\* row the job loaded, or of the job, the last only when its entries come along.
LEMMA UpdatedRow ==
    ASSUME NEW j, HoldsOutcome(j), NEW current \in Cursors \cup {None}
    PROVE  LET row == CursorUpdate(j, current).row IN
           /\ row \in Cursors
           /\ \/ row.etag = None \/ row.etag = j.etag
              \/ current # None /\ row.etag = current.etag
              \/ j.loaded # None /\ row.etag = j.loaded.etag
  <1> DEFINE before == IF j.loaded # None THEN j.loaded
                       ELSE IF current # None THEN current ELSE Unpolled
             new == [etag |-> NextEtag(before, j), left |-> NextPoll(before, j.age),
                     since |-> j.age, failures |-> NextFailures(before, j.status),
                     status |-> j.status]
             row == IF current = None THEN new
                    ELSE [EmitOver(current, before, new) EXCEPT !.left = new.left,
                                                                !.since = new.since]
  <1>1. before \in Cursors
    BY UnpolledType DEF HoldsOutcome
  <1>2. /\ before.etag = None \/ (current # None /\ before.etag = current.etag)
           \/ (j.loaded # None /\ before.etag = j.loaded.etag)
    BY UnpolledType
  <1>3. NextEtag(before, j) \in {before.etag, j.etag} /\ NextEtag(before, j) \in Validators
    BY <1>1, CursorFields DEF NextEtag, HoldsOutcome
  <1>4. NextPoll(before, j.age) \in 0 .. Interval
    BY FeedAssumption DEF NextPoll, HoldsOutcome
  <1>5. NextFailures(before, j.status) \in 0 .. MaxFailures
    BY <1>1, CursorFields, FeedAssumption DEF NextFailures
  <1>6. new \in Cursors
    BY <1>3, <1>4, <1>5 DEF Cursors, HoldsOutcome
  <1>7. CursorUpdate(j, current).row = row
    BY DEF CursorUpdate
  <1>8. new.etag = NextEtag(before, j)
    OBVIOUS
  <1> HIDE DEF before, new
  <1>9. CASE current = None
    BY <1>2, <1>3, <1>6, <1>7, <1>8, <1>9
  <1>10. CASE current # None
    <2>1. current \in Cursors
      BY <1>10
    <2>2. row = Merged(current, before, new)
      BY <1>10 DEF Merged
    <2> HIDE DEF row
    <2>3. row \in Cursors /\ (row.etag = current.etag \/ row.etag = new.etag)
      BY <1>1, <1>6, <2>1, <2>2, MergedRow
    <2>. QED  BY <1>2, <1>3, <1>7, <1>8, <1>10, <2>3
  <1>. QED  BY <1>9, <1>10

LEMMA StoreCommitStep ==
    ASSUME FeedInv, NEW a \in Actors, StoreCommit(a)
    PROVE  FeedInv'
  <1>0. PICK j, f, row : j = job[a] /\ f = job[a].feed
                         /\ row = CursorUpdate(job[a], cursor[f]).row
    OBVIOUS
  <1>1. j.phase = "storing" /\ HoldsOutcome(j) /\ JobIsSound(j) /\ f \in Feeds
    <2>1. j.phase = "storing" /\ (j \in Jobs \/ StoringJob(j)) /\ JobIsSound(j)
      BY <1>0, StoringIsNoJob DEF StoreCommit, FeedInv, StoringJob
    <2>2. HoldsOutcome(j)
      BY <2>1, FetchedJob
    <2>. QED  BY <1>0, <2>1, <2>2 DEF HoldsOutcome
  <1>2. /\ rows' = [rows EXCEPT ![f] = StoreAll(j.entries, @)]
        /\ cursor' = [cursor EXCEPT ![f] = row]
        /\ job' = [job EXCEPT ![a] = NoJob]
        /\ UNCHANGED <<remote, sched>>
    BY <1>0 DEF StoreCommit
  <1>3. \A g \in Feeds : rows'[g] = IF g = f THEN StoreAll(j.entries, rows[g]) ELSE rows[g]
    BY <1>2 DEF FeedInv
  <1>4. \A g \in Feeds : rows[g] \subseteq rows'[g]
    BY <1>3, StoreAllGrows
  <1>5. \A g \in Feeds : \A etag : Sound(g, etag) => Sound(g, etag)'
    BY <1>4, StoredIsKept
  <1>6. Sound(f, j.etag)'
    <2>1. CASE Sound(f, j.etag)
      BY <2>1, <1>1, <1>5
    <2>2. CASE j.entries = Entries[j.etag]
      <3>1. \A k \in DOMAIN j.entries : \E r \in rows'[f] : r.id = j.entries[k].id
        BY <1>1, <1>3, StoreAllGrows
      <3>. QED  BY <2>2, <3>1 DEF Sound, Stored
    <2>. QED  BY <1>0, <2>1, <2>2, <1>1 DEF JobIsSound
  <1>7. cursor[f] \in Cursors \cup {None} /\ (cursor[f] # None => Sound(f, cursor[f].etag))
    BY <1>1, EtagOfCursor
  <1>8. j.loaded # None => Sound(f, j.loaded.etag)
    BY <1>0, <1>1 DEF JobIsSound
  <1>9. row \in Cursors
        /\ \/ row.etag = None \/ row.etag = j.etag
           \/ cursor[f] # None /\ row.etag = cursor[f].etag
           \/ j.loaded # None /\ row.etag = j.loaded.etag
    BY <1>0, <1>1, <1>7, UpdatedRow
  <1>10. Sound(f, row.etag)'
    <2>1. CASE row.etag = None
      BY <2>1 DEF Sound
    <2>2. CASE row.etag = j.etag
      BY <2>2, <1>6 DEF Sound, Stored
    <2>3. CASE row.etag # None /\ row.etag # j.etag
      <3>1. Sound(f, row.etag)
        BY <2>3, <1>7, <1>8, <1>9
      <3>. QED  BY <3>1, <1>1, <1>5
    <2>. QED  BY <2>1, <2>2, <2>3
  <1>11. cursor' \in [Feeds -> Cursors \cup {None}]
    BY <1>2, <1>9 DEF FeedInv, TypeOK
  <1>12. \A b \in Actors : job'[b] = IF b = a THEN NoJob ELSE job[b]
    BY <1>2 DEF FeedInv
  <1>13. \A b \in Actors : job'[b] \in Jobs \/ StoringJob(job'[b])
    BY <1>12, NoJobType DEF FeedInv
  <1>14. TypeOK'
    <2>1. audit' \in [Feeds -> Statuses \cup {None}]
      <3>1. audit' = [audit EXCEPT ![f] = HealthEntry(@, CursorUpdate(j, cursor[f]).loadedStatus,
                                                      j.status)]
        BY <1>0 DEF StoreCommit
      <3>2. audit[f] \in Statuses \cup {None} /\ j.status \in Statuses
        BY <1>1 DEF FeedInv, TypeOK, HoldsOutcome
      <3>3. HealthEntry(audit[f], CursorUpdate(j, cursor[f]).loadedStatus, j.status)
                \in Statuses \cup {None}
        BY <3>2 DEF HealthEntry
      <3>. QED  BY <3>1, <3>3 DEF FeedInv, TypeOK
    <2>2. \A b \in Actors : job'[b].phase # "storing" => job'[b] \in Jobs
      BY <1>13, StoringPhase
    <2>. QED  BY <1>2, <1>11, <2>1, <2>2 DEF FeedInv, TypeOK
  <1>15. \A b \in Actors : JobIsSound(job[b])'
    <2> SUFFICES ASSUME NEW b \in Actors PROVE JobIsSound(job[b])'
      OBVIOUS
    <2>1. CASE b = a
      BY <2>1, <1>12, NoJobType DEF JobIsSound
    <2>2. CASE b # a
      <3>1. job'[b] = job[b] /\ JobIsSound(job[b]) /\ (job[b] \in Jobs \/ StoringJob(job[b]))
        BY <2>2, <1>12 DEF FeedInv
      <3>2. job[b].phase # "idle" => job[b].feed \in Feeds
        BY <3>1 DEF Jobs, NoJob, StoringJob, HoldsOutcome
      <3>. QED  BY <3>1, <3>2, <1>5 DEF JobIsSound
    <2>. QED  BY <2>1, <2>2
  <1>16. \A d \in sched'.due : Sound(d.feed, d.etag)'
    <2>1. \A d \in sched.due : d.feed \in Feeds /\ Sound(d.feed, d.etag)
      BY DEF FeedInv, Schedules
    <2>. QED  BY <2>1, <1>2, <1>5
  <1>17. EtagImpliesStored'
    <2> SUFFICES ASSUME NEW g \in Feeds, NEW etag, cursor'[g] # None, etag = cursor'[g].etag
                 PROVE  Sound(g, etag)'
      BY DEF EtagImpliesStored, Sound
    <2>1. CASE g = f
      <3>1. etag = row.etag
        BY <2>1, <1>2 DEF FeedInv, TypeOK
      <3>. QED  BY <2>1, <3>1, <1>10
    <2>2. CASE g # f
      <3>1. cursor'[g] = cursor[g]
        BY <2>2, <1>2 DEF FeedInv, TypeOK
      <3>2. Sound(g, etag)
        BY <3>1, EtagOfCursor
      <3>. QED  BY <3>2, <1>5
    <2>. QED  BY <2>1, <2>2
  <1>18. DuplicatesHaveOriginal'
    BY <1>3, StoreAllKeepsOriginals DEF FeedInv, DuplicatesHaveOriginal
  <1>19. (rows = [g \in Feeds |-> rows[g]])' /\ (job = [b \in Actors |-> job[b]])'
    BY <1>2 DEF FeedInv
  <1>20. \A b \in Actors : (job[b] \in Jobs \/ StoringJob(job[b]))'
    BY <1>13 DEF StoringJob, HoldsOutcome
  <1>. QED  BY <1>2, <1>14, <1>15, <1>16, <1>17, <1>18, <1>19, <1>20 DEF FeedInv

-----------------------------------------------------------------------------
LEMMA Clocks ==
    ASSUME NEW n \in 0 .. Interval
    PROVE  Earlier(n) \in 0 .. Interval /\ Older(n) \in 0 .. Interval
  BY FeedAssumption DEF Earlier, Older

LEMMA OlderJob ==
    ASSUME NEW j, j \in Jobs \/ StoringJob(j), j # NoJob,
           NEW older, older = [j EXCEPT !.age = Older(@)]
    PROVE  /\ older \in Jobs \/ StoringJob(older)
           /\ older.phase = j.phase
           /\ JobIsSound(j) => JobIsSound(older)
  <1>1. CASE j \in Jobs
    <2>1. CASE j.phase = "fetching"
      <3>1. older = [phase |-> "fetching", feed |-> j.feed, etag |-> j.etag,
                     age |-> Older(j.age), loaded |-> j.loaded]
        BY <1>1, <2>1 DEF Jobs
      <3>. QED  BY <1>1, <2>1, <3>1, Clocks, FetchingJob DEF Jobs, JobIsSound
    <2>2. CASE j.phase = "fetched"
      <3>1. older = [phase |-> "fetched", feed |-> j.feed, etag |-> j.etag,
                     age |-> Older(j.age), loaded |-> j.loaded, status |-> j.status,
                     entries |-> j.entries]
        BY <1>1, <2>2 DEF Jobs
      <3>2. j.entries \in {Entries[v] : v \in Versions} \cup {<<>>}
        BY <1>1, <2>2 DEF Jobs
      <3>. QED  BY <1>1, <2>2, <3>1, <3>2, Clocks, FetchedJob DEF Jobs, JobIsSound, HoldsOutcome
    <2>. QED  BY <1>1, <2>1, <2>2 DEF Jobs
  <1>2. CASE StoringJob(j)
    <2>1. older = [phase |-> "storing", feed |-> j.feed, age |-> Older(j.age),
                   status |-> j.status, entries |-> j.entries, etag |-> j.etag,
                   first |-> j.first, absent |-> j.absent, loaded |-> j.loaded]
      BY <1>2 DEF StoringJob
    <2>. QED  BY <1>2, <2>1, StoringPhase, Clocks DEF StoringJob, HoldsOutcome, JobIsSound
  <1>. QED  BY <1>1, <1>2

LEMMA TickStep ==
    ASSUME FeedInv, Tick
    PROVE  FeedInv'
  <1>1. UNCHANGED <<remote, rows, audit>>
    BY DEF Tick
  <1>2. ASSUME NEW f \in Feeds, cursor[f] # None
        PROVE  cursor'[f] \in Cursors /\ cursor'[f].etag = cursor[f].etag
    <2>1. cursor[f] \in Cursors
      BY <1>2, EtagOfCursor
    <2>2. cursor'[f] = [cursor[f] EXCEPT !.left = Earlier(@), !.since = Older(@)]
      BY <1>2 DEF Tick
    <2>3. cursor'[f] = [etag |-> cursor[f].etag, left |-> Earlier(cursor[f].left),
                        since |-> Older(cursor[f].since),
                        failures |-> cursor[f].failures, status |-> cursor[f].status]
      BY <2>1, <2>2 DEF Cursors
    <2>. QED  BY <2>1, <2>3, CursorFields, Clocks DEF Cursors
  <1>13. \A f \in Feeds : cursor[f] = None => cursor'[f] = None
    BY DEF Tick
  <1>3. cursor' \in [Feeds -> Cursors \cup {None}]
    <2>1. cursor' = [f \in Feeds |-> cursor'[f]]
      BY DEF Tick
    <2>. QED  BY <1>2, <1>13, <2>1
  <1>4. sched' \in Schedules /\ sched'.due = sched.due
    BY Clocks DEF Tick, FeedInv, Schedules
  <1>5. \A a \in Actors : /\ job'[a] \in Jobs \/ StoringJob(job'[a])
                         /\ JobIsSound(job'[a])
    <2> SUFFICES ASSUME NEW a \in Actors
                 PROVE  (job'[a] \in Jobs \/ StoringJob(job'[a])) /\ JobIsSound(job'[a])
      OBVIOUS
    <2>1. CASE job[a] = NoJob
      BY <2>1, NoJobType DEF Tick
    <2>2. CASE job[a] # NoJob
      <3>1. job'[a] = [job[a] EXCEPT !.age = Older(@)]
        BY <2>2 DEF Tick
      <3>. QED  BY <2>2, <3>1, OlderJob DEF FeedInv
    <2>. QED  BY <2>1, <2>2
  <1>6. \A f, etag : Sound(f, etag)' <=> Sound(f, etag)
    BY <1>1 DEF Sound, Stored
  <1>7. \A j : JobIsSound(j)' <=> JobIsSound(j)
    BY <1>6 DEF JobIsSound
  <1>8. \A a \in Actors : JobIsSound(job[a])' /\ (job[a] \in Jobs \/ StoringJob(job[a]))'
    BY <1>5, <1>7 DEF StoringJob, HoldsOutcome
  <1>9. \A d \in sched'.due : Sound(d.feed, d.etag)'
    BY <1>4, <1>6 DEF FeedInv
  <1>10. EtagImpliesStored'
    <2> SUFFICES ASSUME NEW f \in Feeds, NEW etag, cursor'[f] # None, etag = cursor'[f].etag
                 PROVE  Sound(f, etag)'
      BY DEF EtagImpliesStored, Sound
    <2>1. cursor[f] # None /\ etag = cursor[f].etag
      BY <1>2, <1>13
    <2>2. Sound(f, etag)
      BY <2>1, EtagOfCursor
    <2>. QED  BY <1>6, <2>2
  <1>11. DuplicatesHaveOriginal' /\ (rows = [f \in Feeds |-> rows[f]])'
         /\ (job = [a \in Actors |-> job[a]])'
    BY <1>1 DEF FeedInv, DuplicatesHaveOriginal, Tick
  <1>12. TypeOK'
    <2>1. \A a \in Actors : job'[a].phase # "storing" => job'[a] \in Jobs
      BY <1>5, StoringPhase
    <2>. QED  BY <1>1, <1>3, <1>4, <2>1 DEF FeedInv, TypeOK, Schedules
  <1>. QED  BY <1>4, <1>8, <1>9, <1>10, <1>11, <1>12 DEF FeedInv

LEMMA RestartStep ==
    ASSUME FeedInv, Restart
    PROVE  FeedInv'
  <1>1. UNCHANGED <<remote, rows, cursor, audit>> /\ job' = [a \in Actors |-> NoJob]
    BY DEF Restart
  <1>2. sched' \in Schedules /\ sched'.due = {}
    BY FeedAssumption DEF Restart, Schedules
  <1>3. TypeOK'
    BY <1>1, <1>2, NoJobType DEF FeedInv, TypeOK, Schedules
  <1>4. \A a \in Actors : JobIsSound(job[a])' /\ (job[a] \in Jobs)'
    BY <1>1, NoJobType DEF JobIsSound
  <1>. QED  BY <1>1, <1>2, <1>3, <1>4, SameRows DEF FeedInv

LEMMA StutterStep ==
    ASSUME FeedInv, UNCHANGED vars
    PROVE  FeedInv'
  <1>1. TypeOK'
    BY DEF vars, FeedInv, TypeOK
  <1>. QED  BY <1>1, SameRows DEF vars, FeedInv, StoringJob, HoldsOutcome

LEMMA FeedStep == FeedInv /\ [Next]_vars => FeedInv'
  <1> SUFFICES ASSUME FeedInv, [Next]_vars PROVE FeedInv'
    OBVIOUS
  <1>1. CASE \E f \in Feeds : Publish(f)
    BY <1>1, PublishStep
  <1>2. CASE Tick
    BY <1>2, TickStep
  <1>3. CASE Wake \/ Collect \/ Sleep
    BY <1>3, WakeStep, ScheduledCollectStep, SleepStep DEF Collect
  <1>4. CASE \E h \in Handlers, f \in Feeds : ManualCollect(h, f)
    BY <1>4, ManualCollectStep
  <1>5. ASSUME NEW a \in Actors, Fetch(a) \/ Store(a)
        PROVE  FeedInv'
    <2>1. CASE FetchBody(a) \/ FetchNotModified(a) \/ FetchDelayed(a)
      BY <2>1, FetchSteps
    <2>2. CASE FetchRaises(a) \/ StoreConflict(a)
      BY <2>2, UnhandledStep DEF FetchRaises, StoreConflict
    <2>3. CASE StoreRead(a)
      BY <2>3, StoreReadStep
    <2>4. CASE StoreCommit(a)
      BY <2>4, StoreCommitStep
    <2>. QED  BY <1>5, <2>1, <2>2, <2>3, <2>4 DEF Fetch, Store
  <1>6. CASE Restart
    BY <1>6, RestartStep
  <1>7. CASE UNCHANGED vars
    BY <1>7, StutterStep
  <1>. QED  BY <1>1, <1>2, <1>3, <1>4, <1>5, <1>6, <1>7 DEF Next

-----------------------------------------------------------------------------
THEOREM FeedInvariant == Spec => []FeedInv
  BY FeedInitInv, FeedStep, PTL DEF Spec

\* The feeds, the tables, the scheduler and the jobs keep their types.
THEOREM FeedTypes == Spec => []TypeOK
  BY FeedInvariant, PTL DEF FeedInv

\* A cursor never holds the validator of a body whose entries are not stored.
THEOREM ValidatorsStandForEntries == Spec => []EtagImpliesStored
  BY FeedInvariant, PTL DEF FeedInv

\* A duplicate observation is stored beside its original.
THEOREM DuplicatesFollowOriginals == Spec => []DuplicatesHaveOriginal
  BY FeedInvariant, PTL DEF FeedInv

-----------------------------------------------------------------------------
(***************************************************************************)
(* The scheduler alone: health that is audited, polls an interval apart.   *)
(* With "collect now" at work neither holds: it shares no lock with the    *)
(* scheduler.                                                              *)
(***************************************************************************)
NoHandlers == Handlers = {}

Work == job["scheduler"]

\* What is selected is due, and each feed is selected once.
PollsAreSpaced ==
    /\ \A f \in Feeds : cursor[f] # None => cursor[f].left + cursor[f].since = Interval
    /\ \A d \in sched.due : IsDue(d.feed)
    /\ \A d \in sched.due : \A e \in sched.due : d.feed = e.feed => d = e

\* The feed the scheduler works on is selected no more; the row its session
\* has read has the status of the one in the table.
WorkIsCurrent ==
    /\ Work # NoJob => sched.state = "cycle" /\ \A d \in sched.due : d.feed # Work.feed
    /\ Work.phase \in {"fetching", "fetched"} => Work.loaded = None
    /\ Work.phase = "storing" /\ Work.loaded # None =>
          cursor[Work.feed] # None /\ cursor[Work.feed].status = Work.loaded.status

SoloInv == HealthIsAudited /\ PollsAreSpaced /\ WorkIsCurrent

LEMMA WorkFields ==
    ASSUME FeedInv
    PROVE  /\ Work \in Jobs \/ StoringJob(Work)
           /\ Work.phase \in {"idle", "fetching", "fetched", "storing"}
           /\ Work = NoJob <=> Work.phase = "idle"
           /\ Work # NoJob => Work.feed \in Feeds
           /\ "scheduler" \in Actors
           /\ job = [a \in Actors |-> job[a]]
<1>1. "scheduler" \in Actors /\ job = [a \in Actors |-> job[a]]
      /\ (Work \in Jobs \/ StoringJob(Work))
  BY DEF Actors, FeedInv, Work
<1>2. CASE Work \in Jobs
  BY <1>1, <1>2 DEF Jobs, NoJob
<1>3. CASE StoringJob(Work)
  BY <1>1, <1>3, StoringPhase DEF StoringJob, HoldsOutcome, NoJob
<1>. QED  BY <1>1, <1>2, <1>3

LEMMA SoloInit ==
    ASSUME Init
    PROVE  SoloInv
<1>1. "scheduler" \in Actors /\ Work = NoJob
  BY DEF Init, Actors, Work
<1>. QED
  BY <1>1, NoneAssumption DEF Init, NoJob, Statuses, SoloInv, HealthIsAudited,
     PollsAreSpaced, WorkIsCurrent

\* The tables and the schedule stay, or fewer feeds are left to do.
LEMMA WorkStep ==
    ASSUME FeedInv, SoloInv, NEW j, job' = [job EXCEPT !["scheduler"] = j],
           UNCHANGED <<cursor, audit>>,
           sched'.due \subseteq sched.due,
           j # NoJob => sched'.state = "cycle" /\ \A d \in sched'.due : d.feed # j.feed,
           j.phase \in {"fetching", "fetched"} => j.loaded = None,
           j.phase = "storing" /\ j.loaded # None =>
               cursor[j.feed] # None /\ cursor[j.feed].status = j.loaded.status
    PROVE  SoloInv'
<1>1. Work' = j
  BY WorkFields DEF Work
<1>2. HealthIsAudited' /\ PollsAreSpaced'
  BY DEF SoloInv, HealthIsAudited, PollsAreSpaced, IsDue
<1>3. WorkIsCurrent'
  BY <1>1 DEF WorkIsCurrent
<1>. QED  BY <1>2, <1>3 DEF SoloInv

LEMMA SoloTick ==
    ASSUME FeedInv, SoloInv, Tick
    PROVE  SoloInv'
<1>1. ASSUME NEW f \in Feeds, cursor[f] # None
      PROVE  /\ cursor'[f] # None /\ cursor'[f].status = cursor[f].status
             /\ cursor'[f].left + cursor'[f].since = Interval
             /\ cursor[f].left = 0 => cursor'[f].left = 0
  <2>1. cursor[f] \in Cursors /\ cursor[f].left + cursor[f].since = Interval
    BY <1>1, EtagOfCursor DEF SoloInv, PollsAreSpaced
  <2>2. cursor'[f] = [cursor[f] EXCEPT !.left = Earlier(@), !.since = Older(@)]
    BY <1>1 DEF Tick
  <2>3. /\ cursor'[f].left = Earlier(cursor[f].left) /\ cursor'[f].since = Older(cursor[f].since)
        /\ cursor'[f].status = cursor[f].status /\ cursor'[f].etag = cursor[f].etag
        /\ cursor'[f].failures = cursor[f].failures
    BY <2>1, <2>2 DEF Cursors
  <2>4. cursor'[f] \in Cursors
    BY <2>1, <2>2, CursorFields, Clocks DEF Cursors
  <2>5. Earlier(cursor[f].left) + Older(cursor[f].since) = Interval
    BY <2>1, CursorFields, FeedAssumption DEF Earlier, Older
  <2>. QED  BY <2>3, <2>4, <2>5, NoneAssumption DEF Earlier
<1>2. \A f \in Feeds : cursor[f] = None => cursor'[f] = None
  BY DEF Tick
<1>3. sched'.due = sched.due /\ sched'.state = sched.state /\ audit' = audit
      /\ \A d \in sched.due : d.feed \in Feeds
  BY DEF Tick, FeedInv, Schedules
<1>4. HealthIsAudited'
  BY <1>1, <1>2, <1>3 DEF SoloInv, HealthIsAudited
<1>5. PollsAreSpaced'
  BY <1>1, <1>2, <1>3 DEF SoloInv, PollsAreSpaced, IsDue
<1>6. CASE Work = NoJob
  <2>1. Work' = NoJob
    BY <1>6, WorkFields DEF Tick, Work
  <2>. QED  BY <1>4, <1>5, <2>1 DEF SoloInv, WorkIsCurrent, NoJob
<1>7. CASE Work # NoJob
  <2>1. Work' = [Work EXCEPT !.age = Older(@)]
    BY <1>7, WorkFields DEF Tick, Work
  <2>2. Work'.phase = Work.phase /\ Work'.feed = Work.feed /\ Work'.loaded = Work.loaded
    <3>1. CASE Work \in Jobs
      BY <1>7, <2>1, <3>1 DEF Jobs
    <3>2. CASE StoringJob(Work)
      BY <2>1, <3>2 DEF StoringJob
    <3>. QED  BY <3>1, <3>2, WorkFields
  <2>3. WorkIsCurrent'
    BY <1>1, <1>3, <1>7, <2>2, WorkFields DEF SoloInv, WorkIsCurrent
  <2>. QED  BY <1>4, <1>5, <2>3 DEF SoloInv
<1>. QED  BY <1>6, <1>7

LEMMA SoloWake ==
    ASSUME FeedInv, SoloInv, Wake
    PROVE  SoloInv'
<1>1. Work = NoJob /\ UNCHANGED <<cursor, audit, job>>
  BY DEF Wake, SoloInv, WorkIsCurrent
<1>2. sched'.due = {[feed |-> f, etag |-> Etag(f)] : f \in {g \in Feeds : IsDue(g)}}
  BY DEF Wake
<1>3. PollsAreSpaced'
  BY <1>1, <1>2 DEF SoloInv, PollsAreSpaced, IsDue
<1>. QED
  BY <1>1, <1>3 DEF SoloInv, HealthIsAudited, WorkIsCurrent, Work, NoJob

\* The scheduler selects a feed and leaves the others of the cycle alone.
LEMMA SoloCollect ==
    ASSUME FeedInv, SoloInv, NEW d, ScheduledCollect(d)
    PROVE  SoloInv'
<1>. DEFINE j == [phase |-> "fetching", feed |-> d.feed, etag |-> d.etag,
                  age |-> sched.age, loaded |-> None]
<1>1. job' = [job EXCEPT !["scheduler"] = j] /\ UNCHANGED <<cursor, audit>> /\ d \in sched.due
  BY DEF ScheduledCollect, StartJob
<1>2. sched'.due = sched.due \ {d} /\ sched'.state = "cycle"
  BY DEF ScheduledCollect, FeedInv, Schedules
<1>3. \A e \in sched'.due : e.feed # d.feed
  BY <1>1, <1>2 DEF SoloInv, PollsAreSpaced
<1>4. j.phase = "fetching" /\ j.loaded = None /\ j.feed = d.feed
  OBVIOUS
<1>. HIDE DEF j
<1>. QED  BY <1>1, <1>2, <1>3, <1>4, WorkStep

LEMMA SoloFetch ==
    ASSUME FeedInv, SoloInv, FetchBody("scheduler") \/ FetchNotModified("scheduler")
                             \/ FetchDelayed("scheduler")
    PROVE  SoloInv'
<1>1. Work.phase = "fetching" /\ UNCHANGED <<cursor, audit, sched>>
  BY DEF FetchBody, FetchNotModified, FetchDelayed, Work
<1>2. PICK j : /\ job' = [job EXCEPT !["scheduler"] = j]
               /\ j.phase = "fetched" /\ j.feed = Work.feed /\ j.loaded = Work.loaded
  <2>1. PICK status, v, etag : Outcome("scheduler", status, v, etag)
    BY Zenon DEF FetchBody, FetchNotModified, FetchDelayed
  <2>. DEFINE j == [phase |-> "fetched", feed |-> Work.feed, age |-> Work.age,
                    loaded |-> Work.loaded, status |-> status,
                    entries |-> IF v = None THEN <<>> ELSE Entries[v], etag |-> etag]
  <2>2. job' = [job EXCEPT !["scheduler"] = j]
    BY <2>1, WorkFields DEF Outcome, Work
  <2>3. j.phase = "fetched" /\ j.feed = Work.feed /\ j.loaded = Work.loaded
    OBVIOUS
  <2>. HIDE DEF j
  <2>. QED  BY <2>2, <2>3
<1>3. Work # NoJob /\ Work.loaded = None
  BY <1>1, WorkFields DEF SoloInv, WorkIsCurrent
<1>. QED  BY <1>1, <1>2, <1>3, WorkStep DEF SoloInv, WorkIsCurrent

LEMMA SoloUnhandled ==
    ASSUME FeedInv, SoloInv, Unhandled("scheduler")
    PROVE  SoloInv'
<1>1. sched'.due = {} /\ job' = [job EXCEPT !["scheduler"] = NoJob] /\ UNCHANGED <<cursor, audit>>
  BY DEF Unhandled
<1>2. NoJob.phase = "idle"
  BY DEF NoJob
<1>. QED  BY <1>1, <1>2, WorkStep

LEMMA SoloStoreRead ==
    ASSUME FeedInv, SoloInv, StoreRead("scheduler")
    PROVE  SoloInv'
<1>. DEFINE first == FirstInsert(Work.entries, rows[Work.feed])
            held == IF Work.loaded = None /\ first = {} THEN Loaded(Work.feed) ELSE Work.loaded
            j == [phase |-> "storing", feed |-> Work.feed, age |-> Work.age,
                  status |-> Work.status, entries |-> Work.entries,
                  etag |-> Work.etag, first |-> first,
                  absent |-> Work.loaded = None /\ first = {} /\ cursor[Work.feed] = None,
                  loaded |-> held]
<1>1. Work.phase = "fetched" /\ UNCHANGED <<cursor, audit, sched>>
  BY DEF StoreRead, Work
<1>2. job' = [job EXCEPT !["scheduler"] = j]
  BY WorkFields DEF StoreRead, Work
<1>3. Work # NoJob /\ Work.loaded = None
  BY <1>1, WorkFields DEF SoloInv, WorkIsCurrent
<1>4. j.phase = "storing" /\ j.feed = Work.feed /\ j.loaded = held
  OBVIOUS
<1>5. held # None => cursor[Work.feed] # None /\ cursor[Work.feed].status = held.status
  BY <1>3, WorkFields, LoadedRow
<1>. HIDE DEF j, held
<1>. QED  BY <1>1, <1>2, <1>3, <1>4, <1>5, WorkStep DEF SoloInv, WorkIsCurrent

\* The row a commit leaves says what the poll found, and its two clocks are
\* set together.
LEMMA CommittedRow ==
    ASSUME NEW j, HoldsOutcome(j), NEW current \in Cursors \cup {None},
           j.loaded # None => current # None /\ current.status = j.loaded.status
    PROVE  /\ CursorUpdate(j, current).row # None
           /\ CursorUpdate(j, current).row.status = j.status
           /\ CursorUpdate(j, current).row.left = Interval - j.age
           /\ CursorUpdate(j, current).row.since = j.age
           /\ CursorUpdate(j, current).loadedStatus =
                 IF current = None THEN "healthy" ELSE current.status
<1>. DEFINE before == IF j.loaded # None THEN j.loaded
                      ELSE IF current # None THEN current ELSE Unpolled
            new == [etag |-> NextEtag(before, j), left |-> NextPoll(before, j.age),
                    since |-> j.age, failures |-> NextFailures(before, j.status),
                    status |-> j.status]
            row == CursorUpdate(j, current).row
<1>1. row \in Cursors
  BY UpdatedRow
<1>2. row = IF current = None THEN new ELSE Merged(current, before, new)
  BY DEF CursorUpdate, Merged
<1>3. CursorUpdate(j, current).loadedStatus = before.status
  BY DEF CursorUpdate
<1>4. before.status = IF current = None THEN "healthy" ELSE current.status
  BY DEF Unpolled
<1>5. new.left = Interval - j.age /\ new.since = j.age /\ new.status = j.status
  BY DEF NextPoll
<1>6. DOMAIN new = {"etag", "left", "since", "failures", "status"}
  OBVIOUS
<1>. HIDE DEF new, before, row
<1>7. ASSUME current # None
      PROVE  /\ Merged(current, before, new).left = new.left
             /\ Merged(current, before, new).since = new.since
             /\ Merged(current, before, new).status = new.status
  <2>1. EmitOver(current, before, new).status = new.status
    BY <1>4, <1>6, <1>7 DEF EmitOver
  <2>2. DOMAIN EmitOver(current, before, new) = {"etag", "left", "since", "failures", "status"}
    BY <1>6 DEF EmitOver
  <2>. QED  BY <2>1, <2>2 DEF Merged
<1>. QED  BY <1>1, <1>2, <1>3, <1>4, <1>5, <1>7, NoneAssumption DEF row

LEMMA SoloStoreCommit ==
    ASSUME FeedInv, SoloInv, StoreCommit("scheduler")
    PROVE  SoloInv'
<1>. DEFINE f == Work.feed
            row == CursorUpdate(Work, cursor[f]).row
            was == CursorUpdate(Work, cursor[f]).loadedStatus
<1>1. /\ Work.phase = "storing" /\ Work # NoJob /\ f \in Feeds /\ HoldsOutcome(Work)
      /\ cursor[f] \in Cursors \cup {None}
      /\ Work.loaded # None => cursor[f] # None /\ cursor[f].status = Work.loaded.status
      /\ \A d \in sched.due : d.feed # f
  BY WorkFields, FetchedJob, EtagOfCursor DEF StoreCommit, Work, SoloInv, WorkIsCurrent
<1>2. /\ cursor' = [cursor EXCEPT ![f] = row]
      /\ audit' = [audit EXCEPT ![f] = HealthEntry(@, was, Work.status)]
      /\ job' = [job EXCEPT !["scheduler"] = NoJob] /\ sched' = sched
  BY DEF StoreCommit, Work
<1>3. /\ row # None /\ row.status = Work.status
      /\ row.left = Interval - Work.age /\ row.since = Work.age
      /\ was = IF cursor[f] = None THEN "healthy" ELSE cursor[f].status
  BY <1>1, CommittedRow
<1>. HIDE DEF row, was
<1>4. cursor'[f] = row /\ audit'[f] = HealthEntry(audit[f], was, Work.status)
      /\ \A g \in Feeds \ {f} : cursor'[g] = cursor[g] /\ audit'[g] = audit[g]
  BY <1>1, <1>2 DEF FeedInv, TypeOK
<1>5. HealthIsAudited'
  <2>1. audit[f] = "delayed" <=> was = "delayed"
    BY <1>1, <1>3 DEF SoloInv, HealthIsAudited
  <2>2. audit'[f] = "delayed" <=> Work.status = "delayed"
    BY <1>4, <2>1 DEF HealthEntry
  <2>3. \A g \in Feeds \ {f} : audit'[g] = "delayed" <=>
            cursor'[g] # None /\ cursor'[g].status = "delayed"
    BY <1>4 DEF SoloInv, HealthIsAudited
  <2>. QED  BY <1>3, <1>4, <2>2, <2>3 DEF HealthIsAudited
<1>6. PollsAreSpaced'
  <2>1. row.left + row.since = Interval
    BY <1>1, <1>3, FeedAssumption DEF HoldsOutcome
  <2>2. \A d \in sched.due : d.feed \in Feeds \ {f}
    BY <1>1 DEF FeedInv, Schedules
  <2>3. \A d \in sched'.due : IsDue(d.feed)'
    BY <1>2, <1>4, <2>2 DEF SoloInv, PollsAreSpaced, IsDue
  <2>. QED  BY <1>2, <1>4, <2>1, <2>3 DEF SoloInv, PollsAreSpaced
<1>7. WorkIsCurrent'
  <2>1. Work' = NoJob
    BY <1>2, WorkFields DEF Work
  <2>. QED  BY <2>1 DEF WorkIsCurrent, NoJob
<1>. QED  BY <1>5, <1>6, <1>7 DEF SoloInv

LEMMA SoloStep ==
    ASSUME NoHandlers, FeedInv, SoloInv, [Next]_vars
    PROVE  SoloInv'
<1>1. Actors = {"scheduler"} /\ Handlers = {}
  BY DEF NoHandlers, Actors
<1>2. CASE UNCHANGED <<cursor, audit, sched, job>>
  BY <1>2 DEF SoloInv, HealthIsAudited, PollsAreSpaced, IsDue, WorkIsCurrent, Work
<1>3. CASE Sleep
  <2>1. sched'.due = {} /\ UNCHANGED <<cursor, audit, job>> /\ Work = NoJob
    BY <1>3 DEF Sleep, Work
  <2>. QED
    BY <2>1 DEF SoloInv, HealthIsAudited, PollsAreSpaced, WorkIsCurrent, Work, NoJob
<1>4. CASE Restart
  <2>1. sched'.due = {} /\ UNCHANGED <<cursor, audit>> /\ Work' = NoJob
    BY <1>1, <1>4 DEF Restart, Work
  <2>. QED
    BY <2>1 DEF SoloInv, HealthIsAudited, PollsAreSpaced, WorkIsCurrent, NoJob
<1>5. CASE Fetch("scheduler") \/ Store("scheduler")
  BY <1>5, SoloFetch, SoloUnhandled, SoloStoreRead, SoloStoreCommit
  DEF Fetch, FetchRaises, Store, StoreConflict
<1>6. (\E f \in Feeds : Publish(f)) \/ UNCHANGED vars => UNCHANGED <<cursor, audit, sched, job>>
  BY DEF Publish, vars
<1>. QED
  BY <1>1, <1>2, <1>3, <1>4, <1>5, <1>6, SoloTick, SoloWake, SoloCollect DEF Next, Collect

LEMMA SoloInvariant ==
    ASSUME NoHandlers
    PROVE  Spec => [](FeedInv /\ SoloInv)
<1>1. Init => SoloInv
  BY SoloInit
<1>2. FeedInv /\ SoloInv /\ [Next]_vars => SoloInv'
  BY SoloStep
<1>. QED  BY <1>1, <1>2, FeedInvariant, PTL DEF Spec

\* The latest health entry of a feed says "delayed" while its status does.
THEOREM HealthIsTold ==
    ASSUME NoHandlers
    PROVE  Spec => []HealthIsAudited
<1>1. SoloInv => HealthIsAudited
  BY DEF SoloInv
<1>. QED  BY <1>1, SoloInvariant, PTL

\* The scheduler polls a feed again only an interval after its last attempt,
\* after restarts and long cycles too.
THEOREM FeedsAreLeftAlone ==
    ASSUME NoHandlers
    PROVE  Spec => PollsRespectInterval
<1>1. ASSUME FeedInv /\ SoloInv, [Next]_vars
      PROVE  [\A d \in sched.due : ScheduledCollect(d) =>
                 cursor[d.feed] = None \/ cursor[d.feed].since = Interval]_vars
  <2>. SUFFICES ASSUME NEW d \in sched.due, cursor[d.feed] # None
                PROVE  cursor[d.feed].since = Interval
    BY Zenon
  <2>1. d.feed \in Feeds
    BY <1>1 DEF FeedInv, Schedules
  <2>2. cursor[d.feed] \in Cursors
    BY <1>1, <2>1, EtagOfCursor
  <2>3. cursor[d.feed].left = 0 /\ cursor[d.feed].left + cursor[d.feed].since = Interval
    BY <1>1, <2>1 DEF SoloInv, PollsAreSpaced, IsDue
  <2>. QED  BY <2>2, <2>3, CursorFields
<1>. QED  BY <1>1, SoloInvariant, PTL DEF Spec, PollsRespectInterval

=============================================================================
