# syOSINT, formally

TLA+ models of the local collector API of syOSINT (`services/collector-api`) and of the
workflows that publish its news wire, the TLC configurations that check them on small
instances, and proofs, checked by TLAPS, of their safety properties for every instance.

syOSINT collects public posts (RSS feeds, Telegram channels) into a private
queue, lets an analyst turn them into cases and leads, and publishes what the
analyst approved as files of a static site. What matters is therefore not that a
request returns the right JSON but that **nothing reaches the public that was not
reviewed, nothing published is silently rewritten, and nothing collected is
silently lost**, whatever requests, schedulers, crashes and channels interleave.

- [1. The system](#1-the-system)
- [2. Modules](#2-modules)
- [3. Runs](#3-runs)
- [4. Proofs](#4-proofs)
- [5. What is not modelled, and the plan](#5-what-is-not-modelled-and-the-plan)

## 1. The system

Paths are relative to `services/collector-api/syosint/` unless they say otherwise.

| component | state | operations | what makes it correct | model |
|---|---|---|---|---|
| Case desk (`api.py`, `export.py`, `db.py`) | incidents, evidence, intake item status, audit, export file | add, edit, review, transition, evidence, promote, attach, export | approval follows the lifecycle and the gate; only vetted content is exported; an item is resolved once | `CaseDesk` |
| Telegram publication (`telegram_publication.py`, `api.py`) | previews, publications and their revisions, pending artifact | preview, approve, correct, withdraw, rebuild | a lead publishes what was previewed; capacity; no stale artifact | `TelegramPublication` |
| Artifact and staging command (`telegram_export.py`, `telegram_publish_cli.py`) | pending artifact, public wire | write, merge, stage | the wire shows committed versions, history only grows | `TelegramPublication`, `EditorialHistory` |
| Candidate sources (`candidate_review.py`) | candidates, reviews, audit | submit, review | the status is somebody's decision | `CandidateReview` |
| Source register (`api.py`, `telegram_client.py`) | sources, the channel ids of cursors | register a source or a feed, resolve and approve a channel, compare it at each sync | an approved channel is the one the operator saw; posts are that channel's | `SourceRegistry` |
| RSS collection (`rss_scheduler.py`, `rss_store.py`, `rss_collect.py`, `intake_store.py`) | feed cursors, intake items, health audit | scheduler cycle, collect-now, conditional fetch, batch store | every feed is polled; a validator implies its entries are stored | `FeedCollection` |
| Telegram synchronisation (`telegram_collect.py`, `telegram_scheduler.py`, `intake_store.py`) | channel cursors, intake items, revisions | scheduler cycle, sync-now, backfill, reconcile, store | no false deletion, no text lost, the copy converges | `TelegramSync` |
| Telegram media (`telegram_media.py`, part of `sync_channel`) | files, asset rows | preserve, purge | a file has a row, unless a crash or an unlink intervened, and goes after its retention | `TelegramMedia` |
| Public RSS wire (`rss_public.py`, `rss_gate.py`, `rss_cli.py`, `.github/workflows/`) | the deployed site, running and waiting workflow runs | gate, collect, deploy | a delayed feed keeps its entries and its true refresh time; the site follows main | `PublicWire` |
| Safe HTTP (`safe_http.py`, part of `rss_collect.py`) | the shared resolver, connections, the two closed events | resolve, connect, redirect, read, retry, close | addresses belong to their host; a closed client stops; every fetch ends | `SafeFetch` |
| Case grouping (`case_grouping.py`) | none | query | | not modelled, section 5 |
| Parsing and normalisation, Telegram login, migrations, CLI entry | | | | not modelled, section 5 |
| Analyst desk, public dashboard, schemas | | | | not modelled, section 5 |

### How the parts interact

- One process runs the API (`docs/source-policy/TELEGRAM.md:36` asks for one). Synchronous handlers
  run in a thread pool, each with a SQLAlchemy session of its own; asynchronous
  handlers (Telegram) and both schedulers are coroutines of one event loop. The RSS
  scheduler fetches in a thread and stores on the loop.
- All of them share one SQLite database. With `pysqlite` a SELECT before the first
  write is outside any transaction; the first flush takes the write lock, and the
  writes up to the commit are atomic. So a handler is a *load* step and a *commit*
  step, and what it loaded may be stale in between.
- The unit of work sends only the columns whose value differs from the one
  **loaded**, so an assignment of the loaded value is no write at all. Two hazards
  below come from this.
- Publication endpoints serialise on `publication_lock`; the collector does not take
  it, and neither does the case desk.
- Files (exports, the pending artifact, the wire) are replaced atomically but not
  together with the database; a stop in between separates the two. The staging
  command is another process, run by the analyst.
- Telegram and the feeds are outside: they publish, edit, delete, fail, and ask for
  pauses when they like.

### What is hard to test

`PROJECT.json` lists each hazard at its line with the properties that would notice
it. In groups: handlers that write on a stale snapshot (case desk, candidates,
collect-now's cursor); commit and file apart (export, pending artifact, media);
competing approvals for the last public slot; merges of an artifact that is older
or newer than the wire; a wire rebuilt from its own last deployment while feeds fail and
older commits are deployed late; validators kept for bodies that were not stored; posts
outside the window taken for deleted; usernames that change hands; answers of a name
lookup that come late, and connections closed by a timer while a thread uses them;
schedulers that die, starve a channel, or come back too early.

## 2. Modules

Each `...MC` module only gives constants their small values. An operator with the
comment *mutant* is not part of a model: it is a plausible bug, and a property
listed with it in `PROJECT.json` fails when it replaces the definition next to it.

### CaseDesk

State: `incident` (rows, `None` before creation), `evidence` (a sequence of rows),
`item` (resolution status and case of an intake item), `audit`, `file` (the exported
record), `req` (one record per handler thread: which operation, what it loaded), and
`vetted`, a history variable: the content a reviewer saw when the review committed.

Every endpoint that writes is a pair `XLoad`/`XCommit` (`AddIncident` loads nothing).
`TransitionCommit` runs the gate, `PassesGate`, on the flushed row and the evidence
of that moment, as `session.scalars` autoflushes first. `Emit` and `Flush` are the
unit of work: a column changes only if it differs from the loaded value. `export` has
four steps, since it builds a record, replaces a file and commits an audit entry;
any step may `Fail`. Text is a model value; evidence is its source.

The design document has one analyst (`docs/superpowers/specs/2026-09-22-syosint-design.md:38`),
but a double click or two tabs overlap two requests. So properties come in two
kinds: those that hold whatever overlaps (run `desk_concurrent`), and those that
need one request at a time (`desk_serial`); `desk_unreviewed_export` shows that the
second kind really does.

### TelegramPublication and EditorialHistory

State: the collected `item` (its digest, whether deleted), `previews`, `publication`
(with the record that goes public and its revisions), `lock`, `req` (position of each
handler), `pending` (the artifact), `wire` (what the site shows), `stage` (position of
each staging process), `now`. Approve and correct load, then commit under the lock;
afterwards the artifact is unlinked and rewritten, and each of these may stop or fail
(`Faults`). Staging reads the wire, then the artifact, merges, then writes: three
steps of another process. The collector edits and deletes without the lock.

`EditorialHistory` is what a reader may rely on: each lead has versions that only get
more, the first *active*, a *withdrawn* one last, and the wire shows a beginning of
them. `ImplementsEditorialHistory` maps a record and its revisions to that sequence
(`Versions`) and says every behaviour of the workflow is one of the abstract module.

The editorial checklist and the JSON schema are inputs assumed valid; times inside a
record are abstracted. One staging process is modelled: two at once may write back a
shorter history (listed as a hazard), and the command is run by hand.

### CandidateReview

Submission and review of a candidate source, with the session's loaded status and
`Emit` as above. URL normalisation is abstracted to the canonical URL. A submission is
refused when a source has the reference: that guard is added where both are known, in
`SourceRegistry`.

### SourceRegistry

Extends `CandidateReview` and composes it with the register: `source` (by link, which is
UNIQUE), `owner` (the channel that has a username: external, changes at any time), `seen`
(what `resolve` showed the operator), `reg` and `job` (what registering threads and syncs
hold), `items` (a stored post's source and the channel it is really from). Approval is two
steps, `ApproveResolve` and `Approve`, because awaits separate the second look at the
username from the insert; a sync is `SyncLoad`, `SyncResolve`, `SyncStore` for the same
reason. A handler that loses the race for a link stores nothing, whether the check or the
constraint tells it. `POST /feeds` checks the feed address before the insert only; the
column is not UNIQUE, so no property says that an address is registered once.

### FeedCollection

State: `remote` (the body a feed serves, which is its ETag), `rows` (observations:
originals and duplicates), `cursor` (validator, deadline, failure count, status),
`audit` (last health entry), `sched`, and `job` of each actor. A fetch ends in a
body, *not modified*, or a delay. `StoreRead` and `StoreCommit` are the transaction;
`StoreConflict` is the UNIQUE constraint that breaks when another actor inserted the
entry in between; `FetchRaises` is the socket pulled from under a fetch, or
a body whose parsing raises (`UsePulledSocket` and `Parse` of `SafeFetch`). Nothing handles
either step (`Unhandled`): the request of collect-now ends, and so does the scheduler's task.
`CanRaise` says whether the second may happen. A body is taken as whole: one cut short is
returned like a whole one by `safe_http.py:133`, and only its XML, which then does not parse,
keeps its validators from being stored. The models rely on that and do not check it.

`StoreAll` states the rows a batch leaves without walking through it: the original
of each entry, and a duplicate of each whose original was there when its turn came.
No decision tells *healthy* from *not-modified*, but the unit of work does: of the row a
session loaded, only the columns that change are sent (`EmitOver`). The times of that row
always change, so a session's row (`Loaded`) has none.

### SafeFetch

One collection in full, where `FeedCollection` has one step: attempts, hops, the lookup,
the addresses, the request, the response, the body. State: `resolver` (the queue of one
request, `_busy`, and the position of its thread: between taking a request and setting
`_busy` it looks idle), `closing` (how far `close()` is), `job` of each thread, and `sent`, a
history variable. The scheduler's thread and handler threads have a client each and share
the resolver; only the scheduler's client is ever closed. `close()` is three steps: the
client's event, which `fetch` reads before each hop (`ClientClosed`), then the transport's,
which the wait for a lookup and `open()` read (`TransportClosed`), then the connections;
`sent` counts the requests since each event. A deadline passes (`Expire`) at any wait;
`TimerCloses` and `CloseActive` close the connection from another thread, which either cuts
the read short or, between the test of `sock` and its use, makes the thread fail with an
exception nobody handles (`"pulled"`). So does a body that is read but whose parsing raises
neither of the two exceptions `_collect_source` catches (`Parse`). Errors are told apart by
whether the attempt is repeated, and the outcomes that return, *healthy*, *not-modified* and
*delayed*, not at all: what each does to the cursor is in `FeedCollection`. Result queues of
abandoned lookups (`Tickets`) are kept as long as the resolver may still answer them.

### TelegramSync

State: `post` (the version the channel shows), `aged`, `item`, `revision`, `cursor`,
`sched`, `job`, and the external `flood`, the wait Telegram demanded. All steps
are coroutine steps: a sync is `Start` (load), `FetchPosts`, `Reconcile`, `Store`, with
the network between; the channel and other syncs move in between. Posts that do not
normalise are never stored, but count in the backfill. Failures end a manual sync
without trace and give a scheduled one its delay. `flood` is the wait as the code counts
it, from the start of the cycle (see below). Channels stay approved and enabled; no
endpoint revokes either. Whether the channel is still the approved one is in
`SourceRegistry`, its media in `TelegramMedia`.

### TelegramMedia

The part of a sync that follows the store, the purge, and the policy endpoint. State:
`policy`, `file` (absent, pending or final, by the id in its name), `asset` (rows with the
ticks left until they expire), `job`, and `orphans`, a history variable: files whose
download a crash cut, or whose unlink failed. Syncs are coroutines: another one gets the loop only at an await
(`HasLoop`), so writing a row and purging are not interleaved with each other, while the
policy endpoint, in a thread, is with everything. `Discard` is every way out of a download
but its commit, and each of its unlinks may fail (`LeaveBehind`): the one in
`preserve_media_async` is swallowed by its caller, which goes on to the next post
(`DiscardPending`; `SavedInVain` when the file had its final name by then), the last one in
`sync_channel` ends the sync (`DiscardFinal`), as an error of the database before a download
does (`LookupFails`). What is left has no row, and nothing in the code looks for it.
`PurgeFile` and `PurgeCommit` are the loop of unlinks and the one commit
after it; `PurgeFails` stops between any two.

### PublicWire

State: `published` (the age of each headline), `main` (the enabled sources of each commit),
`ci`, `waiting` and `run` (the concurrency group `pages`), `site` (the deployed wire),
`good` (a history variable: the true age of each source's last refresh). `Schedule` and
`CiEnds` are the triggers of the two workflows, `StartRun` the checkout, `Collect` the gate
and `collect-public`, `Deploy` what `build_public_wire` makes of the run and the deployed
wire. The gate and the collection are one step with any set of sources failing at either;
no other actor sees the difference. Feeds show any of their published headlines. A wire
of schema 1.0.0, whose single refresh time is given to every source it lists, is left out.

## 3. Runs

States are distinct states; all runs check deadlock.

| run | instance | states | what it shows |
|---|---|---|---|
| `desk_concurrent` | 2 handlers, 1 case, 1 item, 2 sources | 1.1 M | approval went through the lifecycle; exports met the gate; an export entry has its file; a resolved item has its evidence |
| `desk_serial` | 1 handler, 2 cases, 1 item | 1.9 M | approved and exported content is what was vetted; approved cases are locked; the lifecycle moves forward; an item is resolved once |
| `telegram_staging` | 1 post, 1 handler, 1 stager, all faults | 40 k | the wire follows the database; refinement of `EditorialHistory` |
| `telegram_desk` | 2 posts with staggered windows, 2 handlers, 1 public slot, failing writes | 0.5 M | capacity; approvals were previewed; the artifact matches the database |
| `source_registry` | 2 reviewers, 2 links (a username, a site), 1 feed, 2 channels with one title, 1 registrar, 1 sync | 1.4 M | the status of a candidate is a recorded decision; channels are approved as seen; posts are of the approved channel |
| `feed_scheduler` | scheduler alone, 2 feeds | 51 k | health changes are audited; intervals; every feed is polled for ever |
| `feed_overlap` | scheduler, collect-now, restarts, exceptions, 1 feed, 2 bodies | 3.9 M | a validator implies stored entries; duplicates have an original |
| `telegram_sync` | scheduler, sync-now, 2 channels, 1 post of 3 versions (one without text), 1 restart | 0.6 M | no false deletion; texts are kept; recorded waits are honoured; every channel gets its turn; the copy converges |
| `telegram_media` | scheduler, sync-now, 2 posts, 2 rows, 1 crash | 98 k | rows tell the truth about files; only crashes and failed unlinks leave orphans; expired media is deleted |
| `safe_fetch` | scheduler, collect-now, 2 attempts, 1 redirect, 2 addresses | 0.43 M | connections are pinned to their host; no lookup raises, only a body or a pulled socket; `close()` stops requests; every collection ends |
| `public_wire` | 2 sources, 3 headlines, 2 commits, limits of 1 and 2 | 0.2 M | no headline is lost; refresh times are true; the site follows main |
| `desk_unreviewed_export` | 2 handlers | *violated* | see below |

**Why the bounds are enough.** Each hazard needs two overlapping actors and one
contended object (a case, a slot, a feed, a post); a third actor only repeats a role.
Two cases are needed to resolve an item twice, two sources to tell evidence apart,
two posts to compete for one slot, two bodies to make an entry change, two windows of
different ends for the wire to lose a lead while another stays, three versions for a
post to lose its text and come back. `MaxEvidence`, `MaxReviews`, `MaxPreviews`,
`MaxClock` and `MaxRestarts` bound histories that the code does not bound; each value
leaves room for the longest sequence that a property talks about (approve, correct,
withdraw, stage, leave the window). With one post, the two limits of `TelegramSync`
(500, 100) show only through the age of the post; the limits are constants there and
the definitions are written for any. A tick
of `PublicWire` is the seven days of the window: headlines are retained over the runs of
one tick and dropped in the next. Its per-source limit is reached, its total is not. In `telegram_media`
two rows let a purged post be downloaded again; in `safe_fetch` two attempts, two hops and
two addresses make each loop of the code go round, and two threads are what it takes for
one to find the resolver busy with an abandoned lookup of the other.

Type invariants are checked by a run only for `TelegramPublication` and `PublicWire`; every
module has its own proved (section 4).

**Fairness.** Safety runs use none. `FeedCollection` and `TelegramSync` assume that
time passes (`WF(Tick)`) and that the event loop runs the scheduler's next step and a
fetch of the scheduler returns or raises (`WF`): fetches have time-outs, Telethon calls
raise on a lost connection. That a fetch of a feed returns is itself checked:
`CollectionEnds` of `SafeFetch`, which assumes that a thread runs on and that time passes,
so that reads return or raise within their timeouts, and nothing of the resolver, which may
hang for ever. `feed_scheduler` sets `CanRaise` to `FALSE` and has no handlers: an
unhandled exception ends the scheduler (below), and `EveryFeedPolled` fails with it.
`TelegramMedia` assumes that time passes, that downloads end, that a scheduler which is
ready again and again gets the event loop (`SF`: asyncio runs its callbacks in turn), and
that unlinking and committing do not fail for ever (`SF`). `PublicWire` assumes
that the cron fires, waiting runs start, CI and jobs end (`timeout-minutes`), and
deployments that are tried again and again succeed once (`SF(Deploy)`). Nothing is
assumed of manual requests, feeds or channels;
a restart is bounded or left out where liveness is checked. `CopyConverges` takes
the success of the scheduler's reads as its premise, and `SiteCatchesUp` that the feeds
answer from some time on: one feed that is down stops the gate for all, as
`docs/source-policy/RSS.md:27` says it should.

### Disagreements with the documentation

- `desk_unreviewed_export` (`api.py:874`), a run that TLC answers with a counterexample. An
  edit loads a case with an empty review; a review commits; the edit commits new text and
  assigns `review = {}`, which the unit of work does not send because `{}` is what it
  loaded. The human approval now covers text nobody read, and it can be approved and
  exported.

The following are met by the models but have no run of their own:

- `rss_scheduler.py:153`: `_run` handles no exception of a cycle. Collect-now and the
  scheduler read the same new entry, and the INSERT of the slower one breaks the constraint
  (`StoreConflict`); or a socket is pulled from under a fetch; or a feed's body raises what is
  neither `ValueError` nor `OSError` (`rss_collect.py:91`): a date such as
  `Fri, 31 Dec 9999 23:59:59 -0500` is parsed inside the `try` of `_published_at`, but its
  conversion to UTC, after it, overflows (`rss_parse.py:70`). `FetchRaises` is both. Any way the
  task is over until a restart, although "one failing or malicious feed cannot block other
  sources" (`docs/superpowers/specs/2026-09-23-rss-collection-design.md:30`). Take
  `FeedScheduler.cfg` with a handler, or with `CanRaise = TRUE`, to see it.
- `rss_store.py:29`: collect-now loads *healthy*, the scheduler commits *delayed* with its
  audit entry, and collect-now stores *not-modified* over it. It compares with the *healthy*
  it loaded, so the recovery leaves no entry, although the plan says to "Audit material
  source-health changes" (`docs/superpowers/plans/2026-09-23-rss-collection.md:422`). Take
  `FeedOverlap.cfg` with `HealthIsAudited` to see it.
- `telegram_scheduler.py:144`: the wait Telegram demands is counted from the start of the
  cycle, not from the refusal, so after a slow cycle the channel is asked again too early by
  the cycle's length, although "Platform-directed waits are honored"
  (`docs/superpowers/specs/2026-09-22-syosint-design.md:259`). `RateLimitHonoured` is about the wait as
  the code counts it.
- `safe_http.py:170`: while one lookup hangs, every other fetch of the process is refused
  with *dns-busy* (`RefuseLookup`) and not tried again. `tests/test_safe_http.py:137`
  expects the refusal, so it is meant.

Models run with overlapping requests also break `ItemResolvedOnce` and
`ApprovedCaseIsLocked` (take `CaseDeskSerial.cfg` with two handlers): a double promotion
(`api.py:766`) and evidence added after an approval (`api.py:949`). And `telegram_desk` lets
writes fail but no server stop: with `"crash"` in `Faults`, `PendingMatchesDatabase` fails too,
as a stop between the commit of a withdrawal and the unlink of the artifact (`api.py:498`)
leaves an artifact that can be staged after the restart.

## 4. Proofs

Each theorem holds for any values of the constants under the assumptions the modules
name: `None` differs from everything it is compared with, bounds are natural numbers,
`Posts` of `TelegramSync` is finite. Nothing is assumed of sizes: the number of cases,
leads, feeds, channels, posts, commits, threads, attempts and crashes is arbitrary. Where
a property needs more, the theorem says it as a hypothesis, and the last column names it.
A `...Proofs` module extends the module it is about; only `SourceRegistryProofs` is about
two, as `SourceRegistry` extends `CandidateReview`.

| module | theorem | statement | hypothesis |
|---|---|---|---|
| `CaseDeskProofs` | `TypeCorrect` | `Spec => []TypeOK` | |
| | `ApprovalHasHistory` | an approved case was investigated and marked ready for review first | |
| | `ExportMeetsGate` | an exported record was complete and backed by evidence of its own case | |
| | `ExportAuditIsTrue` | an export audit entry has its file | |
| | `ResolvedItemsAreBacked` | a resolved item has an evidence row of its source in its case | |
| | `SerialApproval`, `SerialExport` | approved and exported content was vetted | `OneAtATime` |
| | `SerialResolution` | an item is resolved at most once | `OneAtATime` |
| | `SerialLock` | an approved case never changes, nor does its evidence | `OneAtATime` |
| | `SerialLifecycle` | a case moves one lifecycle step forward at a time, never back | `OneAtATime` |
| `TelegramPublicationProofs` | `PublicationTypes` | `Spec => []TypeOK` | |
| | `WireIsCommitted` | the wire shows only versions the database committed | |
| | `PublishedWasPreviewed` | a lead began as a stored preview and carries its digest | |
| | `CapacityIsKept` | competing approvals never exceed the public limit | |
| | `PendingIsCurrent` | the artifact holds the committed version of every live lead | `NoCrashNorUnlinkFault` |
| | `WorkflowImplementsHistory` | the workflow refines `EditorialHistory` | `OneStager` |
| `SourceRegistryProofs` | `RegisterKeepsReview` | the register with its candidates refines `CandidateReview` | |
| | `CandidateTypes`, `DecisionsAreStored` | a candidate's status is a recorded decision | |
| | `RegistryTypes`, `ApprovalIsInformed` | an approved channel was shown to the operator under its username | |
| | `PostsAreOfApprovedChannel` | stored posts are of the approved channel | |
| `FeedCollectionProofs` | `FeedTypes`, `ValidatorsStandForEntries` | a cursor's validator implies stored entries | |
| | `DuplicatesFollowOriginals` | a duplicate stands beside its original | |
| | `HealthIsTold` | the last health entry of a feed says what its status says | `NoHandlers` |
| | `FeedsAreLeftAlone` | a feed is polled again only an interval after the last attempt | `NoHandlers` |
| `SafeFetchProofs` | `FetchTypes`, `ConnectionsArePinned`, `LookupsNeverRaise`, `ClosingStopsRequests` | the safety properties of `safe_fetch` | |
| `TelegramSyncProofs` | `SyncTypes`, `DeletionsAreReal`, `TextsKept`, `WaitsAreHonoured` | the safety and action properties of `telegram_sync` | |
| `TelegramMediaProofs` | `MediaTypes`, `RowsAndFilesAgree`, `OrphansAreAccountedFor` | the safety properties of `telegram_media` | |
| `PublicWireProofs` | `WireTypes` | `Spec => []TypeOK` | |
| | `TimesAreTrue` | the site gives no source a refresh time that was not one | |
| | `NothingIsLost` | a headline leaves the wire for its age, with its source, or for newer ones | |

So every invariant and every safety action property of the passing runs is a theorem.

**The hypotheses** are about how the program is used, and none can go. `OneAtATime`: one
request at a time reaches the case desk; `desk_unreviewed_export` and `CaseDeskSerial.cfg`
with two handlers show what overlap does. `OneStager`: one staging command at a time works
on the wire; the slower of two writes back a shorter history (`telegram_export.py:138`), so
the refinement fails while `WireIsCommitted` still holds. `NoCrashNorUnlinkFault`: the server
does not stop between a commit and the unlink of the artifact, nor does the unlink fail
(`api.py:498`); the write that follows may fail. `NoHandlers`: nobody asks for collect-now,
which shares no lock with the scheduler; restarts and fetches that raise are allowed. The
instances `desk_serial`, `telegram_staging`, `telegram_desk` and `feed_scheduler` satisfy them.

**The argument.** None of the properties is inductive, and for one reason: a thread holds
something it read earlier, and writes it later. Each inductive invariant says what is still
true of such a thing.

*CaseDesk.* `TypeInv` adds to `TypeOK` that a loaded case exists. `HistoryInv` says that
everything that could become a row is *explained*: the state of every table row, and of
every row a thread holds, has its transitions in the audit trail, and every record an
export holds met the gate. It is preserved because the audit trail and the evidence only
grow (`StepMonotone`) and because what `Flush` makes of explained rows is explained
(`FlushExplained`): its columns are taken from one of them. So these properties hold
whatever requests overlap. `SerialInv` adds what overlap destroys: a thread's row is the
row in the table (`SnapshotCurrent`), an approved or exported case shows its vetted content
(`CaseSound`), and the audit trail names a resolution once and exactly for resolved items.
The assumption `OneAtATime` (one handler) is what makes `Flush` equal an assignment
(`FlushCurrent`). `CasesMove` classifies what a step does to a case under that invariant:
nothing, a change of content the lock allows, or an allowed step of the lifecycle; the two
action properties are read off it.

*TelegramPublication.* `DeskInv` says of the one request that holds the lock (`LockInv`) that
what it carries still fits the tables (`RequestInv`): an approval its preview, a free row and
a free slot, a correction the record it extends, a rewrite the records as they are. Of
everything that is or may become the wire, the artifact, what a staging run has read and its
merge, it says that each entry is a version the row still has (`ArtifactsInv`). That survives
every commit because a row changes only by `Extends`, which keeps earlier versions
(`VersionAt` is proved equal without its `CHOOSE`), given that the status of a record is what
its last revision did (`RecordsWellFormed`). Capacity counts under the lock, and the window
only closes. `PendingInv` adds that the artifact is current until the request in the critical
section commits, and gone when it is rewritten.

*The refinement.* Approval maps to the first version of a lead, correction and withdrawal to
one more (`ApprovedIsApprove`, `RevisedIsRevision`: `Versions` of an extended record is the
old sequence with one version appended), `StageWrite` to the abstract staging step
(`StagingIsStage`), everything else to a stutter. Staging needs `StagerInv`: the wire a run
has read is still there when it writes, which is what a second stager would break.

*Candidates and register.* `CandidateInv` adds `LoadedStatus`: a reviewer who loaded a
decision knows that some decision stands, so a suppressed write leaves a recorded decision
on display. `RegistryInv` adds that an approval in progress asks for something that was
shown (`AskedWasSeen`), and that a sync runs for an approved source and reads only the
channel compared with it (`JobsAreApproved`), whoever owns the username by then. Every step
of the register is a step of `CandidateReview` or leaves its variables alone
(`RegisterStepIsReviewStep`), which carries its theorems over to the composition.

*FeedCollection.* A validator reaches a cursor from three places: the response, the cursor
itself, and the row a session loaded before its fetch. `JobIsSound` says of each that its
entries are stored, or are those about to be stored in the same transaction; rows are never
removed, so this survives every other actor's steps. When the batch conflicts it is rolled
back with its cursor, and both keep what they had. With the scheduler alone, `SoloInv` adds
that deadline and age of a cursor make up the interval, that what is selected stays due, each
feed once (`PollsAreSpaced`), and that the row the scheduler's session has read has the status
of the one in the table (`WorkIsCurrent`), which the comparison before the audit entry needs.

*SafeFetch.* `JobInv` ties an answer, and the connection made from it, to the thread's hop,
and a result queue to its thread. `Awaits` is the core: a pending lookup that carries the
result queue a thread waits on is a lookup for its current hop. It is preserved because
`NewTicket` takes a queue nothing holds; three queues of a thread suffice, since the
resolver holds at most two others (one in its queue, one in its hands). What a thread that
raised had seen is in `Excused`, part of `JobInv`; that the queue is free when nothing is
busy and nothing waits is the guard of `Submit`, which both tests of `DnsBusy` make true.
`CloseInv` counts what may still go out: after the client's event, the requests sent and
those the scheduler's hop can still send (`ToSend`) are at most its addresses; after the
transport's, the one it is about to send is the only one.

*TelegramSync.* `JobIsSound`: what a sync asks for is stored, what it found was posted, and
what it calls missing is gone from the channel, for good. `StoredWasPosted` excludes the
post that appears between two reads. `WaitIsRecorded` bounds the demanded wait by the one in
the cursor, and says that no selected channel waits. The action properties follow from the
invariant in the state before the step.

*TelegramMedia.* `JobHolds` says what a sync's phase implies of its file: a name no row has,
the whole file once saved, expired rows only in the purge. `DistinctNames` keeps two
downloads apart. That the purge has the loop to itself keeps rows from changing under it.
Every way out of a download is one lemma (`LetGoStep`) about what becomes of its file
(`Outcome`): it is gone, it has a row, or it is an orphan. That the names of new files are
free is what keeps an orphan from being taken up again.

*PublicWire.* `WireInv` says that every commit the group, CI or a run is about exists
(`CommitsExist`), that only published headlines, of which there are finitely many at any
time, are collected and shown (`ShownWasPublished`), and that a run which has read the wire
finds one (`LoadedIsThere`). `NothingIsLost` then is about the two limits: a headline that is
left out of the newest *n* has *n* newer ones among them (`NewestIsNewer`), by the
cardinality of an initial segment, and the limits compose (`DroppedForNewer`).

**Only model-checked**: liveness under fairness (`EveryFeedPolled`, `EveryChannelPolled`,
`CopyConverges`, `CollectionEnds`, `ExpiredIsDeleted`, `SiteCatchesUp`), which is beyond the
prover.

## 5. What is not modelled, and the plan

- *Text*: parsing, normalisation, sanitising, keyword filters, fingerprints. The models see
  an entry's identity and its digest. What the parser computes for every input would be
  an induction over data, and TLC over a handful of strings adds nothing to the unit tests.
- *Case grouping*: a pure query over the cases of one moment. It keeps no state and no step
  of anything else comes between its own.
- *Telegram login and session files*, settings, the command line, migrations: I/O with the
  terminal, the operating system and Telethon, before anything else runs.
- *Analyst desk and dashboard*: clients without durable state. The requests a client may
  send are the actions of the models.
- *"database is locked"*: a handler that cannot get the write lock in time fails; `Fail`
  covers it for the case desk, `RegistrarFails`, `CommitFails` and `PurgeFails` for the
  register and media; the other modules leave it out.
- *The quarantine* of posts that do not normalise: written, and read by nothing.

What would come next: a refinement of the fetch of `FeedCollection` by `SafeFetch`, which the
two modules now state in prose only; what of the case desk survives overlapping requests
besides the five theorems above (which columns of an approved case an edit in progress can
still change); and what the artifact guarantees after a stop of the server, once it has been
rebuilt.
