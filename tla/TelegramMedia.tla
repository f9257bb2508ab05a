--------------------------- MODULE TelegramMedia ---------------------------
(***************************************************************************)
(* Optional private media of Telegram posts: the last part of a            *)
(* synchronisation, which downloads the media of the posts it saw, the     *)
(* purge at the end of each cycle of the scheduler, and the endpoint that  *)
(* switches media collection of a channel on and off.                      *)
(*                                                                         *)
(* A file on disk and its row in media_assets have no transaction in       *)
(* common: a download writes a ".pending-" file, renames it, and commits   *)
(* the row; the purge unlinks files, then commits.  Synchronisations are   *)
(* coroutines of one event loop, which another one enters only while a     *)
(* download waits; the policy endpoint runs in a thread, and the process   *)
(* may die, at any moment.                                                 *)
(*                                                                         *)
(* One channel; the posts of a sync that have media of an allowed type and *)
(* size are any of Posts, all stored as items.  Time is counted in ticks.  *)
(***************************************************************************)
EXTENDS Naturals

CONSTANTS
    Posts,          \* posts with media
    Handlers,       \* requests to sync now that may be in progress
    Retention,      \* retention_days, in ticks
    MaxAssets,      \* bound on the rows of media_assets
    MaxCrashes,     \* bound on the crashes of the server
    None            \* an absent row

Ids == 1 .. MaxAssets
Assets == [post : Posts, left : 0 .. Retention, deleted : BOOLEAN]

ASSUME MediaAssumption ==
    /\ "scheduler" \notin Handlers
    /\ Retention \in Nat \ {0} /\ MaxAssets \in Nat \ {0} /\ MaxCrashes \in Nat
    /\ None \notin Ids \cup Posts \cup Assets

VARIABLES
    policy,         \* sources.media_enabled
    file,           \* the file of each download
    asset,          \* media_assets: post, ticks left until expires_at, deleted_at is set
    job,            \* the sync each actor is in the middle of
    orphans,        \* files that a crash or a failed unlink left without row (history)
    crashes         \* crashes so far

vars == <<policy, file, asset, job, orphans, crashes>>

Actors == Handlers \cup {"scheduler"}
Idle == [phase |-> "idle", todo |-> {}, post |-> None, id |-> None, age |-> 0, due |-> {}]

Live(i) == asset[i] # None /\ ~asset[i].deleted

\* mkstemp and uuid4 name files that do not exist.
Free == {i \in Ids : asset[i] = None /\ file[i] = "none"}

Blocking == {"saved", "checked", "purge"}
HasLoop(a) == \A b \in Actors \ {a} : job[b].phase \notin Blocking

-----------------------------------------------------------------------------
Init ==
    /\ policy = FALSE
    /\ file = [i \in Ids |-> "none"]
    /\ asset = [i \in Ids |-> None]
    /\ job = [a \in Actors |-> Idle]
    /\ orphans = {}
    /\ crashes = 0

\* PUT /telegram/channels/{source_id}/media-policy
SetPolicy ==
    /\ policy' = ~policy
    /\ UNCHANGED <<file, asset, job, orphans, crashes>>

Earlier(left) == IF left = 0 THEN 0 ELSE left - 1
Older(age) == IF age = Retention THEN age ELSE age + 1

Tick ==
    /\ asset' = [i \in Ids |-> IF asset[i] = None THEN None
                               ELSE [asset[i] EXCEPT !.left = Earlier(@)]]
    /\ job' = [a \in Actors |-> IF job[a] = Idle THEN Idle
                                ELSE [job[a] EXCEPT !.age = Older(@)]]
    /\ UNCHANGED <<policy, file, orphans, crashes>>

-----------------------------------------------------------------------------
(***************************************************************************)
(* A sync, from its candidates on: "now" and the policy are of its start.  *)
(***************************************************************************)
StartSync(a, due) ==
    /\ job[a] = Idle /\ HasLoop(a)
    /\ \E todo \in IF policy THEN SUBSET Posts ELSE {{}} :
          job' = [job EXCEPT ![a] = [Idle EXCEPT !.phase = "check", !.todo = todo,
                                                 !.due = due]]
    /\ UNCHANGED <<policy, file, asset, orphans, crashes>>

DueWhileCollecting ==                           \* mutant: the purge follows the policy
    {i \in Ids : policy /\ Live(i) /\ asset[i].left = 0}

\* What has expired at the start of the cycle; only the scheduler purges.
Due == {i \in Ids : Live(i) /\ asset[i].left = 0}

Wake == StartSync("scheduler", Due)
ManualSync(h) == StartSync(h, {})

Checking(a) == job[a].phase = "check" /\ HasLoop(a)

Continue(a) ==
    job' = [job EXCEPT ![a].phase = "check", ![a].post = None, ![a].id = None]

StopAtPolicy(a) ==
    /\ Checking(a) /\ job[a].todo # {} /\ ~policy
    /\ job' = [job EXCEPT ![a].todo = {}]
    /\ UNCHANGED <<policy, file, asset, orphans, crashes>>

\* The database fails before a download: nothing of the sync handles it.
LookupFails(a) ==
    /\ Checking(a) /\ job[a].todo # {}
    /\ job' = [job EXCEPT ![a].todo = {}]
    /\ UNCHANGED <<policy, file, asset, orphans, crashes>>

\* has_asset: a row that is not purged (or the bound on rows is reached).
HasAsset(p) == \E i \in Ids : Live(i) /\ asset[i].post = p

SkipPost(a, p) ==
    /\ Checking(a) /\ policy
    /\ HasAsset(p) \/ Free = {}
    /\ job' = [job EXCEPT ![a].todo = @ \ {p}]
    /\ UNCHANGED <<policy, file, asset, orphans, crashes>>

\* preserve_media_async up to its first await.
StartDownload(a, p) ==
    /\ Checking(a) /\ policy
    /\ ~HasAsset(p) /\ Free # {}
    /\ LET id == CHOOSE i \in Free : TRUE IN
       /\ file' = [file EXCEPT ![id] = "pending"]
       /\ job' = [job EXCEPT ![a].phase = "download", ![a].todo = @ \ {p},
                             ![a].post = p, ![a].id = id]
    /\ UNCHANGED <<policy, asset, orphans, crashes>>

Unlink(i) == file' = [file EXCEPT ![i] = "none"]

\* An unlink that raises leaves a file that no row will name.
LeaveBehind(a) ==
    /\ orphans' = orphans \cup {job[a].id}
    /\ UNCHANGED <<policy, file, asset, crashes>>

DropJobOnly(a) ==                               \* mutant: the file is forgotten
    /\ Continue(a)
    /\ UNCHANGED <<policy, file, asset, orphans, crashes>>

\* Every way out of a download but its commit unlinks the file.
Discard(a) ==
    /\ Unlink(job[a].id)
    /\ Continue(a)
    /\ UNCHANGED <<policy, asset, orphans, crashes>>

\* What the unlink in preserve_media_async raises is swallowed by its caller.
DiscardPending(a) ==
    \/ Discard(a)
    \/ LeaveBehind(a) /\ Continue(a)

\* What the last unlink of sync_channel raises ends the sync.  When the policy
\* is off two unlinks are tried, and when both fail the file stays.
DiscardFinal(a) ==
    \/ Discard(a)
    \/ /\ LeaveBehind(a)
       /\ job' = [job EXCEPT ![a].phase = "check", ![a].todo = {},
                             ![a].post = None, ![a].id = None]

\* The transport fails, the media is empty or too large, or the rename fails.
DownloadFails(a) ==
    /\ job[a].phase = "download" /\ HasLoop(a)
    /\ DiscardPending(a)

\* The last chunk; os.replace.
Save(a) ==
    /\ job[a].phase = "download" /\ HasLoop(a)
    /\ file' = [file EXCEPT ![job[a].id] = "final"]
    /\ job' = [job EXCEPT ![a].phase = "saved"]
    /\ UNCHANGED <<policy, asset, orphans, crashes>>

\* os.replace, then an error of the unlink of the old name: the caller never
\* learns the new one.
SavedInVain(a) ==
    /\ job[a].phase = "download" /\ HasLoop(a)
    /\ file' = [file EXCEPT ![job[a].id] = "final"]
    /\ orphans' = orphans \cup {job[a].id}
    /\ Continue(a)
    /\ UNCHANGED <<policy, asset, crashes>>

\* The policy is looked at again, in the session that commits the row.
Recheck(a) ==
    /\ job[a].phase = "saved"
    /\ IF policy
       THEN /\ job' = [job EXCEPT ![a].phase = "checked"]
            /\ UNCHANGED <<policy, file, asset, orphans, crashes>>
       ELSE DiscardFinal(a)

\* collected_at is the start of the sync or of the cycle.
Left(age) == Retention - age

CommitAsset(a) ==
    /\ job[a].phase = "checked"
    /\ asset' = [asset EXCEPT ![job[a].id] =
                    [post |-> job[a].post, left |-> Left(job[a].age), deleted |-> FALSE]]
    /\ Continue(a)
    /\ UNCHANGED <<policy, file, orphans, crashes>>

CommitFails(a) ==
    /\ job[a].phase \in {"saved", "checked"}
    /\ DiscardFinal(a)

\* No candidate is left, or the sync has failed: a request ends, the scheduler goes on to the purge.
EndSync(a) ==
    /\ Checking(a) /\ job[a].todo = {}
    /\ job' = [job EXCEPT ![a] = IF a = "scheduler" THEN [@ EXCEPT !.phase = "purge"]
                                 ELSE Idle]
    /\ UNCHANGED <<policy, file, asset, orphans, crashes>>

-----------------------------------------------------------------------------
(***************************************************************************)
(* purge_expired_media: unlink the files, then mark the rows, all of them. *)
(***************************************************************************)
Purging == job["scheduler"].phase = "purge"

PurgeFile(i) ==
    /\ Purging
    /\ i \in job["scheduler"].due /\ file[i] = "final"
    /\ Unlink(i)
    /\ UNCHANGED <<policy, asset, job, orphans, crashes>>

MarkAll ==                                      \* mutant: the rows are marked first
    /\ Purging
    /\ asset' = [i \in Ids |-> IF i \in job["scheduler"].due
                               THEN [asset[i] EXCEPT !.deleted = TRUE] ELSE asset[i]]
    /\ UNCHANGED <<policy, file, job, orphans, crashes>>

PurgeCommit ==
    /\ Purging
    /\ \A i \in job["scheduler"].due : file[i] = "none"
    /\ asset' = [i \in Ids |-> IF i \in job["scheduler"].due
                               THEN [asset[i] EXCEPT !.deleted = TRUE] ELSE asset[i]]
    /\ job' = [job EXCEPT !["scheduler"] = Idle]
    /\ UNCHANGED <<policy, file, orphans, crashes>>

\* An unlink or the commit fails: files already unlinked stay unlinked, no
\* row is marked, and the next cycle selects the same rows again.
PurgeFails ==
    /\ Purging
    /\ job' = [job EXCEPT !["scheduler"] = Idle]
    /\ UNCHANGED <<policy, file, asset, orphans, crashes>>

\* The process dies and starts again: what it was writing stays on disk.
Crash ==
    /\ crashes < MaxCrashes
    /\ crashes' = crashes + 1
    /\ orphans' = orphans \cup {i \in Ids : \E a \in Actors : job[a].id = i}
    /\ job' = [a \in Actors |-> Idle]
    /\ UNCHANGED <<policy, file, asset>>

PurgeFiles == \E i \in Ids : PurgeFile(i)
Download(a) == DownloadFails(a) \/ Save(a) \/ SavedInVain(a)
Sync(a) ==
    \/ StopAtPolicy(a) \/ LookupFails(a)
    \/ \E p \in job[a].todo : SkipPost(a, p) \/ StartDownload(a, p)
    \/ Download(a)
    \/ Recheck(a) \/ CommitAsset(a) \/ CommitFails(a)
    \/ EndSync(a)

Next ==
    \/ SetPolicy
    \/ Tick
    \/ Wake
    \/ \E h \in Handlers : ManualSync(h)
    \/ \E a \in Actors : Sync(a)
    \/ PurgeFiles \/ PurgeCommit \/ PurgeFails
    \/ Crash

Spec == Init /\ [][Next]_vars

(***************************************************************************)
(* Fairness: time passes; the event loop runs its callbacks in turn, so a  *)
(* scheduler that is ready again and again gets the loop; a download ends; *)
(* an unlink and a commit do not fail every time.                          *)
(***************************************************************************)
FairSpec ==
    /\ Spec
    /\ WF_vars(Tick)
    /\ SF_vars(Wake)
    /\ SF_vars(Sync("scheduler"))
    /\ \A h \in Handlers : WF_vars(Sync(h))
    /\ WF_vars(PurgeFiles \/ PurgeCommit \/ PurgeFails)
    /\ SF_vars(PurgeFiles)
    /\ SF_vars(PurgeCommit)

-----------------------------------------------------------------------------
Jobs == [phase : {"idle", "check", "download"} \cup Blocking, todo : SUBSET Posts,
         post : Posts \cup {None}, id : Ids \cup {None}, age : 0 .. Retention,
         due : SUBSET Ids]

\* Type invariant of the policy, the files, the rows and the jobs.
TypeOK ==
    /\ policy \in BOOLEAN
    /\ file \in [Ids -> {"none", "pending", "final"}]
    /\ asset \in [Ids -> Assets \cup {None}]
    /\ job \in [Actors -> Jobs]
    /\ orphans \subseteq Ids
    /\ crashes \in 0 .. MaxCrashes

\* A row says the truth about its file: marked deleted, there is none; before
\* it expires, the whole file is there.  Neither failures half-way through a
\* purge, nor crashes, nor the policy's changes come between the two.
RowsTellTheFiles ==
    \A i \in Ids :
        /\ asset[i] # None /\ asset[i].deleted => file[i] = "none"
        /\ Live(i) /\ asset[i].left > 0 => file[i] = "final"

\* A file that no row names is being written, or is left for good by a crash
\* while it was, or by an unlink that failed.  Failed downloads and commits, a
\* policy switched off meanwhile and full discs leave none when their unlink
\* succeeds; and no row is ever made for a file that is left.
OrphansHaveACause ==
    /\ \A i \in Ids :
          file[i] # "none" /\ asset[i] = None
              <=> i \in orphans \/ \E a \in Actors : job[a].id = i
    /\ \A a \in Actors : job[a].id \notin orphans

\* What has expired is deleted in the end, whether or not the channel still
\* collects media ("bounded retention"), after any failures and crashes.
ExpiredIsDeleted ==
    \A i \in Ids : Live(i) /\ asset[i].left = 0 ~> ~Live(i)
=============================================================================
