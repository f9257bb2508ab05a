----------------------------- MODULE PublicWire -----------------------------
(***************************************************************************)
(* The public news wire: the two workflows that check every enabled feed   *)
(* (rss_gate), collect the feeds and combine them with the deployed wire   *)
(* (collect-public), and deploy the result.                                *)
(*                                                                         *)
(* The wire is in no repository: its only copy is the one deployed, which  *)
(* the next run downloads.  Both workflows are in one concurrency group:   *)
(* one run at a time, at most one waiting, a newer one takes its place.    *)
(* The scheduled one checks out main, the other the commit whose CI has    *)
(* ended, which need not be the latest.                                    *)
(*                                                                         *)
(* A headline is a number, in the order of published_at.  Time is counted  *)
(* in ticks that are long compared with a run, which compares everything   *)
(* with the time it started.                                               *)
(***************************************************************************)
EXTENDS Naturals, Sequences, FiniteSets

CONSTANTS
    Sources,        \* feeds of the configuration
    Items,          \* headlines
    SourceOf,       \* the feed of each headline
    Window,         \* the seven days of the wire, in ticks
    PerSource,      \* per_source_limit
    Total,          \* the limit of the whole wire
    MaxCommits,     \* bound on the commits of main
    None            \* nothing deployed, nothing waiting, never

ASSUME WireAssumption ==
    /\ Items \subseteq Nat
    /\ SourceOf \in [Items -> Sources]
    /\ Window \in Nat /\ PerSource \in Nat /\ Total \in Nat
    /\ MaxCommits \in Nat \ {0}
    /\ None \notin Nat

VARIABLES
    published,  \* ticks since published_at of each headline
    main,       \* the enabled sources of each commit
    ci,         \* commits whose CI runs
    waiting,    \* the waiting run of the group
    run,        \* the run in progress
    site,       \* what is deployed
    good        \* ticks since the last deployed refresh of each source (history)

vars == <<published, main, ci, waiting, run, site, good>>

Commits == 1 .. MaxCommits
Latest == 0                     \* what main is when the run starts
Skipped == MaxCommits + 1       \* a run whose job is skipped: its CI failed
Ages == 0 .. Window + 1
Older(age) == IF age = None \/ age = Window + 1 THEN age ELSE age + 1
Idle == [phase |-> "idle"]
Enabled(commit) == main[commit]
ItemsOf(s) == {i \in Items : SourceOf[i] = s}

Init ==
    /\ published = [i \in Items |-> None]
    /\ main = <<Sources>>
    /\ ci = {}
    /\ waiting = None
    /\ run = Idle
    /\ site = None
    /\ good = [s \in Sources |-> None]

-----------------------------------------------------------------------------
(***************************************************************************)
(* Publishers, editors of the configuration, time (external).              *)
(***************************************************************************)
Publish(i) ==
    /\ published[i] = None
    /\ \A j \in Items : j < i => published[j] # None
    /\ published' = [published EXCEPT ![i] = 0]
    /\ UNCHANGED <<main, ci, waiting, run, site, good>>

Push(enabled) ==
    /\ Len(main) < MaxCommits
    /\ main' = Append(main, enabled)
    /\ ci' = ci \cup {Len(main')}
    /\ UNCHANGED <<published, waiting, run, site, good>>

Tick ==
    /\ run = Idle
    /\ published' = [i \in Items |-> Older(published[i])]
    /\ good' = [s \in Sources |-> Older(good[s])]
    /\ site' = IF site = None THEN None
               ELSE [site EXCEPT !.refreshed =
                        [s \in DOMAIN @ |-> Older(@[s])]]
    /\ UNCHANGED <<main, ci, waiting, run>>

-----------------------------------------------------------------------------
(***************************************************************************)
(* The concurrency group.                                                  *)
(***************************************************************************)
\* The cron of rss-wire.yml, or a dispatch of it.
Schedule ==
    /\ waiting' = Latest
    /\ UNCHANGED <<published, main, ci, run, site, good>>

\* The end of a CI starts deploy-pages.yml; the run takes its place in the
\* group before it is known that its job is skipped.
CiEnds(commit, success) ==
    /\ commit \in ci
    /\ ci' = ci \ {commit}
    /\ waiting' = IF success THEN commit ELSE Skipped
    /\ UNCHANGED <<published, main, run, site, good>>

FirstCommit(ref) == 1                           \* mutant: the checkout is pinned
RawRef(ref) == ref                              \* mutant: main is not resolved

Checkout(ref) == IF ref = Latest THEN Len(main) ELSE ref

StartRun ==
    /\ run = Idle
    /\ waiting # None
    /\ waiting' = None
    /\ run' = IF waiting = Skipped THEN Idle
              ELSE [phase |-> "checkout", commit |-> Checkout(waiting)]
    /\ UNCHANGED <<published, main, ci, site, good>>

-----------------------------------------------------------------------------
(***************************************************************************)
(* rss_gate checks the enabled sources one by one, then collect-public     *)
(* fetches each of them.  Nothing but the run itself sees how far it is,   *)
(* so this is one step, for any set of sources that are down when they are *)
(* checked, any that are down when they are fetched, and any headlines the *)
(* feeds show.                                                             *)
(***************************************************************************)
\* One failed check, or no enabled source, stops the run.
GatePasses(failed, commit) == failed = {} /\ Enabled(commit) # {}

\* Headlines that the feeds of these sources may show.
Shown(sources) == {i \in Items : published[i] # None /\ SourceOf[i] \in sources}

\* collect_public first downloads the deployed wire, if there is one and it
\* can be read; it refuses to go on if every enabled source is delayed.
Collect(failed, delayed, loaded) ==
    LET healthy == Enabled(run.commit) \ delayed
    IN  /\ run.phase = "checkout"
        /\ failed \cup delayed \subseteq Enabled(run.commit)
        /\ loaded => site # None
        /\ IF GatePasses(failed, run.commit) /\ healthy # {}
           THEN \E fresh \in SUBSET Shown(healthy) :
                   run' = [phase |-> "collected", commit |-> run.commit,
                           loaded |-> loaded, healthy |-> healthy, fresh |-> fresh]
           ELSE run' = Idle
        /\ UNCHANGED <<published, main, ci, waiting, site, good>>

-----------------------------------------------------------------------------
(***************************************************************************)
(* build_public_wire.                                                      *)
(***************************************************************************)
Current(items) == {i \in items : published[i] <= Window}

Newest(n, items) == {i \in items : Cardinality({j \in items : j > i}) < n}

NotRetained(r) == {}                            \* mutant: the previous wire is dropped

\* What is still current of the previous wire, of sources still enabled.
Retained(r) ==
    IF r.loaded THEN {i \in site.entries : SourceOf[i] \in Enabled(r.commit)} ELSE {}

Entries(r) ==
    LET all == Current(Retained(r) \cup r.fresh)
    IN  Newest(Total, UNION {Newest(PerSource, all \cap ItemsOf(s)) : s \in Sources})

RefreshedNow(r, s) == 0                         \* mutant: whether delayed or not

Refreshed(r, s) ==
    IF s \in r.healthy THEN 0
    ELSE IF r.loaded /\ s \in DOMAIN site.refreshed THEN site.refreshed[s]
    ELSE None

Wire(r) == [commit |-> r.commit, entries |-> Entries(r),
            refreshed |-> [s \in Enabled(r.commit) |-> Refreshed(r, s)]]

Deploy ==
    /\ run.phase = "collected"
    /\ site' = Wire(run)
    /\ good' = [s \in Sources |-> IF s \in run.healthy THEN 0 ELSE good[s]]
    /\ run' = Idle
    /\ UNCHANGED <<published, main, ci, waiting>>

\* Validation, tests, build, upload or deployment fails: Pages keeps serving
\* the previous artifact.
RunFails ==
    /\ run.phase = "collected"
    /\ run' = Idle
    /\ UNCHANGED <<published, main, ci, waiting, site, good>>

Collects ==
    \E failed, delayed \in SUBSET Sources, loaded \in BOOLEAN :
        Collect(failed, delayed, loaded)

Next ==
    \/ \E i \in Items : Publish(i)
    \/ \E enabled \in SUBSET Sources : Push(enabled)
    \/ Tick
    \/ Schedule
    \/ \E commit \in ci, success \in BOOLEAN : CiEnds(commit, success)
    \/ StartRun
    \/ Collects
    \/ Deploy
    \/ RunFails

Spec == Init /\ [][Next]_vars

(***************************************************************************)
(* Fairness: the cron fires, the service runs what waits, a step of a run  *)
(* ends (timeout-minutes), CI ends, and deployments do not fail for ever.  *)
(***************************************************************************)
FairSpec ==
    /\ Spec
    /\ WF_vars(Schedule) /\ WF_vars(StartRun) /\ WF_vars(Collects) /\ SF_vars(Deploy)
    /\ \A commit \in Commits : WF_vars(\E success \in BOOLEAN : CiEnds(commit, success))

-----------------------------------------------------------------------------
Wires ==
    UNION {[commit : {c}, entries : SUBSET Items,
            refreshed : [Enabled(c) -> Ages \cup {None}]] : c \in DOMAIN main}

Runs ==
    {Idle}
    \cup [phase : {"checkout"}, commit : Commits]
    \cup [phase : {"collected"}, commit : Commits, loaded : BOOLEAN,
          healthy : SUBSET Sources, fresh : SUBSET Items]

\* Type invariant of the feeds, the repository, the runs and the site.
TypeOK ==
    /\ published \in [Items -> Ages \cup {None}]
    /\ main \in Seq(SUBSET Sources) /\ Len(main) \in Commits
    /\ ci \subseteq Commits
    /\ waiting \in Commits \cup {Latest, Skipped, None}
    /\ run \in Runs
    /\ site \in Wires \cup {None}
    /\ good \in [Sources -> Ages \cup {None}]

\* The site never says of a source that it was refreshed at a time it was
\* not (lastSuccessfulRefreshAt): whatever runs were delayed, failed or could
\* not read the wire, and whatever commits dropped the source and took it up
\* again, the time is that of its last deployed refresh or not given.
RefreshTimesAreTrue ==
    site # None =>
        \A s \in DOMAIN site.refreshed : site.refreshed[s] \in {None, good[s]}

\* "Partial success may publish healthy-source updates while retaining still-
\* valid prior entries from a failed source": a headline leaves the wire only
\* when it is too old, its source is disabled, newer headlines take its
\* place, or the run could not read the deployed wire.
NothingLost ==
    [][Deploy /\ run.loaded =>
          \A i \in site.entries \ site'.entries :
              \/ published[i] > Window
              \/ SourceOf[i] \notin Enabled(run.commit)
              \/ Cardinality({j \in site'.entries : j > i}) >= Total
              \/ Cardinality({j \in site'.entries \cap ItemsOf(SourceOf[i]) : j > i})
                     >= PerSource]_vars

\* A step in which s is checked or fetched and is down.
FindsDown(s) ==
    \E failed, delayed \in SUBSET Sources, loaded \in BOOLEAN :
        s \in failed \cup delayed /\ Collect(failed, delayed, loaded)

Refreshes(s) == Deploy /\ s \in run.healthy

\* Once every feed answers, the site shows the head of main and every enabled
\* source is refreshed again and again, whatever older commits were deployed
\* late and whatever waiting runs were replaced by newer or skipped ones.
SiteCatchesUp ==
    <>[](Enabled(Len(main)) # {}) /\ <>[][\A s \in Sources : ~FindsDown(s)]_vars =>
        /\ <>[](site # None /\ site.commit = Len(main))
        /\ \A s \in Sources :
              <>[](s \in Enabled(Len(main))) => []<><<Refreshes(s)>>_vars
=============================================================================
