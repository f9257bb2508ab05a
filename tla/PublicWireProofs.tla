-------------------------- MODULE PublicWireProofs --------------------------
(***************************************************************************)
(* Proofs about PublicWire, for any sources, headlines, limits and commits *)
(* of the configuration.                                                   *)
(***************************************************************************)
EXTENDS PublicWire, FiniteSetTheorems, TLAPS

PublishedItems == {i \in Items : published[i] # None}

\* Every commit that CI, the group or a run is about is one of main.
CommitsExist ==
    /\ ci \subseteq DOMAIN main
    /\ waiting \in DOMAIN main \cup {Latest, Skipped, None}
    /\ run.phase # "idle" => run.commit \in DOMAIN main

\* Only published headlines are collected and deployed.
ShownWasPublished ==
    /\ site # None => site.entries \subseteq PublishedItems
    /\ run.phase = "collected" => run.fresh \subseteq PublishedItems

\* A run that could read the wire still finds it when it deploys.
LoadedIsThere == run.phase = "collected" /\ run.loaded => site # None

WireInv ==
    /\ TypeOK
    /\ CommitsExist
    /\ IsFiniteSet(PublishedItems)
    /\ ShownWasPublished
    /\ LoadedIsThere
    /\ RefreshTimesAreTrue

-----------------------------------------------------------------------------
(***************************************************************************)
(* Ages, wires and runs.                                                   *)
(***************************************************************************)
LEMMA AgeFacts ==
    /\ None \notin Ages /\ 0 \in Ages /\ Ages \subseteq Nat
    /\ Older(None) = None
    /\ \A a \in Ages : Older(a) \in Ages
  BY WireAssumption DEF Ages, Older

LEMMA WireFields ==
    ASSUME NEW w \in Wires
    PROVE  /\ w.commit \in DOMAIN main
           /\ w.entries \in SUBSET Items
           /\ w.refreshed \in [Enabled(w.commit) -> Ages \cup {None}]
           /\ w = [commit |-> w.commit, entries |-> w.entries, refreshed |-> w.refreshed]
  BY DEF Wires

LEMMA WireType ==
    ASSUME NEW c \in DOMAIN main, NEW e \in SUBSET Items,
           NEW f \in [Enabled(c) -> Ages \cup {None}]
    PROVE  [commit |-> c, entries |-> e, refreshed |-> f] \in Wires
  BY DEF Wires

LEMMA RunFields ==
    ASSUME NEW r \in Runs
    PROVE  /\ r.phase \in {"idle", "checkout", "collected"}
           /\ r = Idle <=> r.phase = "idle"
           /\ r.phase # "idle" => r.commit \in Commits
           /\ r.phase = "collected" =>
                 r.loaded \in BOOLEAN /\ r.healthy \in SUBSET Sources /\ r.fresh \in SUBSET Items
  BY DEF Runs, Idle

LEMMA RunTypes ==
    /\ Idle \in Runs
    /\ \A c \in Commits : [phase |-> "checkout", commit |-> c] \in Runs
    /\ \A c \in Commits, l \in BOOLEAN, h \in SUBSET Sources, f \in SUBSET Items :
          [phase |-> "collected", commit |-> c, loaded |-> l, healthy |-> h, fresh |-> f] \in Runs
  BY DEF Runs, Idle

LEMMA MainDomain ==
    ASSUME TypeOK
    PROVE  /\ DOMAIN main = 1 .. Len(main)
           /\ Len(main) \in DOMAIN main
           /\ DOMAIN main \subseteq Commits
           /\ Latest \notin DOMAIN main /\ Skipped \notin DOMAIN main /\ None \notin DOMAIN main
           /\ \A c \in DOMAIN main : Enabled(c) \in SUBSET Sources
<1>1. main \in Seq(SUBSET Sources) /\ Len(main) \in 1 .. MaxCommits /\ MaxCommits \in Nat
  BY WireAssumption DEF TypeOK, Commits
<1>2. DOMAIN main = 1 .. Len(main) /\ \A c \in 1 .. Len(main) : main[c] \in SUBSET Sources
  BY <1>1
<1>. QED  BY <1>1, <1>2, WireAssumption DEF Commits, Latest, Skipped, Enabled

\* A push leaves the earlier commits as they are.
LEMMA PushKeeps ==
    ASSUME TypeOK, NEW e \in SUBSET Sources, Push(e)
    PROVE  /\ main' \in Seq(SUBSET Sources) /\ Len(main') \in Commits
           /\ DOMAIN main \subseteq DOMAIN main' /\ Len(main') \in DOMAIN main'
           /\ \A c \in DOMAIN main : Enabled(c)' = Enabled(c)
<1>1. main \in Seq(SUBSET Sources) /\ Len(main) \in Nat /\ Len(main) < MaxCommits
      /\ main' = Append(main, e) /\ MaxCommits \in Nat
  BY WireAssumption DEF TypeOK, Push, Commits
<1>2. main' \in Seq(SUBSET Sources) /\ Len(main') = Len(main) + 1
      /\ \A c \in 1 .. Len(main) : main'[c] = main[c]
  BY <1>1
<1>3. DOMAIN main = 1 .. Len(main) /\ DOMAIN main' = 1 .. Len(main) + 1
  BY <1>1, <1>2
<1>. QED  BY <1>1, <1>2, <1>3 DEF Commits, Enabled

\* What a run deploys is made of what it collected and of the wire it read.
LEMMA EntriesAreOf ==
    ASSUME NEW r
    PROVE  Entries(r) \subseteq Retained(r) \cup r.fresh
  BY DEF Entries, Newest, Current

LEMMA RetainedAreOf ==
    ASSUME NEW r
    PROVE  /\ r.loaded => Retained(r) \subseteq site.entries
           /\ ~r.loaded => Retained(r) = {}
  BY DEF Retained

-----------------------------------------------------------------------------
(***************************************************************************)
(* The invariant.                                                          *)
(***************************************************************************)
LEMMA WireInit ==
    ASSUME Init
    PROVE  WireInv
<1>1. main = <<Sources>> /\ main \in Seq(SUBSET Sources) /\ Len(main) = 1
  BY DEF Init
<1>2. TypeOK
  BY <1>1, AgeFacts, RunTypes, WireAssumption DEF Init, TypeOK, Commits
<1>3. PublishedItems = {}
  BY DEF Init, PublishedItems
<1>4. CommitsExist /\ ShownWasPublished /\ LoadedIsThere /\ RefreshTimesAreTrue
  BY DEF Init, CommitsExist, ShownWasPublished, LoadedIsThere, RefreshTimesAreTrue, Idle
<1>. QED  BY <1>2, <1>3, <1>4, FS_EmptySet DEF WireInv

\* The wire a run deploys.
LEMMA DeployedWire ==
    ASSUME WireInv, Deploy
    PROVE  /\ Wire(run) \in Wires
           /\ Wire(run).entries = Entries(run) /\ Entries(run) \subseteq PublishedItems
           /\ Wire(run).refreshed = [s \in Enabled(run.commit) |-> Refreshed(run, s)]
<1>. DEFINE c == run.commit
            f == [s \in Enabled(c) |-> Refreshed(run, s)]
<1>1. /\ run.phase = "collected" /\ c \in DOMAIN main /\ run.loaded \in BOOLEAN
      /\ run.fresh \in SUBSET Items /\ run.fresh \subseteq PublishedItems
      /\ run.loaded => site # None
  BY RunFields DEF Deploy, WireInv, TypeOK, CommitsExist, ShownWasPublished, LoadedIsThere
<1>2. site # None => site \in Wires /\ site.entries \subseteq PublishedItems
  BY DEF WireInv, TypeOK, ShownWasPublished
<1>3. Entries(run) \subseteq PublishedItems
  BY <1>1, <1>2, EntriesAreOf, RetainedAreOf
<1>4. \A s \in Enabled(c) : Refreshed(run, s) \in Ages \cup {None}
  BY <1>1, <1>2, AgeFacts, WireFields DEF Refreshed
<1>5. f \in [Enabled(c) -> Ages \cup {None}]
  BY <1>4
<1>. HIDE DEF f
<1>6. Wire(run) = [commit |-> c, entries |-> Entries(run), refreshed |-> f]
  BY DEF Wire, f
<1>7. Entries(run) \in SUBSET Items
  BY <1>3 DEF PublishedItems
<1>8. Wire(run) \in Wires
  BY <1>1, <1>5, <1>6, <1>7, WireType
<1>. QED  BY <1>3, <1>6, <1>8 DEF f

LEMMA SameWires ==
    ASSUME UNCHANGED main
    PROVE  Wires' = Wires
  BY DEF Wires, Enabled

\* A run goes on with what was published, or ends.
LEMMA CollectedRun ==
    ASSUME WireInv, NEW failed, NEW delayed, NEW loaded \in BOOLEAN,
           Collect(failed, delayed, loaded)
    PROVE  \/ run' = Idle
           \/ /\ loaded => site # None
              /\ \E healthy \in SUBSET Sources, fresh \in SUBSET PublishedItems :
                    run' = [phase |-> "collected", commit |-> run.commit,
                            loaded |-> loaded, healthy |-> healthy, fresh |-> fresh]
<1>. DEFINE healthy == Enabled(run.commit) \ delayed
<1>1. Enabled(run.commit) \in SUBSET Sources
  BY MainDomain DEF Collect, WireInv, CommitsExist
<1>2. healthy \in SUBSET Sources /\ Shown(healthy) \subseteq PublishedItems
  BY <1>1 DEF Shown, PublishedItems
<1>3. /\ loaded => site # None
      /\ \/ run' = Idle
         \/ \E fresh \in SUBSET Shown(healthy) :
                run' = [phase |-> "collected", commit |-> run.commit,
                        loaded |-> loaded, healthy |-> healthy, fresh |-> fresh]
  BY Zenon DEF Collect
<1>. HIDE DEF healthy
<1>. QED  BY <1>2, <1>3

LEMMA TypeStep ==
    ASSUME WireInv, [Next]_vars
    PROVE  TypeOK'
<1>. USE DEF WireInv, TypeOK
<1>1. ASSUME NEW i \in Items, Publish(i)  PROVE TypeOK'
  BY <1>1, AgeFacts, SameWires DEF Publish
<1>2. ASSUME NEW e \in SUBSET Sources, Push(e)  PROVE TypeOK'
  <2>1. main' \in Seq(SUBSET Sources) /\ Len(main') \in Commits
    BY <1>2, PushKeeps
  <2>2. ci' \subseteq Commits
    BY <1>2, <2>1 DEF Push
  <2>3. ASSUME NEW w \in Wires  PROVE w \in Wires'
    <3>1. w.commit \in DOMAIN main' /\ Enabled(w.commit)' = Enabled(w.commit)
      BY <1>2, PushKeeps, WireFields
    <3>2. w.refreshed \in [Enabled(w.commit)' -> Ages \cup {None}]
      BY <3>1, WireFields
    <3>3. w = [commit |-> w.commit, entries |-> w.entries, refreshed |-> w.refreshed]
          /\ w.entries \in SUBSET Items
      BY WireFields
    <3>. QED  BY <3>1, <3>2, <3>3 DEF Wires
  <2>. QED  BY <1>2, <2>1, <2>2, <2>3 DEF Push
<1>3. CASE Tick
  <2>1. published' \in [Items -> Ages \cup {None}] /\ good' \in [Sources -> Ages \cup {None}]
    BY <1>3, AgeFacts DEF Tick
  <2>2. site' \in Wires \cup {None}
    <3>1. CASE site = None
      BY <1>3, <3>1 DEF Tick
    <3>2. CASE site # None
      <4>. DEFINE f == [s \in DOMAIN site.refreshed |-> Older(site.refreshed[s])]
      <4>1. site \in Wires
        BY <3>2
      <4>2. f \in [Enabled(site.commit) -> Ages \cup {None}]
        BY <4>1, AgeFacts, WireFields
      <4>3. site' = [commit |-> site.commit, entries |-> site.entries, refreshed |-> f]
        <5>1. site' = [site EXCEPT !.refreshed = f]
          BY <1>3, <3>2 DEF Tick
        <5>. HIDE DEF f
        <5>. QED  BY <4>1, <5>1 DEF Wires
      <4>. HIDE DEF f
      <4>. QED  BY <4>1, <4>2, <4>3, WireFields, WireType
    <3>. QED  BY <3>1, <3>2
  <2>. QED  BY <1>3, <2>1, <2>2, SameWires DEF Tick
<1>4. CASE Schedule
  BY <1>4, SameWires DEF Schedule
<1>5. ASSUME NEW c \in ci, NEW success \in BOOLEAN, CiEnds(c, success)  PROVE TypeOK'
  BY <1>5, SameWires DEF CiEnds
<1>6. CASE StartRun
  <2>1. waiting \notin {None, Skipped} => Checkout(waiting) \in Commits
    BY MainDomain DEF Checkout
  <2>2. run' \in Runs
    BY <1>6, <2>1, RunTypes DEF StartRun
  <2>. QED  BY <1>6, <2>2, SameWires DEF StartRun
<1>7. ASSUME NEW failed \in SUBSET Sources, NEW delayed \in SUBSET Sources,
             NEW loaded \in BOOLEAN, Collect(failed, delayed, loaded)
      PROVE  TypeOK'
  <2>1. run.commit \in Commits /\ Enabled(run.commit) \in SUBSET Sources
    BY <1>7, RunFields, MainDomain DEF Collect, CommitsExist
  <2>2. run' \in Runs
    <3>1. CASE run' = Idle
      BY <3>1, RunTypes
    <3>2. ASSUME NEW healthy \in SUBSET Sources, NEW fresh \in SUBSET PublishedItems,
                 run' = [phase |-> "collected", commit |-> run.commit,
                         loaded |-> loaded, healthy |-> healthy, fresh |-> fresh]
          PROVE  run' \in Runs
      BY <2>1, <3>2, RunTypes DEF PublishedItems
    <3>. QED  BY <1>7, <3>1, <3>2, CollectedRun
  <2>. QED  BY <1>7, <2>2, SameWires DEF Collect
<1>8. CASE Deploy
  <2>1. site' \in Wires
    BY <1>8, DeployedWire DEF Deploy
  <2>. QED  BY <1>8, <2>1, AgeFacts, RunTypes, SameWires DEF Deploy
<1>9. CASE RunFails
  BY <1>9, RunTypes, SameWires DEF RunFails
<1>10. CASE UNCHANGED vars
  BY <1>10, SameWires DEF vars
<1>. QED
  BY <1>1, <1>2, <1>3, <1>4, <1>5, <1>6, <1>7, <1>8, <1>9, <1>10 DEF Next, Collects

LEMMA CommitsStep ==
    ASSUME WireInv, [Next]_vars
    PROVE  CommitsExist'
<1>. USE DEF WireInv, CommitsExist, Idle
<1>1. ASSUME NEW e \in SUBSET Sources, Push(e)  PROVE CommitsExist'
  BY <1>1, PushKeeps DEF Push
<1>2. CASE StartRun
  <2>1. waiting \notin {None, Skipped} => Checkout(waiting) \in DOMAIN main
    BY MainDomain DEF Checkout
  <2>. QED  BY <1>2, <2>1 DEF StartRun
<1>3. ASSUME NEW failed, NEW delayed, NEW loaded \in BOOLEAN, Collect(failed, delayed, loaded)
      PROVE  CommitsExist'
  <2>1. run' = Idle \/ run'.commit = run.commit
    BY <1>3, CollectedRun
  <2>2. run.commit \in DOMAIN main
    BY <1>3 DEF Collect
  <2>. QED  BY <1>3, <2>1, <2>2 DEF Collect
<1>4. ASSUME NEW c \in ci, NEW success, CiEnds(c, success)  PROVE CommitsExist'
  BY <1>4 DEF CiEnds
<1>5. CASE UNCHANGED <<main, ci, waiting, run>>
  BY <1>5
<1>. QED
  BY <1>1, <1>2, <1>3, <1>4, <1>5
  DEF Next, Publish, Tick, Schedule, Collects, Deploy, RunFails, vars

LEMMA PublishedStep ==
    ASSUME WireInv, [Next]_vars
    PROVE  IsFiniteSet(PublishedItems)' /\ PublishedItems \subseteq PublishedItems'
<1>. USE DEF WireInv, TypeOK, PublishedItems
<1>1. ASSUME NEW i \in Items, Publish(i)
      PROVE  PublishedItems' = PublishedItems \cup {i}
  BY <1>1, WireAssumption DEF Publish
<1>2. Tick => PublishedItems' = PublishedItems
  BY AgeFacts DEF Tick
<1>3. UNCHANGED published => PublishedItems' = PublishedItems
  OBVIOUS
<1>4. PublishedItems' = PublishedItems \/ \E i \in Items : PublishedItems' = PublishedItems \cup {i}
  BY <1>1, <1>2, <1>3
  DEF Next, Push, Schedule, CiEnds, StartRun, Collects, Collect, Deploy, RunFails, vars
<1>. HIDE DEF PublishedItems
<1>. QED  BY <1>4, FS_AddElement

LEMMA ShownStep ==
    ASSUME WireInv, [Next]_vars
    PROVE  ShownWasPublished' /\ LoadedIsThere'
<1>. USE DEF WireInv, ShownWasPublished, LoadedIsThere, Idle
<1>1. PublishedItems \subseteq PublishedItems'
  BY PublishedStep
<1>2. ASSUME NEW failed, NEW delayed, NEW loaded \in BOOLEAN, Collect(failed, delayed, loaded)
      PROVE  ShownWasPublished' /\ LoadedIsThere'
  BY <1>1, <1>2, CollectedRun DEF Collect
<1>3. CASE Deploy
  BY <1>1, <1>3, DeployedWire DEF Deploy
<1>4. CASE Tick
  BY <1>1, <1>4, WireFields DEF Tick, TypeOK
<1>5. CASE StartRun
  BY <1>1, <1>5 DEF StartRun
<1>6. CASE UNCHANGED <<site, run>>
  BY <1>1, <1>6
<1>7. CASE RunFails
  BY <1>1, <1>7 DEF RunFails
<1>8. (\E i \in Items : Publish(i)) \/ (\E e \in SUBSET Sources : Push(e)) \/ Schedule
      \/ (\E c \in ci, success \in BOOLEAN : CiEnds(c, success)) \/ UNCHANGED vars
        => UNCHANGED <<site, run>>
  BY DEF Publish, Push, Schedule, CiEnds, vars
<1>. QED  BY <1>2, <1>3, <1>4, <1>5, <1>6, <1>7, <1>8 DEF Next, Collects

\* While a run is in progress no time passes; a source that was not fetched
\* keeps the time the previous wire gave.
LEMMA RefreshStep ==
    ASSUME WireInv, [Next]_vars
    PROVE  RefreshTimesAreTrue'
<1>. USE DEF WireInv, RefreshTimesAreTrue
<1>1. CASE Deploy
  <2>1. DOMAIN site'.refreshed = Enabled(run.commit)
        /\ \A s \in Enabled(run.commit) : site'.refreshed[s] = Refreshed(run, s)
    BY <1>1, DeployedWire DEF Deploy
  <2>2. Enabled(run.commit) \in SUBSET Sources
    BY <1>1, MainDomain DEF Deploy, CommitsExist
  <2>3. run.loaded => site # None
    BY <1>1 DEF Deploy, LoadedIsThere
  <2>4. ASSUME NEW s \in Enabled(run.commit)  PROVE Refreshed(run, s) \in {None, good'[s]}
    <3>1. good'[s] = IF s \in run.healthy THEN 0 ELSE good[s]
      BY <1>1, <2>2 DEF Deploy
    <3>. QED  BY <2>3, <3>1 DEF Refreshed
  <2>. QED  BY <2>1, <2>4
<1>2. CASE Tick
  <2>1. CASE site = None
    BY <1>2, <2>1 DEF Tick
  <2>2. CASE site # None
    <3>1. site \in Wires /\ site.refreshed \in [Enabled(site.commit) -> Ages \cup {None}]
      BY <2>2, WireFields DEF TypeOK
    <3>2. Enabled(site.commit) \in SUBSET Sources
      BY <3>1, MainDomain, WireFields
    <3>3. site'.refreshed = [s \in DOMAIN site.refreshed |-> Older(site.refreshed[s])]
      BY <1>2, <2>2, <3>1 DEF Tick, Wires
    <3>4. \A s \in Sources : good'[s] = Older(good[s])
      BY <1>2 DEF Tick
    <3>. QED  BY <2>2, <3>1, <3>2, <3>3, <3>4, AgeFacts
  <2>. QED  BY <2>1, <2>2
<1>3. CASE UNCHANGED <<site, good>>
  BY <1>3
<1>. QED
  BY <1>1, <1>2, <1>3
  DEF Next, Publish, Push, Schedule, CiEnds, StartRun, Collects, Collect, RunFails, vars

LEMMA WireStep ==
    ASSUME WireInv, [Next]_vars
    PROVE  WireInv'
  BY TypeStep, CommitsStep, PublishedStep, ShownStep, RefreshStep DEF WireInv

LEMMA WireInvariant == Spec => []WireInv
<1>1. Init => WireInv
  BY WireInit
<1>2. WireInv /\ [Next]_vars => WireInv'
  BY WireStep
<1>. QED  BY <1>1, <1>2, PTL DEF Spec

\* Feeds, commits, runs and the site hold values of their types.
THEOREM WireTypes == Spec => []TypeOK
<1>1. WireInv => TypeOK
  BY DEF WireInv
<1>. QED  BY <1>1, WireInvariant, PTL

\* The site never gives a source a refresh time that was not one.
THEOREM TimesAreTrue == Spec => []RefreshTimesAreTrue
<1>1. WireInv => RefreshTimesAreTrue
  BY DEF WireInv
<1>. QED  BY <1>1, WireInvariant, PTL

-----------------------------------------------------------------------------
(***************************************************************************)
(* The newest n of a finite set: who is left out has n newer ones in it.   *)
(***************************************************************************)
LEMMA LeastExists ==
    ASSUME NEW S, S \subseteq Nat, S # {}
    PROVE  \E m \in S : \A n \in S : m <= n
<1>1. \E m \in S : \A n \in S : <<n, m>> \notin OpToRel(<, Nat)
  BY WFMin, NatLessThanWellFounded, Zenon
<1>2. \A m \in S, n \in S : <<n, m>> \notin OpToRel(<, Nat) => m <= n
  BY DEF OpToRel
<1>. QED  BY <1>1, <1>2

NewerThan(i, S) == {j \in S : j > i}

LEMMA NewerIsFinite ==
    ASSUME NEW S, IsFiniteSet(S), NEW i
    PROVE  IsFiniteSet(NewerThan(i, S)) /\ Cardinality(NewerThan(i, S)) \in Nat
<1>1. NewerThan(i, S) \in SUBSET S
  BY DEF NewerThan
<1>. QED  BY <1>1, FS_Subset, FS_CardinalityType

LEMMA NewestIsNewer ==
    ASSUME NEW S, S \subseteq Nat, IsFiniteSet(S), NEW i \in Nat, NEW n \in Nat,
           Cardinality(NewerThan(i, S)) >= n
    PROVE  Cardinality(NewerThan(i, Newest(n, S))) >= n
<1>. DEFINE A == NewerThan(i, S)
            B == NewerThan(i, Newest(n, S))
            Rest == A \ B
            Counts == {Cardinality(NewerThan(m, S)) : m \in Rest}
<1>1. /\ B \in SUBSET A /\ B \in SUBSET S /\ A \subseteq Nat
      /\ \A m \in S : Cardinality(NewerThan(m, S)) < n => m \in Newest(n, S)
  BY DEF NewerThan, Newest
<1>2. IsFiniteSet(B) /\ Cardinality(B) \in Nat /\ Cardinality(A) \in Nat
  BY <1>1, NewerIsFinite, FS_Subset, FS_CardinalityType
<1>. SUFFICES ASSUME Cardinality(B) < n  PROVE FALSE
  BY <1>2
<1>3. Rest # {}
  BY <1>1, <1>2
<1>4. Counts # {} /\ Counts \subseteq Nat
  BY <1>3, NewerIsFinite
<1>5. PICK m \in Rest :
          \A k \in Rest : Cardinality(NewerThan(m, S)) <= Cardinality(NewerThan(k, S))
  <2>1. PICK c \in Counts : \A d \in Counts : c <= d
    BY <1>4, LeastExists
  <2>. QED  BY <2>1
<1>. DEFINE D == NewerThan(m, S)
<1>6. /\ m \in S /\ m \in Nat /\ m > i /\ m \notin Newest(n, S)
      /\ IsFiniteSet(D) /\ Cardinality(D) \in Nat
  BY NewerIsFinite DEF NewerThan
<1>7. CASE D \subseteq B
  <2>1. Cardinality(D) <= Cardinality(B)
    BY <1>2, <1>7, FS_Subset
  <2>. QED  BY <1>1, <1>2, <1>6, <2>1
<1>8. CASE ~(D \subseteq B)
  <2>1. PICK k \in D : k \notin B
    BY <1>8
  <2>2. k \in Rest /\ k \in S /\ k \in Nat /\ k > m
    BY <1>6, <2>1 DEF NewerThan
  <2>. DEFINE E == NewerThan(k, S)
  <2>3. E \in SUBSET D /\ k \in D /\ k \notin E
    <3>1. ~(k > k) /\ \A x \in Nat : x > k => x > m
      BY <1>6, <2>2
    <3>. QED  BY <2>1, <3>1 DEF NewerThan
  <2>4. Cardinality(E) <= Cardinality(D) /\ Cardinality(E) # Cardinality(D) /\ Cardinality(E) \in Nat
    BY <1>6, <2>3, FS_Subset, NewerIsFinite
  <2>. QED  BY <1>5, <1>6, <2>2, <2>4
<1>. QED  BY <1>7, <1>8

LEMMA LeftOutHasNewer ==
    ASSUME NEW S, IsFiniteSet(S), NEW n \in Nat, NEW i \in S, i \notin Newest(n, S)
    PROVE  Cardinality(NewerThan(i, S)) >= n
<1>1. ~(Cardinality(NewerThan(i, S)) < n)
  BY DEF Newest, NewerThan
<1>. QED  BY <1>1, NewerIsFinite

\* More is newer than an older headline.
LEMMA OlderHasMoreNewer ==
    ASSUME NEW S, S \subseteq Nat, IsFiniteSet(S), NEW i \in Nat, NEW j \in Nat, i <= j,
           NEW T, IsFiniteSet(T), S \subseteq T, T \subseteq Nat
    PROVE  Cardinality(NewerThan(j, S)) <= Cardinality(NewerThan(i, T))
<1>1. \A x \in Nat : x > j => x > i
  OBVIOUS
<1>2. NewerThan(j, S) \in SUBSET NewerThan(i, T)
  BY <1>1 DEF NewerThan
<1>. QED  BY <1>2, NewerIsFinite, FS_Subset

-----------------------------------------------------------------------------
(***************************************************************************)
(* What a deployment drops.                                                *)
(***************************************************************************)
\* The entries of a wire, in three steps.
AllOf(r) == Current(Retained(r) \cup r.fresh)
NewestOf(r, s) == Newest(PerSource, AllOf(r) \cap ItemsOf(s))
NewestOfAll(r) == UNION {NewestOf(r, s) : s \in Sources}

LEMMA EntriesInSteps ==
    ASSUME NEW r
    PROVE  Entries(r) = Newest(Total, NewestOfAll(r))
  BY DEF Entries, AllOf, NewestOf, NewestOfAll

LEMMA NewestIsPart ==
    ASSUME NEW n, NEW S
    PROVE  Newest(n, S) \subseteq S
  BY DEF Newest

\* A headline that is collected or retained, and current, is dropped only for
\* newer ones of the wire, or of its source.
LEMMA DroppedForNewer ==
    ASSUME NEW r, IsFiniteSet(AllOf(r)), AllOf(r) \subseteq Items,
           NEW i \in AllOf(r), i \notin Entries(r)
    PROVE  \/ Cardinality(NewerThan(i, Entries(r))) >= Total
           \/ Cardinality(NewerThan(i, Entries(r) \cap ItemsOf(SourceOf[i]))) >= PerSource
<1>. DEFINE own == AllOf(r) \cap ItemsOf(SourceOf[i])
            mine == NewestOf(r, SourceOf[i])
            every == NewestOfAll(r)
            shown == Entries(r)
<1>1. /\ Items \subseteq Nat /\ i \in Nat /\ SourceOf[i] \in Sources /\ i \in own
      /\ Total \in Nat /\ PerSource \in Nat
  BY WireAssumption DEF ItemsOf
<1>2. /\ shown = Newest(Total, every) /\ mine = Newest(PerSource, own)
      /\ mine \subseteq every /\ every \subseteq AllOf(r) /\ mine \subseteq own
      /\ shown \subseteq every
  <2>1. shown = Newest(Total, every) /\ mine = Newest(PerSource, own)
    BY EntriesInSteps, Zenon DEF NewestOf
  <2>2. \A s \in Sources : NewestOf(r, s) \subseteq AllOf(r)
    BY NewestIsPart DEF NewestOf
  <2>3. mine \subseteq every /\ every \subseteq AllOf(r)
    BY <1>1, <2>2 DEF NewestOfAll
  <2>4. mine \subseteq own /\ shown \subseteq every
    BY <2>1, NewestIsPart
  <2>. QED  BY <2>1, <2>3, <2>4
<1>3. /\ IsFiniteSet(own) /\ own \subseteq Nat /\ IsFiniteSet(every) /\ every \subseteq Nat
      /\ IsFiniteSet(shown) /\ shown \subseteq Nat /\ IsFiniteSet(mine) /\ mine \subseteq Nat
  <2>1. own \in SUBSET AllOf(r) /\ mine \in SUBSET AllOf(r)
        /\ every \in SUBSET AllOf(r) /\ shown \in SUBSET AllOf(r)
    BY <1>2
  <2>2. AllOf(r) \subseteq Nat
    BY <1>1
  <2>. QED  BY <2>1, <2>2, FS_Subset
<1>. HIDE DEF own, mine, every, shown
\* Who is left out of the newest of all has Total newer ones in it.
<1>4. ASSUME NEW j \in every, j \notin shown, i <= j
      PROVE  Cardinality(NewerThan(i, shown)) >= Total
  <2>1. j \in Nat /\ Cardinality(NewerThan(j, every)) \in Nat
    BY <1>3, NewerIsFinite
  <2>2. Cardinality(NewerThan(j, every)) >= Total
    BY <1>1, <1>2, <1>3, <1>4, LeftOutHasNewer
  <2>3. Cardinality(NewerThan(j, shown)) >= Total
    BY <1>1, <1>2, <1>3, <2>1, <2>2, NewestIsNewer
  <2>4. Cardinality(NewerThan(j, shown)) <= Cardinality(NewerThan(i, shown))
        /\ Cardinality(NewerThan(j, shown)) \in Nat /\ Cardinality(NewerThan(i, shown)) \in Nat
    BY <1>1, <1>3, <1>4, <2>1, OlderHasMoreNewer, NewerIsFinite
  <2>. QED  BY <1>1, <2>3, <2>4
<1>5. CASE i \in mine
  BY <1>1, <1>2, <1>4, <1>5 DEF shown
<1>6. CASE i \notin mine /\ NewerThan(i, mine) \subseteq shown
  <2>1. Cardinality(NewerThan(i, own)) >= PerSource
    BY <1>1, <1>2, <1>3, <1>6, LeftOutHasNewer
  <2>2. Cardinality(NewerThan(i, mine)) >= PerSource
    BY <1>1, <1>2, <1>3, <2>1, NewestIsNewer
  <2>. DEFINE both == shown \cap ItemsOf(SourceOf[i])
  <2>3. NewerThan(i, mine) \in SUBSET NewerThan(i, both)
    BY <1>2, <1>6 DEF NewerThan, own
  <2>4. both \in SUBSET shown
    OBVIOUS
  <2>5. IsFiniteSet(both)
    BY <1>3, <2>4, FS_Subset
  <2>. HIDE DEF both
  <2>6. Cardinality(NewerThan(i, mine)) <= Cardinality(NewerThan(i, both))
        /\ Cardinality(NewerThan(i, mine)) \in Nat /\ Cardinality(NewerThan(i, both)) \in Nat
    BY <1>3, <2>3, <2>5, NewerIsFinite, FS_Subset
  <2>7. Cardinality(NewerThan(i, both)) >= PerSource
    BY <1>1, <2>2, <2>6
  <2>. QED  BY <2>7 DEF both, shown
<1>7. CASE ~(NewerThan(i, mine) \subseteq shown)
  <2>1. PICK j \in NewerThan(i, mine) : j \notin shown
    BY <1>7
  <2>2. j \in every /\ j \in Nat /\ j > i
    BY <1>2, <1>3, <2>1 DEF NewerThan
  <2>3. i <= j
    BY <1>1, <2>2
  <2>. QED  BY <1>4, <2>1, <2>2, <2>3 DEF shown
<1>. QED  BY <1>5, <1>6, <1>7

\* A headline leaves the wire only for age, with its source, for newer ones,
\* or after a run that could not read the wire.
THEOREM NothingIsLost == Spec => NothingLost
<1>1. ASSUME WireInv, Deploy, run.loaded, NEW i \in site.entries \ site'.entries
      PROVE  \/ published[i] > Window
             \/ SourceOf[i] \notin Enabled(run.commit)
             \/ Cardinality({j \in site'.entries : j > i}) >= Total
             \/ Cardinality({j \in site'.entries \cap ItemsOf(SourceOf[i]) : j > i}) >= PerSource
  <2>1. site # None /\ site \in Wires /\ site.entries \subseteq PublishedItems
        /\ run.fresh \subseteq PublishedItems /\ run.phase = "collected"
    BY <1>1 DEF Deploy, WireInv, LoadedIsThere, ShownWasPublished, TypeOK
  <2>2. AllOf(run) \subseteq PublishedItems
    BY <1>1, <2>1, RetainedAreOf DEF AllOf, Current
  <2>3. IsFiniteSet(AllOf(run)) /\ AllOf(run) \subseteq Items
    BY <1>1, <2>2, FS_Subset DEF WireInv, PublishedItems
  <2>4. site'.entries = Entries(run)
    BY <1>1, DeployedWire DEF Deploy
  <2>5. published[i] \in Nat /\ Window \in Nat
    BY <1>1, <2>1, AgeFacts, WireAssumption DEF WireInv, TypeOK, PublishedItems
  <2>6. CASE published[i] <= Window /\ SourceOf[i] \in Enabled(run.commit)
    <3>1. i \in AllOf(run)
      BY <1>1, <2>6 DEF AllOf, Current, Retained
    <3>2. \/ Cardinality(NewerThan(i, Entries(run))) >= Total
          \/ Cardinality(NewerThan(i, Entries(run) \cap ItemsOf(SourceOf[i]))) >= PerSource
      BY <1>1, <2>3, <2>4, <3>1, DroppedForNewer
    <3>. QED  BY <2>4, <3>2 DEF NewerThan
  <2>. QED  BY <2>5, <2>6
<1>2. ASSUME WireInv, [Next]_vars
      PROVE  [Deploy /\ run.loaded =>
                \A i \in site.entries \ site'.entries :
                    \/ published[i] > Window
                    \/ SourceOf[i] \notin Enabled(run.commit)
                    \/ Cardinality({j \in site'.entries : j > i}) >= Total
                    \/ Cardinality({j \in site'.entries \cap ItemsOf(SourceOf[i]) : j > i})
                           >= PerSource]_vars
  BY <1>1, <1>2, Zenon
<1>. QED  BY <1>2, WireInvariant, PTL DEF Spec, NothingLost

============================================================================
