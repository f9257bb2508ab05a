------------------------ MODULE TelegramMediaProofs ------------------------
(* Theorems about TelegramMedia, for any posts, any number of requests to    *)
(* sync, any retention and any bound on the rows and on the crashes.         *)
EXTENDS TelegramMedia, TLAPS

Writing == {"download", "saved", "checked"}

\* What a sync holds: while it writes a file, a name that no row has, with the
\* file in the state its phase says; the scheduler, rows that have expired.
JobHolds(a) ==
    /\ job[a].phase \in Writing =>
          /\ job[a].id \in Ids /\ job[a].post \in Posts
          /\ asset[job[a].id] = None /\ file[job[a].id] # "none"
          /\ job[a].phase # "download" => file[job[a].id] = "final"
    /\ job[a].phase \notin Writing => job[a].id = None
    /\ \A i \in job[a].due : Live(i) /\ asset[i].left = 0
    /\ a # "scheduler" => job[a].due = {}

\* No two syncs write one file.
DistinctNames ==
    \A a, b \in Actors : a # b /\ job[a].id \in Ids => job[b].id # job[a].id

MediaInv ==
    /\ TypeOK
    /\ \A a \in Actors : JobHolds(a)
    /\ DistinctNames
    /\ RowsTellTheFiles
    /\ OrphansHaveACause

-----------------------------------------------------------------------------
LEMMA StoredRow ==
    ASSUME MediaInv, NEW i \in Ids, asset[i] # None
    PROVE  asset[i] \in Assets
  BY DEF MediaInv, TypeOK

LEMMA RowFields ==
    ASSUME NEW row \in Assets
    PROVE  /\ row # None
           /\ row.post \in Posts /\ row.left \in 0 .. Retention /\ row.deleted \in BOOLEAN
  BY MediaAssumption DEF Assets

LEMMA JobFields ==
    ASSUME NEW j \in Jobs
    PROVE  /\ j.phase \in {"idle", "check", "download"} \cup Blocking
           /\ j.todo \subseteq Posts /\ j.post \in Posts \cup {None}
           /\ j.id \in Ids \cup {None}
           /\ j.age \in 0 .. Retention /\ j.due \subseteq Ids
  BY DEF Jobs

LEMMA IdleType == Idle \in Jobs /\ Idle.id = None /\ Idle.phase = "idle" /\ Idle.due = {}
  BY MediaAssumption DEF Idle, Jobs, Ids

LEMMA MediaInitInv == Init => MediaInv
  <1> SUFFICES ASSUME Init PROVE MediaInv
    OBVIOUS
  <1>1. policy \in BOOLEAN
    BY DEF Init
  <1>2. \A a \in Actors : job[a] = Idle
    BY DEF Init
  <1>3. job \in [Actors -> Jobs]
    BY IdleType DEF Init
  <1>4. TypeOK
    BY <1>1, <1>3, MediaAssumption DEF Init, TypeOK
  <1>5. \A a \in Actors : JobHolds(a)
    BY <1>2, IdleType DEF JobHolds, Writing
  <1>6. DistinctNames
    BY <1>2, IdleType, MediaAssumption DEF DistinctNames
  <1>7. RowsTellTheFiles /\ OrphansHaveACause
    BY <1>2, IdleType, MediaAssumption DEF Init, RowsTellTheFiles, OrphansHaveACause, Live
  <1> QED
    BY <1>4, <1>5, <1>6, <1>7 DEF MediaInv

\* A step of one sync that changes neither files, rows nor the name it holds.
LEMMA JobStep ==
    ASSUME MediaInv, NEW a \in Actors, UNCHANGED <<policy, file, asset, orphans, crashes>>,
           job' \in [Actors -> Jobs], \A b \in Actors \ {a} : job'[b] = job[b],
           JobHolds(a)', job'[a].id = job[a].id
    PROVE  MediaInv'
  <1>1. \A b \in Actors : job'[b].id = job[b].id
    OBVIOUS
  <1>2. \A b \in Actors : JobHolds(b)'
    BY DEF MediaInv, JobHolds, Live
  <1>3. TypeOK' /\ DistinctNames' /\ RowsTellTheFiles' /\ OrphansHaveACause'
    BY <1>1 DEF MediaInv, TypeOK, DistinctNames, RowsTellTheFiles, OrphansHaveACause, Live
  <1> QED
    BY <1>2, <1>3 DEF MediaInv

LEMMA PolicyStep ==
    ASSUME MediaInv, SetPolicy
    PROVE  MediaInv'
  BY DEF SetPolicy, MediaInv, TypeOK, JobHolds, DistinctNames, RowsTellTheFiles,
     OrphansHaveACause, Live

\* Time only ages rows: an expired row stays expired.
LEMMA TickStep ==
    ASSUME MediaInv, Tick
    PROVE  MediaInv'
  <1>1. /\ asset' \in [Ids -> Assets \cup {None}]
        /\ \A i \in Ids : (asset[i] = None) <=> (asset'[i] = None)
        /\ \A i \in Ids : asset[i] # None =>
              /\ asset'[i].deleted = asset[i].deleted
              /\ asset[i].left = 0 => asset'[i].left = 0
              /\ asset'[i].left > 0 => asset[i].left > 0
    <2> SUFFICES ASSUME NEW i \in Ids
                 PROVE  /\ asset'[i] \in Assets \cup {None}
                        /\ (asset[i] = None) <=> (asset'[i] = None)
                        /\ asset[i] # None =>
                              /\ asset'[i].deleted = asset[i].deleted
                              /\ asset[i].left = 0 => asset'[i].left = 0
                              /\ asset'[i].left > 0 => asset[i].left > 0
      BY DEF Tick
    <2>1. CASE asset[i] = None
      BY <2>1 DEF Tick
    <2>2. CASE asset[i] # None
      <3>1. asset[i] \in Assets /\ asset[i].left \in 0 .. Retention
        BY <2>2, StoredRow, RowFields
      <3>2. Earlier(asset[i].left) \in 0 .. Retention
        BY <3>1, MediaAssumption DEF Earlier
      <3>3. asset'[i] = [asset[i] EXCEPT !.left = Earlier(asset[i].left)]
        BY <2>2 DEF Tick
      <3>4. /\ asset'[i] \in Assets /\ asset'[i].deleted = asset[i].deleted
            /\ asset'[i].left = Earlier(asset[i].left)
        BY <3>1, <3>2, <3>3 DEF Assets
      <3>5. asset'[i] # None
        BY <3>4, StoredRow, RowFields
      <3> QED
        BY <2>2, <3>1, <3>4, <3>5 DEF Earlier
    <2> QED
      BY <2>1, <2>2
  <1>2. /\ job' \in [Actors -> Jobs]
        /\ \A a \in Actors : /\ job'[a].phase = job[a].phase /\ job'[a].id = job[a].id
                            /\ job'[a].post = job[a].post /\ job'[a].due = job[a].due
    <2> SUFFICES ASSUME NEW a \in Actors
                 PROVE  /\ job'[a] \in Jobs
                        /\ job'[a].phase = job[a].phase /\ job'[a].id = job[a].id
                        /\ job'[a].post = job[a].post /\ job'[a].due = job[a].due
      BY DEF Tick
    <2>1. CASE job[a] = Idle
      BY <2>1, IdleType DEF Tick
    <2>2. CASE job[a] # Idle
      <3>1. job[a] \in Jobs
        BY DEF MediaInv, TypeOK
      <3>2. Older(job[a].age) \in 0 .. Retention
        BY <3>1, JobFields, MediaAssumption DEF Older
      <3>3. job'[a] = [job[a] EXCEPT !.age = Older(job[a].age)]
        BY <2>2 DEF Tick
      <3> QED
        BY <3>1, <3>2, <3>3 DEF Jobs
    <2> QED
      BY <2>1, <2>2
  <1>3. TypeOK'
    BY <1>1, <1>2 DEF Tick, MediaInv, TypeOK
  <1>4. \A a \in Actors : JobHolds(a)'
    <2> SUFFICES ASSUME NEW a \in Actors
                 PROVE  JobHolds(a)'
      OBVIOUS
    <2>1. job[a].due \subseteq Ids /\ JobHolds(a)
      BY JobFields DEF MediaInv, TypeOK
    <2>2. \A i \in job[a].due : Live(i)' /\ asset'[i].left = 0
      BY <1>1, <2>1 DEF JobHolds, Live
    <2> QED
      BY <1>1, <1>2, <2>1, <2>2 DEF Tick, JobHolds
  <1>5. DistinctNames'
    BY <1>2 DEF MediaInv, DistinctNames
  <1>6. RowsTellTheFiles'
    BY <1>1 DEF Tick, MediaInv, RowsTellTheFiles, Live
  <1>7. OrphansHaveACause'
    BY <1>1, <1>2 DEF Tick, MediaInv, OrphansHaveACause
  <1> QED
    BY <1>3, <1>4, <1>5, <1>6, <1>7 DEF MediaInv

-----------------------------------------------------------------------------
LEMMA StartStep ==
    ASSUME MediaInv, NEW a \in Actors, NEW due, due \subseteq Due,
           a # "scheduler" => due = {}, StartSync(a, due)
    PROVE  MediaInv'
  <1>1. PICK todo \in SUBSET Posts :
            job' = [job EXCEPT ![a] = [Idle EXCEPT !.phase = "check", !.todo = todo, !.due = due]]
    BY DEF StartSync
  <1> DEFINE started == [Idle EXCEPT !.phase = "check", !.todo = todo, !.due = due]
  <1>2. /\ started \in Jobs /\ started.phase = "check" /\ started.id = None
        /\ started.due = due
    <2>1. due \subseteq Ids
      BY DEF Due
    <2> QED
      BY <2>1, IdleType DEF Jobs
  <1> HIDE DEF started
  <1>3. /\ job' \in [Actors -> Jobs] /\ job'[a] = started
        /\ \A b \in Actors \ {a} : job'[b] = job[b]
    BY <1>1, <1>2 DEF MediaInv, TypeOK, started
  <1>4. job'[a].id = job[a].id
    BY <1>2, <1>3, IdleType DEF StartSync
  <1>5. UNCHANGED <<policy, file, asset, orphans, crashes>>
    BY DEF StartSync
  <1>6. JobHolds(a)'
    BY <1>2, <1>3, <1>5 DEF JobHolds, Writing, Due, Live
  <1> QED
    BY <1>3, <1>4, <1>5, <1>6, JobStep

\* Steps of the loop over the candidates that leave them or end the sync.
LEMMA LoopSteps ==
    ASSUME MediaInv, NEW a \in Actors,
           \/ StopAtPolicy(a) \/ LookupFails(a)
           \/ \E p \in job[a].todo : SkipPost(a, p)
           \/ EndSync(a)
    PROVE  MediaInv'
  <1>1. job[a] \in Jobs /\ JobHolds(a) /\ job[a].phase = "check" /\ job[a].id = None
    BY DEF MediaInv, TypeOK, StopAtPolicy, LookupFails, SkipPost, EndSync, Checking,
       JobHolds, Writing
  <1>2. UNCHANGED <<policy, file, asset, orphans, crashes>>
    BY DEF StopAtPolicy, LookupFails, SkipPost, EndSync
  <1>3. PICK next : job' = [job EXCEPT ![a] = next] /\ next \in Jobs
                    /\ next.phase \notin Writing /\ next.id = None
                    /\ next.due \in {{}, job[a].due}
    <2>1. CASE StopAtPolicy(a) \/ LookupFails(a)
      <3>1. job' = [job EXCEPT ![a] = [job[a] EXCEPT !.todo = {}]]
        BY <2>1 DEF StopAtPolicy, LookupFails
      <3>2. LET next == [job[a] EXCEPT !.todo = {}]
            IN  next \in Jobs /\ next.phase \notin Writing /\ next.id = None
                /\ next.due = job[a].due
        BY <1>1 DEF Jobs, Writing
      <3> QED
        BY <3>1, <3>2
    <2>2. CASE \E p \in job[a].todo : SkipPost(a, p)
      <3>1. PICK p \in job[a].todo : SkipPost(a, p)
        BY <2>2
      <3>2. job' = [job EXCEPT ![a] = [job[a] EXCEPT !.todo = job[a].todo \ {p}]]
        BY <3>1 DEF SkipPost
      <3>3. LET next == [job[a] EXCEPT !.todo = job[a].todo \ {p}]
            IN  next \in Jobs /\ next.phase \notin Writing /\ next.id = None
                /\ next.due = job[a].due
        BY <1>1 DEF Jobs, Writing
      <3> QED
        BY <3>2, <3>3
    <2>3. CASE EndSync(a)
      <3>1. job' = [job EXCEPT ![a] = IF a = "scheduler" THEN [job[a] EXCEPT !.phase = "purge"]
                                      ELSE Idle]
        BY <2>3 DEF EndSync
      <3>2. LET next == [job[a] EXCEPT !.phase = "purge"]
            IN  next \in Jobs /\ next.phase \notin Writing /\ next.id = None
                /\ next.due = job[a].due
        BY <1>1 DEF Jobs, Writing, Blocking
      <3>3. Idle \in Jobs /\ Idle.phase \notin Writing /\ Idle.id = None /\ Idle.due = {}
        BY IdleType DEF Writing
      <3> QED
        BY <3>1, <3>2, <3>3
    <2> QED
      BY <2>1, <2>2, <2>3
  <1>4. /\ job' \in [Actors -> Jobs] /\ job'[a] = next
        /\ \A b \in Actors \ {a} : job'[b] = job[b]
    BY <1>3 DEF MediaInv, TypeOK
  <1>5. JobHolds(a)'
    BY <1>1, <1>2, <1>3, <1>4 DEF JobHolds, Live
  <1> QED
    BY <1>1, <1>2, <1>3, <1>4, <1>5, JobStep

\* A download takes a name that no file and no row has, hence no other sync.
LEMMA StartDownloadStep ==
    ASSUME MediaInv, NEW a \in Actors, NEW p \in job[a].todo, StartDownload(a, p)
    PROVE  MediaInv'
  <1> DEFINE id == CHOOSE i \in Free : TRUE
             next == [job[a] EXCEPT !.phase = "download", !.todo = job[a].todo \ {p},
                                    !.post = p, !.id = id]
  <1>1. id \in Ids /\ asset[id] = None /\ file[id] = "none"
    BY DEF StartDownload, Free
  <1>2. job[a] \in Jobs /\ JobHolds(a) /\ p \in Posts
    BY JobFields DEF MediaInv, TypeOK
  <1>3. /\ file' = [file EXCEPT ![id] = "pending"]
        /\ job' = [job EXCEPT ![a] = next]
        /\ UNCHANGED <<policy, asset, orphans, crashes>>
    BY DEF StartDownload
  <1> HIDE DEF id
  <1>4. /\ next \in Jobs /\ next.phase = "download" /\ next.id = id /\ next.post = p
        /\ next.due = job[a].due
    BY <1>1, <1>2 DEF Jobs
  <1> HIDE DEF next
  <1>5. /\ job' \in [Actors -> Jobs] /\ job'[a] = next
        /\ \A b \in Actors \ {a} : job'[b] = job[b]
    BY <1>3, <1>4 DEF MediaInv, TypeOK
  <1>6. /\ file' \in [Ids -> {"none", "pending", "final"}]
        /\ file'[id] = "pending"
        /\ \A i \in Ids \ {id} : file'[i] = file[i]
    BY <1>1, <1>3 DEF MediaInv, TypeOK
  <1>7. \A b \in Actors \ {a} : job[b].id # id
    BY <1>1, MediaAssumption DEF MediaInv, JobHolds, Writing
  <1>8. \A b \in Actors : JobHolds(b)'
    <2> SUFFICES ASSUME NEW b \in Actors
                 PROVE  JobHolds(b)'
      OBVIOUS
    <2>1. CASE b = a
      BY <1>1, <1>2, <1>3, <1>4, <1>5, <1>6, <2>1 DEF JobHolds, Writing, Live
    <2>2. CASE b # a
      BY <1>3, <1>5, <1>6, <1>7, <2>2 DEF MediaInv, JobHolds, Live
    <2> QED
      BY <2>1, <2>2
  <1>9. TypeOK'
    BY <1>3, <1>5, <1>6 DEF MediaInv, TypeOK
  <1>10. DistinctNames'
    BY <1>1, <1>4, <1>5, <1>7 DEF MediaInv, DistinctNames
  <1>11. RowsTellTheFiles'
    BY <1>1, <1>3, <1>6 DEF MediaInv, RowsTellTheFiles, Live
  <1>12. OrphansHaveACause'
    <2>1. job[a].id = None /\ id \notin orphans
      BY <1>1, <1>2 DEF StartDownload, Checking, JobHolds, Writing, MediaInv, OrphansHaveACause
    <2>2. ASSUME NEW i \in Ids
          PROVE  file'[i] # "none" /\ asset'[i] = None
                    <=> i \in orphans' \/ \E b \in Actors : job'[b].id = i
      <3>1. CASE i = id
        BY <1>1, <1>3, <1>4, <1>5, <1>6, <3>1
      <3>2. CASE i # id
        <4>1. \A b \in Actors : job'[b].id = i <=> job[b].id = i
          BY <1>4, <1>5, <2>1, <3>2, MediaAssumption
        <4> QED
          BY <1>3, <1>6, <3>2, <4>1 DEF MediaInv, OrphansHaveACause
      <3> QED
        BY <3>1, <3>2
    <2>3. \A b \in Actors : job'[b].id \notin orphans'
      BY <1>3, <1>4, <1>5, <2>1 DEF MediaInv, OrphansHaveACause
    <2> QED
      BY <2>2, <2>3 DEF OrphansHaveACause
  <1> QED
    BY <1>8, <1>9, <1>10, <1>11, <1>12 DEF MediaInv

\* A step that ends a download: the job holds no file from then on.
Releases(a) ==
    /\ job' \in [Actors -> Jobs]
    /\ job'[a].phase = "check" /\ job'[a].id = None /\ job'[a].due = job[a].due
    /\ \A b \in Actors \ {a} : job'[b] = job[b]

LEMMA ContinueEffect ==
    ASSUME MediaInv, NEW a \in Actors, Continue(a)
    PROVE  Releases(a)
  <1> DEFINE next == [job[a] EXCEPT !.phase = "check", !.post = None, !.id = None]
  <1>1. job[a] \in Jobs
    BY DEF MediaInv, TypeOK
  <1>2. next \in Jobs /\ next.phase = "check" /\ next.id = None /\ next.due = job[a].due
    BY <1>1 DEF Jobs
  <1>3. job' = [job EXCEPT ![a] = next]
    BY DEF Continue
  <1> HIDE DEF next
  <1> QED
    BY <1>2, <1>3 DEF MediaInv, TypeOK, Releases

\* What becomes of the file a sync lets go of: it is gone, it has a row, or it
\* is left behind.
Outcome(i) ==
    \/ file'[i] = "none" /\ asset'[i] = None /\ orphans' = orphans
    \/ /\ file'[i] = "final" /\ asset'[i] # None /\ ~asset'[i].deleted
       /\ orphans' = orphans
    \/ file'[i] # "none" /\ asset'[i] = None /\ orphans' = orphans \cup {i}

LEMMA LetGoStep ==
    ASSUME MediaInv, NEW a \in Actors, job[a].phase \in Writing, Releases(a),
           UNCHANGED <<policy, crashes>>,
           file' \in [Ids -> {"none", "pending", "final"}],
           asset' \in [Ids -> Assets \cup {None}],
           \A i \in Ids \ {job[a].id} : file'[i] = file[i] /\ asset'[i] = asset[i],
           Outcome(job[a].id)
    PROVE  MediaInv'
  <1> DEFINE id == job[a].id
  <1>1. JobHolds(a) /\ id \in Ids /\ asset[id] = None /\ file[id] # "none"
    BY DEF MediaInv, JobHolds
  <1>2. /\ job' \in [Actors -> Jobs]
        /\ job'[a].phase = "check" /\ job'[a].id = None /\ job'[a].due = job[a].due
        /\ \A b \in Actors \ {a} : job'[b] = job[b]
    BY DEF Releases
  <1>3. \A b \in Actors \ {a} : job[b].id # id
    BY <1>1 DEF MediaInv, DistinctNames
  <1>4. \A b \in Actors : job[b].due \subseteq Ids /\ id \notin job[b].due
    BY <1>1, JobFields DEF MediaInv, TypeOK, JobHolds, Live
  <1>5. \A b \in Actors : JobHolds(b)'
    <2> SUFFICES ASSUME NEW b \in Actors
                 PROVE  JobHolds(b)'
      OBVIOUS
    <2>1. \A i \in job[b].due : Live(i)' /\ asset'[i].left = 0
      BY <1>4 DEF MediaInv, JobHolds, Live
    <2>2. CASE b = a
      BY <1>1, <1>2, <2>1, <2>2 DEF JobHolds, Writing
    <2>3. CASE b # a
      BY <1>2, <1>3, <2>1, <2>3 DEF MediaInv, JobHolds
    <2> QED
      BY <2>2, <2>3
  <1>6. TypeOK'
    <2>1. orphans' \subseteq Ids
      BY <1>1 DEF MediaInv, TypeOK, Outcome
    <2> QED
      BY <1>2, <2>1 DEF MediaInv, TypeOK
  <1>7. DistinctNames'
    BY <1>2, MediaAssumption DEF MediaInv, DistinctNames
  <1>8. RowsTellTheFiles'
    BY DEF MediaInv, RowsTellTheFiles, Live, Outcome
  <1>9. OrphansHaveACause'
    <2>1. id \notin orphans /\ None \notin orphans'
      BY <1>1, <1>6, MediaAssumption DEF MediaInv, OrphansHaveACause, TypeOK
    <2>2. ASSUME NEW i \in Ids
          PROVE  file'[i] # "none" /\ asset'[i] = None
                    <=> i \in orphans' \/ \E b \in Actors : job'[b].id = i
      <3>1. CASE i = id
        <4>1. ~\E b \in Actors : job'[b].id = i
          BY <1>1, <1>2, <1>3, <3>1, MediaAssumption
        <4> QED
          BY <2>1, <3>1, <4>1 DEF Outcome
      <3>2. CASE i # id
        <4>1. \A b \in Actors : job'[b].id = i <=> job[b].id = i
          BY <1>2, <3>2, MediaAssumption
        <4>2. file'[i] = file[i] /\ asset'[i] = asset[i] /\ (i \in orphans' <=> i \in orphans)
          BY <3>2 DEF Outcome
        <4> QED
          BY <4>1, <4>2 DEF MediaInv, OrphansHaveACause
      <3> QED
        BY <3>1, <3>2
    <2>3. \A b \in Actors : job'[b].id \notin orphans'
      <3> SUFFICES ASSUME NEW b \in Actors
                   PROVE  job'[b].id \notin orphans'
        OBVIOUS
      <3>1. CASE b = a
        BY <1>2, <2>1, <3>1
      <3>2. CASE b # a
        BY <1>2, <1>3, <3>2 DEF MediaInv, OrphansHaveACause, Outcome
      <3> QED
        BY <3>1, <3>2
    <2> QED
      BY <2>2, <2>3 DEF OrphansHaveACause
  <1> QED
    BY <1>5, <1>6, <1>7, <1>8, <1>9 DEF MediaInv

LEMMA DiscardStep ==
    ASSUME MediaInv, NEW a \in Actors, job[a].phase \in Writing, Discard(a)
    PROVE  MediaInv'
  <1>1. job[a].id \in Ids /\ asset[job[a].id] = None
    BY DEF MediaInv, JobHolds
  <1>2. /\ file' = [file EXCEPT ![job[a].id] = "none"] /\ Releases(a)
        /\ UNCHANGED <<policy, asset, orphans, crashes>>
    BY ContinueEffect DEF Discard, Unlink
  <1>3. file' \in [Ids -> {"none", "pending", "final"}]
        /\ file'[job[a].id] = "none" /\ \A i \in Ids \ {job[a].id} : file'[i] = file[i]
    BY <1>1, <1>2 DEF MediaInv, TypeOK
  <1> QED
    BY <1>1, <1>2, <1>3, LetGoStep DEF MediaInv, TypeOK, Outcome

\* An unlink that fails, whether or not it also ends the sync.
LEMMA LeaveBehindStep ==
    ASSUME MediaInv, NEW a \in Actors, job[a].phase \in Writing, LeaveBehind(a), Releases(a)
    PROVE  MediaInv'
  <1>1. asset[job[a].id] = None /\ file[job[a].id] # "none"
    BY DEF MediaInv, JobHolds
  <1>2. UNCHANGED <<policy, file, asset, crashes>> /\ orphans' = orphans \cup {job[a].id}
    BY DEF LeaveBehind
  <1> QED
    BY <1>1, <1>2, LetGoStep DEF MediaInv, TypeOK, Outcome

LEMMA DiscardPendingStep ==
    ASSUME MediaInv, NEW a \in Actors, job[a].phase \in Writing, DiscardPending(a)
    PROVE  MediaInv'
  BY DiscardStep, LeaveBehindStep, ContinueEffect DEF DiscardPending

LEMMA DiscardFinalStep ==
    ASSUME MediaInv, NEW a \in Actors, job[a].phase \in Writing, DiscardFinal(a)
    PROVE  MediaInv'
  <1>1. CASE Discard(a)
    BY <1>1, DiscardStep
  <1>2. CASE ~Discard(a)
    <2> DEFINE next == [job[a] EXCEPT !.phase = "check", !.todo = {},
                                      !.post = None, !.id = None]
    <2>1. LeaveBehind(a) /\ job' = [job EXCEPT ![a] = next]
      BY <1>2 DEF DiscardFinal
    <2>2. job[a] \in Jobs
      BY DEF MediaInv, TypeOK
    <2>3. next \in Jobs /\ next.phase = "check" /\ next.id = None /\ next.due = job[a].due
      BY <2>2 DEF Jobs
    <2> HIDE DEF next
    <2>4. Releases(a)
      BY <2>1, <2>3 DEF MediaInv, TypeOK, Releases
    <2> QED
      BY <2>1, <2>4, LeaveBehindStep
  <1> QED
    BY <1>1, <1>2

LEMMA SavedInVainStep ==
    ASSUME MediaInv, NEW a \in Actors, SavedInVain(a)
    PROVE  MediaInv'
  <1>1. job[a].phase \in Writing
    BY DEF SavedInVain, Writing
  <1>2. job[a].id \in Ids /\ asset[job[a].id] = None
    BY <1>1 DEF MediaInv, JobHolds
  <1>3. /\ file' = [file EXCEPT ![job[a].id] = "final"] /\ Releases(a)
        /\ orphans' = orphans \cup {job[a].id} /\ UNCHANGED <<policy, asset, crashes>>
    BY ContinueEffect DEF SavedInVain
  <1>4. file' \in [Ids -> {"none", "pending", "final"}]
        /\ file'[job[a].id] = "final" /\ \A i \in Ids \ {job[a].id} : file'[i] = file[i]
    BY <1>2, <1>3 DEF MediaInv, TypeOK
  <1> QED
    BY <1>1, <1>2, <1>3, <1>4, LetGoStep DEF MediaInv, TypeOK, Outcome

LEMMA CommitStep ==
    ASSUME MediaInv, NEW a \in Actors, CommitAsset(a)
    PROVE  MediaInv'
  <1> DEFINE row == [post |-> job[a].post, left |-> Left(job[a].age), deleted |-> FALSE]
  <1>1. /\ job[a].phase \in Writing /\ job[a].id \in Ids /\ job[a].post \in Posts
        /\ file[job[a].id] = "final"
    BY DEF CommitAsset, MediaInv, JobHolds, Writing
  <1>2. Left(job[a].age) \in 0 .. Retention
    BY JobFields, MediaAssumption DEF MediaInv, TypeOK, Left
  <1>3. row \in Assets /\ row # None /\ ~row.deleted
    BY <1>1, <1>2, RowFields DEF Assets
  <1>4. /\ asset' = [asset EXCEPT ![job[a].id] = row] /\ Releases(a)
        /\ UNCHANGED <<policy, file, orphans, crashes>>
    BY ContinueEffect DEF CommitAsset
  <1> HIDE DEF row
  <1>5. asset' \in [Ids -> Assets \cup {None}]
        /\ asset'[job[a].id] = row /\ \A i \in Ids \ {job[a].id} : asset'[i] = asset[i]
    BY <1>1, <1>3, <1>4 DEF MediaInv, TypeOK
  <1> QED
    BY <1>1, <1>3, <1>4, <1>5, LetGoStep DEF MediaInv, TypeOK, Outcome

LEMMA SaveStep ==
    ASSUME MediaInv, NEW a \in Actors, Save(a)
    PROVE  MediaInv'
  <1> DEFINE id == job[a].id
             next == [job[a] EXCEPT !.phase = "saved"]
  <1>1. job[a] \in Jobs /\ JobHolds(a) /\ id \in Ids /\ asset[id] = None
        /\ job[a].post \in Posts /\ job[a].phase = "download"
    BY DEF Save, MediaInv, TypeOK, JobHolds, Writing
  <1>2. /\ next \in Jobs /\ next.phase = "saved" /\ next.id = id
        /\ next.post = job[a].post /\ next.due = job[a].due
    BY <1>1 DEF Jobs, Blocking
  <1>3. /\ file' = [file EXCEPT ![id] = "final"] /\ job' = [job EXCEPT ![a] = next]
        /\ UNCHANGED <<policy, asset, orphans, crashes>>
    BY DEF Save
  <1> HIDE DEF id, next
  <1>4. /\ job' \in [Actors -> Jobs] /\ job'[a] = next
        /\ \A b \in Actors \ {a} : job'[b] = job[b]
    BY <1>2, <1>3 DEF MediaInv, TypeOK
  <1>5. /\ file' \in [Ids -> {"none", "pending", "final"}]
        /\ file'[id] = "final" /\ \A i \in Ids \ {id} : file'[i] = file[i]
    BY <1>1, <1>3 DEF MediaInv, TypeOK
  <1>6. \A b \in Actors : JobHolds(b)'
    <2> SUFFICES ASSUME NEW b \in Actors
                 PROVE  JobHolds(b)'
      OBVIOUS
    <2>1. CASE b = a
      BY <1>1, <1>2, <1>3, <1>4, <1>5, <2>1 DEF JobHolds, Writing, Live
    <2>2. CASE b # a
      <3>1. job[b].id # id
        BY <1>1, <2>2 DEF MediaInv, DistinctNames, id
      <3> QED
        BY <1>3, <1>4, <1>5, <2>2, <3>1 DEF MediaInv, JobHolds, Live
    <2> QED
      BY <2>1, <2>2
  <1>7. \A b \in Actors : job'[b].id = job[b].id
    BY <1>2, <1>4 DEF id
  <1>8. TypeOK' /\ DistinctNames' /\ RowsTellTheFiles' /\ OrphansHaveACause'
    <2>1. TypeOK' /\ DistinctNames'
      BY <1>3, <1>4, <1>5, <1>7 DEF MediaInv, TypeOK, DistinctNames
    <2>2. RowsTellTheFiles'
      BY <1>1, <1>3, <1>5 DEF MediaInv, RowsTellTheFiles, Live
    <2>3. OrphansHaveACause'
      <3>1. job'[a].id = id
        BY <1>2, <1>4
      <3> QED
        BY <1>1, <1>3, <1>5, <1>7, <3>1 DEF MediaInv, OrphansHaveACause, JobHolds, Writing, id
    <2> QED
      BY <2>1, <2>2, <2>3
  <1> QED
    BY <1>6, <1>8 DEF MediaInv

LEMMA RecheckStep ==
    ASSUME MediaInv, NEW a \in Actors, Recheck(a)
    PROVE  MediaInv'
  <1>1. job[a].phase = "saved" /\ job[a].phase \in Writing
    BY DEF Recheck, Writing
  <1>2. CASE policy
    <2> DEFINE next == [job[a] EXCEPT !.phase = "checked"]
    <2>1. job[a] \in Jobs /\ JobHolds(a)
      BY DEF MediaInv, TypeOK
    <2>2. /\ next \in Jobs /\ next.phase = "checked" /\ next.id = job[a].id
          /\ next.post = job[a].post /\ next.due = job[a].due
      BY <2>1 DEF Jobs, Blocking
    <2>3. job' = [job EXCEPT ![a] = next] /\ UNCHANGED <<policy, file, asset, orphans, crashes>>
      BY <1>2 DEF Recheck
    <2> HIDE DEF next
    <2>4. /\ job' \in [Actors -> Jobs] /\ job'[a] = next
          /\ \A b \in Actors \ {a} : job'[b] = job[b]
      BY <2>2, <2>3 DEF MediaInv, TypeOK
    <2>5. JobHolds(a)'
      BY <1>1, <2>1, <2>2, <2>3, <2>4 DEF JobHolds, Writing, Live
    <2> QED
      BY <2>2, <2>3, <2>4, <2>5, JobStep
  <1>3. CASE ~policy
    BY <1>1, <1>3, DiscardFinalStep DEF Recheck
  <1> QED
    BY <1>2, <1>3

LEMMA SyncStep ==
    ASSUME MediaInv, NEW a \in Actors, Sync(a)
    PROVE  MediaInv'
  <1>1. CASE DownloadFails(a)
    BY <1>1, DiscardPendingStep DEF DownloadFails, Writing
  <1>2. CASE CommitFails(a)
    BY <1>2, DiscardFinalStep DEF CommitFails, Writing
  <1>3. CASE \E p \in job[a].todo : StartDownload(a, p)
    BY <1>3, StartDownloadStep
  <1>4. CASE \/ StopAtPolicy(a) \/ LookupFails(a) \/ EndSync(a)
             \/ \E p \in job[a].todo : SkipPost(a, p)
    BY <1>4, LoopSteps
  <1> QED
    BY <1>1, <1>2, <1>3, <1>4, SaveStep, SavedInVainStep, RecheckStep, CommitStep
       DEF Sync, Download

-----------------------------------------------------------------------------
\* The purge unlinks files of expired rows only, and marks the rows when all
\* of those files are gone.
LEMMA PurgeSteps ==
    ASSUME MediaInv, PurgeFiles \/ PurgeCommit \/ PurgeFails
    PROVE  MediaInv'
  <1> DEFINE s == "scheduler"
             due == job[s].due
  <1>1. /\ s \in Actors /\ job[s] \in Jobs /\ due \subseteq Ids /\ job[s].id = None
        /\ \A i \in due : asset[i] \in Assets /\ ~asset[i].deleted /\ asset[i].left = 0
        /\ \A b \in Actors \ {s} : job[b].due = {}
    <2>1. s \in Actors /\ job[s] \in Jobs /\ JobHolds(s)
      BY DEF MediaInv, TypeOK, Actors
    <2>2. job[s].phase = "purge"
      BY DEF PurgeFiles, PurgeFile, PurgeCommit, PurgeFails, Purging
    <2>3. due \subseteq Ids
      BY <2>1, JobFields
    <2> QED
      BY <2>1, <2>2, <2>3, StoredRow DEF MediaInv, JobHolds, Writing, Live
  <1> HIDE DEF due
  <1>2. ASSUME NEW i \in Ids, PurgeFile(i)
        PROVE  MediaInv'
    <2>1. i \in due /\ asset[i] # None /\ asset[i].left = 0
      BY <1>1, <1>2, RowFields DEF PurgeFile, due
    <2>2. /\ file' = [file EXCEPT ![i] = "none"]
          /\ UNCHANGED <<policy, asset, job, orphans, crashes>>
      BY <1>2 DEF PurgeFile, Unlink
    <2>3. file' \in [Ids -> {"none", "pending", "final"}] /\ file'[i] = "none"
          /\ \A k \in Ids \ {i} : file'[k] = file[k]
      BY <2>2 DEF MediaInv, TypeOK
    <2>4. \A b \in Actors : JobHolds(b)'
      BY <2>1, <2>2, <2>3 DEF MediaInv, JobHolds, Live
    <2>5. RowsTellTheFiles'
      BY <2>1, <2>2, <2>3 DEF MediaInv, RowsTellTheFiles, Live
    <2> QED
      BY <2>1, <2>2, <2>3, <2>4, <2>5
         DEF MediaInv, TypeOK, DistinctNames, OrphansHaveACause
  <1>3. CASE PurgeFails
    <2>1. job' = [job EXCEPT ![s] = Idle] /\ UNCHANGED <<policy, file, asset, orphans, crashes>>
      BY <1>3 DEF PurgeFails
    <2>2. job' \in [Actors -> Jobs] /\ job'[s] = Idle
          /\ \A b \in Actors \ {s} : job'[b] = job[b]
      BY <1>1, <2>1, IdleType DEF MediaInv, TypeOK
    <2>3. JobHolds(s)'
      BY <2>2, IdleType DEF JobHolds, Writing
    <2> QED
      BY <1>1, <2>1, <2>2, <2>3, IdleType, JobStep
  <1>4. CASE PurgeCommit
    <2>1. /\ asset' = [i \in Ids |-> IF i \in due THEN [asset[i] EXCEPT !.deleted = TRUE]
                                     ELSE asset[i]]
          /\ job' = [job EXCEPT ![s] = Idle]
          /\ UNCHANGED <<policy, file, orphans, crashes>>
          /\ \A i \in due : file[i] = "none"
      BY <1>4 DEF PurgeCommit, due
    <2>2. \A i \in due : asset'[i] \in Assets /\ asset'[i].deleted
      BY <1>1, <2>1 DEF Assets
    <2>3. /\ asset' \in [Ids -> Assets \cup {None}]
          /\ \A i \in Ids \ due : asset'[i] = asset[i]
          /\ \A i \in Ids : (asset[i] = None) <=> (asset'[i] = None)
      BY <1>1, <2>1, <2>2, RowFields DEF MediaInv, TypeOK
    <2>4. job' \in [Actors -> Jobs] /\ job'[s] = Idle
          /\ \A b \in Actors \ {s} : job'[b] = job[b]
      BY <1>1, <2>1, IdleType DEF MediaInv, TypeOK
    <2>5. \A b \in Actors : job'[b].id = job[b].id
      BY <1>1, <2>4, IdleType
    <2>6. \A b \in Actors : JobHolds(b)'
      <3> SUFFICES ASSUME NEW b \in Actors
                   PROVE  JobHolds(b)'
        OBVIOUS
      <3>1. CASE b = s
        BY <2>4, <3>1, IdleType DEF JobHolds, Writing
      <3>2. CASE b # s
        BY <1>1, <2>1, <2>3, <2>4, <3>2 DEF MediaInv, JobHolds
      <3> QED
        BY <3>1, <3>2
    <2>7. TypeOK'
      BY <2>1, <2>3, <2>4 DEF MediaInv, TypeOK
    <2>8. DistinctNames' /\ OrphansHaveACause'
      BY <2>1, <2>3, <2>5 DEF MediaInv, DistinctNames, OrphansHaveACause
    <2>9. RowsTellTheFiles'
      BY <2>1, <2>2, <2>3 DEF MediaInv, RowsTellTheFiles, Live
    <2> QED
      BY <2>6, <2>7, <2>8, <2>9 DEF MediaInv
  <1> QED
    BY <1>2, <1>3, <1>4 DEF PurgeFiles

\* The files a crash cuts are remembered as orphans; no job is left.
LEMMA CrashStep ==
    ASSUME MediaInv, Crash
    PROVE  MediaInv'
  <1>1. /\ job' \in [Actors -> Jobs] /\ \A a \in Actors : job'[a] = Idle
        /\ UNCHANGED <<policy, file, asset>>
    BY IdleType DEF Crash
  <1>2. /\ crashes' \in 0 .. MaxCrashes
        /\ orphans' = orphans \cup {i \in Ids : \E a \in Actors : job[a].id = i}
    BY MediaAssumption DEF Crash, MediaInv, TypeOK
  <1>3. TypeOK'
    BY <1>1, <1>2 DEF MediaInv, TypeOK
  <1>4. (\A a \in Actors : JobHolds(a)') /\ DistinctNames'
    BY <1>1, IdleType, MediaAssumption DEF JobHolds, DistinctNames, Writing
  <1>5. RowsTellTheFiles'
    BY <1>1 DEF MediaInv, RowsTellTheFiles, Live
  <1>6. OrphansHaveACause'
    <2>1. \A a \in Actors : job'[a].id = None
      BY <1>1, IdleType
    <2>2. None \notin orphans' /\ None \notin Ids
      BY <1>3, MediaAssumption DEF TypeOK
    <2> QED
      BY <1>1, <1>2, <2>1, <2>2 DEF MediaInv, OrphansHaveACause
  <1> QED
    BY <1>3, <1>4, <1>5, <1>6 DEF MediaInv

-----------------------------------------------------------------------------
LEMMA MediaStep == MediaInv /\ [Next]_vars => MediaInv'
  <1> SUFFICES ASSUME MediaInv, [Next]_vars
               PROVE  MediaInv'
    OBVIOUS
  <1>1. CASE Wake
    BY <1>1, StartStep DEF Wake, Actors
  <1>2. ASSUME NEW h \in Handlers, ManualSync(h)
        PROVE  MediaInv'
    BY <1>2, StartStep DEF ManualSync, Actors
  <1>3. CASE UNCHANGED vars
    BY <1>3 DEF vars, MediaInv, TypeOK, JobHolds, DistinctNames, RowsTellTheFiles,
       OrphansHaveACause, Live
  <1> QED
    BY <1>1, <1>2, <1>3, PolicyStep, TickStep, SyncStep, PurgeSteps, CrashStep DEF Next

\* The strengthened invariant holds in every reachable state.
THEOREM MediaInvariant == Spec => []MediaInv
  BY MediaInitInv, MediaStep, PTL DEF Spec

\* The policy, the files, the rows and the jobs keep their types.
THEOREM MediaTypes == Spec => []TypeOK
  BY MediaInvariant, PTL DEF MediaInv

\* A row marked deleted has no file, and one that has not expired has it whole.
THEOREM RowsAndFilesAgree == Spec => []RowsTellTheFiles
  BY MediaInvariant, PTL DEF MediaInv

\* A file that no row names is being written, was at a crash, or is one whose
\* unlink failed; and no such file is ever written or given a row again.
THEOREM OrphansAreAccountedFor == Spec => []OrphansHaveACause
  BY MediaInvariant, PTL DEF MediaInv
=============================================================================
