------------------------ MODULE SourceRegistryProofs ------------------------
(***************************************************************************)
(* Proofs about CandidateReview and SourceRegistry, for any links, channels *)
(* and feeds and any number of request threads and syncs: the review by    *)
(* itself, the register, and the register as a refinement of the review.   *)
(***************************************************************************)
EXTENDS SourceRegistry, TLAPS

\* A review in progress has loaded a row, and a candidate never goes back to
\* pending: the decision it has loaded is still followed by some decision.
LoadedStatus ==
    \A h \in Handlers : req[h].op = "review" =>
        /\ status[req[h].candidate] # None
        /\ req[h].loaded \in Decisions => status[req[h].candidate] \in Decisions

CandidateInv == TypeOK /\ LoadedStatus /\ StatusWasDecided

-----------------------------------------------------------------------------
LEMMA RequestTypes ==
    ASSUME NEW r \in Requests
    PROVE  /\ r.op = "create" => r.candidate \in Urls
           /\ r.op = "review" => /\ r.candidate \in Urls
                                 /\ r.loaded \in Statuses
                                 /\ r.decision \in Decisions
  BY DEF Requests, Idle

LEMMA StatusTypes ==
    /\ Decisions \subseteq Statuses
    /\ None \notin Statuses
    /\ "pending" \in Statuses /\ "pending" \notin Decisions
  BY CandidateAssumption DEF Statuses, Decisions

LEMMA InitInv == Init => CandidateInv
  <1> SUFFICES ASSUME Init PROVE CandidateInv
    OBVIOUS
  <1>1. TypeOK /\ LoadedStatus
    BY DEF Init, TypeOK, LoadedStatus, Requests, Idle
  <1>2. \A u \in Urls : ReviewsOf(u) = {} /\ status[u] = None
    BY DEF Init, ReviewsOf
  <1>3. StatusWasDecided
    BY <1>2, StatusTypes DEF StatusWasDecided
  <1> QED
    BY <1>1, <1>3 DEF CandidateInv

\* A step that stores no review and leaves what is loaded of a status valid.
LEMMA NoReviewStep ==
    ASSUME CandidateInv, UNCHANGED <<reviews, audit>>,
           status' \in [Urls -> Statuses \cup {None}],
           \A u \in Urls : \/ status'[u] = status[u]
                           \/ (status[u] = None /\ status'[u] = "pending"),
           req' \in [Handlers -> Requests], LoadedStatus'
    PROVE  CandidateInv'
  <1>1. TypeOK'
    BY DEF CandidateInv, TypeOK
  <1>2. \A u \in Urls : ReviewsOf(u)' = ReviewsOf(u)
    BY DEF ReviewsOf
  <1>3. StatusWasDecided'
    BY <1>2, StatusTypes DEF CandidateInv, StatusWasDecided
  <1> QED
    BY <1>1, <1>3 DEF CandidateInv

LEMMA LoadSteps ==
    ASSUME CandidateInv, NEW h \in Handlers, NEW u \in Urls, NEW decision \in Decisions,
           CreateLoad(h, u) \/ ReviewLoad(h, u, decision)
    PROVE  CandidateInv'
  <1>1. UNCHANGED <<status, reviews, audit>>
    BY DEF CreateLoad, ReviewLoad
  <1>2. req' \in [Handlers -> Requests]
    BY DEF CreateLoad, ReviewLoad, Begin, CandidateInv, TypeOK, Requests
  <1>3. LoadedStatus'
    BY DEF CreateLoad, ReviewLoad, Begin, CandidateInv, TypeOK, LoadedStatus
  <1> QED
    BY <1>1, <1>2, <1>3, NoReviewStep DEF CandidateInv, TypeOK

LEMMA CreateCommitStep ==
    ASSUME CandidateInv, NEW h \in Handlers, CreateCommit(h)
    PROVE  CandidateInv'
  <1>1. req[h].candidate \in Urls
    BY RequestTypes DEF CreateCommit, CandidateInv, TypeOK
  <1>2. req' \in [Handlers -> Requests]
    BY DEF CreateCommit, Finish, CandidateInv, TypeOK, Requests
  <1>3. /\ status' \in [Urls -> Statuses \cup {None}]
        /\ \A u \in Urls : \/ status'[u] = status[u]
                           \/ (status[u] = None /\ status'[u] = "pending")
    BY <1>1, StatusTypes DEF CreateCommit, CandidateInv, TypeOK
  <1>4. LoadedStatus'
    <2> SUFFICES ASSUME NEW k \in Handlers, req'[k].op = "review"
                 PROVE  /\ status'[req'[k].candidate] # None
                        /\ req'[k].loaded \in Decisions =>
                              status'[req'[k].candidate] \in Decisions
      BY DEF LoadedStatus
    <2>1. req'[k] = req[k] /\ req[k].candidate \in Urls
      BY RequestTypes DEF CreateCommit, Finish, CandidateInv, TypeOK, Idle
    <2>2. status[req[k].candidate] # None
      BY <2>1 DEF CandidateInv, LoadedStatus
    <2>3. status'[req[k].candidate] = status[req[k].candidate]
      BY <1>3, <2>1, <2>2
    <2> QED
      BY <2>1, <2>2, <2>3 DEF CandidateInv, LoadedStatus
  <1> QED
    BY <1>2, <1>3, <1>4, NoReviewStep DEF CreateCommit

LEMMA FailStep ==
    ASSUME CandidateInv, NEW h \in Handlers, Fail(h)
    PROVE  CandidateInv'
  <1>1. req' \in [Handlers -> Requests]
    BY DEF Fail, Finish, CandidateInv, TypeOK, Requests
  <1>2. LoadedStatus'
    BY DEF Fail, Finish, CandidateInv, TypeOK, LoadedStatus, Idle
  <1> QED
    BY <1>1, <1>2, NoReviewStep DEF Fail, CandidateInv, TypeOK

\* The review is stored with the status; when the UPDATE names no status, the
\* candidate already has the decision of an earlier review.
LEMMA ReviewCommitStep ==
    ASSUME CandidateInv, NEW h \in Handlers, ReviewCommit(h)
    PROVE  CandidateInv'
  <1> DEFINE c == req[h].candidate
             d == req[h].decision
             review == [candidate |-> c, decision |-> d]
  <1>1. c \in Urls /\ d \in Decisions /\ req[h].loaded \in Statuses
    BY RequestTypes DEF ReviewCommit, CandidateInv, TypeOK
  <1>2. status[c] # None /\ status[c] \in Statuses
        /\ (req[h].loaded \in Decisions => status[c] \in Decisions)
    BY <1>1 DEF ReviewCommit, CandidateInv, LoadedStatus, TypeOK
  <1>3. /\ status' \in [Urls -> Statuses \cup {None}]
        /\ \A u \in Urls : u # c => status'[u] = status[u]
        /\ status'[c] \in {d, status[c]} /\ status'[c] \in Decisions
    <2>1. NewStatus(status[c], req[h]) \in {d, status[c]}
          /\ NewStatus(status[c], req[h]) \in Decisions
      BY <1>1, <1>2 DEF NewStatus, Emit
    <2>2. status' = [status EXCEPT ![c] = NewStatus(status[c], req[h])]
      BY DEF ReviewCommit
    <2> QED
      BY <1>1, <2>1, <2>2, StatusTypes DEF CandidateInv, TypeOK
  <1>4. reviews' = Append(reviews, review) /\ review \in Reviews
    BY <1>1 DEF ReviewCommit, Reviews
  <1>5. /\ reviews' \in Seq(Reviews)
        /\ DOMAIN reviews' = DOMAIN reviews \cup {Len(reviews) + 1}
        /\ Len(reviews) + 1 \notin DOMAIN reviews
        /\ \A k \in DOMAIN reviews : reviews'[k] = reviews[k]
        /\ reviews'[Len(reviews) + 1] = review
    BY <1>4 DEF CandidateInv, TypeOK
  <1>6. audit' \in Seq(AuditEntries)
    <2>1. AuditOf(req[h]) \in AuditEntries
      BY <1>1 DEF AuditOf, AuditEntries
    <2> QED
      BY <2>1 DEF ReviewCommit, CandidateInv, TypeOK
  <1>7. req' = [req EXCEPT ![h] = Idle] /\ req' \in [Handlers -> Requests]
    BY DEF ReviewCommit, Finish, CandidateInv, TypeOK, Requests
  <1> HIDE DEF c, d
  <1>8. LoadedStatus'
    <2> SUFFICES ASSUME NEW k \in Handlers, req'[k].op = "review"
                 PROVE  /\ status'[req'[k].candidate] # None
                        /\ req'[k].loaded \in Decisions =>
                              status'[req'[k].candidate] \in Decisions
      BY DEF LoadedStatus
    <2>1. req'[k] = req[k] /\ req[k].candidate \in Urls
      BY <1>7, RequestTypes DEF CandidateInv, TypeOK, Idle
    <2>2. CASE req[k].candidate = c
      BY <1>3, <2>1, <2>2, StatusTypes
    <2>3. CASE req[k].candidate # c
      BY <1>3, <2>1, <2>3 DEF CandidateInv, LoadedStatus
    <2> QED
      BY <2>2, <2>3
  <1>9. StatusWasDecided'
    <2> SUFFICES ASSUME NEW u \in Urls
                 PROVE  /\ status'[u] \in {None, "pending"} <=> ReviewsOf(u)' = {}
                        /\ status'[u] \in Decisions =>
                              \E k \in ReviewsOf(u)' : reviews'[k].decision = status'[u]
      BY DEF StatusWasDecided
    <2>1. ReviewsOf(u) \subseteq ReviewsOf(u)'
      BY <1>5 DEF ReviewsOf
    <2>2. /\ status[u] \in {None, "pending"} <=> ReviewsOf(u) = {}
          /\ status[u] \in Decisions => \E k \in ReviewsOf(u) : reviews[k].decision = status[u]
      BY DEF CandidateInv, StatusWasDecided
    <2>3. CASE u = c
      <3>1. Len(reviews) + 1 \in ReviewsOf(u)' /\ reviews'[Len(reviews) + 1].decision = d
        BY <1>5, <2>3 DEF ReviewsOf
      <3>2. CASE status'[u] = d
        BY <1>3, <2>3, <3>1, <3>2, StatusTypes
      <3>3. CASE status'[u] = status[u]
        <4>1. PICK k \in ReviewsOf(u) : reviews[k].decision = status[u]
          BY <1>3, <2>2, <2>3, <3>3
        <4>2. k \in ReviewsOf(u)' /\ reviews'[k].decision = status'[u]
          BY <1>5, <2>1, <3>3, <4>1 DEF ReviewsOf
        <4> QED
          BY <1>3, <2>3, <3>1, <4>2, StatusTypes
      <3> QED
        BY <1>3, <2>3, <3>2, <3>3
    <2>4. CASE u # c
      <3>1. ReviewsOf(u)' = ReviewsOf(u)
        BY <1>5, <2>4 DEF ReviewsOf
      <3>2. status'[u] = status[u]
        BY <1>3, <2>4
      <3>3. \A k \in ReviewsOf(u) : reviews'[k] = reviews[k]
        BY <1>5 DEF ReviewsOf
      <3> QED
        BY <2>2, <3>1, <3>2, <3>3
    <2> QED
      BY <2>3, <2>4
  <1> QED
    BY <1>3, <1>5, <1>6, <1>7, <1>8, <1>9 DEF CandidateInv, TypeOK

LEMMA HandleStep ==
    ASSUME CandidateInv, NEW h \in Handlers, Handle(h)
    PROVE  CandidateInv'
  <1>1. Decisions # {}
    BY DEF Decisions
  <1> QED
    BY <1>1, LoadSteps, CreateCommitStep, ReviewCommitStep, FailStep DEF Handle

LEMMA StutterStep ==
    ASSUME CandidateInv, UNCHANGED vars
    PROVE  CandidateInv'
  BY DEF vars, CandidateInv, TypeOK, LoadedStatus, StatusWasDecided, ReviewsOf

\* The strengthened invariant holds in every reachable state.
THEOREM CandidateInvariant == Spec => []CandidateInv
  <1>1. CandidateInv /\ [Next]_vars => CandidateInv'
    BY HandleStep, StutterStep DEF Next
  <1> QED
    BY <1>1, InitInv, PTL DEF Spec
-----------------------------------------------------------------------------
(***************************************************************************)
(* The register.                                                           *)
(***************************************************************************)

\* What an approval in progress asks for was shown.
AskedWasSeen ==
    \A r \in Registrars : reg[r].op = "approve" => reg[r].asked \in seen

\* A sync runs for an approved source, with the channel it was approved for,
\* and reads that channel only.
JobsAreApproved ==
    \A s \in Syncs : job[s].op # "idle" =>
        /\ Approved(job[s].source)
        /\ source[job[s].source].id = job[s].approved
        /\ job[s].op = "reading" => job[s].channel = job[s].approved

RegistryInv ==
    /\ RegistryTypeOK
    /\ AskedWasSeen
    /\ JobsAreApproved
    /\ ApprovedAsSeen
    /\ ItemsOfApprovedChannel

-----------------------------------------------------------------------------
LEMMA ChannelType ==
    ASSUME NEW i \in Identities
    PROVE  /\ Channel(i) \in Sources
           /\ Channel(i) # None
           /\ Channel(i).kind = "telegram"
           /\ Channel(i).id = i.id /\ Channel(i).title = i.title
           /\ i.id \in Ids
           /\ i = [id |-> i.id, title |-> i.title]
  BY RegistryAssumption DEF Channel, Sources, Ids

LEMMA FeedType ==
    ASSUME NEW f \in Feeds
    PROVE  /\ FeedSource(f) \in Sources
           /\ FeedSource(f) # None
           /\ FeedSource(f).kind = "rss"
  BY RegistryAssumption DEF FeedSource, Sources

LEMMA ManualType == Manual \in Sources /\ Manual # None /\ Manual.kind = "manual"
  BY RegistryAssumption DEF Manual, Sources

LEMMA ChannelRow ==
    ASSUME NEW row \in Sources, row.kind = "telegram"
    PROVE  \E i \in Identities : row = Channel(i)
  BY DEF Sources, Manual, FeedSource, Channel

\* The id of an approved source is the id of a channel.
LEMMA ApprovedIds ==
    ASSUME RegistryTypeOK, NEW u \in Urls, Approved(u)
    PROVE  source[u].id \in Ids
  BY ChannelRow, ChannelType DEF Approved, RegistryTypeOK

LEMMA RegistrationTypes ==
    ASSUME NEW q \in Registrations
    PROVE  /\ q.op = "feed" => q.url \in Urls /\ q.feed \in Feeds
           /\ q.op = "approve" => q.asked \in Shown /\ q.found \in Identities
  BY DEF Registrations, Idle

LEMMA JobTypes ==
    ASSUME NEW j \in SyncJobs
    PROVE  /\ j.op \in {"idle", "loaded", "reading"}
           /\ j.op # "idle" => j.source \in Names /\ j.approved \in Ids
           /\ j.op = "reading" => j.channel \in Ids
  BY DEF SyncJobs, Idle

-----------------------------------------------------------------------------
\* Storing a source adds a row and changes none; what was said of the rows
\* that were there stays true.
LEMMA StoreKeepsRows ==
    ASSUME RegistryTypeOK, NEW u \in Urls, NEW row \in Sources, StoreSource(u, row)
    PROVE  /\ source' \in [Urls -> Sources \cup {None}]
           /\ \A v \in Urls : source[v] # None => source'[v] = source[v]
           /\ \A v \in Urls : v # u => source'[v] = source[v]
           /\ source[u] = None => source'[u] = row
  BY DEF StoreSource, RegistryTypeOK

\* The parts of the invariant that speak of rows only hold when rows are kept.
LEMMA RowsKept ==
    ASSUME RegistryInv,
           \A v \in Urls : source[v] # None => source'[v] = source[v],
           seen \subseteq seen'
    PROVE  /\ job' = job => JobsAreApproved'
           /\ items' = items => ItemsOfApprovedChannel'
           /\ reg' = reg => AskedWasSeen'
  <1>1. \A v \in Urls : Approved(v) => Approved(v)' /\ source'[v].id = source[v].id
    BY DEF Approved
  <1>2. Names \subseteq Urls
    BY RegistryAssumption
  <1>3. job' = job => JobsAreApproved'
    <2> SUFFICES ASSUME job' = job, NEW s \in Syncs, job[s].op # "idle"
                 PROVE  /\ Approved(job[s].source)'
                        /\ source'[job[s].source].id = job[s].approved
                        /\ job[s].op = "reading" => job[s].channel = job[s].approved
      BY DEF JobsAreApproved
    <2>1. job[s].source \in Urls
      BY JobTypes, <1>2 DEF RegistryInv, RegistryTypeOK
    <2>2. Approved(job[s].source)
      BY DEF RegistryInv, JobsAreApproved
    <2>3. Approved(job[s].source)'
      BY <1>1, <2>1, <2>2 DEF Approved
    <2> QED
      BY <1>1, <2>1, <2>2, <2>3 DEF RegistryInv, JobsAreApproved
  <1>4. items' = items => ItemsOfApprovedChannel'
    <2> SUFFICES ASSUME items' = items, NEW i \in items
                 PROVE  Approved(i.source)' /\ i.channel = source'[i.source].id
      BY DEF ItemsOfApprovedChannel
    <2>1. i.source \in Urls
      BY <1>2 DEF RegistryInv, RegistryTypeOK
    <2>2. Approved(i.source) /\ i.channel = source[i.source].id
      BY DEF RegistryInv, ItemsOfApprovedChannel
    <2> QED
      BY <1>1, <2>1, <2>2 DEF Approved
  <1>5. reg' = reg => AskedWasSeen'
    BY DEF RegistryInv, AskedWasSeen
  <1> QED
    BY <1>3, <1>4, <1>5

LEMMA RegistryInitInv == RegistryInit => RegistryInv
  BY DEF RegistryInit, RegistryInv, RegistryTypeOK, AskedWasSeen, JobsAreApproved,
     ApprovedAsSeen, ItemsOfApprovedChannel, Approved, Registrations, SyncJobs, Idle

\* The steps of the candidates, and stuttering, leave the register alone.
LEMMA FrameStep ==
    ASSUME RegistryInv, UNCHANGED registryVars
    PROVE  RegistryInv'
  BY DEF registryVars, RegistryInv, RegistryTypeOK, AskedWasSeen, JobsAreApproved,
     ApprovedAsSeen, ItemsOfApprovedChannel, Approved

\* A source that is no channel is registered.
LEMMA PlainSourceStep ==
    ASSUME RegistryInv, NEW u \in Urls, NEW row \in Sources, row.kind # "telegram",
           StoreSource(u, row), reg' \in [Registrars -> Registrations], AskedWasSeen',
           UNCHANGED <<owner, seen, job, items>>
    PROVE  RegistryInv'
  <1>1. /\ source' \in [Urls -> Sources \cup {None}]
        /\ \A v \in Urls : source[v] # None => source'[v] = source[v]
        /\ \A v \in Urls : v # u => source'[v] = source[v]
        /\ source[u] = None => source'[u] = row
    BY StoreKeepsRows DEF RegistryInv
  <1>2. \A v \in Urls : Approved(v)' => Approved(v) /\ source'[v] = source[v]
    BY <1>1 DEF Approved
  <1>3. JobsAreApproved' /\ ItemsOfApprovedChannel'
    BY <1>1, RowsKept
  <1>4. RegistryTypeOK'
    BY <1>1, <1>2 DEF RegistryInv, RegistryTypeOK
  <1>5. ApprovedAsSeen'
    BY <1>2 DEF RegistryInv, ApprovedAsSeen
  <1> QED
    BY <1>3, <1>4, <1>5 DEF RegistryInv

LEMMA AddSourceStep ==
    ASSUME RegistryInv, NEW u \in Urls, AddSource(u)
    PROVE  RegistryInv'
  <1>1. StoreSource(u, Manual)
    BY DEF AddSource, StoreSource
  <1>2. reg' \in [Registrars -> Registrations] /\ AskedWasSeen'
    BY DEF AddSource, RegistryInv, RegistryTypeOK, AskedWasSeen
  <1> QED
    BY <1>1, <1>2, ManualType, PlainSourceStep DEF AddSource

\* A thread that takes or leaves a request that is no approval.
LEMMA ReleaseType ==
    ASSUME RegistryInv, NEW r \in Registrars, Release(r), seen' = seen
    PROVE  reg' \in [Registrars -> Registrations] /\ AskedWasSeen'
  BY DEF Release, RegistryInv, RegistryTypeOK, AskedWasSeen, Registrations, Idle

LEMMA FeedSteps ==
    ASSUME RegistryInv, NEW r \in Registrars,
           FeedCommit(r) \/ \E u \in Urls, f \in Feeds : FeedLoad(r, u, f)
    PROVE  RegistryInv'
  <1>1. CASE \E u \in Urls, f \in Feeds : FeedLoad(r, u, f)
    <2>1. reg' \in [Registrars -> Registrations] /\ AskedWasSeen'
      BY <1>1 DEF FeedLoad, Hold, RegistryInv, RegistryTypeOK, AskedWasSeen, Registrations
    <2>2. UNCHANGED <<source, owner, seen, job, items>>
      BY <1>1 DEF FeedLoad
    <2> QED
      BY <2>1, <2>2 DEF RegistryInv, RegistryTypeOK, JobsAreApproved, ApprovedAsSeen,
         ItemsOfApprovedChannel, Approved
  <1>2. CASE FeedCommit(r)
    <2>1. reg[r].url \in Urls /\ reg[r].feed \in Feeds
      BY <1>2, RegistrationTypes DEF FeedCommit, RegistryInv, RegistryTypeOK
    <2>2. reg' \in [Registrars -> Registrations] /\ AskedWasSeen'
      BY <1>2, ReleaseType DEF FeedCommit
    <2> QED
      BY <1>2, <2>1, <2>2, FeedType, PlainSourceStep DEF FeedCommit
  <1> QED
    BY <1>1, <1>2

LEMMA TransferStep ==
    ASSUME RegistryInv, NEW n \in Names, NEW i \in Identities, Transfer(n, i)
    PROVE  RegistryInv'
  BY DEF Transfer, RegistryInv, RegistryTypeOK, AskedWasSeen, JobsAreApproved,
     ApprovedAsSeen, ItemsOfApprovedChannel, Approved

LEMMA ResolveStep ==
    ASSUME RegistryInv, NEW n \in Names, Resolve(n)
    PROVE  RegistryInv'
  <1>1. seen \subseteq seen' /\ seen' \subseteq Shown
    BY DEF Resolve, RegistryInv, RegistryTypeOK, Shown
  <1>2. JobsAreApproved' /\ ItemsOfApprovedChannel' /\ AskedWasSeen'
    BY <1>1, RowsKept DEF Resolve
  <1> QED
    BY <1>1, <1>2 DEF Resolve, RegistryInv, RegistryTypeOK, ApprovedAsSeen, Approved

LEMMA ApproveResolveStep ==
    ASSUME RegistryInv, NEW r \in Registrars, NEW shown \in seen, ApproveResolve(r, shown)
    PROVE  RegistryInv'
  <1>1. shown \in Shown /\ owner[shown.name] \in Identities
    BY DEF RegistryInv, RegistryTypeOK, Shown
  <1>2. reg' \in [Registrars -> Registrations] /\ AskedWasSeen'
    BY <1>1 DEF ApproveResolve, Hold, RegistryInv, RegistryTypeOK, AskedWasSeen, Registrations
  <1> QED
    BY <1>2 DEF ApproveResolve, RegistryInv, RegistryTypeOK, JobsAreApproved, ApprovedAsSeen,
       ItemsOfApprovedChannel, Approved

\* The channel that is stored is the one that was asked for, hence was shown.
LEMMA ApproveStep ==
    ASSUME RegistryInv, NEW r \in Registrars, Approve(r)
    PROVE  RegistryInv'
  <1> DEFINE asked == reg[r].asked
             found == reg[r].found
  <1>1. asked \in Shown /\ asked \in seen /\ found \in Identities
    BY RegistrationTypes DEF Approve, RegistryInv, RegistryTypeOK, AskedWasSeen
  <1>2. asked.name \in Names /\ asked.name \in Urls
        /\ asked = [name |-> asked.name, identity |-> asked.identity]
    BY <1>1, RegistryAssumption DEF Shown
  <1>3. reg' \in [Registrars -> Registrations] /\ AskedWasSeen'
    BY ReleaseType DEF Approve
  <1>4. UNCHANGED <<owner, seen, job, items>>
    BY DEF Approve
  <1>5. CASE ~SameIdentity(reg[r])
    <2>1. UNCHANGED source
      BY <1>5 DEF Approve
    <2> QED
      BY <1>3, <1>4, <2>1 DEF RegistryInv, RegistryTypeOK, JobsAreApproved, ApprovedAsSeen,
         ItemsOfApprovedChannel, Approved
  <1>6. CASE SameIdentity(reg[r])
    <2>1. found = asked.identity
      BY <1>6 DEF SameIdentity
    <2>2. StoreSource(asked.name, Channel(found))
      BY <1>6 DEF Approve
    <2>3. /\ Channel(found) \in Sources
          /\ [id |-> Channel(found).id, title |-> Channel(found).title] = found
      BY <1>1, ChannelType
    <2> HIDE DEF asked, found
    <2>4. /\ source' \in [Urls -> Sources \cup {None}]
          /\ \A v \in Urls : source[v] # None => source'[v] = source[v]
          /\ \A v \in Urls : v # asked.name => source'[v] = source[v]
          /\ source[asked.name] = None => source'[asked.name] = Channel(found)
      BY <1>2, <2>2, <2>3, StoreKeepsRows DEF RegistryInv
    <2>5. JobsAreApproved' /\ ItemsOfApprovedChannel'
      BY <1>4, <2>4, RowsKept
    <2>6. RegistryTypeOK'
      BY <1>2, <1>3, <1>4, <2>4 DEF RegistryInv, RegistryTypeOK, Approved
    <2>7. ApprovedAsSeen'
      <3> SUFFICES ASSUME NEW u \in Urls, Approved(u)'
                   PROVE  [name |-> u, identity |-> [id |-> source'[u].id,
                                                     title |-> source'[u].title]] \in seen'
        BY DEF ApprovedAsSeen
      <3>1. CASE source'[u] = source[u]
        BY <1>4, <3>1 DEF RegistryInv, ApprovedAsSeen, Approved
      <3>2. CASE source'[u] # source[u]
        <4>1. u = asked.name /\ source'[u] = Channel(found)
          BY <2>4, <3>2
        <4> QED
          BY <1>1, <1>2, <1>4, <2>1, <2>3, <4>1
      <3> QED
        BY <3>1, <3>2
    <2> QED
      BY <1>3, <2>5, <2>6, <2>7 DEF RegistryInv
  <1> QED
    BY <1>5, <1>6

LEMMA RegistrarFailsStep ==
    ASSUME RegistryInv, NEW r \in Registrars, RegistrarFails(r)
    PROVE  RegistryInv'
  <1>1. reg' \in [Registrars -> Registrations] /\ AskedWasSeen'
    BY ReleaseType DEF RegistrarFails
  <1> QED
    BY <1>1 DEF RegistrarFails, RegistryInv, RegistryTypeOK, JobsAreApproved, ApprovedAsSeen,
       ItemsOfApprovedChannel, Approved

-----------------------------------------------------------------------------
\* The steps of a sync change its job and the stored posts only.
LEMMA SyncFrame ==
    ASSUME RegistryInv, UNCHANGED <<source, owner, seen, reg>>,
           job' \in [Syncs -> SyncJobs], JobsAreApproved',
           items' \subseteq [source : Names, channel : Ids], ItemsOfApprovedChannel'
    PROVE  RegistryInv'
  BY DEF RegistryInv, RegistryTypeOK, AskedWasSeen, ApprovedAsSeen, Approved

LEMMA SyncLoadStep ==
    ASSUME RegistryInv, NEW s \in Syncs, NEW u \in Urls, SyncLoad(s, u)
    PROVE  RegistryInv'
  <1>1. u \in Names /\ source[u].id \in Ids /\ Approved(u)
    BY ApprovedIds DEF SyncLoad, RegistryInv, RegistryTypeOK
  <1>2. job' \in [Syncs -> SyncJobs] /\ JobsAreApproved'
    BY <1>1 DEF SyncLoad, RegistryInv, RegistryTypeOK, JobsAreApproved, SyncJobs, Approved
  <1> QED
    BY <1>2, SyncFrame DEF SyncLoad, RegistryInv, RegistryTypeOK, ItemsOfApprovedChannel, Approved

LEMMA SyncResolveStep ==
    ASSUME RegistryInv, NEW s \in Syncs, SyncResolve(s)
    PROVE  RegistryInv'
  <1>1. job[s].source \in Names /\ job[s].approved \in Ids
    BY JobTypes DEF SyncResolve, RegistryInv, RegistryTypeOK
  <1>2. owner[job[s].source].id = job[s].approved
    BY DEF SyncResolve, ApprovedChannel
  <1>3. job' \in [Syncs -> SyncJobs]
    BY <1>1, <1>2 DEF SyncResolve, RegistryInv, RegistryTypeOK, SyncJobs
  <1>4. JobsAreApproved'
    BY <1>2 DEF SyncResolve, RegistryInv, RegistryTypeOK, JobsAreApproved, Approved
  <1> QED
    BY <1>3, <1>4, SyncFrame
       DEF SyncResolve, RegistryInv, RegistryTypeOK, ItemsOfApprovedChannel, Approved

LEMMA SyncEndTypes ==
    ASSUME RegistryInv, NEW s \in Syncs, job' = [job EXCEPT ![s] = Idle], UNCHANGED source
    PROVE  job' \in [Syncs -> SyncJobs] /\ JobsAreApproved'
  BY DEF RegistryInv, RegistryTypeOK, JobsAreApproved, SyncJobs, Idle, Approved

LEMMA SyncStoreStep ==
    ASSUME RegistryInv, NEW s \in Syncs, SyncStore(s)
    PROVE  RegistryInv'
  <1> DEFINE stored == [source |-> job[s].source, channel |-> job[s].channel]
  <1>1. job[s].source \in Names /\ job[s].channel \in Ids
    BY JobTypes DEF SyncStore, RegistryInv, RegistryTypeOK
  <1>2. Approved(job[s].source) /\ job[s].channel = source[job[s].source].id
    BY DEF SyncStore, RegistryInv, JobsAreApproved
  <1>3. items' \subseteq [source : Names, channel : Ids]
    BY <1>1 DEF SyncStore, RegistryInv, RegistryTypeOK
  <1>4. \A i \in items' : i \in items \/ i = stored
    BY DEF SyncStore
  <1>5. UNCHANGED source
    BY DEF SyncStore
  <1>6. ItemsOfApprovedChannel'
    BY <1>2, <1>4, <1>5 DEF RegistryInv, ItemsOfApprovedChannel, Approved
  <1>7. job' \in [Syncs -> SyncJobs] /\ JobsAreApproved'
    BY <1>5, SyncEndTypes DEF SyncStore
  <1> QED
    BY <1>3, <1>6, <1>7, SyncFrame DEF SyncStore

LEMMA SyncFailsStep ==
    ASSUME RegistryInv, NEW s \in Syncs, SyncFails(s)
    PROVE  RegistryInv'
  <1>1. job' \in [Syncs -> SyncJobs] /\ JobsAreApproved'
    BY SyncEndTypes DEF SyncFails
  <1> QED
    BY <1>1, SyncFrame
       DEF SyncFails, RegistryInv, RegistryTypeOK, ItemsOfApprovedChannel, Approved

-----------------------------------------------------------------------------
\* One step per action of the register.
LEMMA RegistryStep == RegistryInv /\ [RegistryNext]_allVars => RegistryInv'
  <1> SUFFICES ASSUME RegistryInv, [RegistryNext]_allVars
               PROVE  RegistryInv'
    OBVIOUS
  <1>1. ASSUME NEW h \in Handlers, Candidate(h)
        PROVE  RegistryInv'
    BY <1>1, FrameStep DEF Candidate
  <1>2. ASSUME NEW u \in Urls, AddSource(u)
        PROVE  RegistryInv'
    BY <1>2, AddSourceStep
  <1>3. ASSUME NEW n \in Names, NEW i \in Identities, Transfer(n, i)
        PROVE  RegistryInv'
    BY <1>3, TransferStep
  <1>4. ASSUME NEW n \in Names, Resolve(n)
        PROVE  RegistryInv'
    BY <1>4, ResolveStep
  <1>5. ASSUME NEW r \in Registrars, Registrar(r)
        PROVE  RegistryInv'
    BY <1>5, FeedSteps, ApproveResolveStep, ApproveStep, RegistrarFailsStep DEF Registrar
  <1>6. ASSUME NEW s \in Syncs, Sync(s)
        PROVE  RegistryInv'
    BY <1>6, SyncLoadStep, SyncResolveStep, SyncStoreStep, SyncFailsStep DEF Sync
  <1>7. CASE UNCHANGED allVars
    BY <1>7, FrameStep DEF allVars
  <1> QED
    BY <1>1, <1>2, <1>3, <1>4, <1>5, <1>6, <1>7 DEF RegistryNext

\* The strengthened invariant holds in every reachable state.
THEOREM RegistryInvariant == RegistrySpec => []RegistryInv
  BY RegistryInitInv, RegistryStep, PTL DEF RegistrySpec

\* The register, its threads and the syncs keep their types.
THEOREM RegistryTypes == RegistrySpec => []RegistryTypeOK
  BY RegistryInvariant, PTL DEF RegistryInv

\* An approved channel is one the operator was shown under its username.
THEOREM ApprovalIsInformed == RegistrySpec => []ApprovedAsSeen
  BY RegistryInvariant, PTL DEF RegistryInv

\* A stored post is from the channel its source was approved for.
THEOREM PostsAreOfApprovedChannel == RegistrySpec => []ItemsOfApprovedChannel
  BY RegistryInvariant, PTL DEF RegistryInv

-----------------------------------------------------------------------------
(***************************************************************************)
(* The composition: the register adds a guard to the candidates' steps and *)
(* otherwise leaves them alone.                                            *)
(***************************************************************************)
LEMMA RegisterStepIsReviewStep == [RegistryNext]_allVars => [Next]_vars
  <1> SUFFICES ASSUME [RegistryNext]_allVars
               PROVE  [Next]_vars
    OBVIOUS
  <1>1. CASE \E h \in Handlers : Candidate(h)
    BY <1>1 DEF Candidate, Next
  <1>2. CASE UNCHANGED allVars
    BY <1>2 DEF allVars
  <1>3. ASSUME NEW r \in Registrars, Registrar(r)
        PROVE  UNCHANGED vars
    BY <1>3 DEF Registrar, FeedLoad, FeedCommit, ApproveResolve, Approve, RegistrarFails
  <1>4. ASSUME NEW s \in Syncs, Sync(s)
        PROVE  UNCHANGED vars
    BY <1>4 DEF Sync, SyncLoad, SyncResolve, SyncStore, SyncFails
  <1>5. ASSUME NEW n \in Names, Resolve(n) \/ \E i \in Identities : Transfer(n, i)
        PROVE  UNCHANGED vars
    BY <1>5 DEF Resolve, Transfer
  <1>6. ASSUME NEW u \in Urls, AddSource(u)
        PROVE  UNCHANGED vars
    BY <1>6 DEF AddSource
  <1> QED
    BY <1>1, <1>2, <1>3, <1>4, <1>5, <1>6 DEF RegistryNext

\* The register with its candidates is a refinement of CandidateReview alone: whatever
\* registrations, approvals and syncs run beside it, a submission or review of
\* candidate_review.py does nothing it would not do by itself.
THEOREM RegisterKeepsReview == RegistrySpec => Spec
  BY RegisterStepIsReviewStep, PTL DEF RegistrySpec, RegistryInit, Spec

\* The candidates of the register keep their types.
THEOREM CandidateTypes == RegistrySpec => []TypeOK
  BY RegisterKeepsReview, CandidateInvariant, PTL DEF CandidateInv

\* The status of a candidate is the decision of a stored review of it.
THEOREM DecisionsAreStored == RegistrySpec => []StatusWasDecided
  BY RegisterKeepsReview, CandidateInvariant, PTL DEF CandidateInv
=============================================================================
