--------------------------- MODULE SourceRegistry ---------------------------
(***************************************************************************)
(* The register of sources, composed with the candidates of               *)
(* CandidateReview: manual sources, feeds, and the approval of public      *)
(* Telegram channels under the identity the operator was shown.            *)
(*                                                                         *)
(* A channel is found by its username but is its numeric id: owners rename *)
(* channels and usernames change hands at any time (external).  Approval   *)
(* and collection resolve the username again and compare.                  *)
(*                                                                         *)
(* A source is identified by its link, which is UNIQUE: a handler that     *)
(* loses the race for a link writes nothing, as if it had been refused.    *)
(* The link of a username is written in one spelling here.                 *)
(***************************************************************************)
EXTENDS CandidateReview

CONSTANTS
    Names,          \* the links that are t.me links of usernames
    Feeds,          \* feed addresses
    Identities,     \* channels: records of an id and a title
    Registrars,     \* request threads that register sources
    Syncs           \* syncs that may be in progress: sync now, the scheduler

Ids == {i.id : i \in Identities}
Shown == [name : Names, identity : Identities]

Manual == [kind |-> "manual"]
FeedSource(f) == [kind |-> "rss", feed |-> f]
Channel(i) == [kind |-> "telegram", id |-> i.id, title |-> i.title]
Sources == {Manual} \cup {FeedSource(f) : f \in Feeds} \cup {Channel(i) : i \in Identities}

ASSUME RegistryAssumption ==
    /\ Names \subseteq Urls
    /\ \A i \in Identities : i = [id |-> i.id, title |-> i.title]
    /\ None \notin Sources

VARIABLES
    source,         \* sources by link, with the channel id of a cursor
    owner,          \* the channel that has a username (external)
    seen,           \* what the operator was shown: a username and its channel
    reg,            \* what each registering thread holds
    job,            \* the sync in progress
    items           \* intake_items: the source of each and the channel it is from

registryVars == <<source, owner, seen, reg, job, items>>
allVars == <<vars, registryVars>>

Approved(u) == source[u] # None /\ source[u].kind = "telegram"

RegistryInit ==
    /\ Init
    /\ source = [u \in Urls |-> None]
    /\ owner \in [Names -> Identities]
    /\ seen = {}
    /\ reg = [r \in Registrars |-> Idle]
    /\ job = [s \in Syncs |-> Idle]
    /\ items = {}

-----------------------------------------------------------------------------
(***************************************************************************)
(* Candidates: a submission is refused when a source of the same platform  *)
(* has the reference.                                                      *)
(***************************************************************************)
Registered(u) == source[u] # None /\ (Approved(u) <=> u \in Names)

Candidate(h) ==
    /\ Handle(h)
    /\ \A u \in Urls : CreateLoad(h, u) => ~Registered(u)
    /\ UNCHANGED registryVars

\* POST /sources; also a t.me link may be registered by hand.
AddSource(u) ==
    /\ source[u] = None
    /\ source' = [source EXCEPT ![u] = Manual]
    /\ UNCHANGED <<vars, owner, seen, reg, job, items>>

Hold(r, request) == reg[r] = Idle /\ reg' = [reg EXCEPT ![r] = request]
Release(r) == reg' = [reg EXCEPT ![r] = Idle]
StoreSource(u, row) == source' = [source EXCEPT ![u] = IF @ = None THEN row ELSE @]

\* POST /feeds: no source has the link, none the feed address.
FeedLoad(r, u, f) ==
    /\ source[u] = None
    /\ \A v \in Urls : source[v] # FeedSource(f)
    /\ Hold(r, [op |-> "feed", url |-> u, feed |-> f])
    /\ UNCHANGED <<vars, source, owner, seen, job, items>>

\* The feed address is not UNIQUE.
FeedCommit(r) ==
    /\ reg[r].op = "feed"
    /\ StoreSource(reg[r].url, FeedSource(reg[r].feed))
    /\ Release(r)
    /\ UNCHANGED <<vars, owner, seen, job, items>>

-----------------------------------------------------------------------------
(***************************************************************************)
(* Approval of a channel: resolve a username, look at the channel, approve *)
(* that channel.                                                           *)
(***************************************************************************)

\* A username changes hands, or the channel its title (external).
Transfer(n, i) ==
    /\ owner' = [owner EXCEPT ![n] = i]
    /\ UNCHANGED <<vars, source, seen, reg, job, items>>

\* POST /telegram/channels/resolve; the desk shows the answer.
Resolve(n) ==
    /\ seen' = seen \cup {[name |-> n, identity |-> owner[n]]}
    /\ UNCHANGED <<vars, source, owner, reg, job, items>>

\* POST /telegram/channels: the desk sends what it showed; the username is
\* resolved again, and awaits follow before the answer is looked at.
ApproveResolve(r, shown) ==
    /\ shown \in seen
    /\ Hold(r, [op |-> "approve", asked |-> shown, found |-> owner[shown.name]])
    /\ UNCHANGED <<vars, source, owner, seen, job, items>>

SameTitle(request) ==                   \* mutant: the id is not compared
    request.found.title = request.asked.identity.title

SameIdentity(request) == request.found = request.asked.identity

\* Stores the channel that was found, when it is the one that was asked for
\* and the link is free.
Approve(r) ==
    /\ reg[r].op = "approve"
    /\ IF SameIdentity(reg[r])
       THEN StoreSource(reg[r].asked.name, Channel(reg[r].found))
       ELSE UNCHANGED source
    /\ Release(r)
    /\ UNCHANGED <<vars, owner, seen, job, items>>

\* Telegram or the database fails: nothing is stored.
RegistrarFails(r) ==
    /\ reg[r] # Idle
    /\ Release(r)
    /\ UNCHANGED <<vars, source, owner, seen, job, items>>

-----------------------------------------------------------------------------
(***************************************************************************)
(* Collection: what sync_channel checks before it reads and stores posts.  *)
(***************************************************************************)
SyncLoad(s, u) ==
    /\ job[s] = Idle
    /\ Approved(u)
    /\ job' = [job EXCEPT ![s] = [op |-> "loaded", source |-> u, approved |-> source[u].id]]
    /\ UNCHANGED <<vars, source, owner, seen, reg, items>>

AnyChannel(j) == TRUE                   \* mutant: the resolved id is not compared

ApprovedChannel(j) == owner[j.source].id = j.approved

\* The username is resolved; posts are read from the channel it resolved to.
SyncResolve(s) ==
    /\ job[s].op = "loaded"
    /\ ApprovedChannel(job[s])
    /\ job' = [job EXCEPT ![s] = [op |-> "reading", source |-> @.source,
                                  approved |-> @.approved, channel |-> owner[@.source].id]]
    /\ UNCHANGED <<vars, source, owner, seen, reg, items>>

\* The posts are stored when the source still has the approved channel.
SyncStore(s) ==
    /\ job[s].op = "reading"
    /\ source[job[s].source].id = job[s].approved
    /\ items' = items \cup {[source |-> job[s].source, channel |-> job[s].channel]}
    /\ job' = [job EXCEPT ![s] = Idle]
    /\ UNCHANGED <<vars, source, owner, seen, reg>>

\* Another channel has the username, or the network fails.
SyncFails(s) ==
    /\ job[s] # Idle
    /\ job' = [job EXCEPT ![s] = Idle]
    /\ UNCHANGED <<vars, source, owner, seen, reg, items>>

Registrar(r) ==
    \/ \E u \in Urls, f \in Feeds : FeedLoad(r, u, f)
    \/ FeedCommit(r)
    \/ \E shown \in seen : ApproveResolve(r, shown)
    \/ Approve(r)
    \/ RegistrarFails(r)

Sync(s) ==
    \/ \E u \in Urls : SyncLoad(s, u)
    \/ SyncResolve(s)
    \/ SyncStore(s)
    \/ SyncFails(s)

RegistryNext ==
    \/ \E h \in Handlers : Candidate(h)
    \/ \E u \in Urls : AddSource(u)
    \/ \E n \in Names, i \in Identities : Transfer(n, i)
    \/ \E n \in Names : Resolve(n)
    \/ \E r \in Registrars : Registrar(r)
    \/ \E s \in Syncs : Sync(s)

RegistrySpec == RegistryInit /\ [][RegistryNext]_allVars

-----------------------------------------------------------------------------
Registrations ==
    {Idle} \cup [op : {"feed"}, url : Urls, feed : Feeds]
           \cup [op : {"approve"}, asked : Shown, found : Identities]
SyncJobs ==
    {Idle} \cup [op : {"loaded"}, source : Names, approved : Ids]
           \cup [op : {"reading"}, source : Names, approved : Ids, channel : Ids]

\* Type invariant of the register, the channels and the threads: above all,
\* only t.me links hold channels, and no sync runs for another source.
RegistryTypeOK ==
    /\ source \in [Urls -> Sources \cup {None}]
    /\ \A u \in Urls : Approved(u) => u \in Names
    /\ owner \in [Names -> Identities]
    /\ seen \subseteq Shown
    /\ reg \in [Registrars -> Registrations]
    /\ job \in [Syncs -> SyncJobs]
    /\ items \subseteq [source : Names, channel : Ids]

\* An approved channel is one the operator was shown under its username, with
\* that id and that title: a username that changes hands between the look and
\* the approval, or during the approval, does not slip another channel in.
ApprovedAsSeen ==
    \A u \in Urls : Approved(u) =>
        [name |-> u, identity |-> [id |-> source[u].id, title |-> source[u].title]] \in seen

\* Every stored post is from the channel its source was approved for, whoever
\* has the username when the sync resolves it or while it reads.
ItemsOfApprovedChannel ==
    \A i \in items : Approved(i.source) /\ i.channel = source[i.source].id
=============================================================================
