-------------------------- MODULE CandidateReview --------------------------
(***************************************************************************)
(* Private source candidates: submission of a lead and its human reviews.  *)
(* Each endpoint is a handler with a session of its own: it reads (Load),  *)
(* then writes one transaction (Commit); the unit of work emits the status *)
(* column only when the decision differs from the status it loaded.        *)
(* SourceRegistry composes this module with the register of sources, which *)
(* refuses a submission too.                                               *)
(***************************************************************************)
EXTENDS Naturals, Sequences

CONSTANTS
    Handlers,       \* request threads
    Urls,           \* canonical references of one platform
    MaxReviews,     \* bound on the rows of candidate_reviews
    None            \* an absent row

Decisions == {"accepted", "rejected"}
Statuses == Decisions \cup {"pending"}

ASSUME CandidateAssumption == None \notin Statuses /\ MaxReviews \in Nat

VARIABLES
    status,         \* source_candidates: the status by canonical_url
    reviews,        \* candidate_reviews, in insertion order
    audit,          \* candidate.reviewed entries of the audit table
    req             \* what each request thread holds

vars == <<status, reviews, audit, req>>

Reviews == [candidate : Urls, decision : Decisions]
AuditEntries == [candidate : Urls, before : Statuses, after : Decisions]

Idle == [op |-> "idle"]
Requests == {Idle} \cup [op : {"create"}, candidate : Urls]
            \cup [op : {"review"}, candidate : Urls, loaded : Statuses, decision : Decisions]

Init ==
    /\ status = [u \in Urls |-> None]
    /\ reviews = <<>>
    /\ audit = <<>>
    /\ req = [h \in Handlers |-> Idle]

Begin(h, r) == req[h] = Idle /\ req' = [req EXCEPT ![h] = r]
Finish(h) == req' = [req EXCEPT ![h] = Idle]

\* POST /candidates: no candidate has this reference yet.
CreateLoad(h, u) ==
    /\ status[u] = None
    /\ Begin(h, [op |-> "create", candidate |-> u])
    /\ UNCHANGED <<status, reviews, audit>>

\* uq_candidate_platform_url turns a lost race into a conflict: nothing is written.
CreateCommit(h) ==
    /\ req[h].op = "create"
    /\ status' = [status EXCEPT ![req[h].candidate] = IF @ = None THEN "pending" ELSE @]
    /\ Finish(h)
    /\ UNCHANGED <<reviews, audit>>

ReviewLoad(h, u, decision) ==
    /\ status[u] # None
    /\ Begin(h, [op |-> "review", candidate |-> u,
                 loaded |-> status[u], decision |-> decision])
    /\ UNCHANGED <<status, reviews, audit>>

\* The UPDATE sets a column only when its value differs from the loaded one.
Emit(current, loaded, new) == IF new = loaded THEN current ELSE new

NewStatus(current, r) == Emit(current, r.loaded, r.decision)

AuditOf(r) == [candidate |-> r.candidate, before |-> r.loaded, after |-> r.decision]

ReviewUnstored(h) ==                            \* mutant: the review row is never added
    /\ req[h].op = "review"
    /\ status' = [status EXCEPT ![req[h].candidate] = NewStatus(@, req[h])]
    /\ audit' = Append(audit, AuditOf(req[h]))
    /\ Finish(h)
    /\ UNCHANGED reviews

ReviewCommit(h) ==
    /\ req[h].op = "review"
    /\ Len(reviews) < MaxReviews
    /\ status' = [status EXCEPT ![req[h].candidate] = NewStatus(@, req[h])]
    /\ reviews' = Append(reviews, [candidate |-> req[h].candidate,
                                   decision |-> req[h].decision])
    /\ audit' = Append(audit, AuditOf(req[h]))
    /\ Finish(h)

\* The handler fails before its commit (the database is busy, the server stops).
Fail(h) ==
    /\ req[h] # Idle
    /\ Finish(h)
    /\ UNCHANGED <<status, reviews, audit>>

Handle(h) ==
    \/ \E u \in Urls : CreateLoad(h, u)
    \/ CreateCommit(h)
    \/ \E u \in Urls, decision \in Decisions : ReviewLoad(h, u, decision)
    \/ ReviewCommit(h)
    \/ Fail(h)

Next == \E h \in Handlers : Handle(h)

Spec == Init /\ [][Next]_vars

-----------------------------------------------------------------------------
\* Type invariant of the tables and the request threads.
TypeOK ==
    /\ status \in [Urls -> Statuses \cup {None}]
    /\ reviews \in Seq(Reviews)
    /\ audit \in Seq(AuditEntries)
    /\ req \in [Handlers -> Requests]

ReviewsOf(u) == {k \in DOMAIN reviews : reviews[k].candidate = u}

\* A candidate leaves "pending" exactly when a review of it is stored, and its
\* status is the decision of some stored review: whatever two reviewers
\* interleave, the queue never shows a decision nobody recorded.
StatusWasDecided ==
    \A u \in Urls :
        /\ status[u] \in {None, "pending"} <=> ReviewsOf(u) = {}
        /\ status[u] \in Decisions =>
              \E k \in ReviewsOf(u) : reviews[k].decision = status[u]
============================================================================
