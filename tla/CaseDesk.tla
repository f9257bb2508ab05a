------------------------------ MODULE CaseDesk ------------------------------
(***************************************************************************)
(* The private desk of the collector API: incident cases, their evidence,  *)
(* the human review, the lifecycle, promotion and attachment of collected  *)
(* items, and the local export.                                            *)
(*                                                                         *)
(* Every endpoint is a synchronous FastAPI handler: it runs in a thread of *)
(* the server's pool with a database session of its own.  It first SELECTs *)
(* the rows it needs into the session's identity map, decides on that      *)
(* snapshot, and then flushes and commits.  SQLite starts a transaction at *)
(* the first write, so what a handler writes is atomic, but nothing        *)
(* relates it to the rows it decided on: a handler is one Load action and  *)
(* one Commit action (export has two more), and anything may commit in     *)
(* between.  Rows carry no version, and the unit of work emits only the    *)
(* columns whose value differs from the loaded one (Flush below).          *)
(***************************************************************************)
EXTENDS Integers, Sequences

CONSTANTS
    Handlers,       \* request threads that may be inside a handler together
    Incidents,      \* primary keys the incidents table may hand out
    Items,          \* collected intake items
    Sources,        \* registered sources
    SourceOf,       \* the source each item was collected from
    Texts,          \* editorial wordings the properties tell apart
    EditInputs,     \* bodies of PUT /incidents/{id} the analyst may submit
    ReviewInputs,   \* bodies of POST /incidents/{id}/review
    MaxEvidence,    \* bound on the rows of the evidence table
    None            \* SQL NULL, an absent row, an absent file

Confidences ==
    {"unverified", "developing", "corroborated", "verified", "disputed", "false"}

\* incident.fields; complete: every field the public record requires is non-blank.
Fields == [text : Texts, confidence : Confidences \cup {"unset"}, complete : BOOLEAN]

\* What POST /incidents and a promotion write: titles and category only.
Drafts == [text : Texts, confidence : {"unset"}, complete : {FALSE}]

\* incident.review; checklist: the rationale and all seven safety answers.
Reviews == [recorded : BOOLEAN, human_approved : BOOLEAN,
            checklist : BOOLEAN, primary_evidence_checked : BOOLEAN]

\* The empty review {}.
NoReview == [recorded |-> FALSE, human_approved |-> FALSE,
             checklist |-> FALSE, primary_evidence_checked |-> FALSE]

States == {"triage", "investigating", "review-ready", "approved"}

Rows == [state : States, fields : Fields, review : Reviews]

\* What is shown of a case: its fields and the keys of its evidence rows.
Contents == [fields : Fields, evidence : SUBSET Nat]

ASSUME ConstantsAssumption ==
    /\ None \notin Rows \cup Contents
    /\ None \notin Incidents
    /\ SourceOf \in [Items -> Sources]
    /\ EditInputs \subseteq [text : Texts, confidence : Confidences, complete : BOOLEAN]
    /\ ReviewInputs \subseteq {r \in Reviews : r.recorded}
    /\ MaxEvidence \in Nat

VARIABLES
    incident,       \* incidents table
    evidence,       \* evidence table; a row's primary key is its position
    item,           \* intake_items table: status and incident_id
    audit,          \* audit table, as the set of entries the properties need
    file,           \* pending-exports/incident-<id>.json
    req,            \* what each request thread holds between its steps
    vetted          \* history: the content a stored human approval was given for

vars == <<incident, evidence, item, audit, file, req, vetted>>

Idle == [op |-> "idle"]

NeverLocked(row) == FALSE                       \* mutant: the lock check is gone

\* incident.state in ("approved", "published", "withdrawn")
IsLocked(row) == row.state \in {"approved", "published", "withdrawn"}

MaySkipInvestigation(from, to) ==               \* mutant: a step may be skipped
    \/ from = "triage" /\ to \in {"investigating", "review-ready"}
    \/ from = "investigating" /\ to = "review-ready"
    \/ from = "review-ready" /\ to = "approved"

AllowedStep(from, to) ==
    \/ from = "triage" /\ to = "investigating"
    \/ from = "investigating" /\ to = "review-ready"
    \/ from = "review-ready" /\ to = "approved"

EvidenceOf(i) == {k \in DOMAIN evidence : evidence[k].incident = i}

Content(i) == [fields |-> incident[i].fields, evidence |-> EvidenceOf(i)]

(***************************************************************************)
(* The publication gate.  rows are the evidence keys of the case.          *)
(***************************************************************************)
EvidenceSupports(confidence, primaryChecked, rows) ==
    /\ rows # {}
    /\ confidence = "developing" => \E j, k \in rows : j # k
    /\ confidence \in {"corroborated", "verified"} =>
          \E j, k \in rows : evidence[j].source # evidence[k].source
    /\ confidence = "verified" => primaryChecked

PublishableUnchecked(row, rows) ==              \* mutant: evidence rules dropped
    /\ row.state = "approved"
    /\ row.review.human_approved
    /\ row.fields.complete

Publishable(row, rows) ==
    /\ row.state = "approved"
    /\ row.review.human_approved
    /\ row.fields.complete
    /\ row.review.checklist
    /\ EvidenceSupports(row.fields.confidence,
                        row.review.primary_evidence_checked, rows)

(***************************************************************************)
(* The ORM's unit of work: an UPDATE sets a column only when the new value *)
(* differs from the one this session loaded.                               *)
(***************************************************************************)
Emit(current, loaded, new) == IF new = loaded THEN current ELSE new

Flush(row, loaded, new) ==
    [state  |-> Emit(row.state, loaded.state, new.state),
     fields |-> Emit(row.fields, loaded.fields, new.fields),
     review |-> Emit(row.review, loaded.review, new.review)]

-----------------------------------------------------------------------------
(***************************************************************************)
(* What a request thread holds between two steps: the operation, its       *)
(* input, and the row it loaded.                                           *)
(***************************************************************************)
EditRequest == [op : {"edit"}, incident : Incidents, loaded : Rows, fields : Fields]
ReviewRequest == [op : {"review"}, incident : Incidents, loaded : Rows, review : Reviews]
TransitionRequest == [op : {"transition"}, incident : Incidents, loaded : Rows, to : States]
EvidenceRequest == [op : {"evidence"}, incident : Incidents, loaded : Rows, source : Sources]
PromoteRequest == [op : {"promote"}, item : Items]
AttachItemRequest == [op : {"attach-item"}, item : Items, incident : Incidents]
AttachRequest == [op : {"attach"}, item : Items, incident : Incidents, loaded : Rows]
ExportRequest == [op : {"export"}, incident : Incidents, loaded : Rows]
ExportWriteRequest == [op : {"export-write"}, incident : Incidents, public : Contents]
ExportCommitRequest == [op : {"export-commit"}, incident : Incidents]

Requests ==
    {Idle} \cup EditRequest \cup ReviewRequest \cup TransitionRequest
    \cup EvidenceRequest \cup PromoteRequest \cup AttachItemRequest \cup AttachRequest
    \cup ExportRequest \cup ExportWriteRequest \cup ExportCommitRequest

EvidenceRows == [incident : Incidents, source : Sources]

ItemRows == [status : {"new", "promoted", "attached", "duplicate"},
             incident : Incidents \cup {None}]

AuditEntries ==
    [action : {"incident.transitioned"}, incident : Incidents, state : States]
    \cup [action : {"incident.exported"}, incident : Incidents]
    \cup [action : {"feed_item.promoted", "feed_item.attached"},
          item : Items, incident : Incidents]

TypeOK ==
    /\ incident \in [Incidents -> Rows \cup {None}]
    /\ evidence \in Seq(EvidenceRows)
    /\ item \in [Items -> ItemRows]
    /\ audit \subseteq AuditEntries
    /\ file \in [Incidents -> Contents \cup {None}]
    /\ req \in [Handlers -> Requests]
    /\ vetted \in [Incidents -> Contents \cup {None}]

Init ==
    /\ incident = [i \in Incidents |-> None]
    /\ evidence = <<>>
    /\ item \in [Items -> {[status |-> s, incident |-> None] : s \in {"new", "duplicate"}}]
    /\ audit = {}
    /\ file = [i \in Incidents |-> None]
    /\ req = [h \in Handlers |-> Idle]
    /\ vetted = [i \in Incidents |-> None]

-----------------------------------------------------------------------------
Begin(h, r) == req[h] = Idle /\ req' = [req EXCEPT ![h] = r]

Finish(h) == req' = [req EXCEPT ![h] = Idle]

Holds(h, op) == req[h].op = op

\* UPDATE of the case a handler loaded: new is its in-memory row.
UpdateCase(r, new) ==
    incident' = [incident EXCEPT ![r.incident] = Flush(@, r.loaded, new)]

SkipEvidence(i, s) == UNCHANGED evidence        \* mutant: the row is never flushed

InsertEvidence(i, s) ==
    /\ Len(evidence) < MaxEvidence
    /\ evidence' = Append(evidence, [incident |-> i, source |-> s])

NewCase(i, draft) ==
    /\ incident[i] = None
    /\ incident' = [incident EXCEPT ![i] =
                        [state |-> "triage", fields |-> draft, review |-> NoReview]]

KeepReview(row) == row                          \* mutant: the reset is forgotten

\* incident.review = {}: new content needs a new review.
ResetReview(row) == [row EXCEPT !.review = NoReview]

Record(entry) == audit' = audit \cup {entry}

(***************************************************************************)
(* Cases.  A handler whose guard fails answers 404, 409 or 422 and changes *)
(* nothing, so only the requests that get through the guards are actions.  *)
(***************************************************************************)
\* POST /incidents: one transaction that reads nothing.
AddIncident(i, draft) ==
    /\ NewCase(i, draft)
    /\ UNCHANGED <<evidence, item, audit, file, req, vetted>>

EditLoad(h, i, fields) ==
    /\ incident[i] # None
    /\ ~IsLocked(incident[i])
    /\ Begin(h, [op |-> "edit", incident |-> i, loaded |-> incident[i], fields |-> fields])
    /\ UNCHANGED <<incident, evidence, item, audit, file, vetted>>

EditCommit(h) ==
    /\ Holds(h, "edit")
    /\ UpdateCase(req[h], ResetReview([req[h].loaded EXCEPT !.fields = req[h].fields]))
    /\ Finish(h)
    /\ UNCHANGED <<evidence, item, audit, file, vetted>>

ReviewLoad(h, i, review) ==
    /\ incident[i] # None
    /\ incident[i].state = "review-ready"
    /\ Begin(h, [op |-> "review", incident |-> i, loaded |-> incident[i], review |-> review])
    /\ UNCHANGED <<incident, evidence, item, audit, file, vetted>>

ReviewCommit(h) ==
    /\ Holds(h, "review")
    /\ LET i == req[h].incident IN
       /\ UpdateCase(req[h], [req[h].loaded EXCEPT !.review = req[h].review])
       /\ vetted' = IF incident'[i].review.human_approved
                    THEN [vetted EXCEPT ![i] = Content(i)] ELSE vetted
    /\ Finish(h)
    /\ UNCHANGED <<evidence, item, audit, file>>

TransitionLoad(h, i, to) ==
    /\ incident[i] # None
    /\ AllowedStep(incident[i].state, to)
    /\ to = "approved" => incident[i].review.human_approved
    /\ Begin(h, [op |-> "transition", incident |-> i, loaded |-> incident[i], to |-> to])
    /\ UNCHANGED <<incident, evidence, item, audit, file, vetted>>

NoGate(r) == TRUE                               \* mutant: approval skips the gate

\* The approval gate judges the loaded fields and review; its evidence query
\* first flushes state = "approved", so the evidence it reads cannot change
\* before the commit.
PassesGate(r) ==
    r.to = "approved" =>
        Publishable([r.loaded EXCEPT !.state = "approved"], EvidenceOf(r.incident))

TransitionCommit(h) ==
    /\ Holds(h, "transition")
    /\ PassesGate(req[h])
    /\ UpdateCase(req[h], [req[h].loaded EXCEPT !.state = req[h].to])
    /\ Record([action |-> "incident.transitioned", incident |-> req[h].incident,
               state |-> req[h].to])
    /\ Finish(h)
    /\ UNCHANGED <<evidence, item, file, vetted>>

\* The gate raised: the session, with the flushed state in it, rolls back.
TransitionRefused(h) ==
    /\ Holds(h, "transition")
    /\ ~PassesGate(req[h])
    /\ Finish(h)
    /\ UNCHANGED <<incident, evidence, item, audit, file, vetted>>

EvidenceLoad(h, i, s) ==
    /\ incident[i] # None
    /\ ~IsLocked(incident[i])
    /\ Begin(h, [op |-> "evidence", incident |-> i, loaded |-> incident[i], source |-> s])
    /\ UNCHANGED <<incident, evidence, item, audit, file, vetted>>

EvidenceCommit(h) ==
    /\ Holds(h, "evidence")
    /\ InsertEvidence(req[h].incident, req[h].source)
    /\ UpdateCase(req[h], ResetReview(req[h].loaded))
    /\ Finish(h)
    /\ UNCHANGED <<item, audit, file, vetted>>

(***************************************************************************)
(* Intake: promote an item to a case of its own, or attach it to a case.   *)
(***************************************************************************)
PromoteLoadAny(h, x) ==                         \* mutant: the status check is gone
    /\ Begin(h, [op |-> "promote", item |-> x])
    /\ UNCHANGED <<incident, evidence, item, audit, file, vetted>>

PromoteLoad(h, x) ==
    /\ item[x].status = "new"
    /\ Begin(h, [op |-> "promote", item |-> x])
    /\ UNCHANGED <<incident, evidence, item, audit, file, vetted>>

PromoteCommit(h, i, draft) ==
    /\ Holds(h, "promote")
    /\ LET x == req[h].item IN
       /\ NewCase(i, draft)
       /\ InsertEvidence(i, SourceOf[x])
       /\ item' = [item EXCEPT ![x] = [status |-> "promoted", incident |-> i]]
       /\ Record([action |-> "feed_item.promoted", item |-> x, incident |-> i])
    /\ Finish(h)
    /\ UNCHANGED <<file, vetted>>

AttachLoadItem(h, x, i) ==
    /\ item[x].status = "new"
    /\ Begin(h, [op |-> "attach-item", item |-> x, incident |-> i])
    /\ UNCHANGED <<incident, evidence, item, audit, file, vetted>>

AttachLoadCase(h) ==
    /\ Holds(h, "attach-item")
    /\ LET r == req[h]
           row == incident[r.incident]
           passes == row # None /\ ~IsLocked(row)
       IN req' = [req EXCEPT ![h] =
                    IF passes THEN [op |-> "attach", item |-> r.item,
                                    incident |-> r.incident, loaded |-> row]
                    ELSE Idle]
    /\ UNCHANGED <<incident, evidence, item, audit, file, vetted>>

AttachCommit(h) ==
    /\ Holds(h, "attach")
    /\ LET x == req[h].item
           i == req[h].incident
       IN /\ InsertEvidence(i, SourceOf[x])
          /\ UpdateCase(req[h], ResetReview(req[h].loaded))
          /\ item' = [item EXCEPT ![x] = [status |-> "attached", incident |-> i]]
          /\ Record([action |-> "feed_item.attached", item |-> x, incident |-> i])
    /\ Finish(h)
    /\ UNCHANGED <<file, vetted>>

(***************************************************************************)
(* Export: load the case, query its evidence, replace the file, and only   *)
(* then write the audit entry.                                             *)
(***************************************************************************)
ExportLoad(h, i) ==
    /\ incident[i] # None
    /\ Begin(h, [op |-> "export", incident |-> i, loaded |-> incident[i]])
    /\ UNCHANGED <<incident, evidence, item, audit, file, vetted>>

\* build_public_record; a refused record is a 409 and ends the request.
ExportBuild(h) ==
    /\ Holds(h, "export")
    /\ LET r == req[h]
           rows == EvidenceOf(r.incident)
       IN req' = [req EXCEPT ![h] =
                    IF Publishable(r.loaded, rows)
                    THEN [op |-> "export-write", incident |-> r.incident,
                          public |-> [fields |-> r.loaded.fields, evidence |-> rows]]
                    ELSE Idle]
    /\ UNCHANGED <<incident, evidence, item, audit, file, vetted>>

ExportUnwritten(h) ==                           \* mutant: a failed write goes unnoticed
    /\ Holds(h, "export-write")
    /\ req' = [req EXCEPT ![h] = [op |-> "export-commit", incident |-> req[h].incident]]
    /\ UNCHANGED <<incident, evidence, item, audit, file, vetted>>

ExportWrite(h) ==
    /\ Holds(h, "export-write")
    /\ file' = [file EXCEPT ![req[h].incident] = req[h].public]
    /\ req' = [req EXCEPT ![h] = [op |-> "export-commit", incident |-> req[h].incident]]
    /\ UNCHANGED <<incident, evidence, item, audit, vetted>>

ExportCommit(h) ==
    /\ Holds(h, "export-commit")
    /\ Record([action |-> "incident.exported", incident |-> req[h].incident])
    /\ Finish(h)
    /\ UNCHANGED <<incident, evidence, item, file, vetted>>

\* The database refuses the write (locked) or the process dies: the open
\* transaction is rolled back and the thread's state is gone.
Fail(h) ==
    /\ req[h] # Idle
    /\ Finish(h)
    /\ UNCHANGED <<incident, evidence, item, audit, file, vetted>>

Next ==
    \/ \E i \in Incidents, d \in Drafts : AddIncident(i, d)
    \/ \E h \in Handlers :
        \/ \E i \in Incidents :
            \/ \E f \in EditInputs : EditLoad(h, i, f)
            \/ \E r \in ReviewInputs : ReviewLoad(h, i, r)
            \/ \E to \in States : TransitionLoad(h, i, to)
            \/ \E s \in Sources : EvidenceLoad(h, i, s)
            \/ \E x \in Items : AttachLoadItem(h, x, i)
            \/ \E d \in Drafts : PromoteCommit(h, i, d)
            \/ ExportLoad(h, i)
        \/ \E x \in Items : PromoteLoad(h, x)
        \/ EditCommit(h)
        \/ ReviewCommit(h)
        \/ TransitionCommit(h)
        \/ TransitionRefused(h)
        \/ EvidenceCommit(h)
        \/ AttachLoadCase(h)
        \/ AttachCommit(h)
        \/ ExportBuild(h)
        \/ ExportWrite(h)
        \/ ExportCommit(h)
        \/ Fail(h)

Spec == Init /\ [][Next]_vars

-----------------------------------------------------------------------------
(***************************************************************************)
(* What holds however the handlers interleave.                             *)
(***************************************************************************)
\* A collected item leaves the queue only together with its evidence: the case
\* a promoted or attached item names exists and holds an evidence row from the
\* item's source (promote_feed_item and attach_feed_item commit both at once).
ResolvedItemHasEvidence ==
    \A x \in Items : item[x].status \in {"promoted", "attached"} =>
        /\ item[x].incident \in Incidents
        /\ incident[item[x].incident] # None
        /\ \E k \in EvidenceOf(item[x].incident) : evidence[k].source = SourceOf[x]

Transitioned(i, s) ==
    [action |-> "incident.transitioned", incident |-> i, state |-> s] \in audit

\* An approved case has evidence, a human approval was stored for it at some
\* time, and the audit shows each lifecycle step it took.
ApprovedWentThroughLifecycle ==
    \A i \in Incidents : incident[i] # None /\ incident[i].state = "approved" =>
        /\ EvidenceOf(i) # {}
        /\ vetted[i] # None
        /\ \A s \in {"investigating", "review-ready", "approved"} : Transitioned(i, s)

MeetsGate(i, public) ==
    /\ public.fields.complete
    /\ EvidenceSupports(public.fields.confidence, TRUE, public.evidence)
    /\ public.evidence \subseteq EvidenceOf(i)
    /\ Transitioned(i, "approved")

\* A file under pending-exports meets the gate on its own content: complete, and
\* with the evidence its confidence label requires; its case was approved once.
ExportedRecordMeetsGate ==
    \A i \in Incidents : file[i] # None => MeetsGate(i, file[i])

\* The audit never claims an export that has no file behind it.
ExportAuditHasFile ==
    \A i \in Incidents :
        [action |-> "incident.exported", incident |-> i] \in audit => file[i] # None

-----------------------------------------------------------------------------
(***************************************************************************)
(* What the documents promise and what holds when requests never overlap.  *)
(***************************************************************************)
\* What a reader is shown was approved by a human: the content of an approved case
\* is the content its human approval was given for, and it still passes the gate.
ApprovedContentIsVetted ==
    \A i \in Incidents : incident[i] # None /\ incident[i].state = "approved" =>
        /\ vetted[i] = Content(i)
        /\ Publishable(incident[i], EvidenceOf(i))

\* An exported file holds what was vetted.
ExportedContentIsVetted ==
    \A i \in Incidents : file[i] # None => file[i] = vetted[i]

\* Promotion is idempotent: an item is promoted to one case only, and an attached
\* item is not promoted as well.
ItemResolvedOnce ==
    \A e, g \in {a \in audit : a.action \in {"feed_item.promoted", "feed_item.attached"}} :
        e.item = g.item => e = g

\* "The desk deliberately locks approved cases": an approved case never changes.
ApprovedCaseIsLocked ==
    [][\A i \in Incidents : incident[i] # None /\ incident[i].state = "approved" =>
          incident'[i] = incident[i] /\ EvidenceOf(i)' = EvidenceOf(i)]_vars

Lifecycle == <<"triage", "investigating", "review-ready", "approved">>

\* A case moves one lifecycle step forward at a time and never back.
LifecycleMovesForward ==
    [][\A i \in Incidents : incident[i] # None =>
          \/ incident'[i].state = incident[i].state
          \/ \E n \in 1..3 : /\ incident[i].state = Lifecycle[n]
                             /\ incident'[i].state = Lifecycle[n + 1]]_vars
=============================================================================
