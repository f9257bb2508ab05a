--------------------------- MODULE CaseDeskProofs ---------------------------
(***************************************************************************)
(* Proofs about CaseDesk, for any number of cases, items and sources, any  *)
(* analyst input and any bound on the evidence table: first what holds     *)
(* however many requests overlap, then what needs them one at a time.      *)
(***************************************************************************)
EXTENDS CaseDesk, TLAPS

\* Typing of the unit of work: what it writes is a row when its inputs are rows.
LEMMA FlushType ==
    ASSUME NEW a \in Rows, NEW b \in Rows, NEW c \in Rows
    PROVE  /\ Flush(a, b, c) \in Rows
           /\ Flush(a, b, c).state = Emit(a.state, b.state, c.state)
           /\ Flush(a, b, c).fields = Emit(a.fields, b.fields, c.fields)
           /\ Flush(a, b, c).review = Emit(a.review, b.review, c.review)
  BY DEF Flush, Emit, Rows

LEMMA NoReviewType == NoReview \in Reviews
  BY DEF NoReview, Reviews

LEMMA ResetReviewType ==
    ASSUME NEW a \in Rows
    PROVE  ResetReview(a) \in Rows
  BY NoReviewType DEF ResetReview, Rows

\* The operation a thread is in tells what else it holds.
LEMMA RequestTypes ==
    ASSUME NEW r \in Requests
    PROVE  /\ r.op = "edit" => r \in EditRequest
           /\ r.op = "review" => r \in ReviewRequest
           /\ r.op = "transition" => r \in TransitionRequest
           /\ r.op = "evidence" => r \in EvidenceRequest
           /\ r.op = "promote" => r \in PromoteRequest
           /\ r.op = "attach-item" => r \in AttachItemRequest
           /\ r.op = "attach" => r \in AttachRequest
           /\ r.op = "export" => r \in ExportRequest
           /\ r.op = "export-write" => r \in ExportWriteRequest
           /\ r.op = "export-commit" => r \in ExportCommitRequest
  BY DEF Requests, Idle, EditRequest, ReviewRequest, TransitionRequest, EvidenceRequest,
         PromoteRequest, AttachItemRequest, AttachRequest, ExportRequest,
         ExportWriteRequest, ExportCommitRequest

\* Rows are never deleted: a thread that loaded a case still finds it.
HoldsRow(r) == r.op \in {"edit", "review", "transition", "evidence", "attach", "export"}

LoadedExists ==
    \A h \in Handlers : HoldsRow(req[h]) => incident[req[h].incident] # None

LEMMA LoadedTypes ==
    ASSUME NEW r \in Requests, HoldsRow(r)
    PROVE  r.incident \in Incidents /\ r.loaded \in Rows
  BY RequestTypes DEF HoldsRow, EditRequest, ReviewRequest, TransitionRequest,
     EvidenceRequest, AttachRequest, ExportRequest

\* The effect of an UPDATE: one row, which stays a row.
LEMMA UpdateCaseEffect ==
    ASSUME TypeOK, LoadedExists, NEW h \in Handlers, HoldsRow(req[h]),
           NEW new \in Rows, UpdateCase(req[h], new)
    PROVE  /\ incident' \in [Incidents -> Rows \cup {None}]
           /\ incident[req[h].incident] \in Rows
           /\ incident'[req[h].incident] =
                 Flush(incident[req[h].incident], req[h].loaded, new)
           /\ incident'[req[h].incident] \in Rows
           /\ \A i \in Incidents \ {req[h].incident} : incident'[i] = incident[i]
           /\ \A i \in Incidents : incident'[i] = None <=> incident[i] = None
<1>1. req[h] \in Requests
  BY DEF TypeOK
<1>2. req[h].incident \in Incidents /\ req[h].loaded \in Rows
  BY <1>1, LoadedTypes
<1>3. incident[req[h].incident] \in Rows
  BY <1>2 DEF TypeOK, LoadedExists
<1>4. Flush(incident[req[h].incident], req[h].loaded, new) \in Rows
  BY <1>2, <1>3, FlushType
<1> QED
  BY <1>2, <1>3, <1>4, ConstantsAssumption DEF TypeOK, UpdateCase

LEMMA ContentType ==
    ASSUME TypeOK, NEW i \in Incidents, incident[i] # None
    PROVE  Content(i) \in Contents
<1>1. incident[i] \in Rows
  BY DEF TypeOK
<1>2. EvidenceOf(i) \in SUBSET Nat
  BY DEF EvidenceOf, TypeOK
<1> QED
  BY <1>1, <1>2 DEF Content, Contents, Rows

TypeInv == TypeOK /\ LoadedExists

LEMMA TypeInit == Init => TypeInv
  BY DEF Init, TypeInv, TypeOK, ItemRows, EvidenceRows, Requests, LoadedExists, HoldsRow,
         Idle

LEMMA TypeNext == TypeInv /\ [Next]_vars => TypeOK'
<1> SUFFICES ASSUME TypeOK, LoadedExists, [Next]_vars PROVE TypeOK'
  BY DEF TypeInv
<1> USE ConstantsAssumption DEF TypeOK, Begin, Finish, Holds
<1>1. ASSUME NEW i \in Incidents, NEW d \in Drafts, AddIncident(i, d) PROVE TypeOK'
  BY <1>1, NoReviewType DEF AddIncident, NewCase, Drafts, Rows, Fields, States
<1>2. ASSUME NEW h \in Handlers, NEW i \in Incidents, NEW f \in EditInputs, EditLoad(h, i, f)
      PROVE TypeOK'
  BY <1>2 DEF EditLoad, Requests, EditRequest, Fields
<1>3. ASSUME NEW h \in Handlers, NEW i \in Incidents, NEW r \in ReviewInputs,
             ReviewLoad(h, i, r)
      PROVE TypeOK'
  BY <1>3 DEF ReviewLoad, Requests, ReviewRequest
<1>4. ASSUME NEW h \in Handlers, NEW i \in Incidents, NEW to \in States,
             TransitionLoad(h, i, to)
      PROVE TypeOK'
  BY <1>4 DEF TransitionLoad, Requests, TransitionRequest
<1>5. ASSUME NEW h \in Handlers, NEW i \in Incidents, NEW s \in Sources,
             EvidenceLoad(h, i, s)
      PROVE TypeOK'
  BY <1>5 DEF EvidenceLoad, Requests, EvidenceRequest
<1>6. ASSUME NEW h \in Handlers, NEW i \in Incidents, NEW x \in Items,
             AttachLoadItem(h, x, i)
      PROVE TypeOK'
  BY <1>6 DEF AttachLoadItem, Requests, AttachItemRequest
<1>7. ASSUME NEW h \in Handlers, NEW i \in Incidents, NEW d \in Drafts,
             PromoteCommit(h, i, d)
      PROVE TypeOK'
  <2>1. req[h] \in PromoteRequest
    BY <1>7, RequestTypes DEF PromoteCommit
  <2>2. SourceOf[req[h].item] \in Sources
    BY <2>1 DEF PromoteRequest
  <2>3. incident' \in [Incidents -> Rows \cup {None}]
    BY <1>7, NoReviewType DEF PromoteCommit, NewCase, Drafts, Rows, Fields, States
  <2>4. evidence' \in Seq(EvidenceRows)
    BY <1>7, <2>2 DEF PromoteCommit, InsertEvidence, EvidenceRows
  <2>5. item' \in [Items -> ItemRows] /\ audit' \subseteq AuditEntries
    BY <1>7, <2>1 DEF PromoteCommit, PromoteRequest, Record, ItemRows, AuditEntries
  <2>6. req' \in [Handlers -> Requests] /\ UNCHANGED <<file, vetted>>
    BY <1>7 DEF PromoteCommit, Requests
  <2> QED
    BY <2>3, <2>4, <2>5, <2>6
<1>8. ASSUME NEW h \in Handlers, NEW i \in Incidents, ExportLoad(h, i) PROVE TypeOK'
  BY <1>8 DEF ExportLoad, Requests, ExportRequest
<1>9. ASSUME NEW h \in Handlers, NEW x \in Items, PromoteLoad(h, x) PROVE TypeOK'
  BY <1>9 DEF PromoteLoad, Requests, PromoteRequest
<1>10. ASSUME NEW h \in Handlers, EditCommit(h) PROVE TypeOK'
  <2>1. req[h] \in EditRequest /\ HoldsRow(req[h])
    BY <1>10, RequestTypes DEF EditCommit, HoldsRow
  <2>2. ResetReview([req[h].loaded EXCEPT !.fields = req[h].fields]) \in Rows
    BY <2>1, NoReviewType DEF EditRequest, Rows, ResetReview
  <2>3. incident' \in [Incidents -> Rows \cup {None}]
    BY <1>10, <2>1, <2>2, UpdateCaseEffect DEF EditCommit
  <2> QED
    BY <1>10, <2>3 DEF EditCommit, Requests
<1>11. ASSUME NEW h \in Handlers, ReviewCommit(h) PROVE TypeOK'
  <2> DEFINE i == req[h].incident
  <2>1. req[h] \in ReviewRequest /\ HoldsRow(req[h])
    BY <1>11, RequestTypes DEF ReviewCommit, HoldsRow
  <2>2. [req[h].loaded EXCEPT !.review = req[h].review] \in Rows
    BY <2>1 DEF ReviewRequest, Rows
  <2>3. /\ incident' \in [Incidents -> Rows \cup {None}]
        /\ incident[i] \in Rows
    BY <1>11, <2>1, <2>2, UpdateCaseEffect DEF ReviewCommit
  <2>4. Content(i) \in Contents
    BY <2>1, ContentType DEF ReviewRequest, LoadedExists
  <2>5. vetted' \in [Incidents -> Contents \cup {None}]
    BY <1>11, <2>1, <2>4 DEF ReviewCommit, ReviewRequest
  <2> QED
    BY <1>11, <2>3, <2>5 DEF ReviewCommit, Requests
<1>12. ASSUME NEW h \in Handlers, TransitionCommit(h) PROVE TypeOK'
  <2>1. req[h] \in TransitionRequest /\ HoldsRow(req[h])
    BY <1>12, RequestTypes DEF TransitionCommit, HoldsRow
  <2>2. [req[h].loaded EXCEPT !.state = req[h].to] \in Rows
    BY <2>1 DEF TransitionRequest, Rows
  <2>3. incident' \in [Incidents -> Rows \cup {None}]
    BY <1>12, <2>1, <2>2, UpdateCaseEffect DEF TransitionCommit
  <2>4. audit' \subseteq AuditEntries
    BY <1>12, <2>1 DEF TransitionCommit, TransitionRequest, Record, AuditEntries
  <2> QED
    BY <1>12, <2>3, <2>4 DEF TransitionCommit, Requests
<1>13. ASSUME NEW h \in Handlers, TransitionRefused(h) PROVE TypeOK'
  BY <1>13 DEF TransitionRefused, Requests
<1>14. ASSUME NEW h \in Handlers, EvidenceCommit(h) PROVE TypeOK'
  <2>1. req[h] \in EvidenceRequest /\ HoldsRow(req[h])
    BY <1>14, RequestTypes DEF EvidenceCommit, HoldsRow
  <2>2. incident' \in [Incidents -> Rows \cup {None}]
    BY <1>14, <2>1, ResetReviewType, UpdateCaseEffect DEF EvidenceCommit, EvidenceRequest
  <2>3. evidence' \in Seq(EvidenceRows)
    BY <1>14, <2>1 DEF EvidenceCommit, EvidenceRequest, InsertEvidence, EvidenceRows
  <2> QED
    BY <1>14, <2>2, <2>3 DEF EvidenceCommit, Requests
<1>15. ASSUME NEW h \in Handlers, AttachLoadCase(h) PROVE TypeOK'
  <2>1. req[h] \in AttachItemRequest
    BY <1>15, RequestTypes DEF AttachLoadCase
  <2> QED
    BY <1>15, <2>1 DEF AttachLoadCase, AttachItemRequest, AttachRequest, Requests
<1>16. ASSUME NEW h \in Handlers, AttachCommit(h) PROVE TypeOK'
  <2>1. req[h] \in AttachRequest /\ HoldsRow(req[h])
    BY <1>16, RequestTypes DEF AttachCommit, HoldsRow
  <2>2. incident' \in [Incidents -> Rows \cup {None}]
    BY <1>16, <2>1, ResetReviewType, UpdateCaseEffect DEF AttachCommit, AttachRequest
  <2>3. SourceOf[req[h].item] \in Sources
    BY <2>1 DEF AttachRequest
  <2>4. evidence' \in Seq(EvidenceRows)
    BY <1>16, <2>1, <2>3 DEF AttachCommit, AttachRequest, InsertEvidence, EvidenceRows
  <2>5. item' \in [Items -> ItemRows] /\ audit' \subseteq AuditEntries
    BY <1>16, <2>1 DEF AttachCommit, AttachRequest, Record, ItemRows, AuditEntries
  <2> QED
    BY <1>16, <2>2, <2>4, <2>5 DEF AttachCommit, Requests
<1>17. ASSUME NEW h \in Handlers, ExportBuild(h) PROVE TypeOK'
  <2>1. req[h] \in ExportRequest
    BY <1>17, RequestTypes DEF ExportBuild
  <2>2. EvidenceOf(req[h].incident) \in SUBSET Nat
    BY DEF EvidenceOf
  <2> QED
    BY <1>17, <2>1, <2>2
    DEF ExportBuild, ExportRequest, ExportWriteRequest, Requests, Contents, Rows
<1>18. ASSUME NEW h \in Handlers, ExportWrite(h) PROVE TypeOK'
  <2>1. req[h] \in ExportWriteRequest
    BY <1>18, RequestTypes DEF ExportWrite
  <2> QED
    BY <1>18, <2>1 DEF ExportWrite, ExportWriteRequest, ExportCommitRequest, Requests
<1>19. ASSUME NEW h \in Handlers, ExportCommit(h) PROVE TypeOK'
  <2>1. req[h] \in ExportCommitRequest
    BY <1>19, RequestTypes DEF ExportCommit
  <2> QED
    BY <1>19, <2>1 DEF ExportCommit, ExportCommitRequest, Record, AuditEntries, Requests
<1>20. ASSUME NEW h \in Handlers, Fail(h) PROVE TypeOK'
  BY <1>20 DEF Fail, Requests
<1>21. CASE UNCHANGED vars
  BY <1>21 DEF vars
<1> QED
  BY <1>1, <1>2, <1>3, <1>4, <1>5, <1>6, <1>7, <1>8, <1>9, <1>10, <1>11, <1>12, <1>13,
     <1>14, <1>15, <1>16, <1>17, <1>18, <1>19, <1>20, <1>21 DEF Next

-----------------------------------------------------------------------------
(* Everything the handlers write is permanent: tables only grow, and an      *)
(* approval or an export once given has happened.                            *)
Monotone ==
    /\ \A i \in Incidents : incident[i] # None => incident'[i] # None
    /\ \A i \in Incidents : vetted[i] # None => vetted'[i] # None
    /\ \A i \in Incidents : file[i] # None => file'[i] # None
    /\ audit \subseteq audit'
    /\ \A k \in DOMAIN evidence : k \in DOMAIN evidence' /\ evidence'[k] = evidence[k]

LEMMA AppendKeeps ==
    ASSUME NEW i \in Incidents, NEW s \in Sources, TypeOK, InsertEvidence(i, s)
    PROVE  /\ \A k \in DOMAIN evidence : k \in DOMAIN evidence' /\ evidence'[k] = evidence[k]
           /\ \E k \in DOMAIN evidence' : evidence'[k] = [incident |-> i, source |-> s]
<1> DEFINE e == [incident |-> i, source |-> s]
<1>1. evidence \in Seq(EvidenceRows) /\ e \in EvidenceRows /\ evidence' = Append(evidence, e)
  BY DEF TypeOK, InsertEvidence, EvidenceRows
<1>2. /\ Len(evidence') = Len(evidence) + 1
      /\ evidence'[Len(evidence) + 1] = e
      /\ \A k \in 1..Len(evidence) : evidence'[k] = evidence[k]
      /\ DOMAIN evidence = 1..Len(evidence) /\ DOMAIN evidence' = 1..Len(evidence')
      /\ Len(evidence) \in Nat
  BY <1>1
<1> QED
  BY <1>2

LEMMA StepMonotone == TypeInv /\ TypeOK' /\ [Next]_vars => Monotone
<1> SUFFICES ASSUME TypeOK, LoadedExists, TypeOK', [Next]_vars PROVE Monotone
  BY DEF TypeInv
<1> USE DEF Monotone
<1>1. ASSUME NEW i \in Incidents, NEW d \in Drafts, AddIncident(i, d) PROVE Monotone
  BY <1>1 DEF AddIncident, NewCase, TypeOK
<1>2. ASSUME UNCHANGED <<incident, evidence, audit, file, vetted>> PROVE Monotone
  BY <1>2
<1>3. ASSUME NEW h \in Handlers, NEW i \in Incidents, NEW d \in Drafts,
             PromoteCommit(h, i, d)
      PROVE Monotone
  <2>1. req[h].item \in Items /\ SourceOf[req[h].item] \in Sources
    <3>1. req[h] \in PromoteRequest
      BY <1>3, RequestTypes DEF PromoteCommit, Holds, TypeOK
    <3> QED
      BY <3>1, ConstantsAssumption DEF PromoteRequest
  <2> QED
    <3>1. InsertEvidence(i, SourceOf[req[h].item]) /\ NewCase(i, d)
      BY <1>3 DEF PromoteCommit
    <3>2. \A k \in DOMAIN evidence : k \in DOMAIN evidence' /\ evidence'[k] = evidence[k]
      BY <3>1, <2>1, AppendKeeps
    <3>3. \A j \in Incidents : incident[j] # None => incident'[j] # None
      BY <3>1 DEF NewCase, TypeOK
    <3> QED
      BY <1>3, <3>2, <3>3 DEF PromoteCommit, Record
<1>4. ASSUME NEW h \in Handlers, EditCommit(h) PROVE Monotone
  <2>1. req[h] \in EditRequest /\ HoldsRow(req[h])
    BY <1>4, RequestTypes DEF EditCommit, Holds, HoldsRow, TypeOK
  <2>2. ResetReview([req[h].loaded EXCEPT !.fields = req[h].fields]) \in Rows
    BY <2>1, NoReviewType DEF EditRequest, Rows, ResetReview
  <2> QED
    BY <1>4, <2>1, <2>2, UpdateCaseEffect DEF EditCommit
<1>5. ASSUME NEW h \in Handlers, ReviewCommit(h) PROVE Monotone
  <2>1. req[h] \in ReviewRequest /\ HoldsRow(req[h])
    BY <1>5, RequestTypes DEF ReviewCommit, Holds, HoldsRow, TypeOK
  <2>2. [req[h].loaded EXCEPT !.review = req[h].review] \in Rows
    BY <2>1 DEF ReviewRequest, Rows
  <2>3. \A i \in Incidents : incident[i] # None => incident'[i] # None
    BY <1>5, <2>1, <2>2, UpdateCaseEffect DEF ReviewCommit
  <2>4. \A i \in Incidents : vetted[i] # None => vetted'[i] # None
    <3> DEFINE i == req[h].incident
    <3>1. i \in Incidents /\ Content(i) # None
      BY <2>1, ContentType, ConstantsAssumption
      DEF ReviewRequest, HoldsRow, LoadedExists
    <3>2. vetted' = vetted \/ vetted' = [vetted EXCEPT ![i] = Content(i)]
      BY <1>5 DEF ReviewCommit
    <3> QED
      BY <3>1, <3>2 DEF TypeOK
  <2> QED
    BY <1>5, <2>3, <2>4 DEF ReviewCommit
<1>6. ASSUME NEW h \in Handlers, TransitionCommit(h) PROVE Monotone
  <2>1. req[h] \in TransitionRequest /\ HoldsRow(req[h])
    BY <1>6, RequestTypes DEF TransitionCommit, Holds, HoldsRow, TypeOK
  <2>2. [req[h].loaded EXCEPT !.state = req[h].to] \in Rows
    BY <2>1 DEF TransitionRequest, Rows
  <2> QED
    BY <1>6, <2>1, <2>2, UpdateCaseEffect DEF TransitionCommit, Record
<1>7. ASSUME NEW h \in Handlers, EvidenceCommit(h) PROVE Monotone
  <2>1. req[h] \in EvidenceRequest /\ HoldsRow(req[h])
    BY <1>7, RequestTypes DEF EvidenceCommit, Holds, HoldsRow, TypeOK
  <2> QED
    BY <1>7, <2>1, ResetReviewType, UpdateCaseEffect, AppendKeeps
    DEF EvidenceCommit, EvidenceRequest
<1>8. ASSUME NEW h \in Handlers, AttachCommit(h) PROVE Monotone
  <2>1. req[h] \in AttachRequest /\ HoldsRow(req[h])
    BY <1>8, RequestTypes DEF AttachCommit, Holds, HoldsRow, TypeOK
  <2>2. SourceOf[req[h].item] \in Sources
    BY <2>1, ConstantsAssumption DEF AttachRequest
  <2> QED
    BY <1>8, <2>1, <2>2, ResetReviewType, UpdateCaseEffect, AppendKeeps
    DEF AttachCommit, AttachRequest, Record
<1>9. ASSUME NEW h \in Handlers, ExportWrite(h) PROVE Monotone
  <2>1. req[h] \in ExportWriteRequest
    BY <1>9, RequestTypes DEF ExportWrite, Holds, TypeOK
  <2>2. req[h].public # None
    BY <2>1, ConstantsAssumption DEF ExportWriteRequest
  <2> QED
    BY <1>9, <2>1, <2>2 DEF ExportWrite, TypeOK, ExportWriteRequest
<1>10. ASSUME NEW h \in Handlers, ExportCommit(h) PROVE Monotone
  BY <1>10 DEF ExportCommit, Record
<1> QED
  BY <1>1, <1>2, <1>3, <1>4, <1>5, <1>6, <1>7, <1>8, <1>9, <1>10
  DEF Next, EditLoad, ReviewLoad, TransitionLoad, EvidenceLoad, AttachLoadItem, ExportLoad,
      PromoteLoad, TransitionRefused, AttachLoadCase, ExportBuild, Fail, vars

-----------------------------------------------------------------------------
(* Type correctness, with the fact it rests on that a loaded row stays.      *)
LEMMA LoadedNext == TypeInv /\ TypeOK' /\ [Next]_vars => LoadedExists'
<1> SUFFICES ASSUME TypeOK, LoadedExists, TypeOK', [Next]_vars, Monotone PROVE LoadedExists'
  BY StepMonotone DEF TypeInv
<1> USE DEF LoadedExists, Begin, Finish, Holds, HoldsRow
<1>1. ASSUME UNCHANGED req PROVE LoadedExists'
  <2> SUFFICES ASSUME NEW h \in Handlers, HoldsRow(req[h]) PROVE incident'[req[h].incident] # None
    BY <1>1
  <2>1. req[h].incident \in Incidents
    BY LoadedTypes DEF TypeOK
  <2> QED
    BY <2>1 DEF Monotone
<1>2. ASSUME NEW h \in Handlers, NEW r,
             req' = [req EXCEPT ![h] = r],
             HoldsRow(r) => r.incident \in Incidents /\ incident[r.incident] # None
      PROVE  LoadedExists'
  <2> SUFFICES ASSUME NEW g \in Handlers, HoldsRow(req'[g])
               PROVE  incident'[req'[g].incident] # None
    OBVIOUS
  <2>1. CASE g = h
    BY <1>2, <2>1 DEF TypeOK, Monotone
  <2>2. CASE g # h
    <3>1. req'[g] = req[g]
      BY <1>2, <2>2 DEF TypeOK
    <3>2. req[g].incident \in Incidents
      BY <3>1, LoadedTypes DEF TypeOK
    <3> QED
      BY <3>1, <3>2 DEF Monotone
  <2> QED
    BY <2>1, <2>2
<1>3. ASSUME NEW h \in Handlers, Finish(h) PROVE LoadedExists'
  BY <1>2, <1>3 DEF Idle
<1>4. ASSUME NEW h \in Handlers, AttachLoadCase(h) PROVE LoadedExists'
  <2>1. req[h] \in AttachItemRequest
    BY <1>4, RequestTypes DEF AttachLoadCase, TypeOK
  <2> QED
    BY <1>2, <1>4, <2>1 DEF AttachLoadCase, AttachItemRequest, Idle
<1>5. ASSUME NEW h \in Handlers, ExportBuild(h) \/ ExportWrite(h) PROVE LoadedExists'
  BY <1>2, <1>5 DEF ExportBuild, ExportWrite, Idle
<1>6. ASSUME NEW h \in Handlers, NEW i \in Incidents,
             \/ \E f \in EditInputs : EditLoad(h, i, f)
             \/ \E r \in ReviewInputs : ReviewLoad(h, i, r)
             \/ \E to \in States : TransitionLoad(h, i, to)
             \/ \E s \in Sources : EvidenceLoad(h, i, s)
             \/ \E x \in Items : AttachLoadItem(h, x, i)
             \/ ExportLoad(h, i)
      PROVE  LoadedExists'
  BY <1>2, <1>6
  DEF EditLoad, ReviewLoad, TransitionLoad, EvidenceLoad, AttachLoadItem, ExportLoad
<1>7. ASSUME NEW h \in Handlers, NEW x \in Items, PromoteLoad(h, x) PROVE LoadedExists'
  BY <1>2, <1>7 DEF PromoteLoad
<1> QED
  BY <1>1, <1>3, <1>4, <1>5, <1>6, <1>7
  DEF Next, AddIncident, PromoteCommit, EditCommit, ReviewCommit, TransitionCommit,
      TransitionRefused, EvidenceCommit, AttachCommit, ExportCommit, Fail, vars

\* Type correctness: every table, file and thread state keeps its type, and every row
\* a handler updates exists when it does.
THEOREM TypeCorrect == Spec => []TypeOK
<1>1. Init => TypeInv
  BY TypeInit
<1>2. TypeInv /\ [Next]_vars => TypeInv'
  BY TypeNext, LoadedNext DEF TypeInv
<1>3. TypeInv => TypeOK
  BY DEF TypeInv
<1> QED
  BY <1>1, <1>2, <1>3, PTL DEF Spec

-----------------------------------------------------------------------------
(* The inductive invariant behind the safety properties that hold however    *)
(* the handlers interleave.  It is about snapshots as much as about the      *)
(* database: whatever a thread holds was once true, and what it was true of  *)
(* (audit, approvals, evidence) only grows.                                  *)
StateExplained(i, s) ==
    /\ s \in {"investigating", "review-ready", "approved"} => Transitioned(i, "investigating")
    /\ s \in {"review-ready", "approved"} => Transitioned(i, "review-ready")
    /\ s = "approved" =>
          Transitioned(i, "approved") /\ vetted[i] # None /\ EvidenceOf(i) # {}

RowExplained(i, row) ==
    /\ StateExplained(i, row.state)
    /\ row.review.human_approved => vetted[i] # None

ThreadExplained(r) ==
    /\ HoldsRow(r) => RowExplained(r.incident, r.loaded)
    /\ r.op = "transition" =>
          /\ AllowedStep(r.loaded.state, r.to)
          /\ r.to = "approved" => r.loaded.review.human_approved
    /\ r.op = "export-write" => MeetsGate(r.incident, r.public)
    /\ r.op = "export-commit" => file[r.incident] # None

RowsExplained == \A i \in Incidents : incident[i] # None => RowExplained(i, incident[i])

ThreadsExplained == \A h \in Handlers : ThreadExplained(req[h])

HistoryInv ==
    /\ RowsExplained
    /\ ThreadsExplained
    /\ ExportedRecordMeetsGate
    /\ ExportAuditHasFile

LEMMA EvidenceGrows ==
    ASSUME Monotone, NEW i \in Incidents
    PROVE  /\ EvidenceOf(i) \subseteq EvidenceOf(i)'
           /\ \A s : Transitioned(i, s) => Transitioned(i, s)'
  BY DEF Monotone, EvidenceOf, Transitioned

LEMMA ExplainedStays ==
    ASSUME Monotone, NEW i \in Incidents, NEW row \in Rows, RowExplained(i, row)
    PROVE  RowExplained(i, row)'
<1>1. StateExplained(i, row.state)'
  BY EvidenceGrows DEF RowExplained, StateExplained, Monotone
<1> QED
  BY <1>1 DEF RowExplained, Monotone

LEMMA MeetsGateStays ==
    ASSUME Monotone, NEW i \in Incidents, NEW public \in Contents, MeetsGate(i, public)
    PROVE  MeetsGate(i, public)'
<1>1. public.evidence \subseteq EvidenceOf(i) /\ public.evidence \subseteq EvidenceOf(i)'
  BY EvidenceGrows DEF MeetsGate
<1>2. \A k \in public.evidence : evidence'[k] = evidence[k]
  BY <1>1 DEF Monotone, EvidenceOf
<1>3. EvidenceSupports(public.fields.confidence, TRUE, public.evidence)'
  BY <1>2 DEF EvidenceSupports, MeetsGate
<1> QED
  BY <1>1, <1>3, EvidenceGrows DEF MeetsGate

LEMMA ThreadStays ==
    ASSUME Monotone, NEW r \in Requests, ThreadExplained(r)
    PROVE  ThreadExplained(r)'
<1>1. HoldsRow(r) => RowExplained(r.incident, r.loaded)'
  BY LoadedTypes, ExplainedStays DEF ThreadExplained
<1>2. r.op = "export-write" => MeetsGate(r.incident, r.public)'
  BY RequestTypes, MeetsGateStays DEF ThreadExplained, ExportWriteRequest
<1>3. r.op = "export-commit" => file'[r.incident] # None
  BY RequestTypes DEF ThreadExplained, ExportCommitRequest, Monotone
<1> QED
  BY <1>1, <1>2, <1>3 DEF ThreadExplained

\* An UPDATE writes each column either as it is or as the handler set it.
LEMMA FlushExplained ==
    ASSUME NEW i \in Incidents, NEW a \in Rows, NEW b \in Rows, NEW c \in Rows,
           RowExplained(i, a), RowExplained(i, c)
    PROVE  RowExplained(i, Flush(a, b, c))
  BY FlushType DEF RowExplained, Emit

\* What a step has to show: of the row it writes, of what the thread it moves
\* holds next, and of the file and the audit entry it writes.
LEMMA RowsStay ==
    ASSUME TypeOK, Monotone, RowsExplained,
           \A i \in Incidents : incident'[i] # incident[i] =>
               RowExplained(i, incident[i])'
    PROVE  RowsExplained'
<1> SUFFICES ASSUME NEW i \in Incidents, incident'[i] # None, incident'[i] = incident[i]
             PROVE  RowExplained(i, incident[i])'
  BY DEF RowsExplained
<1>1. incident[i] \in Rows /\ RowExplained(i, incident[i])
  BY DEF TypeOK, RowsExplained
<1> QED
  BY <1>1, ExplainedStays DEF RowExplained, StateExplained

LEMMA ThreadsStay ==
    ASSUME TypeOK, Monotone, ThreadsExplained, NEW h \in Handlers, NEW r,
           req' = [req EXCEPT ![h] = r], ThreadExplained(r)'
    PROVE  ThreadsExplained'
<1> SUFFICES ASSUME NEW g \in Handlers PROVE ThreadExplained(req[g])'
  BY DEF ThreadsExplained
<1>1. CASE g = h
  BY <1>1 DEF TypeOK
<1>2. CASE g # h
  <2>1. req'[g] = req[g] /\ req[g] \in Requests
    BY <1>2 DEF TypeOK
  <2>2. ThreadExplained(req[g])
    BY DEF ThreadsExplained
  <2> QED
    BY <2>1, <2>2, ThreadStays
<1> QED
  BY <1>1, <1>2

LEMMA IdleExplained == ThreadExplained(Idle) /\ ThreadExplained(Idle)'
  BY DEF ThreadExplained, Idle, HoldsRow

LEMMA UpdateExplained ==
    ASSUME TypeOK, LoadedExists, Monotone, RowsExplained, NEW h \in Handlers,
           NEW r \in Requests, req[h] = r, HoldsRow(r),
           NEW new \in Rows, UpdateCase(r, new), RowExplained(r.incident, new)'
    PROVE  RowsExplained'
<1>1. r.incident \in Incidents /\ r.loaded \in Rows
  BY LoadedTypes
<1>2. /\ incident[r.incident] \in Rows
      /\ incident'[r.incident] = Flush(incident[r.incident], r.loaded, new)
      /\ \A i \in Incidents \ {r.incident} : incident'[i] = incident[i]
  BY UpdateCaseEffect
<1>3. PICK old \in Rows : old = incident[r.incident]
  BY <1>2
<1>4. RowExplained(r.incident, old)
  BY <1>1, <1>3, ConstantsAssumption DEF RowsExplained
<1>5. RowExplained(r.incident, old)'
  BY <1>1, <1>4, ExplainedStays
<1>6. PICK written \in Rows : written = Flush(old, r.loaded, new)
  BY <1>1, FlushType
<1>7. RowExplained(r.incident, written)'
  BY <1>1, <1>5, <1>6, FlushType DEF RowExplained, StateExplained, Emit
<1>8. RowExplained(r.incident, incident[r.incident])'
  BY <1>2, <1>3, <1>6, <1>7 DEF RowExplained, StateExplained
<1>9. ASSUME NEW i \in Incidents, incident'[i] # incident[i]
      PROVE  RowExplained(i, incident[i])'
  BY <1>2, <1>8, <1>9
<1> QED
  BY <1>9, RowsStay

LEMMA FilesStay ==
    ASSUME TypeOK, Monotone, ExportedRecordMeetsGate, UNCHANGED file
    PROVE  ExportedRecordMeetsGate'
<1> SUFFICES ASSUME NEW i \in Incidents, file[i] # None
             PROVE  MeetsGate(i, file[i])'
  BY DEF ExportedRecordMeetsGate
<1>1. PICK public \in Contents : public = file[i]
  BY DEF TypeOK
<1>2. MeetsGate(i, public)'
  BY <1>1, MeetsGateStays DEF ExportedRecordMeetsGate
<1> QED
  BY <1>1, <1>2 DEF MeetsGate, EvidenceSupports, EvidenceOf, Transitioned

LEMMA ExportsStay ==
    ASSUME Monotone, ExportAuditHasFile, UNCHANGED audit
    PROVE  ExportAuditHasFile'
  BY DEF ExportAuditHasFile, Monotone

LEMMA HistoryInit == Init => HistoryInv
  BY IdleExplained
  DEF Init, HistoryInv, RowsExplained, ThreadsExplained, ExportedRecordMeetsGate,
      ExportAuditHasFile

LEMMA HistoryNext == TypeInv /\ TypeInv' /\ HistoryInv /\ [Next]_vars => HistoryInv'
<1> SUFFICES ASSUME TypeOK, LoadedExists, TypeOK', HistoryInv, [Next]_vars, Monotone
             PROVE  HistoryInv'
  BY StepMonotone DEF TypeInv
<1> USE DEF HistoryInv, Holds
<1>a. ASSUME NEW h \in Handlers, NEW r, req' = [req EXCEPT ![h] = r], ThreadExplained(r)',
             UNCHANGED <<incident, file, audit>>
      PROVE  HistoryInv'
  BY <1>a, RowsStay, ThreadsStay, FilesStay, ExportsStay
<1>b. ASSUME NEW h \in Handlers, Finish(h) PROVE ThreadsExplained'
  BY <1>b, IdleExplained, ThreadsStay DEF Finish
<1>1. ASSUME NEW i \in Incidents, NEW d \in Drafts, AddIncident(i, d) PROVE HistoryInv'
  <2>1. RowsExplained'
    <3>1. ASSUME NEW j \in Incidents, incident'[j] # incident[j]
          PROVE  RowExplained(j, incident[j])'
      BY <1>1, <3>1
      DEF AddIncident, NewCase, NoReview, RowExplained, StateExplained, TypeOK
    <3> QED
      BY <3>1, RowsStay
  <2>2. ThreadsExplained'
    <3> SUFFICES ASSUME NEW g \in Handlers PROVE ThreadExplained(req[g])'
      BY DEF ThreadsExplained
    <3>1. PICK r \in Requests : r = req[g]
      BY DEF TypeOK
    <3>2. ThreadExplained(r)'
      BY <3>1, ThreadStays DEF ThreadsExplained
    <3> QED
      BY <1>1, <3>1, <3>2, ThreadsStay DEF AddIncident, TypeOK
  <2> QED
    BY <1>1, <2>1, <2>2, FilesStay, ExportsStay DEF AddIncident
<1>2. ASSUME NEW h \in Handlers, NEW i \in Incidents,
             \/ \E f \in EditInputs : EditLoad(h, i, f)
             \/ \E r \in ReviewInputs : ReviewLoad(h, i, r)
             \/ \E to \in States : TransitionLoad(h, i, to)
             \/ \E s \in Sources : EvidenceLoad(h, i, s)
             \/ \E x \in Items : AttachLoadItem(h, x, i)
             \/ ExportLoad(h, i)
      PROVE  HistoryInv'
  <2>1. CASE \E x \in Items : AttachLoadItem(h, x, i)
    BY <1>a, <2>1 DEF AttachLoadItem, Begin, ThreadExplained, HoldsRow
  <2>2. CASE incident[i] # None
    <3>1. PICK row \in Rows : row = incident[i]
      BY <2>2 DEF TypeOK
    <3>2. RowExplained(i, row)'
      BY <2>2, <3>1, ExplainedStays DEF RowsExplained
    <3> USE <1>a, <3>1, <3>2 DEF Begin, ThreadExplained
    <3>3. ASSUME NEW f \in EditInputs, EditLoad(h, i, f) PROVE HistoryInv'
      BY <3>3 DEF EditLoad
    <3>4. ASSUME NEW r \in ReviewInputs, ReviewLoad(h, i, r) PROVE HistoryInv'
      BY <3>4 DEF ReviewLoad
    <3>5. ASSUME NEW to \in States, TransitionLoad(h, i, to) PROVE HistoryInv'
      BY <3>5 DEF TransitionLoad
    <3>6. ASSUME NEW s \in Sources, EvidenceLoad(h, i, s) PROVE HistoryInv'
      BY <3>6 DEF EvidenceLoad
    <3>7. CASE ExportLoad(h, i)
      BY <3>7 DEF ExportLoad
    <3> QED
      BY <1>2, <2>1, <3>3, <3>4, <3>5, <3>6, <3>7
  <2> QED
    BY <1>2, <2>1, <2>2 DEF EditLoad, ReviewLoad, TransitionLoad, EvidenceLoad, ExportLoad
<1>3. ASSUME NEW h \in Handlers, NEW x \in Items, PromoteLoad(h, x) PROVE HistoryInv'
  BY <1>3, <1>a DEF PromoteLoad, Begin, ThreadExplained, HoldsRow
<1>4. ASSUME NEW h \in Handlers, NEW i \in Incidents, NEW d \in Drafts,
             PromoteCommit(h, i, d)
      PROVE  HistoryInv'
  <2>1. RowsExplained'
    <3>1. ASSUME NEW j \in Incidents, incident'[j] # incident[j]
          PROVE  RowExplained(j, incident[j])'
      BY <1>4, <3>1
      DEF PromoteCommit, NewCase, NoReview, RowExplained, StateExplained, TypeOK
    <3> QED
      BY <3>1, RowsStay
  <2>2. ExportAuditHasFile'
    BY <1>4 DEF PromoteCommit, Record, ExportAuditHasFile, Monotone
  <2> QED
    BY <1>4, <1>b, <2>1, <2>2, FilesStay DEF PromoteCommit
<1>5. ASSUME NEW h \in Handlers, EditCommit(h) PROVE HistoryInv'
  <2>1. PICK r \in EditRequest : r = req[h] /\ r \in Requests /\ HoldsRow(r)
    BY <1>5, RequestTypes DEF EditCommit, TypeOK, HoldsRow
  <2>2. PICK new \in Rows : new = ResetReview([r.loaded EXCEPT !.fields = r.fields])
    BY <2>1, NoReviewType DEF EditRequest, Rows, ResetReview
  <2>3. RowExplained(r.incident, r.loaded)'
    BY <2>1, ThreadStays DEF ThreadsExplained, ThreadExplained
  <2>4. RowExplained(r.incident, new)'
    BY <2>1, <2>2, <2>3
    DEF RowExplained, ResetReview, NoReview, EditRequest, Rows
  <2>5. RowsExplained'
    BY <1>5, <2>1, <2>2, <2>4, UpdateExplained DEF EditCommit
  <2> QED
    BY <1>5, <1>b, <2>5, FilesStay, ExportsStay DEF EditCommit
<1>6. ASSUME NEW h \in Handlers, ReviewCommit(h) PROVE HistoryInv'
  <2>1. PICK r \in ReviewRequest : r = req[h] /\ r \in Requests /\ HoldsRow(r)
    BY <1>6, RequestTypes DEF ReviewCommit, TypeOK, HoldsRow
  <2>2. PICK new \in Rows : new = [r.loaded EXCEPT !.review = r.review]
    BY <2>1 DEF ReviewRequest, Rows
  <2>3. r.incident \in Incidents /\ r.loaded \in Rows /\ UpdateCase(r, new)
    BY <1>6, <2>1, <2>2, LoadedTypes DEF ReviewCommit
  <2>4. RowExplained(r.incident, r.loaded)'
    BY <2>1, ThreadStays DEF ThreadsExplained, ThreadExplained
  <2>5. incident'[r.incident].review = Emit(incident[r.incident].review, r.loaded.review, new.review)
    BY <2>1, <2>3, UpdateCaseEffect, FlushType
  <2>6. new.review.human_approved => vetted'[r.incident] # None
    <3>1. CASE new.review = r.loaded.review
      BY <2>4, <3>1 DEF RowExplained
    <3>2. CASE new.review # r.loaded.review
      <4>1. Content(r.incident) # None
        BY <2>1, <2>3, ContentType, ConstantsAssumption DEF LoadedExists
      <4>2. new.review.human_approved =>
               vetted' = [vetted EXCEPT ![r.incident] = Content(r.incident)]
        BY <1>6, <2>1, <2>5, <3>2 DEF ReviewCommit, Emit
      <4> QED
        BY <2>3, <4>1, <4>2 DEF TypeOK
    <3> QED
      BY <3>1, <3>2
  <2>7. RowExplained(r.incident, new)'
    BY <2>1, <2>2, <2>3, <2>4, <2>6 DEF RowExplained, Rows
  <2>8. RowsExplained'
    BY <2>1, <2>3, <2>7, UpdateExplained
  <2> QED
    BY <1>6, <1>b, <2>8, FilesStay, ExportsStay DEF ReviewCommit
<1>7. ASSUME NEW h \in Handlers, TransitionCommit(h) PROVE HistoryInv'
  <2>1. PICK r \in TransitionRequest : r = req[h] /\ r \in Requests /\ HoldsRow(r)
    BY <1>7, RequestTypes DEF TransitionCommit, TypeOK, HoldsRow
  <2>2. PICK new \in Rows : new = [r.loaded EXCEPT !.state = r.to]
    BY <2>1 DEF TransitionRequest, Rows
  <2>3. r.incident \in Incidents /\ r.loaded \in Rows /\ UpdateCase(r, new)
    BY <1>7, <2>1, <2>2, LoadedTypes DEF TransitionCommit
  <2>4. ThreadExplained(r) /\ RowExplained(r.incident, r.loaded)'
    BY <2>1, ThreadStays DEF ThreadsExplained, ThreadExplained
  <2>5. Transitioned(r.incident, r.to)'
    BY <1>7, <2>1 DEF TransitionCommit, Record, Transitioned
  <2>6. r.to = "approved" => vetted'[r.incident] # None
    BY <2>1, <2>4 DEF ThreadExplained, RowExplained, TransitionRequest
  <2>7. r.to = "approved" => EvidenceOf(r.incident)' # {}
    BY <1>7, <2>1, <2>3, EvidenceGrows
    DEF TransitionCommit, PassesGate, Publishable, EvidenceSupports
  <2>8. StateExplained(r.incident, r.to)'
    BY <2>1, <2>4, <2>5, <2>6, <2>7
    DEF ThreadExplained, AllowedStep, RowExplained, StateExplained, TransitionRequest
  <2>9. RowExplained(r.incident, new)'
    BY <2>2, <2>3, <2>4, <2>8 DEF RowExplained, Rows
  <2>10. RowsExplained'
    BY <2>1, <2>3, <2>9, UpdateExplained
  <2>11. ExportAuditHasFile'
    BY <1>7 DEF TransitionCommit, Record, ExportAuditHasFile, Monotone
  <2> QED
    BY <1>7, <1>b, <2>10, <2>11, FilesStay DEF TransitionCommit
<1>8. ASSUME NEW h \in Handlers, EvidenceCommit(h) PROVE HistoryInv'
  <2>1. PICK r \in EvidenceRequest : r = req[h] /\ r \in Requests /\ HoldsRow(r)
    BY <1>8, RequestTypes DEF EvidenceCommit, TypeOK, HoldsRow
  <2>2. PICK new \in Rows : new = ResetReview(r.loaded)
    BY <2>1, ResetReviewType DEF EvidenceRequest
  <2>3. RowExplained(r.incident, r.loaded)'
    BY <2>1, ThreadStays DEF ThreadsExplained, ThreadExplained
  <2>4. RowExplained(r.incident, new)'
    BY <2>1, <2>2, <2>3
    DEF RowExplained, ResetReview, NoReview, EvidenceRequest, Rows
  <2>5. RowsExplained'
    BY <1>8, <2>1, <2>2, <2>4, UpdateExplained DEF EvidenceCommit
  <2> QED
    BY <1>8, <1>b, <2>5, FilesStay, ExportsStay DEF EvidenceCommit
<1>9. ASSUME NEW h \in Handlers, AttachLoadCase(h) PROVE HistoryInv'
  <2>1. PICK r \in AttachItemRequest : r = req[h]
    BY <1>9, RequestTypes DEF AttachLoadCase, TypeOK
  <2>2. CASE incident[r.incident] # None
    <3>1. r.incident \in Incidents
      BY <2>1 DEF AttachItemRequest
    <3>2. PICK row \in Rows : row = incident[r.incident]
      BY <2>2, <3>1 DEF TypeOK
    <3>3. RowExplained(r.incident, row)'
      BY <2>2, <3>1, <3>2, ExplainedStays DEF RowsExplained
    <3>4. ThreadExplained([op |-> "attach", item |-> r.item, incident |-> r.incident,
                           loaded |-> row])'
      BY <3>3 DEF ThreadExplained
    <3> QED
      BY <1>9, <1>a, <2>1, <3>2, <3>4, IdleExplained DEF AttachLoadCase
  <2>3. CASE incident[r.incident] = None
    BY <1>9, <1>a, <2>1, <2>3, IdleExplained DEF AttachLoadCase
  <2> QED
    BY <2>2, <2>3
<1>10. ASSUME NEW h \in Handlers, AttachCommit(h) PROVE HistoryInv'
  <2>1. PICK r \in AttachRequest : r = req[h] /\ r \in Requests /\ HoldsRow(r)
    BY <1>10, RequestTypes DEF AttachCommit, TypeOK, HoldsRow
  <2>2. PICK new \in Rows : new = ResetReview(r.loaded)
    BY <2>1, ResetReviewType DEF AttachRequest
  <2>3. RowExplained(r.incident, r.loaded)'
    BY <2>1, ThreadStays DEF ThreadsExplained, ThreadExplained
  <2>4. RowExplained(r.incident, new)'
    BY <2>1, <2>2, <2>3
    DEF RowExplained, ResetReview, NoReview, AttachRequest, Rows
  <2>5. RowsExplained'
    BY <1>10, <2>1, <2>2, <2>4, UpdateExplained DEF AttachCommit
  <2>6. ExportAuditHasFile'
    BY <1>10 DEF AttachCommit, Record, ExportAuditHasFile, Monotone
  <2> QED
    BY <1>10, <1>b, <2>5, <2>6, FilesStay DEF AttachCommit
<1>11. ASSUME NEW h \in Handlers, ExportBuild(h) PROVE HistoryInv'
  <2>1. PICK r \in ExportRequest : r = req[h] /\ HoldsRow(r)
    BY <1>11, RequestTypes DEF ExportBuild, TypeOK, HoldsRow
  <2>2. r.incident \in Incidents /\ r.loaded \in Rows
    BY <2>1 DEF ExportRequest
  <2>3. PICK rows \in SUBSET Nat : rows = EvidenceOf(r.incident)
    <3>1. EvidenceOf(r.incident) \in SUBSET Nat
      BY DEF EvidenceOf, TypeOK
    <3> QED
      BY <3>1
  <2>4. CASE Publishable(r.loaded, rows)
    <3>1. PICK public \in Contents : public = [fields |-> r.loaded.fields, evidence |-> rows]
      BY <2>2, <2>3 DEF Contents, Rows
    <3>2. RowExplained(r.incident, r.loaded)
      BY <2>1 DEF ThreadsExplained, ThreadExplained
    <3>3. MeetsGate(r.incident, public)
      BY <2>3, <2>4, <3>1, <3>2
      DEF MeetsGate, Publishable, EvidenceSupports, RowExplained, StateExplained
    <3>4. MeetsGate(r.incident, public)'
      BY <2>2, <3>3, MeetsGateStays
    <3>5. ThreadExplained([op |-> "export-write", incident |-> r.incident,
                           public |-> public])'
      BY <3>4 DEF ThreadExplained, HoldsRow
    <3> QED
      BY <1>11, <1>a, <2>1, <2>3, <2>4, <3>1, <3>5 DEF ExportBuild
  <2>5. CASE ~Publishable(r.loaded, rows)
    BY <1>11, <1>a, <2>1, <2>3, <2>5, IdleExplained DEF ExportBuild
  <2> QED
    BY <2>4, <2>5
<1>12. ASSUME NEW h \in Handlers, ExportWrite(h) PROVE HistoryInv'
  <2>1. PICK r \in ExportWriteRequest : r = req[h] /\ r \in Requests
    BY <1>12, RequestTypes DEF ExportWrite, TypeOK
  <2>2. r.incident \in Incidents /\ r.public \in Contents
    BY <2>1 DEF ExportWriteRequest
  <2>3. MeetsGate(r.incident, r.public)'
    BY <1>12, <2>1, ThreadStays DEF ExportWrite, ThreadsExplained, ThreadExplained
  <2>4. file' = [file EXCEPT ![r.incident] = r.public]
    BY <1>12, <2>1 DEF ExportWrite
  <2>5. ExportedRecordMeetsGate'
    <3> SUFFICES ASSUME NEW i \in Incidents, file'[i] # None
                 PROVE  MeetsGate(i, file[i])'
      BY DEF ExportedRecordMeetsGate
    <3>1. PICK public \in Contents : public = file'[i]
      BY DEF TypeOK
    <3>2. MeetsGate(i, public)'
      <4>1. CASE i = r.incident
        BY <2>2, <2>3, <2>4, <3>1, <4>1 DEF TypeOK
      <4>2. CASE i # r.incident
        <5>1. file[i] = public
          BY <2>2, <2>4, <3>1, <4>2 DEF TypeOK
        <5>2. MeetsGate(i, public)
          BY <5>1, <3>1 DEF ExportedRecordMeetsGate
        <5> QED
          BY <5>2, MeetsGateStays
      <4> QED
        BY <4>1, <4>2
    <3> QED
      BY <3>1, <3>2 DEF MeetsGate, EvidenceSupports, EvidenceOf, Transitioned
  <2>6. file'[r.incident] # None
    BY <2>2, <2>4, ConstantsAssumption DEF TypeOK
  <2>7. ThreadExplained([op |-> "export-commit", incident |-> r.incident])'
    BY <2>6 DEF ThreadExplained, HoldsRow
  <2>8. ThreadsExplained'
    BY <1>12, <2>1, <2>7, ThreadsStay DEF ExportWrite
  <2> QED
    BY <1>12, <2>5, <2>8, RowsStay, ExportsStay DEF ExportWrite
<1>13. ASSUME NEW h \in Handlers, ExportCommit(h) PROVE HistoryInv'
  <2>1. PICK r \in ExportCommitRequest : r = req[h]
    BY <1>13, RequestTypes DEF ExportCommit, TypeOK
  <2>2. file[r.incident] # None
    BY <1>13, <2>1 DEF ExportCommit, ThreadsExplained, ThreadExplained
  <2>3. ExportAuditHasFile'
    BY <1>13, <2>1, <2>2 DEF ExportCommit, Record, ExportAuditHasFile, ExportCommitRequest
  <2>4. RowsExplained'
    BY <1>13, RowsStay DEF ExportCommit
  <2> QED
    BY <1>13, <1>b, <2>3, <2>4, FilesStay DEF ExportCommit
<1>14. ASSUME NEW h \in Handlers, TransitionRefused(h) \/ Fail(h) PROVE HistoryInv'
  BY <1>14, <1>a, IdleExplained DEF TransitionRefused, Fail, Finish
<1>15. CASE UNCHANGED vars
  <2>1. ThreadsExplained'
    <3> SUFFICES ASSUME NEW g \in Handlers PROVE ThreadExplained(req[g])'
      BY DEF ThreadsExplained
    <3>1. PICK r \in Requests : r = req[g]
      BY DEF TypeOK
    <3>2. ThreadExplained(r)'
      BY <3>1, ThreadStays DEF ThreadsExplained
    <3> QED
      BY <1>15, <3>1, <3>2 DEF vars
  <2> QED
    BY <1>15, <2>1, RowsStay, FilesStay, ExportsStay DEF vars
<1> QED
  BY <1>1, <1>2, <1>3, <1>4, <1>5, <1>6, <1>7, <1>8, <1>9, <1>10, <1>11, <1>12, <1>13,
     <1>14, <1>15 DEF Next

LEMMA HistoryInvariant == Spec => [](TypeInv /\ HistoryInv)
<1>1. Init => TypeInv /\ HistoryInv
  BY TypeInit, HistoryInit
<1>2. TypeInv /\ HistoryInv /\ [Next]_vars => (TypeInv /\ HistoryInv)'
  BY TypeNext, LoadedNext, HistoryNext DEF TypeInv
<1> QED
  BY <1>1, <1>2, PTL DEF Spec

\* However requests interleave, an approved case went through every lifecycle step,
\* has evidence, and had a human approval stored for it.
THEOREM ApprovalHasHistory == Spec => []ApprovedWentThroughLifecycle
<1>1. HistoryInv => ApprovedWentThroughLifecycle
  BY DEF HistoryInv, RowsExplained, RowExplained, StateExplained, ApprovedWentThroughLifecycle
<1> QED
  BY <1>1, HistoryInvariant, PTL

\* However requests interleave, every exported file meets the evidence rules of its own
\* confidence label, cites evidence of its case, and belongs to a case approved once.
THEOREM ExportMeetsGate == Spec => []ExportedRecordMeetsGate
<1>1. HistoryInv => ExportedRecordMeetsGate
  BY DEF HistoryInv
<1> QED
  BY <1>1, HistoryInvariant, PTL

\* An audited export always left its file: the file is replaced before the entry is
\* committed, and a file is never removed.
THEOREM ExportAuditIsTrue == Spec => []ExportAuditHasFile
<1>1. HistoryInv => ExportAuditHasFile
  BY DEF HistoryInv
<1> QED
  BY <1>1, HistoryInvariant, PTL

-----------------------------------------------------------------------------
\* Item x, if resolved, has its evidence.
ItemHasEvidence(x) ==
    item[x].status \in {"promoted", "attached"} =>
        /\ item[x].incident \in Incidents
        /\ incident[item[x].incident] # None
        /\ \E k \in EvidenceOf(item[x].incident) : evidence[k].source = SourceOf[x]

LEMMA ItemStays ==
    ASSUME Monotone, NEW x \in Items, ItemHasEvidence(x), item'[x] = item[x]
    PROVE  ItemHasEvidence(x)'
  BY DEF ItemHasEvidence, Monotone, EvidenceOf

LEMMA ItemResolves ==
    ASSUME Monotone, TypeOK, NEW x \in Items, NEW i \in Incidents, incident'[i] # None,
           InsertEvidence(i, SourceOf[x]), item'[x].incident = i
    PROVE  ItemHasEvidence(x)'
<1>1. SourceOf[x] \in Sources
  BY ConstantsAssumption
<1>2. \E k \in DOMAIN evidence' : evidence'[k] = [incident |-> i, source |-> SourceOf[x]]
  BY <1>1, AppendKeeps
<1> QED
  BY <1>2 DEF ItemHasEvidence, EvidenceOf

LEMMA ResolvedNext ==
    TypeInv /\ TypeInv' /\ ResolvedItemHasEvidence /\ [Next]_vars => ResolvedItemHasEvidence'
<1> SUFFICES ASSUME TypeOK, LoadedExists, TypeOK', Monotone, [Next]_vars,
                    \A x \in Items : ItemHasEvidence(x),
                    NEW x \in Items
             PROVE  ItemHasEvidence(x)'
  BY StepMonotone DEF TypeInv, ResolvedItemHasEvidence, ItemHasEvidence
<1>1. ASSUME NEW h \in Handlers, NEW i \in Incidents, NEW d \in Drafts,
             PromoteCommit(h, i, d)
      PROVE  ItemHasEvidence(x)'
  <2>1. CASE x = req[h].item
    <3>1. InsertEvidence(i, SourceOf[x]) /\ NewCase(i, d)
      BY <1>1, <2>1 DEF PromoteCommit
    <3>2. incident'[i] # None
      <4>1. [state |-> "triage", fields |-> d, review |-> NoReview] \in Rows
        BY NoReviewType DEF Rows, Drafts, Fields, States
      <4> QED
        BY <3>1, <4>1, ConstantsAssumption DEF NewCase, TypeOK
    <3>3. item'[x].incident = i
      BY <1>1, <2>1 DEF PromoteCommit, TypeOK
    <3> QED
      BY <3>1, <3>2, <3>3, ItemResolves
  <2>2. CASE x # req[h].item
    BY <1>1, <2>2, ItemStays DEF PromoteCommit, TypeOK
  <2> QED
    BY <2>1, <2>2
<1>2. ASSUME NEW h \in Handlers, AttachCommit(h) PROVE ItemHasEvidence(x)'
  <2>1. PICK r \in AttachRequest : r = req[h] /\ HoldsRow(r)
    BY <1>2, RequestTypes DEF AttachCommit, Holds, TypeOK, HoldsRow
  <2>2. CASE x = r.item
    <3>1. InsertEvidence(r.incident, SourceOf[x]) /\ r.incident \in Incidents
      BY <1>2, <2>1, <2>2 DEF AttachCommit, AttachRequest
    <3>2. incident'[r.incident] # None
      BY <2>1, <3>1 DEF LoadedExists, Monotone
    <3>3. item'[x].incident = r.incident
      BY <1>2, <2>1, <2>2 DEF AttachCommit, TypeOK
    <3> QED
      BY <3>1, <3>2, <3>3, ItemResolves
  <2>3. CASE x # r.item
    BY <1>2, <2>1, <2>3, ItemStays DEF AttachCommit, TypeOK
  <2> QED
    BY <2>2, <2>3
<1>3. CASE UNCHANGED item
  BY <1>3, ItemStays
<1> QED
  BY <1>1, <1>2, <1>3
  DEF Next, vars, AddIncident, EditLoad, ReviewLoad, TransitionLoad, EvidenceLoad,
      AttachLoadItem, ExportLoad, PromoteLoad, EditCommit, ReviewCommit, TransitionCommit,
      TransitionRefused, EvidenceCommit, AttachLoadCase, ExportBuild, ExportWrite,
      ExportCommit, Fail

\* However requests interleave, and even when two of them promote one item, a resolved
\* item names an existing case that holds evidence from the item's source.
THEOREM ResolvedItemsAreBacked == Spec => []ResolvedItemHasEvidence
<1>1. Init => TypeInv /\ ResolvedItemHasEvidence
  BY TypeInit DEF Init, ResolvedItemHasEvidence
<1>2. TypeInv /\ ResolvedItemHasEvidence /\ [Next]_vars => (TypeInv /\ ResolvedItemHasEvidence)'
  BY TypeNext, LoadedNext, ResolvedNext DEF TypeInv
<1> QED
  BY <1>1, <1>2, PTL DEF Spec
-----------------------------------------------------------------------------
(***************************************************************************)
(* What the desk guarantees when requests do not overlap, as with one      *)
(* analyst who waits for each answer.  The assumption is necessary: with   *)
(* two threads TLC finds each of these properties violated.                *)
(***************************************************************************)

\* No two requests are ever in a handler together.
OneAtATime == \A g, h \in Handlers : g = h

\* With one request at a time, what a thread loaded is what the database holds.
SnapshotCurrent(r) ==
    /\ HoldsRow(r) => incident[r.incident] = r.loaded
    /\ r.op \in {"edit", "evidence", "attach"} => ~IsLocked(r.loaded)
    /\ r.op = "review" => r.loaded.state = "review-ready"
    /\ r.op = "transition" => AllowedStep(r.loaded.state, r.to)
    /\ r.op \in {"promote", "attach-item", "attach"} => item[r.item].status = "new"
    /\ r.op = "export-write" =>
          /\ incident[r.incident] # None
          /\ incident[r.incident].state = "approved"
          /\ r.public = vetted[r.incident]

\* What is stored of a case fits together: a human approval is for the content the case
\* has now, an approved case passes the gate, and an exported file is the vetted content.
CaseSound(i) ==
    /\ incident[i] # None =>
          /\ incident[i].review.human_approved => vetted[i] = Content(i)
          /\ incident[i].state = "approved" => Publishable(incident[i], EvidenceOf(i))
    /\ file[i] # None =>
          /\ file[i] = vetted[i]
          /\ incident[i] # None
          /\ incident[i].state = "approved"

Resolutions == {a \in audit : a.action \in {"feed_item.promoted", "feed_item.attached"}}

AuditedItemIsResolved == \A a \in Resolutions : item[a.item].status # "new"

SerialInv ==
    /\ \A h \in Handlers : SnapshotCurrent(req[h])
    /\ \A i \in Incidents : CaseSound(i)
    /\ AuditedItemIsResolved
    /\ ItemResolvedOnce

LEMMA FlushCurrent ==
    ASSUME NEW a \in Rows, NEW c \in Rows
    PROVE  Flush(a, a, c) = c
  BY DEF Flush, Emit, Rows

LEMMA UpdateCurrent ==
    ASSUME TypeOK, NEW r \in Requests, HoldsRow(r), incident[r.incident] = r.loaded,
           NEW new \in Rows, UpdateCase(r, new)
    PROVE  incident' = [incident EXCEPT ![r.incident] = new]
<1>1. r.incident \in Incidents /\ r.loaded \in Rows
  BY LoadedTypes
<1>2. Flush(incident[r.incident], r.loaded, new) = new
  BY <1>1, FlushCurrent
<1> QED
  BY <1>1, <1>2 DEF UpdateCase, TypeOK

\* An inserted row belongs to one case; what the other cases show is unchanged.
LEMMA InsertElsewhere ==
    ASSUME TypeOK, NEW i \in Incidents, NEW s \in Sources, InsertEvidence(i, s),
           NEW j \in Incidents \ {i}
    PROVE  EvidenceOf(j)' = EvidenceOf(j)
<1>1. evidence \in Seq(EvidenceRows) /\ [incident |-> i, source |-> s] \in EvidenceRows
  BY DEF TypeOK, EvidenceRows
<1>2. /\ DOMAIN evidence = 1..Len(evidence) /\ DOMAIN evidence' = 1..(Len(evidence) + 1)
      /\ Len(evidence) \in Nat
      /\ \A k \in 1..Len(evidence) : evidence'[k] = evidence[k]
      /\ evidence'[Len(evidence) + 1].incident = i
  BY <1>1 DEF InsertEvidence
<1> QED
  BY <1>2 DEF EvidenceOf

LEMMA CaseStays ==
    ASSUME TypeOK, Monotone, NEW i \in Incidents, CaseSound(i),
           incident'[i] = incident[i], EvidenceOf(i)' = EvidenceOf(i),
           vetted'[i] = vetted[i], file'[i] = file[i]
    PROVE  CaseSound(i)'
<1>1. \A k \in EvidenceOf(i) : evidence'[k] = evidence[k]
  BY DEF EvidenceOf, Monotone
<1>2. Content(i)' = Content(i)
  BY DEF Content
<1>3. incident[i] # None /\ Publishable(incident[i], EvidenceOf(i)) =>
         Publishable(incident[i], EvidenceOf(i))'
  BY <1>1 DEF Publishable, EvidenceSupports
<1> QED
  BY <1>2, <1>3 DEF CaseSound

LEMMA SerialInit == Init => SerialInv
  BY DEF Init, SerialInv, SnapshotCurrent, Idle, HoldsRow, CaseSound, Resolutions,
         AuditedItemIsResolved, ItemResolvedOnce

LEMMA SerialNext ==
    ASSUME OneAtATime
    PROVE  TypeInv /\ TypeInv' /\ SerialInv /\ [Next]_vars => SerialInv'
<1> SUFFICES ASSUME TypeOK, LoadedExists, TypeOK', SerialInv, [Next]_vars, Monotone
             PROVE  SerialInv'
  BY StepMonotone DEF TypeInv
<1> USE DEF SerialInv, Holds
<1>a. ASSUME NEW h \in Handlers, NEW r, req' = [req EXCEPT ![h] = r], SnapshotCurrent(r)'
      PROVE  \A g \in Handlers : SnapshotCurrent(req[g])'
  <2>1. \A g \in Handlers : g = h
    BY DEF OneAtATime
  <2>2. req'[h] = r
    BY <1>a DEF TypeOK
  <2> QED
    BY <1>a, <2>1, <2>2
<1>b. ASSUME NEW h \in Handlers, Finish(h)
      PROVE  \A g \in Handlers : SnapshotCurrent(req[g])'
  BY <1>a, <1>b DEF Finish, SnapshotCurrent, Idle, HoldsRow
<1>c. ASSUME UNCHANGED <<incident, evidence, vetted, file>>
      PROVE  \A i \in Incidents : CaseSound(i)'
  BY <1>c, CaseStays DEF EvidenceOf
<1>d. ASSUME UNCHANGED <<audit, item>> PROVE AuditedItemIsResolved' /\ ItemResolvedOnce'
  BY <1>d DEF AuditedItemIsResolved, Resolutions, ItemResolvedOnce
<1>e. ASSUME NEW x \in Items, NEW i \in Incidents, NEW to \in {"promoted", "attached"},
             NEW entry, entry.item = x, entry.action \in {"feed_item.promoted", "feed_item.attached"},
             item[x].status = "new", audit' = audit \cup {entry},
             item' = [item EXCEPT ![x] = [status |-> to, incident |-> i]]
      PROVE  AuditedItemIsResolved' /\ ItemResolvedOnce'
  <2>1. \A a \in Resolutions : a.item # x
    BY <1>e DEF AuditedItemIsResolved
  <2>2. Resolutions' = Resolutions \cup {entry}
    BY <1>e DEF Resolutions
  <2>3. \A a \in Resolutions : a.item \in Items
    BY DEF Resolutions, TypeOK, AuditEntries
  <2>4. AuditedItemIsResolved'
    BY <1>e, <2>1, <2>2, <2>3 DEF AuditedItemIsResolved, TypeOK
  <2>5. ItemResolvedOnce'
    BY <2>1, <2>2, <1>e DEF ItemResolvedOnce, Resolutions
  <2> QED
    BY <2>4, <2>5
<1>f. ASSUME NEW entry, audit' = audit \cup {entry}, UNCHANGED item,
             entry.action \notin {"feed_item.promoted", "feed_item.attached"}
      PROVE  AuditedItemIsResolved' /\ ItemResolvedOnce'
  BY <1>f DEF AuditedItemIsResolved, Resolutions, ItemResolvedOnce
<1>1. ASSUME NEW i \in Incidents, NEW d \in Drafts, AddIncident(i, d) PROVE SerialInv'
  <2>1. ASSUME NEW g \in Handlers PROVE SnapshotCurrent(req[g])'
    <3>1. req[g] \in Requests /\ SnapshotCurrent(req[g])
      BY DEF TypeOK
    <3>2. \A j \in Incidents : incident[j] # None => incident'[j] = incident[j]
      BY <1>1 DEF AddIncident, NewCase, TypeOK
    <3>3. HoldsRow(req[g]) => incident'[req[g].incident] = req[g].loaded
      BY <3>1, <3>2, LoadedTypes DEF SnapshotCurrent, LoadedExists
    <3>4. req[g].op = "export-write" =>
             incident'[req[g].incident] = incident[req[g].incident]
      BY <3>1, <3>2, RequestTypes DEF SnapshotCurrent, ExportWriteRequest
    <3> QED
      BY <1>1, <3>1, <3>3, <3>4 DEF AddIncident, SnapshotCurrent
  <2>2. ASSUME NEW j \in Incidents PROVE CaseSound(j)'
    <3>1. CASE j = i
      BY <1>1, <3>1 DEF AddIncident, NewCase, NoReview, CaseSound, TypeOK
    <3>2. CASE j # i
      BY <1>1, <3>2, CaseStays DEF AddIncident, NewCase, EvidenceOf, TypeOK
    <3> QED
      BY <3>1, <3>2
  <2> QED
    BY <1>1, <1>d, <2>1, <2>2 DEF AddIncident
<1>2. ASSUME NEW h \in Handlers, NEW i \in Incidents,
             \/ \E f \in EditInputs : EditLoad(h, i, f)
             \/ \E r \in ReviewInputs : ReviewLoad(h, i, r)
             \/ \E to \in States : TransitionLoad(h, i, to)
             \/ \E s \in Sources : EvidenceLoad(h, i, s)
             \/ \E x \in Items : AttachLoadItem(h, x, i)
             \/ ExportLoad(h, i)
      PROVE  SerialInv'
  <2> USE <1>a, <1>c, <1>d DEF Begin, SnapshotCurrent, HoldsRow
  <2>1. ASSUME NEW f \in EditInputs, EditLoad(h, i, f) PROVE SerialInv'
    BY <2>1 DEF EditLoad
  <2>2. ASSUME NEW r \in ReviewInputs, ReviewLoad(h, i, r) PROVE SerialInv'
    BY <2>2 DEF ReviewLoad
  <2>3. ASSUME NEW to \in States, TransitionLoad(h, i, to) PROVE SerialInv'
    BY <2>3 DEF TransitionLoad
  <2>4. ASSUME NEW s \in Sources, EvidenceLoad(h, i, s) PROVE SerialInv'
    BY <2>4 DEF EvidenceLoad
  <2>5. ASSUME NEW x \in Items, AttachLoadItem(h, x, i) PROVE SerialInv'
    BY <2>5 DEF AttachLoadItem
  <2>6. CASE ExportLoad(h, i)
    BY <2>6 DEF ExportLoad
  <2> QED
    BY <1>2, <2>1, <2>2, <2>3, <2>4, <2>5, <2>6
<1>3. ASSUME NEW h \in Handlers, NEW x \in Items, PromoteLoad(h, x) PROVE SerialInv'
  BY <1>3, <1>a, <1>c, <1>d DEF PromoteLoad, Begin, SnapshotCurrent, HoldsRow
<1>4. ASSUME NEW h \in Handlers, NEW i \in Incidents, NEW d \in Drafts,
             PromoteCommit(h, i, d)
      PROVE  SerialInv'
  <2>1. PICK r \in PromoteRequest : r = req[h]
    BY <1>4, RequestTypes DEF PromoteCommit, TypeOK
  <2>2. r.item \in Items /\ SourceOf[r.item] \in Sources /\ item[r.item].status = "new"
    BY <1>4, <2>1, ConstantsAssumption DEF PromoteCommit, PromoteRequest, SnapshotCurrent
  <2>3. NewCase(i, d) /\ InsertEvidence(i, SourceOf[r.item]) /\ UNCHANGED <<file, vetted>>
    BY <1>4, <2>1 DEF PromoteCommit
  <2>4. ASSUME NEW j \in Incidents PROVE CaseSound(j)'
    <3>1. CASE j = i
      BY <2>3, <3>1 DEF NewCase, NoReview, CaseSound, TypeOK
    <3>2. CASE j # i
      BY <2>2, <2>3, <3>2, CaseStays, InsertElsewhere DEF NewCase, TypeOK
    <3> QED
      BY <3>1, <3>2
  <2>5. AuditedItemIsResolved' /\ ItemResolvedOnce'
    <3>1. PICK entry : entry = [action |-> "feed_item.promoted", item |-> r.item, incident |-> i]
      OBVIOUS
    <3> QED
      BY <1>4, <1>e, <2>1, <2>2, <3>1 DEF PromoteCommit, Record
  <2> QED
    BY <1>4, <1>b, <2>4, <2>5 DEF PromoteCommit
<1>5. ASSUME NEW h \in Handlers, EditCommit(h) PROVE SerialInv'
  <2>1. PICK r \in EditRequest : r = req[h] /\ r \in Requests /\ HoldsRow(r)
    BY <1>5, RequestTypes DEF EditCommit, TypeOK, HoldsRow
  <2>2. PICK new \in Rows : new = ResetReview([r.loaded EXCEPT !.fields = r.fields])
    BY <2>1, NoReviewType DEF EditRequest, Rows, ResetReview
  <2>3. /\ r.incident \in Incidents /\ r.loaded \in Rows
        /\ incident[r.incident] = r.loaded /\ r.loaded.state # "approved"
    BY <2>1, LoadedTypes DEF SnapshotCurrent, IsLocked, EditRequest
  <2>4. incident' = [incident EXCEPT ![r.incident] = new]
    BY <1>5, <2>1, <2>2, <2>3, UpdateCurrent DEF EditCommit
  <2>5. new.state # "approved" /\ ~new.review.human_approved
    BY <2>2, <2>3 DEF ResetReview, NoReview, Rows
  <2>6. ASSUME NEW j \in Incidents PROVE CaseSound(j)'
    <3>1. CASE j = r.incident
      BY <1>5, <2>3, <2>4, <2>5, <3>1 DEF EditCommit, CaseSound, TypeOK
    <3>2. CASE j # r.incident
      BY <1>5, <2>3, <2>4, <3>2, CaseStays DEF EditCommit, EvidenceOf, TypeOK
    <3> QED
      BY <3>1, <3>2
  <2> QED
    BY <1>5, <1>b, <1>d, <2>6 DEF EditCommit
<1>6. ASSUME NEW h \in Handlers, ReviewCommit(h) PROVE SerialInv'
  <2>1. PICK r \in ReviewRequest : r = req[h] /\ r \in Requests /\ HoldsRow(r)
    BY <1>6, RequestTypes DEF ReviewCommit, TypeOK, HoldsRow
  <2>2. PICK new \in Rows : new = [r.loaded EXCEPT !.review = r.review]
    BY <2>1 DEF ReviewRequest, Rows
  <2>3. /\ r.incident \in Incidents /\ r.loaded \in Rows
        /\ incident[r.incident] = r.loaded /\ r.loaded.state = "review-ready"
    BY <2>1, LoadedTypes DEF SnapshotCurrent, ReviewRequest
  <2>4. incident' = [incident EXCEPT ![r.incident] = new]
    BY <1>6, <2>1, <2>2, <2>3, UpdateCurrent DEF ReviewCommit
  <2>5. incident'[r.incident] = new
    BY <2>3, <2>4 DEF TypeOK
  <2>6. new.state # "approved" /\ new.fields = r.loaded.fields
    BY <2>2, <2>3 DEF Rows
  <2>7. Content(r.incident)' = Content(r.incident)
    BY <1>6, <2>3, <2>5, <2>6 DEF ReviewCommit, Content, EvidenceOf
  <2>8. vetted' = IF new.review.human_approved
                  THEN [vetted EXCEPT ![r.incident] = Content(r.incident)] ELSE vetted
    BY <1>6, <2>1, <2>5 DEF ReviewCommit
  <2>9. ASSUME NEW j \in Incidents PROVE CaseSound(j)'
    <3>1. CASE j = r.incident
      <4>1. file'[j] = None
        BY <1>6, <2>3, <3>1 DEF ReviewCommit, CaseSound
      <4>2. new.review.human_approved => vetted'[j] = Content(j)'
        BY <2>3, <2>7, <2>8, <3>1 DEF TypeOK
      <4> QED
        BY <2>5, <2>6, <3>1, <4>1, <4>2 DEF CaseSound
    <3>2. CASE j # r.incident
      BY <1>6, <2>3, <2>4, <2>8, <3>2, CaseStays DEF ReviewCommit, EvidenceOf, TypeOK
    <3> QED
      BY <3>1, <3>2
  <2> QED
    BY <1>6, <1>b, <1>d, <2>9 DEF ReviewCommit
<1>7. ASSUME NEW h \in Handlers, TransitionCommit(h) PROVE SerialInv'
  <2>1. PICK r \in TransitionRequest : r = req[h] /\ r \in Requests /\ HoldsRow(r)
    BY <1>7, RequestTypes DEF TransitionCommit, TypeOK, HoldsRow
  <2>2. PICK new \in Rows : new = [r.loaded EXCEPT !.state = r.to]
    BY <2>1 DEF TransitionRequest, Rows
  <2>3. /\ r.incident \in Incidents /\ r.loaded \in Rows
        /\ incident[r.incident] = r.loaded /\ r.loaded.state # "approved"
    BY <2>1, LoadedTypes DEF SnapshotCurrent, AllowedStep, TransitionRequest
  <2>4. incident' = [incident EXCEPT ![r.incident] = new]
    BY <1>7, <2>1, <2>2, <2>3, UpdateCurrent DEF TransitionCommit
  <2>5. incident'[r.incident] = new
    BY <2>3, <2>4 DEF TypeOK
  <2>6. /\ new.state = r.to /\ new.fields = r.loaded.fields /\ new.review = r.loaded.review
    BY <2>1, <2>2, <2>3 DEF Rows, TransitionRequest
  <2>7. EvidenceOf(r.incident)' = EvidenceOf(r.incident) /\ UNCHANGED <<file, vetted, evidence>>
    BY <1>7 DEF TransitionCommit, EvidenceOf
  <2>8. r.to = "approved" => Publishable(new, EvidenceOf(r.incident))
    BY <1>7, <2>1, <2>2 DEF TransitionCommit, PassesGate
  <2>9. r.to = "approved" => Publishable(new, EvidenceOf(r.incident))'
    BY <2>7, <2>8 DEF Publishable, EvidenceSupports
  <2>10. ASSUME NEW j \in Incidents PROVE CaseSound(j)'
    <3>1. CASE j = r.incident
      <4>1. file'[j] = None
        BY <2>3, <2>7, <3>1 DEF CaseSound
      <4>2. new.review.human_approved => vetted'[j] = Content(j)'
        BY <2>3, <2>5, <2>6, <2>7, <3>1, ConstantsAssumption DEF CaseSound, Content
      <4>3. new.state = "approved" => Publishable(incident[j], EvidenceOf(j))'
        BY <2>5, <2>6, <2>9, <3>1 DEF Publishable
      <4> QED
        BY <2>5, <3>1, <4>1, <4>2, <4>3 DEF CaseSound
    <3>2. CASE j # r.incident
      BY <2>3, <2>4, <2>7, <3>2, CaseStays DEF EvidenceOf, TypeOK
    <3> QED
      BY <3>1, <3>2
  <2>11. AuditedItemIsResolved' /\ ItemResolvedOnce'
    BY <1>7, <1>f DEF TransitionCommit, Record
  <2> QED
    BY <1>7, <1>b, <2>10, <2>11 DEF TransitionCommit
<1>8. ASSUME NEW h \in Handlers, EvidenceCommit(h) PROVE SerialInv'
  <2>1. PICK r \in EvidenceRequest : r = req[h] /\ r \in Requests /\ HoldsRow(r)
    BY <1>8, RequestTypes DEF EvidenceCommit, TypeOK, HoldsRow
  <2>2. PICK new \in Rows : new = ResetReview(r.loaded)
    BY <2>1, ResetReviewType DEF EvidenceRequest
  <2>3. /\ r.incident \in Incidents /\ r.loaded \in Rows /\ r.source \in Sources
        /\ incident[r.incident] = r.loaded /\ r.loaded.state # "approved"
    BY <2>1 DEF SnapshotCurrent, IsLocked, EvidenceRequest
  <2>4. incident' = [incident EXCEPT ![r.incident] = new] /\ InsertEvidence(r.incident, r.source)
    BY <1>8, <2>1, <2>2, <2>3, UpdateCurrent DEF EvidenceCommit
  <2>5. new.state # "approved" /\ ~new.review.human_approved
    BY <2>2, <2>3 DEF ResetReview, NoReview, Rows
  <2>6. ASSUME NEW j \in Incidents PROVE CaseSound(j)'
    <3>1. CASE j = r.incident
      BY <1>8, <2>3, <2>4, <2>5, <3>1 DEF EvidenceCommit, CaseSound, TypeOK
    <3>2. CASE j # r.incident
      BY <1>8, <2>3, <2>4, <3>2, CaseStays, InsertElsewhere DEF EvidenceCommit, TypeOK
    <3> QED
      BY <3>1, <3>2
  <2> QED
    BY <1>8, <1>b, <1>d, <2>6 DEF EvidenceCommit
<1>9. ASSUME NEW h \in Handlers, AttachLoadCase(h) PROVE SerialInv'
  <2>1. PICK r \in AttachItemRequest : r = req[h]
    BY <1>9, RequestTypes DEF AttachLoadCase, TypeOK
  <2>2. item[r.item].status = "new"
    BY <2>1 DEF SnapshotCurrent, AttachItemRequest
  <2>3. PICK row : row = incident[r.incident]
    OBVIOUS
  <2>4. PICK n : n = IF row # None /\ ~IsLocked(row)
                     THEN [op |-> "attach", item |-> r.item, incident |-> r.incident,
                           loaded |-> row]
                     ELSE Idle
    OBVIOUS
  <2>5. UNCHANGED <<incident, evidence, item, audit, file, vetted>>
    BY <1>9 DEF AttachLoadCase
  <2>6. SnapshotCurrent(n)'
    BY <2>2, <2>3, <2>4, <2>5 DEF SnapshotCurrent, HoldsRow, Idle
  <2>7. req' = [req EXCEPT ![h] = n]
    BY <1>9, <2>1, <2>3, <2>4 DEF AttachLoadCase
  <2> QED
    BY <1>a, <1>c, <1>d, <2>5, <2>6, <2>7
<1>10. ASSUME NEW h \in Handlers, AttachCommit(h) PROVE SerialInv'
  <2>1. PICK r \in AttachRequest : r = req[h] /\ r \in Requests /\ HoldsRow(r)
    BY <1>10, RequestTypes DEF AttachCommit, TypeOK, HoldsRow
  <2>2. PICK new \in Rows : new = ResetReview(r.loaded)
    BY <2>1, ResetReviewType DEF AttachRequest
  <2>3. /\ r.incident \in Incidents /\ r.loaded \in Rows /\ r.item \in Items
        /\ incident[r.incident] = r.loaded /\ r.loaded.state # "approved"
        /\ item[r.item].status = "new"
    BY <2>1 DEF SnapshotCurrent, IsLocked, AttachRequest
  <2>4. SourceOf[r.item] \in Sources
    BY <2>3, ConstantsAssumption
  <2>5. /\ incident' = [incident EXCEPT ![r.incident] = new]
        /\ InsertEvidence(r.incident, SourceOf[r.item])
    BY <1>10, <2>1, <2>2, <2>3, UpdateCurrent DEF AttachCommit
  <2>6. new.state # "approved" /\ ~new.review.human_approved
    BY <2>2, <2>3 DEF ResetReview, NoReview, Rows
  <2>7. ASSUME NEW j \in Incidents PROVE CaseSound(j)'
    <3>1. CASE j = r.incident
      BY <1>10, <2>3, <2>5, <2>6, <3>1 DEF AttachCommit, CaseSound, TypeOK
    <3>2. CASE j # r.incident
      BY <1>10, <2>3, <2>4, <2>5, <3>2, CaseStays, InsertElsewhere DEF AttachCommit, TypeOK
    <3> QED
      BY <3>1, <3>2
  <2>8. AuditedItemIsResolved' /\ ItemResolvedOnce'
    <3>1. PICK entry : entry = [action |-> "feed_item.attached", item |-> r.item,
                                incident |-> r.incident]
      OBVIOUS
    <3> QED
      BY <1>10, <1>e, <2>1, <2>3, <3>1 DEF AttachCommit, Record
  <2> QED
    BY <1>10, <1>b, <2>7, <2>8 DEF AttachCommit
<1>11. ASSUME NEW h \in Handlers, ExportBuild(h) PROVE SerialInv'
  <2>1. PICK r \in ExportRequest : r = req[h] /\ HoldsRow(r)
    BY <1>11, RequestTypes DEF ExportBuild, TypeOK, HoldsRow
  <2>2. /\ r.incident \in Incidents /\ r.loaded \in Rows /\ incident[r.incident] = r.loaded
    BY <2>1 DEF ExportRequest, SnapshotCurrent
  <2>3. PICK public : public = Content(r.incident)
    OBVIOUS
  <2>4. PICK n : n = IF Publishable(r.loaded, EvidenceOf(r.incident))
                     THEN [op |-> "export-write", incident |-> r.incident, public |-> public]
                     ELSE Idle
    OBVIOUS
  <2>5. req' = [req EXCEPT ![h] = n]
    BY <1>11, <2>1, <2>2, <2>3, <2>4 DEF ExportBuild, Content
  <2>6. Publishable(r.loaded, EvidenceOf(r.incident)) =>
           /\ incident[r.incident] # None
           /\ r.loaded.state = "approved"
           /\ vetted[r.incident] = public
    BY <2>2, <2>3, ConstantsAssumption DEF Publishable, CaseSound
  <2>7. UNCHANGED <<incident, evidence, item, audit, file, vetted>>
    BY <1>11 DEF ExportBuild
  <2>8. SnapshotCurrent(n)'
    BY <2>2, <2>4, <2>6, <2>7 DEF SnapshotCurrent, HoldsRow, Idle
  <2> QED
    BY <1>a, <1>c, <1>d, <2>5, <2>7, <2>8
<1>12. ASSUME NEW h \in Handlers, ExportWrite(h) PROVE SerialInv'
  <2>1. PICK r \in ExportWriteRequest : r = req[h]
    BY <1>12, RequestTypes DEF ExportWrite, TypeOK
  <2>2. /\ r.incident \in Incidents
        /\ incident[r.incident] # None
        /\ incident[r.incident].state = "approved"
        /\ r.public = vetted[r.incident]
    BY <2>1 DEF ExportWriteRequest, SnapshotCurrent
  <2>3. file' = [file EXCEPT ![r.incident] = r.public]
    BY <1>12, <2>1 DEF ExportWrite
  <2>4. UNCHANGED <<incident, evidence, item, audit, vetted>>
    BY <1>12 DEF ExportWrite
  <2>5. ASSUME NEW j \in Incidents PROVE CaseSound(j)'
    <3>1. EvidenceOf(j)' = EvidenceOf(j)
      BY <2>4 DEF EvidenceOf
    <3>2. CASE j = r.incident
      <4>1. Content(j)' = Content(j)
        BY <2>4, <3>1 DEF Content
      <4>2. Publishable(incident[j], EvidenceOf(j))' = Publishable(incident[j], EvidenceOf(j))
        BY <2>4, <3>1 DEF Publishable, EvidenceSupports
      <4> QED
        BY <2>2, <2>3, <2>4, <3>2, <4>1, <4>2 DEF CaseSound, TypeOK
    <3>3. CASE j # r.incident
      BY <2>2, <2>3, <2>4, <3>1, <3>3, CaseStays DEF TypeOK
    <3> QED
      BY <3>2, <3>3
  <2>6. SnapshotCurrent([op |-> "export-commit", incident |-> r.incident])'
    BY DEF SnapshotCurrent, HoldsRow
  <2>7. req' = [req EXCEPT ![h] = [op |-> "export-commit", incident |-> r.incident]]
    BY <1>12, <2>1 DEF ExportWrite
  <2> QED
    BY <1>a, <1>d, <2>4, <2>5, <2>6, <2>7
<1>13. ASSUME NEW h \in Handlers, ExportCommit(h) PROVE SerialInv'
  BY <1>13, <1>b, <1>c, <1>f DEF ExportCommit, Record
<1>14. ASSUME NEW h \in Handlers, TransitionRefused(h) \/ Fail(h) PROVE SerialInv'
  BY <1>14, <1>b, <1>c, <1>d DEF TransitionRefused, Fail
<1>15. CASE UNCHANGED vars
  BY <1>15, <1>c, <1>d DEF vars, SnapshotCurrent
<1> QED
  BY <1>1, <1>2, <1>3, <1>4, <1>5, <1>6, <1>7, <1>8, <1>9, <1>10, <1>11, <1>12, <1>13,
     <1>14, <1>15 DEF Next

LEMMA SerialInvariant ==
    ASSUME OneAtATime
    PROVE  Spec => [](TypeInv /\ SerialInv)
<1>1. Init => TypeInv /\ SerialInv
  BY TypeInit, SerialInit
<1>2. TypeInv /\ SerialInv /\ [Next]_vars => (TypeInv /\ SerialInv)'
  BY TypeNext, LoadedNext, SerialNext DEF TypeInv
<1> QED
  BY <1>1, <1>2, PTL DEF Spec

\* With one request at a time, what an approved case shows is what its human approval
\* was given for, and the case passes the publication gate.
THEOREM SerialApproval ==
    ASSUME OneAtATime
    PROVE  Spec => []ApprovedContentIsVetted
<1>1. SerialInv => ApprovedContentIsVetted
  BY DEF SerialInv, CaseSound, ApprovedContentIsVetted, Publishable
<1> QED
  BY <1>1, SerialInvariant, PTL

\* With one request at a time, an exported file holds exactly the content a human vetted.
THEOREM SerialExport ==
    ASSUME OneAtATime
    PROVE  Spec => []ExportedContentIsVetted
<1>1. SerialInv => ExportedContentIsVetted
  BY DEF SerialInv, CaseSound, ExportedContentIsVetted
<1> QED
  BY <1>1, SerialInvariant, PTL

\* With one request at a time, promotion is idempotent.
THEOREM SerialResolution ==
    ASSUME OneAtATime
    PROVE  Spec => []ItemResolvedOnce
<1>1. SerialInv => ItemResolvedOnce
  BY DEF SerialInv
<1> QED
  BY <1>1, SerialInvariant, PTL

\* What one step does to a case that exists: nothing, or a change of its content that the
\* lock allows, or a step of its lifecycle.
CaseMoves(i) ==
    \/ incident'[i] = incident[i] /\ EvidenceOf(i)' = EvidenceOf(i)
    \/ incident[i].state # "approved" /\ incident'[i].state = incident[i].state
    \/ AllowedStep(incident[i].state, incident'[i].state)

LEMMA CasesMove ==
    ASSUME TypeOK, SerialInv, [Next]_vars, NEW j \in Incidents, incident[j] # None
    PROVE  CaseMoves(j)
<1> USE DEF Holds, SerialInv
\* The row a thread loaded is the one it updates: only that case changes, as the handler says.
<1>a. ASSUME NEW r \in Requests, HoldsRow(r), SnapshotCurrent(r), NEW new \in Rows,
             UpdateCase(r, new),
             \/ r.loaded.state # "approved" /\ new.state = r.loaded.state
             \/ AllowedStep(r.loaded.state, new.state),
             j # r.incident => EvidenceOf(j)' = EvidenceOf(j)
      PROVE  CaseMoves(j)
  <2>1. incident[r.incident] = r.loaded /\ r.incident \in Incidents
    BY <1>a, LoadedTypes DEF SnapshotCurrent
  <2>2. incident' = [incident EXCEPT ![r.incident] = new]
    BY <1>a, <2>1, UpdateCurrent
  <2> QED
    BY <1>a, <2>1, <2>2 DEF CaseMoves, TypeOK
<1>b. ASSUME UNCHANGED <<incident, evidence>> PROVE CaseMoves(j)
  BY <1>b DEF CaseMoves, EvidenceOf
<1>1. ASSUME NEW i \in Incidents, NEW d \in Drafts, AddIncident(i, d) PROVE CaseMoves(j)
  BY <1>1 DEF AddIncident, NewCase, CaseMoves, EvidenceOf, TypeOK
<1>2. ASSUME NEW h \in Handlers, NEW i \in Incidents, NEW d \in Drafts,
             PromoteCommit(h, i, d)
      PROVE  CaseMoves(j)
  <2>1. PICK r \in PromoteRequest : r = req[h]
    BY <1>2, RequestTypes DEF PromoteCommit, TypeOK
  <2>2. SourceOf[r.item] \in Sources
    BY <2>1, ConstantsAssumption DEF PromoteRequest
  <2>3. NewCase(i, d) /\ InsertEvidence(i, SourceOf[r.item])
    BY <1>2, <2>1 DEF PromoteCommit
  <2>4. j # i /\ incident'[j] = incident[j]
    BY <2>3 DEF NewCase, TypeOK
  <2> QED
    BY <2>2, <2>3, <2>4, InsertElsewhere DEF CaseMoves
<1>3. ASSUME NEW h \in Handlers, EditCommit(h) PROVE CaseMoves(j)
  <2>1. PICK r \in EditRequest : r = req[h] /\ r \in Requests /\ HoldsRow(r)
    BY <1>3, RequestTypes DEF EditCommit, TypeOK, HoldsRow
  <2>2. PICK new \in Rows : new = ResetReview([r.loaded EXCEPT !.fields = r.fields])
    BY <2>1, NoReviewType DEF EditRequest, Rows, ResetReview
  <2>3. SnapshotCurrent(r) /\ r.loaded \in Rows /\ r.loaded.state # "approved"
    BY <2>1 DEF SnapshotCurrent, IsLocked, EditRequest
  <2>4. new.state = r.loaded.state
    BY <2>2, <2>3 DEF ResetReview, Rows
  <2>5. UpdateCase(r, new) /\ EvidenceOf(j)' = EvidenceOf(j)
    BY <1>3, <2>1, <2>2 DEF EditCommit, EvidenceOf
  <2> QED
    BY <1>a, <2>1, <2>3, <2>4, <2>5
<1>4. ASSUME NEW h \in Handlers, ReviewCommit(h) PROVE CaseMoves(j)
  <2>1. PICK r \in ReviewRequest : r = req[h] /\ r \in Requests /\ HoldsRow(r)
    BY <1>4, RequestTypes DEF ReviewCommit, TypeOK, HoldsRow
  <2>2. PICK new \in Rows : new = [r.loaded EXCEPT !.review = r.review]
    BY <2>1 DEF ReviewRequest, Rows
  <2>3. SnapshotCurrent(r) /\ r.loaded \in Rows /\ r.loaded.state = "review-ready"
    BY <2>1 DEF SnapshotCurrent, ReviewRequest
  <2>4. new.state = r.loaded.state
    BY <2>2, <2>3 DEF Rows
  <2>5. UpdateCase(r, new) /\ EvidenceOf(j)' = EvidenceOf(j)
    BY <1>4, <2>1, <2>2 DEF ReviewCommit, EvidenceOf
  <2> QED
    BY <1>a, <2>1, <2>3, <2>4, <2>5
<1>5. ASSUME NEW h \in Handlers, TransitionCommit(h) PROVE CaseMoves(j)
  <2>1. PICK r \in TransitionRequest : r = req[h] /\ r \in Requests /\ HoldsRow(r)
    BY <1>5, RequestTypes DEF TransitionCommit, TypeOK, HoldsRow
  <2>2. PICK new \in Rows : new = [r.loaded EXCEPT !.state = r.to]
    BY <2>1 DEF TransitionRequest, Rows
  <2>3. SnapshotCurrent(r) /\ r.loaded \in Rows /\ AllowedStep(r.loaded.state, r.to)
    BY <2>1 DEF SnapshotCurrent, TransitionRequest
  <2>4. new.state = r.to
    BY <2>1, <2>2, <2>3 DEF Rows, TransitionRequest
  <2>5. UpdateCase(r, new) /\ EvidenceOf(j)' = EvidenceOf(j)
    BY <1>5, <2>1, <2>2 DEF TransitionCommit, EvidenceOf
  <2> QED
    BY <1>a, <2>1, <2>3, <2>4, <2>5
<1>6. ASSUME NEW h \in Handlers, EvidenceCommit(h) PROVE CaseMoves(j)
  <2>1. PICK r \in EvidenceRequest : r = req[h] /\ r \in Requests /\ HoldsRow(r)
    BY <1>6, RequestTypes DEF EvidenceCommit, TypeOK, HoldsRow
  <2>2. PICK new \in Rows : new = ResetReview(r.loaded)
    BY <2>1, ResetReviewType DEF EvidenceRequest
  <2>3. /\ SnapshotCurrent(r) /\ r.loaded \in Rows /\ r.loaded.state # "approved"
        /\ r.incident \in Incidents /\ r.source \in Sources
    BY <2>1 DEF SnapshotCurrent, IsLocked, EvidenceRequest
  <2>4. new.state = r.loaded.state
    BY <2>2, <2>3 DEF ResetReview, Rows
  <2>5. UpdateCase(r, new) /\ InsertEvidence(r.incident, r.source)
    BY <1>6, <2>1, <2>2 DEF EvidenceCommit
  <2>6. j # r.incident => EvidenceOf(j)' = EvidenceOf(j)
    BY <2>3, <2>5, InsertElsewhere
  <2> QED
    BY <1>a, <2>1, <2>3, <2>4, <2>5, <2>6
<1>7. ASSUME NEW h \in Handlers, AttachCommit(h) PROVE CaseMoves(j)
  <2>1. PICK r \in AttachRequest : r = req[h] /\ r \in Requests /\ HoldsRow(r)
    BY <1>7, RequestTypes DEF AttachCommit, TypeOK, HoldsRow
  <2>2. PICK new \in Rows : new = ResetReview(r.loaded)
    BY <2>1, ResetReviewType DEF AttachRequest
  <2>3. /\ SnapshotCurrent(r) /\ r.loaded \in Rows /\ r.loaded.state # "approved"
        /\ r.incident \in Incidents /\ SourceOf[r.item] \in Sources
    BY <2>1, ConstantsAssumption DEF SnapshotCurrent, IsLocked, AttachRequest
  <2>4. new.state = r.loaded.state
    BY <2>2, <2>3 DEF ResetReview, Rows
  <2>5. UpdateCase(r, new) /\ InsertEvidence(r.incident, SourceOf[r.item])
    BY <1>7, <2>1, <2>2 DEF AttachCommit
  <2>6. j # r.incident => EvidenceOf(j)' = EvidenceOf(j)
    BY <2>3, <2>5, InsertElsewhere
  <2> QED
    BY <1>a, <2>1, <2>3, <2>4, <2>5, <2>6
<1>8. ASSUME NEW h \in Handlers, NEW i \in Incidents,
             \/ \E f \in EditInputs : EditLoad(h, i, f)
             \/ \E r \in ReviewInputs : ReviewLoad(h, i, r)
             \/ \E to \in States : TransitionLoad(h, i, to)
             \/ \E s \in Sources : EvidenceLoad(h, i, s)
             \/ \E x \in Items : AttachLoadItem(h, x, i)
             \/ ExportLoad(h, i)
      PROVE  CaseMoves(j)
  BY <1>8, <1>b DEF EditLoad, ReviewLoad, TransitionLoad, EvidenceLoad, AttachLoadItem, ExportLoad
<1>9. ASSUME NEW h \in Handlers,
             \/ \E x \in Items : PromoteLoad(h, x)
             \/ TransitionRefused(h)
             \/ AttachLoadCase(h)
             \/ ExportBuild(h)
             \/ ExportWrite(h)
             \/ ExportCommit(h)
             \/ Fail(h)
      PROVE  CaseMoves(j)
  BY <1>9, <1>b DEF PromoteLoad, TransitionRefused, AttachLoadCase, ExportBuild, ExportWrite,
                    ExportCommit, Fail
<1>10. CASE UNCHANGED vars
  BY <1>10, <1>b DEF vars
<1> QED
  BY <1>1, <1>2, <1>3, <1>4, <1>5, <1>6, <1>7, <1>8, <1>9, <1>10 DEF Next

\* With one request at a time, an approved case never changes: neither its row nor its
\* evidence, by whatever handler (the lock of edit, evidence and attach).
THEOREM SerialLock ==
    ASSUME OneAtATime
    PROVE  Spec => ApprovedCaseIsLocked
<1>1. ASSUME TypeInv, SerialInv, [Next]_vars
      PROVE  [\A i \in Incidents : incident[i] # None /\ incident[i].state = "approved" =>
                 incident'[i] = incident[i] /\ EvidenceOf(i)' = EvidenceOf(i)]_vars
  BY <1>1, CasesMove DEF TypeInv, CaseMoves, AllowedStep
<1> QED
  BY <1>1, SerialInvariant, PTL DEF Spec, ApprovedCaseIsLocked

\* With one request at a time, a case moves one lifecycle step forward at a time and never
\* back (transition_incident).
THEOREM SerialLifecycle ==
    ASSUME OneAtATime
    PROVE  Spec => LifecycleMovesForward
<1>1. ASSUME TypeInv, SerialInv, [Next]_vars
      PROVE  [\A i \in Incidents : incident[i] # None =>
                 \/ incident'[i].state = incident[i].state
                 \/ \E n \in 1..3 : /\ incident[i].state = Lifecycle[n]
                                    /\ incident'[i].state = Lifecycle[n + 1]]_vars
  <2> SUFFICES ASSUME NEW i \in Incidents, incident[i] # None
               PROVE  \/ incident'[i].state = incident[i].state
                      \/ \E n \in 1..3 : /\ incident[i].state = Lifecycle[n]
                                         /\ incident'[i].state = Lifecycle[n + 1]
    OBVIOUS
  <2>1. /\ Lifecycle[1] = "triage" /\ Lifecycle[2] = "investigating"
        /\ Lifecycle[3] = "review-ready" /\ Lifecycle[4] = "approved"
    BY DEF Lifecycle
  <2>2. CaseMoves(i)
    BY <1>1, CasesMove DEF TypeInv
  <2> QED
    BY <2>1, <2>2 DEF CaseMoves, AllowedStep
<1> QED
  BY <1>1, SerialInvariant, PTL DEF Spec, LifecycleMovesForward

=============================================================================
