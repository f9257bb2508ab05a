-------------------------- MODULE SafeFetchProofs --------------------------
(***************************************************************************)
(* Proofs about SafeFetch, for any threads, attempts, redirects and        *)
(* addresses: types, connections pinned to the host of their hop,          *)
(* exceptions, and the end of requests at close().                         *)
(***************************************************************************)
EXTENDS SafeFetch, TLAPS

OwnTickets(f) == {<<f, k>> : k \in 1 .. 3}

\* The lookups that the resolver may still answer.
Pending ==
    {resolver.queue[k] : k \in DOMAIN resolver.queue}
    \cup (IF resolver.task = None THEN {} ELSE {resolver.task})

\* A socket is gone from under its thread only when its deadline has passed or
\* the transport is being closed, and only this and a body raise.
Excused(f, j) ==
    /\ j.conn = "pulled" => j.late \/ TransportClosed(f)
    /\ j.phase = "raised" =>
          \/ j.cause = "body"
          \/ j.cause = "socket" /\ (j.late \/ TransportClosed(f))

\* What holds of a thread by itself: it has only result queues of its own, an
\* answer and a connection are those of its hop.
JobInv(f, j) ==
    /\ j \in Jobs
    /\ j.ticket \in OwnTickets(f) \cup {None}
    /\ j.phase = "hop" => j.ticket = None /\ j.answer = None
    /\ j.phase = "asked" /\ j.answer # None => j.answer = <<f, j.hop>>
    /\ j.phase = "connect" => j.left > 0
    /\ j.phase \in {"connect", "request", "sent", "body"} => j.host = <<f, j.hop>>
    /\ Excused(f, j)

\* A pending lookup with the result queue a thread waits on is for its hop.
Awaits(f, j, pending) ==
    j.phase = "asked" => \A l \in pending : l.ticket = j.ticket => l.host = <<f, j.hop>>

ResolverInv ==
    /\ resolver \in [queue : {<<>>} \cup {<<q>> : q \in Lookups}, busy : BOOLEAN,
                     task : Lookups \cup {None},
                     stage : {"get", "taken", "looking", "answered"}]
    /\ resolver.stage \in {"taken", "looking"} => resolver.task # None

\* The requests that the hop of a thread may still send.
ToSend(j) == IF j.phase = "request" THEN j.left + 1 ELSE j.left

\* What the scheduler may still send counts as sent: only a hop that began
\* before close() has anything to send, and only a request whose thread had
\* passed its last look at the transport's event goes out after it.
CloseHolds(j) ==
    /\ j.phase = "asked" => sent.client = 0
    /\ j.phase \in {"connect", "request", "sent"} => sent.client + ToSend(j) <= Addresses
    /\ j.phase = "request" => sent.transport = 0

CloseInv ==
    /\ closing \in {"open", "client", "transport", "closed"}
    /\ sent \in [client : 0 .. Addresses, transport : 0 .. 1]
    /\ closing = "open" => sent.client = 0
    /\ closing \in {"open", "client"} => sent.transport = 0
    /\ CloseHolds(job["scheduler"])

FetchInv ==
    /\ ResolverInv
    /\ job = [f \in Threads |-> job[f]]
    /\ \A f \in Threads : JobInv(f, job[f]) /\ Awaits(f, job[f], Pending)
    /\ CloseInv

-----------------------------------------------------------------------------
LEMMA AtIsSound ==
    ASSUME NEW f, NEW phase \in Phases, NEW n \in 1 .. Attempts,
           phase \notin {"asked", "connect", "request", "sent", "body", "raised"}
    PROVE  /\ JobInv(f, At(phase, n)) /\ \A pending : Awaits(f, At(phase, n), pending)
           /\ At(phase, n).phase = phase /\ CloseHolds(At(phase, n))
  <1>1. 1 \in Hops /\ 0 \in 0 .. Addresses
    BY FetchAssumption DEF Hops
  <1>. QED  BY <1>1 DEF At, JobInv, Awaits, Jobs, Excused, CloseHolds

LEMMA FetchInitInv == Init => FetchInv
  <1> SUFFICES ASSUME Init PROVE FetchInv
    OBVIOUS
  <1>1. \A f \in Threads : JobInv(f, Idle) /\ Awaits(f, Idle, Pending) /\ CloseHolds(Idle)
    BY AtIsSound, FetchAssumption DEF Idle, Phases
  <1>2. \A f \in Threads : job[f] = Idle
    BY DEF Init
  <1>3. ResolverInv
    BY DEF Init, ResolverInv
  <1>4. CloseInv
    BY <1>1, <1>2, FetchAssumption DEF Init, CloseInv, Threads
  <1>. QED  BY <1>1, <1>2, <1>3, <1>4 DEF Init, FetchInv

-----------------------------------------------------------------------------
(***************************************************************************)
(* A step of one thread that leaves the resolver and close() alone.        *)
(***************************************************************************)
LEMMA JobStep ==
    ASSUME FetchInv, NEW f \in Threads, NEW j,
           job' = [job EXCEPT ![f] = j],
           JobInv(f, j), Awaits(f, j, Pending),
           f = "scheduler" => CloseHolds(j),
           UNCHANGED <<resolver, closing, sent>>
    PROVE  FetchInv'
  <1>1. \A g \in Threads : job'[g] = IF g = f THEN j ELSE job[g]
    BY DEF FetchInv
  <1>2. Pending' = Pending
    BY DEF Pending
  <1>3. ResolverInv'
    BY DEF FetchInv, ResolverInv
  <1>4. CloseInv'
    BY <1>1 DEF FetchInv, CloseInv, CloseHolds, ToSend, Threads
  <1>5. \A g \in Threads : JobInv(g, job'[g]) /\ Awaits(g, job'[g], Pending)
    BY <1>1 DEF FetchInv
  <1>6. \A g \in Threads : JobInv(g, job[g])' /\ Awaits(g, job[g], Pending)'
    BY <1>2, <1>5 DEF JobInv, Awaits, Excused, TransportClosed
  <1>7. (job = [g \in Threads |-> job[g]])'
    BY DEF FetchInv
  <1>. QED  BY <1>3, <1>4, <1>6, <1>7 DEF FetchInv

\* The job starts anew, or an attempt of it ends.
LEMMA RestartedJob ==
    ASSUME FetchInv, NEW f \in Threads, NEW phase \in Phases, NEW n \in 1 .. Attempts,
           phase \notin {"asked", "connect", "request", "sent", "body", "raised"},
           job' = [job EXCEPT ![f] = At(phase, n)],
           UNCHANGED <<resolver, closing, sent>>
    PROVE  FetchInv'
  <1>. QED  BY AtIsSound, JobStep

LEMMA FailStep ==
    ASSUME FetchInv, NEW f \in Threads, NEW retryable, Fail(f, retryable)
    PROVE  FetchInv'
  <1>1. job[f] \in Jobs /\ job[f].attempt \in 1 .. Attempts
    BY DEF FetchInv, JobInv, Jobs
  <1>2. CASE retryable /\ job[f].attempt < Attempts
    <2>1. job' = [job EXCEPT ![f] = At("hop", job[f].attempt + 1)]
      BY <1>2 DEF Fail, Failed
    <2>2. job[f].attempt + 1 \in 1 .. Attempts
      BY <1>1, <1>2, FetchAssumption
    <2>. QED  BY <2>1, <2>2, RestartedJob DEF Fail, Phases
  <1>3. CASE ~(retryable /\ job[f].attempt < Attempts)
    <2>1. job' = [job EXCEPT ![f] = At("idle", 1)]
      BY <1>3 DEF Fail, Failed, Idle
    <2>2. 1 \in 1 .. Attempts
      BY FetchAssumption
    <2>. QED  BY <2>1, <2>2, RestartedJob DEF Fail, Phases
  <1>. QED  BY <1>2, <1>3

\* What a thread holds.
LEMMA ThreadsJob ==
    ASSUME FetchInv, NEW f \in Threads
    PROVE  /\ job[f] \in Jobs /\ JobInv(f, job[f]) /\ Awaits(f, job[f], Pending)
           /\ job[f].attempt \in 1 .. Attempts /\ job[f].hop \in Hops
           /\ job[f].left \in 0 .. Addresses /\ job[f].late \in BOOLEAN
           /\ Excused(f, job[f]) /\ (f = "scheduler" => CloseHolds(job[f]))
  BY DEF FetchInv, JobInv, Jobs, CloseInv

LEMMA ExpireStep ==
    ASSUME FetchInv, NEW f \in Threads, Expire(f)
    PROVE  FetchInv'
  <1>1. PICK j : j = [job[f] EXCEPT !.late = TRUE]
    OBVIOUS
  <1>2. /\ j \in Jobs /\ j.phase = job[f].phase /\ j.ticket = job[f].ticket
        /\ j.answer = job[f].answer /\ j.hop = job[f].hop /\ j.host = job[f].host
        /\ j.left = job[f].left /\ j.late /\ j.phase # "raised"
    BY <1>1, ThreadsJob DEF Jobs, Expire
  <1>3. JobInv(f, j) /\ Awaits(f, j, Pending) /\ (f = "scheduler" => CloseHolds(j))
    BY <1>2, ThreadsJob DEF JobInv, Awaits, Excused, CloseHolds, ToSend
  <1>4. job' = [job EXCEPT ![f] = j]
    BY <1>1 DEF Expire
  <1>. QED  BY <1>3, <1>4, JobStep DEF Expire

LEMMA TakeAnswerStep ==
    ASSUME FetchInv, NEW f \in Threads, TakeAnswer(f)
    PROVE  FetchInv'
  <1>1. job[f].phase = "asked" /\ job[f].answer # None
    BY DEF TakeAnswer
  <1>2. job[f].answer \in Hosts /\ job[f].answer = <<f, job[f].hop>>
    BY <1>1, ThreadsJob DEF JobInv, Jobs
  <1>3. CASE \E retryable \in BOOLEAN : Fail(f, retryable)
    BY <1>3, FailStep
  <1>4. ASSUME NEW n \in 1 .. Addresses,
               job' = [job EXCEPT ![f].phase = "connect", ![f].left = n,
                                  ![f].host = job[f].answer, ![f].answer = None],
               UNCHANGED <<resolver, closing, sent>>
        PROVE  FetchInv'
    <2>1. PICK j : j = [job[f] EXCEPT !.phase = "connect", !.left = n,
                                      !.host = job[f].answer, !.answer = None]
      OBVIOUS
    <2>2. n \in 0 .. Addresses /\ n > 0 /\ n <= Addresses
      BY FetchAssumption
    <2>3. /\ j \in Jobs /\ j.phase = "connect" /\ j.left = n /\ j.host = <<f, j.hop>>
          /\ j.ticket = job[f].ticket /\ j.conn = job[f].conn /\ j.late = job[f].late
      BY <1>2, <2>1, <2>2, ThreadsJob DEF Jobs, Phases
    <2>4. JobInv(f, j) /\ Awaits(f, j, Pending)
      BY <2>2, <2>3, ThreadsJob DEF JobInv, Awaits, Excused
    <2>5. f = "scheduler" => CloseHolds(j)
      BY <1>1, <2>2, <2>3, ThreadsJob DEF CloseHolds, ToSend
    <2>6. job' = [job EXCEPT ![f] = j]
      BY <1>4, <2>1
    <2>. QED  BY <1>4, <2>4, <2>5, <2>6, JobStep
  <1>. QED  BY <1>3, <1>4 DEF TakeAnswer

-----------------------------------------------------------------------------
(***************************************************************************)
(* The exchange of a request and its response.                             *)
(***************************************************************************)
\* A thread that goes on with its hop, or has read its body.
LEMMA GoesOn ==
    ASSUME FetchInv, NEW f \in Threads, NEW j \in Jobs,
           job[f].phase \in {"connect", "request", "sent", "body"},
           j.phase \in {"connect", "request", "sent", "body"},
           j.ticket = job[f].ticket, j.hop = job[f].hop, j.host = job[f].host,
           j.phase = "connect" => j.left > 0,
           j.conn = "pulled" => job[f].conn = "pulled" /\ j.late = job[f].late
    PROVE  JobInv(f, j) /\ Awaits(f, j, Pending)
  BY ThreadsJob DEF JobInv, Awaits, Excused

LEMMA RegisterStep ==
    ASSUME FetchInv, NEW f \in Threads, Register(f)
    PROVE  FetchInv'
  <1>1. /\ job[f].phase = "connect" /\ ~TransportClosed(f)
        /\ UNCHANGED <<resolver, closing, sent>>
    BY DEF Register
  <1>2. job[f].left - 1 \in 0 .. Addresses
    BY <1>1, ThreadsJob, FetchAssumption DEF JobInv
  <1>3. PICK j : j = [job[f] EXCEPT !.phase = "request", !.left = @ - 1]
    OBVIOUS
  <1>4. /\ j \in Jobs /\ j.phase = "request" /\ j.ticket = job[f].ticket
        /\ j.hop = job[f].hop /\ j.host = job[f].host /\ j.left = job[f].left - 1
        /\ j.conn = job[f].conn /\ j.late = job[f].late
    BY <1>2, <1>3, ThreadsJob DEF Jobs, Phases
  <1>5. JobInv(f, j) /\ Awaits(f, j, Pending)
    BY <1>1, <1>4, GoesOn
  <1>6. f = "scheduler" => CloseHolds(j)
    <2>1. f = "scheduler" => closing \in {"open", "client"} /\ sent.transport = 0
      BY <1>1 DEF TransportClosed, FetchInv, CloseInv
    <2>2. ToSend(j) = ToSend(job[f])
      BY <1>1, <1>4, ThreadsJob, FetchAssumption DEF ToSend
    <2>. QED  BY <1>1, <1>4, <2>1, <2>2, ThreadsJob DEF CloseHolds
  <1>7. job' = [job EXCEPT ![f] = j]
    BY <1>3 DEF Register
  <1>. QED  BY <1>1, <1>5, <1>6, <1>7, JobStep

LEMMA AddressFailsStep ==
    ASSUME FetchInv, NEW f \in Threads, AddressFails(f)
    PROVE  FetchInv'
  <1>1. CASE job[f].late \/ job[f].left = 0
    BY <1>1, FailStep DEF AddressFails
  <1>2. CASE ~(job[f].late \/ job[f].left = 0)
    <2>1. PICK j : j = [job[f] EXCEPT !.phase = "connect", !.conn = "none"]
      OBVIOUS
    <2>2. /\ job[f].phase \in {"request", "sent"}
          /\ UNCHANGED <<resolver, closing, sent>>
      BY <1>2 DEF AddressFails
    <2>3. job[f].left > 0
      BY <1>2, ThreadsJob, FetchAssumption
    <2>4. /\ j \in Jobs /\ j.phase = "connect" /\ j.left > 0 /\ j.ticket = job[f].ticket
          /\ j.hop = job[f].hop /\ j.host = job[f].host /\ j.left = job[f].left
          /\ j.conn = "none"
      BY <2>1, <2>3, ThreadsJob DEF Jobs, Phases
    <2>5. JobInv(f, j) /\ Awaits(f, j, Pending)
      BY <2>2, <2>4, GoesOn
    <2>6. f = "scheduler" => CloseHolds(j)
      <3>1. f = "scheduler" => sent.client \in 0 .. Addresses
        BY DEF FetchInv, CloseInv
      <3>. QED  BY <2>2, <2>4, <3>1, ThreadsJob, FetchAssumption DEF CloseHolds, ToSend
    <2>7. job' = [job EXCEPT ![f] = j]
      BY <1>2, <2>1 DEF AddressFails
    <2>. QED  BY <2>2, <2>5, <2>6, <2>7, JobStep
  <1>. QED  BY <1>1, <1>2

LEMMA StartBodyStep ==
    ASSUME FetchInv, NEW f \in Threads, StartBody(f)
    PROVE  FetchInv'
  <1>1. /\ job[f].phase = "sent" /\ UNCHANGED <<resolver, closing, sent>>
    BY DEF StartBody, Receiving
  <1>2. PICK c \in {"open", "owned"} :
           job' = [job EXCEPT ![f].phase = "body", ![f].conn = c, ![f].left = 0]
    BY DEF StartBody
  <1>3. PICK j : j = [job[f] EXCEPT !.phase = "body", !.conn = c, !.left = 0]
    OBVIOUS
  <1>4. /\ j \in Jobs /\ j.phase = "body" /\ j.ticket = job[f].ticket
        /\ j.hop = job[f].hop /\ j.host = job[f].host /\ j.conn # "pulled"
    <2>1. c \in {"none", "open", "owned", "cut", "pulled"} /\ 0 \in 0 .. Addresses
      BY FetchAssumption
    <2>. QED  BY <1>3, <2>1, ThreadsJob DEF Jobs, Phases
  <1>5. JobInv(f, j) /\ Awaits(f, j, Pending)
    BY <1>1, <1>4, GoesOn
  <1>6. CloseHolds(j)
    BY <1>4 DEF CloseHolds
  <1>7. job' = [job EXCEPT ![f] = j]
    BY <1>2, <1>3
  <1>. QED  BY <1>1, <1>5, <1>6, <1>7, JobStep

\* The requests of the scheduler are counted.
LEMMA SendRequestStep ==
    ASSUME FetchInv, NEW f \in Threads, SendRequest(f)
    PROVE  FetchInv'
  <1>1. /\ job[f].phase = "request" /\ UNCHANGED <<resolver, closing>>
    BY DEF SendRequest
  <1>2. PICK j : j = [job[f] EXCEPT !.phase = "sent", !.conn = "open"]
    OBVIOUS
  <1>3. /\ j \in Jobs /\ j.phase = "sent" /\ j.ticket = job[f].ticket
        /\ j.hop = job[f].hop /\ j.host = job[f].host /\ j.left = job[f].left
        /\ j.conn = "open"
    BY <1>2, ThreadsJob DEF Jobs, Phases
  <1>4. JobInv(f, j) /\ Awaits(f, j, Pending)
    BY <1>1, <1>3, GoesOn
  <1>5. job' = [job EXCEPT ![f] = j]
    BY <1>2 DEF SendRequest
  <1>6. \A g \in Threads : job'[g] = IF g = f THEN j ELSE job[g]
    BY <1>5 DEF FetchInv
  <1>7. CloseInv'
    <2>1. /\ "scheduler" \in Threads /\ CloseInv
          /\ sent.client \in 0 .. Addresses /\ sent.transport \in 0 .. 1
      BY DEF Threads, FetchInv, CloseInv
    <2>2. CASE f = "scheduler"
      <3>1. sent.client + job[f].left + 1 <= Addresses /\ sent.transport = 0
        BY <1>1, <2>1, <2>2, ThreadsJob, FetchAssumption DEF CloseHolds, ToSend
      <3>2. PICK n, m :
               /\ sent' = [client |-> n, transport |-> m]
               /\ n = IF closing = "open" THEN sent.client ELSE sent.client + 1
               /\ m = IF closing \in {"transport", "closed"} THEN 1 ELSE 0
        <4>1. sent.client < Addresses + 1 /\ sent.transport < 2
          BY <2>1, <3>1, ThreadsJob, FetchAssumption
        <4>2. /\ Counted(sent.client, ClientClosed(f), Addresses + 1)
                     = IF closing = "open" THEN sent.client ELSE sent.client + 1
              /\ Counted(sent.transport,
                         f = "scheduler" /\ closing \in {"transport", "closed"}, 2)
                     = IF closing \in {"transport", "closed"} THEN 1 ELSE 0
          BY <2>2, <3>1, <4>1 DEF Counted, ClientClosed
        <4>. QED  BY <4>2 DEF SendRequest
      <3>3. n \in 0 .. Addresses /\ n + j.left <= Addresses /\ m \in 0 .. 1
        BY <1>3, <2>1, <3>1, <3>2, ThreadsJob, FetchAssumption
      <3>4. CloseHolds(job["scheduler"])'
        BY <1>3, <1>6, <2>1, <2>2, <3>2, <3>3 DEF CloseHolds, ToSend
      <3>. QED  BY <1>1, <2>1, <3>2, <3>3, <3>4 DEF CloseInv
    <2>3. CASE f # "scheduler"
      <3>1. sent' = sent
        <4>1. sent = [client |-> sent.client, transport |-> sent.transport]
          BY <2>1 DEF CloseInv
        <4>. QED  BY <2>3, <4>1 DEF SendRequest, Counted, ClientClosed
      <3>. QED  BY <1>1, <1>6, <2>1, <2>3, <3>1 DEF CloseInv, CloseHolds, ToSend
    <2>. QED  BY <2>2, <2>3
  <1>8. \A g \in Threads : JobInv(g, job[g])' /\ Awaits(g, job[g], Pending)'
    BY <1>1, <1>4, <1>6 DEF FetchInv, JobInv, Awaits, Pending, Excused, TransportClosed
  <1>9. ResolverInv' /\ (job = [g \in Threads |-> job[g]])'
    BY <1>1, <1>5 DEF FetchInv, ResolverInv
  <1>. QED  BY <1>7, <1>8, <1>9 DEF FetchInv

\* What the timer or close() makes of a thread whose connection it closes.
LEMMA PulledJob ==
    ASSUME FetchInv, NEW f \in Threads, job[f].conn = "open", job' \in Pull(f),
           job[f].late \/ TransportClosed(f)
    PROVE  \E j : /\ job' = [job EXCEPT ![f] = j]
                  /\ JobInv(f, j) /\ Awaits(f, j, Pending)
                  /\ f = "scheduler" => CloseHolds(j)
  <1>1. PICK c \in {"cut", "pulled"} : job' = [job EXCEPT ![f].conn = c]
    BY DEF Pull
  <1>2. PICK j : j = [job[f] EXCEPT !.conn = c]
    OBVIOUS
  <1>3. /\ j \in Jobs /\ j.phase = job[f].phase /\ j.ticket = job[f].ticket
        /\ j.hop = job[f].hop /\ j.host = job[f].host /\ j.left = job[f].left
        /\ j.answer = job[f].answer /\ j.late = job[f].late /\ j.cause = job[f].cause
    BY <1>2, ThreadsJob DEF Jobs
  <1>4. JobInv(f, j) /\ Awaits(f, j, Pending)
    BY <1>3, ThreadsJob DEF JobInv, Awaits, Excused
  <1>5. f = "scheduler" => CloseHolds(j)
    BY <1>3, ThreadsJob DEF CloseHolds, ToSend
  <1>6. job' = [job EXCEPT ![f] = j]
    BY <1>1, <1>2
  <1>. QED  BY <1>4, <1>5, <1>6

LEMMA TimerClosesStep ==
    ASSUME FetchInv, NEW f \in Threads, TimerCloses(f)
    PROVE  FetchInv'
  <1>1. PICK j : /\ job' = [job EXCEPT ![f] = j]
                 /\ JobInv(f, j) /\ Awaits(f, j, Pending)
                 /\ f = "scheduler" => CloseHolds(j)
    BY PulledJob DEF TimerCloses
  <1>. QED  BY <1>1, JobStep DEF TimerCloses

\* A socket that is gone has its cause in the deadline or in close().
LEMMA UsePulledSocketStep ==
    ASSUME FetchInv, NEW f \in Threads, UsePulledSocket(f)
    PROVE  FetchInv'
  <1>1. PICK j : j = [At("raised", 1) EXCEPT !.cause = "socket", !.late = job[f].late]
    OBVIOUS
  <1>2. 1 \in 1 .. Attempts /\ 1 \in Hops /\ 0 \in 0 .. Addresses
    BY FetchAssumption DEF Hops
  <1>3. /\ j \in Jobs /\ j.phase = "raised" /\ j.conn = "none" /\ j.ticket = None
        /\ j.cause = "socket" /\ j.late = job[f].late
    BY <1>1, <1>2, ThreadsJob DEF At, Jobs, Phases
  <1>4. j.late \/ TransportClosed(f)
    BY <1>3, ThreadsJob DEF UsePulledSocket, Excused
  <1>5. JobInv(f, j) /\ Awaits(f, j, Pending) /\ CloseHolds(j)
    BY <1>3, <1>4 DEF JobInv, Awaits, Excused, CloseHolds
  <1>6. job' = [job EXCEPT ![f] = j]
    BY <1>1 DEF UsePulledSocket
  <1>. QED  BY <1>5, <1>6, JobStep DEF UsePulledSocket

LEMMA RedirectStep ==
    ASSUME FetchInv, NEW f \in Threads, Redirect(f)
    PROVE  FetchInv'
  <1>1. CASE job[f].hop > MaxRedirects
    BY <1>1, FailStep DEF Redirect
  <1>2. CASE ~(job[f].hop > MaxRedirects)
    <2>1. PICK j : j = [At("hop", job[f].attempt) EXCEPT !.hop = job[f].hop + 1,
                                                         !.late = job[f].late]
      OBVIOUS
    <2>2. job[f].hop + 1 \in Hops /\ 0 \in 0 .. Addresses
      BY <1>2, ThreadsJob, FetchAssumption DEF Hops
    <2>3. /\ j \in Jobs /\ j.phase = "hop" /\ j.ticket = None /\ j.answer = None
          /\ j.conn = "none"
      BY <2>1, <2>2, ThreadsJob DEF At, Jobs, Phases
    <2>4. JobInv(f, j) /\ Awaits(f, j, Pending) /\ CloseHolds(j)
      BY <2>3 DEF JobInv, Awaits, Excused, CloseHolds
    <2>5. /\ job' = [job EXCEPT ![f] = j]
          /\ UNCHANGED <<resolver, closing, sent>>
      BY <1>2, <2>1 DEF Redirect
    <2>. QED  BY <2>4, <2>5, JobStep
  <1>. QED  BY <1>1, <1>2

\* The end of a collection, with an outcome or with what its body raises.
LEMMA ParseStep ==
    ASSUME FetchInv, NEW f \in Threads, Parse(f)
    PROVE  FetchInv'
  <1>1. CASE job' = [job EXCEPT ![f] = Idle]
    <2>1. 1 \in 1 .. Attempts
      BY FetchAssumption
    <2>. QED  BY <1>1, <2>1, RestartedJob DEF Parse, Idle, Phases
  <1>2. CASE job' = [job EXCEPT ![f].phase = "raised", ![f].cause = "body"]
    <2>1. PICK j : j = [job[f] EXCEPT !.phase = "raised", !.cause = "body"]
      OBVIOUS
    <2>2. /\ j \in Jobs /\ j.phase = "raised" /\ j.cause = "body"
          /\ j.ticket = job[f].ticket /\ j.conn = job[f].conn /\ j.late = job[f].late
      BY <2>1, ThreadsJob DEF Jobs, Phases
    <2>3. JobInv(f, j) /\ Awaits(f, j, Pending) /\ CloseHolds(j)
      BY <2>2, ThreadsJob DEF JobInv, Awaits, Excused, CloseHolds
    <2>4. job' = [job EXCEPT ![f] = j]
      BY <1>2, <2>1
    <2>. QED  BY <2>3, <2>4, JobStep DEF Parse
  <1>. QED  BY <1>1, <1>2 DEF Parse

LEMMA OutcomeSteps ==
    ASSUME FetchInv, NEW f \in Threads, StartCollection(f) \/ ReadBody(f) \/ NotModified(f)
    PROVE  FetchInv'
  <1>1. 1 \in 1 .. Attempts
    BY FetchAssumption
  <1>2. CASE StartCollection(f)
    BY <1>1, <1>2, RestartedJob DEF StartCollection, Phases
  <1>3. CASE ReadBody(f)
    BY <1>1, <1>3, RestartedJob DEF ReadBody, Phases
  <1>4. CASE NotModified(f)
    BY <1>1, <1>4, RestartedJob DEF NotModified, Idle, Phases
  <1>. QED  BY <1>2, <1>3, <1>4

LEMMA FailSteps ==
    ASSUME FetchInv, NEW f \in Threads,
           \/ Cancel(f) \/ TimeOut(f) \/ UnsafeUrl(f) \/ RefuseLookup(f)
           \/ MalformedResponse(f) \/ RefusedResponse(f) \/ BodyFails(f)
    PROVE  FetchInv'
  BY FailStep
  DEF Cancel, TimeOut, UnsafeUrl, RefuseLookup, MalformedResponse, RefusedResponse, BodyFails

-----------------------------------------------------------------------------
(***************************************************************************)
(* The resolver.  A lookup is submitted only when none is queued, with a   *)
(* result queue that neither a thread nor a pending lookup has.            *)
(***************************************************************************)
LEMMA ResolverTypes ==
    ASSUME FetchInv
    PROVE  /\ resolver.queue = <<>> \/ \E q \in Lookups : resolver.queue = <<q>>
           /\ resolver.task \in Lookups \cup {None} /\ resolver.busy \in BOOLEAN
           /\ resolver.stage \in {"get", "taken", "looking", "answered"}
           /\ resolver.stage \in {"taken", "looking"} => resolver.task \in Lookups
           /\ DOMAIN resolver = {"queue", "busy", "task", "stage"}
           /\ resolver = [queue |-> resolver.queue, busy |-> resolver.busy,
                          task |-> resolver.task, stage |-> resolver.stage]
  BY NoneAssumption DEF FetchInv, ResolverInv

\* A step of the resolver that answers nothing and submits nothing.
LEMMA ResolverStep ==
    ASSUME FetchInv, ResolverInv', Pending' \subseteq Pending,
           UNCHANGED <<closing, job, sent>>
    PROVE  FetchInv'
  <1>1. CloseInv' /\ (job = [f \in Threads |-> job[f]])'
    BY DEF FetchInv, CloseInv, CloseHolds
  <1>2. \A f \in Threads : JobInv(f, job[f])' /\ Awaits(f, job[f], Pending)'
    BY DEF FetchInv, JobInv, Awaits, Excused, TransportClosed
  <1>. QED  BY <1>1, <1>2 DEF FetchInv

LEMMA TakeStep ==
    ASSUME FetchInv, Take
    PROVE  FetchInv'
  <1>1. PICK q \in Lookups : resolver.queue = <<q>>
    BY ResolverTypes DEF Take
  <1>2. resolver' = [queue |-> <<>>, busy |-> resolver.busy, task |-> q, stage |-> "taken"]
    <2>1. Head(resolver.queue) = q
      BY <1>1
    <2>2. resolver' = [resolver EXCEPT !.queue = <<>>, !.task = q, !.stage = "taken"]
      BY <2>1 DEF Take
    <2>. QED  BY <2>2, ResolverTypes
  <1>3. q # None
    BY NoneAssumption
  <1>4. ResolverInv'
    BY <1>2, <1>3, ResolverTypes DEF ResolverInv
  <1>5. q \in Pending
    BY <1>1 DEF Pending
  <1>6. Pending' = {q}
    BY <1>2, <1>3 DEF Pending
  <1>. QED  BY <1>4, <1>5, <1>6, ResolverStep DEF Take

LEMMA BusyStep ==
    ASSUME FetchInv, SetBusy \/ ClearBusy
    PROVE  FetchInv'
  <1>1. PICK busy \in BOOLEAN, stage \in {"looking", "get"} :
           /\ resolver' = [queue |-> resolver.queue, busy |-> busy, task |-> resolver.task,
                           stage |-> stage]
           /\ stage = "looking" => resolver.task \in Lookups
    <2>1. CASE SetBusy
      <3>1. resolver' = [queue |-> resolver.queue, busy |-> TRUE, task |-> resolver.task,
                         stage |-> "looking"] /\ resolver.task \in Lookups
        BY <2>1, ResolverTypes DEF SetBusy
      <3>. QED  BY <3>1
    <2>2. CASE ClearBusy
      <3>1. resolver' = [queue |-> resolver.queue, busy |-> FALSE, task |-> resolver.task,
                         stage |-> "get"]
        BY <2>2, ResolverTypes DEF ClearBusy
      <3>. QED  BY <3>1
    <2>. QED  BY <2>1, <2>2
  <1>2. ResolverInv'
    BY <1>1, ResolverTypes, NoneAssumption DEF ResolverInv
  <1>3. Pending' \subseteq Pending
    BY <1>1 DEF Pending
  <1>. QED  BY <1>2, <1>3, ResolverStep DEF SetBusy, ClearBusy

\* A result queue of its own for every call.
LEMMA TicketIsNew ==
    ASSUME FetchInv, NEW f \in Threads, job[f].phase = "hop", resolver.queue = <<>>
    PROVE  /\ NewTicket(f) \in OwnTickets(f) /\ NewTicket(f) \in Tickets
           /\ \A l \in Pending : l.ticket # NewTicket(f)
  <1>1. Pending = IF resolver.task = None THEN {} ELSE {resolver.task}
    BY DEF Pending
  <1>2. ASSUME NEW k \in 1 .. 3, NEW g \in Threads
        PROVE  job[g].ticket # <<f, k>>
    <2>1. job[g].ticket \in OwnTickets(g) \cup {None} /\ job[f].ticket = None
      BY ThreadsJob DEF JobInv
    <2>2. <<f, k>> \in Tickets
      BY DEF Tickets
    <2>. QED  BY <2>1, <2>2, NoneAssumption DEF OwnTickets
  <1>3. \A k \in 1 .. 3 : <<f, k>> \in Held => resolver.task # None /\ resolver.task.ticket = <<f, k>>
    BY <1>2 DEF Held
  <1>4. \E k \in 1 .. 3 : <<f, k>> \notin Held
    <2>1. <<f, 1>> # <<f, 2>>
      OBVIOUS
    <2>. QED  BY <1>3, <2>1
  <1>5. PICK k \in 1 .. 3 : NewTicket(f) = <<f, k>> /\ <<f, k>> \notin Held
    <2>1. PICK k : k = CHOOSE n \in 1 .. 3 : <<f, n>> \notin Held
      OBVIOUS
    <2>2. k \in 1 .. 3 /\ <<f, k>> \notin Held
      BY <1>4, <2>1
    <2>3. NewTicket(f) = <<f, k>>
      BY <2>1 DEF NewTicket
    <2>. QED  BY <2>2, <2>3
  <1>6. \A l \in Pending : l.ticket \in Held
    BY <1>1 DEF Held
  <1>. QED  BY <1>5, <1>6 DEF OwnTickets, Tickets

LEMMA SubmitStep ==
    ASSUME FetchInv, NEW f \in Threads, Submit(f)
    PROVE  FetchInv'
  <1>1. /\ job[f].phase = "hop" /\ resolver.queue = <<>>
        /\ UNCHANGED <<closing, sent>>
    BY DEF Submit, MayStartHop, DnsBusy
  <1>2. PICK t : t = NewTicket(f)
    OBVIOUS
  <1>3. t \in OwnTickets(f) /\ t \in Tickets /\ \A l \in Pending : l.ticket # t
    BY <1>1, <1>2, TicketIsNew
  <1>4. PICK l : l = [ticket |-> t, host |-> <<f, job[f].hop>>]
    OBVIOUS
  <1>5. l \in Lookups /\ l # None
    BY <1>3, <1>4, ThreadsJob, NoneAssumption DEF Lookups, Hosts
  <1>6. /\ resolver' = [queue |-> <<l>>, busy |-> resolver.busy, task |-> resolver.task,
                        stage |-> resolver.stage]
        /\ job' = [job EXCEPT ![f].phase = "asked", ![f].ticket = t]
    BY <1>1, <1>2, <1>4, ResolverTypes DEF Submit
  <1>7. Pending' = Pending \cup {l}
    BY <1>1, <1>6 DEF Pending
  <1>8. ResolverInv'
    BY <1>5, <1>6, ResolverTypes, NoneAssumption DEF ResolverInv
  <1>9. PICK j : j = [job[f] EXCEPT !.phase = "asked", !.ticket = t]
    OBVIOUS
  <1>10. /\ j \in Jobs /\ j.phase = "asked" /\ j.ticket = t /\ j.hop = job[f].hop
         /\ j.answer = job[f].answer /\ j.conn = job[f].conn /\ j.late = job[f].late
    BY <1>3, <1>9, ThreadsJob DEF Jobs, Phases
  <1>11. j.answer # None => j.answer = <<f, j.hop>>
    BY <1>1, <1>10, ThreadsJob DEF JobInv
  <1>12. JobInv(f, j) /\ Awaits(f, j, Pending \cup {l})
    BY <1>3, <1>4, <1>10, <1>11, ThreadsJob DEF JobInv, Awaits, Excused
  <1>13. \A g \in Threads : job'[g] = IF g = f THEN j ELSE job[g]
    BY <1>6, <1>9 DEF FetchInv
  <1>14. ASSUME NEW g \in Threads, g # f
         PROVE  Awaits(g, job[g], Pending \cup {l})
    <2>1. job[g].ticket # t
      BY <1>3, <1>14, ThreadsJob, NoneAssumption DEF JobInv, OwnTickets
    <2>. QED  BY <1>4, <2>1, ThreadsJob DEF Awaits
  <1>15. \A g \in Threads : JobInv(g, job'[g]) /\ Awaits(g, job'[g], Pending')
    BY <1>7, <1>12, <1>13, <1>14, ThreadsJob
  <1>16. \A g \in Threads : JobInv(g, job[g])' /\ Awaits(g, job[g], Pending)'
    BY <1>1, <1>15 DEF JobInv, Awaits, Excused, TransportClosed
  <1>17. CloseInv'
    <2>1. f = "scheduler" => closing = "open"
      BY DEF Submit, MayStartHop, ClientClosed
    <2>. QED  BY <1>1, <1>10, <1>13, <2>1 DEF FetchInv, CloseInv, CloseHolds, ToSend, Threads
  <1>18. (job = [g \in Threads |-> job[g]])'
    BY <1>6 DEF FetchInv
  <1>. QED  BY <1>8, <1>16, <1>17, <1>18 DEF FetchInv

\* An answer reaches the call that waits on its result queue, if one does.
LEMMA AnswerStep ==
    ASSUME FetchInv, Answer
    PROVE  FetchInv'
  <1>1. PICK l : l = resolver.task /\ l \in Lookups
    BY ResolverTypes DEF Answer
  <1>2. job' = [f \in Threads |->
                  IF job[f].phase = "asked" /\ job[f].ticket = l.ticket
                  THEN [job[f] EXCEPT !.ticket = None, !.answer = l.host]
                  ELSE job[f]]
    BY <1>1 DEF Answer
  <1>3. resolver' = [queue |-> resolver.queue, busy |-> resolver.busy, task |-> None,
                     stage |-> "answered"] /\ UNCHANGED <<closing, sent>>
    BY ResolverTypes DEF Answer
  <1>4. ResolverInv' /\ Pending' \subseteq Pending
    BY <1>1, <1>3, ResolverTypes, NoneAssumption DEF ResolverInv, Pending
  <1>5. l \in Pending /\ l.host \in Hosts /\ l.ticket \in Tickets
    BY <1>1, NoneAssumption DEF Pending, Lookups
  <1>6. ASSUME NEW f \in Threads
        PROVE  /\ JobInv(f, job'[f]) /\ Awaits(f, job'[f], Pending)
               /\ job'[f].phase = job[f].phase /\ job'[f].left = job[f].left
    <2>1. CASE job[f].phase = "asked" /\ job[f].ticket = l.ticket
      <3>1. PICK j : j = [job[f] EXCEPT !.ticket = None, !.answer = l.host]
        OBVIOUS
      <3>2. job'[f] = j
        BY <1>2, <2>1, <3>1
      <3>3. l.host = <<f, job[f].hop>>
        BY <1>5, <2>1, ThreadsJob DEF Awaits
      <3>4. /\ j \in Jobs /\ j.phase = "asked" /\ j.ticket = None /\ j.hop = job[f].hop
            /\ j.answer = l.host /\ j.conn = job[f].conn /\ j.late = job[f].late
            /\ j.left = job[f].left
        BY <1>5, <2>1, <3>1, ThreadsJob DEF Jobs
      <3>5. JobInv(f, j)
        BY <3>3, <3>4, ThreadsJob DEF JobInv, Excused
      <3>6. Awaits(f, j, Pending)
        <4>1. \A q \in Pending : q.ticket \in Tickets
          BY ResolverTypes DEF Pending, Lookups
        <4>. QED  BY <3>4, <4>1, NoneAssumption DEF Awaits
      <3>. QED  BY <2>1, <3>2, <3>4, <3>5, <3>6
    <2>2. CASE ~(job[f].phase = "asked" /\ job[f].ticket = l.ticket)
      BY <1>2, <2>2, ThreadsJob
    <2>. QED  BY <2>1, <2>2
  <1>7. \A f \in Threads : JobInv(f, job[f])' /\ Awaits(f, job[f], Pending)'
    BY <1>3, <1>4, <1>6 DEF JobInv, Awaits, Excused, TransportClosed
  <1>8. CloseInv'
    BY <1>3, <1>6 DEF FetchInv, CloseInv, CloseHolds, ToSend, Threads
  <1>9. (job = [f \in Threads |-> job[f]])'
    BY <1>2
  <1>. QED  BY <1>4, <1>7, <1>8, <1>9 DEF FetchInv

-----------------------------------------------------------------------------
\* close(): nothing has been sent since an event when it is set, and a
\* connection is closed after both.
LEMMA CloseStep ==
    ASSUME FetchInv, SetClosed \/ CloseActive
    PROVE  FetchInv'
  <1>1. "scheduler" \in Threads
    BY DEF Threads
  <1>2. /\ <<closing, closing'>> \in {<<"open", "client">>, <<"client", "transport">>,
                                     <<"transport", "closed">>}
        /\ UNCHANGED <<resolver, sent>>
    BY DEF SetClosed, CloseActive
  <1>3. PICK j : /\ job' = [job EXCEPT !["scheduler"] = j]
                 /\ JobInv("scheduler", j) /\ Awaits("scheduler", j, Pending)
                 /\ CloseHolds(j)
    <2>1. CASE UNCHANGED job
      <3>1. job' = [job EXCEPT !["scheduler"] = job["scheduler"]]
        BY <2>1 DEF FetchInv
      <3>. QED  BY <1>1, <3>1, ThreadsJob
    <2>2. CASE CloseActive /\ job["scheduler"].conn = "open" /\ job' \in Pull("scheduler")
      <3>1. TransportClosed("scheduler")
        BY <2>2 DEF CloseActive, TransportClosed
      <3>. QED  BY <1>1, <2>2, <3>1, PulledJob
    <2>. QED  BY <2>1, <2>2 DEF SetClosed, CloseActive
  <1>4. \A g \in Threads : job'[g] = IF g = "scheduler" THEN j ELSE job[g]
    BY <1>3 DEF FetchInv
  <1>5. CloseInv'
    BY <1>1, <1>2, <1>3, <1>4 DEF FetchInv, CloseInv, CloseHolds, ToSend
  <1>6. Pending' = Pending /\ ResolverInv'
    BY <1>2 DEF Pending, FetchInv, ResolverInv
  <1>7. \A g \in Threads : JobInv(g, job'[g]) /\ Awaits(g, job'[g], Pending)
    BY <1>3, <1>4, ThreadsJob
  <1>8. \A g \in Threads : TransportClosed(g) => TransportClosed(g)'
    BY <1>2 DEF TransportClosed
  <1>9. \A g \in Threads : JobInv(g, job[g])' /\ Awaits(g, job[g], Pending)'
    BY <1>6, <1>7, <1>8 DEF JobInv, Awaits, Excused
  <1>10. (job = [g \in Threads |-> job[g]])'
    BY <1>3 DEF FetchInv
  <1>. QED  BY <1>5, <1>6, <1>9, <1>10 DEF FetchInv

LEMMA StutterStep ==
    ASSUME FetchInv, UNCHANGED vars
    PROVE  FetchInv'
  <1>1. ResolverInv' /\ Pending' = Pending /\ CloseInv'
    BY DEF vars, FetchInv, ResolverInv, Pending, CloseInv, CloseHolds
  <1>. QED  BY <1>1 DEF vars, FetchInv, JobInv, Awaits, Excused, TransportClosed

LEMMA FetchStep == FetchInv /\ [Next]_vars => FetchInv'
  <1> SUFFICES ASSUME FetchInv, [Next]_vars PROVE FetchInv'
    OBVIOUS
  <1>1. ASSUME NEW f \in Threads, StartCollection(f) \/ Expire(f) \/ TimerCloses(f)
        PROVE  FetchInv'
    BY <1>1, OutcomeSteps, ExpireStep, TimerClosesStep
  <1>2. ASSUME NEW f \in Threads, Fetching(f)
        PROVE  FetchInv'
    <2>1. CASE Cancel(f) \/ TimeOut(f)
      BY <2>1, FailSteps
    <2>2. CASE Hop(f)
      BY <2>2, FailSteps, SubmitStep, TakeAnswerStep DEF Hop
    <2>3. CASE Exchange(f)
      BY <2>3, RegisterStep, SendRequestStep, AddressFailsStep, FailSteps, UsePulledSocketStep
      DEF Exchange
    <2>4. CASE Response(f)
      BY <2>4, RedirectStep, FailSteps, OutcomeSteps, StartBodyStep, ParseStep
      DEF Response
    <2>. QED  BY <1>2, <2>1, <2>2, <2>3, <2>4 DEF Fetching
  <1>3. CASE Take \/ SetBusy \/ Answer \/ ClearBusy
    BY <1>3, TakeStep, BusyStep, AnswerStep
  <1>4. CASE SetClosed \/ CloseActive
    BY <1>4, CloseStep
  <1>5. CASE UNCHANGED vars
    BY <1>5, StutterStep
  <1>. QED  BY <1>1, <1>2, <1>3, <1>4, <1>5 DEF Next

LEMMA FetchInvImplies ==
    ASSUME FetchInv
    PROVE  /\ TypeOK /\ PinnedToOwnHost
           /\ RaisesOnlyByBodyOrClosedSocket /\ CloseStopsRequests
  <1>1. sent.client <= Addresses /\ sent.transport <= 1
    BY FetchAssumption DEF FetchInv, CloseInv
  <1>2. sent \in [client : 0 .. Addresses + 1, transport : 0 .. 2]
    BY FetchAssumption DEF FetchInv, CloseInv
  <1>3. TypeOK
    BY <1>2 DEF FetchInv, ResolverInv, CloseInv, JobInv, TypeOK
  <1>. QED
    BY <1>1, <1>3 DEF FetchInv, JobInv, Excused, PinnedToOwnHost,
                      RaisesOnlyByBodyOrClosedSocket, CloseStopsRequests

-----------------------------------------------------------------------------
THEOREM FetchInvariant == Spec => []FetchInv
  BY FetchInitInv, FetchStep, PTL DEF Spec

\* The resolver, close() and the collections keep their types.
THEOREM FetchTypes == Spec => []TypeOK
  BY FetchInvariant, FetchInvImplies, PTL

\* A connection goes to an address that was looked up for its own hop.
THEOREM ConnectionsArePinned == Spec => []PinnedToOwnHost
  BY FetchInvariant, FetchInvImplies, PTL

\* A collection ends in an unhandled exception only by a body that was read, or
\* by a socket closed after its deadline or by close(): no lookup queue is full.
THEOREM LookupsNeverRaise == Spec => []RaisesOnlyByBodyOrClosedSocket
  BY FetchInvariant, FetchInvImplies, PTL

\* From the first event of close() on, what is left of one hop goes out at most,
\* and from the second on one request.
THEOREM ClosingStopsRequests == Spec => []CloseStopsRequests
  BY FetchInvariant, FetchInvImplies, PTL
=============================================================================
