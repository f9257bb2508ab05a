------------------------------ MODULE SafeFetch ------------------------------
(***************************************************************************)
(* One collection of a feed (_collect_source: at most three attempts) and  *)
(* what it runs through: SafeFeedClient.fetch with its redirects, the      *)
(* pinned connections of PinnedHttpsTransport.open with the timer that     *)
(* closes them at the deadline, close(), and the one resolver thread that  *)
(* all clients of the process share.                                       *)
(*                                                                         *)
(* The scheduler's thread and the threads of "collect now" run at once.    *)
(* Each has a client of its own, and only the scheduler's is ever closed,  *)
(* by RssScheduler.stop.  Every check of the event, the deadline or the    *)
(* queue is one step; a name lookup may hang for ever.                     *)
(*                                                                         *)
(* Errors are told apart by what is done about them: tried again, or not,  *)
(* or handled nowhere.  The outcomes that a collection returns are not     *)
(* told apart: FeedCollection takes a collection as one step with any of   *)
(* them, as CollectionEnds justifies.                                      *)
(***************************************************************************)
EXTENDS Naturals, Sequences

CONSTANTS
    Handlers,       \* threads that may serve POST /feeds/{id}/collect
    Attempts,       \* the attempts of _collect_source
    MaxRedirects,   \* max_redirects
    Addresses,      \* bound on the addresses of one host
    None            \* no lookup, no answer, no result queue

ASSUME FetchAssumption ==
    /\ "scheduler" \notin Handlers
    /\ Attempts \in Nat \ {0} /\ MaxRedirects \in Nat /\ Addresses \in Nat \ {0}

VARIABLES
    resolver,       \* _BoundedResolver: its queue, _busy, and its thread
    closing,        \* close() of the scheduler's client, and its two events
    job,            \* the collection each thread is in the middle of
    sent            \* requests the scheduler sent since each event was set (history)

vars == <<resolver, closing, job, sent>>

Threads == Handlers \cup {"scheduler"}
Hops == 1 .. MaxRedirects + 1
\* The host of each hop; every redirect leads to another one.
Hosts == Threads \X Hops
\* Result queues of a thread's calls: one it waits for, and two of earlier
\* calls that the resolver may still hold.
Tickets == Threads \X (1 .. 3)
Lookups == [ticket : Tickets, host : Hosts]

ASSUME NoneAssumption == None \notin Tickets \cup Lookups \cup Hosts

At(phase, attempt) ==
    [phase |-> phase, attempt |-> attempt, hop |-> 1, late |-> FALSE,
     ticket |-> None, answer |-> None, host |-> None, left |-> 0,
     conn |-> "none", cause |-> "none"]

Idle == At("idle", 1)

\* The closed event of the thread's client, and the one of its transport.
ClientClosed(f) == f = "scheduler" /\ closing # "open"

ClosedLate(f) ==                                \* mutant: connections first, the event last
    f = "scheduler" /\ closing = "closed"

TransportClosed(f) == f = "scheduler" /\ closing \in {"transport", "closed"}

-----------------------------------------------------------------------------
Init ==
    /\ resolver = [queue |-> <<>>, busy |-> FALSE, task |-> None, stage |-> "get"]
    /\ closing = "open"
    /\ job = [f \in Threads |-> Idle]
    /\ sent = [client |-> 0, transport |-> 0]

\* A thread whose collection has returned an outcome, or raised, which ends
\* the request it was in, or the scheduler's task.
Ended == {"idle", "raised"}

StartCollection(f) ==
    /\ job[f].phase \in Ended
    /\ ~(f = "scheduler" /\ job[f].phase = "raised")
    /\ job' = [job EXCEPT ![f] = At("hop", 1)]
    /\ UNCHANGED <<resolver, closing, sent>>

\* The deadline of an attempt passes while its thread waits.
Expire(f) ==
    /\ job[f].phase \in {"asked", "request", "sent", "body"}
    /\ ~job[f].late
    /\ job' = [job EXCEPT ![f].late = TRUE]
    /\ UNCHANGED <<resolver, closing, sent>>

\* What an error makes of the collection: another attempt, after a sleep and
\* with a new deadline, or its end with "delayed".
Failed(f, retryable) ==
    [job EXCEPT ![f] = IF retryable /\ @.attempt < Attempts
                       THEN At("hop", @.attempt + 1)
                       ELSE Idle]

Fail(f, retryable) ==
    /\ job' = Failed(f, retryable)
    /\ UNCHANGED <<resolver, closing, sent>>

\* fetch looks at the client's event before each hop; the wait for a lookup
\* and open() look at the transport's.
Cancelled(f) ==
    \/ job[f].phase = "hop" /\ ClientClosed(f)
    \/ job[f].phase \in {"asked", "connect"} /\ TransportClosed(f)

\* The error of a closed event is not tried again.
Cancel(f) == Cancelled(f) /\ Fail(f, FALSE)

IgnoredInLookup(f) ==                           \* mutant: a lookup is waited for
    /\ job[f].phase \in {"hop", "connect", "request", "sent", "body"}
    /\ job[f].late
    /\ Fail(f, TRUE)

\* Where the code asks for the time that remains; up to the connection it
\* looks at a closed event first.
TimeOut(f) ==
    /\ job[f].phase \in {"hop", "asked", "connect", "request", "sent", "body"}
    /\ job[f].late
    /\ ~Cancelled(f)
    /\ job[f].phase = "sent" => job[f].conn = "open"
    /\ job[f].conn # "pulled"
    /\ Fail(f, TRUE)

-----------------------------------------------------------------------------
(***************************************************************************)
(* A hop: check the URL, look its host up.                                 *)
(***************************************************************************)
MayStartHop(f) == job[f].phase = "hop" /\ ~ClientClosed(f) /\ ~job[f].late

UnsafeUrl(f) == MayStartHop(f) /\ Fail(f, FALSE)

BusyOnly == resolver.busy                       \* mutant: the queue is not looked at

DnsBusy == resolver.busy \/ resolver.queue # <<>>

RefuseLookup(f) == MayStartHop(f) /\ DnsBusy /\ Fail(f, FALSE)

Held ==
    {job[f].ticket : f \in Threads}
    \cup {resolver.queue[k].ticket : k \in DOMAIN resolver.queue}
    \cup (IF resolver.task = None THEN {} ELSE {resolver.task.ticket})

OneQueue(f) == <<f, 1>>                         \* mutant: one result queue per client

\* Every call has a result queue of its own.
NewTicket(f) == <<f, CHOOSE k \in 1 .. 3 : <<f, k>> \notin Held>>

\* put_nowait raises when the queue has its one element.
Submit(f) ==
    /\ MayStartHop(f)
    /\ ~DnsBusy
    /\ IF resolver.queue = <<>>
       THEN /\ resolver' = [resolver EXCEPT
                  !.queue = <<[ticket |-> NewTicket(f), host |-> <<f, job[f].hop>>]>>]
            /\ job' = [job EXCEPT ![f].phase = "asked", ![f].ticket = NewTicket(f)]
       ELSE /\ job' = [job EXCEPT ![f].phase = "raised", ![f].cause = "queue"]
            /\ UNCHANGED resolver
    /\ UNCHANGED <<closing, sent>>

\* The resolver's thread: get, set busy, look up and hand over, clear busy.
Take ==
    /\ resolver.stage = "get" /\ resolver.queue # <<>>
    /\ resolver' = [resolver EXCEPT !.queue = <<>>, !.task = Head(resolver.queue), !.stage = "taken"]
    /\ UNCHANGED <<closing, job, sent>>

SetBusy ==
    /\ resolver.stage = "taken"
    /\ resolver' = [resolver EXCEPT !.busy = TRUE, !.stage = "looking"]
    /\ UNCHANGED <<closing, job, sent>>

\* The answer goes to the queue of the call, whether or not anyone waits.
Answer ==
    /\ resolver.stage = "looking"
    /\ job' = [f \in Threads |->
                  IF job[f].phase = "asked" /\ job[f].ticket = resolver.task.ticket
                  THEN [job[f] EXCEPT !.ticket = None, !.answer = resolver.task.host]
                  ELSE job[f]]
    /\ resolver' = [resolver EXCEPT !.task = None, !.stage = "answered"]
    /\ UNCHANGED <<closing, sent>>

\* _busy is set until the answer has been handed over.
ClearBusy ==
    /\ resolver.stage = "answered"
    /\ resolver' = [resolver EXCEPT !.busy = FALSE, !.stage = "get"]
    /\ UNCHANGED <<closing, job, sent>>

\* A lookup that failed is tried again, a host outside the public network is
\* not; otherwise its addresses are tried one after the other.
TakeAnswer(f) ==
    /\ job[f].phase = "asked" /\ job[f].answer # None
    /\ \/ \E retryable \in BOOLEAN : Fail(f, retryable)
       \/ /\ \E n \in 1 .. Addresses :
                job' = [job EXCEPT ![f].phase = "connect", ![f].left = n,
                                   ![f].host = job[f].answer, ![f].answer = None]
          /\ UNCHANGED <<resolver, closing, sent>>

-----------------------------------------------------------------------------
(***************************************************************************)
(* open(): for each address, register a connection, send the request, wait  *)
(* for the response.                                                       *)
(***************************************************************************)
\* The two looks at its event have no effect of the thread between them but
\* that its connection is registered, which close() may find: one step.
Register(f) ==
    /\ job[f].phase = "connect" /\ ~TransportClosed(f) /\ ~job[f].late
    /\ job' = [job EXCEPT ![f].phase = "request", ![f].left = @ - 1]
    /\ UNCHANGED <<resolver, closing, sent>>

Counted(n, closed, bound) == IF closed /\ n < bound THEN n + 1 ELSE n

\* Connects (also a connection that close() has closed), and sends.
SendRequest(f) ==
    /\ job[f].phase = "request" /\ ~job[f].late
    /\ job' = [job EXCEPT ![f].phase = "sent", ![f].conn = "open"]
    /\ sent' = [client |-> Counted(sent.client, ClientClosed(f), Addresses + 1),
                transport |-> Counted(sent.transport,
                                      f = "scheduler" /\ closing \in {"transport", "closed"}, 2)]
    /\ UNCHANGED <<resolver, closing>>

\* An OSError: the next address, if there is one and time is left.
AddressFails(f) ==
    /\ job[f].phase \in {"request", "sent"} /\ job[f].conn # "pulled"
    /\ IF job[f].late \/ job[f].left = 0
       THEN Fail(f, TRUE)
       ELSE /\ job' = [job EXCEPT ![f].phase = "connect", ![f].conn = "none"]
            /\ UNCHANGED <<resolver, closing, sent>>

\* An HTTPException, also of a connection closed before its response.
MalformedResponse(f) ==
    /\ job[f].phase \in {"request", "sent"} /\ job[f].conn # "pulled"
    /\ Fail(f, job[f].late)

\* The timer of the deadline closes the connection from a thread of its own.
\* "pulled" is a socket that is gone between "sock is not None" and its use.
Pull(f) == {[job EXCEPT ![f].conn = c] : c \in {"cut", "pulled"}}

TimerCloses(f) ==
    /\ job[f].late /\ job[f].conn = "open"
    /\ job' \in Pull(f)
    /\ UNCHANGED <<resolver, closing, sent>>

\* An AttributeError, which neither open() nor _collect_source handles.
UsePulledSocket(f) ==
    /\ job[f].conn = "pulled"
    /\ job[f].phase \in {"sent", "body"}
    /\ job' = [job EXCEPT ![f] = [At("raised", 1) EXCEPT !.cause = "socket",
                                                         !.late = job[f].late]]
    /\ UNCHANGED <<resolver, closing, sent>>

Receiving(f) == job[f].phase = "sent" /\ job[f].conn = "open"

\* The deadline stays; the hops are counted.
Redirect(f) ==
    /\ Receiving(f)
    /\ IF job[f].hop > MaxRedirects
       THEN Fail(f, FALSE)
       ELSE /\ job' = [job EXCEPT ![f] = [At("hop", @.attempt) EXCEPT
                          !.hop = job[f].hop + 1, !.late = job[f].late]]
            /\ UNCHANGED <<resolver, closing, sent>>

\* 408, 425, 429 and 5xx are tried again; any other error status, content
\* type or encoding, an excessive length, or a redirect to nowhere is not.
RefusedResponse(f) == Receiving(f) /\ \E retryable \in BOOLEAN : Fail(f, retryable)

NotModified(f) ==
    /\ Receiving(f)
    /\ job' = [job EXCEPT ![f] = Idle]
    /\ UNCHANGED <<resolver, closing, sent>>

\* A response that ends with its connection owns the socket: neither the
\* timer nor close() reaches it.
StartBody(f) ==
    /\ Receiving(f)
    /\ \E c \in {"open", "owned"} :
          job' = [job EXCEPT ![f].phase = "body", ![f].conn = c,
                                ![f].left = 0]
    /\ UNCHANGED <<resolver, closing, sent>>

\* iter_bytes until a read returns nothing: the end of the body, or all there
\* is of it when the peer stops early or the connection was closed.
ReadBody(f) ==
    /\ job[f].phase = "body" /\ job[f].conn # "pulled"
    /\ job' = [job EXCEPT ![f] = At("fetched", 1)]
    /\ UNCHANGED <<resolver, closing, sent>>

\* Too large, or an HTTPException; an OSError is tried again unless the
\* client is closed.
BodyFails(f) ==
    /\ job[f].phase = "body" /\ job[f].conn # "pulled"
    /\ \E retryable \in {FALSE, ~ClientClosed(f)} : Fail(f, retryable)

\* parse_feed: the entries, or a ValueError, to which a body cut short leads.
\* No one handles the other exceptions of a body: the OverflowError of a date
\* whose UTC value is out of range, or the LookupError of its encoding.
Parse(f) ==
    /\ job[f].phase = "fetched"
    /\ \/ job' = [job EXCEPT ![f] = Idle]
       \/ job' = [job EXCEPT ![f].phase = "raised", ![f].cause = "body"]
    /\ UNCHANGED <<resolver, closing, sent>>

\* close(): set the client's event, then the transport's, then close the
\* connections that are registered by now.
SetClosed ==
    /\ \/ closing = "open" /\ closing' = "client"
       \/ closing = "client" /\ closing' = "transport"
    /\ UNCHANGED <<resolver, job, sent>>

CloseActive ==
    /\ closing = "transport"
    /\ closing' = "closed"
    /\ IF job["scheduler"].conn = "open" THEN job' \in Pull("scheduler")
       ELSE UNCHANGED job
    /\ UNCHANGED <<resolver, sent>>

Hop(f) == UnsafeUrl(f) \/ RefuseLookup(f) \/ Submit(f) \/ TakeAnswer(f)
Exchange(f) ==
    \/ Register(f) \/ SendRequest(f) \/ AddressFails(f)
    \/ MalformedResponse(f) \/ UsePulledSocket(f)
Response(f) ==
    \/ Redirect(f) \/ RefusedResponse(f) \/ NotModified(f) \/ StartBody(f)
    \/ ReadBody(f) \/ BodyFails(f) \/ Parse(f)

Fetching(f) == Cancel(f) \/ TimeOut(f) \/ Hop(f) \/ Exchange(f) \/ Response(f)

Next ==
    \/ \E f \in Threads :
          StartCollection(f) \/ Expire(f) \/ TimerCloses(f) \/ Fetching(f)
    \/ Take \/ SetBusy \/ Answer \/ ClearBusy
    \/ SetClosed \/ CloseActive

Spec == Init /\ [][Next]_vars

(***************************************************************************)
(* Fairness: time passes and a thread runs on; a read of a socket returns  *)
(* or raises within its timeout.  Nothing is assumed of the resolver.      *)
(***************************************************************************)
FairSpec ==
    Spec /\ \A f \in Threads : WF_vars(Fetching(f)) /\ WF_vars(Expire(f))

-----------------------------------------------------------------------------
Phases == {"idle", "hop", "asked", "connect", "request", "sent",
           "body", "fetched", "raised"}
Jobs == [phase : Phases, attempt : 1 .. Attempts, hop : Hops, late : BOOLEAN,
         ticket : Tickets \cup {None}, answer : Hosts \cup {None},
         host : Hosts \cup {None}, left : 0 .. Addresses,
         conn : {"none", "open", "owned", "cut", "pulled"},
         cause : {"none", "queue", "socket", "body"}]

\* Type invariant of the resolver, close() and the collections.
TypeOK ==
    /\ resolver \in [queue : {<<>>} \cup {<<q>> : q \in Lookups}, busy : BOOLEAN,
                     task : Lookups \cup {None},
                     stage : {"get", "taken", "looking", "answered"}]
    /\ closing \in {"open", "client", "transport", "closed"}
    /\ job \in [Threads -> Jobs]
    /\ sent \in [client : 0 .. Addresses + 1, transport : 0 .. 2]

\* A connection goes to an address that was looked up for the host of its own
\* hop: an answer that comes after its call gave up, or one to another
\* thread, is never taken for the answer to a later call.
PinnedToOwnHost ==
    \A f \in Threads :
        job[f].phase \in {"connect", "request", "sent", "body"}
            => job[f].host = <<f, job[f].hop>>

\* What ends a collection in an exception that its callers do not handle (for
\* the scheduler: its task) is the parsing of a body that was read, or a
\* connection pulled from under its thread, and that only after its own
\* deadline or close(): never a lookup queue found full, however the
\* resolver's thread and the other threads come in between.
RaisesOnlyByBodyOrClosedSocket ==
    \A f \in Threads :
        job[f].phase = "raised" =>
            \/ job[f].cause = "body"
            \/ job[f].cause = "socket" /\ (job[f].late \/ TransportClosed(f))

\* Once close() has begun, the scheduler's client sends what is left of one
\* hop at most, to each address once: no further redirect, attempt or feed.
\* From the transport's event on, one request at most: no further address.
CloseStopsRequests == sent.client <= Addresses /\ sent.transport <= 1

\* Every collection ends, also when the resolver hangs for ever, the client is
\* closed, or the server is slow.
CollectionEnds ==
    \A f \in Threads :
        job[f].phase \notin Ended ~> job[f].phase \in Ended
=============================================================================
