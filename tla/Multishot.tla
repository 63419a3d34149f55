----------------------------- MODULE Multishot -----------------------------
(***************************************************************************)
(* Multishot receives and reads (MultishotRecv, MultishotRead) drawing on  *)
(* one provided-buffer pool: the composition of the pool, the kernel's     *)
(* armed requests, the completion queue and the completion thread.         *)
(*                                                                         *)
(* A request stays armed over many completions.  Each may carry a buffer   *)
(* of the pool; one without MORE ends the request, and may carry a buffer  *)
(* too.  Data is always on its way, on the socket or the file a request is *)
(* armed on.  Completions that no ticket recognises (raw pushes, dropped   *)
(* tickets) leave their buffer to be returned by hand.                     *)
(*                                                                         *)
(* On an incremental pool (IOU_PBUF_RING_INC) a completion with BUF_MORE   *)
(* leaves the buffer with the kernel.  The tickets do not know that flag:  *)
(* IncTickets says whether the application uses them on such a pool, or    *)
(* drives it by hand, by the rule of register_incremental_buffers.         *)
(***************************************************************************)
EXTENDS ProvidedBuffers

CONSTANTS
  Ids,         \* request identities; one is reused once nothing names it
  CqRoom,      \* completions the queue takes before extra ones are refused
  IncTickets   \* whether tickets are used on incremental pools

ASSUME MultishotAssumption == CqRoom \in Nat /\ IncTickets \in BOOLEAN

VARIABLES
  inc,      \* the pool was registered with IOU_PBUF_RING_INC
  armed,    \* identities of the requests the kernel works on
  cq,       \* completions not reaped yet
  tickets,  \* identities of the MultishotRecv and MultishotRead values held
  loose     \* ids of buffers brought by completions that no ticket took

requestVars == <<inc, armed, cq, tickets, loose>>
mvars == <<vars, requestVars>>

MInit ==
  /\ Init
  /\ inc = FALSE /\ armed = {} /\ cq = << >> /\ tickets = {} /\ loose = {}

-----------------------------------------------------------------------------
\* Submission.

\* register_provided_buffers and register_incremental_buffers
RegisterPool(count, incremental) ==
  /\ Register(count)
  /\ inc' = incremental
  /\ UNCHANGED <<armed, cq, tickets, loose>>

Named == tickets \cup armed \cup {cq[i].id : i \in DOMAIN cq}

\* into_pending: one SQE naming the group, and a ticket that owns no buffer.
Push ==
  /\ entries # 0
  /\ inc => IncTickets
  /\ \E id \in Ids \ Named :
       /\ armed' = armed \cup {id}
       /\ tickets' = tickets \cup {id}
  /\ UNCHANGED <<vars, inc, cq, loose>>

\* The same SQE pushed raw: its completions are the application's own to match.
PushRaw ==
  /\ entries # 0
  /\ \E id \in Ids \ Named : armed' = armed \cup {id}
  /\ UNCHANGED <<vars, inc, cq, tickets, loose>>

\* Dropping a ticket leaves its request armed.
DropTicket(ticket) ==
  /\ tickets' = tickets \ {ticket}
  /\ UNCHANGED <<vars, inc, armed, cq, loose>>

-----------------------------------------------------------------------------
\* The kernel.

\* buffer: a set of at most one id
Cqe(request, buffer, more, buf_more) ==
  [id |-> request, buffer |-> buffer, more |-> more, buf_more |-> buf_more]

Post(request, buffer, more, buf_more) ==
  /\ more => Len(cq) < CqRoom
  /\ cq' = Append(cq, Cqe(request, buffer, more, buf_more))
  /\ armed' = IF more THEN armed ELSE armed \ {request}
  /\ UNCHANGED <<inc, tickets, loose>>

\* Data arrives and takes the buffer at the head.  A queue that cannot take
\* one more completion ends the request: its last completion then carries the
\* buffer already picked.
Arrive(request) ==
  /\ \E more \in BOOLEAN : Post(request, {bring[head % entries]}, more, FALSE)
  /\ Deliver

\* Data arrives and fills a part of the buffer at the head of an incremental
\* pool.
ArrivePart(request) ==
  /\ inc /\ Visible # 0
  /\ \E more \in BOOLEAN : Post(request, {bring[head % entries]}, more, TRUE)
  /\ UNCHANGED vars

\* Data arrives and the pool is dry: the request ends with ENOBUFS.
ArriveDry(request) ==
  /\ Visible = 0
  /\ Post(request, {}, FALSE, FALSE)
  /\ UNCHANGED vars

\* A completion without data: an error the request survives, or one (a
\* cancellation, the end of the stream) it does not.
Report(request) ==
  /\ \E more \in BOOLEAN : Post(request, {}, more, FALSE)
  /\ UNCHANGED vars

-----------------------------------------------------------------------------
\* The completion thread: BufferConsumer, Delivery, Arrival, Finished.

Event == Head(cq)
Matching == tickets \cap {Event.id}

\* mutant of FromEvent: a terminal completion carries no arrival
FromEventForgetsLast(event) ==
  /\ IF event.buffer # {} /\ event.more
     THEN \E bid \in event.buffer : Lease(bid)
     ELSE Free /\ UNCHANGED vars
  /\ tickets' = IF event.more THEN tickets ELSE tickets \ Matching

\* mutant of FromEvent: a completion that carries data leaves the request armed
FromEventDataIsArmed(event) ==
  /\ IF event.buffer # {} THEN \E bid \in event.buffer : Lease(bid) ELSE Free /\ UNCHANGED vars
  /\ tickets' = IF event.more \/ event.buffer # {} THEN tickets ELSE tickets \ Matching

\* mutant of FromEvent: no lease, the buffer is recycled at once and claimed
FromEventRecycles(event) ==
  /\ IF event.buffer # {}
     THEN \E bid \in event.buffer :
            /\ Free /\ RecycleRaw(bid) /\ CommitTail
            /\ lease' = {bid}
            /\ UNCHANGED <<entries, head, held, delivered, tokens, leaked>>
     ELSE Free /\ UNCHANGED vars
  /\ tickets' = IF event.more THEN tickets ELSE tickets \ Matching

\* Delivery::from_event: a buffer becomes an Arrival (a lease of the pool),
\* whether the completion is partial or terminal; a terminal one is Done.
FromEvent(event) ==
  /\ IF event.buffer # {} THEN \E bid \in event.buffer : Lease(bid) ELSE Free /\ UNCHANGED vars
  /\ tickets' = IF event.more THEN tickets ELSE tickets \ Matching

\* MultishotRecv::record and MultishotRead::record, on the ticket that matches.
Record ==
  /\ cq # << >> /\ Matching # {}
  /\ FromEvent(Event)
  /\ cq' = Tail(cq)
  /\ UNCHANGED <<inc, armed, loose>>

\* Every ticket hands the event back: the application keeps the buffer id,
\* unless BUF_MORE says that the buffer is still the kernel's.
TakeByHand ==
  /\ cq # << >> /\ Matching = {}
  /\ loose' = IF Event.buf_more THEN loose ELSE loose \cup Event.buffer
  /\ cq' = Tail(cq)
  /\ UNCHANGED <<vars, inc, armed, tickets>>

\* The pool's own calls, on the ids the application holds.  Dropping an Arrival
\* is DropLease; it may also be forgotten.
ReturnByHand ==
  \E bid \in loose :
    /\ \/ \E commit \in BOOLEAN : Recycle(bid, commit)
       \/ Claim(bid)
       \/ Acknowledge(bid)
    /\ loose' = loose \ {bid}
    /\ UNCHANGED <<inc, armed, cq, tickets>>

ReturnToken == \E token \in tokens, commit \in BOOLEAN : RecycleAcknowledged(token, commit)

PoolStep ==
  /\ \/ Commit
     \/ DropLease
     \/ ForgetLease
     \/ ReturnToken
     \/ \E token \in tokens : DropToken(token)
  /\ UNCHANGED requestVars

-----------------------------------------------------------------------------

MNext ==
  \/ \E count \in Counts, incremental \in BOOLEAN : RegisterPool(count, incremental)
  \/ Push
  \/ PushRaw
  \/ \E ticket \in tickets : DropTicket(ticket)
  \/ \E request \in armed :
       Arrive(request) \/ ArrivePart(request) \/ ArriveDry(request) \/ Report(request)
  \/ Record
  \/ TakeByHand
  \/ ReturnByHand
  \/ PoolStep

\* The kernel does not fail every request for ever; the
\* completion thread reaps, gives back what it holds (a lease excludes the
\* other calls, hence strong fairness) and arms again what has finished.
Fairness ==
  /\ SF_mvars(\E request \in armed : Arrive(request) \/ ArrivePart(request))
  /\ WF_mvars(DropLease /\ UNCHANGED requestVars)
  /\ SF_mvars(Record)
  /\ WF_mvars(TakeByHand)
  /\ SF_mvars(ReturnByHand)
  /\ SF_mvars(ReturnToken /\ UNCHANGED requestVars)
  /\ SF_mvars(Commit /\ UNCHANGED requestVars)
  /\ WF_mvars(armed = {} /\ (Push \/ PushRaw))

MSpec == MInit /\ [][MNext]_mvars /\ Fairness

-----------------------------------------------------------------------------

\* Whatever the requests do, the pool sees only its own calls and deliveries,
\* in an order its contract allows: a record claims a buffer once, and only one
\* that a completion named.
ImplementsPool == Spec

\* The unread completions whose buffer is the application's to take, and those
\* buffers.
Unread == {i \in DOMAIN cq : ~cq[i].buf_more /\ cq[i].buffer # {}}
InCq == UNION {cq[i].buffer : i \in Unread}

\* Every buffer the kernel has handed over has exactly one owner: one unread
\* completion, the live Arrival or lease, the application's own list, or the
\* ledger.  So no completion's buffer is dropped on the way, the one folded
\* into a terminal completion included, and none is claimed twice.
DeliveryHasOneOwner ==
  /\ held = InCq \cup lease \cup loose \cup delivered
  /\ \A i, j \in Unread : cq[i].buffer = cq[j].buffer => i = j
  /\ InCq \cap (lease \cup loose \cup delivered) = {}
  /\ lease \cap (loose \cup delivered) = {}
  /\ loose \cap delivered = {}

\* A ticket stands for an armed request, or for one whose terminal completion
\* is still to be reaped: the application is never left listening on a request
\* that ended with the last buffer, a dry pool or a full queue.
ArmedOrTold ==
  \A t \in tickets : t \in armed \/ \E i \in DOMAIN cq : cq[i].id = t /\ ~cq[i].more

Completion == [id : Ids, buffer : SUBSET Nat, more : BOOLEAN, buf_more : BOOLEAN]

\* The inductive form, when tickets are kept off incremental pools: the pool's
\* invariant, one buffer at most in a completion, no BUF_MORE that a ticket
\* would meet, and the two properties above.
RequestsInv ==
  /\ cq \in Seq(Completion) /\ armed \subseteq Ids
  /\ entries = 0 => ~inc /\ armed = {} /\ cq = << >> /\ tickets = {}
  /\ inc => tickets = {}
  /\ ~inc => \A i \in DOMAIN cq : ~cq[i].buf_more
  /\ \A i \in DOMAIN cq : \A a, b \in cq[i].buffer : a = b
  /\ DeliveryHasOneOwner
  /\ ArmedOrTold

MultishotInv == (Init \/ PoolInv) /\ RequestsInv

\* Buffers that never come back: forgotten leases and dropped tokens.
Lost == leaked \cup (delivered \ tokens)

\* Reception never stops: whatever ends a request (a dry pool, a full queue,
\* an error), data goes on being delivered, unless every buffer was lost.
KeepsDelivering == []<>(\E i \in DOMAIN cq : cq[i].buffer # {}) \/ <>[](Lost = Buffer)

=============================================================================
