--------------------------- MODULE OwnedRequests ---------------------------
(***************************************************************************)
(* The owned API: requests that take their storage with them.  Preparing   *)
(* and pushing moves storage from the caller into a ticket (Pending,       *)
(* PendingZc and the tickets of the other request kinds); a receipt,       *)
(* minted from a reaped completion, trades the ticket for the storage.     *)
(* Tickets and receipts are values the application may keep, move between  *)
(* threads, apply in any order, drop or forget.                            *)
(*                                                                         *)
(* A request carries a set of storages, since some kinds own several.  A   *)
(* zero-copy send may post a completion flagged MORE before its terminal   *)
(* one.  The order of entries and completions is the business of           *)
(* SubmissionQueue and CompletionQueue; here both queues are sets.         *)
(*                                                                         *)
(* The rings also carry completions that no owned request asked for: of    *)
(* entries pushed through `raw`, of resource tags, and of messages that    *)
(* another ring's msg_ring sends.  Their user_data is the application's    *)
(* choice, and reap_event makes events of them like of any other.  Nothing *)
(* in the code keeps that choice apart from the identities the ring hands  *)
(* out; the assumption on RawIds does.                                     *)
(***************************************************************************)
EXTENDS Naturals, FiniteSets

CONSTANTS
  Ring,       \* owned rings, each with an identity of its own
  Storage,    \* buffers, paths, regions
  SqEntries,
  MaxId,      \* per ring, a bound on its requests
  RawIds      \* per ring, the user_data of entries that are not owned requests

ASSUME OwnedAssumption ==
  /\ SqEntries \in Nat
  /\ MaxId \in [Ring -> Nat]
  /\ RawIds \in [Ring -> SUBSET Nat]
  /\ \A ring \in Ring : RawIds[ring] \cap 1 .. MaxId[ring] = {}

VARIABLES
  next_id,  \* per ring, the identity the next push gets
  owned,    \* storage in the caller's hands (plain, Prepared or Completed)
  tickets,  \* tickets the application holds
  live,     \* requests the kernel can see or will see: queued or running
  cqes,     \* completions posted and not reaped
  events    \* receipts and partial receipts the application holds

vars == <<next_id, owned, tickets, live, cqes, events>>

Id == Nat \ {0}
Request ==
  [ring : Ring, id : Id, storage : SUBSET Storage, zc : BOOLEAN,
   stage : {"queued", "running", "sent"}]
Ticket ==
  [ring : Ring, id : Id, storage : SUBSET Storage, zc : BOOLEAN, sent : BOOLEAN]
Event == [ring : Ring, id : Nat, more : BOOLEAN]

\* Two records that name the same request.
Same(a, b) == a.ring = b.ring /\ a.id = b.id

Queued(ring) == {request \in live : request.ring = ring /\ request.stage = "queued"}

Init ==
  /\ next_id = [ring \in Ring |-> 1]
  /\ owned = Storage
  /\ tickets = {} /\ live = {} /\ cqes = {} /\ events = {}

-----------------------------------------------------------------------------
\* OwnedSubmitter.

NextId(ring) ==
  /\ next_id[ring] <= MaxId[ring]
  /\ next_id' = [next_id EXCEPT ![ring] = @ + 1]

Full(ring) == Cardinality(Queued(ring)) >= SqEntries

\* push on a full queue: the identity is spent, reclaim_unsubmitted hands the
\* request back, and no entry was written.
PushRejected(ring, storage, zc) ==
  /\ Full(ring)
  /\ storage \subseteq owned
  /\ NextId(ring)
  /\ UNCHANGED <<owned, tickets, live, cqes, events>>

\* push, push_zc and the other pushes: into_pending moves the storage into the
\* ticket, and the entry goes into the queue.
Push(ring, storage, zc) ==
  /\ ~Full(ring)
  /\ storage \subseteq owned
  /\ NextId(ring)
  /\ owned' = owned \ storage
  /\ tickets' = tickets \cup {[ring |-> ring, id |-> next_id[ring], storage |-> storage,
                               zc |-> zc, sent |-> FALSE]}
  /\ live' = live \cup {[ring |-> ring, id |-> next_id[ring], storage |-> storage, zc |-> zc,
                         stage |-> "queued"]}
  /\ UNCHANGED <<cqes, events>>

\* submit and submit_and_wait: the kernel takes a prefix of the queue.
Submit(ring, batch) ==
  /\ batch \subseteq Queued(ring) /\ batch # {}
  /\ \A request \in batch, other \in Queued(ring) \ batch : request.id < other.id
  /\ live' = (live \ batch) \cup {[request EXCEPT !.stage = "running"] : request \in batch}
  /\ UNCHANGED <<next_id, owned, tickets, cqes, events>>

-----------------------------------------------------------------------------
\* The kernel.

Cqe(request, more) == [ring |-> request.ring, id |-> request.id, more |-> more]

\* A zero-copy send reports its count; the pages stay in use.
PostSent(request) ==
  /\ request \in live
  /\ request.zc /\ request.stage = "running"
  /\ live' = (live \ {request}) \cup {[request EXCEPT !.stage = "sent"]}
  /\ cqes' = cqes \cup {Cqe(request, TRUE)}
  /\ UNCHANGED <<next_id, owned, tickets, events>>

\* The terminal completion: the result, the notification, or an error.
PostTerminal(request) ==
  /\ request \in live
  /\ request.stage \in {"running", "sent"}
  /\ live' = live \ {request}
  /\ cqes' = cqes \cup {Cqe(request, FALSE)}
  /\ UNCHANGED <<next_id, owned, tickets, events>>

\* The last completion of an entry pushed through raw, that of a resource tag,
\* or a message from another ring.  (One flagged MORE could not become a receipt.)
PostRaw(ring, id) ==
  /\ cqes' = cqes \cup {[ring |-> ring, id |-> id, more |-> FALSE]}
  /\ UNCHANGED <<next_id, owned, tickets, live, events>>

-----------------------------------------------------------------------------
\* OwnedCompleter.

\* The completions of one request are reaped in the order they were posted.
Reapable(cqe) == cqe \in cqes /\ (cqe.more \/ \A c \in cqes : ~(Same(c, cqe) /\ c.more))

\* mutant of ReapEvent: a receipt from every completion, MORE or not
ReapEventIgnoringMore(cqe) ==
  /\ Reapable(cqe)
  /\ cqes' = cqes \ {cqe}
  /\ events' = events \cup {[cqe EXCEPT !.more = FALSE]}
  /\ UNCHANGED <<next_id, owned, tickets, live>>

\* reap_event: MORE makes a PartialReceipt, everything else a Receipt.
ReapEvent(cqe) ==
  /\ Reapable(cqe)
  /\ cqes' = cqes \ {cqe}
  /\ events' = events \cup {cqe}
  /\ UNCHANGED <<next_id, owned, tickets, live>>

\* reap: skips completions flagged MORE until it finds a receipt.
Reap(cqe, skipped) ==
  /\ cqe \in cqes /\ ~cqe.more
  /\ skipped \subseteq {c \in cqes : c.ring = cqe.ring /\ c.more}
  /\ {c \in cqes : Same(c, cqe) /\ c.more} \subseteq skipped
  /\ cqes' = cqes \ ({cqe} \cup skipped)
  /\ events' = events \cup {cqe}
  /\ UNCHANGED <<next_id, owned, tickets, live>>

\* mutant of ReapNone: skips receipts as well
ReapNoneSkipsAll(ring) ==
  /\ cqes' = {cqe \in cqes : cqe.ring # ring}
  /\ UNCHANGED <<next_id, owned, tickets, live, events>>

\* reap that finds none.
ReapNone(ring) ==
  /\ \A cqe \in cqes : cqe.ring = ring => cqe.more
  /\ cqes' = {cqe \in cqes : cqe.ring # ring}
  /\ UNCHANGED <<next_id, owned, tickets, live, events>>

-----------------------------------------------------------------------------
\* Tickets and receipts in the application's hands.

\* mutant of Matches: the identity without the ring
MatchesIdOnly(ticket, event) == ticket.id = event.id

\* Receipt::belongs_to, PartialReceipt::belongs_to
Matches(ticket, event) == Same(ticket, event)

\* PendingZc::record_sent: the ticket keeps the storage.
RecordSent(ticket, event) ==
  /\ ticket \in tickets /\ event \in events
  /\ ticket.zc /\ event.more
  /\ Matches(ticket, event)
  /\ tickets' = (tickets \ {ticket}) \cup {[ticket EXCEPT !.sent = TRUE]}
  /\ events' = events \ {event}
  /\ UNCHANGED <<next_id, owned, live, cqes>>

\* redeem: a matching receipt gives the storage back; with another one both
\* stay as they are.
Redeem(ticket, event) ==
  /\ ticket \in tickets /\ event \in events
  /\ ~event.more
  /\ Matches(ticket, event)
  /\ tickets' = tickets \ {ticket}
  /\ events' = events \ {event}
  /\ owned' = owned \cup ticket.storage
  /\ UNCHANGED <<next_id, live, cqes>>

\* mutant of DropTicket: the destructor frees the storage
DropTicketFrees(ticket) ==
  /\ ticket \in tickets
  /\ tickets' = tickets \ {ticket}
  /\ owned' = owned \cup ticket.storage
  /\ UNCHANGED <<next_id, live, cqes, events>>

\* Dropping or forgetting a ticket leaks its storage.
DropTicket(ticket) ==
  /\ ticket \in tickets
  /\ tickets' = tickets \ {ticket}
  /\ UNCHANGED <<next_id, owned, live, cqes, events>>

DropEvent(event) ==
  /\ event \in events
  /\ events' = events \ {event}
  /\ UNCHANGED <<next_id, owned, tickets, live, cqes>>

-----------------------------------------------------------------------------

Submitting ==
  \E ring \in Ring :
    \/ \E storage \in SUBSET Storage, zc \in BOOLEAN :
         Push(ring, storage, zc) \/ PushRejected(ring, storage, zc)
    \/ \E batch \in SUBSET Queued(ring) : Submit(ring, batch)

Kernel ==
  \/ \E request \in live : PostSent(request) \/ PostTerminal(request)
  \/ \E ring \in Ring : \E id \in RawIds[ring] : PostRaw(ring, id)

Reaping ==
  \/ \E cqe \in cqes : ReapEvent(cqe) \/ \E skipped \in SUBSET cqes : Reap(cqe, skipped)
  \/ \E ring \in Ring : ReapNone(ring)

Applying ==
  \E ticket \in tickets, event \in events : RecordSent(ticket, event) \/ Redeem(ticket, event)

Dropping ==
  \/ \E ticket \in tickets : DropTicket(ticket)
  \/ \E event \in events : DropEvent(event)

Next == Submitting \/ Kernel \/ Reaping \/ Applying \/ Dropping

Spec == Init /\ [][Next]_vars

-----------------------------------------------------------------------------

\* Type correctness of the owned API's state.
TypeOK ==
  /\ next_id \in [Ring -> Id]
  /\ owned \subseteq Storage
  /\ tickets \subseteq Ticket
  /\ live \subseteq Request
  /\ cqes \subseteq Event
  /\ events \subseteq Event

\* Storage that the kernel may touch, now or once the queue is submitted.
Reachable == UNION {request.storage : request \in live}

\* The caller never holds, and so never frees, storage the kernel may touch,
\* however tickets and receipts are mixed, dropped or applied out of order.
NoAliasing == \A request \in live : request.storage \cap owned = {}

\* Storage is lent to one request at a time and has one owner at a time.
OneOwner ==
  /\ \A a, b \in live : a # b => a.storage \cap b.storage = {}
  /\ \A t, u \in tickets : t # u => t.storage \cap u.storage = {}
  /\ \A t \in tickets : t.storage \cap owned = {}

\* An identity is given out once, and not before its completions are seen.
IdsFresh ==
  /\ \A ring \in Ring : next_id[ring] <= MaxId[ring] + 1
  /\ \A r \in live : r.id < next_id[r.ring]
  /\ \A t \in tickets : t.id < next_id[t.ring]
  /\ \A c \in cqes \cup events : c.id < next_id[c.ring] \/ c.id \in RawIds[c.ring]

IdsUnique ==
  /\ \A a, b \in live : Same(a, b) => a = b
  /\ \A t, u \in tickets : Same(t, u) => t = u

\* Storage that a ticket holds and the kernel may touch belongs to one request.
TicketOfRequest == \A t \in tickets, r \in live : t.storage \cap r.storage # {} => Same(t, r)

\* A receipt is proof: no request of its identity is left.
ReceiptIsProof == \A c \in cqes \cup events : ~c.more => \A r \in live : ~Same(c, r)

\* The inductive invariant behind NoAliasing: what makes a receipt proof of its
\* request's end, among completions of every other origin.
OwnedInv ==
  TypeOK /\ NoAliasing /\ OneOwner /\ IdsFresh /\ IdsUnique /\ TicketOfRequest /\ ReceiptIsProof

\* What trades a ticket for its storage, now or later: its request is with the
\* kernel, or its terminal completion is unreaped or a receipt.
Redeemable(ticket) ==
  \/ \E request \in live : Same(request, ticket)
  \/ \E c \in cqes \cup events : ~c.more /\ Same(c, ticket)

\* The library loses no receipt: a ticket can be redeemed from its push until the
\* application itself drops the receipt, though reap throws away completions
\* flagged MORE and receipts are reaped, kept and applied in any order.
ReceiptsKept ==
  [][\A ticket \in tickets' :
       \/ Redeemable(ticket)'
       \/ \E t \in tickets : Same(t, ticket) /\ ~Redeemable(t)
       \/ \E event \in events : ~event.more /\ Same(event, ticket) /\ DropEvent(event)]_vars

\* The owned API implements lending: see Lending.
Lent == INSTANCE Lending WITH access <- Reachable
ImplementsLending == Lent!Spec

=============================================================================
