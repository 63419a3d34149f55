------------------------ MODULE OwnedRequestsProofs ------------------------
(***************************************************************************)
(* The ownership argument of the owned API, for any rings, any storage and *)
(* any number of requests, as long as the user_data of raw entries and the *)
(* identities of owned requests are kept apart: storage comes back only    *)
(* when the kernel is done with it, and the library itself never loses     *)
(* what brings it back.                                                    *)
(***************************************************************************)
EXTENDS OwnedRequests, TLAPS

\* The identities a ring gives out stay within its bound.
LEMMA NextIdBound ==
  ASSUME OwnedInv, NEW ring \in Ring, next_id[ring] <= MaxId[ring],
         next_id' = [next_id EXCEPT ![ring] = next_id[ring] + 1]
  PROVE  \A x \in Ring : next_id'[x] <= MaxId[x] + 1
<1> SUFFICES ASSUME NEW x \in Ring PROVE next_id'[x] <= MaxId[x] + 1
  OBVIOUS
<1>1. next_id \in [Ring -> Id] /\ next_id[x] <= MaxId[x] + 1
  BY DEF OwnedInv, TypeOK, IdsFresh
<1>2. MaxId[ring] \in Nat /\ next_id[ring] \in Nat
  BY <1>1, OwnedAssumption DEF Id
<1>3. CASE x = ring
  <2>1. next_id'[x] = next_id[ring] + 1
    BY <1>1, <1>3
  <2> QED
    BY <1>2, <1>3, <2>1
<1>4. CASE x # ring
  BY <1>1, <1>4
<1> QED
  BY <1>3, <1>4

\* A push gives out a new identity and moves storage nobody else has.
LEMMA PushInv ==
  ASSUME OwnedInv, NEW ring \in Ring, NEW storage \in SUBSET Storage, NEW zc \in BOOLEAN,
         Push(ring, storage, zc)
  PROVE  OwnedInv'
<1> DEFINE id == next_id[ring]
           r == [ring |-> ring, id |-> id, storage |-> storage, zc |-> zc, stage |-> "queued"]
           t == [ring |-> ring, id |-> id, storage |-> storage, zc |-> zc, sent |-> FALSE]
<1>1. /\ live' = live \cup {r} /\ tickets' = tickets \cup {t}
      /\ owned' = owned \ storage /\ storage \subseteq owned
      /\ next_id' = [next_id EXCEPT ![ring] = id + 1] /\ id <= MaxId[ring]
      /\ UNCHANGED <<cqes, events>>
  BY DEF Push, NextId
<1>2. id \in Id /\ id \in Nat
  BY <1>1 DEF OwnedInv, TypeOK, Id
<1>3. r \in Request /\ t \in Ticket
  BY <1>2 DEF Request, Ticket
<1>0. /\ r.ring = ring /\ r.id = id /\ r.storage = storage
      /\ t.ring = ring /\ t.id = id /\ t.storage = storage
  OBVIOUS
<1> HIDE DEF r, t
<1>4. TypeOK'
  <2>1. next_id' \in [Ring -> Id]
    BY <1>1, <1>2 DEF OwnedInv, TypeOK, Id
  <2> QED
    BY <1>1, <1>3, <2>1 DEF OwnedInv, TypeOK
<1>5. NoAliasing'
  BY <1>0, <1>1 DEF OwnedInv, NoAliasing
<1>6. OneOwner'
  <2>1. \A a, b \in live' : a # b => a.storage \cap b.storage = {}
    BY <1>0, <1>1 DEF OwnedInv, NoAliasing, OneOwner
  <2>2. \A a, b \in tickets' : a # b => a.storage \cap b.storage = {}
    BY <1>0, <1>1 DEF OwnedInv, OneOwner
  <2>3. \A a \in tickets' : a.storage \cap owned' = {}
    BY <1>0, <1>1 DEF OwnedInv, OneOwner
  <2> QED
    BY <2>1, <2>2, <2>3 DEF OneOwner
<1>7. IdsFresh'
  <2>1. \A x \in Ring : next_id[x] \in Nat /\ next_id'[x] \in Nat /\ next_id[x] <= next_id'[x]
    BY <1>1, <1>2 DEF OwnedInv, TypeOK, Id
  <2>2. next_id'[ring] = id + 1
    BY <1>1 DEF OwnedInv, TypeOK
  <2>3. \A x \in Ring : next_id'[x] <= MaxId[x] + 1
    BY <1>1, <1>2, NextIdBound, ZenonT(30)
  <2> QED
    BY <1>0, <1>1, <1>2, <2>1, <2>2, <2>3 DEF OwnedInv, IdsFresh, TypeOK, Request, Ticket, Event, Id
<1>8. IdsUnique'
  <2>1. (\A q \in live : ~Same(q, r)) /\ (\A u \in tickets : ~Same(u, t))
    BY <1>0, <1>2 DEF OwnedInv, IdsFresh, Same
  <2> QED
    BY <1>1, <2>1 DEF OwnedInv, IdsUnique, Same
<1>9. TicketOfRequest'
  BY <1>0, <1>1 DEF OwnedInv, NoAliasing, OneOwner, TicketOfRequest, Same
<1>10. ReceiptIsProof'
  <2>1. id \notin RawIds[ring]
    BY <1>1, <1>2, OwnedAssumption DEF Id
  <2> QED
    BY <1>0, <1>1, <1>2, <2>1 DEF OwnedInv, IdsFresh, ReceiptIsProof, Same
<1> QED
  BY <1>4, <1>5, <1>6, <1>7, <1>8, <1>9, <1>10 DEF OwnedInv

\* Requests that change stage keep their identity and their storage; a
\* completion flagged MORE may be posted on the way.
LEMMA RestageInv ==
  ASSUME OwnedInv, NEW batch \in SUBSET live, NEW stage \in {"running", "sent"},
         live' = (live \ batch) \cup {[r EXCEPT !.stage = stage] : r \in batch},
         UNCHANGED <<next_id, owned, tickets, events>>,
         NEW posted \in SUBSET Event, cqes' = cqes \cup posted,
         \A c \in posted : c.more /\ c.id < next_id[c.ring]
  PROVE  OwnedInv'
<1> DEFINE After(r) == [r EXCEPT !.stage = stage]
<1>1. \A r \in live :
        /\ After(r) \in Request
        /\ After(r).ring = r.ring /\ After(r).id = r.id /\ After(r).storage = r.storage
  BY DEF OwnedInv, TypeOK, Request
<1>2. \A q \in live' : \E r \in live :
        (q = After(r) /\ r \in batch) \/ (q = r /\ r \notin batch)
  BY Zenon
<1> HIDE DEF After
<1>3. \A q \in live' : \E r \in live :
        /\ q.ring = r.ring /\ q.id = r.id /\ q.storage = r.storage
        /\ (q = After(r) /\ r \in batch) \/ (q = r /\ r \notin batch)
  BY <1>1, <1>2
<1>4. TypeOK'
  BY <1>1, <1>2 DEF OwnedInv, TypeOK
<1>5. \A p, q \in live' : Same(p, q) => p = q
  BY <1>3 DEF OwnedInv, IdsUnique, Same
<1>6. \A p, q \in live' : p # q => p.storage \cap q.storage = {}
  BY <1>3 DEF OwnedInv, OneOwner
<1>7. NoAliasing' /\ OneOwner'
  BY <1>3, <1>6 DEF OwnedInv, NoAliasing, OneOwner
<1>8. IdsFresh' /\ IdsUnique'
  BY <1>3, <1>5 DEF OwnedInv, IdsFresh, IdsUnique
<1>9. TicketOfRequest'
  BY <1>3 DEF OwnedInv, TicketOfRequest, Same
<1>10. ReceiptIsProof'
  BY <1>3 DEF OwnedInv, ReceiptIsProof, Same
<1> QED
  BY <1>4, <1>7, <1>8, <1>9, <1>10 DEF OwnedInv

\* A terminal completion takes the only request of its identity away.
LEMMA TerminalInv ==
  ASSUME OwnedInv, NEW request \in live, PostTerminal(request)
  PROVE  OwnedInv'
<1> DEFINE c == Cqe(request, FALSE)
<1>1. /\ live' = live \ {request} /\ cqes' = cqes \cup {c}
      /\ UNCHANGED <<next_id, owned, tickets, events>>
  BY DEF PostTerminal
<1>2. c \in Event /\ c.ring = request.ring /\ c.id = request.id
  BY DEF OwnedInv, TypeOK, Request, Event, Cqe, Id
<1> HIDE DEF c
<1>3. TypeOK' /\ NoAliasing' /\ OneOwner' /\ TicketOfRequest'
  BY <1>1, <1>2 DEF OwnedInv, TypeOK, NoAliasing, OneOwner, TicketOfRequest
<1>4. IdsFresh' /\ IdsUnique'
  BY <1>1, <1>2 DEF OwnedInv, IdsFresh, IdsUnique
<1>5. ReceiptIsProof'
  BY <1>1, <1>2 DEF OwnedInv, IdsUnique, ReceiptIsProof, Same
<1> QED
  BY <1>3, <1>4, <1>5 DEF OwnedInv

\* A raw completion names no owned request.
LEMMA PostRawInv ==
  ASSUME OwnedInv, NEW ring \in Ring, NEW id \in RawIds[ring], PostRaw(ring, id)
  PROVE  OwnedInv'
<1> DEFINE c == [ring |-> ring, id |-> id, more |-> FALSE]
<1>1. cqes' = cqes \cup {c} /\ UNCHANGED <<next_id, owned, tickets, live, events>>
  BY DEF PostRaw
<1>2. c \in Event /\ c.ring = ring /\ c.id = id
  BY OwnedAssumption DEF Event
<1> HIDE DEF c
<1>3. TypeOK' /\ NoAliasing' /\ OneOwner' /\ TicketOfRequest' /\ IdsUnique'
  BY <1>1, <1>2 DEF OwnedInv, TypeOK, NoAliasing, OneOwner, TicketOfRequest, IdsUnique
<1>4. IdsFresh'
  BY <1>1, <1>2 DEF OwnedInv, IdsFresh
<1>5. \A q \in live : ~Same(c, q)
  <2>1. \A q \in live : q.ring \in Ring /\ q.id \in 1 .. MaxId[q.ring]
    BY OwnedAssumption DEF OwnedInv, TypeOK, IdsFresh, Request, Id
  <2> QED
    BY <1>2, <2>1, OwnedAssumption DEF Same
<1>6. ReceiptIsProof'
  BY <1>1, <1>5 DEF OwnedInv, ReceiptIsProof
<1> QED
  BY <1>3, <1>4, <1>6 DEF OwnedInv

\* Reaping and dropping move or lose completions and never make one.
LEMMA ReapInv ==
  ASSUME OwnedInv, cqes' \cup events' \subseteq cqes \cup events,
         UNCHANGED <<next_id, owned, tickets, live>>
  PROVE  OwnedInv'
<1>1. TypeOK'
  BY DEF OwnedInv, TypeOK
<1> QED
  BY <1>1 DEF OwnedInv, NoAliasing, OneOwner, IdsFresh, IdsUnique, TicketOfRequest, ReceiptIsProof

\* Recording a send's result leaves the ticket's storage where it is.
LEMMA RecordSentInv ==
  ASSUME OwnedInv, NEW ticket \in tickets, NEW event \in events, RecordSent(ticket, event)
  PROVE  OwnedInv'
<1> DEFINE t == [ticket EXCEPT !.sent = TRUE]
<1>1. /\ tickets' = (tickets \ {ticket}) \cup {t} /\ events' = events \ {event}
      /\ UNCHANGED <<next_id, owned, live, cqes>>
  BY DEF RecordSent
<1>2. t \in Ticket /\ t.ring = ticket.ring /\ t.id = ticket.id /\ t.storage = ticket.storage
  BY ZenonT(30) DEF OwnedInv, TypeOK, Ticket
<1> HIDE DEF t
<1>3. TypeOK' /\ NoAliasing' /\ ReceiptIsProof'
  BY <1>1, <1>2 DEF OwnedInv, TypeOK, NoAliasing, ReceiptIsProof
<1>4. OneOwner'
  BY <1>1, <1>2 DEF OwnedInv, OneOwner
<1>5. IdsFresh' /\ IdsUnique'
  BY <1>1, <1>2 DEF OwnedInv, IdsFresh, IdsUnique, Same
<1>6. TicketOfRequest'
  BY <1>1, <1>2 DEF OwnedInv, TicketOfRequest, Same
<1> QED
  BY <1>3, <1>4, <1>5, <1>6 DEF OwnedInv

\* Where a receipt matches a ticket, the kernel is done with its storage.
LEMMA RedeemSafe ==
  ASSUME OwnedInv, NEW ticket \in tickets, NEW event \in events, Redeem(ticket, event)
  PROVE  \A r \in live : ticket.storage \cap r.storage = {}
<1>1. \A r \in live : ~Same(event, r)
  BY DEF Redeem, OwnedInv, ReceiptIsProof
<1>2. \A r \in live : ~Same(ticket, r)
  BY <1>1 DEF Redeem, Matches, Same
<1> QED
  BY <1>2 DEF OwnedInv, TicketOfRequest

\* Redeeming gives back storage that is in no other hands.
LEMMA RedeemInv ==
  ASSUME OwnedInv, NEW ticket \in tickets, NEW event \in events, Redeem(ticket, event)
  PROVE  OwnedInv'
<1>1. /\ tickets' = tickets \ {ticket} /\ events' = events \ {event}
      /\ owned' = owned \cup ticket.storage
      /\ UNCHANGED <<next_id, live, cqes>>
  BY DEF Redeem
<1>2. TypeOK'
  BY <1>1 DEF OwnedInv, TypeOK, Ticket
<1>3. NoAliasing'
  BY <1>1, RedeemSafe DEF OwnedInv, NoAliasing
<1>4. OneOwner'
  BY <1>1 DEF OwnedInv, OneOwner
<1>5. IdsFresh' /\ IdsUnique' /\ TicketOfRequest' /\ ReceiptIsProof'
  BY <1>1 DEF OwnedInv, IdsFresh, IdsUnique, TicketOfRequest, ReceiptIsProof
<1> QED
  BY <1>2, <1>3, <1>4, <1>5 DEF OwnedInv

\* Every step of the application and of the kernel preserves the invariant.
LEMMA OwnedStep ==
  ASSUME OwnedInv, [Next]_vars
  PROVE  OwnedInv'
<1>1. CASE Submitting
  <2> PICK ring \in Ring :
        \/ \E storage \in SUBSET Storage, zc \in BOOLEAN :
             Push(ring, storage, zc) \/ PushRejected(ring, storage, zc)
        \/ \E batch \in SUBSET Queued(ring) : Submit(ring, batch)
    BY <1>1, Zenon DEF Submitting
  <2>1. ASSUME NEW storage \in SUBSET Storage, NEW zc \in BOOLEAN, Push(ring, storage, zc)
        PROVE  OwnedInv'
    BY <2>1, PushInv
  <2>2. ASSUME NEW storage \in SUBSET Storage, NEW zc \in BOOLEAN,
               PushRejected(ring, storage, zc)
        PROVE  OwnedInv'
    <3>1. /\ next_id' = [next_id EXCEPT ![ring] = @ + 1] /\ next_id[ring] <= MaxId[ring]
          /\ UNCHANGED <<owned, tickets, live, cqes, events>>
      BY <2>2 DEF PushRejected, NextId
    <3>2. TypeOK'
      BY <3>1 DEF OwnedInv, TypeOK, Id
    <3>3. \A x \in Ring : next_id[x] \in Nat /\ next_id'[x] \in Nat /\ next_id[x] <= next_id'[x]
      BY <3>1 DEF OwnedInv, TypeOK, Id
    <3>5. \A x \in Ring : next_id'[x] <= MaxId[x] + 1
      BY <3>1, NextIdBound, ZenonT(30)
    <3>4. IdsFresh'
      BY <3>1, <3>3, <3>5 DEF OwnedInv, IdsFresh, TypeOK, Request, Ticket, Event, Id
    <3> QED
      BY <3>1, <3>2, <3>4
         DEF OwnedInv, NoAliasing, OneOwner, IdsUnique, TicketOfRequest, ReceiptIsProof
  <2>3. ASSUME NEW batch \in SUBSET Queued(ring), Submit(ring, batch)
        PROVE  OwnedInv'
    <3>1. batch \in SUBSET live
      BY DEF Queued
    <3>2. /\ live' = (live \ batch) \cup {[r EXCEPT !.stage = "running"] : r \in batch}
          /\ UNCHANGED <<next_id, owned, tickets, events>>
      BY <2>3, Zenon DEF Submit
    <3>3. {} \in SUBSET Event /\ cqes' = cqes \cup {}
      BY <2>3 DEF Submit
    <3>4. \A c \in {} : c.more /\ c.id < next_id[c.ring]
      OBVIOUS
    <3> QED
      BY <3>1, <3>2, <3>3, <3>4, RestageInv, ZenonT(30)
  <2> QED
    BY <2>1, <2>2, <2>3
<1>2. CASE Kernel
  <2>1. ASSUME NEW request \in live, PostSent(request)
        PROVE  OwnedInv'
    <3> DEFINE c == Cqe(request, TRUE)
    <3>1. c \in Event /\ c.more /\ c.id < next_id[c.ring]
      BY DEF Cqe, OwnedInv, TypeOK, Request, Event, IdsFresh, Id
    <3>2. /\ {request} \in SUBSET live /\ {c} \in SUBSET Event
          /\ live' = (live \ {request}) \cup {[r EXCEPT !.stage = "sent"] : r \in {request}}
          /\ cqes' = cqes \cup {c}
          /\ UNCHANGED <<next_id, owned, tickets, events>>
      BY <2>1, <3>1, ZenonT(30) DEF PostSent
    <3> HIDE DEF c
    <3> QED
      BY <3>1, <3>2, RestageInv, ZenonT(30)
  <2> QED
    BY <1>2, <2>1, TerminalInv, PostRawInv DEF Kernel
<1>3. CASE Reaping
  <2>1. cqes' \cup events' \subseteq cqes \cup events
    BY <1>3 DEF Reaping, ReapEvent, Reap, ReapNone, Reapable
  <2>2. UNCHANGED <<next_id, owned, tickets, live>>
    BY <1>3 DEF Reaping, ReapEvent, Reap, ReapNone
  <2> QED
    BY <2>1, <2>2, ReapInv
<1>4. CASE Applying
  BY <1>4, RecordSentInv, RedeemInv DEF Applying
<1>5. CASE Dropping
  <2>1. ASSUME NEW ticket \in tickets, DropTicket(ticket)
        PROVE  OwnedInv'
    <3>1. tickets' \subseteq tickets /\ UNCHANGED <<next_id, owned, live, cqes, events>>
      BY <2>1 DEF DropTicket
    <3>2. TypeOK'
      BY <3>1 DEF OwnedInv, TypeOK
    <3> QED
      BY <3>1, <3>2 DEF OwnedInv, NoAliasing, OneOwner, IdsFresh, IdsUnique, TicketOfRequest,
                        ReceiptIsProof
  <2>2. ASSUME NEW event \in events, DropEvent(event)
        PROVE  OwnedInv'
    BY <2>2, ReapInv DEF DropEvent
  <2> QED
    BY <1>5, <2>1, <2>2 DEF Dropping
<1>6. CASE UNCHANGED vars
  BY <1>6 DEF vars, OwnedInv, TypeOK, NoAliasing, OneOwner, IdsFresh, IdsUnique,
              TicketOfRequest, ReceiptIsProof
<1> QED
  BY <1>1, <1>2, <1>3, <1>4, <1>5, <1>6 DEF Next

\* Before the first push every storage is the caller's.
LEMMA OwnedStart == Init => OwnedInv
<1>1. Init => TypeOK
  BY DEF Init, TypeOK, Id
<1> QED
  BY <1>1, OwnedAssumption DEF Init, OwnedInv, NoAliasing, OneOwner, IdsFresh, IdsUnique, TicketOfRequest,
              ReceiptIsProof

\* The ownership invariant holds throughout.
THEOREM OwnedInvariant == Spec => []OwnedInv
<1>1. OwnedInv /\ [Next]_vars => OwnedInv'
  BY OwnedStep
<1> QED
  BY <1>1, OwnedStart, PTL DEF Spec

\* The caller never reaches storage the kernel may touch: not by a receipt of
\* another ring, a send's first completion, a dropped ticket or a rejected push.
THEOREM OwnedNoAliasing == Spec => []NoAliasing
<1>1. OwnedInv => NoAliasing
  BY DEF OwnedInv
<1> QED
  BY <1>1, OwnedInvariant, PTL

\* Where storage that is reachable only changes stage, lending stutters.
LEMMA RestageReachable ==
  ASSUME OwnedInv, NEW batch \in SUBSET live, NEW stage,
         live' = (live \ batch) \cup {[r EXCEPT !.stage = stage] : r \in batch}
  PROVE  Reachable' = Reachable
<1> DEFINE After(r) == [r EXCEPT !.stage = stage]
<1>1. \A r \in live : After(r).storage = r.storage
  BY DEF OwnedInv, TypeOK, Request
<1>2. \A q \in live' : \E r \in live : q = After(r) \/ q = r
  BY Zenon
<1>3. \A r \in live : \E q \in live' : q = After(r) \/ q = r
  BY Zenon
<1> HIDE DEF After
<1>4. \A q \in live' : \E r \in live : q.storage = r.storage
  BY <1>1, <1>2
<1>5. \A r \in live : \E q \in live' : q.storage = r.storage
  BY <1>1, <1>3
<1>6. \A x : (\E q \in live' : x \in q.storage) <=> (\E r \in live : x \in r.storage)
  BY <1>4, <1>5, ZenonT(30)
<1> QED
  BY <1>6, ZenonT(40) DEF Reachable

\* Every step of the owned API lends, finishes or gives back storage, or does
\* nothing to it.
LEMMA LendingStep ==
  ASSUME OwnedInv, [Next]_vars
  PROVE  [Lent!Next]_<<owned, Reachable>>
<1>1. ASSUME UNCHANGED <<owned, Reachable>>
      PROVE  [Lent!Next]_<<owned, Reachable>>
  BY <1>1
<1>2. ASSUME UNCHANGED <<owned, live>>
      PROVE  UNCHANGED <<owned, Reachable>>
  BY <1>2 DEF Reachable
<1>3. CASE Submitting
  <2> PICK ring \in Ring :
        \/ \E storage \in SUBSET Storage, zc \in BOOLEAN :
             Push(ring, storage, zc) \/ PushRejected(ring, storage, zc)
        \/ \E batch \in SUBSET Queued(ring) : Submit(ring, batch)
    BY <1>3, Zenon DEF Submitting
  <2>1. ASSUME NEW storage \in SUBSET Storage, NEW zc \in BOOLEAN, Push(ring, storage, zc)
        PROVE  Lent!Next
    <3> DEFINE r == [ring |-> ring, id |-> next_id[ring], storage |-> storage, zc |-> zc,
                     stage |-> "queued"]
    <3>1. /\ storage \subseteq owned /\ owned' = owned \ storage
          /\ live' = live \cup {r} /\ r.storage = storage
      BY <2>1 DEF Push
    <3> HIDE DEF r
    <3>2. Reachable' = Reachable \cup storage
      BY <3>1 DEF Reachable
    <3> QED
      BY <3>1, <3>2 DEF Lent!Next, Lent!Lend
  <2>2. ASSUME NEW storage \in SUBSET Storage, NEW zc \in BOOLEAN,
               PushRejected(ring, storage, zc)
        PROVE  UNCHANGED <<owned, live>>
    BY <2>2 DEF PushRejected
  <2>3. ASSUME NEW batch \in SUBSET Queued(ring), Submit(ring, batch)
        PROVE  UNCHANGED <<owned, Reachable>>
    <3>1. batch \in SUBSET live
      BY DEF Queued
    <3>2. /\ live' = (live \ batch) \cup {[r EXCEPT !.stage = "running"] : r \in batch}
          /\ owned' = owned
      BY <2>3, Zenon DEF Submit
    <3> QED
      BY <3>1, <3>2, RestageReachable, ZenonT(30)
  <2> QED
    BY <1>1, <1>2, <2>1, <2>2, <2>3
<1>4. CASE Kernel
  <2>1. ASSUME NEW request \in live, PostSent(request)
        PROVE  UNCHANGED <<owned, Reachable>>
    <3>1. /\ {request} \in SUBSET live /\ owned' = owned
          /\ live' = (live \ {request}) \cup {[r EXCEPT !.stage = "sent"] : r \in {request}}
      BY <2>1 DEF PostSent
    <3>2. Reachable' = Reachable
      BY <3>1, RestageReachable, ZenonT(30)
    <3> QED
      BY <3>1, <3>2
  <2>2. ASSUME NEW request \in live, PostTerminal(request)
        PROVE  Lent!Next
    <3>1. live' = live \ {request} /\ owned' = owned
      BY <2>2 DEF PostTerminal
    <3>2. request.storage \in SUBSET Storage
      BY DEF OwnedInv, TypeOK, Request
    <3>3. request.storage \subseteq Reachable
      BY DEF Reachable
    <3>4. \A r \in live : r # request => r.storage \cap request.storage = {}
      BY DEF OwnedInv, OneOwner
    <3>5. Reachable' = Reachable \ request.storage
      BY <3>1, <3>4 DEF Reachable
    <3>6. Lent!Finish(request.storage)
      BY <3>1, <3>3, <3>5 DEF Lent!Finish
    <3> QED
      BY <3>2, <3>6 DEF Lent!Next
  <2>3. ASSUME NEW ring \in Ring, NEW id \in RawIds[ring], PostRaw(ring, id)
        PROVE  UNCHANGED <<owned, live>>
    BY <2>3 DEF PostRaw
  <2> QED
    BY <1>1, <1>2, <1>4, <2>1, <2>2, <2>3 DEF Kernel
<1>5. CASE Reaping
  BY <1>1, <1>2, <1>5 DEF Reaping, ReapEvent, Reap, ReapNone
<1>6. CASE Applying
  <2> PICK ticket \in tickets, event \in events :
        RecordSent(ticket, event) \/ Redeem(ticket, event)
    BY <1>6 DEF Applying
  <2>1. CASE RecordSent(ticket, event)
    BY <1>1, <1>2, <2>1 DEF RecordSent
  <2>2. CASE Redeem(ticket, event)
    <3>1. live' = live /\ owned' = owned \cup ticket.storage
      BY <2>2 DEF Redeem
    <3>2. ticket.storage \in SUBSET Storage
      BY DEF OwnedInv, TypeOK, Ticket
    <3>3. ticket.storage \cap Reachable = {}
      BY <2>2, RedeemSafe DEF Reachable
    <3>4. Reachable' = Reachable
      BY <3>1 DEF Reachable
    <3>5. Lent!GiveBack(ticket.storage)
      BY <3>1, <3>3, <3>4 DEF Lent!GiveBack
    <3> QED
      BY <3>2, <3>5 DEF Lent!Next
  <2> QED
    BY <2>1, <2>2
<1>7. CASE Dropping
  BY <1>1, <1>2, <1>7 DEF Dropping, DropTicket, DropEvent
<1>8. CASE UNCHANGED vars
  BY <1>1, <1>2, <1>8 DEF vars
<1> QED
  BY <1>3, <1>4, <1>5, <1>6, <1>7, <1>8 DEF Next

\* The owned API implements Lending.
THEOREM OwnedRefinesLending == Spec => ImplementsLending
<1>1. Init => Lent!Init
  BY DEF Init, Lent!Init, Reachable
<1>2. OwnedInv /\ [Next]_vars => [Lent!Next]_<<owned, Reachable>>
  BY LendingStep
<1> QED
  BY <1>1, <1>2, OwnedInvariant, PTL DEF Spec, ImplementsLending, Lent!Spec

-----------------------------------------------------------------------------
\* No receipt is lost.

\* A ticket stays redeemable where its request stays or leaves its terminal
\* completion behind, and that completion stays unreaped or a receipt.
LEMMA StaysRedeemable ==
  ASSUME NEW t, NEW u, Same(t, u), Redeemable(t),
         \A r \in live : Same(r, t) =>
           \/ \E q \in live' : Same(q, r)
           \/ \E c \in cqes' : ~c.more /\ Same(c, r),
         \A c \in cqes \cup events : ~c.more /\ Same(c, t) => c \in cqes' \cup events'
  PROVE  Redeemable(u)'
BY DEF Redeemable, Same

\* What ReceiptsKept says of one ticket.
ReceiptKept(ticket) ==
  \/ Redeemable(ticket)'
  \/ \E t \in tickets : Same(t, ticket) /\ ~Redeemable(t)
  \/ \E event \in events : ~event.more /\ Same(event, ticket) /\ DropEvent(event)

\* A ticket that is there before and after a step that takes no request and no
\* receipt of its identity away.
LEMMA TicketStays ==
  ASSUME NEW ticket \in tickets,
         \A r \in live : Same(r, ticket) =>
           \/ \E q \in live' : Same(q, r)
           \/ \E c \in cqes' : ~c.more /\ Same(c, r),
         \A c \in cqes \cup events : ~c.more /\ Same(c, ticket) => c \in cqes' \cup events'
  PROVE  ReceiptKept(ticket)
<1>1. Same(ticket, ticket)
  BY DEF Same
<1>2. CASE Redeemable(ticket)
  BY <1>1, <1>2, StaysRedeemable DEF ReceiptKept
<1>3. CASE ~Redeemable(ticket)
  BY <1>1, <1>3 DEF ReceiptKept
<1> QED
  BY <1>2, <1>3

\* A push makes a ticket together with its request.
LEMMA PushKeeps ==
  ASSUME NEW ring \in Ring, NEW storage \in SUBSET Storage, NEW zc \in BOOLEAN,
         Push(ring, storage, zc), NEW ticket \in tickets'
  PROVE  ReceiptKept(ticket)
<1> DEFINE r == [ring |-> ring, id |-> next_id[ring], storage |-> storage, zc |-> zc, stage |-> "queued"]
           t == [ring |-> ring, id |-> next_id[ring], storage |-> storage, zc |-> zc, sent |-> FALSE]
<1>1. live' = live \cup {r} /\ tickets' = tickets \cup {t} /\ UNCHANGED <<cqes, events>>
  BY DEF Push
<1>2. Same(r, t)
  BY DEF Same
<1> HIDE DEF r, t
<1>3. CASE ticket = t
  BY <1>1, <1>2, <1>3 DEF ReceiptKept, Redeemable
<1>4. CASE ticket \in tickets
  <2>1. \A q \in live : q \in live' /\ Same(q, q)
    BY <1>1 DEF Same
  <2> QED
    BY <1>1, <1>4, <2>1, TicketStays
<1> QED
  BY <1>1, <1>3, <1>4

\* The kernel's steps: a request that changes stage is still there, and one that
\* ends leaves its terminal completion.
LEMMA KernelKeeps ==
  ASSUME OwnedInv, NEW ticket \in tickets', tickets' = tickets,
         \/ \E ring \in Ring : \E batch \in SUBSET Queued(ring) : Submit(ring, batch)
         \/ Kernel
  PROVE  ReceiptKept(ticket)
<1>1. ASSUME NEW ring \in Ring, NEW batch \in SUBSET Queued(ring), Submit(ring, batch)
      PROVE  ReceiptKept(ticket)
  <2>1. /\ live' = (live \ batch) \cup {[r EXCEPT !.stage = "running"] : r \in batch}
        /\ UNCHANGED <<cqes, events>>
    BY <1>1, Zenon DEF Submit
  <2>2. ASSUME NEW r \in live PROVE \E q \in live' : Same(q, r)
    <3>1. CASE r \in batch
      <4>1. [r EXCEPT !.stage = "running"] \in live'
        BY <2>1, <3>1
      <4>2. Same([r EXCEPT !.stage = "running"], r)
        BY DEF OwnedInv, TypeOK, Request, Same
      <4> QED
        BY <4>1, <4>2
    <3>2. CASE r \notin batch
      BY <2>1, <3>2 DEF Same
    <3> QED
      BY <3>1, <3>2
  <2> QED
    BY <2>1, <2>2, TicketStays
<1>2. ASSUME NEW request \in live, PostSent(request) PROVE ReceiptKept(ticket)
  <2> DEFINE sent == [request EXCEPT !.stage = "sent"]
  <2>1. /\ live' = (live \ {request}) \cup {sent} /\ cqes' = cqes \cup {Cqe(request, TRUE)}
        /\ UNCHANGED events
    BY <1>2 DEF PostSent
  <2>2. Same(sent, request) /\ \A r \in live : Same(r, r)
    BY DEF OwnedInv, TypeOK, Request, Same
  <2> HIDE DEF sent
  <2>3. \A r \in live : \E q \in live' : Same(q, r)
    BY <2>1, <2>2
  <2> QED
    BY <2>1, <2>3, TicketStays, ZenonT(30)
<1>3. ASSUME NEW request \in live, PostTerminal(request) PROVE ReceiptKept(ticket)
  <2> DEFINE last == Cqe(request, FALSE)
  <2>1. live' = live \ {request} /\ cqes' = cqes \cup {last} /\ UNCHANGED events
    BY <1>3 DEF PostTerminal
  <2>2. Same(last, request) /\ ~last.more /\ \A r \in live : Same(r, r)
    BY DEF Cqe, Same
  <2> HIDE DEF last
  <2>3. \A r \in live : (\E q \in live' : Same(q, r)) \/ \E c \in cqes' : ~c.more /\ Same(c, r)
    BY <2>1, <2>2
  <2> QED
    BY <2>1, <2>3, TicketStays
<1>4. ASSUME NEW ring \in Ring, NEW id \in RawIds[ring], PostRaw(ring, id) PROVE ReceiptKept(ticket)
  <2>1. cqes \subseteq cqes' /\ UNCHANGED <<live, events>> /\ \A r \in live : Same(r, r)
    BY <1>4 DEF PostRaw, Same
  <2> QED
    BY <2>1, TicketStays
<1> QED
  BY <1>1, <1>2, <1>3, <1>4 DEF Kernel

\* Reaping moves receipts and throws none away.
LEMMA ReapKeeps ==
  ASSUME NEW ticket \in tickets', Reaping
  PROVE  ReceiptKept(ticket)
<1>1. /\ \A c \in cqes \cup events : ~c.more => c \in cqes' \cup events'
      /\ tickets' = tickets /\ live' = live
  <2>1. ASSUME NEW cqe \in cqes, ReapEvent(cqe)
        PROVE  cqes \cup events = cqes' \cup events' /\ UNCHANGED <<tickets, live>>
    BY <2>1 DEF ReapEvent
  <2>2. ASSUME NEW cqe \in cqes, NEW skipped \in SUBSET cqes, Reap(cqe, skipped)
        PROVE  /\ \A c \in cqes \cup events : ~c.more => c \in cqes' \cup events'
               /\ UNCHANGED <<tickets, live>>
    BY <2>2 DEF Reap
  <2>3. ASSUME NEW ring \in Ring, ReapNone(ring)
        PROVE  /\ \A c \in cqes \cup events : ~c.more => c \in cqes' \cup events'
               /\ UNCHANGED <<tickets, live>>
    BY <2>3 DEF ReapNone
  <2> QED
    BY <2>1, <2>2, <2>3 DEF Reaping
<1>2. \A r \in live : Same(r, r)
  BY DEF Same
<1> QED
  BY <1>1, <1>2, TicketStays

\* A receipt is spent on its own ticket, and a partial receipt on none.
LEMMA ApplyKeeps ==
  ASSUME OwnedInv, NEW ticket \in tickets', Applying
  PROVE  ReceiptKept(ticket)
<1>0. \A r \in live : Same(r, r)
  BY DEF Same
<1>1. ASSUME NEW t \in tickets, NEW event \in events, RecordSent(t, event)
      PROVE  ReceiptKept(ticket)
  <2> DEFINE after == [t EXCEPT !.sent = TRUE]
  <2>1. /\ tickets' = (tickets \ {t}) \cup {after} /\ events' = events \ {event} /\ event.more
        /\ UNCHANGED <<live, cqes>>
    BY <1>1 DEF RecordSent
  <2>2. Same(t, after)
    BY DEF OwnedInv, TypeOK, Ticket, Same
  <2> HIDE DEF after
  <2>3. \A c \in cqes \cup events : ~c.more => c \in cqes' \cup events'
    BY <2>1
  <2>4. CASE ticket = after
    <3>1. CASE Redeemable(t)
      BY <1>0, <2>1, <2>2, <2>3, <2>4, <3>1, StaysRedeemable DEF ReceiptKept
    <3>2. CASE ~Redeemable(t)
      BY <2>2, <2>4, <3>2 DEF ReceiptKept
    <3> QED
      BY <3>1, <3>2
  <2>5. CASE ticket \in tickets
    BY <1>0, <2>1, <2>3, <2>5, TicketStays
  <2> QED
    BY <2>1, <2>4, <2>5
<1>2. ASSUME NEW t \in tickets, NEW event \in events, Redeem(t, event)
      PROVE  ReceiptKept(ticket)
  <2>1. /\ tickets' = tickets \ {t} /\ events' = events \ {event} /\ Same(t, event)
        /\ UNCHANGED <<live, cqes>>
    BY <1>2 DEF Redeem, Matches
  <2>2. ticket \in tickets /\ ticket # t
    BY <2>1
  <2>3. ~Same(event, ticket)
    BY <2>1, <2>2 DEF OwnedInv, IdsUnique, Same
  <2>4. \A c \in cqes \cup events : ~c.more /\ Same(c, ticket) => c \in cqes' \cup events'
    BY <2>1, <2>3
  <2> QED
    BY <1>0, <2>1, <2>2, <2>4, TicketStays
<1> QED
  BY <1>1, <1>2 DEF Applying

\* No step but the application's own drop of a receipt parts a ticket from it.
LEMMA KeepsReceipts ==
  ASSUME OwnedInv, [Next]_vars, NEW ticket \in tickets'
  PROVE  ReceiptKept(ticket)
<1>0. \A r \in live : Same(r, r)
  BY DEF Same
<1>1. CASE Submitting
  <2> PICK ring \in Ring :
        \/ \E storage \in SUBSET Storage, zc \in BOOLEAN :
             Push(ring, storage, zc) \/ PushRejected(ring, storage, zc)
        \/ \E batch \in SUBSET Queued(ring) : Submit(ring, batch)
    BY <1>1, Zenon DEF Submitting
  <2>1. ASSUME NEW storage \in SUBSET Storage, NEW zc \in BOOLEAN, Push(ring, storage, zc)
        PROVE  ReceiptKept(ticket)
    BY <2>1, PushKeeps
  <2>2. ASSUME NEW storage \in SUBSET Storage, NEW zc \in BOOLEAN, PushRejected(ring, storage, zc)
        PROVE  ReceiptKept(ticket)
    <3>1. UNCHANGED <<tickets, live, cqes, events>>
      BY <2>2 DEF PushRejected
    <3> QED
      BY <1>0, <3>1, TicketStays
  <2>3. ASSUME NEW batch \in SUBSET Queued(ring), Submit(ring, batch)
        PROVE  ReceiptKept(ticket)
    <3>1. tickets' = tickets
      BY <2>3 DEF Submit
    <3> QED
      BY <2>3, <3>1, KernelKeeps
  <2> QED
    BY <2>1, <2>2, <2>3
<1>2. CASE Kernel
  <2>1. tickets' = tickets
    BY <1>2, ZenonT(30) DEF Kernel, PostSent, PostTerminal, PostRaw
  <2> QED
    BY <1>2, <2>1, KernelKeeps
<1>3. CASE Dropping
  <2>1. ASSUME NEW t \in tickets, DropTicket(t) PROVE ReceiptKept(ticket)
    <3>1. tickets' \subseteq tickets /\ UNCHANGED <<live, cqes, events>>
      BY <2>1 DEF DropTicket
    <3> QED
      BY <1>0, <3>1, TicketStays
  <2>2. ASSUME NEW event \in events, DropEvent(event) PROVE ReceiptKept(ticket)
    <3>1. UNCHANGED <<tickets, live, cqes>> /\ events' = events \ {event}
      BY <2>2 DEF DropEvent
    <3>2. CASE ~event.more /\ Same(event, ticket)
      BY <2>2, <3>2 DEF ReceiptKept
    <3>3. CASE ~(~event.more /\ Same(event, ticket))
      BY <1>0, <3>1, <3>3, TicketStays
    <3> QED
      BY <3>2, <3>3
  <2> QED
    BY <1>3, <2>1, <2>2 DEF Dropping
<1>4. CASE UNCHANGED vars
  BY <1>0, <1>4, TicketStays DEF vars
<1> QED
  BY <1>1, <1>2, <1>3, <1>4, ReapKeeps, ApplyKeeps DEF Next

\* From the push until the application drops the receipt, the storage of a ticket
\* can be had back: the library discards no receipt, though reap skips completions
\* flagged MORE, and no other ticket can use one up (owned completer and redeem).
THEOREM OwnedReceiptsKept == Spec => ReceiptsKept
<1>1. OwnedInv /\ [Next]_vars => \A ticket \in tickets' : ReceiptKept(ticket)
  BY KeepsReceipts
<1>2. OwnedInv /\ [Next]_vars =>
        [\A ticket \in tickets' :
           \/ Redeemable(ticket)'
           \/ \E t \in tickets : Same(t, ticket) /\ ~Redeemable(t)
           \/ \E event \in events : ~event.more /\ Same(event, ticket) /\ DropEvent(event)]_vars
  BY <1>1 DEF ReceiptKept
<1> QED
  BY <1>2, OwnedInvariant, PTL DEF Spec, ReceiptsKept

=============================================================================
