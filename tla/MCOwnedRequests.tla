-------------------------- MODULE MCOwnedRequests --------------------------
(***************************************************************************)
(* OwnedRequests for model checking: two rings, one of which makes a        *)
(* second request and carries raw entries, over the storages the cfg       *)
(* names, and a history variable that tells the storage the application    *)
(* has thrown away.                                                        *)
(***************************************************************************)
EXTENDS OwnedRequests

CONSTANTS r1, r2

MCRing == {r1, r2}
MCMaxId == [ring \in Ring |-> IF ring = r1 THEN 2 ELSE 1]
MCRawIds == [ring \in Ring |-> IF ring = r1 THEN {0} ELSE {}]

VARIABLE dropped  \* storage whose ticket or receipt the application dropped

MCInit == Init /\ dropped = {}

MCDropping ==
  \/ \E ticket \in tickets : DropTicket(ticket) /\ dropped' = dropped \cup ticket.storage
  \/ \E event \in events :
       /\ DropEvent(event)
       /\ dropped' = dropped \cup
            UNION {ticket.storage : ticket \in {t \in tickets : ~event.more /\ Same(t, event)}}

MCNext ==
  \/ (Submitting \/ Kernel \/ Reaping \/ Applying) /\ UNCHANGED dropped
  \/ MCDropping

\* The application goes on submitting, reaping and redeeming what it keeps, over
\* a kernel that finishes every request.  The completion queue is first-in
\* first-out, so no completion waits for ever behind raw ones.
MCSpec ==
  /\ MCInit /\ [][MCNext]_<<vars, dropped>>
  /\ \A ring \in Ring : WF_vars(\E batch \in SUBSET Queued(ring) : Submit(ring, batch))
  /\ WF_vars(\E request \in live : PostTerminal(request))
  /\ \A ring \in Ring : \A id \in 1 .. MaxId[ring] :
       WF_vars(\E cqe \in cqes : cqe.ring = ring /\ cqe.id = id /\ ReapEvent(cqe))
  /\ WF_vars(\E ticket \in tickets, event \in events : Redeem(ticket, event))

\* Storage the caller lent comes back unless the application drops its ticket or
\* its receipt, whether a send posts one completion or two and whichever of reap
\* and reap_event is used.
StorageComesBack == \A s \in Storage : (s \notin owned) ~> (s \in owned \cup dropped)

=============================================================================
