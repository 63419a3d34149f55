---------------------------- MODULE Backpressure ----------------------------
(***************************************************************************)
(* IoUring::submit_and_wait and its backpressure valve, on a ring that is  *)
(* counted rather than indexed: how many entries are queued, in the        *)
(* kernel, posted and in the overflow list.  Counting makes capacities of  *)
(* the size the valve was written for checkable.                           *)
(***************************************************************************)
EXTENDS Naturals, FiniteSets, FiniteSetsExt

CONSTANTS
  SqEntries, CqEntries,
  MaxOutstanding  \* bound on the requests outstanding at once

VARIABLES
  queued,    \* pushed and not consumed
  inflight,  \* consumed and not completed
  unreaped,  \* in the completion ring, not reaped
  unsynced,  \* reaped, slot not given back yet
  backlog,   \* in the kernel's overflow list
  call,      \* where the thread is: "idle", between the two enters, or waiting
  min        \* min_complete of the current call

vars == <<queued, inflight, unreaped, unsynced, backlog, call, min>>

Outstanding == queued + inflight + unreaped + backlog

Init ==
  /\ queued = 0 /\ inflight = 0 /\ unreaped = 0 /\ unsynced = 0 /\ backlog = 0
  /\ call = "idle" /\ min = 0

Push ==
  /\ call = "idle"
  /\ queued < SqEntries
  /\ Outstanding < MaxOutstanding
  /\ queued' = queued + 1
  /\ UNCHANGED <<inflight, unreaped, unsynced, backlog, call, min>>

Complete ==
  /\ call = "idle"
  /\ unreaped > 0
  /\ unreaped' = unreaped - 1
  /\ unsynced' = unsynced + 1
  /\ UNCHANGED <<queued, inflight, backlog, call, min>>

\* IoUring::submit: an enter that takes something publishes the CQ head.
Submit(consumed) ==
  /\ call = "idle"
  /\ consumed \in 1 .. queued
  /\ queued' = queued - consumed
  /\ inflight' = inflight + consumed
  /\ unsynced' = 0
  /\ UNCHANGED <<unreaped, backlog, call, min>>

\* cq_used > cq_cap - (cq_cap / 4)
ValveOpens == unreaped > CqEntries - (CqEntries \div 4)

\* submit_and_wait up to its first return from the kernel, or to the wait.  One
\* enter(to_submit, min, GETEVENTS) waits only if it took everything; behind the
\* valve enter(to_submit, 0) returns, and the call goes on unless it failed.
FirstEnter(consumed, wanted) ==
  /\ call = "idle"
  /\ wanted <= Outstanding
  /\ consumed \in 0 .. queued
  /\ queued' = queued - consumed
  /\ inflight' = inflight + consumed
  /\ unsynced' = 0
  /\ min' = wanted
  /\ call' = IF ValveOpens
               THEN IF consumed > 0 \/ queued = 0 THEN "second" ELSE "idle"
               ELSE IF consumed = queued THEN "waiting" ELSE "idle"
  /\ UNCHANGED <<unreaped, backlog>>

\* Behind the valve: enter(0, min, GETEVENTS).
SecondEnter ==
  /\ call = "second"
  /\ call' = "waiting"
  /\ UNCHANGED <<queued, inflight, unreaped, unsynced, backlog, min>>

-----------------------------------------------------------------------------
\* The kernel.

Room == unreaped + unsynced < CqEntries

Finish ==
  /\ inflight > 0
  /\ inflight' = inflight - 1
  /\ IF Room /\ backlog = 0
       THEN unreaped' = unreaped + 1 /\ UNCHANGED backlog
       ELSE backlog' = backlog + 1 /\ UNCHANGED unreaped
  /\ UNCHANGED <<queued, unsynced, call, min>>

FlushOverflow ==
  /\ call = "waiting"
  /\ backlog > 0 /\ Room
  /\ backlog' = backlog - 1
  /\ unreaped' = unreaped + 1
  /\ UNCHANGED <<queued, inflight, unsynced, call, min>>

ReturnReady ==
  /\ call = "waiting"
  /\ backlog = 0 \/ ~Room
  /\ unreaped + unsynced >= Min({min, CqEntries})
  /\ call' = "idle"
  /\ min' = 0
  /\ UNCHANGED <<queued, inflight, unreaped, unsynced, backlog>>

Next ==
  \/ Push
  \/ Complete
  \/ \E consumed \in 1 .. SqEntries : Submit(consumed)
  \/ \E consumed \in 0 .. SqEntries, wanted \in 1 .. CqEntries : FirstEnter(consumed, wanted)
  \/ SecondEnter
  \/ Finish
  \/ FlushOverflow
  \/ ReturnReady

\* Requests finish and the kernel keeps running; the application may stop.
Spec ==
  /\ Init /\ [][Next]_vars
  /\ WF_vars(SecondEnter) /\ WF_vars(Finish) /\ WF_vars(FlushOverflow) /\ WF_vars(ReturnReady)

-----------------------------------------------------------------------------

\* A wait for no more completions than the caller has requests outstanding
\* returns, however much of the queue the kernel took: the deadlock that
\* submit_and_wait's documentation says it avoids does not happen.
WaitReturns == (call = "waiting") ~> (call = "idle")

=============================================================================
