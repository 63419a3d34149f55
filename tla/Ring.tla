-------------------------------- MODULE Ring --------------------------------
(***************************************************************************)
(* A whole ring: the submission queue, the completion queue, the requests  *)
(* the kernel is working on, and the threads that use them.  An `IoUring`  *)
(* is used by one thread; `split` turns it into a `Submitter` and a        *)
(* `Completer` on two threads, which share nothing but the kernel's ring.  *)
(*                                                                         *)
(* The queues are those of SubmissionQueue and CompletionQueue.            *)
(* Requests are numbered in the order they are pushed, and each posts one  *)
(* completion.  The kernel may consume fewer entries than asked, finish    *)
(* requests in any order, and interrupt a wait.  The ring is not SQPOLL.   *)
(***************************************************************************)
EXTENDS SubmissionQueue, CompletionQueue, FiniteSets, Functions

CONSTANTS
  MaxRequests,   \* bound on the requests a behaviour pushes
  MaxWait,       \* bound on min_complete
  SingleIssuer, DeferTaskrun  \* setup flags that restrict threads

Request == 1 .. MaxRequests

ASSUME RingAssumption ==
  /\ MaxRequests \in Nat /\ MaxWait \in Nat
  /\ Sqe = Request /\ Cqe = Request
  /\ MaxBacklog >= MaxRequests /\ SqEntries <= CqEntries

Thread == {"submitter", "completer"}
Idle == 0

VARIABLES
  split,     \* the ring has been split into its halves
  pushed,    \* requests pushed so far
  inflight,  \* requests the kernel has consumed and not completed
  reaped,    \* requests whose completion the library has returned
  waiting,   \* min_complete of the blocking call a thread is in, or Idle
  base       \* the local CQ head when that call began

vars == <<sqVars, cqVars, split, pushed, inflight, reaped, waiting, base>>

Init ==
  /\ ~Sqpoll
  /\ SqInit
  /\ CqInit
  /\ split = FALSE
  /\ pushed = 0
  /\ inflight = {}
  /\ reaped = {}
  /\ waiting = [t \in Thread |-> Idle]
  /\ base = [t \in Thread |-> 0]

\* One thread makes one call at a time, and an unsplit ring has one thread.
SubmitterFree ==
  /\ waiting["submitter"] = Idle
  /\ ~pushing
  /\ split \/ ~completing

CompleterFree ==
  /\ ~completing
  /\ IF split THEN waiting["completer"] = Idle ELSE SubmitterFree

-----------------------------------------------------------------------------
\* The submitting side.

PushBegin ==
  /\ SubmitterFree
  /\ pushed < MaxRequests
  /\ PushLoad
  /\ UNCHANGED <<cqVars, split, pushed, inflight, reaped, waiting, base>>

PushEnd ==
  /\ \/ PushStore(pushed + 1) /\ pushed' = pushed + 1
     \/ PushFull /\ UNCHANGED pushed
  /\ UNCHANGED <<cqVars, split, inflight, reaped, waiting, base>>

\* The entries one call to io_uring_enter hands to the kernel.
Batch(consumed) == {Queued(offset) : offset \in 0 .. consumed - 1}

\* A successful IoUring::submit publishes the CQ head; Submitter::submit has
\* none.  consumed = 0 is an early or an error return.
FlushOnSubmit(consumed) ==
  IF ~split /\ consumed > 0 THEN FlushCqHead ELSE UNCHANGED cqVars

SubmitCall(consumed) ==
  /\ SubmitterFree
  /\ Submit(consumed)
  /\ inflight' = inflight \cup Batch(consumed)
  /\ FlushOnSubmit(consumed)
  /\ UNCHANGED <<split, pushed, reaped, waiting, base>>

\* mutant of FlushBeforeWait: waits on a stale head
NoFlushBeforeWait == UNCHANGED cqVars

\* IoUring::submit_and_wait publishes the CQ head first, Submitter's does not.
FlushBeforeWait == IF split THEN UNCHANGED cqVars ELSE FlushCqHead

\* The backpressure valve: the CQ is more than three quarters full.
Valve == ~split /\ Unreaped > CqEntries - (CqEntries \div 4)

\* Whether the call goes on to wait: one io_uring_enter waits only after taking
\* all it was given; behind the valve the second one waits unless the first
\* failed.
GoesOnToWait(consumed) ==
  IF Valve THEN consumed > 0 \/ ToSubmit = 0 ELSE consumed = ToSubmit

BeginWait(t, min) ==
  /\ waiting' = [waiting EXCEPT ![t] = min]
  /\ base' = [base EXCEPT ![t] = cq_head_local]

\* The requests whose completions the caller has not reaped.
Outstanding == 1 .. pushed \ reaped

\* submit_and_wait, up to the return or to the kernel's wait.  A caller asks
\* for no more completions than it has requests outstanding; asking for more
\* blocks, as the documentation says.
SubmitAndWait(consumed, min) ==
  /\ SubmitterFree
  /\ min <= Cardinality(Outstanding)
  /\ FlushBeforeWait
  /\ Submit(consumed)
  /\ inflight' = inflight \cup Batch(consumed)
  /\ IF GoesOnToWait(consumed)
       THEN BeginWait("submitter", min)
       ELSE UNCHANGED <<waiting, base>>
  /\ UNCHANGED <<split, pushed, reaped>>

-----------------------------------------------------------------------------
\* The completing side.

CompleteBegin ==
  /\ CompleterFree
  /\ CompleteLoad
  /\ UNCHANGED <<sqVars, split, pushed, inflight, reaped, waiting, base>>

CompleteEnd ==
  /\ \/ CompleteNone /\ UNCHANGED reaped
     \/ CompleteTake /\ reaped' = reaped \cup {Posted(0)}
  /\ UNCHANGED <<sqVars, split, pushed, inflight, waiting, base>>

SyncCq ==
  /\ CompleterFree
  /\ FlushCqHead
  /\ UNCHANGED <<sqVars, split, pushed, inflight, reaped, waiting, base>>

\* Completer::wait
Wait(min) ==
  /\ split
  /\ CompleterFree
  /\ FlushCqHead
  /\ BeginWait("completer", min)
  /\ UNCHANGED <<sqVars, split, pushed, inflight, reaped>>

\* setup_flags_forbid_split, for a ring without SQPOLL.
ForbidSplit == DeferTaskrun \/ SingleIssuer

Split ==
  /\ ~split
  /\ ~ForbidSplit
  /\ SubmitterFree
  /\ split' = TRUE
  /\ UNCHANGED <<sqVars, cqVars, pushed, inflight, reaped, waiting, base>>

-----------------------------------------------------------------------------
\* The kernel.

InGetEvents == \E t \in Thread : waiting[t] # Idle

Finish(request) ==
  /\ request \in inflight
  /\ inflight' = inflight \ {request}
  /\ PostCqe(request) \/ PostOverflow(request)
  /\ UNCHANGED <<sqVars, split, pushed, reaped, waiting, base>>

\* The overflow list is flushed inside io_uring_enter(GETEVENTS).
FlushOverflow ==
  /\ InGetEvents
  /\ FlushBacklog
  /\ UNCHANGED <<sqVars, split, pushed, inflight, reaped, waiting, base>>

\* The kernel flushes what it can before it looks at the wait condition, and
\* never waits for more than the ring can hold.
Flushed == backlog = << >> \/ CqUsed >= CqEntries

EndWait(t) ==
  /\ waiting[t] # Idle
  /\ waiting' = [waiting EXCEPT ![t] = Idle]
  /\ UNCHANGED <<sqVars, cqVars, split, pushed, inflight, reaped, base>>

ReturnReady(t) ==
  /\ Flushed
  /\ CqUsed >= waiting[t] \/ CqUsed >= CqEntries
  /\ EndWait(t)

\* A signal ends the wait: a count if entries were consumed, EINTR if not.
Interrupt(t) == Flushed /\ EndWait(t)

Next ==
  \/ PushBegin
  \/ PushEnd
  \/ \E consumed \in 0 .. SqEntries : SubmitCall(consumed)
  \/ \E consumed \in 0 .. SqEntries, min \in 1 .. MaxWait : SubmitAndWait(consumed, min)
  \/ CompleteBegin
  \/ CompleteEnd
  \/ SyncCq
  \/ \E min \in 1 .. MaxWait : Wait(min)
  \/ Split
  \/ \E request \in Request : Finish(request)
  \/ FlushOverflow
  \/ \E t \in Thread : ReturnReady(t)
  \/ \E t \in Thread : Interrupt(t)

Spec == Init /\ [][Next]_vars

\* Requests finish, calls return, and the application keeps submitting, waiting
\* and reaping; no thread stops in the middle of a call.
Fairness ==
  /\ \A request \in Request : WF_vars(Finish(request))
  /\ WF_vars(FlushOverflow)
  /\ \A t \in Thread : WF_vars(ReturnReady(t))
  /\ WF_vars(PushEnd) /\ WF_vars(CompleteEnd)
  /\ SF_vars(\E consumed \in 1 .. SqEntries : SubmitCall(consumed))
  /\ SF_vars(\E consumed \in 0 .. SqEntries : SubmitAndWait(consumed, 1))
  /\ SF_vars(CompleteBegin)
  /\ SF_vars(Wait(1))

FairSpec == Spec /\ Fairness

-----------------------------------------------------------------------------

\* Every request pushed so far is in exactly one place, once: queued, in the
\* kernel, posted but not reaped, or reaped.  Partial submissions, overflow,
\* splitting and interrupted waits neither lose nor duplicate one.
Conservation ==
  LET queued == Range(SqContents)
      posted == Range(CqContents)
  IN  /\ IsInjective(SqContents) /\ IsInjective(CqContents)
      /\ queued \cup inflight \cup posted \cup reaped = 1 .. pushed
      /\ queued \cap (inflight \cup posted \cup reaped) = {}
      /\ inflight \cap (posted \cup reaped) = {}
      /\ posted \cap reaped = {}

\* A thread that waits on a head of its own has published all of it, and reaps
\* nothing meanwhile.
WaitsOnOwnHead ==
  /\ waiting["completer"] # Idle => split
  /\ \A t \in Thread :
       waiting[t] # Idle /\ (t = "completer" \/ ~split)
         => ~completing /\ cq_head = cq_head_local /\ base[t] = cq_head_local

\* What the calls of both threads and of the kernel preserve together.
RingInv ==
  /\ SqInv
  /\ CqInv
  /\ split \in BOOLEAN
  /\ pushed \in 0 .. MaxRequests
  /\ pushing => pushed < MaxRequests
  /\ waiting \in [Thread -> 0 .. MaxWait]
  /\ base \in [Thread -> Index]
  /\ Conservation
  /\ WaitsOnOwnHead

\* At least min completions are there that had not been reaped when the call of
\* thread t began.
DeliveredTo(t) ==
  LET arrived == WrappingSub(cq_tail, base[t])
  IN  arrived >= waiting[t] \/ arrived >= CqEntries

\* A wait on a whole ring, or on a Completer, that returns without a signal
\* returns with min_complete completions that the caller had not seen.
\* Submitter::submit_and_wait makes no such promise: it waits on the head that
\* the Completer last published, which may lag behind what was reaped.
WaitDelivers ==
  [][\A t \in Thread : ReturnReady(t) /\ (t = "completer" \/ ~split) => DeliveredTo(t)]_vars

\* A wait on a whole ring is never for more completions than the caller has
\* requests outstanding, and if the queue was taken whole, never for more than
\* the kernel has still to finish or has posted.  Entries are left in the queue
\* only behind the valve, whose second enter waits without them.
WaitIsCovered ==
  ~split /\ waiting["submitter"] # Idle =>
    /\ waiting["submitter"] <= Cardinality(Outstanding)
    /\ Used = 0 => waiting["submitter"] <= Cardinality(inflight \cup Range(CqContents))
    /\ Used # 0 => Valve

\* A pushed request is eventually reaped: nothing is stranded in the queue, in
\* the kernel or in the overflow list.
EventuallyReaped == \A request \in Request : (request <= pushed) ~> (request \in reaped)

=============================================================================
