------------------------------- MODULE RunOne -------------------------------
(***************************************************************************)
(* The synchronous do_* calls.  run_one pushes one tagged SQE that borrows *)
(* the caller's buffer, waits, and drains completions until it finds its   *)
(* own, on a ring that may also carry the application's own requests and   *)
(* the leftovers of calls that failed.                                     *)
(*                                                                         *)
(* The queues are abstract here (SubmissionQueue and CompletionQueue show  *)
(* that they are FIFO); what matters is which completion a call takes for  *)
(* its own, and whether the kernel is done with the buffer when it returns.*)
(***************************************************************************)
EXTENDS Integers, Sequences, Functions

CONSTANTS
  SqEntries,    \* capacity of the submission queue
  TagModulus,   \* the tags run_one can mint, 2^63
  MaxCalls,     \* bound on do_* calls
  MaxOthers     \* bound on the application's own requests

ASSUME RunOneAssumption ==
  /\ SqEntries \in Nat \ {0} /\ TagModulus \in Nat \ {0}
  /\ MaxCalls \in Nat /\ MaxOthers \in Nat

VARIABLES
  queue,        \* requests pushed and not consumed
  flight,       \* requests the kernel works on
  cq,           \* completions, oldest first
  call,         \* where the current call is
  own,          \* its request
  queued,       \* whether its last enter has consumed nothing
  stray,        \* whether it drained someone else's completion
  do_tag_next,
  outcome,      \* what the last call returned
  calls, others

vars == <<queue, flight, cq, call, own, queued, stray, do_tag_next, outcome, calls, others>>

\* Requests: those of do_* calls carry a tag, the application's do not share it.
DoRequest(n, tag) == [kind |-> "do", n |-> n, tag |-> tag]
OtherRequest(n)   == [kind |-> "other", n |-> n, tag |-> -1]

Init ==
  /\ queue = << >> /\ flight = {} /\ cq = << >>
  /\ call = "idle" /\ own = OtherRequest(0) /\ queued = FALSE /\ stray = FALSE
  /\ do_tag_next = 0 /\ outcome = [what |-> "none", of |-> OtherRequest(0)]
  /\ calls = 0 /\ others = 0

Return(what, of) ==
  /\ call' = "idle"
  /\ outcome' = [what |-> what, of |-> of]

-----------------------------------------------------------------------------

NextDoTag == do_tag_next' = (do_tag_next + 1) % TagModulus

\* do_read, do_write, ...: run_one up to its push.  A full queue returns an
\* error and spends the tag.
Call ==
  /\ call = "idle" /\ calls < MaxCalls
  /\ calls' = calls + 1
  /\ own' = DoRequest(calls', do_tag_next)
  /\ NextDoTag
  /\ stray' = FALSE
  /\ IF Len(queue) < SqEntries
     THEN queue' = Append(queue, own') /\ call' = "entering" /\ UNCHANGED outcome
     ELSE Return("full", own') /\ UNCHANGED queue
  /\ UNCHANGED <<flight, cq, queued, others>>

\* submit_and_wait(1): the kernel consumes the queue and waits for a
\* completion to be visible.
Enter ==
  /\ call = "entering"
  /\ flight' = flight \cup Range(queue)
  /\ queue' = << >>
  /\ queued' = (queue = << >>)
  /\ call' = "waiting"
  /\ UNCHANGED <<cq, own, stray, do_tag_next, outcome, calls, others>>

\* It may stop at a request it rejects: what it consumed is the result, and it
\* does not wait.
EnterPart ==
  /\ call = "entering"
  /\ \E consumed \in 1 .. Len(queue) - 1 :
       /\ flight' = flight \cup Range(SubSeq(queue, 1, consumed))
       /\ queue' = SubSeq(queue, consumed + 1, Len(queue))
  /\ call' = "draining"
  /\ UNCHANGED <<cq, own, queued, stray, do_tag_next, outcome, calls, others>>

\* It may fail before it consumes anything.
EnterFails ==
  /\ call = "entering"
  /\ Return("error", own)
  /\ UNCHANGED <<queue, flight, cq, own, queued, stray, do_tag_next, calls, others>>

WaitDone ==
  /\ call = "waiting"
  /\ cq # << >>
  /\ call' = "draining"
  /\ UNCHANGED <<queue, flight, cq, own, queued, stray, do_tag_next, outcome, calls, others>>

\* A signal: an error if the enter consumed nothing, else its count.
Interrupted ==
  /\ call = "waiting"
  /\ IF queued THEN Return("error", own) ELSE call' = "draining" /\ UNCHANGED outcome
  /\ UNCHANGED <<queue, flight, cq, own, queued, stray, do_tag_next, calls, others>>

\* mutant of Mine: any completion of a do_* call will do
MineMarked(completion) == completion.kind = "do"

\* mutant of Mine: compares with the next tag
MineNextTag(completion) == completion.tag = do_tag_next

Mine(completion) == completion.tag = own.tag

\* mutant of DrainStray: gives up at the first mismatch
DrainStrayReturns ==
  /\ ~Mine(Head(cq))
  /\ stray' = TRUE
  /\ Return("unexpected", own)

\* A completion that is not this call's is discarded, and the call waits again.
DrainStray ==
  /\ ~Mine(Head(cq))
  /\ stray' = TRUE
  /\ call' = "entering"
  /\ UNCHANGED outcome

\* mutant of DrainOwn: a stray is not reported
DrainOwnIgnoresStray ==
  /\ Mine(Head(cq))
  /\ Return("ok", Head(cq))
  /\ UNCHANGED stray

\* Its own completion ends the call; if a stray was drained, in an error.
DrainOwn ==
  /\ Mine(Head(cq))
  /\ IF stray THEN Return("unexpected", own) ELSE Return("ok", Head(cq))
  /\ UNCHANGED stray

Drain ==
  /\ call = "draining"
  /\ cq # << >>
  /\ DrainOwn \/ DrainStray
  /\ cq' = Tail(cq)
  /\ UNCHANGED <<queue, flight, own, queued, do_tag_next, calls, others>>

\* NoCompletion
DrainNone ==
  /\ call = "draining"
  /\ cq = << >>
  /\ Return("error", own)
  /\ UNCHANGED <<queue, flight, cq, own, queued, stray, do_tag_next, calls, others>>

-----------------------------------------------------------------------------

\* The application pushes a request of its own between two calls.
PushOther ==
  /\ call = "idle" /\ others < MaxOthers /\ Len(queue) < SqEntries
  /\ others' = others + 1
  /\ queue' = Append(queue, OtherRequest(others'))
  /\ UNCHANGED <<flight, cq, call, own, queued, stray, do_tag_next, outcome, calls>>

\* The kernel completes a request.
Finish(request) ==
  /\ request \in flight
  /\ flight' = flight \ {request}
  /\ cq' = Append(cq, request)
  /\ UNCHANGED <<queue, call, own, queued, stray, do_tag_next, outcome, calls, others>>

RunOneStep == Enter \/ EnterPart \/ EnterFails \/ WaitDone \/ Interrupted \/ Drain \/ DrainNone

Next == Call \/ RunOneStep \/ PushOther \/ \E request \in flight : Finish(request)

Spec == Init /\ [][Next]_vars

\* The thread of a call runs on, without counting on an error or a signal to get
\* it out of a wait, and the kernel finishes what it is given.
FairSpec ==
  /\ Spec
  /\ WF_vars(Enter \/ EnterPart \/ WaitDone \/ Drain \/ DrainNone)
  /\ \A n \in 1 .. MaxCalls + MaxOthers : WF_vars(\E request \in flight : request.n = n /\ Finish(request))

-----------------------------------------------------------------------------

Request ==
  {DoRequest(n, tag) : n \in 0 .. MaxCalls, tag \in 0 .. TagModulus - 1}
    \cup {OtherRequest(n) : n \in 0 .. MaxOthers}

\* What a call returns is the result of its own request, never that of an
\* earlier call whose completion arrived late, nor one of the application's.
ResultIsOwn == call = "idle" /\ outcome.what = "ok" => outcome.of = own

\* A call that drained somebody else's completion never reports success: the
\* loss of that completion is not silent.
StrayReported == call = "idle" /\ stray => outcome.what # "ok"

\* A call that brings a result back, its own or word of a stray, has let go of
\* the caller's buffer: its request is neither queued nor in flight.
ResultEndsBorrow ==
  call = "idle" /\ outcome.what \in {"ok", "unexpected", "full"} =>
    own \notin Range(queue) \cup flight

\* A call never waits for a completion that cannot come: until it returns, its
\* own request is queued, in flight or completed, and once it waits the kernel
\* has it, although stray completions and partial enters sent the call round its
\* loop before.
NeverStranded ==
  /\ call # "idle" => own \in Range(queue) \cup flight \cup Range(cq)
  /\ call = "waiting" => own \in flight \cup Range(cq)

\* The requests pushed so far, while no tag has been minted twice.
Minted == {DoRequest(n, n - 1) : n \in 1 .. calls} \cup {OtherRequest(n) : n \in 1 .. others}

\* Where the requests are: each in one place, queued at most once, and those of
\* earlier calls under tags that are not the current one's.
Placed ==
  /\ queue \in Seq(Request) /\ cq \in Seq(Request) /\ flight \subseteq Request
  /\ Range(queue) \cup flight \cup Range(cq) \subseteq Minted
  /\ IsInjective(queue)
  /\ Range(queue) \cap flight = {}
  /\ Range(cq) \cap (Range(queue) \cup flight) = {}

\* What the steps of a call, of the application and of the kernel preserve.
RunOneInv ==
  /\ calls \in 0 .. MaxCalls /\ others \in 0 .. MaxOthers
  /\ do_tag_next = calls % TagModulus
  /\ own = IF calls = 0 THEN OtherRequest(0) ELSE DoRequest(calls, calls - 1)
  /\ calls = 0 => call = "idle" /\ outcome.what = "none"
  /\ Placed
  /\ ResultIsOwn /\ StrayReported /\ ResultEndsBorrow

\* The caller's buffer is borrowed for as long as the kernel may touch it: no
\* do_* request is queued or in flight after its call has returned.
BorrowCoversRequest ==
  \A request \in Range(queue) \cup flight :
    request.kind = "do" => call # "idle" /\ request = own

\* Every call returns, although its wait may be satisfied by completions that are
\* not its own and its loop then waits for more with nothing left to submit.
CallReturns == (call # "idle") ~> (call = "idle")

=============================================================================
