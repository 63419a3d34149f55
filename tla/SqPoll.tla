------------------------------- MODULE SqPoll -------------------------------
(***************************************************************************)
(* An SQPOLL ring: the submission queue, submit_sqpoll and the kernel's    *)
(* polling thread.  The submitter stores the tail (Release) and then loads *)
(* the flags word (Acquire); the poller sets NEED_WAKEUP, looks at the     *)
(* tail once more, and sleeps.                                             *)
(*                                                                         *)
(* A Release store followed by an Acquire load of another word may be      *)
(* carried out in the other order: the store waits in the processor's      *)
(* store buffer while the load goes ahead.  LoadOvertakes says whether the *)
(* processor does that.  sq_tail is the tail the poller sees.              *)
(***************************************************************************)
EXTENDS SubmissionQueue

CONSTANT LoadOvertakes \* whether a load may be carried out before an earlier store

ASSUME SqPollAssumption == LoadOvertakes \in BOOLEAN

VARIABLES
  stored_tail,    \* the last tail the submitter stored; buffered if # sq_tail
  need_wakeup,    \* IORING_SQ_NEED_WAKEUP
  submitter,      \* "idle", "stored" (tail stored, flags not read), "waking"
  poller,         \* "polling", "flagged" (about to sleep), "asleep"
  failed          \* the last submit_sqpoll returned an error

wakeupVars == <<stored_tail, need_wakeup, submitter, poller, failed>>

pollVars == <<sqVars, wakeupVars>>

PollInit ==
  /\ Sqpoll
  /\ SqInit
  /\ stored_tail = 0
  /\ need_wakeup = FALSE
  /\ submitter = "idle"
  /\ poller = "polling"
  /\ failed = FALSE

\* push, by the thread that also calls submit_sqpoll.
Push ==
  /\ submitter = "idle"
  /\ PushLoad \/ PushFull \/ \E sqe \in Sqe : PushStore(sqe)
  /\ UNCHANGED wakeupVars

\* mutant of StoreTail: publishes the slot the next push will fill
StoreTailAhead ==
  /\ submitter = "idle"
  /\ ~pushing
  /\ submitter' = "stored"
  /\ stored_tail' = WrappingAdd(sq_tail_local, 1)
  /\ failed' = FALSE
  /\ UNCHANGED <<sqVars, need_wakeup, poller>>

\* submit_sqpoll: flush_sq_tail.
StoreTail ==
  /\ submitter = "idle"
  /\ ~pushing
  /\ submitter' = "stored"
  /\ stored_tail' = sq_tail_local
  /\ failed' = FALSE
  /\ UNCHANGED <<sqVars, need_wakeup, poller>>

\* mutant of LoadFlags: never wakes the poller
LoadFlagsIgnored ==
  /\ submitter = "stored"
  /\ LoadOvertakes \/ sq_tail = stored_tail
  /\ submitter' = "idle"
  /\ sq_submitted' = sq_tail_local
  /\ UNCHANGED <<sq_tail_local, sq_tail, sq_head, sqes, pushing, loaded_head>>
  /\ UNCHANGED <<stored_tail, need_wakeup, poller, failed>>

\* submit_sqpoll: sq_submitted, a word of the submitter's own, and
\* sq_need_wakeup.
LoadFlags ==
  /\ submitter = "stored"
  /\ LoadOvertakes \/ sq_tail = stored_tail
  /\ submitter' = IF need_wakeup THEN "waking" ELSE "idle"
  /\ sq_submitted' = sq_tail_local
  /\ UNCHANGED <<sq_tail_local, sq_tail, sq_head, sqes, pushing, loaded_head>>
  /\ UNCHANGED <<stored_tail, need_wakeup, poller, failed>>

\* The stored tail becomes visible to the poller.
TailVisible ==
  /\ sq_tail' = stored_tail
  /\ UNCHANGED <<sq_tail_local, sq_submitted, sq_head, sqes, pushing, loaded_head>>

\* io_uring_enter(SQ_WAKEUP); entering the kernel empties the store buffer.
Wake ==
  /\ submitter = "waking"
  /\ submitter' = "idle"
  /\ TailVisible
  /\ need_wakeup' = FALSE
  /\ poller' = "polling"
  /\ UNCHANGED <<stored_tail, failed>>

WakeFails ==
  /\ submitter = "waking"
  /\ submitter' = "idle"
  /\ TailVisible
  /\ failed' = TRUE
  /\ UNCHANGED <<stored_tail, need_wakeup, poller>>

\* The store buffer drains in its own time.
Drain ==
  /\ sq_tail # stored_tail
  /\ TailVisible
  /\ UNCHANGED wakeupVars

-----------------------------------------------------------------------------
\* The kernel's polling thread.

Consume ==
  /\ poller = "polling"
  /\ PollerConsume
  /\ UNCHANGED wakeupVars

\* Nothing to do for the idle period: announce the sleep, with a full barrier.
SetNeedWakeup ==
  /\ poller = "polling"
  /\ sq_head = sq_tail
  /\ need_wakeup' = TRUE
  /\ poller' = "flagged"
  /\ UNCHANGED <<sqVars, stored_tail, submitter, failed>>

Recheck ==
  /\ poller = "flagged"
  /\ IF sq_head = sq_tail
       THEN poller' = "asleep" /\ UNCHANGED need_wakeup
       ELSE poller' = "polling" /\ need_wakeup' = FALSE
  /\ UNCHANGED <<sqVars, stored_tail, submitter, failed>>

PollNext ==
  \/ Push
  \/ StoreTail
  \/ LoadFlags
  \/ Wake
  \/ WakeFails
  \/ Drain
  \/ Consume
  \/ SetNeedWakeup
  \/ Recheck

PollSpec == PollInit /\ [][PollNext]_pollVars

\* The submitter finishes the call it is in, stores drain, and the poller runs
\* unless it sleeps.
PollFairness ==
  /\ WF_pollVars(LoadFlags)
  /\ WF_pollVars(Wake \/ WakeFails)
  /\ WF_pollVars(Drain)
  /\ WF_pollVars(Consume \/ SetNeedWakeup \/ Recheck)

PollFairSpec == PollSpec /\ PollFairness

-----------------------------------------------------------------------------

\* Type correctness of the wakeup protocol.
TypeOK ==
  /\ need_wakeup \in BOOLEAN
  /\ submitter \in {"idle", "stored", "waking"}
  /\ poller \in {"polling", "flagged", "asleep"}
  /\ failed \in BOOLEAN

\* When the poller sleeps on a published entry, a call that will wake it is
\* under way, or has told its caller that it failed.
NoLostWakeup ==
  poller = "asleep" /\ sq_head # stored_tail
    => submitter \in {"stored", "waking"} \/ failed

\* What NoLostWakeup rests on when loads keep their place: the poller sees every
\* tail stored by a call that has looked at the flag, nothing is pushed inside a
\* call, and the flag is up exactly while the poller sleeps or is about to.
WakeupInv ==
  /\ TypeOK
  /\ sq_tail = stored_tail \/ submitter = "stored"
  /\ submitter # "idle" => stored_tail = sq_tail_local /\ ~pushing
  /\ need_wakeup <=> poller # "polling"
  /\ NoLostWakeup

\* The polled ring is a submission queue: splitting submit_sqpoll into its store
\* and its load, with a poller that sleeps and wakes in between, adds nothing to
\* what SubmissionQueue allows.
ImplementsQueue == SqSpec

\* The entry with index n is published and not consumed.
Published(n) == WrappingSub(n, sq_head) < WrappingSub(stored_tail, sq_head)

\* Every entry that submit_sqpoll published is consumed, unless the call
\* returned an error.
PublishedConsumed == \A n \in Index : Published(n) ~> (~Published(n) \/ failed)

=============================================================================
