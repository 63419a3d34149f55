-------------------------- MODULE SubmissionQueue --------------------------
(***************************************************************************)
(* The submission side of a ring: the SQ fields of `IoUring` and of        *)
(* `Submitter`, which run the same code, and the two words and the slot    *)
(* array they share with the kernel.                                       *)
(*                                                                         *)
(* sq_tail_local and sq_submitted are private to the submitting thread.    *)
(* sq_tail and sqes are written by it and read by the kernel, sq_head is   *)
(* written by the kernel.  `push` is two steps, the load of sq_head and    *)
(* the store of the entry, because a polling kernel may move sq_head in    *)
(* between.  Without SQPOLL the kernel reads the queue only inside         *)
(* io_uring_enter, called by the submitting thread, so publishing the tail *)
(* and entering the kernel are one step.                                   *)
(***************************************************************************)
EXTENDS WrappingIndex

CONSTANTS
  Sqe,        \* the entries a caller may push
  NoSqe,      \* a slot never written, zeroed by the kernel
  SqEntries,  \* capacity, sq_mask + 1
  Sqpoll      \* whether the ring was set up with IORING_SETUP_SQPOLL

ASSUME SqAssumption ==
  /\ NoSqe \notin Sqe
  /\ SqEntries \in Nat \ {0}
  /\ Modulus \in Nat
  /\ CapacityDivides(SqEntries)
  /\ SqEntries + 1 < Modulus
  /\ Sqpoll \in BOOLEAN

VARIABLES
  sq_tail_local,  \* next slot to fill
  sq_submitted,   \* index up to which the kernel is known to have consumed
  sq_tail,        \* published tail
  sq_head,        \* kernel's consumer index
  sqes,           \* the slot array
  pushing,        \* push has loaded sq_head and not returned yet
  loaded_head     \* the value it loaded

sqVars == <<sq_tail_local, sq_submitted, sq_tail, sq_head, sqes, pushing, loaded_head>>

SqSlot(index) == Slot(index, SqEntries)

\* Entries pushed and not consumed.
Used == WrappingSub(sq_tail_local, sq_head)

\* The free slots sq_space_left reports.
SqSpaceLeft == SqEntries - Used

\* The entry `offset` places behind the kernel's head.
Queued(offset) == sqes[SqSlot(WrappingAdd(sq_head, offset))]

\* from_params: the kernel hands out a ring whose indices are all zero, and
\* parse_sq starts the local tail from the published one.
SqInit ==
  /\ sq_tail_local = 0
  /\ sq_submitted = 0
  /\ sq_tail = 0
  /\ sq_head = 0
  /\ sqes = [slot \in 0 .. SqEntries - 1 |-> NoSqe]
  /\ pushing = FALSE
  /\ loaded_head = 0

-----------------------------------------------------------------------------

PushLoad ==
  /\ ~pushing
  /\ pushing' = TRUE
  /\ loaded_head' = sq_head
  /\ UNCHANGED <<sq_tail_local, sq_submitted, sq_tail, sq_head, sqes>>

\* mutant of PushRejected: an off-by-one in the capacity test
PushRejectedTooLate == WrappingSub(WrappingAdd(sq_tail_local, 1), loaded_head) > SqEntries + 1

\* next_tail.wrapping_sub(head) > sq_mask + 1
PushRejected == WrappingSub(WrappingAdd(sq_tail_local, 1), loaded_head) > SqEntries

PushFull ==
  /\ pushing
  /\ PushRejected
  /\ pushing' = FALSE
  /\ UNCHANGED <<sq_tail_local, sq_submitted, sq_tail, sq_head, sqes, loaded_head>>

\* mutant of PushStore: fills the slot of next_tail
PushStoreNextSlot(sqe) ==
  /\ pushing
  /\ ~PushRejected
  /\ sqes' = [sqes EXCEPT ![SqSlot(WrappingAdd(sq_tail_local, 1))] = sqe]
  /\ sq_tail_local' = WrappingAdd(sq_tail_local, 1)
  /\ pushing' = FALSE
  /\ UNCHANGED <<sq_submitted, sq_tail, sq_head, loaded_head>>

PushStore(sqe) ==
  /\ pushing
  /\ ~PushRejected
  /\ sqes' = [sqes EXCEPT ![SqSlot(sq_tail_local)] = sqe]
  /\ sq_tail_local' = WrappingAdd(sq_tail_local, 1)
  /\ pushing' = FALSE
  /\ UNCHANGED <<sq_submitted, sq_tail, sq_head, loaded_head>>

FlushSqTail ==
  /\ ~pushing
  /\ sq_tail' = sq_tail_local
  /\ UNCHANGED <<sq_tail_local, sq_submitted, sq_head, sqes, pushing, loaded_head>>

-----------------------------------------------------------------------------

\* to_submit, computed before the tail is published.
ToSubmit == WrappingSub(sq_tail_local, sq_submitted)

\* How many entries one io_uring_enter(to_submit) may take off the queue, given
\* the published tail: a prefix of what was asked for and of what is there.
MayConsume(to_submit, tail) ==
  {n \in 0 .. SqEntries : ~Sqpoll /\ n <= to_submit /\ n <= WrappingSub(tail, sq_head)}
    \cup {0}

\* mutant of Submit: counts the request as consumed
SubmitCountsRequest(consumed) ==
  /\ ~pushing
  /\ consumed \in MayConsume(ToSubmit, sq_tail_local)
  /\ sq_tail' = sq_tail_local
  /\ sq_head' = WrappingAdd(sq_head, consumed)
  /\ sq_submitted' = WrappingAdd(sq_submitted, ToSubmit)
  /\ UNCHANGED <<sq_tail_local, sqes, pushing, loaded_head>>

\* `submit` and the submission half of `submit_and_wait`: publish the tail,
\* enter the kernel, and count as submitted what it reports.  A polling kernel
\* reports to_submit and takes nothing itself.  consumed = 0 is also every
\* error return, and the early return of `submit` when nothing is queued.
Submit(consumed) ==
  /\ ~pushing
  /\ consumed \in MayConsume(ToSubmit, sq_tail_local)
  /\ sq_tail' = sq_tail_local
  /\ sq_head' = WrappingAdd(sq_head, consumed)
  /\ \E reported \in IF Sqpoll THEN {0, ToSubmit} ELSE {consumed} :
       sq_submitted' = WrappingAdd(sq_submitted, reported)
  /\ UNCHANGED <<sq_tail_local, sqes, pushing, loaded_head>>

\* The queue state `submit_sqpoll` leaves, whether or not its wakeup call
\* succeeds.  Its documented use is on an SQPOLL ring.
SubmitSqpoll ==
  /\ Sqpoll
  /\ ~pushing
  /\ sq_tail' = sq_tail_local
  /\ sq_submitted' = sq_tail_local
  /\ UNCHANGED <<sq_tail_local, sq_head, sqes, pushing, loaded_head>>

\* The kernel's polling thread takes one published entry, at any time.
PollerConsume ==
  /\ Sqpoll
  /\ sq_head # sq_tail
  /\ sq_head' = WrappingAdd(sq_head, 1)
  /\ UNCHANGED <<sq_tail_local, sq_submitted, sq_tail, sqes, pushing, loaded_head>>

SqNext ==
  \/ PushLoad
  \/ PushFull
  \/ \E sqe \in Sqe : PushStore(sqe)
  \/ FlushSqTail
  \/ \E consumed \in 0 .. SqEntries : Submit(consumed)
  \/ SubmitSqpoll
  \/ PollerConsume

SqSpec == SqInit /\ [][SqNext]_sqVars

-----------------------------------------------------------------------------

\* Type correctness of the submission side.
SqTypeOK ==
  /\ sq_tail_local \in Index
  /\ sq_submitted \in Index
  /\ sq_tail \in Index
  /\ sq_head \in Index
  /\ sqes \in [0 .. SqEntries - 1 -> Sqe \cup {NoSqe}]
  /\ pushing \in BOOLEAN
  /\ loaded_head \in Index

\* The window between the kernel's head and the local tail never exceeds the
\* capacity, although both wrap and push decides on a head that may be stale;
\* so sq_space_left never underflows.
SqWindow == Used <= SqEntries

\* The published tail lies between the kernel's head and the local tail: the
\* kernel is never shown a slot that push has not filled.
SqTailPublished == WrappingSub(sq_tail, sq_head) <= Used

\* The head that push loaded is at most one capacity behind the local tail,
\* and the kernel has only moved forward from it.
SqLoadedHeadBehind ==
  pushing =>
    /\ WrappingSub(sq_tail_local, loaded_head) <= SqEntries
    /\ Used <= WrappingSub(sq_tail_local, loaded_head)

\* Without SQPOLL, sq_submitted is the kernel's head after every call, partial
\* and failed submissions included: to_submit is exactly what is still queued,
\* and nothing is dropped from tracking or submitted twice.
SubmittedTracksHead == ~Sqpoll => sq_submitted = sq_head

\* The window invariant in the form an induction needs.
SqInv ==
  /\ SqTypeOK
  /\ SqWindow
  /\ SqTailPublished
  /\ SqLoadedHeadBehind
  /\ SubmittedTracksHead

\* No step changes an entry that is queued before the step and not consumed by
\* it: push writes only free slots.
QueuedEntryKept ==
  \A offset \in 0 .. SqEntries - 1 :
    offset < WrappingSub(sq_tail_local, sq_head')
      => LET slot == SqSlot(WrappingAdd(sq_head', offset))
         IN  sqes'[slot] = sqes[slot]

NoOverwrite == [][QueuedEntryKept]_sqVars

\* The entries in the queue, oldest first.
SqContents == [i \in 1 .. Used |-> Queued(i - 1)]

SqFifo == INSTANCE Fifo WITH Value <- Sqe, Capacity <- SqEntries, buf <- SqContents

\* The index arithmetic implements a bounded FIFO queue: what the kernel takes
\* is what was pushed, in order, once.
SqImplementsFifo == SqFifo!Spec

=============================================================================
