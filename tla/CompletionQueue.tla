-------------------------- MODULE CompletionQueue --------------------------
(***************************************************************************)
(* The completion side of a ring: the CQ fields of `IoUring` and of        *)
(* `Completer`, which run the same code, the words and the slot array they *)
(* share with the kernel, and the kernel's backlog of completions that     *)
(* found no free slot.                                                     *)
(*                                                                         *)
(* cq_head_local is private to the reaping thread.  cq_tail and cqes are   *)
(* written by the kernel at any time, cq_head is what the reaping thread   *)
(* has published.  `complete` is two steps, the load of cq_tail and the    *)
(* read of the slot, because the kernel may post in between.               *)
(***************************************************************************)
EXTENDS WrappingIndex, Sequences

CONSTANTS
  Cqe,        \* the completions the kernel may post
  NoCqe,      \* a slot never written
  CqEntries,  \* capacity, cq_mask + 1
  MaxBacklog  \* bound on the kernel's overflow list

ASSUME CqAssumption ==
  /\ NoCqe \notin Cqe
  /\ CqEntries \in Nat \ {0}
  /\ MaxBacklog \in Nat
  /\ Modulus \in Nat
  /\ CapacityDivides(CqEntries)
  /\ CqEntries + 1 < Modulus

VARIABLES
  cq_head_local,  \* next completion to reap
  cq_head,        \* published head
  cq_tail,        \* kernel's producer index
  cqes,           \* the slot array
  backlog,        \* completions waiting for a slot, oldest first
  completing,     \* complete has loaded cq_tail and not returned yet
  loaded_tail     \* the value it loaded

cqVars == <<cq_head_local, cq_head, cq_tail, cqes, backlog, completing, loaded_tail>>

CqSlot(index) == Slot(index, CqEntries)

\* Completions posted to the ring and not reaped.
Unreaped == WrappingSub(cq_tail, cq_head_local)

\* Completions the kernel believes are still in the ring.
CqUsed == WrappingSub(cq_tail, cq_head)

\* The completion `offset` places behind the local head.
Posted(offset) == cqes[CqSlot(WrappingAdd(cq_head_local, offset))]

\* from_params and parse_cq: all indices are zero.
CqInit ==
  /\ cq_head_local = 0
  /\ cq_head = 0
  /\ cq_tail = 0
  /\ cqes = [slot \in 0 .. CqEntries - 1 |-> NoCqe]
  /\ backlog = << >>
  /\ completing = FALSE
  /\ loaded_tail = 0

-----------------------------------------------------------------------------

\* The kernel writes a completion to the slot at its tail.
PostToRing(cqe) ==
  /\ CqUsed < CqEntries
  /\ cqes' = [cqes EXCEPT ![CqSlot(cq_tail)] = cqe]
  /\ cq_tail' = WrappingAdd(cq_tail, 1)

\* A request completes and there is room.
PostCqe(cqe) ==
  /\ backlog = << >>
  /\ PostToRing(cqe)
  /\ UNCHANGED <<cq_head_local, cq_head, backlog, completing, loaded_tail>>

\* A request completes and the ring is full, or others are already waiting.
PostOverflow(cqe) ==
  /\ backlog # << >> \/ CqUsed >= CqEntries
  /\ Len(backlog) < MaxBacklog
  /\ backlog' = Append(backlog, cqe)
  /\ UNCHANGED <<cq_head_local, cq_head, cq_tail, cqes, completing, loaded_tail>>

\* The kernel moves the oldest waiting completion into a freed slot.
FlushBacklog ==
  /\ backlog # << >>
  /\ PostToRing(Head(backlog))
  /\ backlog' = Tail(backlog)
  /\ UNCHANGED <<cq_head_local, cq_head, completing, loaded_tail>>

-----------------------------------------------------------------------------

CompleteLoad ==
  /\ ~completing
  /\ completing' = TRUE
  /\ loaded_tail' = cq_tail
  /\ UNCHANGED <<cq_head_local, cq_head, cq_tail, cqes, backlog>>

CompleteNone ==
  /\ completing
  /\ cq_head_local = loaded_tail
  /\ completing' = FALSE
  /\ UNCHANGED <<cq_head_local, cq_head, cq_tail, cqes, backlog, loaded_tail>>

\* mutant of CompleteTake: reaps without testing for an empty queue
CompleteTakeUnchecked ==
  /\ completing
  /\ cq_head_local' = WrappingAdd(cq_head_local, 1)
  /\ completing' = FALSE
  /\ UNCHANGED <<cq_head, cq_tail, cqes, backlog, loaded_tail>>

\* The completion returned is Posted(0).
CompleteTake ==
  /\ completing
  /\ cq_head_local # loaded_tail
  /\ cq_head_local' = WrappingAdd(cq_head_local, 1)
  /\ completing' = FALSE
  /\ UNCHANGED <<cq_head, cq_tail, cqes, backlog, loaded_tail>>

\* mutant of FlushCqHead: publishes one completion too many
FlushCqHeadAhead ==
  /\ ~completing
  /\ cq_head' = IF Unreaped > 0 THEN WrappingAdd(cq_head_local, 1) ELSE cq_head_local
  /\ UNCHANGED <<cq_head_local, cq_tail, cqes, backlog, completing, loaded_tail>>

\* flush_cq_head and sync_cq; also the tail end of `submit` and the start of
\* `submit_and_wait`, `wait` and both drops.
FlushCqHead ==
  /\ ~completing
  /\ cq_head' = cq_head_local
  /\ UNCHANGED <<cq_head_local, cq_tail, cqes, backlog, completing, loaded_tail>>

CqNext ==
  \/ \E cqe \in Cqe : PostCqe(cqe)
  \/ \E cqe \in Cqe : PostOverflow(cqe)
  \/ FlushBacklog
  \/ CompleteLoad
  \/ CompleteNone
  \/ CompleteTake
  \/ FlushCqHead

CqSpec == CqInit /\ [][CqNext]_cqVars

-----------------------------------------------------------------------------

\* Type correctness of the completion side.
CqTypeOK ==
  /\ cq_head_local \in Index
  /\ cq_head \in Index
  /\ cq_tail \in Index
  /\ cqes \in [0 .. CqEntries - 1 -> Cqe \cup {NoCqe}]
  /\ backlog \in Seq(Cqe)
  /\ Len(backlog) <= MaxBacklog
  /\ completing \in BOOLEAN
  /\ loaded_tail \in Index

\* What the kernel counts as used never exceeds the capacity.
CqWindow == CqUsed <= CqEntries

\* The local head lies between the published head and the kernel's tail: the
\* library never gives a slot back to the kernel before it has read it, and
\* never reads past what was posted.
CqHeadWithin == Unreaped <= CqUsed

\* The tail that complete loaded is one the kernel has reached, and at or past
\* the local head.
CqLoadedTailWithin == completing => WrappingSub(loaded_tail, cq_head_local) <= Unreaped

\* The window invariant in the form an induction needs.
CqInv ==
  /\ CqTypeOK
  /\ CqWindow
  /\ CqHeadWithin
  /\ CqLoadedTailWithin

\* No step of the kernel or of the library changes a completion that is posted
\* before the step and not reaped by it, however late the head is published.
PostedKept ==
  \A offset \in 0 .. CqEntries - 1 :
    offset < WrappingSub(cq_tail, cq_head_local')
      => LET slot == CqSlot(WrappingAdd(cq_head_local', offset))
         IN  cqes'[slot] = cqes[slot]

NoCqeOverwrite == [][PostedKept]_cqVars

\* The completions in the ring, then those in the backlog, oldest first.
CqWindowContents == [i \in 1 .. Unreaped |-> Posted(i - 1)]
CqContents == CqWindowContents \o backlog

CqFifo == INSTANCE Fifo
            WITH Value <- Cqe, Capacity <- CqEntries + MaxBacklog, buf <- CqContents

\* Ring and backlog together implement a FIFO queue: every completion the
\* kernel posts is reaped once, in posting order, overflow included.
CqImplementsFifo == CqFifo!Spec

=============================================================================
