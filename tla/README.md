# ququmatz in TLA+

TLA+ models of ququmatz, a dependency-free io_uring binding for Rust, with TLC
configurations that check them on small instances and TLAPS proofs of the most
important invariants for every value of the constants. Paths such as
`ring/mod.rs` are relative to `src/src/`.

## 1. Survey

### Parts of the system

| Part | Source | State | Operations |
|---|---|---|---|
| Submission queue | `ring/mod.rs` (`IoUring`, `Submitter`) | local tail, submitted index, published tail, kernel head, slots | `push`, `push_nop`, `flush_sq_tail`, `submit`, `submit_and_wait`, `submit_sqpoll` |
| Completion queue | `ring/mod.rs` (`IoUring`, `Completer`) | local head, published head, kernel tail, slots, kernel overflow list | `complete`, `sync_cq`, `wait` |
| Setup and resources | `ring/mod.rs`, `ring/no_mmap.rs`, `ring/layout.rs`, `ring/resources.rs` | fd, mappings and their sizes, reference count | `from_params`, `split`, the drops, `release` |
| Provided buffers | `ring/pbuf.rs` | producer ring, 32-bit position and 16-bit tail, ledger, tokens, leases | `register_provided_buffers`, `recycle*`, `commit`, `claim`, `acknowledge`, drop |
| Synchronous calls | `ring/ops.rs` | tag counter, ring | `run_one`, `do_*` |
| Multishot receive and read | `owned/multishot.rs`, `owned/readmultishot.rs` | tickets over a pool, armed requests | push, `record`, drop of an `Arrival` |
| Owned requests | `owned/*.rs` | identities, tickets, receipts, storage | constructors, `push*`, `reap`, `reap_event`, `record*`, `redeem`, `into_parts`, drops |
| Registered-file slots | `owned/slot.rs`, `direct*.rs`, `filesupdate.rs`, `ring/register.rs` | the kernel's table and what the application knows of it | registration, update and allocation range; direct open, socket and accept, `files_update` |
| Builders, ABI types, system calls, registrations, errors, file and socket wrappers | `op/`, `types/`, `syscall/`, `ring/register.rs`, ... | none of their own | see section 8 |

The queues are shared with the kernel: the library owns one index of each and
the kernel the other. `split` turns a ring into a `Submitter` and a `Completer`
that live on two threads and share only the kernel's ring and the reference
count. The owned API sits on the two halves: it encodes an identity in
`user_data`, moves the caller's storage into a ticket when an entry is pushed,
and mints a receipt from a completion without `MORE`.

### Behaviours that are hard to get right

- Indices run freely and wrap at 2^32, while `push` and `complete` decide on a
  value of the other side's index that may be stale.
- `io_uring_enter` may consume a part of the queue, fail, or be interrupted.
- A full completion ring sends completions to a list in the kernel that is
  flushed only inside a call with `GETEVENTS`.
- With SQPOLL the submitter and the poller each store one word and load the
  other's: a wakeup can be lost.
- Owners of one ring are dropped on different threads; setup can fail half-way
  in three layouts.
- Under `NO_MMAP` the ring's memory is sized before the kernel says what it needs.
- A buffer pool's position is 32 bits wide and its published tail 16.
- A multishot request ends whenever the kernel likes, sometimes with a buffer in
  its last completion; on an incremental pool a completion does not end the
  kernel's use of the buffer it names.
- Tickets and receipts are values that can be kept, mixed up, dropped and used
  on the wrong ring; zero-copy sends complete twice.
- A request's memory (path, header, descriptor array, address, destination) is
  staged in caller-supplied storage of any size and alignment, and is used again
  by later requests.
- Slot numbers share a 32-bit field with two sentinels, and completions report
  them differently depending on the request.

Each is an entry of `hazards` in PROJECT.json, at its line.

## 2. Modules

| Module | What it models |
|---|---|
| `WrappingIndex` | `wrapping_add`, `wrapping_sub` and masking; `Modulus` stands for 2^32 |
| `SubmissionQueue` | the SQ half; `push` is two steps (load of the head, store of the entry) |
| `CompletionQueue` | the CQ half with the kernel's overflow list; `complete` is two steps |
| `Fifo` | abstract specification of both queues: a bounded first-in first-out queue |
| `Ring` | composition of the two queues with the kernel's requests and one or two threads |
| `SqPoll` | an SQPOLL ring: `SubmissionQueue` with `submit_sqpoll` in its separate steps, against the polling thread; `LoadOvertakes` chooses the processor |
| `Backpressure` | `IoUring::submit_and_wait` with its valve, on counters |
| `RunOne` | `run_one`, on abstract queues that also carry the application's requests |
| `RingLayout` | sizes and offsets of the ring's memory: what the kernel settles on, what the library predicts, what it maps and reaches |
| `RingLifetime` | setup over those layouts, unwinding, reference counting and cleanup; pools as owners |
| `ProvidedBuffers` | a pool: producer ring, leases, ledger and tokens |
| `Multishot` | composition of a pool with multishot requests, the completion queue and the completion thread; whole-buffer and incremental pools |
| `OwnedRequests` | identities, tickets and receipts of the owned API, on several rings that also carry completions no owned request asked for |
| `Lending` | abstract specification of the owned API: storage is lent and given back |
| `Staging` | storage as runs of cells, `OwnedPath`, and the checks shared by constructors |
| `FileKinds`, `MessageKinds`, `ValueKinds` | per kind of request: constructor, entry, accessors |
| `StagedRequests` | all 27 kinds over shared memory and descriptors, with the kernel carrying them out |
| `SlotTable` | the registered-file table, the calls and requests that fill it, and what the application learns of it |
| `MC*` | values of the constants for TLC |
| `RingProofs` | distances and slots of wrapping indices; theorems on `SubmissionQueue`, `CompletionQueue`, `SqPoll` and `Ring` |
| `PoolProofs` | theorems on `ProvidedBuffers` and `Multishot` |
| `StagedTicketProofs` | lemmas on `StagedRequests`: the kinds of request, the operations on a ticket, the kernel's completions |
| `RingLifetimeProofs`, `OwnedRequestsProofs`, `RunOneProofs`, `SlotTableProofs`, `StagedRequestsProofs` | theorems on the module they are named after |

Correspondence with the code: variables keep the names of the fields where there
is one (`sq_tail_local`, `sq_submitted`, `cq_head_local`, `do_tag_next`,
`tail_local`, `delivered`, `refcount`). An action is one call, except where
another thread or the kernel can act inside the call: then the call is split at
its loads of shared words (`PushLoad`/`PushStore`, `CompleteLoad`/`CompleteTake`),
at its system calls (`FirstEnter`/`SecondEnter`, `Enter`/`WaitDone`/`Drain`) or at
its steps on shared resources (`DropPool`/`UnmapPool`/`Release`/`CleanUp`).
PROJECT.json's `map` gives the source lines of every definition. Definitions
marked external are the kernel's side, modelled from how the library uses it:

- an enter consumes a prefix; it reports an error only if it consumed nothing;
  it does not wait if it consumed less than it was given;
- a wait compares the tail with the published head, for at most the ring's size;
- overflowed completions go back to the ring in order, inside `GETEVENTS` calls;
- a slot install reports the slot only when the kernel chose it;
- a table update stops at the first descriptor that is not open, and the slots
  behind it keep what they held (so says the crate, `owned/filesupdate.rs:109`);
- `recvmsg` writes the flags, and the name and its full length if a name was
  given; `waitid` writes the named fields only;
- a multishot request ends with a completion without `MORE`: on an error, a dry
  pool, the end of its stream, or a completion queue with no room;
- an incremental buffer stays at the head until a completion without `BUF_MORE`;
- a cancelled request completes with -125; with `ALL` the result of the
  cancellation is the number of requests it stopped;
- sizes and offsets of the rings are those of `io_uring_fill_params` and
  `rings_size`, for a cache line of 32, 64 or 128 bytes.

Data are abstracted. An entry is a model value or a number; memory is counted in
cells whose content is *who wrote it and what kind of thing it is* (`<<"header",
2>>`, `<<"kernel", 1>>`), which is what the properties tell apart; a path is its
length; outcomes keep the error numbers that the code names.

## 3. Runs

| Run | Configuration | Checks |
|---|---|---|
| `ring` | `MCRing` | the completion queue's invariant and refinement inside the composed ring, exact accounting of submissions, conservation of requests, what a wait delivers, and that every request is reaped |
| `sqpoll` | `MCSqPollStrong` | an SQPOLL ring where a load stays behind an earlier store: the queue's window, no entry overwritten, refinement of `SubmissionQueue` and of `Fifo`, no lost wakeup, every published entry consumed |
| `owned` | `MCOwnedRequests` | the owned API's invariant, no aliasing, refinement of `Lending`, and that storage comes back |
| `pool` | `MCMultishot` | a pool under multishot requests: no buffer provided twice, all accounted for; one owner, a completion, an `Arrival`, the application or the ledger, for every delivery; no ticket left on a request that has ended; refinement of `ProvidedBuffers`; reception goes on |
| `lifetime` | `MCRingLifetime` | owners always reach the ring, nothing freed twice, no registration of unmapped memory, every part of the rings inside its region, all released |
| `run_one` | `MCRunOne` | a call returns its own result, reports strays, ends its borrow, and returns |
| `slots` | `MCSlotTable` | the application's picture of the table is exact; armed accepts are armed |
| `staged` | `MCStagedRequests` | the kernel stays inside owned storage, reads what was asked, and the accessors tell the truth |
| `sqpoll_weak` | `MCSqPollWeak` | violation: see section 6 |
| `run_one_borrow` | `MCRunOneBorrow` | violation: see section 6 |
| `bp_partial` | `MCBackpressure` | violation: see section 6 |
| `pool_incremental` | `MCMultishotInc` | violation: see section 6 |

### Bounds, and why they are enough

- `ring`: capacities 2 and 2, modulus 4, four requests, `min_complete` 1. Four
  requests are twice the completion ring, so overflow, flush and wrap all
  happen. The valve needs a completion ring of four or more; an instance with
  capacity 4, modulus 8 and five requests (1.1 million states, 16 minutes) has
  been checked with the same properties and is too long to run regularly.
- `sqpoll` (71,625 states): capacity 4, modulus 8, two kinds of entry, no bound on
  their number. The indices wrap, full and empty queues occur at every alignment,
  two values tell apart any two entries that could be swapped, and the poller
  falls asleep and is woken any number of times. `Submit` on a
  ring without a poller fires in `ring`; the two mixed on one ring, and a
  `flush_sq_tail` whose call does nothing more, are left to the theorems on
  `SubmissionQueue`, which cover every capacity.
- `owned` (618,780 states): two rings that number their requests alike, one with
  two requests and one with one, one storage, a queue of one entry, and a raw
  `user_data` of 0 on the first. Requests with no storage, zero-copy and
  ordinary, coexist on both rings, so receipts of another request and of another
  ring are available to be misapplied. The theorems cover every larger instance
  of the safety properties.
- `pool` (172,105 states): pool sizes 0 to 4 asked for, at most 2 accepted, a
  position modulo 8 and a tail modulo 4: the tail wraps twice as often as the
  position, and the largest pool is exactly half the tail's range, as in the code
  (2^15 of 2^16). Two request identities, used again and again, and room for one
  completion before the kernel refuses extra ones, so that a request ends for
  lack of buffers, for lack of room, on an error and by itself. A pool of two is
  small; the theorems give the safety properties for every size, and a pool of
  four without the requests (3,270,865 states) has been checked once.
- `lifetime` (190,650 states): two pools under one group id over seven
  combinations of setup flags, which cover the layouts and both sides of the
  split rule; and four numbers of entries, five CQ sizes and every combination
  of `CQSIZE`, `CLAMP`, `NO_SQARRAY` and `SQE128` in four layouts, with the
  code's own byte sizes and limits on both sides.
- `run_one`: three calls, two requests of the application, a queue of two, tags
  modulo 8. A leftover of a failed call meets two later calls.
- `slots` (733,877 states): a word of 8 values, so that the encoding of the largest
  slots meets the sentinels, a table of two slots, two requests (one of which may
  be a multishot accept that installs repeatedly), after any registrations,
  updates and allocation ranges before the split.
- `staged` (863,773 states): two requests over three storages (large and aligned,
  large and aligned for `i32` only, small), so that every constructor has an
  argument it accepts and most have one they refuse, and the second request
  reuses storage the first has filled. A cancellation meets at most one other
  request, so its count is 0 or 1.

### Deadlock

Deadlock is checked in `ring`, `sqpoll`, `owned` and `pool`. In `lifetime`
a ring ends when it has been released; in `run_one`, `slots` and `staged` the
bounded number of calls or requests is used up and the application stops. In
`bp_partial` the blocked wait is what the run is about.

### Fairness

- `ring`: the kernel finishes every request and returns from every satisfied
  wait (weak); a thread finishes a call it has begun (weak); the application goes
  on submitting, waiting and reaping (strong, since the calls of the two threads
  enable and disable each other). Fairness of `SubmitCall` is on submissions
  that consume something: a kernel that for ever consumes nothing would strand
  any queue.
- `sqpoll`: the submitter finishes the call it is in, stores become visible, and
  the poller runs unless it sleeps. The submitter need not call again.
- `owned`: entries are submitted, requests finish, each identity's completion is
  reaped (the queue is first-in first-out, so raw completions cannot hold it up),
  matching receipts are redeemed. Dropping is never forced.
- `pool`: the kernel does not fail or starve every request for ever, and the
  completion thread reaps, drops its `Arrival`s, returns what it took by hand or
  by token, commits, and arms a request when none is armed. Strong fairness where
  a live lease, which borrows the pool, excludes the call.
- `lifetime`: setup goes on, by its next step or by a failure, and every owner is
  eventually dropped.
- `run_one`: the thread runs on and the kernel finishes requests; no error or
  signal is assumed to get a call out of a wait.
- `Backpressure`: the kernel makes progress; the application owes nothing.

## 4. Proofs

TLAPS proves, for every value of the constants allowed by the named assumptions:

| Theorem | Statement |
|---|---|
| `SqInvariant` | `SqSpec => []SqInv` |
| `SqNoOverwrite` | no step changes a queued entry |
| `SqRefinesFifo` | the submission queue implements `Fifo` |
| `CqInvariant`, `CqNoOverwrite`, `CqRefinesFifo` | the same of the completion queue with its overflow list |
| `NoWakeupIsLost` | `WakeupInv`, if loads do not overtake stores |
| `PolledRingIsAQueue` | under the same condition the SQPOLL ring implements `SubmissionQueue`; with the three theorems above it keeps the window, overwrites nothing and is a `Fifo` |
| `PolledRingCorrect` | what the caller of `submit_sqpoll` gets, in one statement |
| `RingInvariant`, `NoRequestIsLost`, `SubmittedIsConsumed` | `RingInv`, `Conservation` and `SubmittedTracksHead` of the composed ring |
| `RingIsBothQueues`, `RingReapsInOrder`, `RingKeepsCompletions` | the composed ring implements both queues, so their theorems hold in it |
| `WaitsDeliver` | the action property `WaitDelivers` |
| `WaitsAreCovered` | `WaitIsCovered`: no wait on a whole ring is for more than is outstanding |
| `OwnedInvariant`, `OwnedNoAliasing` | the caller never holds storage that the kernel may touch |
| `OwnedRefinesLending` | the owned API implements `Lending` |
| `OwnedReceiptsKept` | the action property `ReceiptsKept`: the library loses no receipt |
| `PoolSharedOut` | a pool is unregistered or `PoolInv` holds |
| `PoolNoDoubleProvide`, `PoolAccounted`, `PoolLedger` | `NoDoubleProvide`, `EveryBufferAccounted`, `LedgerMatchesDeliveries` for every pool |
| `MultishotInvariant`, `EveryDeliveryHasOneOwner`, `TicketsAreArmedOrTold` | `MultishotInv` and the two properties it contains |
| `MultishotImplementsPool`, `MultishotNoDoubleProvide` | multishot requests use a pool only as `ProvidedBuffers` allows, so its guarantees carry over |
| `RingLifetimeInvariant` | `LifetimeInv` |
| `RingOutlivesOwners`, `RingFreedOnce`, `RegistrationsAreMapped` | `OwnersReachRing`, `NothingFreedTwice`, `RegisteredPoolsMapped` |
| `RingHoldsWhatIsMapped`, `RingLeavesNothing` | `MappedIsHeld` and, from it, `NothingLeaked` |
| `SetupTookPossibleSteps`, `FinishedRingsFit` | every step of setup that succeeded was possible, hence `RingFits` |
| `RunOneInvariant`, `CallsReturnTheirOwn`, `ResultsEndBorrows` | `RunOneInv`, `ResultIsOwn`, `ResultEndsBorrow`, while tags have not come round |
| `StraysAreReported`, `CallsAreNeverStranded` | `StrayReported` and `NeverStranded`, without that condition |
| `SlotInvariant`, `PictureIsExact`, `AcceptsStayArmed` | `SlotInv`, `PictureExact`, `ArmedIsArmed` |
| `StagedInvariant` | `StagedInv`, for all 27 kinds of request |
| `StagedTypes`, `EntriesStayInside`, `KernelIsAskedRight`, `AnswersAreFresh`, `OutcomesAreTrue`, `DescriptorsHaveOneOwner` | `TypeOK`, `KernelStaysInside`, `KernelReadsWhatWasAsked`, `ExposedIsThisRequests`, `OutcomeIsWhatHappened`, `DescriptorsOwnedOnce` |
| `StagedRefinesLending` | requests of every kind implement `Lending` |

Assumptions:

- queues: the capacity is positive, divides the modulus, and is smaller than the
  modulus by at least two (`SqAssumption`, `CqAssumption`; in the code a power of
  two of at most 2^15 or 2^16 against 2^32);
- wakeup and polled ring: `Sqpoll` and `LoadOvertakes = FALSE`;
- owned API: the raw `user_data` values of a ring are none of its identities
  (`OwnedAssumption`; see section 7, the code leaves that to the application);
- pools: the largest pool is at most half the tail's range, the tail's range
  divides the position's (`PoolAssumption`), and every accepted size divides the
  tail's range (`CountAssumption`; in the code powers of two up to 2^15, 2^16 and
  2^32);
- multishot: `IncTickets = FALSE`, that is, tickets are kept off incremental pools.
  Without it the run `pool_incremental` has the counterexample;
- composed ring: the entries of both queues are the requests, the completion ring
  is at least as large as the submission ring (so is the kernel's), and the
  overflow list has room for every request (`RingAssumption`);
- lifetime: finitely many pools, distinct from the halves and the ring's resources
  (`OwnerAssumption`), and requests for rings whose sizes are numbers
  (`RequestAssumption`);
- synchronous calls: `MaxCalls <= TagModulus` for the two theorems on results. Tags
  have 63 free bits in the code, so this asks for at most 2^63 calls;
- slots: the table is smaller than the range `SlotIndex::new` accepts
  (`SlotAssumption`), and each theorem takes as a hypothesis that the descriptors
  given to `files_update` are below half the word. That is what a descriptor is;
  `RawFd::as_i32` sends a larger value as a negative one, and two of those are the
  kernel's sentinels (section 7);
- staged requests: sizes of structures are positive, a socket address holds more
  than its family, the fields the kernel writes back are inside their structure
  (`StagingAssumption`), and every request is one that the types let a caller
  build (`WellFormed` in `StagedAssumption`): its storages are distinct, each being
  owned by value, and it has as many paths and buffers as its constructor takes.

**Queues.** The first lemmas reduce modular arithmetic to facts about distances:
where `x - (y + 1)` lies given `x - y`, that distances add up while they are
small, and that two indices less than one capacity apart have different slots.
`SqInv` is inductive: besides the window (`SqWindow`) it needs `SqTailPublished`,
since consuming moves the head towards the published tail and not the local one,
and `SqLoadedHeadBehind`, since `push` decides on a head the kernel may since have
moved. That conjunct says that the kernel has only moved forward from the loaded
value, so a push that was safe then is safe now. `CqInv` is its mirror image: the
local head lies between the published head and the tail, and the tail that
`complete` loaded has been reached. Refinement maps the window of slots to a
sequence; for the completion queue the overflow list is appended, so a flush is a
stuttering step.

**Wakeup.** `NoLostWakeup` alone is not inductive: it says nothing before the
poller sleeps. `WakeupInv` adds that a tail not yet visible belongs to a call that
has not looked at the flag, and that the flag is up exactly while the poller
sleeps or is about to.

**Polled ring.** `submit_sqpoll` is a store, a load and perhaps an enter, with the
poller acting between them; the queue it implements does them at once. The step
in which the store becomes visible is a bare `flush_sq_tail`, the load of the
flags is the whole `submit_sqpoll` over a tail that is already published, and the
rest stutters. `WakeupInv` makes these steps legal: inside a call the stored tail
is the local one, and nothing is being pushed.

**Composed ring.** Each action of `Ring` is a step of `SubmissionQueue` together
with a step of `CompletionQueue`, or leaves one of them alone, so `SqInv` and
`CqInv` come from the queues' own proofs. `Conservation` is a partition: the two
queues hold each request once, and queued, in flight, posted and reaped requests
are disjoint and make up all that were pushed. Lemmas say what a push, a partial
consumption, a post, a flush and a reap do to the contents of the queues as
sequences; a consumption of several entries moves a prefix to `inflight`. For
`WaitDelivers` the invariant needs `WaitsOnOwnHead`: a thread that reaps for itself
has published its head before it waits, and reaps nothing until it returns, so
what the kernel compares with is what the caller has seen. A `Submitter` of a
split ring has no such head, and the property does not cover it (section 7).
For `WaitIsCovered`, `WaitInv` says that a thread waits for no more than is
outstanding and left entries in the queue only behind the valve: while the caller
of a whole ring waits it pushes and reaps nothing. `Conservation` does the rest:
with an empty queue what is outstanding is in flight or posted.

**Owned requests.** `NoAliasing` needs the whole chain: identities are given out
once (`IdsFresh`, `IdsUnique`), storage that a ticket shares with a request
identifies that request (`TicketOfRequest`), and a receipt or an unreaped terminal
completion means that no request of its identity is left (`ReceiptIsProof`). Then
redeeming a matching receipt returns storage that no request can reach.
`ReceiptsKept` looks the other way: what `Redeemable` names moves from the kernel to
the completion queue to a receipt, and the one step that takes a receipt out of
that chain without its ticket is the application's own drop. It needs `IdsUnique`:
no other ticket can use the receipt up.

**Pools.** The slots between head and local tail are described by position, as
`At(i)` for `i` up to `Count`, and `PoolInv` says that these buffers, the held ones
and the leaked ones share out the pool: no buffer twice, none missing. Then a
buffer that returns leaves `Count` below the pool's size, so the slot at the local
tail is one the kernel has read. Two facts of arithmetic carry this over the
wraps: the remainder of a position by the pool's size is unchanged when the
position is first reduced by the tail's range, because the sizes divide; and two
distances smaller than the size have different slots. `Visible <= Count` says that
the kernel never sees past what was provided. `Init \/ PoolInv` is needed because
an unregistered pool has no slots.

**Multishot.** `MultishotInv` adds to `PoolInv` where every delivered buffer is:
in one unread completion, in the `Arrival`, in the application's hands or in the
ledger, and in no two of them. Appending and reaping a completion are each a
lemma on what `InCq` becomes. `record` then claims a buffer that is held and owned
by nobody else, which is the pool's own guard for a claim: every step of
`Multishot` is a step of `ProvidedBuffers` or leaves the pool alone.

**Lifetime.** `LifetimeInv` has two phases. During setup nobody owns anything and
the guard holds exactly the first steps that were taken, so that unwinding frees
those. After it, the count equals the number of owners that hold a reference; as
long as there is one the ring is whole and nobody cleans up, so only the owner
whose `fetch_sub` finds 1 gets the cleanup list, and what is on the list is still
mapped, each entry once. `NothingFreedTwice` bounds what is released from one side;
`MappedIsHeld` does so from the other: what is mapped is what is still to be
released, region by region. With nobody left and the list empty that is nothing,
which is `NothingLeaked`. `RingFits` is arithmetic over each layout: what the
library maps or predicts (rounded up to a power of two, clamped, page-aligned)
against what the kernel settles on. It needs to know that the kernel accepted
the request, which `SetupWasPossible` keeps through the steps of setup: the limits
bound the numbers of entries, without which the sizes say nothing.

**Synchronous calls.** `ResultIsOwn` rests on tags: `RunOneInv` says that the request
of call *n* carries tag *n - 1*, that a request is in one place (`Placed`: queue,
kernel or completion queue, once), and that only requests pushed so far are
anywhere. A completion with the current call's tag is then its own, and having
been drained it is in none of those places, which is `ResultEndsBorrow`.
`StrayReported` is inductive by itself. So is `NeverStranded` once the queues are known
to be sequences: a drained completion either ends the call or was not its own.

**Slots.** `PictureExact` says nothing about slots with an unreaped completion, so it
cannot survive the reaping. `SlotInv` adds that a ticket describes what its request
asks of the kernel (`Describes`), that what a ticket makes of its completion is
what the request changed (`TicketsTell`), and that the last unreaped completion
which changed a slot says what is in it (`LastTells`). The arithmetic is in the
encoding: `Raw` and the kernel's reading of it are inverse over every slot
`SlotIndex::new` accepts, and meet neither sentinel.

**Staged requests.** `StagedInv` treats a request by itself, its storage, its memory
and its descriptors apart, and the proof has one lemma per action for each.
`Sound` says where a request stands in its life, that only its last completion is
terminal and, for every unreaped terminal completion, that the accessors will
report what happened; a zero-copy send needs `ZeroCopyProgress`, the exact state of
its two completions. `HeldInv` is ownership: an active request's storage is its
own, or leaked if its ticket was dropped while the kernel was at work, and no two
requests share any. With it `MemoryInv` is kept by every step of another request:
what was staged stays until the kernel has read it, and the answer until the
accessors have shown it. `PathsInv` keeps an `OwnedPath`'s terminator where it was
found, which bounds the kernel's scan. `DescriptorInv` shares out the open
descriptors among objects, waiting completions and those that were lost. That the
entry of each of the 27 kinds stays inside its storage and what each outcome reads
are lemmas about `Sqe`, `Shown` and `Outcome`, one per group of kinds.

**Staged requests lend.** `StagedRefinesLending` maps the storage of pending and
dropped requests to what is out of the caller's hands, and that of requests in
the kernel to what the kernel may touch. A push lends, each completion that ends
a request finishes, a cancellation finishes several at once, redeeming gives back,
and everything else (constructors, `into_parts`, paths, events, records of a first
completion) stutters. `HeldInv` makes the lending fresh, and `Sound` that a redeemed
request has left the kernel.

### Only model-checked

Liveness (`EventuallyReaped`, `PublishedConsumed`, `StorageComesBack`,
`KeepsDelivering`, `AllReleased`, `CallReturns`) and anything with `ENABLED` is out
of the prover's reach, as are induction over data and `RECURSIVE` operators (this
project has none). Every invariant and every other action property of a passing
run has a theorem. Of some of the liveness properties the part that is safety is
proved: a call of `CallReturns` waits only for what is on its way (`NeverStranded`),
what is pushed is always somewhere it can be reaped from and no wait asks for more
(`Conservation`, `WaitIsCovered`, for `EventuallyReaped`), storage keeps the receipt
that brings it back (`ReceiptsKept`, for `StorageComesBack`), and what is still held
has somebody to release it (`MappedIsHeld`, for `AllReleased`). That the steps in
between are taken is the fairness of section 3, and TLC's. The inductive invariants that no run lists (`RingInv`,
`RunOneInv`, `SlotInv`, `SetupWasPossible`, `StagedInv`, `MultishotInv`,
`LifetimeInv`), and the statements that only a theorem makes (`WaitIsCovered`,
`NeverStranded`, `ReceiptsKept`, `MappedIsHeld`, `NothingLeaked`, and `ImplementsLending`
of `StagedRequests`), were checked by TLC on the same instances before they were
proved.
What the violation runs show is about particular behaviours, and has no proof.

## 5. What the properties say

- `SqInv`, `CqInv`, `NoOverwrite`, `NoCqeOverwrite`, `SqImplementsFifo`,
  `CqImplementsFifo`: wrapping queues with stale views on either side behave as
  queues.
- `SubmittedTracksHead`: after partial and failed submissions the library's
  account of what the kernel consumed is exact.
- `Conservation`: every request is queued, in the kernel, posted or reaped, once.
- `WaitDelivers`: a wait that is not interrupted delivers completions the caller
  had not seen. `EventuallyReaped`: nothing is stranded.
- `WakeupInv`, `PublishedConsumed`: a sleeping poller is woken. `ImplementsQueue`:
  the separate steps of `submit_sqpoll` add nothing to what a queue may do.
- `OwnedInv`, `NoAliasing`, `ImplementsLending`, `StorageComesBack`: the owned API
  keeps memory away from the caller for exactly as long as the kernel may use it.
- `NoDoubleProvide`, `EveryBufferAccounted`: a buffer is never offered to the kernel
  twice or while the application reads it, and none disappears.
- `DeliveryHasOneOwner`, `ArmedOrTold`, `ImplementsPool`, `KeepsDelivering`:
  multishot tickets neither lose nor duplicate a buffer, never wait on a request
  that has ended, use the pool by its rules, and keep receiving.
- `OwnersReachRing`, `NothingFreedTwice`, `RegisteredPoolsMapped`, `AllReleased`:
  lifetimes. `RingFits`: the library stays inside the ring's memory, and the kernel
  inside what was predicted for it.
- `ResultIsOwn`, `StrayReported`, `ResultEndsBorrow`, `CallReturns`: `do_*` calls.
- `PictureExact`, `ArmedIsArmed`: the slot table.
- `KernelStaysInside`, `KernelReadsWhatWasAsked`, `ExposedIsThisRequests`,
  `OutcomeIsWhatHappened`, `DescriptorsOwnedOnce`: requests over shared memory.

Every property has a mutant in PROJECT.json: a plausible mistake in one
definition that makes TLC find the property violated. Types of the variables are
part of the inductive invariants (`SqInv`, `CqInv`, `WakeupInv`, `OwnedInv`,
`PoolInv`, `MultishotInv`, `LifetimeInv`, `RingInv`, `SlotInv`) and of `TypeOK` of
`StagedRequests`.

## 6. Disagreements with a run

1. **`sqpoll_weak`** (`ring/mod.rs:970`). `submit_sqpoll` stores the tail with
   Release and loads the flags with Acquire, with no full fence between. Where
   the load may overtake the store, the poller can go to sleep without seeing the
   entry and the submitter without seeing `NEED_WAKEUP`; the entry stays
   unconsumed until another call. The same protocol with the load in its place is
   proved correct.
2. **`bp_partial`** (`ring/mod.rs:942`). When the valve is open and the first enter
   consumes a part of the queue, the second waits with `to_submit` 0. If
   `min_complete` needs the entries that were left, it never returns. Without the
   valve the kernel would return the short count.
3. **`run_one_borrow`** (`ring/ops.rs:77`). `run_one` returns early when
   `submit_and_wait` fails and when no completion is found, with its entry still
   queued or in flight; the SAFETY comments say that the kernel is done with
   the buffer. `ResultEndsBorrow` shows that the other returns are as the
   comments say.
4. **`pool_incremental`** (`owned/multishot.rs:344`). A multishot ticket on a pool of
   `register_incremental_buffers` makes an `Arrival` of every completion with a
   buffer, and the `Arrival` recycles the buffer when dropped. `BUF_MORE` is not
   looked at, so a buffer the kernel is still filling is provided a second time.
   The pool's doc (`ring/pbuf.rs:292`) says not to recycle it. Driven by hand,
   by that rule, incremental pools pass all checks of `pool`.

## 7. Disagreements noted while reading, without a run

- `Submitter::submit_and_wait` waits on the head that the `Completer` last
  published, so completions that were reaped but not published satisfy it
  (`ring/mod.rs:380`; its doc at 373 promises `min_complete` completions).
- The valve's test cannot hold on a completion ring of one or two entries
  (`ring/mod.rs:929`, doc at 900).
- Entries pushed through `OwnedSubmitter::raw`, resource tags and messages from
  another ring share the completion queue, and `reap_event` makes a receipt from
  each of them, whatever its `user_data` (`owned/queue.rs:1065`; compare
  `owned/mod.rs:29`). `OwnedRequests` assumes that the application keeps these
  values apart from the identities, which count from 1.
- After `acknowledge` a delivery can be returned both by `recycle` and by its
  token (`ring/pbuf.rs:694`; doc at 619).
- A pool's destructor unregisters its group id even if another pool has been
  registered under it since (`ring/pbuf.rs:965`, doc at 1044).
- `buffer_mut` allows the buffer value to be replaced after its address was taken
  (`owned/request.rs:141`, and its siblings).
- `TableEntry` names the clear sentinel, but an installed descriptor of -1 is
  encoded the same way (`owned/filesupdate.rs:50`).
- `Count::Completions(0)` is encoded as a pure timer (`owned/timeout.rs:96`).
- `update_registered_files` drops the count the kernel returns (`ring/register.rs:114`),
  so a partly applied update looks like a complete one; its doc (line 98) says
  that "`fds` replaces `fds.len()` slots". In `SlotTable` the application's picture
  follows what `Ok` proves, the first entry.
- `predict_entries` is documented as "Deliberately never fails", but
  `next_power_of_two` overflows for more than 2^31 entries without `CLAMP`, which
  panics in a debug build (`ring/no_mmap.rs:46`).
- `CancelOutcome::is_applied` is documented as "Whether the request found and
  cancelled something", but is true of `Applied(0)` of a cancellation with `ALL`,
  which found nothing (`types/cancel.rs:86`; the variant's own doc allows it).
- A `DirectSlot` carries no ring identity, so it can be named in a request on a
  ring with another table (`owned/fixedfdinstall.rs:62`).

## 8. Not modelled

- `syscall/`, `types/` and, but for the reading of a result's sign, `error.rs`:
  stubs, layouts and names. What the kernel does is in the external definitions.
  `RecvmsgOut::parse` (`types/net.rs`) slices one buffer with checked arithmetic and
  has no state; its boundaries are what its unit tests enumerate.
- `op/`: builders assign fields. The ones behind owned requests are modelled by
  the entry they make; the others, cancellation by opcode among them, carry no
  state.
- `ring/register.rs`, `ring/rsrc_tags.rs` but for the file table, `ring/probe.rs`,
  `ring/builder.rs`: one system call each, or a collection of flags. A ring that
  starts disabled refuses its enters, which `ring` and `run_one` allow for as
  errors of the call.
- `fs.rs`, `net.rs`, `eventfd.rs`, `inotify.rs`: wrappers over one descriptor.
- The bytes of buffers; what a raw entry does to memory; the replacement of a
  buffer value through `buffer_mut`; two ways of returning one delivery of a pool;
  slots used on another ring. Each of these is a rule the crate leaves to its
  caller; the models keep to the rule.

## 9. Possible extensions

- Proofs that an accepted constructor stages disjoint parts inside its storage
  for all sizes (over `Staging` and the kinds), and that `PictureExact` holds for
  every table and word.
- `RingFits` for every number of entries; it needs powers of two, hence induction.
- A second ring in `SlotTable`.
