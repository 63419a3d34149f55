-------------------------- MODULE ProvidedBuffers --------------------------
(***************************************************************************)
(* A provided-buffer ring (ProvidedBufferRing, and BufferConsumer once it  *)
(* is split): a pool of buffers the kernel picks from, and the three ways  *)
(* the application has of returning one: recycle, the CompletedBuffer      *)
(* lease (Arrival is the same for multishot requests), and the             *)
(* acknowledgement ledger with its tokens.                                 *)
(*                                                                         *)
(* The pool publishes a 16-bit tail truncated from a 32-bit local one; the *)
(* kernel keeps a 16-bit head.  Modulus stands for 2^32, TailModulus for   *)
(* 2^16 and MaxEntries for MAX_PBUF_RING_ENTRIES.  The application returns *)
(* each delivery one way, as the docs ask.  What fills the buffers, and    *)
(* pools that the kernel consumes a part of a buffer at a time, are in     *)
(* Multishot.                                                              *)
(***************************************************************************)
EXTENDS WrappingIndex, FiniteSets, Sequences, Functions

CONSTANTS
  TailModulus, MaxEntries,
  Counts  \* the buffer counts a caller may ask for

ASSUME PoolAssumption ==
  /\ TailModulus \in Nat \ {0} /\ MaxEntries \in Nat
  /\ 2 * MaxEntries <= TailModulus
  /\ \E laps \in 1 .. Modulus : Modulus = TailModulus * laps
  /\ Counts \subseteq Nat

VARIABLES
  entries,     \* 0 until registered
  bring,       \* producer ring: slot -> buffer id
  tail_local,  \* next producer position
  tail,        \* published tail
  head,        \* the kernel's head
  held,        \* ids delivered by a completion and not returned
  delivered,   \* the ledger: ids acknowledged and not returned by token
  tokens,      \* AcknowledgedBuffer values the application holds
  lease,       \* the id of the live CompletedBuffer or Arrival, if there is one
  leaked       \* ids whose lease was forgotten

vars == <<entries, bring, tail_local, tail, head, held, delivered, tokens, lease, leaked>>

Init ==
  /\ entries = 0 /\ bring = << >>
  /\ tail_local = 0 /\ tail = 0 /\ head = 0
  /\ held = {} /\ delivered = {} /\ tokens = {} /\ lease = {} /\ leaked = {}

\* The buffer ids from the kernel's head to the local tail.
Provided ==
  [i \in 1 .. ((tail_local % TailModulus) + TailModulus - head) % TailModulus |->
     bring[(head + i - 1) % entries]]

\* What the kernel sees of it.
Visible == ((tail + TailModulus) - head) % TailModulus

-----------------------------------------------------------------------------
\* Registration.

PowerOfTwo(count) == \E k \in 0 .. 16 : count = 2^k

ValidCount(count) == count # 0 /\ PowerOfTwo(count) /\ count <= MaxEntries

\* A pool that is accepted goes a whole number of times into the tail's range.
ASSUME CountAssumption ==
  \A count \in Counts : ValidCount(count) =>
    \E laps \in 1 .. TailModulus : TailModulus = count * laps

\* register_provided_buffers_on: every buffer is provided, then committed.
Register(count) ==
  /\ entries = 0
  /\ ValidCount(count)
  /\ entries' = count
  /\ bring' = [slot \in 0 .. count - 1 |-> slot]
  /\ tail_local' = WrappingAdd(tail_local, count)
  /\ tail' = tail_local' % TailModulus
  /\ UNCHANGED <<head, held, delivered, tokens, lease, leaked>>

-----------------------------------------------------------------------------
\* Returning buffers.

\* No other call can be made on a pool while a lease borrows it.
Free == entries # 0 /\ lease = {}

\* mutant of RecycleRaw: the position is not masked to the ring
RecycleRawUnmasked(bid) ==
  /\ bring' = [bring EXCEPT ![(tail_local % TailModulus) % (2 * entries)] = bid]
  /\ tail_local' = WrappingAdd(tail_local, 1)

\* recycle_raw: the entry at the local tail.
RecycleRaw(bid) ==
  /\ bring' = [bring EXCEPT ![tail_local % entries] = bid]
  /\ tail_local' = WrappingAdd(tail_local, 1)

\* mutant of CommitTail: publishes one too many
CommitTailAhead == tail' = (tail_local' + 1) % TailModulus

\* commit, as the last step of a call.
CommitTail == tail' = tail_local' % TailModulus

\* recycle and recycle_and_commit, by hand: the application returns an id that
\* a completion named, that it has not returned and for which it took no token.
Recycle(bid, commit) ==
  /\ Free
  /\ bid \in held
  /\ bid \notin delivered
  /\ RecycleRaw(bid)
  /\ IF commit THEN CommitTail ELSE UNCHANGED tail
  /\ held' = held \ {bid}
  /\ UNCHANGED <<entries, head, delivered, tokens, lease, leaked>>

Commit ==
  /\ Free
  /\ UNCHANGED tail_local
  /\ CommitTail
  /\ UNCHANGED <<entries, bring, head, held, delivered, tokens, lease, leaked>>

\* A lease borrows the pool, whatever the state of the buffer.
Lease(bid) ==
  /\ Free
  /\ lease' = {bid}
  /\ UNCHANGED <<entries, bring, tail_local, tail, head, held, delivered, tokens, leaked>>

\* claim, of an id that a completion named.
Claim(bid) ==
  /\ bid \in held
  /\ bid \notin delivered
  /\ Lease(bid)

\* Dropping the lease: recycle_and_commit.
DropLease ==
  /\ \E bid \in lease : RecycleRaw(bid)
  /\ CommitTail
  /\ lease' = {}
  /\ held' = held \ lease
  /\ UNCHANGED <<entries, head, delivered, tokens, leaked>>

\* A forgotten lease never returns its buffer.
ForgetLease ==
  /\ lease # {}
  /\ lease' = {}
  /\ leaked' = leaked \cup lease
  /\ held' = held \ lease
  /\ UNCHANGED <<entries, bring, tail_local, tail, head, delivered, tokens>>

\* acknowledge: an id already in the ledger is refused.
Acknowledge(bid) ==
  /\ Free
  /\ bid \in held
  /\ bid \notin delivered
  /\ delivered' = delivered \cup {bid}
  /\ tokens' = tokens \cup {bid}
  /\ UNCHANGED <<entries, bring, tail_local, tail, head, held, lease, leaked>>

\* recycle_acknowledged and recycle_acknowledged_and_commit
RecycleAcknowledged(token, commit) ==
  /\ Free
  /\ token \in tokens
  /\ tokens' = tokens \ {token}
  /\ delivered' = delivered \ {token}
  /\ RecycleRaw(token)
  /\ IF commit THEN CommitTail ELSE UNCHANGED tail
  /\ held' = held \ {token}
  /\ UNCHANGED <<entries, head, lease, leaked>>

\* A dropped token leaves its id in the ledger.
DropToken(token) ==
  /\ token \in tokens
  /\ tokens' = tokens \ {token}
  /\ UNCHANGED <<entries, bring, tail_local, tail, head, held, delivered, lease, leaked>>

-----------------------------------------------------------------------------
\* The kernel takes the buffer at its head, and tells the application which.

Deliver ==
  /\ Visible # 0
  /\ held' = held \cup {bring[head % entries]}
  /\ head' = (head + 1) % TailModulus
  /\ UNCHANGED <<entries, bring, tail_local, tail, delivered, tokens, lease, leaked>>

-----------------------------------------------------------------------------

Next ==
  \/ \E count \in Counts : Register(count)
  \/ \E bid \in held, commit \in BOOLEAN : Recycle(bid, commit)
  \/ Commit
  \/ \E bid \in held : Claim(bid)
  \/ DropLease
  \/ ForgetLease
  \/ \E bid \in held : Acknowledge(bid)
  \/ \E token \in tokens, commit \in BOOLEAN : RecycleAcknowledged(token, commit)
  \/ \E token \in tokens : DropToken(token)
  \/ Deliver

Spec == Init /\ [][Next]_vars

-----------------------------------------------------------------------------

Buffer == 0 .. entries - 1

\* No buffer is offered to the kernel twice, or offered while the application
\* still reads it: whichever of recycle, leases and tokens it uses.
NoDoubleProvide ==
  /\ IsInjective(Provided)
  /\ \A i \in DOMAIN Provided : Provided[i] \notin held

\* Every buffer is accounted for: with the kernel, with the application, or
\* behind a forgotten lease.  The 16-bit tail and head, which wrap at other
\* times than the 32-bit position, never make the pool look emptier or fuller
\* than it is.
EveryBufferAccounted ==
  /\ Buffer = Range(Provided) \cup held \cup leaked
  /\ Visible <= Len(Provided)

\* How many buffers are provided, and the i-th of them.
Count == ((tail_local % TailModulus) + TailModulus - head) % TailModulus
At(i) == bring[(head + i - 1) % entries]

\* The inductive form: the provided, held and leaked buffers share out the pool
\* and a lease is one of the held.  So a buffer that returns finds a free slot.
PoolInv ==
  /\ entries \in Counts /\ ValidCount(entries)
  /\ bring \in [0 .. entries - 1 -> Buffer]
  /\ tail_local \in Index
  /\ tail \in 0 .. TailModulus - 1 /\ head \in 0 .. TailModulus - 1
  /\ held \subseteq Buffer /\ leaked \subseteq Buffer
  /\ held \cap leaked = {}
  /\ Visible <= Count /\ Count <= entries
  /\ \A i, j \in 1 .. Count : At(i) = At(j) => i = j
  /\ \A i \in 1 .. Count : At(i) \notin held \cup leaked
  /\ \A bid \in Buffer \ (held \cup leaked) : \E i \in 1 .. Count : At(i) = bid
  /\ tokens \subseteq delivered /\ delivered \subseteq held
  /\ lease \subseteq held \ delivered
  /\ \A a, b \in lease : a = b

\* A token stands for a delivery that is still out, and the ledger refuses an
\* id only while its delivery is.
LedgerMatchesDeliveries == tokens \subseteq delivered /\ delivered \subseteq held

=============================================================================
