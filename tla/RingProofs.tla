----------------------------- MODULE RingProofs -----------------------------
(***************************************************************************)
(* Proofs about a ring's queues and their compositions: SubmissionQueue    *)
(* and CompletionQueue for every capacity, every modulus it divides and    *)
(* every set of entries; SqPoll on a processor that carries out a load     *)
(* after the stores before it; and Ring, for every number of requests.     *)
(* They rest on SlotsDistinct: as long as the capacity divides the         *)
(* modulus, two indices less than one capacity apart never fall into the   *)
(* same slot, wherever the counters wrap.                                  *)
(***************************************************************************)
EXTENDS Ring, SqPoll, TLAPS

-----------------------------------------------------------------------------
\* Remainders.

\* What division with remainder is.
LEMMA DivMod ==
  ASSUME NEW n \in Nat \ {0}, NEW x \in Int
  PROVE  /\ x % n \in 0 .. n - 1
         /\ x \div n \in Int
         /\ x = n * (x \div n) + (x % n)
OBVIOUS

\* Multiples of n are at least n apart.
LEMMA MultiplesApart ==
  ASSUME NEW n \in Nat \ {0}, NEW a \in Int, NEW b \in Int, a < b
  PROVE  n * a + n <= n * b
<1>1. n * (a + 1) <= n * b
  OBVIOUS
<1> QED
  BY <1>1

\* The remainder is unique.
LEMMA RemainderUnique ==
  ASSUME NEW n \in Nat \ {0}, NEW q \in Int, NEW r \in 0 .. n - 1
  PROVE  (n * q + r) % n = r
<1> DEFINE x == n * q + r
           p == x \div n
           s == x % n
<1>1. x \in Int
  OBVIOUS
<1>2. p \in Int /\ s \in 0 .. n - 1 /\ x = n * p + s
  BY <1>1, DivMod
<1> HIDE DEF p, s
<1>3. ~(p < q)
  <2> SUFFICES ASSUME p < q PROVE FALSE
    OBVIOUS
  <2>1. n * p + n <= n * q
    BY MultiplesApart, <1>2
  <2> QED
    BY <2>1, <1>2
<1>4. ~(q < p)
  <2> SUFFICES ASSUME q < p PROVE FALSE
    OBVIOUS
  <2>1. n * q + n <= n * p
    BY MultiplesApart, <1>2
  <2> QED
    BY <2>1, <1>2
<1>5. p = q
  BY <1>2, <1>3, <1>4
<1>6. s = r
  BY <1>2, <1>5
<1> QED
  BY <1>6 DEF s

\* Adding less than n to a number moves its remainder by that much, or wraps.
LEMMA RemainderPlus ==
  ASSUME NEW n \in Nat \ {0}, NEW x \in Nat, NEW d \in 0 .. n - 1
  PROVE  (x + d) % n = IF (x % n) + d < n THEN (x % n) + d ELSE (x % n) + d - n
<1> DEFINE p == x \div n
           s == x % n
<1>1. p \in Int /\ s \in 0 .. n - 1 /\ x = n * p + s
  BY DivMod
<1> HIDE DEF p, s
<1>2. CASE s + d < n
  <2>1. (n * p + (s + d)) % n = s + d
    BY <1>1, <1>2, RemainderUnique
  <2> QED
    BY <2>1, <1>1, <1>2 DEF s
<1>3. CASE s + d >= n
  <2>1. p + 1 \in Int /\ s + d - n \in 0 .. n - 1
    BY <1>1, <1>3
  <2>2. (n * (p + 1) + (s + d - n)) % n = s + d - n
    BY <2>1, RemainderUnique, ZenonT(30)
  <2>3. n * (p + 1) + (s + d - n) = x + d
    BY <1>1
  <2> QED
    BY <2>2, <2>3, <1>1, <1>3 DEF s
<1> QED
  BY <1>1, <1>2, <1>3

\* Subtracting a multiple of n leaves the remainder alone.
LEMMA RemainderMinusMultiple ==
  ASSUME NEW n \in Nat \ {0}, NEW k \in Int, NEW x \in Int, NEW m \in Int, m = n * k
  PROVE  (x - m) % n = x % n
<1> DEFINE p == x \div n
           s == x % n
<1>1. p \in Int /\ s \in 0 .. n - 1 /\ x = n * p + s
  BY DivMod
<1> HIDE DEF p, s
<1>2. p - k \in Int
  BY <1>1
<1>3. (n * (p - k) + s) % n = s
  BY <1>1, <1>2, RemainderUnique
<1>4. n * (p - k) + s = x - m
  BY <1>1
<1> QED
  BY <1>3, <1>4 DEF s

-----------------------------------------------------------------------------
\* Wrapping indices.

\* wrapping_add, without the remainder.
LEMMA WrappingAddValue ==
  ASSUME Modulus \in Nat \ {0}, NEW a \in Index, NEW d \in 0 .. Modulus
  PROVE  /\ WrappingAdd(a, d) \in Index
         /\ WrappingAdd(a, d) = IF a + d < Modulus THEN a + d ELSE a + d - Modulus
BY DEF WrappingAdd, Index

\* wrapping_sub, without the remainder.
LEMMA WrappingSubValue ==
  ASSUME Modulus \in Nat \ {0}, NEW a \in Index, NEW b \in Index
  PROVE  /\ WrappingSub(a, b) \in Index
         /\ WrappingSub(a, b) = IF a >= b THEN a - b ELSE a - b + Modulus
BY DEF WrappingSub, Index

\* Moving the tail forward widens the window by as much.
LEMMA TailForward ==
  ASSUME Modulus \in Nat \ {0}, NEW tail \in Index, NEW head \in Index, NEW n \in Nat,
         WrappingSub(tail, head) + n < Modulus
  PROVE  /\ WrappingAdd(tail, n) \in Index
         /\ WrappingSub(WrappingAdd(tail, n), head) = WrappingSub(tail, head) + n
BY DEF WrappingAdd, WrappingSub, Index

\* The step that `push` and the kernel's posting take: one index forward.
LEMMA TailForwardOne ==
  ASSUME Modulus \in Nat \ {0}, NEW tail \in Index, NEW head \in Index,
         WrappingSub(tail, head) + 1 < Modulus
  PROVE  /\ WrappingAdd(tail, 1) \in Index
         /\ WrappingSub(WrappingAdd(tail, 1), head) = WrappingSub(tail, head) + 1
BY TailForward

\* Moving the head forward inside the window narrows it by as much.
LEMMA HeadForward ==
  ASSUME Modulus \in Nat \ {0}, NEW tail \in Index, NEW head \in Index, NEW n \in Nat,
         n <= WrappingSub(tail, head)
  PROVE  /\ WrappingAdd(head, n) \in Index
         /\ WrappingSub(tail, WrappingAdd(head, n)) = WrappingSub(tail, head) - n
BY DEF WrappingAdd, WrappingSub, Index

\* The window starts at its head and ends at its tail.
LEMMA WindowEnds ==
  ASSUME Modulus \in Nat \ {0}, NEW tail \in Index, NEW head \in Index
  PROVE  /\ WrappingAdd(head, WrappingSub(tail, head)) = tail
         /\ WrappingSub(head, head) = 0
         /\ WrappingSub(tail, head) \in Nat
         /\ WrappingSub(tail, head) < Modulus
         /\ WrappingSub(tail, head) = 0 => tail = head
BY DEF WrappingAdd, WrappingSub, Index

\* Offsets add up.
LEMMA OffsetsAdd ==
  ASSUME Modulus \in Nat \ {0}, NEW head \in Index, NEW m \in Nat, NEW n \in Nat, m + n < Modulus
  PROVE  WrappingAdd(WrappingAdd(head, m), n) = WrappingAdd(head, m + n)
BY DEF WrappingAdd, Index

\* Wrapping an index around does not change its slot.
LEMMA RemainderWrap ==
  ASSUME NEW cap \in Nat \ {0}, CapacityDivides(cap), Modulus \in Nat \ {0}, NEW x \in Int
  PROVE  (x - Modulus) % cap = x % cap
<1>1. PICK laps \in 1 .. Modulus : Modulus = cap * laps
  BY DEF CapacityDivides
<1>2. laps \in Int /\ Modulus \in Int
  OBVIOUS
<1> QED
  BY <1>1, <1>2, RemainderMinusMultiple, ZenonT(40)

\* The slot of an index less than one capacity further on, whether or not the
\* index wrapped on the way.
LEMMA SlotOfSum ==
  ASSUME NEW cap \in Nat \ {0}, CapacityDivides(cap), Modulus \in Nat \ {0}, cap <= Modulus,
         NEW a \in Index, NEW d \in 0 .. cap - 1
  PROVE  Slot(WrappingAdd(a, d), cap) = (a + d) % cap
<1> DEFINE x == a + d
<1>1. a \in Int /\ d \in 0 .. Modulus /\ x \in Int
  BY DEF Index
<1>2. WrappingAdd(a, d) = x \/ WrappingAdd(a, d) = x - Modulus
  <2>1. WrappingAdd(a, d) = IF a + d < Modulus THEN a + d ELSE a + d - Modulus
    BY <1>1, WrappingAddValue
  <2> QED
    BY <1>1, <2>1
<1>3. (x - Modulus) % cap = x % cap
  BY <1>1, RemainderWrap
<1> HIDE DEF x
<1>4. Slot(WrappingAdd(a, d), cap) = x % cap
  BY <1>2, <1>3 DEF Slot
<1> QED
  BY <1>4 DEF x

\* Within one capacity of an index, different offsets are different slots.
LEMMA SlotsDistinct ==
  ASSUME NEW cap \in Nat \ {0}, CapacityDivides(cap), Modulus \in Nat \ {0}, cap <= Modulus,
         NEW a \in Index, NEW d \in 0 .. cap - 1, NEW e \in 0 .. cap - 1, d # e
  PROVE  Slot(WrappingAdd(a, d), cap) # Slot(WrappingAdd(a, e), cap)
<1>1. a \in Nat
  BY DEF Index
<1>2. /\ Slot(WrappingAdd(a, d), cap) = (a + d) % cap
      /\ Slot(WrappingAdd(a, e), cap) = (a + e) % cap
  BY SlotOfSum
<1>3. /\ (a + d) % cap = IF (a % cap) + d < cap THEN (a % cap) + d ELSE (a % cap) + d - cap
      /\ (a + e) % cap = IF (a % cap) + e < cap THEN (a % cap) + e ELSE (a % cap) + e - cap
  BY <1>1, RemainderPlus, ZenonT(30)
<1>4. a % cap \in 0 .. cap - 1
  BY <1>1, DivMod
<1> QED
  BY <1>2, <1>3, <1>4

\* Masking gives a slot of the array.
LEMMA SlotRange ==
  ASSUME NEW cap \in Nat \ {0}, NEW a \in Index
  PROVE  Slot(a, cap) \in 0 .. cap - 1
BY DEF Slot, Index

-----------------------------------------------------------------------------
\* Sequences.

\* Sequences of the same elements are the same.
LEMMA SameSequence ==
  ASSUME NEW S, NEW s \in Seq(S), NEW t \in Seq(S), Len(s) = Len(t),
         \A i \in 1 .. Len(s) : s[i] = t[i]
  PROVE  s = t
OBVIOUS

\* When a sequence is another one with an element behind it.
LEMMA IsAppend ==
  ASSUME NEW S, NEW s \in Seq(S), NEW t \in Seq(S), NEW e \in S,
         Len(t) = Len(s) + 1,
         \A i \in 1 .. Len(s) : t[i] = s[i],
         t[Len(s) + 1] = e
  PROVE  t = Append(s, e)
<1>1. /\ Append(s, e) \in Seq(S)
      /\ Len(Append(s, e)) = Len(t)
      /\ \A i \in 1 .. Len(s) : Append(s, e)[i] = s[i]
      /\ Append(s, e)[Len(s) + 1] = e
  OBVIOUS
<1>2. Len(s) \in Nat
  OBVIOUS
<1>3. \A i \in 1 .. Len(t) : t[i] = Append(s, e)[i]
  BY <1>1, <1>2
<1> QED
  BY <1>1, <1>3

\* When a sequence is what is left of another one after its first n elements.
LEMMA SuffixDrops ==
  ASSUME NEW S, NEW s \in Seq(S), NEW t \in Seq(S), NEW n \in 0 .. Len(s),
         Len(t) = Len(s) - n,
         \A i \in 1 .. Len(t) : t[i] = s[n + i]
  PROVE  t = SubSeq(s, n + 1, Len(s))
<1> DEFINE u == SubSeq(s, n + 1, Len(s))
<1>1. Len(s) \in Nat /\ n + 1 \in Int /\ \A i \in n + 1 .. Len(s) : s[i] \in S
  OBVIOUS
<1>2. /\ u \in Seq(S)
      /\ Len(u) = IF n + 1 <= Len(s) THEN Len(s) - (n + 1) + 1 ELSE 0
      /\ \A i \in 1 .. Len(s) - (n + 1) + 1 : u[i] = s[(n + 1) + i - 1]
  BY <1>1 DEF u
<1> HIDE DEF u
<1>3. Len(u) = Len(t)
  BY <1>1, <1>2
<1>4. \A i \in 1 .. Len(t) : t[i] = u[i]
  <2> SUFFICES ASSUME NEW i \in 1 .. Len(t) PROVE t[i] = u[i]
    OBVIOUS
  <2>1. n \in Int /\ i \in Int /\ 1 <= i /\ i <= Len(s) - n
    BY <1>1
  <2>2. i \in 1 .. Len(s) - (n + 1) + 1
    BY <1>1, <2>1
  <2>3. (n + 1) + i - 1 = n + i
    BY <2>1
  <2> QED
    BY <1>2, <2>2, <2>3
<1>5. t = u
  BY <1>2, <1>3, <1>4, SameSequence
<1> QED
  BY <1>5 DEF u

-----------------------------------------------------------------------------
\* The submission queue.

\* The constants in the form the arithmetic needs.
LEMMA SqConstants ==
  /\ Modulus \in Nat \ {0}
  /\ SqEntries \in Nat \ {0}
  /\ SqEntries + 1 < Modulus
  /\ CapacityDivides(SqEntries)
BY SqAssumption

\* The invariant holds in a fresh ring.
LEMMA SqInitInv == SqInit => SqInv
<1> SUFFICES ASSUME SqInit PROVE SqInv
  OBVIOUS
<1>1. SqTypeOK
  <2>1. 0 \in Index
    BY SqConstants DEF Index
  <2> QED
    BY <2>1, Zenon DEF SqInit, SqTypeOK
<1>2. WrappingSub(0, 0) = 0
  BY SqConstants, WrappingSubValue DEF Index
<1> QED
  BY <1>1, <1>2, SqConstants
     DEF SqInit, SqInv, SqWindow, SqTailPublished, SqLoadedHeadBehind, SubmittedTracksHead, Used

\* Every step of the submitting thread and of the kernel preserves it.
LEMMA SqStepInv == SqInv /\ [SqNext]_sqVars => SqInv'
<1> SUFFICES ASSUME SqInv, [SqNext]_sqVars PROVE SqInv'
  OBVIOUS
<1> USE SqConstants
<1>t. SqTypeOK /\ SqWindow /\ SqTailPublished /\ SqLoadedHeadBehind /\ SubmittedTracksHead
  BY DEF SqInv
<1>w. /\ sq_tail_local \in Index /\ sq_submitted \in Index /\ sq_tail \in Index
      /\ sq_head \in Index /\ loaded_head \in Index
      /\ Used \in Nat /\ WrappingSub(sq_tail, sq_head) \in Nat
      /\ WrappingSub(sq_tail_local, loaded_head) \in Nat
      /\ WrappingSub(sq_tail_local, sq_head) = Used
      /\ Used <= SqEntries /\ WrappingSub(sq_tail, sq_head) <= Used
      /\ WrappingSub(sq_head, sq_head) = 0
  BY <1>t, WindowEnds DEF SqTypeOK, SqWindow, SqTailPublished, Used
<1>1. CASE PushLoad
  BY <1>1, <1>t, <1>w
     DEF PushLoad, SqInv, SqTypeOK, SqWindow, SqTailPublished, SqLoadedHeadBehind,
         SubmittedTracksHead, Used
<1>2. CASE PushFull
  BY <1>2, <1>t, Zenon
     DEF PushFull, SqInv, SqTypeOK, SqWindow, SqTailPublished, SqLoadedHeadBehind,
         SubmittedTracksHead, Used
<1>3. ASSUME NEW sqe \in Sqe, PushStore(sqe) PROVE SqInv'
  <2>1. /\ WrappingSub(sq_tail_local, loaded_head) <= SqEntries
        /\ Used <= WrappingSub(sq_tail_local, loaded_head)
    BY <1>3, <1>t DEF PushStore, SqLoadedHeadBehind
  <2>2. /\ sq_tail_local' \in Index
        /\ WrappingSub(sq_tail_local', loaded_head) = WrappingSub(sq_tail_local, loaded_head) + 1
        /\ WrappingSub(sq_tail_local', sq_head) = Used + 1
    <3>1. /\ WrappingSub(sq_tail_local, loaded_head) + 1 < Modulus
          /\ WrappingSub(sq_tail_local, sq_head) + 1 < Modulus
      BY <1>w, <2>1
    <3>2. sq_tail_local' = WrappingAdd(sq_tail_local, 1)
      BY <1>3 DEF PushStore
    <3>i. sq_tail_local \in Index /\ sq_head \in Index /\ loaded_head \in Index
      BY <1>w
    <3>3. /\ sq_tail_local' \in Index
          /\ WrappingSub(sq_tail_local', loaded_head) = WrappingSub(sq_tail_local, loaded_head) + 1
      BY <3>i, <3>1, <3>2, TailForwardOne
    <3>4. WrappingSub(sq_tail_local', sq_head) = WrappingSub(sq_tail_local, sq_head) + 1
      BY <3>i, <3>1, <3>2, TailForwardOne
    <3> QED
      BY <1>w, <3>3, <3>4
  <2>3. WrappingSub(sq_tail_local', loaded_head) <= SqEntries
    BY <1>3, <1>w, <2>2 DEF PushStore, PushRejected
  <2>4. SqTypeOK'
    BY <1>3, <1>t, <2>2, Zenon DEF PushStore, SqTypeOK
  <2> QED
    BY <1>3, <1>t, <1>w, <2>1, <2>2, <2>3, <2>4
       DEF PushStore, SqInv, SqWindow, SqTailPublished, SqLoadedHeadBehind,
           SubmittedTracksHead, Used
<1>4. CASE FlushSqTail
  BY <1>4, <1>t, <1>w
     DEF FlushSqTail, SqInv, SqTypeOK, SqWindow, SqTailPublished, SqLoadedHeadBehind,
         SubmittedTracksHead, Used
<1>5. ASSUME NEW consumed \in 0 .. SqEntries, Submit(consumed) PROVE SqInv'
  <2>1. consumed <= Used /\ (Sqpoll => consumed = 0)
    BY <1>5, <1>w, SqAssumption DEF Submit, MayConsume
  <2>2. /\ sq_head' \in Index
        /\ WrappingSub(sq_tail_local, sq_head') = Used - consumed
    BY <1>5, <1>w, <2>1, HeadForward DEF Submit
  <2>3. ToSubmit \in 0 .. Modulus
    BY <1>w, WindowEnds DEF ToSubmit
  <2>4. sq_submitted' \in Index
    BY <1>5, <1>w, <2>3, WrappingAddValue DEF Submit
  <2>5. ~Sqpoll => sq_submitted' = sq_head'
    BY <1>5, <1>t DEF Submit, SubmittedTracksHead
  <2>6. SqTypeOK'
    BY <1>5, <1>t, <2>2, <2>4 DEF Submit, SqTypeOK
  <2> QED
    BY <1>5, <1>w, <2>1, <2>2, <2>5, <2>6
       DEF Submit, SqInv, SqWindow, SqTailPublished, SqLoadedHeadBehind,
           SubmittedTracksHead, Used
<1>6. CASE SubmitSqpoll
  BY <1>6, <1>t, <1>w
     DEF SubmitSqpoll, SqInv, SqTypeOK, SqWindow, SqTailPublished, SqLoadedHeadBehind,
         SubmittedTracksHead, Used
<1>7. CASE PollerConsume
  <2>1. 1 <= WrappingSub(sq_tail, sq_head)
    BY <1>7, <1>w, WindowEnds DEF PollerConsume
  <2>2. /\ sq_head' \in Index
        /\ WrappingSub(sq_tail, sq_head') = WrappingSub(sq_tail, sq_head) - 1
        /\ WrappingSub(sq_tail_local, sq_head') = Used - 1
    BY <1>7, <1>w, <2>1, HeadForward DEF PollerConsume
  <2>3. SqTypeOK'
    BY <1>7, <1>t, <2>2 DEF PollerConsume, SqTypeOK
  <2> QED
    BY <1>7, <1>t, <1>w, <2>1, <2>2, <2>3
       DEF PollerConsume, SqInv, SqWindow, SqTailPublished, SqLoadedHeadBehind,
           SubmittedTracksHead, Used
<1>8. CASE UNCHANGED sqVars
  BY <1>8, <1>t
     DEF sqVars, SqInv, SqTypeOK, SqWindow, SqTailPublished, SqLoadedHeadBehind,
         SubmittedTracksHead, Used
<1> QED
  BY <1>1, <1>2, <1>3, <1>4, <1>5, <1>6, <1>7, <1>8 DEF SqNext

\* The window invariant: in every reachable state of either kind of ring the
\* queue holds at most sq_mask + 1 entries, the kernel sees only filled slots,
\* and without SQPOLL sq_submitted is the kernel's head.
THEOREM SqInvariant == SqSpec => []SqInv
<1>1. SqInit => SqInv
  BY SqInitInv
<1>2. SqInv /\ [SqNext]_sqVars => SqInv'
  BY SqStepInv
<1> QED
  BY <1>1, <1>2, PTL DEF SqSpec

-----------------------------------------------------------------------------

\* When push stores, there is a free slot, and it is the one behind the last
\* queued entry.
LEMMA PushHasRoom ==
  ASSUME SqInv, NEW sqe \in Sqe, PushStore(sqe)
  PROVE  /\ Used \in 0 .. SqEntries - 1
         /\ sq_tail_local = WrappingAdd(sq_head, Used)
         /\ Used' = Used + 1
<1> USE SqConstants
<1>1. /\ sq_tail_local \in Index /\ sq_head \in Index /\ loaded_head \in Index
  BY DEF SqInv, SqTypeOK
<1>2. /\ Used \in Nat /\ WrappingSub(sq_tail_local, loaded_head) \in Nat
      /\ sq_tail_local = WrappingAdd(sq_head, Used)
  BY <1>1, WindowEnds DEF Used
<1>3. /\ WrappingSub(sq_tail_local, loaded_head) <= SqEntries
      /\ Used <= WrappingSub(sq_tail_local, loaded_head)
      /\ WrappingSub(WrappingAdd(sq_tail_local, 1), loaded_head) <= SqEntries
  <2>1. WrappingAdd(sq_tail_local, 1) \in Index
    BY <1>1, WrappingAddValue
  <2>2. WrappingSub(WrappingAdd(sq_tail_local, 1), loaded_head) \in Nat
    BY <1>1, <2>1, WindowEnds
  <2> QED
    BY <2>2 DEF SqInv, SqLoadedHeadBehind, PushStore, PushRejected
<1>4. WrappingSub(WrappingAdd(sq_tail_local, 1), loaded_head)
        = WrappingSub(sq_tail_local, loaded_head) + 1
  <2>1. WrappingSub(sq_tail_local, loaded_head) + 1 < Modulus
    BY <1>2, <1>3
  <2> QED
    BY <1>1, <2>1, TailForward
<1>5. WrappingSub(WrappingAdd(sq_tail_local, 1), sq_head) = WrappingSub(sq_tail_local, sq_head) + 1
  <2>1. WrappingSub(sq_tail_local, sq_head) + 1 < Modulus
    BY <1>2, <1>3 DEF Used
  <2> QED
    BY <1>1, <2>1, TailForward
<1>6. Used' = Used + 1
  BY <1>5 DEF PushStore, Used
<1> QED
  BY <1>2, <1>3, <1>4, <1>6

\* A push leaves every slot of the window alone.
LEMMA PushKeepsWindow ==
  ASSUME SqInv, NEW sqe \in Sqe, PushStore(sqe), NEW offset \in 0 .. SqEntries - 1, offset < Used
  PROVE  sqes'[SqSlot(WrappingAdd(sq_head, offset))] = sqes[SqSlot(WrappingAdd(sq_head, offset))]
<1> USE SqConstants
<1>1. sq_head \in Index /\ sqes \in [0 .. SqEntries - 1 -> Sqe \cup {NoSqe}]
  BY DEF SqInv, SqTypeOK
<1>2. Used \in 0 .. SqEntries - 1 /\ sq_tail_local = WrappingAdd(sq_head, Used)
  BY PushHasRoom
<1>3. SqSlot(WrappingAdd(sq_head, offset)) # SqSlot(WrappingAdd(sq_head, Used))
  <2>1. offset # Used /\ SqEntries <= Modulus
    BY <1>2
  <2> QED
    BY <1>1, <1>2, <2>1, SlotsDistinct, Zenon DEF SqSlot
<1>4. SqSlot(WrappingAdd(sq_head, offset)) \in 0 .. SqEntries - 1
  <2>1. WrappingAdd(sq_head, offset) \in Index
    BY <1>1, WrappingAddValue
  <2> QED
    BY <2>1, SlotRange DEF SqSlot
<1> QED
  BY <1>1, <1>2, <1>3, <1>4 DEF PushStore

\* No step of either side changes an entry that stays queued, for every
\* capacity: a push on a stale head still writes only a free slot.
THEOREM SqNoOverwrite == SqSpec => NoOverwrite
<1>1. ASSUME SqInv, SqNext PROVE QueuedEntryKept
  <2>1. ASSUME NEW sqe \in Sqe, PushStore(sqe) PROVE QueuedEntryKept
    <3>1. sq_head' = sq_head
      BY <2>1 DEF PushStore
    <3> QED
      BY <1>1, <2>1, <3>1, PushKeepsWindow DEF QueuedEntryKept, Used
  <2>2. CASE UNCHANGED sqes
    BY <2>2 DEF QueuedEntryKept
  <2> QED
    BY <1>1, <2>1, <2>2
       DEF SqNext, PushLoad, PushFull, FlushSqTail, Submit, SubmitSqpoll, PollerConsume
<1> QED
  BY <1>1, SqInvariant, PTL DEF NoOverwrite, SqSpec

-----------------------------------------------------------------------------

\* The queue's contents are a sequence no longer than the capacity.
LEMMA ContentsLength ==
  SqInv => /\ Used \in 0 .. SqEntries
           /\ SqContents \in Seq(Sqe \cup {NoSqe})
           /\ Len(SqContents) = Used
<1> SUFFICES ASSUME SqInv
             PROVE  /\ Used \in 0 .. SqEntries
                    /\ SqContents \in Seq(Sqe \cup {NoSqe})
                    /\ Len(SqContents) = Used
  OBVIOUS
<1> USE SqConstants
<1>1. sq_tail_local \in Index /\ sq_head \in Index /\ Used <= SqEntries
  BY DEF SqInv, SqTypeOK, SqWindow
<1>2. Used \in 0 .. SqEntries
  BY <1>1, WindowEnds DEF Used
<1>3. ASSUME NEW i \in 1 .. Used PROVE Queued(i - 1) \in Sqe \cup {NoSqe}
  <2>1. WrappingAdd(sq_head, i - 1) \in Index
    <3>1. i - 1 \in 0 .. Modulus
      BY <1>2
    <3> QED
      BY <1>1, <3>1, WrappingAddValue
  <2>2. SqSlot(WrappingAdd(sq_head, i - 1)) \in 0 .. SqEntries - 1
    BY <2>1, SlotRange DEF SqSlot
  <2> QED
    BY <2>2 DEF Queued, SqInv, SqTypeOK
<1> QED
  BY <1>2, <1>3 DEF SqContents

\* The same after a step.
LEMMA ContentsLengthNext ==
  ASSUME SqInv'
  PROVE  /\ Used' \in 0 .. SqEntries
         /\ SqContents' \in Seq(Sqe \cup {NoSqe})
         /\ Len(SqContents') = Used'
<1>1. (SqInv => /\ Used \in 0 .. SqEntries
                /\ SqContents \in Seq(Sqe \cup {NoSqe})
                /\ Len(SqContents) = Used)'
  BY ContentsLength, PTL
<1> QED
  BY <1>1

\* A push appends its entry.
LEMMA PushAppends ==
  ASSUME SqInv, SqInv', NEW sqe \in Sqe, PushStore(sqe)
  PROVE  SqContents' = Append(SqContents, sqe)
<1> USE SqConstants
<1>1. Used \in 0 .. SqEntries - 1 /\ sq_tail_local = WrappingAdd(sq_head, Used) /\ Used' = Used + 1
  BY PushHasRoom
<1>2. sq_head' = sq_head
  BY DEF PushStore
<1>3. ASSUME NEW i \in 1 .. Used PROVE SqContents'[i] = SqContents[i]
  <2>1. i - 1 \in 0 .. SqEntries - 1 /\ i - 1 < Used /\ i \in 1 .. Used'
    BY <1>1
  <2>2. Queued(i - 1)' = Queued(i - 1)
    BY <1>2, <2>1, PushKeepsWindow DEF Queued
  <2> QED
    BY <2>1, <2>2 DEF SqContents
<1>4. SqContents'[Used + 1] = sqe
  <2>1. sq_tail_local \in Index /\ sqes \in [0 .. SqEntries - 1 -> Sqe \cup {NoSqe}]
    BY DEF SqInv, SqTypeOK
  <2>2. SqSlot(sq_tail_local) \in 0 .. SqEntries - 1
    BY <2>1, SlotRange DEF SqSlot
  <2>3. sqes'[SqSlot(WrappingAdd(sq_head', Used))] = sqe
    BY <1>1, <1>2, <2>1, <2>2 DEF PushStore
  <2>4. Used + 1 \in 1 .. Used' /\ (Used + 1) - 1 = Used
    BY <1>1
  <2>5. SqContents'[Used + 1] = sqes'[SqSlot(WrappingAdd(sq_head', (Used + 1) - 1))]
    BY <2>4 DEF SqContents, Queued
  <2> QED
    BY <2>3, <2>4, <2>5
<1>5. /\ SqContents \in Seq(Sqe \cup {NoSqe}) /\ Len(SqContents) = Used
      /\ SqContents' \in Seq(Sqe \cup {NoSqe}) /\ Len(SqContents') = Used'
  BY ContentsLength, ContentsLengthNext
<1> QED
  BY <1>1, <1>3, <1>4, <1>5, IsAppend

\* Consuming n entries removes the n oldest.
LEMMA ConsumeDrops ==
  ASSUME SqInv, SqInv', NEW n \in 0 .. Used, sq_head' = WrappingAdd(sq_head, n),
         UNCHANGED <<sq_tail_local, sqes>>
  PROVE  /\ n <= Len(SqContents)
         /\ SqContents' = SubSeq(SqContents, n + 1, Len(SqContents))
<1> USE SqConstants
<1>1. /\ SqContents \in Seq(Sqe \cup {NoSqe}) /\ Len(SqContents) = Used
      /\ SqContents' \in Seq(Sqe \cup {NoSqe}) /\ Len(SqContents') = Used'
      /\ Used \in 0 .. SqEntries /\ Used' \in 0 .. SqEntries
  BY ContentsLength, ContentsLengthNext
<1>2. sq_tail_local \in Index /\ sq_head \in Index
  BY DEF SqInv, SqTypeOK
<1>3. Used' = Used - n
  BY <1>1, <1>2, HeadForward DEF Used
<1>4. ASSUME NEW i \in 1 .. Used' PROVE SqContents'[i] = SqContents[n + i]
  <2>1. n \in Nat /\ i - 1 \in Nat /\ n + (i - 1) < Modulus /\ n + i \in 1 .. Used
        /\ n + (i - 1) = (n + i) - 1
    BY <1>1, <1>3
  <2>2. WrappingAdd(sq_head', i - 1) = WrappingAdd(sq_head, (n + i) - 1)
    BY <1>2, <2>1, OffsetsAdd
  <2> QED
    BY <2>1, <2>2 DEF SqContents, Queued
<1>5. n \in 0 .. Len(SqContents)
  BY <1>1
<1> QED
  BY <1>1, <1>3, <1>4, <1>5, SuffixDrops

\* The ring implements a bounded FIFO queue: pushes append, the kernel takes
\* from the front, and no other step changes the contents, for every capacity.
THEOREM SqRefinesFifo == SqSpec => SqImplementsFifo
<1>1. SqInit => SqFifo!Init
  <2> SUFFICES ASSUME SqInit PROVE SqContents = << >>
    BY DEF SqFifo!Init
  <2>1. SqContents \in Seq(Sqe \cup {NoSqe}) /\ Len(SqContents) = Used
    BY SqInitInv, ContentsLength
  <2>2. Used = 0
    BY SqConstants, WrappingSubValue DEF SqInit, Used, Index
  <2> QED
    BY <2>1, <2>2
<1>2. SqInv /\ SqInv' /\ [SqNext]_sqVars => [SqFifo!Next]_SqContents
  <2> SUFFICES ASSUME SqInv, SqInv', [SqNext]_sqVars PROVE [SqFifo!Next]_SqContents
    OBVIOUS
  <2> USE SqConstants
  <2>0. Used \in 0 .. SqEntries /\ Len(SqContents) = Used
    BY ContentsLength
  <2>1. ASSUME NEW sqe \in Sqe, PushStore(sqe) PROVE SqFifo!Next
    <3>1. Len(SqContents) < SqEntries
      BY <2>0, <2>1, PushHasRoom
    <3> QED
      BY <2>1, <3>1, PushAppends DEF SqFifo!Next, SqFifo!Enqueue
  <2>2. ASSUME NEW n \in 0 .. Used, sq_head' = WrappingAdd(sq_head, n),
               UNCHANGED <<sq_tail_local, sqes>>
        PROVE  [SqFifo!Next]_SqContents
    <3>1. n <= Len(SqContents) /\ SqContents' = SubSeq(SqContents, n + 1, Len(SqContents))
      BY <2>2, ConsumeDrops
    <3>2. CASE n = 0
      <4>1. sq_head' = sq_head
        <5>1. sq_head \in Index
          BY DEF SqInv, SqTypeOK
        <5>2. WrappingAdd(sq_head, 0) = sq_head
          BY <5>1 DEF WrappingAdd, Index
        <5> QED
          BY <2>2, <3>2, <5>2
      <4> QED
        BY <2>2, <4>1 DEF SqContents, Queued, Used
    <3>3. CASE n # 0
      <4>1. n \in 1 .. SqEntries
        BY <2>0, <3>3
      <4> QED
        BY <3>1, <4>1 DEF SqFifo!Next, SqFifo!Dequeue
    <3> QED
      BY <3>2, <3>3
  <2>3. ASSUME NEW consumed \in 0 .. SqEntries, Submit(consumed)
        PROVE  [SqFifo!Next]_SqContents
    <3>1. consumed \in 0 .. Used
      BY <2>0, <2>3 DEF Submit, MayConsume, Used
    <3> QED
      BY <2>2, <2>3, <3>1 DEF Submit
  <2>4. CASE PollerConsume
    <3>1. 1 \in 0 .. Used
      <4>1. sq_tail \in Index /\ sq_head \in Index /\ sq_head # sq_tail
            /\ WrappingSub(sq_tail, sq_head) <= Used
        BY <2>4 DEF PollerConsume, SqInv, SqTypeOK, SqTailPublished
      <4>2. WrappingSub(sq_tail, sq_head) \in Nat /\ WrappingSub(sq_tail, sq_head) # 0
        BY <4>1, WindowEnds
      <4> QED
        BY <2>0, <4>1, <4>2
    <3> QED
      BY <2>2, <2>4, <3>1 DEF PollerConsume
  <2>5. CASE UNCHANGED <<sq_tail_local, sq_head, sqes>>
    BY <2>5 DEF SqContents, Queued, Used
  <2> QED
    BY <2>1, <2>3, <2>4, <2>5
       DEF SqNext, sqVars, PushLoad, PushFull, FlushSqTail, SubmitSqpoll
<1> QED
  BY <1>1, <1>2, SqInvariant, PTL DEF SqSpec, SqImplementsFifo, SqFifo!Spec

-----------------------------------------------------------------------------
\* The completion queue.

\* The constants in the form the arithmetic needs.
LEMMA CqConstants ==
  /\ Modulus \in Nat \ {0}
  /\ CqEntries \in Nat \ {0}
  /\ MaxBacklog \in Nat
  /\ CqEntries + 1 < Modulus
  /\ CqEntries <= Modulus
  /\ CapacityDivides(CqEntries)
BY CqAssumption

\* The invariant holds in a fresh ring.
LEMMA CqInitInv == CqInit => CqInv
<1> SUFFICES ASSUME CqInit PROVE CqInv
  OBVIOUS
<1>1. CqTypeOK
  <2>1. 0 \in Index
    BY CqConstants DEF Index
  <2> QED
    BY <2>1, CqConstants DEF CqInit, CqTypeOK
<1>2. WrappingSub(0, 0) = 0
  BY CqConstants, WrappingSubValue DEF Index
<1> QED
  BY <1>1, <1>2, CqConstants
     DEF CqInit, CqInv, CqWindow, CqHeadWithin, CqLoadedTailWithin, CqUsed, Unreaped

\* Posting to the ring, directly or from the backlog, keeps the windows.
LEMMA PostKeepsWindows ==
  ASSUME CqInv, NEW cqe \in Cqe, PostToRing(cqe),
         UNCHANGED <<cq_head_local, cq_head, completing, loaded_tail>>
  PROVE  /\ cq_tail' \in Index
         /\ cqes' \in [0 .. CqEntries - 1 -> Cqe \cup {NoCqe}]
         /\ CqWindow' /\ CqHeadWithin' /\ CqLoadedTailWithin'
         /\ Unreaped \in 0 .. CqEntries - 1
         /\ Unreaped' = Unreaped + 1
<1> USE CqConstants
<1>1. /\ cq_head_local \in Index /\ cq_head \in Index /\ cq_tail \in Index /\ loaded_tail \in Index
      /\ CqUsed \in Nat /\ Unreaped \in Nat /\ WrappingSub(loaded_tail, cq_head_local) \in Nat
      /\ Unreaped <= CqUsed /\ CqUsed < CqEntries
      /\ completing => WrappingSub(loaded_tail, cq_head_local) <= Unreaped
  BY WindowEnds
     DEF CqInv, CqTypeOK, CqHeadWithin, CqLoadedTailWithin, CqUsed, Unreaped, PostToRing
<1>2. /\ WrappingSub(cq_tail, cq_head) + 1 < Modulus
      /\ WrappingSub(cq_tail, cq_head_local) + 1 < Modulus
  BY <1>1 DEF CqUsed, Unreaped
<1>3. cq_tail' \in Index /\ CqUsed' = CqUsed + 1
  BY <1>1, <1>2, TailForward DEF PostToRing, CqUsed
<1>4. Unreaped' = Unreaped + 1
  BY <1>1, <1>2, TailForward DEF PostToRing, Unreaped
<1>5. cqes' \in [0 .. CqEntries - 1 -> Cqe \cup {NoCqe}]
  BY DEF PostToRing, CqInv, CqTypeOK
<1> QED
  BY <1>1, <1>3, <1>4, <1>5 DEF CqWindow, CqHeadWithin, CqLoadedTailWithin

\* Every step of the kernel and of the reaping thread preserves the invariant.
LEMMA CqStepInv == CqInv /\ [CqNext]_cqVars => CqInv'
<1> SUFFICES ASSUME CqInv, [CqNext]_cqVars PROVE CqInv'
  OBVIOUS
<1> USE CqConstants
<1>t. CqTypeOK /\ CqWindow /\ CqHeadWithin /\ CqLoadedTailWithin
  BY DEF CqInv
<1>w. /\ cq_head_local \in Index /\ cq_head \in Index /\ cq_tail \in Index /\ loaded_tail \in Index
      /\ CqUsed \in Nat /\ Unreaped \in Nat /\ WrappingSub(loaded_tail, cq_head_local) \in Nat
      /\ Unreaped <= CqUsed /\ CqUsed <= CqEntries
  BY <1>t, WindowEnds DEF CqTypeOK, CqWindow, CqHeadWithin, CqUsed, Unreaped
<1>1. ASSUME NEW cqe \in Cqe, PostCqe(cqe) PROVE CqInv'
  BY <1>1, <1>t, PostKeepsWindows DEF PostCqe, CqInv, CqTypeOK
<1>2. ASSUME NEW cqe \in Cqe, PostOverflow(cqe) PROVE CqInv'
  <2>1. backlog' \in Seq(Cqe) /\ Len(backlog') <= MaxBacklog
    BY <1>2, <1>t DEF PostOverflow, CqTypeOK
  <2> QED
    BY <1>2, <1>t, <2>1
       DEF PostOverflow, CqInv, CqTypeOK, CqWindow, CqHeadWithin, CqLoadedTailWithin,
           CqUsed, Unreaped
<1>3. CASE FlushBacklog
  <2>1. Head(backlog) \in Cqe /\ Tail(backlog) \in Seq(Cqe) /\ Len(Tail(backlog)) <= MaxBacklog
    BY <1>3, <1>t DEF FlushBacklog, CqTypeOK
  <2> QED
    BY <1>3, <1>t, <2>1, PostKeepsWindows DEF FlushBacklog, CqInv, CqTypeOK
<1>4. CASE CompleteLoad
  BY <1>4, <1>t, <1>w
     DEF CompleteLoad, CqInv, CqTypeOK, CqWindow, CqHeadWithin, CqLoadedTailWithin, CqUsed, Unreaped
<1>5. CASE CompleteNone
  BY <1>5, <1>t
     DEF CompleteNone, CqInv, CqTypeOK, CqWindow, CqHeadWithin, CqLoadedTailWithin, CqUsed, Unreaped
<1>6. CASE CompleteTake
  <2>1. 1 <= Unreaped
    <3>1. WrappingSub(loaded_tail, cq_head_local) <= Unreaped /\ cq_head_local # loaded_tail
      BY <1>6, <1>t DEF CompleteTake, CqLoadedTailWithin
    <3>2. WrappingSub(loaded_tail, cq_head_local) # 0
      BY <1>w, <3>1, WindowEnds
    <3> QED
      BY <1>w, <3>1, <3>2
  <2>2. cq_head_local' \in Index /\ Unreaped' = Unreaped - 1
    BY <1>6, <1>w, <2>1, HeadForward DEF CompleteTake, Unreaped
  <2> QED
    BY <1>6, <1>t, <1>w, <2>1, <2>2
       DEF CompleteTake, CqInv, CqTypeOK, CqWindow, CqHeadWithin, CqLoadedTailWithin, CqUsed
<1>7. CASE FlushCqHead
  BY <1>7, <1>t, <1>w
     DEF FlushCqHead, CqInv, CqTypeOK, CqWindow, CqHeadWithin, CqLoadedTailWithin, CqUsed, Unreaped
<1>8. CASE UNCHANGED cqVars
  BY <1>8, <1>t
     DEF cqVars, CqInv, CqTypeOK, CqWindow, CqHeadWithin, CqLoadedTailWithin, CqUsed, Unreaped
<1> QED
  BY <1>1, <1>2, <1>3, <1>4, <1>5, <1>6, <1>7, <1>8 DEF CqNext

\* The window invariant: the library publishes a head it has read up to, reads
\* only what was posted, and the kernel never sees more used slots than exist.
THEOREM CqInvariant == CqSpec => []CqInv
<1>1. CqInit => CqInv
  BY CqInitInv
<1>2. CqInv /\ [CqNext]_cqVars => CqInv'
  BY CqStepInv
<1> QED
  BY <1>1, <1>2, PTL DEF CqSpec

-----------------------------------------------------------------------------

\* A post leaves every unreaped completion alone.
LEMMA PostKeepsPosted ==
  ASSUME CqInv, NEW cqe \in Cqe, PostToRing(cqe),
         UNCHANGED <<cq_head_local, cq_head, completing, loaded_tail>>,
         NEW offset \in 0 .. CqEntries - 1, offset < Unreaped
  PROVE  cqes'[CqSlot(WrappingAdd(cq_head_local, offset))]
           = cqes[CqSlot(WrappingAdd(cq_head_local, offset))]
<1> USE CqConstants
<1>1. /\ cq_head_local \in Index /\ cq_tail \in Index
      /\ cqes \in [0 .. CqEntries - 1 -> Cqe \cup {NoCqe}]
  BY DEF CqInv, CqTypeOK
<1>2. Unreaped \in 0 .. CqEntries - 1 /\ offset # Unreaped
  BY PostKeepsWindows
<1>3. cq_tail = WrappingAdd(cq_head_local, Unreaped)
  BY <1>1, WindowEnds DEF Unreaped
<1>4. CqSlot(WrappingAdd(cq_head_local, offset)) # CqSlot(WrappingAdd(cq_head_local, Unreaped))
  BY <1>1, <1>2, SlotsDistinct DEF CqSlot
<1>5. CqSlot(WrappingAdd(cq_head_local, offset)) \in 0 .. CqEntries - 1
  <2>1. WrappingAdd(cq_head_local, offset) \in Index
    BY <1>1, WrappingAddValue
  <2> QED
    BY <2>1, SlotRange DEF CqSlot
<1> QED
  BY <1>1, <1>3, <1>4, <1>5 DEF PostToRing

\* The kernel never overwrites a completion that has not been reaped.
THEOREM CqNoOverwrite == CqSpec => NoCqeOverwrite
<1>1. ASSUME CqInv, CqNext PROVE PostedKept
  <2>1. ASSUME NEW cqe \in Cqe, PostToRing(cqe),
               UNCHANGED <<cq_head_local, cq_head, completing, loaded_tail>>
        PROVE  PostedKept
    BY <1>1, <2>1, PostKeepsPosted DEF PostedKept, Unreaped
  <2>2. CASE UNCHANGED cqes
    BY <2>2 DEF PostedKept
  <2>3. CASE FlushBacklog
    <3>1. Head(backlog) \in Cqe
      BY <1>1, <2>3 DEF FlushBacklog, CqInv, CqTypeOK
    <3> QED
      BY <2>1, <2>3, <3>1 DEF FlushBacklog
  <2>4. ASSUME NEW cqe \in Cqe, PostCqe(cqe) PROVE PostedKept
    BY <2>1, <2>4 DEF PostCqe
  <2> QED
    BY <1>1, <2>2, <2>3, <2>4
       DEF CqNext, PostOverflow, CompleteLoad, CompleteNone, CompleteTake, FlushCqHead
<1> QED
  BY <1>1, CqInvariant, PTL DEF NoCqeOverwrite, CqSpec

-----------------------------------------------------------------------------

\* How the ring's part and the backlog's part of a queue behave together.
LEMMA JoinAppendLeft ==
  ASSUME NEW S, NEW w \in Seq(S), NEW e \in S
  PROVE  Append(w, e) \o << >> = Append(w \o << >>, e)
OBVIOUS

\* A completion that overflows goes to the end.
LEMMA JoinAppendRight ==
  ASSUME NEW S, NEW w \in Seq(S), NEW b \in Seq(S), NEW e \in S
  PROVE  w \o Append(b, e) = Append(w \o b, e)
OBVIOUS

\* Flushing the backlog's first completion into the ring changes nothing.
LEMMA JoinMove ==
  ASSUME NEW S, NEW w \in Seq(S), NEW b \in Seq(S), b # << >>
  PROVE  Append(w, Head(b)) \o Tail(b) = w \o b
OBVIOUS

\* Reaping drops the first completion of the ring.
LEMMA JoinDrop ==
  ASSUME NEW S, NEW w \in Seq(S), NEW b \in Seq(S), Len(w) >= 1
  PROVE  SubSeq(w, 1 + 1, Len(w)) \o b = SubSeq(w \o b, 1 + 1, Len(w \o b))
<1> DEFINE s == w \o b
           r == SubSeq(w, 1 + 1, Len(w))
           t == r \o b
<1>1. /\ Len(w) \in Nat /\ Len(b) \in Nat
      /\ r \in Seq(S) /\ Len(r) = Len(w) - 1 /\ \A i \in 1 .. Len(r) : r[i] = w[1 + i]
  <2>1. Len(w) \in Nat /\ Len(b) \in Nat /\ \A i \in 2 .. Len(w) : w[i] \in S
    OBVIOUS
  <2>2. r \in Seq(S) /\ \A i \in 1 .. Len(w) - 2 + 1 : r[i] = w[2 + i - 1]
    BY <2>1
  <2>3. Len(r) = Len(w) - 1
    <3> DEFINE n == Len(w)
               k == Len(r)
    <3>1. k = IF 2 <= n THEN n - 2 + 1 ELSE 0
      BY <2>1
    <3>2. n \in Nat /\ n >= 1
      BY <2>1
    <3> HIDE DEF n, k
    <3>3. k = n - 1
      BY <3>1, <3>2
    <3> QED
      BY <3>3 DEF n, k
  <2> HIDE DEF r
  <2>4. ASSUME NEW i \in 1 .. Len(r) PROVE r[i] = w[1 + i]
    <3>1. i \in 1 .. Len(w) - 2 + 1 /\ 2 + i - 1 = 1 + i
      BY <2>1, <2>3
    <3> QED
      BY <2>2, <3>1
  <2> QED
    BY <2>1, <2>2, <2>3, <2>4
<1>2. s \in Seq(S) /\ Len(s) = Len(w) + Len(b)
  OBVIOUS
<1>3. t \in Seq(S) /\ Len(t) = Len(s) - 1 /\ 1 \in 0 .. Len(s)
  BY <1>1, <1>2
<1>4. ASSUME NEW i \in 1 .. Len(t) PROVE t[i] = s[1 + i]
  <2>1. CASE i <= Len(r)
    BY <1>1, <1>2, <1>3, <2>1
  <2>2. CASE i > Len(r)
    <3> HIDE DEF r
    <3> QED
      BY <1>1, <1>2, <1>3, <2>2
  <2> QED
    BY <1>1, <2>1, <2>2
<1> HIDE DEF s, t
<1>5. t = SubSeq(s, 1 + 1, Len(s))
  BY <1>2, <1>3, <1>4, SuffixDrops
<1> QED
  BY <1>5, Zenon DEF s, t

\* The ring's part of the queue is a sequence no longer than the capacity.
LEMMA WindowLength ==
  CqInv => /\ Unreaped \in 0 .. CqEntries
           /\ CqWindowContents \in Seq(Cqe \cup {NoCqe})
           /\ Len(CqWindowContents) = Unreaped
           /\ backlog \in Seq(Cqe \cup {NoCqe})
           /\ Len(backlog) \in 0 .. MaxBacklog
<1> SUFFICES ASSUME CqInv
             PROVE  /\ Unreaped \in 0 .. CqEntries
                    /\ CqWindowContents \in Seq(Cqe \cup {NoCqe})
                    /\ Len(CqWindowContents) = Unreaped
                    /\ backlog \in Seq(Cqe \cup {NoCqe})
                    /\ Len(backlog) \in 0 .. MaxBacklog
  OBVIOUS
<1> USE CqConstants
<1>1. cq_tail \in Index /\ cq_head_local \in Index /\ cq_head \in Index
      /\ Unreaped <= CqUsed /\ CqUsed <= CqEntries
  BY DEF CqInv, CqTypeOK, CqWindow, CqHeadWithin
<1>2. Unreaped \in 0 .. CqEntries
  BY <1>1, WindowEnds DEF Unreaped, CqUsed
<1>3. ASSUME NEW i \in 1 .. Unreaped PROVE Posted(i - 1) \in Cqe \cup {NoCqe}
  <2>1. WrappingAdd(cq_head_local, i - 1) \in Index
    <3>1. i - 1 \in 0 .. Modulus
      BY <1>2
    <3> QED
      BY <1>1, <3>1, WrappingAddValue
  <2>2. CqSlot(WrappingAdd(cq_head_local, i - 1)) \in 0 .. CqEntries - 1
    BY <2>1, SlotRange DEF CqSlot
  <2> QED
    BY <2>2 DEF Posted, CqInv, CqTypeOK
<1>4. backlog \in Seq(Cqe \cup {NoCqe}) /\ Len(backlog) \in 0 .. MaxBacklog
  BY DEF CqInv, CqTypeOK
<1> QED
  BY <1>2, <1>3, <1>4 DEF CqWindowContents

\* The same after a step.
LEMMA WindowLengthNext ==
  ASSUME CqInv'
  PROVE  /\ Unreaped' \in 0 .. CqEntries
         /\ CqWindowContents' \in Seq(Cqe \cup {NoCqe})
         /\ Len(CqWindowContents') = Unreaped'
<1>1. (CqInv => /\ Unreaped \in 0 .. CqEntries
                /\ CqWindowContents \in Seq(Cqe \cup {NoCqe})
                /\ Len(CqWindowContents) = Unreaped
                /\ backlog \in Seq(Cqe \cup {NoCqe})
                /\ Len(backlog) \in 0 .. MaxBacklog)'
  BY WindowLength, PTL
<1> QED
  BY <1>1

\* Posting to the ring appends to the ring's part.
LEMMA PostAppends ==
  ASSUME CqInv, CqInv', NEW cqe \in Cqe, PostToRing(cqe),
         UNCHANGED <<cq_head_local, cq_head, completing, loaded_tail>>
  PROVE  CqWindowContents' = Append(CqWindowContents, cqe)
<1> USE CqConstants
<1>1. Unreaped \in 0 .. CqEntries - 1 /\ Unreaped' = Unreaped + 1
  BY PostKeepsWindows
<1>2. ASSUME NEW i \in 1 .. Unreaped PROVE CqWindowContents'[i] = CqWindowContents[i]
  <2>1. i - 1 \in 0 .. CqEntries - 1 /\ i - 1 < Unreaped /\ i \in 1 .. Unreaped'
    BY <1>1
  <2>2. Posted(i - 1)' = Posted(i - 1)
    BY <2>1, PostKeepsPosted DEF Posted
  <2> QED
    BY <2>1, <2>2 DEF CqWindowContents
<1>3. CqWindowContents'[Unreaped + 1] = cqe
  <2>1. cq_tail \in Index /\ cq_head_local \in Index
        /\ cqes \in [0 .. CqEntries - 1 -> Cqe \cup {NoCqe}]
    BY DEF CqInv, CqTypeOK
  <2>2. CqSlot(cq_tail) \in 0 .. CqEntries - 1 /\ cq_tail = WrappingAdd(cq_head_local, Unreaped)
    BY <2>1, SlotRange, WindowEnds DEF CqSlot, Unreaped
  <2>3. cqes'[CqSlot(WrappingAdd(cq_head_local', Unreaped))] = cqe
    BY <2>1, <2>2 DEF PostToRing
  <2>4. Unreaped + 1 \in 1 .. Unreaped' /\ (Unreaped + 1) - 1 = Unreaped
    BY <1>1
  <2>5. CqWindowContents'[Unreaped + 1]
          = cqes'[CqSlot(WrappingAdd(cq_head_local', (Unreaped + 1) - 1))]
    BY <2>4 DEF CqWindowContents, Posted
  <2> QED
    BY <2>3, <2>4, <2>5
<1>4. /\ CqWindowContents \in Seq(Cqe \cup {NoCqe}) /\ Len(CqWindowContents) = Unreaped
      /\ CqWindowContents' \in Seq(Cqe \cup {NoCqe}) /\ Len(CqWindowContents') = Unreaped'
  BY WindowLength, WindowLengthNext
<1> QED
  BY <1>1, <1>2, <1>3, <1>4, IsAppend

\* Reaping removes the oldest completion of the ring's part.
LEMMA TakeDrops ==
  ASSUME CqInv, CqInv', CompleteTake
  PROVE  /\ Len(CqWindowContents) >= 1
         /\ CqWindowContents' = SubSeq(CqWindowContents, 1 + 1, Len(CqWindowContents))
<1> USE CqConstants
<1>1. /\ CqWindowContents \in Seq(Cqe \cup {NoCqe}) /\ Len(CqWindowContents) = Unreaped
      /\ CqWindowContents' \in Seq(Cqe \cup {NoCqe}) /\ Len(CqWindowContents') = Unreaped'
      /\ Unreaped \in 0 .. CqEntries /\ Unreaped' \in 0 .. CqEntries
  BY WindowLength, WindowLengthNext
<1>2. /\ cq_tail \in Index /\ cq_head_local \in Index /\ loaded_tail \in Index
      /\ WrappingSub(loaded_tail, cq_head_local) <= Unreaped /\ cq_head_local # loaded_tail
      /\ cq_head_local' = WrappingAdd(cq_head_local, 1)
      /\ UNCHANGED <<cq_tail, cqes>>
  BY DEF CompleteTake, CqInv, CqTypeOK, CqLoadedTailWithin
<1>3. 1 <= Unreaped
  BY <1>1, <1>2, WindowEnds
<1>4. Unreaped' = Unreaped - 1
  BY <1>2, <1>3, HeadForward DEF Unreaped
<1>5. ASSUME NEW i \in 1 .. Unreaped' PROVE CqWindowContents'[i] = CqWindowContents[1 + i]
  <2>1. i - 1 \in Nat /\ 1 + (i - 1) < Modulus /\ 1 + i \in 1 .. Unreaped
        /\ 1 + (i - 1) = (1 + i) - 1
    BY <1>1, <1>4
  <2>2. WrappingAdd(cq_head_local', i - 1) = WrappingAdd(cq_head_local, (1 + i) - 1)
    BY <1>2, <2>1, OffsetsAdd
  <2> QED
    BY <1>2, <2>1, <2>2 DEF CqWindowContents, Posted
<1>6. 1 \in 0 .. Len(CqWindowContents)
  BY <1>1, <1>3
<1> QED
  BY <1>1, <1>3, <1>4, <1>5, <1>6, SuffixDrops, ZenonT(30)

\* The contents are the completions of the ring and those of the backlog.
LEMMA JoinedLength ==
  CqInv => /\ CqContents \in Seq(Cqe \cup {NoCqe})
           /\ Len(CqContents) = Unreaped + Len(backlog)
BY WindowLength DEF CqContents

\* A completion goes to the end, whether it finds room in the ring or not.
LEMMA FinishAppends ==
  ASSUME CqInv, CqInv', NEW cqe \in Cqe, PostCqe(cqe) \/ PostOverflow(cqe)
  PROVE  /\ Len(CqContents) < CqEntries + MaxBacklog
         /\ CqContents' = Append(CqContents, cqe)
<1> USE CqConstants
<1>0. /\ CqWindowContents \in Seq(Cqe \cup {NoCqe}) /\ backlog \in Seq(Cqe \cup {NoCqe})
      /\ Unreaped \in 0 .. CqEntries /\ Len(backlog) \in 0 .. MaxBacklog
      /\ Len(CqContents) = Unreaped + Len(backlog)
      /\ cqe \in Cqe \cup {NoCqe}
  BY WindowLength, JoinedLength
<1>1. CASE PostCqe(cqe)
  <2>1. CqWindowContents' = Append(CqWindowContents, cqe)
    BY <1>1, PostAppends DEF PostCqe
  <2>2. CqContents' = Append(CqContents, cqe)
    BY <1>0, <1>1, <2>1, JoinAppendLeft DEF CqContents, PostCqe
  <2>3. Unreaped \in 0 .. CqEntries - 1 /\ Len(backlog) = 0
    BY <1>1, PostKeepsWindows DEF PostCqe
  <2> QED
    BY <1>0, <2>2, <2>3
<1>2. CASE PostOverflow(cqe)
  <2>1. CqWindowContents' = CqWindowContents
    BY <1>2 DEF PostOverflow, CqWindowContents, Posted, Unreaped
  <2>2. CqContents' = Append(CqContents, cqe)
    BY <1>0, <1>2, <2>1, JoinAppendRight DEF CqContents, PostOverflow
  <2> QED
    BY <1>0, <1>2, <2>2 DEF PostOverflow
<1> QED
  BY <1>1, <1>2

\* Flushing the backlog moves a completion and reorders none.
LEMMA FlushMoves ==
  ASSUME CqInv, CqInv', FlushBacklog
  PROVE  CqContents' = CqContents
<1>0. CqWindowContents \in Seq(Cqe \cup {NoCqe}) /\ backlog \in Seq(Cqe \cup {NoCqe})
  BY WindowLength
<1>1. Head(backlog) \in Cqe /\ backlog # << >>
  BY DEF FlushBacklog, CqInv, CqTypeOK
<1>2. CqWindowContents' = Append(CqWindowContents, Head(backlog))
  BY <1>1, PostAppends DEF FlushBacklog
<1> QED
  BY <1>0, <1>1, <1>2, JoinMove DEF CqContents, FlushBacklog

\* The completion that is reaped is the oldest one.
LEMMA ReapDrops ==
  ASSUME CqInv, CqInv', CompleteTake
  PROVE  /\ Len(CqContents) >= 1
         /\ CqContents' = SubSeq(CqContents, 1 + 1, Len(CqContents))
         /\ Posted(0) = CqContents[1]
<1>0. /\ CqWindowContents \in Seq(Cqe \cup {NoCqe}) /\ backlog \in Seq(Cqe \cup {NoCqe})
      /\ Len(CqWindowContents) = Unreaped /\ Unreaped \in Nat /\ Len(backlog) \in Nat
      /\ Len(CqContents) = Unreaped + Len(backlog)
  BY WindowLength, JoinedLength
<1>1. /\ Len(CqWindowContents) >= 1
      /\ CqWindowContents' = SubSeq(CqWindowContents, 1 + 1, Len(CqWindowContents))
  BY TakeDrops
<1>2. CqContents' = SubSeq(CqContents, 1 + 1, Len(CqContents))
  BY <1>0, <1>1, JoinDrop DEF CqContents, CompleteTake
<1>3. CqContents[1] = CqWindowContents[1]
  BY <1>0, <1>1 DEF CqContents
<1>4. CqWindowContents[1] = Posted(1 - 1)
  BY <1>0, <1>1 DEF CqWindowContents
<1> QED
  BY <1>0, <1>1, <1>2, <1>3, <1>4

\* No other step of either side touches the contents.
LEMMA ContentsKept ==
  ASSUME UNCHANGED <<cq_head_local, cq_tail, cqes, backlog>>
  PROVE  CqContents' = CqContents
BY DEF CqContents, CqWindowContents, Posted, Unreaped

\* Ring and backlog together implement a FIFO queue, for every capacity and
\* every backlog: a completion is reaped once and in posting order, whether it
\* went through the overflow list or not.
THEOREM CqRefinesFifo == CqSpec => CqImplementsFifo
<1>1. CqInit => CqFifo!Init
  <2> SUFFICES ASSUME CqInit PROVE CqContents = << >>
    BY DEF CqFifo!Init
  <2>1. CqWindowContents \in Seq(Cqe \cup {NoCqe}) /\ Len(CqWindowContents) = Unreaped
    BY CqInitInv, WindowLength
  <2>2. Unreaped = 0
    BY CqConstants, WrappingSubValue DEF CqInit, Unreaped, Index
  <2>3. CqWindowContents = << >> /\ backlog = << >>
    BY <2>1, <2>2 DEF CqInit
  <2> QED
    BY <2>3 DEF CqContents
<1>2. CqInv /\ CqInv' /\ [CqNext]_cqVars => [CqFifo!Next]_CqContents
  <2> SUFFICES ASSUME CqInv, CqInv', [CqNext]_cqVars PROVE [CqFifo!Next]_CqContents
    OBVIOUS
  <2> USE CqConstants
  <2>1. ASSUME NEW cqe \in Cqe, PostCqe(cqe) \/ PostOverflow(cqe) PROVE CqFifo!Next
    BY <2>1, FinishAppends DEF CqFifo!Next, CqFifo!Enqueue
  <2>2. CASE CompleteTake
    <3>1. 1 \in 1 .. CqEntries + MaxBacklog
      OBVIOUS
    <3>2. Len(CqContents) \in Nat
      BY JoinedLength
    <3> QED
      BY <2>2, <3>1, <3>2, ReapDrops DEF CqFifo!Next, CqFifo!Dequeue
  <2>3. CASE FlushBacklog
    BY <2>3, FlushMoves
  <2>4. CASE UNCHANGED <<cq_head_local, cq_tail, cqes, backlog>>
    BY <2>4, ContentsKept
  <2> QED
    BY <2>1, <2>2, <2>3, <2>4 DEF CqNext, cqVars, CompleteLoad, CompleteNone, FlushCqHead
<1> QED
  BY <1>1, <1>2, CqInvariant, PTL DEF CqSpec, CqImplementsFifo, CqFifo!Spec

-----------------------------------------------------------------------------
\* The polled ring.

\* The invariant holds in a fresh ring.
LEMMA WakeupInit == PollInit => WakeupInv
<1> SUFFICES ASSUME PollInit PROVE WakeupInv
  OBVIOUS
<1>1. TypeOK
  BY Zenon DEF PollInit, TypeOK
<1>2. /\ sq_tail = stored_tail \/ submitter = "stored"
      /\ submitter # "idle" => stored_tail = sq_tail_local /\ ~pushing
      /\ NoLostWakeup
  BY DEF PollInit, SqInit, NoLostWakeup
<1>3. need_wakeup <=> poller # "polling"
  BY Zenon DEF PollInit
<1> QED
  BY <1>1, <1>2, <1>3 DEF WakeupInv

\* Every step of the submitter and of the poller preserves it.
LEMMA WakeupStep ==
  ASSUME Sqpoll, LoadOvertakes = FALSE, WakeupInv, [PollNext]_pollVars
  PROVE  WakeupInv'
<1> USE DEF WakeupInv, TypeOK, NoLostWakeup
<1>1. CASE Push
  <2>1. /\ submitter = "idle" /\ UNCHANGED <<sq_tail, sq_head>> /\ UNCHANGED wakeupVars
    BY <1>1 DEF Push, PushLoad, PushFull, PushStore
  <2> QED
    BY <2>1 DEF wakeupVars
<1>2. CASE StoreTail
  <2>1. /\ ~pushing /\ stored_tail' = sq_tail_local /\ failed' = FALSE /\ submitter' = "stored"
        /\ UNCHANGED <<sq_tail_local, sq_tail, sq_head, pushing, need_wakeup, poller>>
    BY <1>2, Zenon DEF StoreTail, sqVars
  <2> QED
    BY <2>1, Zenon
<1>3. CASE LoadFlags
  BY <1>3 DEF LoadFlags
<1>4. CASE Wake
  BY <1>4, Zenon DEF Wake, TailVisible
<1>5. CASE WakeFails
  BY <1>5 DEF WakeFails, TailVisible
<1>6. CASE Drain
  BY <1>6 DEF Drain, TailVisible, wakeupVars
<1>7. CASE Consume
  BY <1>7 DEF Consume, PollerConsume, wakeupVars
<1>8. CASE SetNeedWakeup
  BY <1>8 DEF SetNeedWakeup, sqVars
<1>9. CASE Recheck
  BY <1>9, Zenon DEF Recheck, sqVars
<1>10. CASE UNCHANGED pollVars
  BY <1>10 DEF pollVars, sqVars, wakeupVars
<1> QED
  BY <1>1, <1>2, <1>3, <1>4, <1>5, <1>6, <1>7, <1>8, <1>9, <1>10 DEF PollNext

\* Where loads wait for earlier stores, no wakeup is lost: whenever the poller sleeps
\* on a published entry, submit_sqpoll is still going to wake it, or failed.
THEOREM NoWakeupIsLost == ASSUME Sqpoll, LoadOvertakes = FALSE PROVE PollSpec => []WakeupInv
<1>1. PollInit => WakeupInv
  BY WakeupInit
<1>2. WakeupInv /\ [PollNext]_pollVars => WakeupInv'
  BY WakeupStep, Zenon
<1> QED
  BY <1>1, <1>2, PTL DEF PollSpec

\* A step of the polled ring is a step of the submission queue or leaves it alone:
\* a tail in the store buffer is the local tail, so it reaches the poller as if
\* it had just been flushed.
LEMMA PolledStep ==
  ASSUME Sqpoll, LoadOvertakes = FALSE, WakeupInv, [PollNext]_pollVars
  PROVE  [SqNext]_sqVars
<1>1. CASE Push
  BY <1>1 DEF Push, SqNext
<1>2. CASE LoadFlags
  <2>1. SubmitSqpoll
    BY <1>2 DEF LoadFlags, SubmitSqpoll, WakeupInv
  <2> QED
    BY <2>1 DEF SqNext
<1>3. ASSUME TailVisible, submitter # "idle" PROVE [SqNext]_sqVars
  <2>1. FlushSqTail
    BY <1>3 DEF TailVisible, FlushSqTail, WakeupInv
  <2> QED
    BY <2>1 DEF SqNext
<1>4. CASE Wake
  BY <1>3, <1>4 DEF Wake
<1>5. CASE WakeFails
  BY <1>3, <1>5 DEF WakeFails
<1>6. CASE Drain
  BY <1>3, <1>6 DEF Drain, WakeupInv
<1>7. CASE Consume
  BY <1>7 DEF Consume, SqNext
<1>8. CASE UNCHANGED sqVars
  BY <1>8
<1> QED
  BY <1>1, <1>2, <1>4, <1>5, <1>6, <1>7, <1>8
     DEF PollNext, StoreTail, SetNeedWakeup, Recheck, pollVars

\* The polled ring implements the submission queue, for every capacity: the
\* window invariant, NoOverwrite and the FIFO refinement hold of it.
THEOREM PolledRingIsAQueue == ASSUME Sqpoll, LoadOvertakes = FALSE PROVE PollSpec => ImplementsQueue
<1>1. PollInit => SqInit
  BY DEF PollInit
<1>2. WakeupInv /\ [PollNext]_pollVars => [SqNext]_sqVars
  BY PolledStep, Zenon
<1> QED
  BY <1>1, <1>2, NoWakeupIsLost, PTL DEF PollSpec, SqSpec, ImplementsQueue

\* What a caller of submit_sqpoll gets: entries reach the poller in order and once,
\* none is overwritten, and no wakeup for them is lost.
THEOREM PolledRingCorrect ==
  ASSUME Sqpoll, LoadOvertakes = FALSE
  PROVE  PollSpec => []SqInv /\ NoOverwrite /\ SqImplementsFifo /\ []WakeupInv
BY PolledRingIsAQueue, NoWakeupIsLost, SqInvariant, SqNoOverwrite, SqRefinesFifo, PTL
   DEF ImplementsQueue

-----------------------------------------------------------------------------
\* The whole ring.

\* What a ring's assumptions say of its numbers.
LEMMA RingConstants ==
  /\ MaxRequests \in Nat /\ MaxWait \in Nat
  /\ Sqe = 1 .. MaxRequests /\ Cqe = 1 .. MaxRequests
BY RingAssumption DEF Request

\* Appending a new element to a sequence without repetitions adds it to the
\* elements and repeats none.
LEMMA AppendElements ==
  ASSUME NEW S, NEW s \in Seq(S), NEW e \in S, IsInjective(s), e \notin Range(s)
  PROVE  IsInjective(Append(s, e)) /\ Range(Append(s, e)) = Range(s) \cup {e}
<1> DEFINE t == Append(s, e)
<1>1. /\ DOMAIN s = 1 .. Len(s) /\ DOMAIN t = 1 .. Len(s) + 1 /\ Len(s) \in Nat
      /\ \A i \in 1 .. Len(s) : t[i] = s[i]
      /\ t[Len(s) + 1] = e
  OBVIOUS
<1> HIDE DEF t
<1>2. IsInjective(t)
  BY <1>1 DEF IsInjective, Range
<1>3. Range(t) = Range(s) \cup {e}
  BY <1>1 DEF Range
<1> QED
  BY <1>2, <1>3 DEF t

\* Dropping the first n elements of a sequence without repetitions removes
\* exactly these.
LEMMA DropElements ==
  ASSUME NEW S, NEW s \in Seq(S), NEW n \in 0 .. Len(s), IsInjective(s)
  PROVE  /\ IsInjective(SubSeq(s, n + 1, Len(s)))
         /\ Range(SubSeq(s, n + 1, Len(s))) = Range(s) \ {s[i] : i \in 1 .. n}
         /\ {s[i] : i \in 1 .. n} \subseteq Range(s)
<1> DEFINE t == SubSeq(s, n + 1, Len(s))
<1>1. /\ DOMAIN s = 1 .. Len(s) /\ Len(s) \in Nat /\ DOMAIN t = 1 .. Len(s) - n
      /\ \A i \in 1 .. Len(s) - n : t[i] = s[n + i]
  OBVIOUS
<1> HIDE DEF t
<1>2. IsInjective(t)
  BY <1>1 DEF IsInjective
<1>3. \A i \in n + 1 .. Len(s) : i - n \in 1 .. Len(s) - n /\ n + (i - n) = i
  BY <1>1
<1>4. \A i \in 1 .. Len(s) - n : n + i \in n + 1 .. Len(s)
  BY <1>1
<1>5. Range(t) = {s[i] : i \in n + 1 .. Len(s)}
  <2>1. \A x \in DOMAIN t : \E i \in n + 1 .. Len(s) : t[x] = s[i]
    BY <1>1, <1>4
  <2>2. ASSUME NEW i \in n + 1 .. Len(s) PROVE \E x \in DOMAIN t : s[i] = t[x]
    <3>1. i - n \in DOMAIN t /\ t[i - n] = s[n + (i - n)]
      BY <1>1, <1>3
    <3> QED
      BY <1>3, <3>1
  <2> QED
    BY <2>1, <2>2 DEF Range
<1>6. Range(s) \ {s[i] : i \in 1 .. n} = {s[i] : i \in n + 1 .. Len(s)}
  <2>1. \A i \in n + 1 .. Len(s), j \in 1 .. n : s[i] # s[j]
    BY <1>1 DEF IsInjective
  <2>2. \A i \in DOMAIN s : i \in 1 .. n \/ i \in n + 1 .. Len(s)
    BY <1>1
  <2>3. \A i \in n + 1 .. Len(s) : i \in DOMAIN s
    BY <1>1
  <2> QED
    BY <2>1, <2>2, <2>3, Zenon DEF Range
<1>7. {s[i] : i \in 1 .. n} \subseteq Range(s)
  BY <1>1 DEF Range
<1> QED
  BY <1>2, <1>5, <1>6, <1>7 DEF t

\* What a call hands to the kernel are the oldest entries of the queue.
LEMMA SubmitDrops ==
  ASSUME SqInv, SqInv', NEW consumed \in 0 .. SqEntries, Submit(consumed)
  PROVE  /\ consumed \in 0 .. Len(SqContents)
         /\ SqContents' = SubSeq(SqContents, consumed + 1, Len(SqContents))
         /\ Batch(consumed) = {SqContents[i] : i \in 1 .. consumed}
<1> USE SqConstants
<1>1. Used \in 0 .. SqEntries /\ Len(SqContents) = Used
  BY ContentsLength
<1>2. consumed \in 0 .. Used
  BY <1>1 DEF Submit, MayConsume, Used
<1>3. SqContents' = SubSeq(SqContents, consumed + 1, Len(SqContents))
  BY <1>2, ConsumeDrops DEF Submit
<1>4. Batch(consumed) = {SqContents[i] : i \in 1 .. consumed}
  <2>1. \A i \in 1 .. consumed : i - 1 \in 0 .. consumed - 1 /\ SqContents[i] = Queued(i - 1)
    BY <1>1, <1>2 DEF SqContents
  <2>2. ASSUME NEW offset \in 0 .. consumed - 1
        PROVE  offset + 1 \in 1 .. consumed /\ SqContents[offset + 1] = Queued(offset)
    <3>1. offset + 1 \in 1 .. consumed /\ (offset + 1) - 1 = offset
      BY <1>2
    <3> QED
      BY <2>1, <3>1
  <2> QED
    BY <2>1, <2>2, Zenon DEF Batch
<1> QED
  BY <1>1, <1>2, <1>3, <1>4

\* A new ring holds nothing.
LEMMA RingInitInv == Init => RingInv
<1> SUFFICES ASSUME Init PROVE RingInv
  OBVIOUS
<1> USE RingConstants
<1>1. SqInv /\ CqInv
  BY SqInitInv, CqInitInv DEF Init
<1>2. SqContents = << >> /\ CqContents = << >>
  <2>1. Used = 0 /\ Unreaped = 0
    BY SqConstants, CqConstants, WrappingSubValue DEF Init, SqInit, CqInit, Used, Unreaped, Index
  <2>2. Len(SqContents) = 0 /\ SqContents \in Seq(Sqe \cup {NoSqe})
    BY <1>1, <2>1, ContentsLength
  <2>3. Len(CqContents) = 0 /\ CqContents \in Seq(Cqe \cup {NoCqe})
    BY <1>1, <2>1, JoinedLength DEF Init, CqInit
  <2> QED
    BY <2>2, <2>3
<1>3. Conservation
  BY <1>2 DEF Init, Conservation, Range, IsInjective
<1>4. WaitsOnOwnHead
  BY DEF Init, WaitsOnOwnHead, Thread, Idle
<1>5. 0 \in Index
  BY SqConstants DEF Index
<1>6. waiting \in [Thread -> 0 .. MaxWait] /\ base \in [Thread -> Index]
  BY <1>5 DEF Init, Idle
<1>7. pushed \in 0 .. MaxRequests /\ ~pushing /\ split \in BOOLEAN
  <2>1. pushed = 0 /\ pushing = FALSE /\ split = FALSE
    BY DEF Init, SqInit
  <2> QED
    <3>1. pushed \in 0 .. MaxRequests
      BY <2>1
    <3>2. ~pushing /\ split \in BOOLEAN
      BY <2>1, Zenon
    <3> QED
      BY <3>1, <3>2
<1> QED
  BY <1>1, <1>3, <1>4, <1>6, <1>7 DEF RingInv

\* Every step of the ring is a step of each queue, or leaves it alone.
LEMMA QueueSteps ==
  ASSUME RingInv, [Next]_vars
  PROVE  [SqNext]_sqVars /\ [CqNext]_cqVars
<1> USE RingConstants
<1>1. CASE PushEnd
  <2>1. ASSUME PushStore(pushed + 1) PROVE SqNext
    <3>1. pushed + 1 \in Sqe
      BY <2>1 DEF RingInv, PushStore
    <3> QED
      BY <2>1, <3>1 DEF SqNext
  <2> QED
    BY <1>1, <2>1 DEF PushEnd, SqNext
<1>2. ASSUME NEW consumed \in 0 .. SqEntries, SubmitCall(consumed)
      PROVE  [SqNext]_sqVars /\ [CqNext]_cqVars
  BY <1>2 DEF SubmitCall, FlushOnSubmit, SqNext, CqNext
<1>3. ASSUME NEW consumed \in 0 .. SqEntries, NEW min \in 1 .. MaxWait,
             SubmitAndWait(consumed, min)
      PROVE  [SqNext]_sqVars /\ [CqNext]_cqVars
  BY <1>3 DEF SubmitAndWait, FlushBeforeWait, SqNext, CqNext
<1>4. ASSUME NEW request \in Request, Finish(request)
      PROVE  [SqNext]_sqVars /\ [CqNext]_cqVars
  BY <1>4 DEF Finish, CqNext, Request
<1> QED
  BY <1>1, <1>2, <1>3, <1>4, ZenonT(30)
     DEF Next, vars, PushBegin, CompleteBegin, CompleteEnd, SyncCq, Wait, Split, FlushOverflow,
         ReturnReady, Interrupt, EndWait, SqNext, CqNext

\* A push adds a request to the queue that was nowhere.
LEMMA PushConserves ==
  ASSUME RingInv, SqInv', PushStore(pushed + 1), pushed' = pushed + 1,
         UNCHANGED <<CqContents, inflight, reaped>>
  PROVE  Conservation'
<1>1. pushed \in Nat /\ pushed + 1 \in Sqe
  BY RingConstants DEF RingInv, PushStore
<1>2. SqContents' = Append(SqContents, pushed + 1) /\ SqContents \in Seq(Sqe \cup {NoSqe})
  BY <1>1, PushAppends, ContentsLength DEF RingInv
<1>3. 1 .. pushed + 1 = 1 .. pushed \cup {pushed + 1} /\ pushed + 1 \notin 1 .. pushed
  BY <1>1
<1>4. pushed + 1 \notin Range(SqContents)
  BY <1>3 DEF RingInv, Conservation
<1>5. IsInjective(SqContents') /\ Range(SqContents') = Range(SqContents) \cup {pushed + 1}
  BY <1>1, <1>2, <1>4, AppendElements DEF RingInv, Conservation
<1>6. /\ IsInjective(CqContents)
      /\ Range(SqContents) \cup inflight \cup Range(CqContents) \cup reaped = 1 .. pushed
      /\ Range(SqContents) \cap (inflight \cup Range(CqContents) \cup reaped) = {}
      /\ inflight \cap (Range(CqContents) \cup reaped) = {}
      /\ Range(CqContents) \cap reaped = {}
  BY DEF RingInv, Conservation
<1>7. /\ CqContents' = CqContents /\ inflight' = inflight /\ reaped' = reaped
      /\ pushed' = pushed + 1
  OBVIOUS
<1> DEFINE queued == Range(SqContents)
           posted == Range(CqContents)
           made == 1 .. pushed
<1>8. /\ (queued \cup {pushed + 1}) \cup inflight \cup posted \cup reaped = made \cup {pushed + 1}
      /\ (queued \cup {pushed + 1}) \cap (inflight \cup posted \cup reaped) = {}
  <2>1. /\ queued \cup inflight \cup posted \cup reaped = made
        /\ queued \cap (inflight \cup posted \cup reaped) = {}
        /\ pushed + 1 \notin made
    BY <1>3, <1>6
  <2> HIDE DEF queued, posted, made
  <2> QED
    BY <2>1
<1> QED
  BY <1>3, <1>5, <1>6, <1>7, <1>8, Zenon DEF Conservation

\* A submission moves the requests it hands over from the queue to the kernel.
LEMMA SubmitConserves ==
  ASSUME RingInv, SqInv', NEW consumed \in 0 .. SqEntries, Submit(consumed),
         inflight' = inflight \cup Batch(consumed),
         UNCHANGED <<CqContents, reaped, pushed>>
  PROVE  Conservation'
<1> DEFINE batch == {SqContents[i] : i \in 1 .. consumed}
<1>1. /\ consumed \in 0 .. Len(SqContents) /\ Batch(consumed) = batch
      /\ SqContents' = SubSeq(SqContents, consumed + 1, Len(SqContents))
      /\ SqContents \in Seq(Sqe \cup {NoSqe})
  BY SubmitDrops, ContentsLength, Zenon DEF RingInv
<1>2. /\ IsInjective(SqContents')
      /\ Range(SqContents') = Range(SqContents) \ batch
      /\ batch \subseteq Range(SqContents)
  BY <1>1, DropElements, Zenon DEF RingInv, Conservation
<1> HIDE DEF batch
<1> QED
  BY <1>1, <1>2 DEF RingInv, Conservation

\* A request the kernel finishes moves to the completion side, where it was not.
LEMMA FinishConserves ==
  ASSUME RingInv, CqInv', NEW request \in Request, Finish(request)
  PROVE  Conservation'
<1>1. request \in Cqe /\ request \in Cqe \cup {NoCqe}
  BY RingConstants DEF Request
<1>2. CqContents' = Append(CqContents, request) /\ CqContents \in Seq(Cqe \cup {NoCqe})
  BY <1>1, FinishAppends, JoinedLength DEF RingInv, Finish
<1>3. request \notin Range(CqContents)
  BY DEF RingInv, Conservation, Finish
<1>4. IsInjective(CqContents') /\ Range(CqContents') = Range(CqContents) \cup {request}
  BY <1>1, <1>2, <1>3, AppendElements DEF RingInv, Conservation
<1>5. SqContents' = SqContents
  BY Zenon DEF Finish, sqVars, SqContents, Queued, Used
<1> QED
  BY <1>4, <1>5, ZenonT(30) DEF RingInv, Conservation, Finish

\* A completion that is reaped was posted and is posted no longer.
LEMMA ReapConserves ==
  ASSUME RingInv, CqInv', CompleteTake, reaped' = reaped \cup {Posted(0)},
         UNCHANGED <<SqContents, inflight, pushed>>
  PROVE  Conservation'
<1>1. /\ Len(CqContents) >= 1 /\ Posted(0) = CqContents[1]
      /\ CqContents' = SubSeq(CqContents, 1 + 1, Len(CqContents))
      /\ CqContents \in Seq(Cqe \cup {NoCqe})
  BY ReapDrops, JoinedLength DEF RingInv
<1>2. 1 \in 0 .. Len(CqContents) /\ {CqContents[i] : i \in 1 .. 1} = {Posted(0)}
  <2>1. PICK s : s = CqContents
    BY Zenon
  <2>2. s \in Seq(Cqe \cup {NoCqe}) /\ Len(s) >= 1 /\ Posted(0) = s[1]
    BY <1>1, <2>1, Zenon
  <2>3. 1 \in 0 .. Len(s) /\ {s[i] : i \in 1 .. 1} = {s[1]}
    BY <2>2
  <2> QED
    BY <2>1, <2>2, <2>3, Zenon
<1>3. /\ IsInjective(CqContents')
      /\ Range(CqContents') = Range(CqContents) \ {Posted(0)}
      /\ {Posted(0)} \subseteq Range(CqContents)
  BY <1>1, <1>2, DropElements, Zenon DEF RingInv, Conservation
<1> QED
  BY <1>3 DEF RingInv, Conservation

\* No step loses or duplicates a request.
LEMMA StepConserves ==
  ASSUME RingInv, SqInv', CqInv', [Next]_vars
  PROVE  Conservation'
<1>1. UNCHANGED <<sq_tail_local, sq_head, sqes>> => UNCHANGED SqContents
  BY DEF SqContents, Queued, Used
<1>2. UNCHANGED <<cq_head_local, cq_tail, cqes, backlog>> => UNCHANGED CqContents
  BY ContentsKept
<1>3. UNCHANGED <<SqContents, CqContents, inflight, reaped, pushed>> => Conservation'
  BY DEF RingInv, Conservation
<1>4. CASE PushEnd
  BY <1>1, <1>2, <1>3, <1>4, PushConserves DEF PushEnd, PushFull, cqVars
<1>5. ASSUME NEW consumed \in 0 .. SqEntries, SubmitCall(consumed) PROVE Conservation'
  BY <1>2, <1>5, SubmitConserves DEF SubmitCall, FlushOnSubmit, FlushCqHead, cqVars
<1>6. ASSUME NEW consumed \in 0 .. SqEntries, NEW min \in 1 .. MaxWait,
             SubmitAndWait(consumed, min)
      PROVE  Conservation'
  BY <1>2, <1>6, SubmitConserves DEF SubmitAndWait, FlushBeforeWait, FlushCqHead, cqVars
<1>7. CASE CompleteEnd
  BY <1>1, <1>2, <1>3, <1>7, ReapConserves DEF CompleteEnd, CompleteNone, sqVars
<1>8. ASSUME NEW request \in Request, Finish(request) PROVE Conservation'
  BY <1>8, FinishConserves
<1>9. CASE FlushOverflow
  <2>1. CqContents' = CqContents
    BY <1>9, FlushMoves, Zenon DEF RingInv, FlushOverflow
  <2>2. SqContents' = SqContents
    BY <1>1, <1>9, Zenon DEF FlushOverflow, sqVars
  <2> QED
    BY <1>3, <1>9, <2>1, <2>2, Zenon DEF FlushOverflow
<1>10. CASE PushBegin \/ CompleteBegin \/ SyncCq \/ Split \/ UNCHANGED vars
  BY <1>1, <1>2, <1>3, <1>10
     DEF PushBegin, PushLoad, CompleteBegin, CompleteLoad, SyncCq, FlushCqHead, Split, vars,
         sqVars, cqVars
<1>11. ASSUME NEW min \in 1 .. MaxWait, Wait(min) PROVE Conservation'
  BY <1>1, <1>2, <1>3, <1>11 DEF Wait, FlushCqHead, sqVars
<1>12. ASSUME NEW t \in Thread, EndWait(t) PROVE Conservation'
  BY <1>1, <1>2, <1>3, <1>12 DEF EndWait, sqVars, cqVars
<1> QED
  BY <1>4, <1>5, <1>6, <1>7, <1>8, <1>9, <1>10, <1>11, <1>12
     DEF Next, ReturnReady, Interrupt

\* A call that waits keeps the head it published: its thread reaps nothing until
\* it returns, and the other thread of a split ring never moves that head.
LEMMA StepWaitsOnOwnHead ==
  ASSUME RingInv, [Next]_vars
  PROVE  WaitsOnOwnHead'
<1> USE DEF Thread, Idle
<1>0. WaitsOnOwnHead /\ DOMAIN waiting = Thread /\ DOMAIN base = Thread
  BY DEF RingInv
<1>1. UNCHANGED <<split, waiting, base, completing, cq_head, cq_head_local>> => WaitsOnOwnHead'
  BY <1>0 DEF WaitsOnOwnHead
<1>2. CASE PushBegin \/ PushEnd \/ FlushOverflow \/ UNCHANGED vars
  BY <1>1, <1>2 DEF PushBegin, PushEnd, FlushOverflow, FlushBacklog, cqVars, vars
<1>3. ASSUME NEW consumed \in 0 .. SqEntries, SubmitCall(consumed) PROVE WaitsOnOwnHead'
  BY <1>0, <1>1, <1>3 DEF SubmitCall, FlushOnSubmit, FlushCqHead, cqVars, WaitsOnOwnHead
<1>4. ASSUME NEW consumed \in 0 .. SqEntries, NEW min \in 1 .. MaxWait,
             SubmitAndWait(consumed, min)
      PROVE  WaitsOnOwnHead'
  BY <1>0, <1>4
     DEF SubmitAndWait, FlushBeforeWait, FlushCqHead, BeginWait, cqVars, WaitsOnOwnHead
<1>5. CASE CompleteBegin
  BY <1>0, <1>5 DEF CompleteBegin, CompleterFree, SubmitterFree, WaitsOnOwnHead
<1>6. CASE CompleteEnd
  BY <1>0, <1>6 DEF CompleteEnd, CompleteNone, CompleteTake, WaitsOnOwnHead
<1>7. CASE SyncCq
  BY <1>0, <1>7 DEF SyncCq, FlushCqHead, WaitsOnOwnHead
<1>8. ASSUME NEW min \in 1 .. MaxWait, Wait(min) PROVE WaitsOnOwnHead'
  BY <1>0, <1>8 DEF Wait, BeginWait, FlushCqHead, WaitsOnOwnHead
<1>9. CASE Split
  BY <1>0, <1>9 DEF Split, SubmitterFree, cqVars, WaitsOnOwnHead
<1>10. ASSUME NEW request \in Request, Finish(request) PROVE WaitsOnOwnHead'
  BY <1>1, <1>10 DEF Finish, PostCqe, PostOverflow
<1>11. ASSUME NEW t \in Thread, EndWait(t) PROVE WaitsOnOwnHead'
  BY <1>0, <1>11 DEF EndWait, cqVars, WaitsOnOwnHead
<1> QED
  BY <1>2, <1>3, <1>4, <1>5, <1>6, <1>7, <1>8, <1>9, <1>10, <1>11
     DEF Next, ReturnReady, Interrupt

\* The types of what the calls keep.
LEMMA StepTypes ==
  ASSUME RingInv, [Next]_vars
  PROVE  /\ split' \in BOOLEAN
         /\ pushed' \in 0 .. MaxRequests
         /\ pushing' => pushed' < MaxRequests
         /\ waiting' \in [Thread -> 0 .. MaxWait]
         /\ base' \in [Thread -> Index]
<1> USE RingConstants
<1>1. split' \in BOOLEAN
  BY Zenon DEF RingInv, Next, vars, PushBegin, PushEnd, SubmitCall, SubmitAndWait, CompleteBegin,
         CompleteEnd, SyncCq, Wait, Split, Finish, FlushOverflow, ReturnReady, Interrupt, EndWait
<1>2. pushed' \in 0 .. MaxRequests /\ (pushing' => pushed' < MaxRequests)
  <2>1. CASE PushEnd
    BY <2>1 DEF RingInv, PushEnd, PushStore, PushFull
  <2>2. CASE PushBegin
    BY <2>2 DEF RingInv, PushBegin
  <2>3. CASE UNCHANGED <<pushed, pushing>>
    BY <2>3, Zenon DEF RingInv
  <2> QED
    BY <2>1, <2>2, <2>3, ZenonT(30)
       DEF Next, vars, sqVars, SubmitCall, SubmitAndWait, Submit, CompleteBegin, CompleteEnd,
           SyncCq, Wait, Split, Finish, FlushOverflow, ReturnReady, Interrupt, EndWait
<1>3. waiting' \in [Thread -> 0 .. MaxWait] /\ base' \in [Thread -> Index]
  <2>1. cq_head_local \in Index /\ 0 \in 0 .. MaxWait /\ 1 .. MaxWait \subseteq 0 .. MaxWait
    BY DEF RingInv, CqInv, CqTypeOK
  <2>2. ASSUME NEW t \in Thread, NEW min \in 1 .. MaxWait, BeginWait(t, min)
        PROVE  waiting' \in [Thread -> 0 .. MaxWait] /\ base' \in [Thread -> Index]
    BY <2>1, <2>2 DEF RingInv, BeginWait
  <2>3. ASSUME NEW t \in Thread, EndWait(t)
        PROVE  waiting' \in [Thread -> 0 .. MaxWait] /\ base' \in [Thread -> Index]
    BY <2>1, <2>3 DEF RingInv, EndWait, Idle
  <2>4. CASE UNCHANGED <<waiting, base>>
    BY <2>4 DEF RingInv
  <2>5. "submitter" \in Thread /\ "completer" \in Thread
    BY DEF Thread
  <2> QED
    BY <2>2, <2>3, <2>4, <2>5
       DEF Next, vars, PushBegin, PushEnd, SubmitCall, SubmitAndWait, CompleteBegin,
           CompleteEnd, SyncCq, Wait, Split, Finish, FlushOverflow, ReturnReady, Interrupt
<1> QED
  BY <1>1, <1>2, <1>3

\* The ring's invariant holds for every number of requests, every capacity and
\* every interleaving of the two threads and the kernel.
THEOREM RingInvariant == Spec => []RingInv
<1>1. Init => RingInv
  BY RingInitInv
<1>2. RingInv /\ [Next]_vars => RingInv'
  <2> SUFFICES ASSUME RingInv, [Next]_vars PROVE RingInv'
    OBVIOUS
  <2>1. SqInv' /\ CqInv'
    BY QueueSteps, SqStepInv, CqStepInv DEF RingInv
  <2> QED
    BY <2>1, StepTypes, StepConserves, StepWaitsOnOwnHead DEF RingInv
<1> QED
  BY <1>1, <1>2, PTL DEF Spec

\* No request is lost or duplicated on its way through the ring.
THEOREM NoRequestIsLost == Spec => []Conservation
<1>1. RingInv => Conservation
  BY DEF RingInv
<1> QED
  BY <1>1, RingInvariant, PTL

\* Without SQPOLL, what the library counts as submitted is what the kernel has
\* consumed, after every call.
THEOREM SubmittedIsConsumed == Spec => []SubmittedTracksHead
<1>1. RingInv => SubmittedTracksHead
  BY DEF RingInv, SqInv
<1> QED
  BY <1>1, RingInvariant, PTL

\* The composed ring is both of its queues: each call of either thread, and each
\* step of the kernel, is a step the submission queue and the completion queue
\* allow.  What is proved of the queues holds in the ring.
THEOREM RingIsBothQueues == Spec => SqSpec /\ CqSpec
<1>1. Init => SqInit /\ CqInit
  BY DEF Init
<1>2. RingInv /\ [Next]_vars => [SqNext]_sqVars /\ [CqNext]_cqVars
  BY QueueSteps
<1> QED
  BY <1>1, <1>2, RingInvariant, PTL DEF Spec, SqSpec, CqSpec

\* In the ring too, completions are reaped once and in posting order.
THEOREM RingReapsInOrder == Spec => CqImplementsFifo
BY RingIsBothQueues, CqRefinesFifo, PTL

\* In the ring too, no completion is overwritten before it is reaped.
THEOREM RingKeepsCompletions == Spec => NoCqeOverwrite
BY RingIsBothQueues, CqNoOverwrite, PTL

\* A wait that returns without a signal delivers what its caller asked for:
\* min_complete completions past the head at which it began, or a full ring.
THEOREM WaitsDeliver == Spec => WaitDelivers
<1>1. ASSUME RingInv, NEW t \in Thread, ReturnReady(t), t = "completer" \/ ~split
      PROVE  DeliveredTo(t)
  <2>1. base[t] = cq_head
    BY <1>1 DEF RingInv, WaitsOnOwnHead, ReturnReady, EndWait
  <2> QED
    BY <1>1, <2>1 DEF ReturnReady, DeliveredTo, CqUsed
<1>2. RingInv => \A t \in Thread : ReturnReady(t) /\ (t = "completer" \/ ~split) => DeliveredTo(t)
  BY <1>1
<1> QED
  BY <1>2, RingInvariant, PTL DEF WaitDelivers

-----------------------------------------------------------------------------
\* What a wait on a whole ring can count on.

\* With nothing left in the queue, what is outstanding is in flight or posted.
LEMMA OutstandingIsAway ==
  ASSUME RingInv, Used = 0
  PROVE  Outstanding = inflight \cup Range(CqContents)
<1>1. SqContents \in Seq(Sqe \cup {NoSqe}) /\ Len(SqContents) = 0
  BY ContentsLength DEF RingInv
<1>2. Range(SqContents) = {}
  BY <1>1 DEF Range
<1>3. /\ Range(SqContents) \cup inflight \cup Range(CqContents) \cup reaped = 1 .. pushed
      /\ inflight \cap (Range(CqContents) \cup reaped) = {}
      /\ Range(CqContents) \cap reaped = {}
  BY Zenon DEF RingInv, Conservation
<1> QED
  BY <1>2, <1>3, Zenon DEF Outstanding

\* What holds from the moment a whole ring's thread waits until it returns: it
\* pushes nothing, and what it left in the queue it left behind the valve.
ThreadWaits == ~split /\ waiting["submitter"] # Idle
WaitInv ==
  /\ ~Sqpoll
  /\ ThreadWaits =>
       /\ ~pushing
       /\ waiting["submitter"] <= Cardinality(Outstanding)
       /\ Used # 0 => Valve

\* The call takes the queue whole, or the valve is open.
LEMMA WaitBegins ==
  ASSUME RingInv, SqInv', WaitInv, NEW consumed \in 0 .. SqEntries, NEW min \in 1 .. MaxWait,
         SubmitAndWait(consumed, min), ThreadWaits'
  PROVE  WaitInv'
<1> USE SqConstants
<1>1. /\ ~pushing /\ ~pushing' /\ waiting["submitter"] = Idle /\ min <= Cardinality(Outstanding)
      /\ Submit(consumed) /\ UNCHANGED <<split, pushed, reaped>>
  BY DEF SubmitAndWait, SubmitterFree, Submit
<1>2. GoesOnToWait(consumed) /\ waiting'["submitter"] = min
  <2>1. waiting \in [Thread -> 0 .. MaxWait] /\ "submitter" \in Thread
    BY DEF RingInv, Thread
  <2> QED
    BY <1>1, <2>1 DEF SubmitAndWait, BeginWait, ThreadWaits
<1>3. UNCHANGED <<cq_head_local, cq_tail>>
  BY DEF SubmitAndWait, FlushBeforeWait, FlushCqHead, cqVars
<1>4. Used' # 0 => Valve'
  <2>1. CASE Valve
    BY <1>1, <1>3, <2>1 DEF Valve, Unreaped
  <2>2. CASE ~Valve
    <3>1. consumed = WrappingSub(sq_tail_local, sq_submitted)
      BY <1>2, <2>2 DEF GoesOnToWait, ToSubmit
    <3>2. consumed = Used
      BY <3>1 DEF RingInv, SqInv, SubmittedTracksHead, WaitInv, Used
    <3>3. sq_head \in Index /\ sq_tail_local \in Index
      BY DEF RingInv, SqInv, SqTypeOK
    <3>4. sq_head' = WrappingAdd(sq_head, Used) /\ sq_tail_local' = sq_tail_local
      BY <1>1, <3>2 DEF Submit
    <3>5. sq_head' = sq_tail_local
      BY <3>3, <3>4, WindowEnds DEF Used
    <3> QED
      BY <3>3, <3>4, <3>5, WindowEnds DEF Used
  <2> QED
    BY <2>1, <2>2
<1>5. Outstanding' = Outstanding
  BY <1>1 DEF Outstanding
<1> QED
  BY <1>1, <1>2, <1>4, <1>5 DEF WaitInv

\* While it waits, completions arrive and nothing else changes.
LEMMA WaitGoesOn ==
  ASSUME WaitInv, RingInv, ThreadWaits, ThreadWaits',
         UNCHANGED <<sqVars, pushed, reaped, waiting, split>>,
         Unreaped' \in Nat, Unreaped' >= Unreaped
  PROVE  WaitInv'
<1>1. Unreaped \in Nat /\ CqEntries - (CqEntries \div 4) \in Int
  BY WindowLength, CqConstants DEF RingInv
<1>2. Used' = Used /\ pushing' = pushing /\ Outstanding' = Outstanding
  BY DEF sqVars, Used, Outstanding
<1>3. Valve => Valve'
  BY <1>1 DEF Valve, ThreadWaits
<1> QED
  BY <1>2, <1>3 DEF WaitInv

\* Every step keeps what a waiting thread counts on.
LEMMA WaitStep ==
  ASSUME RingInv, SqInv', CqInv', WaitInv, [Next]_vars
  PROVE  WaitInv'
<1> SUFFICES ASSUME ThreadWaits' PROVE WaitInv'
  BY DEF WaitInv
<1>0. /\ waiting \in [Thread -> 0 .. MaxWait] /\ Thread = {"submitter", "completer"}
      /\ ThreadWaits => ~completing /\ ~pushing
  BY DEF RingInv, WaitsOnOwnHead, ThreadWaits, WaitInv, Thread
<1>1. UNCHANGED <<cq_head_local, cq_tail>> => Unreaped' \in Nat /\ Unreaped' >= Unreaped
  BY WindowLength DEF RingInv, Unreaped
<1>2. CASE ~ThreadWaits
  <2>1. ASSUME NEW consumed \in 0 .. SqEntries, NEW min \in 1 .. MaxWait, SubmitAndWait(consumed, min)
        PROVE  WaitInv'
    BY <2>1, WaitBegins
  <2>2. ASSUME NEW min \in 1 .. MaxWait, Wait(min) PROVE FALSE
    BY <2>2 DEF Wait, ThreadWaits
  <2>3. ASSUME NEW t \in Thread, EndWait(t) PROVE FALSE
    BY <1>0, <1>2, <2>3 DEF EndWait, ThreadWaits
  <2>4. CASE Split
    BY <2>4 DEF Split, ThreadWaits
  <2>5. CASE UNCHANGED <<split, waiting>>
    BY <1>2, <2>5 DEF ThreadWaits
  <2> QED
    BY <2>1, <2>2, <2>3, <2>4, <2>5
       DEF Next, vars, PushBegin, PushEnd, SubmitCall, CompleteBegin, CompleteEnd, SyncCq, Finish,
           FlushOverflow, ReturnReady, Interrupt
<1>3. CASE ThreadWaits
  <2>1. ~SubmitterFree /\ ~CompleterFree
    BY <1>3 DEF SubmitterFree, CompleterFree, ThreadWaits
  <2>2. CASE PushBegin \/ CompleteBegin \/ SyncCq \/ Split
    BY <2>1, <2>2 DEF PushBegin, CompleteBegin, SyncCq, Split
  <2>3. ASSUME NEW consumed \in 0 .. SqEntries, SubmitCall(consumed) PROVE FALSE
    BY <2>1, <2>3 DEF SubmitCall
  <2>4. ASSUME NEW consumed \in 0 .. SqEntries, NEW min \in 1 .. MaxWait, SubmitAndWait(consumed, min)
        PROVE  FALSE
    BY <2>1, <2>4 DEF SubmitAndWait
  <2>5. ASSUME NEW min \in 1 .. MaxWait, Wait(min) PROVE FALSE
    BY <2>1, <2>5 DEF Wait
  <2>6. CASE PushEnd \/ CompleteEnd
    BY <1>0, <1>3, <2>6
       DEF PushEnd, PushStore, PushFull, CompleteEnd, CompleteNone, CompleteTake
  <2>7. ASSUME NEW request \in Request, Finish(request) PROVE WaitInv'
    <3>1. Unreaped' \in Nat /\ Unreaped' >= Unreaped
      <4>1. request \in Cqe
        BY RingConstants DEF Request
      <4>2. CASE PostCqe(request)
        BY <4>1, <4>2, PostKeepsWindows, CqConstants DEF PostCqe, RingInv
      <4>3. CASE PostOverflow(request)
        BY <1>1, <4>3 DEF PostOverflow
      <4> QED
        BY <2>7, <4>2, <4>3 DEF Finish
    <3>2. UNCHANGED <<sqVars, pushed, reaped, waiting, split>>
      BY <2>7 DEF Finish
    <3> QED
      BY <1>3, <3>1, <3>2, WaitGoesOn
  <2>8. CASE FlushOverflow
    <3>1. UNCHANGED <<sqVars, pushed, reaped, waiting, split>> /\ FlushBacklog
      BY <2>8 DEF FlushOverflow
    <3>2. Head(backlog) \in Cqe
      BY <3>1 DEF FlushBacklog, RingInv, CqInv, CqTypeOK
    <3>3. Unreaped' \in Nat /\ Unreaped' >= Unreaped
      BY <3>1, <3>2, PostKeepsWindows, CqConstants DEF FlushBacklog, RingInv
    <3> QED
      BY <1>3, <3>1, <3>3, WaitGoesOn
  <2>9. ASSUME NEW t \in Thread, EndWait(t) PROVE WaitInv'
    <3>1. CASE t = "submitter"
      BY <1>0, <2>9, <3>1 DEF EndWait, ThreadWaits
    <3>2. CASE t = "completer"
      BY <1>3, <2>9, <3>2 DEF EndWait, ThreadWaits, RingInv, WaitsOnOwnHead
    <3> QED
      BY <1>0, <3>1, <3>2
  <2>10. CASE UNCHANGED vars
    BY <1>1, <1>3, <2>10, WaitGoesOn DEF vars, cqVars
  <2> QED
    BY <2>2, <2>3, <2>4, <2>5, <2>6, <2>7, <2>8, <2>9, <2>10
       DEF Next, ReturnReady, Interrupt
<1> QED
  BY <1>2, <1>3

\* submit_and_wait on a whole ring never waits for more than its caller's
\* outstanding requests, and never for an entry it has left in its own queue,
\* unless the backpressure valve was open: what it waits for is with the kernel
\* or posted already, for every capacity and however the indices wrap.
THEOREM WaitsAreCovered == Spec => []WaitIsCovered
<1>1. Init => WaitInv
  BY DEF Init, WaitInv, ThreadWaits, Thread, Idle
<1>2. RingInv /\ RingInv' /\ WaitInv /\ [Next]_vars => WaitInv'
  BY WaitStep DEF RingInv
<1>3. RingInv /\ WaitInv => WaitIsCovered
  <2> SUFFICES ASSUME RingInv, WaitInv, ThreadWaits
               PROVE  /\ waiting["submitter"] <= Cardinality(Outstanding)
                      /\ Used = 0 => waiting["submitter"] <= Cardinality(inflight \cup Range(CqContents))
                      /\ Used # 0 => Valve
    BY DEF WaitIsCovered, ThreadWaits
  <2>1. waiting["submitter"] <= Cardinality(Outstanding) /\ (Used # 0 => Valve)
    BY DEF WaitInv
  <2>2. Used = 0 => Outstanding = inflight \cup Range(CqContents)
    BY OutstandingIsAway
  <2> QED
    BY <2>1, <2>2
<1> QED
  BY <1>1, <1>2, <1>3, RingInvariant, PTL DEF Spec

=============================================================================
