----------------------------- MODULE PoolProofs -----------------------------
(***************************************************************************)
(* Proofs about a pool of provided buffers, for every size and every way   *)
(* of returning its buffers; and about multishot requests on it, for every *)
(* number of requests: the composition keeps the pool's contract, so what  *)
(* is proved of the pool alone holds of it, and no delivered buffer is     *)
(* dropped or taken twice.  Tickets are kept off incremental pools         *)
(* (IncTickets is FALSE), where they break that contract.                  *)
(***************************************************************************)
EXTENDS Multishot, FiniteSetTheorems, TLAPS

-----------------------------------------------------------------------------
\* Remainders.

\* What division with remainder is.
LEMMA DivMod ==
  ASSUME NEW n \in Nat \ {0}, NEW x \in Int
  PROVE  /\ x % n \in 0 .. n - 1
         /\ x \div n \in Int
         /\ x = n * (x \div n) + (x % n)
OBVIOUS

\* Multiples of n are at least n apart.
LEMMA MultiplesApart ==
  ASSUME NEW n \in Nat \ {0}, NEW a \in Int, NEW b \in Int, a < b
  PROVE  n * a + n <= n * b
<1>1. n * (a + 1) <= n * b
  OBVIOUS
<1> QED
  BY <1>1

\* The remainder is unique.
LEMMA RemainderUnique ==
  ASSUME NEW n \in Nat \ {0}, NEW q \in Int, NEW r \in 0 .. n - 1
  PROVE  (n * q + r) % n = r
<1> DEFINE x == n * q + r
           p == x \div n
           s == x % n
<1>1. x \in Int
  OBVIOUS
<1>2. p \in Int /\ s \in 0 .. n - 1 /\ x = n * p + s
  BY <1>1, DivMod
<1> HIDE DEF p, s
<1>3. ~(p < q)
  <2> SUFFICES ASSUME p < q PROVE FALSE
    OBVIOUS
  <2>1. n * p + n <= n * q
    BY MultiplesApart, <1>2
  <2> QED
    BY <2>1, <1>2
<1>4. ~(q < p)
  <2> SUFFICES ASSUME q < p PROVE FALSE
    OBVIOUS
  <2>1. n * q + n <= n * p
    BY MultiplesApart, <1>2
  <2> QED
    BY <2>1, <1>2
<1>5. p = q
  BY <1>2, <1>3, <1>4
<1>6. s = r
  BY <1>2, <1>5
<1> QED
  BY <1>6 DEF s

\* Adding less than n to a number moves its remainder by that much, or wraps.
LEMMA RemainderPlus ==
  ASSUME NEW n \in Nat \ {0}, NEW x \in Nat, NEW d \in 0 .. n - 1
  PROVE  (x + d) % n = IF (x % n) + d < n THEN (x % n) + d ELSE (x % n) + d - n
<1> DEFINE p == x \div n
           s == x % n
<1>1. p \in Int /\ s \in 0 .. n - 1 /\ x = n * p + s
  BY DivMod
<1> HIDE DEF p, s
<1>2. CASE s + d < n
  <2>1. (n * p + (s + d)) % n = s + d
    BY <1>1, <1>2, RemainderUnique
  <2> QED
    BY <2>1, <1>1, <1>2 DEF s
<1>3. CASE s + d >= n
  <2>1. p + 1 \in Int /\ s + d - n \in 0 .. n - 1
    BY <1>1, <1>3
  <2>2. (n * (p + 1) + (s + d - n)) % n = s + d - n
    BY <2>1, RemainderUnique, ZenonT(30)
  <2>3. n * (p + 1) + (s + d - n) = x + d
    BY <1>1
  <2> QED
    BY <2>2, <2>3, <1>1, <1>3 DEF s
<1> QED
  BY <1>1, <1>2, <1>3

\* Subtracting a multiple of n leaves the remainder alone.
LEMMA RemainderMinusMultiple ==
  ASSUME NEW n \in Nat \ {0}, NEW k \in Int, NEW x \in Int, NEW m \in Int, m = n * k
  PROVE  (x - m) % n = x % n
<1> DEFINE p == x \div n
           s == x % n
<1>1. p \in Int /\ s \in 0 .. n - 1 /\ x = n * p + s
  BY DivMod
<1> HIDE DEF p, s
<1>2. p - k \in Int
  BY <1>1
<1>3. (n * (p - k) + s) % n = s
  BY <1>1, <1>2, RemainderUnique
<1>4. n * (p - k) + s = x - m
  BY <1>1
<1> QED
  BY <1>3, <1>4 DEF s

-----------------------------------------------------------------------------
\* The pool.

-----------------------------------------------------------------------------
\* Arithmetic.

\* The constants as the proofs use them: the pool goes into the tail's range
\* and the tail's range into the position's.
LEMMA Sizes ==
  ASSUME NEW count \in Counts, ValidCount(count)
  PROVE  /\ count \in Nat \ {0} /\ 2 * count <= TailModulus
         /\ TailModulus \in Nat \ {0} /\ Modulus \in Nat \ {0}
         /\ \E laps \in Nat : TailModulus = count * laps
         /\ \E laps \in Nat : Modulus = TailModulus * laps
<1>1. count \in Nat \ {0} /\ count <= MaxEntries
  BY PoolAssumption DEF ValidCount
<1>2. TailModulus \in Nat \ {0} /\ 2 * count <= TailModulus
  BY <1>1, PoolAssumption
<1>3. PICK l \in 1 .. TailModulus : TailModulus = count * l
  BY CountAssumption
<1>4. PICK m \in 1 .. Modulus : Modulus = TailModulus * m
  BY PoolAssumption
<1>5. m \in Nat \ {0} /\ Modulus \in Nat \ {0}
  <2>1. m \in Int /\ 1 <= m
    BY <1>4
  <2>2. m \in Nat \ {0}
    BY <2>1
  <2>3. Modulus \in Nat /\ Modulus >= 1
    BY <1>2, <1>4, <2>2
  <2> QED BY <2>2, <2>3
<1> QED BY <1>1, <1>2, <1>3, <1>4, <1>5

\* A remainder of a remainder, when the smaller modulus divides the larger.
LEMMA RemainderOfRemainder ==
  ASSUME NEW n \in Nat \ {0}, NEW m \in Nat \ {0}, NEW l \in Nat, m = n * l,
         NEW x \in Nat, NEW d \in Nat
  PROVE  ((x % m) + d) % n = (x + d) % n
<1> DEFINE q == x \div m
           r == x % m
           k == l * q
           p == m * q
<1>1. x \in Int /\ x + d \in Int
  OBVIOUS
<1>2. r \in 0 .. m - 1 /\ q \in Int /\ x = p + r
  BY <1>1, DivMod, Zenon
<1> HIDE DEF q, r
<1>3. k \in Int /\ p \in Int /\ p = n * k
  BY <1>2
<1> HIDE DEF p, k
<1>4. ((x + d) - p) % n = (x + d) % n
  <2>1. \A j, z, y \in Int : z = n * j => (y - z) % n = y % n
    BY RemainderMinusMultiple, Zenon
  <2>2. \A y \in Int : (y - p) % n = y % n
    BY <1>3, <2>1, Zenon
  <2> QED
    BY <1>1, <2>2, Zenon
<1>5. r \in Int
  BY <1>2
<1>6. r + d = (x + d) - p
  BY <1>2, <1>3, <1>5
<1> QED BY <1>4, <1>6 DEF r

\* The same without an offset.
LEMMA RemainderTwice ==
  ASSUME NEW n \in Nat \ {0}, NEW m \in Nat \ {0}, NEW l \in Nat, m = n * l, NEW x \in Nat
  PROVE  (x % m) % n = x % n
<1>1. x \in Int
  OBVIOUS
<1>2. \A d \in Nat : ((x % m) + d) % n = (x + d) % n
  BY RemainderOfRemainder, Zenon
<1>3. x % m \in 0 .. m - 1
  BY <1>1, DivMod, Zenon
<1>4. (x % m) + 0 = x % m /\ x + 0 = x
  BY <1>3
<1>5. 0 \in Nat
  OBVIOUS
<1> QED BY <1>2, <1>4, <1>5, Zenon

\* The distance from head to tail, without the remainder.
LEMMA Distance ==
  ASSUME NEW n \in Nat \ {0}, NEW t \in 0 .. n - 1, NEW h \in 0 .. n - 1
  PROVE  /\ (t + n - h) % n = IF t >= h THEN t - h ELSE t - h + n
         /\ ((t + n) - h) % n = IF t >= h THEN t - h ELSE t - h + n
<1>1. CASE t >= h
  <2>1. t + n - h = n * 1 + (t - h) /\ (t - h) \in 0 .. n - 1
    BY <1>1
  <2> QED BY <1>1, <2>1, RemainderUnique
<1>2. CASE t < h
  <2>1. t + n - h = n * 0 + (t - h + n) /\ (t - h + n) \in 0 .. n - 1
    BY <1>2
  <2> QED BY <1>2, <2>1, RemainderUnique
<1> QED BY <1>1, <1>2

\* Positions less than one pool apart have different slots.
LEMMA SlotsApart ==
  ASSUME NEW n \in Nat \ {0}, NEW h \in Nat, NEW d \in 0 .. n - 1, NEW e \in 0 .. n - 1, d # e
  PROVE  (h + d) % n # (h + e) % n
<1>1. h % n \in 0 .. n - 1
  BY DivMod
<1>2. /\ (h + d) % n = IF (h % n) + d < n THEN (h % n) + d ELSE (h % n) + d - n
      /\ (h + e) % n = IF (h % n) + e < n THEN (h % n) + e ELSE (h % n) + e - n
  BY RemainderPlus, Zenon
<1> QED BY <1>1, <1>2

-----------------------------------------------------------------------------
\* The window of provided buffers.

\* Types, without the divisors.
LEMMA PoolTypes ==
  ASSUME PoolInv
  PROVE  /\ entries \in Nat \ {0} /\ 2 * entries <= TailModulus
         /\ TailModulus \in Nat \ {0} /\ Modulus \in Nat \ {0}
         /\ tail_local \in Nat /\ head \in Nat /\ tail \in Nat
         /\ head < TailModulus /\ tail < TailModulus
         /\ head \in 0 .. TailModulus - 1 /\ tail \in 0 .. TailModulus - 1
<1>1. entries \in Counts /\ ValidCount(entries)
  BY DEF PoolInv
<1>2. /\ entries \in Nat \ {0} /\ 2 * entries <= TailModulus
      /\ TailModulus \in Nat \ {0} /\ Modulus \in Nat \ {0}
  BY <1>1, Sizes, Zenon
<1> QED BY <1>2 DEF PoolInv, Index

\* The count as a distance between a truncated position and the head.
LEMMA CountIsDistance ==
  ASSUME PoolInv
  PROVE  /\ tail_local % TailModulus \in 0 .. TailModulus - 1
         /\ Count = IF tail_local % TailModulus >= head THEN (tail_local % TailModulus) - head
                    ELSE (tail_local % TailModulus) - head + TailModulus
         /\ Visible = IF tail >= head THEN tail - head ELSE tail - head + TailModulus
         /\ Count \in Nat /\ Visible \in Nat
<1>1. /\ TailModulus \in Nat \ {0} /\ tail_local \in Int
      /\ head \in 0 .. TailModulus - 1 /\ tail \in 0 .. TailModulus - 1
  BY PoolTypes
<1>2. tail_local % TailModulus \in 0 .. TailModulus - 1
  BY <1>1, DivMod
<1>3. /\ Count = IF tail_local % TailModulus >= head THEN (tail_local % TailModulus) - head
                  ELSE (tail_local % TailModulus) - head + TailModulus
      /\ Visible = IF tail >= head THEN tail - head ELSE tail - head + TailModulus
  BY <1>1, <1>2, Distance, Zenon DEF Count, Visible
<1> QED BY <1>1, <1>2, <1>3

\* While the application holds a buffer, the kernel cannot have all of them:
\* there is a free slot.
LEMMA RoomForHeld ==
  ASSUME PoolInv, held # {}
  PROVE  Count < entries
<1>1. Count \in Nat /\ entries \in Nat \ {0}
  BY CountIsDistance, PoolTypes
<1>2. PICK bid \in held : TRUE
  OBVIOUS
<1> DEFINE f == [i \in 1 .. Count |-> At(i)]
           T == Buffer \ {bid}
<1>3. bid \in Buffer /\ IsFiniteSet(Buffer) /\ Cardinality(Buffer) = entries
  BY <1>1, FS_Interval DEF Buffer, PoolInv
<1>4. IsFiniteSet(T) /\ Cardinality(T) = entries - 1
  BY <1>3, FS_RemoveElement
<1>5. \A i \in 1 .. Count : At(i) \in T
  <2> SUFFICES ASSUME NEW i \in 1 .. Count PROVE At(i) \in T
    OBVIOUS
  <2>1. head + i - 1 \in Int
    BY <1>1, PoolTypes
  <2>2. (head + i - 1) % entries \in 0 .. entries - 1
    BY <1>1, <2>1, DivMod
  <2> QED BY <2>2 DEF PoolInv, At
<1>6. f \in [1 .. Count -> T] /\ \A i, j \in 1 .. Count : f[i] = f[j] => i = j
  BY <1>5 DEF PoolInv
<1>7. f \in Injection(1 .. Count, T)
  BY <1>6 DEF Injection, IsInjective
<1>8. Cardinality(1 .. Count) <= Cardinality(T)
  BY <1>4, <1>7, FS_Injection
<1>9. Cardinality(1 .. Count) = Count
  BY <1>1, FS_Interval
<1> QED BY <1>1, <1>4, <1>8, <1>9

\* recycle_raw puts the buffer behind the others.
LEMMA RecycleWindow ==
  ASSUME PoolInv, NEW bid \in held, RecycleRaw(bid), UNCHANGED <<entries, head>>
  PROVE  /\ tail_local' \in Index
         /\ bring' \in [0 .. entries - 1 -> Buffer]
         /\ Count' = Count + 1 /\ Count + 1 <= entries
         /\ \A i \in 1 .. Count + 1 : At(i)' = IF i = Count + 1 THEN bid ELSE At(i)
         /\ tail_local' % TailModulus \in 0 .. TailModulus - 1
<1> DEFINE T == tail_local % TailModulus
           U == tail_local' % TailModulus
           slot == tail_local % entries
<1>1. /\ entries \in Nat \ {0} /\ 2 * entries <= TailModulus
      /\ TailModulus \in Nat \ {0} /\ Modulus \in Nat \ {0}
      /\ tail_local \in Nat /\ tail_local + 1 \in Nat /\ head \in Nat /\ head \in 0 .. TailModulus - 1
  BY PoolTypes
<1>2. PICK l \in Nat : TailModulus = entries * l
  BY Sizes DEF PoolInv
<1>3. PICK m \in Nat : Modulus = TailModulus * m
  BY Sizes DEF PoolInv
<1>4. Count < entries /\ Count \in Nat /\ T \in 0 .. TailModulus - 1
  BY RoomForHeld, CountIsDistance
<1>5. Count = IF T >= head THEN T - head ELSE T - head + TailModulus
  BY CountIsDistance
<1>6. tail_local' = (tail_local + 1) % Modulus /\ bring' = [bring EXCEPT ![slot] = bid]
  BY DEF RecycleRaw, WrappingAdd
<1>7. tail_local' \in Index
  BY <1>1, <1>6, DivMod DEF Index
<1>8. U = IF T + 1 < TailModulus THEN T + 1 ELSE T + 1 - TailModulus
  <2>2. U = (tail_local + 1) % TailModulus
    BY <1>1, <1>3, <1>6, RemainderTwice, Zenon
  <2>3. 1 \in 0 .. TailModulus - 1
    BY <1>1
  <2> QED BY <1>1, <2>2, <2>3, RemainderPlus, Zenon
<1>9. U \in 0 .. TailModulus - 1
  BY <1>1, <1>4, <1>8
<1>10. Count' = IF U >= head THEN U - head ELSE U - head + TailModulus
  BY <1>1, <1>9, Distance, Zenon DEF Count
<1> HIDE DEF T, U
<1>11. Count' = Count + 1 /\ Count + 1 <= entries
  BY <1>1, <1>4, <1>5, <1>8, <1>10
<1>12. slot = (head + Count) % entries
  <2>1. (head + Count) % TailModulus = T
    <3>1. CASE T >= head
      <4>1. head + Count = TailModulus * 0 + T
        BY <1>1, <1>4, <1>5, <3>1
      <4> QED BY <1>1, <1>4, <4>1, RemainderUnique
    <3>2. CASE T < head
      <4>1. head + Count = TailModulus * 1 + T
        BY <1>1, <1>4, <1>5, <3>2
      <4> QED BY <1>1, <1>4, <4>1, RemainderUnique
    <3> QED BY <1>1, <1>4, <3>1, <3>2
  <2>2. head + Count \in Nat
    BY <1>1, <1>4
  <2>3. ((head + Count) % TailModulus) % entries = (head + Count) % entries
    BY <1>1, <1>2, <2>2, RemainderTwice, Zenon
  <2>4. (tail_local % TailModulus) % entries = tail_local % entries
    BY <1>1, <1>2, RemainderTwice, Zenon
  <2> QED BY <2>1, <2>3, <2>4 DEF T
<1>13. slot \in 0 .. entries - 1
  BY <1>1, DivMod
<1>14. bring' \in [0 .. entries - 1 -> Buffer]
  BY <1>6, <1>13 DEF PoolInv
<1>15. ASSUME NEW i \in 1 .. Count PROVE At(i)' = At(i)
  <2>1. i - 1 \in 0 .. entries - 1 /\ Count \in 0 .. entries - 1 /\ i - 1 # Count
        /\ head + (i - 1) = head + i - 1
    BY <1>1, <1>4
  <2>2. (head + i - 1) % entries # slot
    BY <1>1, <1>12, <2>1, SlotsApart, Zenon
  <2>3. head + i - 1 \in Int
    BY <1>1, <2>1
  <2>4. (head + i - 1) % entries \in 0 .. entries - 1
    BY <1>1, <2>3, DivMod
  <2> HIDE DEF slot
  <2> QED BY <1>6, <2>2, <2>4 DEF At, PoolInv
<1>16. ASSUME NEW i \in 1 .. Count + 1, i = Count + 1 PROVE At(i)' = bid
  <2>1. head + i - 1 = head + Count
    BY <1>1, <1>4, <1>16
  <2>2. At(i)' = bring'[(head + i - 1) % entries]
    BY DEF At
  <2>3. At(i)' = bring'[slot]
    BY <1>12, <2>1, <2>2
  <2> HIDE DEF slot
  <2> QED BY <1>6, <1>13, <2>3 DEF PoolInv
<1>17. \A i \in 1 .. Count + 1 : i \in 1 .. Count \/ i = Count + 1
  BY <1>4
<1> QED BY <1>7, <1>9, <1>11, <1>14, <1>15, <1>16, <1>17 DEF U

-----------------------------------------------------------------------------
\* The steps.

\* Registration provides every buffer, in order.
LEMMA RegisterInv ==
  ASSUME Init, NEW count \in Counts, Register(count)
  PROVE  PoolInv'
<1>1. ValidCount(count) /\ count \in Nat \ {0} /\ 2 * count <= TailModulus /\ TailModulus \in Nat \ {0}
      /\ Modulus \in Nat \ {0}
  <2>1. ValidCount(count)
    BY DEF Register
  <2> QED BY <2>1, Sizes, Zenon
<1>2. TailModulus <= Modulus
  <2>1. PICK m \in Nat : Modulus = TailModulus * m
    BY <1>1, Sizes, Zenon
  <2>2. m >= 1
    BY <1>1, <2>1
  <2> QED BY <1>1, <2>1, <2>2
<1>3. tail_local' = count
  <2>1. tail_local' = (0 + count) % Modulus
    BY DEF Init, Register, WrappingAdd
  <2>2. 0 + count = Modulus * 0 + count /\ count \in 0 .. Modulus - 1
    BY <1>1, <1>2
  <2> QED BY <1>1, <2>1, <2>2, RemainderUnique
<1>4. count % TailModulus = count /\ count \in 0 .. TailModulus - 1
  <2>1. count = TailModulus * 0 + count /\ count \in 0 .. TailModulus - 1
    BY <1>1
  <2> QED BY <1>1, <2>1, RemainderUnique
<1>5. /\ entries' = count /\ bring' = [slot \in 0 .. count - 1 |-> slot] /\ tail' = count
      /\ head' = 0 /\ head' \in 0 .. TailModulus - 1
      /\ held' = {} /\ leaked' = {} /\ tokens' = {} /\ delivered' = {} /\ lease' = {}
  BY <1>1, <1>3, <1>4 DEF Init, Register
<1>6. Count' = count /\ Visible' = count
  BY <1>1, <1>3, <1>4, <1>5, Distance DEF Count, Visible
<1>7. ASSUME NEW i \in 1 .. count PROVE At(i)' = i - 1
  <2>1. i - 1 = count * 0 + (i - 1) /\ i - 1 \in 0 .. count - 1 /\ 0 + i - 1 = i - 1
    BY <1>1
  <2>2. (i - 1) % count = i - 1
    BY <1>1, <2>1, RemainderUnique
  <2>3. At(i)' = bring'[(0 + i - 1) % count]
    BY <1>5 DEF At
  <2> QED BY <1>5, <2>1, <2>2, <2>3
<1>8. \A bid \in Buffer' : bid + 1 \in 1 .. count /\ At(bid + 1)' = bid
  <2> SUFFICES ASSUME NEW bid \in 0 .. count - 1, NEW i \in 1 .. count, i = bid + 1
               PROVE  At(i)' = bid
    BY <1>1, <1>5 DEF Buffer
  <2> QED BY <1>1, <1>7
<1>9. tail_local' \in Index /\ tail' \in 0 .. TailModulus - 1
  BY <1>1, <1>2, <1>3, <1>4, <1>5 DEF Index
<1>10. bring' \in [0 .. entries' - 1 -> Buffer']
  BY <1>5 DEF Buffer
<1>11. \A i, j \in 1 .. Count' : At(i)' = At(j)' => i = j
  BY <1>1, <1>6, <1>7
<1>12. \A bid \in Buffer' : \E i \in 1 .. Count' : At(i)' = bid
  BY <1>6, <1>8
<1> QED BY <1>1, <1>5, <1>6, <1>9, <1>10, <1>11, <1>12 DEF PoolInv

\* A buffer the application returns, committed or not.
LEMMA ReturnInv ==
  ASSUME PoolInv, NEW bid \in held, RecycleRaw(bid), UNCHANGED <<entries, head, leaked>>,
         held' = held \ {bid}, CommitTail \/ UNCHANGED tail,
         tokens' \subseteq delivered', delivered' \subseteq held',
         lease' \subseteq held' \ delivered', \A a, b \in lease' : a = b
  PROVE  PoolInv'
<1>1. /\ tail_local' \in Index
      /\ bring' \in [0 .. entries - 1 -> Buffer]
      /\ Count' = Count + 1 /\ Count + 1 <= entries
      /\ \A i \in 1 .. Count + 1 : At(i)' = IF i = Count + 1 THEN bid ELSE At(i)
      /\ tail_local' % TailModulus \in 0 .. TailModulus - 1
  BY RecycleWindow
<1>2. Count \in Nat /\ Visible \in Nat /\ entries \in Nat
  BY CountIsDistance, PoolTypes
<1>3. Buffer' = Buffer
  BY DEF Buffer
<1>4. tail' \in 0 .. TailModulus - 1 /\ Visible' <= Count'
  <2>1. CASE UNCHANGED tail
    <3>1. Visible' = Visible
      BY <2>1 DEF Visible
    <3> QED BY <1>1, <1>2, <2>1, <3>1 DEF PoolInv
  <2>2. CASE CommitTail
    <3>1. tail' = tail_local' % TailModulus
      BY <2>2 DEF CommitTail
    <3>2. TailModulus \in Nat \ {0} /\ head \in 0 .. TailModulus - 1
      BY PoolTypes
    <3>3. Visible' = Count'
      BY <1>1, <3>1, <3>2, Distance DEF Visible, Count
    <3> QED BY <1>1, <1>2, <3>1, <3>3
  <2> QED BY <2>1, <2>2
<1>5. \A i \in 1 .. Count + 1 : i \in 1 .. Count \/ i = Count + 1
  BY <1>2
<1>6. \A i \in 1 .. Count : i \in 1 .. Count + 1 /\ i # Count + 1 /\ At(i) # bid /\ At(i)' = At(i)
  BY <1>1, <1>2 DEF PoolInv
<1>7. \A i, j \in 1 .. Count' : At(i)' = At(j)' => i = j
  <2> SUFFICES ASSUME NEW i \in 1 .. Count + 1, NEW j \in 1 .. Count + 1, At(i)' = At(j)'
               PROVE  i = j
    BY <1>1
  <2> QED BY <1>1, <1>5, <1>6 DEF PoolInv
<1>8. \A i \in 1 .. Count' : At(i)' \notin held' \cup leaked'
  <2> SUFFICES ASSUME NEW i \in 1 .. Count + 1 PROVE At(i)' \notin held' \cup leaked
    BY <1>1
  <2> QED BY <1>1, <1>5, <1>6 DEF PoolInv
<1>9. \A b \in Buffer' \ (held' \cup leaked') : \E i \in 1 .. Count' : At(i)' = b
  <2> SUFFICES ASSUME NEW b \in Buffer \ (held' \cup leaked) PROVE \E i \in 1 .. Count + 1 : At(i)' = b
    BY <1>1, <1>3
  <2>1. CASE b = bid
    <3>1. Count + 1 \in 1 .. Count + 1
      BY <1>2
    <3> QED BY <1>1, <2>1, <3>1
  <2>2. CASE b # bid
    <3>1. PICK i \in 1 .. Count : At(i) = b
      BY <2>2 DEF PoolInv
    <3> QED BY <1>6, <3>1
  <2> QED BY <2>1, <2>2
<1>10. held' \subseteq Buffer' /\ held' \cap leaked' = {} /\ leaked' \subseteq Buffer'
  BY <1>3 DEF PoolInv
<1> QED BY <1>1, <1>3, <1>4, <1>7, <1>8, <1>9, <1>10 DEF PoolInv

\* The kernel takes the first of the provided buffers.
LEMMA DeliverInv ==
  ASSUME PoolInv, Deliver
  PROVE  PoolInv'
<1> DEFINE bid == bring[head % entries]
<1>1. /\ entries \in Nat \ {0} /\ 2 * entries <= TailModulus
      /\ TailModulus \in Nat \ {0}
      /\ head \in Nat /\ head < TailModulus /\ head \in 0 .. TailModulus - 1
      /\ tail \in 0 .. TailModulus - 1
  BY PoolTypes
<1>2. PICK l \in Nat : TailModulus = entries * l
  <2>1. entries \in Counts /\ ValidCount(entries)
    BY DEF PoolInv
  <2> QED BY <2>1, Sizes, Zenon
<1>3. /\ Visible # 0 /\ Visible \in Nat /\ Count \in Nat /\ Visible <= Count /\ Count <= entries
      /\ tail_local % TailModulus \in 0 .. TailModulus - 1
  BY CountIsDistance DEF PoolInv, Deliver
<1>4. UNCHANGED <<entries, bring, tail_local, tail, delivered, tokens, lease, leaked>>
      /\ held' = held \cup {bid} /\ head' = (head + 1) % TailModulus
  BY DEF Deliver
<1>5. head' = (IF head + 1 < TailModulus THEN head + 1 ELSE 0) /\ head' \in 0 .. TailModulus - 1
  <2>1. CASE head + 1 < TailModulus
    <3>1. head + 1 = TailModulus * 0 + (head + 1) /\ head + 1 \in 0 .. TailModulus - 1
      BY <1>1, <2>1
    <3> QED BY <1>1, <1>4, <2>1, <3>1, RemainderUnique
  <2>2. CASE head + 1 = TailModulus
    <3>1. head + 1 = TailModulus * 1 + 0 /\ 0 \in 0 .. TailModulus - 1
      BY <1>1, <2>2
    <3> QED BY <1>1, <1>4, <2>2, <3>1, RemainderUnique
  <2> QED BY <1>1, <2>1, <2>2
<1>6. Count' = Count - 1 /\ Visible' = Visible - 1
  <2> DEFINE T == tail_local % TailModulus
  <2>1. /\ Count = IF T >= head THEN T - head ELSE T - head + TailModulus
        /\ Visible = IF tail >= head THEN tail - head ELSE tail - head + TailModulus
    BY CountIsDistance
  <2>2. /\ Count' = IF T >= head' THEN T - head' ELSE T - head' + TailModulus
        /\ Visible' = IF tail >= head' THEN tail - head' ELSE tail - head' + TailModulus
    <3>1. PICK h \in 0 .. TailModulus - 1 : h = head'
      BY <1>5
    <3>2. PICK t \in 0 .. TailModulus - 1 : t = T
      BY <1>3
    <3>3. /\ (t + TailModulus - h) % TailModulus = IF t >= h THEN t - h ELSE t - h + TailModulus
          /\ ((tail + TailModulus) - h) % TailModulus
               = IF tail >= h THEN tail - h ELSE tail - h + TailModulus
      BY <1>1, Distance
    <3>4. /\ Count' = (t + TailModulus - h) % TailModulus
          /\ Visible' = ((tail + TailModulus) - h) % TailModulus
      BY <1>4, <3>1, <3>2, Zenon DEF Count, Visible
    <3> QED BY <3>1, <3>2, <3>3, <3>4, Zenon
  <2>3. T \in 0 .. TailModulus - 1
    BY <1>3
  <2> HIDE DEF T
  <2> QED BY <1>1, <1>3, <1>5, <2>1, <2>2, <2>3
<1>7. ASSUME NEW i \in 1 .. Count - 1 PROVE At(i)' = At(i + 1) /\ i + 1 \in 1 .. Count
  <2>1. i - 1 \in Nat /\ head + 1 \in Nat /\ i + 1 \in 1 .. Count
    BY <1>1, <1>3
  <2>2. (((head + 1) % TailModulus) + (i - 1)) % entries = ((head + 1) + (i - 1)) % entries
    <3>1. PICK x \in Nat : x = head + 1
      BY <2>1
    <3>2. PICK d \in Nat : d = i - 1
      BY <2>1
    <3>3. ((x % TailModulus) + d) % entries = (x + d) % entries
      <4>1. entries \in Nat \ {0} /\ TailModulus \in Nat \ {0}
        BY <1>1
      <4>2. \A y, e \in Nat : ((y % TailModulus) + e) % entries = (y + e) % entries
        BY <1>2, <4>1, RemainderOfRemainder, Zenon
      <4> QED BY <4>2
    <3> QED BY <3>1, <3>2, <3>3
  <2>3. head' + (i - 1) = head' + i - 1 /\ (head + 1) + (i - 1) = head + (i + 1) - 1
    BY <1>1, <1>5, <2>1
  <2>4. At(i)' = bring[(head' + i - 1) % entries] /\ At(i + 1) = bring[(head + (i + 1) - 1) % entries]
    BY <1>4 DEF At
  <2> QED BY <1>4, <2>1, <2>2, <2>3, <2>4
<1>8. At(1) = bid /\ 1 \in 1 .. Count
  <2>1. head + 1 - 1 = head /\ 1 \in 1 .. Count
    BY <1>1, <1>3
  <2> QED BY <2>1 DEF At
<1>9. bid \in Buffer /\ bid \notin held \cup leaked
  <2>1. head % entries \in 0 .. entries - 1
    BY <1>1, DivMod
  <2>2. bid \in Buffer
    BY <2>1 DEF PoolInv
  <2> QED BY <1>8, <2>2 DEF PoolInv
<1> HIDE DEF bid
<1>10. Buffer' = Buffer
  BY <1>4 DEF Buffer
<1>11. \A i, j \in 1 .. Count' : At(i)' = At(j)' => i = j
  <2> SUFFICES ASSUME NEW i \in 1 .. Count - 1, NEW j \in 1 .. Count - 1, At(i)' = At(j)' PROVE i = j
    BY <1>6
  <2>1. i + 1 = j + 1
    BY <1>7 DEF PoolInv
  <2> QED BY <1>3, <2>1
<1>12. \A i \in 1 .. Count' : At(i)' \notin held' \cup leaked'
  <2> SUFFICES ASSUME NEW i \in 1 .. Count - 1 PROVE At(i)' \notin held \cup {bid} \cup leaked
    BY <1>4, <1>6
  <2>1. i + 1 # 1
    BY <1>3
  <2> QED BY <1>7, <1>8, <2>1 DEF PoolInv
<1>13. \A b \in Buffer' \ (held' \cup leaked') : \E i \in 1 .. Count' : At(i)' = b
  <2> SUFFICES ASSUME NEW b \in Buffer \ (held \cup {bid} \cup leaked)
               PROVE  \E i \in 1 .. Count - 1 : At(i)' = b
    BY <1>4, <1>6, <1>10
  <2>1. PICK j \in 1 .. Count : At(j) = b
    BY DEF PoolInv
  <2>2. j # 1
    BY <1>8, <2>1
  <2>3. j - 1 \in 1 .. Count - 1 /\ (j - 1) + 1 = j
    BY <1>3, <2>2
  <2>4. \A i \in 1 .. Count - 1 : At(i)' = At(i + 1)
    BY <1>7
  <2>5. PICK i \in 1 .. Count - 1 : i + 1 = j
    BY <2>3
  <2> QED BY <2>1, <2>4, <2>5
<1>14. /\ held' \subseteq Buffer' /\ held' \cap leaked' = {} /\ leaked' \subseteq Buffer'
       /\ delivered' \subseteq held' /\ lease' \subseteq held' \ delivered'
  BY <1>4, <1>9, <1>10 DEF PoolInv
<1>15. Visible' <= Count' /\ Count' <= entries
  BY <1>1, <1>3, <1>6
<1> QED BY <1>4, <1>5, <1>10, <1>11, <1>12, <1>13, <1>14, <1>15 DEF PoolInv

\* Steps that leave ring and tails alone.
LEMMA SameWindow ==
  ASSUME PoolInv, UNCHANGED <<entries, bring, tail_local, tail, head>>,
         held' \cup leaked' = held \cup leaked, held' \cap leaked' = {},
         tokens' \subseteq delivered', delivered' \subseteq held',
         lease' \subseteq held' \ delivered', \A a, b \in lease' : a = b
  PROVE  PoolInv'
<1>1. Count' = Count /\ Visible' = Visible /\ Buffer' = Buffer /\ \A i : At(i)' = At(i)
  BY DEF Count, Visible, Buffer, At
<1>2. held' \subseteq Buffer /\ leaked' \subseteq Buffer
  BY DEF PoolInv
<1>3. /\ \A i, j \in 1 .. Count' : At(i)' = At(j)' => i = j
      /\ \A i \in 1 .. Count' : At(i)' \notin held' \cup leaked'
      /\ \A bid \in Buffer' \ (held' \cup leaked') : \E i \in 1 .. Count' : At(i)' = bid
  BY <1>1 DEF PoolInv
<1> QED BY <1>1, <1>2, <1>3 DEF PoolInv

\* commit by itself.
LEMMA CommitInv ==
  ASSUME PoolInv, Commit
  PROVE  PoolInv'
<1>1. /\ UNCHANGED <<entries, bring, tail_local, head, held, delivered, tokens, lease, leaked>>
      /\ tail' = tail_local % TailModulus
  BY DEF Commit, CommitTail
<1>2. Count' = Count /\ Buffer' = Buffer /\ \A i : At(i)' = At(i)
  BY <1>1 DEF Count, Buffer, At
<1>3. tail_local % TailModulus \in 0 .. TailModulus - 1 /\ Count \in Nat
  BY CountIsDistance
<1>4. TailModulus \in Nat \ {0} /\ head \in 0 .. TailModulus - 1
  BY PoolTypes
<1>5. Visible' = Count
  BY <1>1, <1>3, <1>4, Distance DEF Visible, Count
<1>6. /\ \A i, j \in 1 .. Count' : At(i)' = At(j)' => i = j
      /\ \A i \in 1 .. Count' : At(i)' \notin held' \cup leaked'
      /\ \A bid \in Buffer' \ (held' \cup leaked') : \E i \in 1 .. Count' : At(i)' = bid
  BY <1>1, <1>2 DEF PoolInv
<1> QED BY <1>1, <1>2, <1>3, <1>5, <1>6 DEF PoolInv

\* Every step of a registered pool keeps the invariant.
LEMMA StepInv ==
  ASSUME PoolInv, [Next]_vars
  PROVE  PoolInv'
<1>1. /\ entries # 0 /\ tokens \subseteq delivered /\ delivered \subseteq held
      /\ lease \subseteq held \ delivered /\ held \cap leaked = {}
      /\ \A a, b \in lease : a = b
  BY DEF PoolInv, ValidCount
<1>2. ASSUME NEW count \in Counts, Register(count) PROVE PoolInv'
  BY <1>1, <1>2 DEF Register
<1>3. ASSUME NEW bid \in held, NEW commit \in BOOLEAN, Recycle(bid, commit) PROVE PoolInv'
  <2>1. /\ RecycleRaw(bid) /\ UNCHANGED <<entries, head, leaked>> /\ held' = held \ {bid}
        /\ CommitTail \/ UNCHANGED tail
        /\ bid \notin delivered /\ lease = {}
        /\ delivered' = delivered /\ tokens' = tokens /\ lease' = lease
    BY <1>3 DEF Recycle, Free
  <2> QED BY <1>1, <2>1, ReturnInv
<1>4. CASE Commit
  BY <1>4, CommitInv
<1>5. ASSUME NEW bid \in held, Claim(bid) PROVE PoolInv'
  <2>1. /\ UNCHANGED <<entries, bring, tail_local, tail, head, held, delivered, tokens, leaked>>
        /\ bid \notin delivered /\ lease' = {bid}
    BY <1>5 DEF Claim, Lease
  <2> QED BY <1>1, <2>1, SameWindow
<1>6. CASE DropLease
  <2>1. PICK bid \in lease : RecycleRaw(bid)
    BY <1>6 DEF DropLease
  <2>2. lease = {bid}
    BY <1>1
  <2>3. /\ UNCHANGED <<entries, head, leaked>> /\ held' = held \ {bid} /\ CommitTail
        /\ delivered' = delivered /\ tokens' = tokens /\ lease' = {}
    BY <1>6, <2>2 DEF DropLease
  <2>4. bid \in held /\ bid \notin delivered
    BY <1>1
  <2> QED BY <1>1, <2>1, <2>3, <2>4, ReturnInv
<1>7. CASE ForgetLease
  <2>1. /\ UNCHANGED <<entries, bring, tail_local, tail, head, delivered, tokens>>
        /\ lease' = {} /\ leaked' = leaked \cup lease /\ held' = held \ lease
    BY <1>7 DEF ForgetLease
  <2> QED BY <1>1, <2>1, SameWindow
<1>8. ASSUME NEW bid \in held, Acknowledge(bid) PROVE PoolInv'
  <2>1. /\ UNCHANGED <<entries, bring, tail_local, tail, head, held, lease, leaked>>
        /\ delivered' = delivered \cup {bid} /\ tokens' = tokens \cup {bid} /\ lease = {}
    BY <1>8 DEF Acknowledge, Free
  <2> QED BY <1>1, <2>1, SameWindow
<1>9. ASSUME NEW token \in tokens, NEW commit \in BOOLEAN, RecycleAcknowledged(token, commit)
      PROVE  PoolInv'
  <2>1. /\ RecycleRaw(token) /\ UNCHANGED <<entries, head, leaked>> /\ held' = held \ {token}
        /\ CommitTail \/ UNCHANGED tail
        /\ tokens' = tokens \ {token} /\ delivered' = delivered \ {token}
        /\ lease = {} /\ lease' = lease
    BY <1>9 DEF RecycleAcknowledged, Free
  <2>2. token \in held
    BY <1>1
  <2> QED BY <1>1, <2>1, <2>2, ReturnInv
<1>10. ASSUME NEW token \in tokens, DropToken(token) PROVE PoolInv'
  <2>1. /\ UNCHANGED <<entries, bring, tail_local, tail, head, held, delivered, lease, leaked>>
        /\ tokens' = tokens \ {token}
    BY <1>10 DEF DropToken
  <2> QED BY <1>1, <2>1, SameWindow
<1>11. CASE Deliver
  BY <1>11, DeliverInv
<1>12. CASE UNCHANGED vars
  BY <1>1, <1>12, SameWindow DEF vars
<1> QED
  BY <1>2, <1>3, <1>4, <1>5, <1>6, <1>7, <1>8, <1>9, <1>10, <1>11, <1>12 DEF Next

\* Tail and head start level.
LEMMA EmptyWindow ==
  /\ ((0 % TailModulus) + TailModulus - 0) % TailModulus = 0
  /\ ((0 + TailModulus) - 0) % TailModulus = 0
<1>1. TailModulus \in Nat \ {0} /\ 0 \in 0 .. TailModulus - 1 /\ 0 = TailModulus * 0 + 0
  BY PoolAssumption
<1>2. 0 % TailModulus = 0
  BY <1>1, RemainderUnique
<1>3. /\ (0 + TailModulus - 0) % TailModulus = IF 0 >= 0 THEN 0 - 0 ELSE 0 - 0 + TailModulus
      /\ ((0 + TailModulus) - 0) % TailModulus = IF 0 >= 0 THEN 0 - 0 ELSE 0 - 0 + TailModulus
  BY <1>1, Distance, Zenon
<1>4. (0 + TailModulus - 0) % TailModulus = 0 /\ ((0 + TailModulus) - 0) % TailModulus = 0
  BY <1>3
<1> QED BY <1>2, <1>4, Zenon

\* Before registration nothing else can happen.
LEMMA UnregisteredStep ==
  ASSUME Init, [Next]_vars
  PROVE  Init' \/ PoolInv'
<1>1. Visible = 0
  BY EmptyWindow DEF Init, Visible
<1>2. ~ Free /\ held = {} /\ tokens = {} /\ lease = {}
  BY DEF Init, Free
<1>3. CASE UNCHANGED vars
  BY <1>3 DEF Init, vars
<1>4. ASSUME NEW count \in Counts, Register(count) PROVE PoolInv'
  BY <1>4, RegisterInv
<1>5. ~ Commit /\ ~ DropLease /\ ~ ForgetLease /\ ~ Deliver
  BY <1>1, <1>2 DEF Commit, DropLease, ForgetLease, Deliver
<1> QED BY <1>2, <1>3, <1>4, <1>5 DEF Next

\* A pool is unregistered, or its provided, held and leaked buffers share it out.
THEOREM PoolSharedOut == Spec => [](Init \/ PoolInv)
<1>1. (Init \/ PoolInv) /\ [Next]_vars => (Init \/ PoolInv)'
  BY StepInv, UnregisteredStep
<1> QED BY <1>1, PTL DEF Spec

\* What the invariant says of the sequence of provided buffers.
LEMMA ProvidedIs ==
  /\ DOMAIN Provided = 1 .. Count
  /\ \A i \in 1 .. Count : Provided[i] = At(i)
  BY DEF Provided, Count, At

\* No buffer is offered to the kernel twice or while the application has it,
\* for pools of every size and tails of every width: recycle, leases and tokens
\* each write a slot the kernel has already read (pbuf.rs recycle_raw).
THEOREM PoolNoDoubleProvide == Spec => []NoDoubleProvide
<1>1. Init => NoDoubleProvide
  <2> SUFFICES ASSUME Init PROVE NoDoubleProvide
    OBVIOUS
  <2>1. Count = 0
    BY EmptyWindow DEF Init, Count
  <2>2. DOMAIN Provided = {}
    BY <2>1, ProvidedIs
  <2> QED BY <2>2 DEF NoDoubleProvide, IsInjective
<1>2. PoolInv => NoDoubleProvide
  BY ProvidedIs DEF PoolInv, NoDoubleProvide, IsInjective
<1> QED BY <1>1, <1>2, PoolSharedOut, PTL

\* Every buffer of a registered pool is with the kernel, with the application
\* or behind a forgotten lease, and the published tail never runs ahead of what
\* was provided, wherever the two widths of the tail wrap.
THEOREM PoolAccounted == Spec => []EveryBufferAccounted
<1>1. Init => EveryBufferAccounted
  <2> SUFFICES ASSUME Init PROVE EveryBufferAccounted
    OBVIOUS
  <2>1. Count = 0 /\ Visible = 0
    BY EmptyWindow DEF Init, Count, Visible
  <2>2. DOMAIN Provided = {} /\ Len(Provided) = 0
    <3>1. Provided = [i \in 1 .. Count |-> bring[(head + i - 1) % entries]]
      BY DEF Provided, Count
    <3> QED BY <2>1, <3>1
  <2>3. Range(Provided) = {}
    BY <2>2 DEF Range
  <2>4. Buffer = {} /\ held = {} /\ leaked = {}
    BY DEF Init, Buffer
  <2> QED BY <2>1, <2>2, <2>3, <2>4 DEF EveryBufferAccounted
<1>2. PoolInv => EveryBufferAccounted
  <2> SUFFICES ASSUME PoolInv PROVE EveryBufferAccounted
    OBVIOUS
  <2>1. Count \in Nat /\ Visible <= Count
    BY CountIsDistance DEF PoolInv
  <2>2. Len(Provided) = Count
    <3>1. Provided = [i \in 1 .. Count |-> bring[(head + i - 1) % entries]]
      BY DEF Provided, Count
    <3> QED BY <2>1, <3>1
  <2>3. Range(Provided) = {At(i) : i \in 1 .. Count}
    BY ProvidedIs DEF Range
  <2>4. ASSUME NEW i \in 1 .. Count PROVE At(i) \in Buffer
    <3>1. entries \in Nat \ {0} /\ head + i - 1 \in Int
      BY <2>1, PoolTypes
    <3>2. (head + i - 1) % entries \in 0 .. entries - 1
      BY <3>1, DivMod, Zenon
    <3> QED BY <3>2 DEF At, PoolInv
  <2>5. Buffer = {At(i) : i \in 1 .. Count} \cup held \cup leaked
    BY <2>4 DEF PoolInv
  <2> QED BY <2>1, <2>2, <2>3, <2>5 DEF EveryBufferAccounted
<1> QED BY <1>1, <1>2, PoolSharedOut, PTL

\* The ledger and its tokens agree with the deliveries that are still out, so a
\* token can be redeemed once and acknowledge refuses no fresh delivery.
THEOREM PoolLedger == Spec => []LedgerMatchesDeliveries
<1>1. Init \/ PoolInv => LedgerMatchesDeliveries
  BY DEF Init, PoolInv, LedgerMatchesDeliveries
<1> QED BY <1>1, PoolSharedOut, PTL

-----------------------------------------------------------------------------
\* Multishot requests.

\* An unregistered pool shows the kernel nothing.
LEMMA NothingVisible ==
  ASSUME Init
  PROVE  Visible = 0 /\ ~ Free
  BY EmptyWindow DEF Init, Visible, Free

\* The buffer the kernel takes is one the application does not have.
LEMMA DeliversFresh ==
  ASSUME PoolInv, Visible # 0
  PROVE  bring[head % entries] \in Nat /\ bring[head % entries] \notin held
<1>1. entries \in Nat \ {0} /\ head \in Nat
  BY PoolTypes
<1>2. head % entries \in 0 .. entries - 1
  BY <1>1, DivMod
<1>3. Count \in Nat /\ Visible \in Nat /\ Visible <= Count
  BY CountIsDistance DEF PoolInv
<1>4. 1 \in 1 .. Count /\ At(1) = bring[head % entries]
  <2>1. head + 1 - 1 = head /\ 1 \in 1 .. Count
    BY <1>1, <1>3
  <2> QED BY <2>1 DEF At
<1>5. bring[head % entries] \in Buffer /\ Buffer \subseteq Nat
  BY <1>1, <1>2 DEF PoolInv, Buffer
<1> QED BY <1>4, <1>5, Zenon DEF PoolInv

\* The buffers that unread completions carry, before and after a step.
LEMMA Carried ==
  /\ \A x : x \in InCq <=> \E i \in Unread : x \in cq[i].buffer
  /\ \A x : x \in InCq' <=> \E i \in Unread' : x \in cq'[i].buffer
<1>1. \A x : x \in InCq <=> \E i \in Unread : x \in cq[i].buffer
  BY DEF InCq
<1>2. \A x : x \in InCq' <=> \E i \in Unread' : x \in cq'[i].buffer
  BY DEF InCq
<1> QED BY <1>1, <1>2

\* A completion is posted: the unread buffers gain the one it carries.
LEMMA PostOwners ==
  ASSUME cq \in Seq(Completion), NEW c \in Completion, cq' = Append(cq, c),
         c.buf_more \/ c.buffer \cap InCq = {},
         \A i, j \in Unread : cq[i].buffer = cq[j].buffer => i = j
  PROVE  /\ cq' \in Seq(Completion)
         /\ InCq' = InCq \cup (IF c.buf_more THEN {} ELSE c.buffer)
         /\ \A i, j \in Unread' : cq'[i].buffer = cq'[j].buffer => i = j
<1> DEFINE n == Len(cq)
<1>1. /\ n \in Nat /\ DOMAIN cq = 1 .. n /\ DOMAIN cq' = 1 .. n + 1
      /\ \A i \in 1 .. n : cq'[i] = cq[i]
      /\ cq'[n + 1] = c /\ cq' \in Seq(Completion)
  OBVIOUS
<1> HIDE DEF n
<1>2. Unread' = Unread \cup (IF c.buf_more \/ c.buffer = {} THEN {} ELSE {n + 1})
  <2>1. Unread' = {i \in 1 .. n + 1 : ~cq'[i].buf_more /\ cq'[i].buffer # {}}
    BY <1>1 DEF Unread
  <2>2. Unread = {i \in 1 .. n : ~cq[i].buf_more /\ cq[i].buffer # {}}
    BY <1>1 DEF Unread
  <2> QED BY <1>1, <2>1, <2>2
<1>3. /\ \A i \in Unread : i \in 1 .. n /\ cq'[i] = cq[i] /\ cq[i].buffer \subseteq InCq
                           /\ cq[i].buffer # {}
      /\ n + 1 \notin 1 .. n
  BY <1>1 DEF Unread, InCq
<1>4. CASE c.buf_more \/ c.buffer = {}
  <2>1. Unread' = Unread
    BY <1>2, <1>4
  <2>2. InCq' = InCq
    <3>1. \A x : x \in InCq' <=> x \in InCq
      BY <1>3, Carried, <2>1, Zenon
    <3> QED BY <3>1, Zenon
  <2> QED BY <1>1, <1>3, <1>4, <2>1, <2>2
<1>5. CASE ~c.buf_more /\ c.buffer # {}
  <2>1. Unread' = Unread \cup {n + 1}
    BY <1>2, <1>5
  <2>2. InCq' = InCq \cup c.buffer
    BY <1>1, <1>3, Carried, <2>1
  <2>3. \A i \in Unread : cq[i].buffer # c.buffer
    BY <1>3, <1>5
  <2> QED BY <1>1, <1>3, <1>5, <2>1, <2>2, <2>3
<1> QED BY <1>4, <1>5, Zenon

\* The first completion is reaped: its buffer leaves the unread ones.
LEMMA ReapOwners ==
  ASSUME cq \in Seq(Completion), cq # << >>, cq' = Tail(cq),
         \A i \in DOMAIN cq : \A a, b \in cq[i].buffer : a = b,
         \A i, j \in Unread : cq[i].buffer = cq[j].buffer => i = j
  PROVE  /\ cq' \in Seq(Completion) /\ Event \in Completion
         /\ InCq' = InCq \ (IF Event.buf_more THEN {} ELSE Event.buffer)
         /\ Event.buf_more \/ Event.buffer \subseteq InCq
         /\ \A i, j \in Unread' : cq'[i].buffer = cq'[j].buffer => i = j
         /\ \A i \in DOMAIN cq' : i + 1 \in DOMAIN cq /\ cq'[i] = cq[i + 1]
<1> DEFINE n == Len(cq)
<1>1. /\ n \in Nat \ {0} /\ DOMAIN cq = 1 .. n /\ DOMAIN cq' = 1 .. n - 1
      /\ \A i \in 1 .. n - 1 : cq'[i] = cq[i + 1] /\ i + 1 \in 1 .. n
      /\ Event = cq[1] /\ Event \in Completion /\ cq' \in Seq(Completion)
  BY DEF Event
<1> HIDE DEF n
<1>2. \A i \in 1 .. n - 1 : i \in Unread' <=> i + 1 \in Unread
  BY <1>1 DEF Unread
<1>3. Unread' \subseteq 1 .. n - 1 /\ Unread \subseteq 1 .. n
  BY <1>1 DEF Unread
<1>4. 1 \in Unread <=> ~Event.buf_more /\ Event.buffer # {}
  BY <1>1 DEF Unread
<1>5. \A i \in Unread' : i + 1 \in Unread /\ i + 1 # 1 /\ cq'[i] = cq[i + 1]
  BY <1>1, <1>2, <1>3
<1>6. \A j \in Unread \ {1} : \E i \in Unread' : cq'[i] = cq[j]
  <2> SUFFICES ASSUME NEW j \in Unread \ {1} PROVE \E i \in Unread' : cq'[i] = cq[j]
    BY Zenon
  <2>1. PICK i \in 1 .. n - 1 : i + 1 = j
    <3>1. j - 1 \in 1 .. n - 1 /\ (j - 1) + 1 = j
      BY <1>1, <1>3
    <3> QED BY <3>1
  <2> QED BY <1>1, <1>2, <2>1, Zenon
<1>7. \A x : x \in InCq' <=> \E j \in Unread \ {1} : x \in cq[j].buffer
  <2>1. \A x : x \in InCq' <=> \E i \in Unread' : x \in cq'[i].buffer
    BY Carried, Zenon
  <2>2. ASSUME NEW x, NEW i \in Unread', x \in cq'[i].buffer
        PROVE  \E j \in Unread \ {1} : x \in cq[j].buffer
    BY <1>5, <2>2, Zenon
  <2>3. ASSUME NEW x, NEW j \in Unread \ {1}, x \in cq[j].buffer
        PROVE  \E i \in Unread' : x \in cq'[i].buffer
    BY <1>6, <2>3, Zenon
  <2> QED BY <2>1, <2>2, <2>3, Zenon
<1>8. ASSUME 1 \in Unread PROVE \A j \in Unread \ {1} : cq[j].buffer \cap Event.buffer = {}
  <2> SUFFICES ASSUME NEW j \in Unread \ {1}, NEW x \in cq[j].buffer, x \in Event.buffer
               PROVE  FALSE
    OBVIOUS
  <2>1. cq[j].buffer = {x} /\ cq[1].buffer = {x}
    BY <1>1, <1>3
  <2> QED BY <1>8, <2>1, Zenon
<1>9. InCq' = InCq \ (IF Event.buf_more THEN {} ELSE Event.buffer)
  <2>1. CASE 1 \in Unread
    BY <1>1, <1>4, Carried, <1>7, <1>8, <2>1
  <2>2. CASE 1 \notin Unread
    BY <1>4, Carried, <1>7, <2>2
  <2> QED BY <2>1, <2>2
<1>10. Event.buf_more \/ Event.buffer \subseteq InCq
  BY <1>1, <1>4 DEF InCq
<1>11. \A i, j \in Unread' : cq'[i].buffer = cq'[j].buffer => i = j
  <2> SUFFICES ASSUME NEW i \in Unread', NEW j \in Unread', cq'[i].buffer = cq'[j].buffer
               PROVE  i = j
    BY Zenon
  <2>1. i + 1 \in Unread /\ j + 1 \in Unread /\ cq[i + 1].buffer = cq[j + 1].buffer
    BY <1>5, Zenon
  <2>2. i + 1 = j + 1
    BY <2>1
  <2> QED BY <1>1, <1>3, <2>2
<1> QED BY <1>1, <1>9, <1>10, <1>11, Zenon

\* A completion posted for an armed request.
LEMMA PostInv ==
  ASSUME RequestsInv, NEW request \in armed, NEW buffer \in SUBSET Nat,
         NEW more \in BOOLEAN, NEW buf_more \in BOOLEAN,
         Post(request, buffer, more, buf_more),
         \A a, b \in buffer : a = b, buf_more => inc,
         UNCHANGED <<entries, delivered, lease>>,
         IF buf_more THEN held' = held ELSE held' = held \cup buffer /\ buffer \cap held = {}
  PROVE  RequestsInv'
<1> DEFINE c == Cqe(request, buffer, more, buf_more)
<1>1. /\ cq \in Seq(Completion) /\ armed \subseteq Ids /\ entries # 0
      /\ DeliveryHasOneOwner /\ ArmedOrTold
  BY DEF RequestsInv
<1>2. /\ c \in Completion /\ c.id = request /\ c.buffer = buffer
      /\ c.more = more /\ c.buf_more = buf_more
  BY <1>1 DEF Cqe, Completion
<1>3. /\ cq' = Append(cq, c) /\ armed' = IF more THEN armed ELSE armed \ {request}
      /\ UNCHANGED <<inc, tickets, loose>>
  BY DEF Post
<1> HIDE DEF c
<1>4. c.buf_more \/ c.buffer \cap InCq = {}
  BY <1>1, <1>2 DEF DeliveryHasOneOwner
<1>5. /\ cq' \in Seq(Completion)
      /\ InCq' = InCq \cup (IF buf_more THEN {} ELSE buffer)
      /\ \A i, j \in Unread' : cq'[i].buffer = cq'[j].buffer => i = j
  BY <1>1, <1>2, <1>3, <1>4, PostOwners, Zenon DEF DeliveryHasOneOwner
<1>6. DeliveryHasOneOwner'
  <2>1. /\ held = InCq \cup lease \cup loose \cup delivered
        /\ InCq \cap (lease \cup loose \cup delivered) = {}
        /\ lease \cap (loose \cup delivered) = {}
        /\ loose \cap delivered = {}
    BY <1>1 DEF DeliveryHasOneOwner
  <2>2. /\ held' = InCq' \cup lease' \cup loose' \cup delivered'
        /\ InCq' \cap (lease' \cup loose' \cup delivered') = {}
        /\ lease' \cap (loose' \cup delivered') = {}
        /\ loose' \cap delivered' = {}
    BY <1>3, <1>5, <2>1
  <2> QED BY <1>5, <2>2 DEF DeliveryHasOneOwner
<1>7. /\ DOMAIN cq' = 1 .. Len(cq) + 1 /\ DOMAIN cq = 1 .. Len(cq) /\ Len(cq) \in Nat
      /\ \A i \in DOMAIN cq : cq'[i] = cq[i]
      /\ cq'[Len(cq) + 1] = c
  BY <1>1, <1>2, <1>3
<1>8. ArmedOrTold'
  BY <1>1, <1>2, <1>3, <1>7 DEF ArmedOrTold
<1>9. /\ ~inc' => \A i \in DOMAIN cq' : ~cq'[i].buf_more
      /\ \A i \in DOMAIN cq' : \A a, b \in cq'[i].buffer : a = b
  <2>1. \A i \in DOMAIN cq' : cq'[i] = c \/ (i \in DOMAIN cq /\ cq'[i] = cq[i])
    BY <1>7
  <2>2. /\ ~inc => ~c.buf_more /\ \A i \in DOMAIN cq : ~cq[i].buf_more
        /\ \A a, b \in c.buffer : a = b
        /\ \A i \in DOMAIN cq : \A a, b \in cq[i].buffer : a = b
    BY <1>2, Zenon DEF RequestsInv
  <2> QED BY <1>3, <2>1, <2>2
<1> QED BY <1>1, <1>3, <1>5, <1>6, <1>8, <1>9 DEF RequestsInv

\* A completion reaped, by the ticket that matches or by hand.
LEMMA ReapInv ==
  ASSUME RequestsInv, cq # << >>, cq' = Tail(cq),
         UNCHANGED <<inc, armed, entries, held, delivered>>,
         lease' \cup loose'
           = lease \cup loose \cup (IF Event.buf_more THEN {} ELSE Event.buffer),
         lease' \cap loose' = {},
         tickets' = IF Event.more THEN tickets ELSE tickets \ {Event.id}
  PROVE  RequestsInv'
<1> DEFINE taken == IF Event.buf_more THEN {} ELSE Event.buffer
<1>1. cq \in Seq(Completion) /\ DeliveryHasOneOwner /\ ArmedOrTold /\ entries # 0
  BY DEF RequestsInv
<1>2. /\ cq' \in Seq(Completion) /\ Event \in Completion
      /\ InCq' = InCq \ taken /\ taken \subseteq InCq
      /\ \A i, j \in Unread' : cq'[i].buffer = cq'[j].buffer => i = j
      /\ \A i \in DOMAIN cq' : i + 1 \in DOMAIN cq /\ cq'[i] = cq[i + 1]
  BY <1>1, ReapOwners, Zenon DEF RequestsInv, DeliveryHasOneOwner
<1>3. lease' \cup loose' = lease \cup loose \cup taken
  BY Zenon
<1> HIDE DEF taken
<1>4. DeliveryHasOneOwner'
  <2>1. /\ held = InCq \cup lease \cup loose \cup delivered
        /\ InCq \cap (lease \cup loose \cup delivered) = {}
        /\ lease \cap (loose \cup delivered) = {}
        /\ loose \cap delivered = {}
    BY <1>1 DEF DeliveryHasOneOwner
  <2>2. /\ held = (InCq \ taken) \cup lease' \cup loose' \cup delivered
        /\ (InCq \ taken) \cap (lease' \cup loose' \cup delivered) = {}
        /\ lease' \cap (loose' \cup delivered) = {}
        /\ loose' \cap delivered = {}
    BY <1>2, <1>3, <2>1
  <2> QED BY <1>2, <2>2, Zenon DEF DeliveryHasOneOwner
<1>5. Event = cq[1] /\ DOMAIN cq = 1 .. Len(cq) /\ Len(cq) \in Nat \ {0} /\ DOMAIN cq' = 1 .. Len(cq) - 1
  BY <1>1 DEF Event
<1>6. ArmedOrTold'
  <2> SUFFICES ASSUME NEW t \in tickets', t \notin armed
               PROVE  \E i \in DOMAIN cq' : cq'[i].id = t /\ ~cq'[i].more
    BY DEF ArmedOrTold
  <2>1. PICK j \in DOMAIN cq : cq[j].id = t /\ ~cq[j].more
    BY <1>1 DEF ArmedOrTold
  <2>2. j # 1
    BY <1>5, <2>1
  <2>3. PICK i \in DOMAIN cq' : i + 1 = j
    <3>1. j - 1 \in DOMAIN cq' /\ (j - 1) + 1 = j
      BY <1>5, <2>2
    <3> QED BY <3>1
  <2> QED BY <1>2, <2>1, <2>3
<1>7. /\ inc' => tickets' = {}
      /\ ~inc' => \A i \in DOMAIN cq' : ~cq'[i].buf_more
      /\ \A i \in DOMAIN cq' : \A a, b \in cq'[i].buffer : a = b
  BY <1>2 DEF RequestsInv
<1> QED BY <1>1, <1>2, <1>4, <1>6, <1>7 DEF RequestsInv

\* The pool's own calls: the buffers change hands and the queue stands still.
LEMMA CallInv ==
  ASSUME RequestsInv, UNCHANGED <<cq, inc, armed, tickets, entries>>,
         held' = InCq \cup lease' \cup loose' \cup delivered',
         InCq \cap (lease' \cup loose' \cup delivered') = {},
         lease' \cap (loose' \cup delivered') = {}, loose' \cap delivered' = {}
  PROVE  RequestsInv'
<1>1. Unread' = Unread /\ InCq' = InCq
  BY DEF Unread, InCq
<1>2. DeliveryHasOneOwner'
  BY <1>1 DEF DeliveryHasOneOwner, RequestsInv
<1>3. ArmedOrTold'
  BY DEF ArmedOrTold, RequestsInv
<1> QED BY <1>2, <1>3 DEF RequestsInv

\* Every step keeps the invariant, and is a step of the pool or leaves it alone.
LEMMA MultishotStep ==
  ASSUME IncTickets = FALSE, MultishotInv, [MNext]_mvars
  PROVE  RequestsInv' /\ [Next]_vars
<1>1. RequestsInv /\ DeliveryHasOneOwner
  BY DEF MultishotInv, RequestsInv
<1>2. /\ held = InCq \cup lease \cup loose \cup delivered
      /\ InCq \cap (lease \cup loose \cup delivered) = {}
      /\ lease \cap (loose \cup delivered) = {}
      /\ loose \cap delivered = {}
  BY <1>1 DEF DeliveryHasOneOwner
<1>3. tokens \subseteq delivered
  BY DEF MultishotInv, Init, PoolInv
<1>4. ASSUME NEW count \in Counts, NEW incremental \in BOOLEAN, RegisterPool(count, incremental)
      PROVE  RequestsInv' /\ [Next]_vars
  <2>1. /\ Register(count) /\ entries = 0 /\ entries' # 0 /\ UNCHANGED <<armed, cq, tickets, loose>>
        /\ UNCHANGED <<held, delivered, lease>>
    BY <1>4 DEF RegisterPool, Register, ValidCount
  <2>2. armed = {} /\ cq = << >> /\ tickets = {} /\ cq \in Seq(Completion)
    BY <1>1, <2>1 DEF RequestsInv
  <2>3. Unread' = Unread /\ InCq' = InCq
    BY <2>1 DEF Unread, InCq
  <2>4. DeliveryHasOneOwner'
    BY <1>1, <2>1, <2>3 DEF DeliveryHasOneOwner
  <2>5. ArmedOrTold' /\ DOMAIN cq = {}
    BY <2>1, <2>2 DEF ArmedOrTold
  <2>6. RequestsInv'
    BY <1>1, <2>1, <2>2, <2>4, <2>5 DEF RequestsInv
  <2> QED BY <2>1, <2>6 DEF Next
<1>5. CASE Push \/ PushRaw \/ \E ticket \in tickets : DropTicket(ticket)
  <2>1. UNCHANGED <<vars, inc, cq, loose>>
    BY <1>5 DEF Push, PushRaw, DropTicket
  <2>2. Unread' = Unread /\ InCq' = InCq
    BY <2>1 DEF Unread, InCq
  <2>3. DeliveryHasOneOwner'
    BY <1>1, <2>1, <2>2 DEF DeliveryHasOneOwner, vars
  <2>4. /\ armed' \subseteq Ids /\ (inc => tickets' = {}) /\ ArmedOrTold'
        /\ entries = 0 => armed' = {} /\ tickets' = {}
    BY <1>1, <1>5, <2>1 DEF Push, PushRaw, DropTicket, RequestsInv, ArmedOrTold
  <2>5. RequestsInv'
    BY <1>1, <2>1, <2>3, <2>4 DEF RequestsInv, vars
  <2> QED BY <2>1, <2>5
<1>6. ASSUME NEW request \in armed, Arrive(request) PROVE RequestsInv' /\ [Next]_vars
  <2> DEFINE bid == bring[head % entries]
  <2>1. PICK more \in BOOLEAN : Post(request, {bid}, more, FALSE)
    BY <1>6, Zenon DEF Arrive
  <2>2. /\ Deliver /\ Visible # 0 /\ UNCHANGED <<entries, delivered, lease>>
        /\ held' = held \cup {bid}
    BY <1>6 DEF Arrive, Deliver
  <2>3. PoolInv
    BY <2>2, NothingVisible DEF MultishotInv
  <2>4. bid \in Nat /\ bid \notin held
    BY <2>2, <2>3, DeliversFresh
  <2> HIDE DEF bid
  <2>5. RequestsInv'
    <3>1. {bid} \in SUBSET Nat /\ (\A a, b \in {bid} : a = b) /\ {bid} \cap held = {}
      BY <2>4
    <3> QED BY <1>1, <2>1, <2>2, <3>1, PostInv, Zenon
  <2> QED BY <2>2, <2>5 DEF Next
<1>7. ASSUME NEW request \in armed, ArrivePart(request) PROVE RequestsInv' /\ [Next]_vars
  <2> DEFINE bid == bring[head % entries]
  <2>1. PICK more \in BOOLEAN : Post(request, {bid}, more, TRUE)
    BY <1>7, Zenon DEF ArrivePart
  <2>2. inc /\ Visible # 0 /\ UNCHANGED vars
    BY <1>7 DEF ArrivePart
  <2>3. PoolInv
    BY <2>2, NothingVisible DEF MultishotInv
  <2>4. bid \in Nat
    BY <2>2, <2>3, DeliversFresh
  <2> HIDE DEF bid
  <2>5. RequestsInv'
    <3>1. {bid} \in SUBSET Nat /\ (\A a, b \in {bid} : a = b)
      BY <2>4
    <3>2. UNCHANGED <<entries, delivered, lease>> /\ held' = held
      BY <2>2 DEF vars
    <3> QED BY <1>1, <2>1, <2>2, <3>1, <3>2, PostInv, Zenon
  <2> QED BY <2>2, <2>5
<1>8. ASSUME NEW request \in armed, ArriveDry(request) \/ Report(request)
      PROVE  RequestsInv' /\ [Next]_vars
  <2>1. PICK more \in BOOLEAN : Post(request, {}, more, FALSE)
    BY <1>8, Zenon DEF ArriveDry, Report
  <2>2. UNCHANGED vars
    BY <1>8, Zenon DEF ArriveDry, Report
  <2>3. UNCHANGED <<entries, delivered, lease>> /\ held' = held \cup {} /\ {} \cap held = {}
    BY <2>2 DEF vars
  <2>4. RequestsInv'
    BY <1>1, <2>1, <2>3, PostInv, Zenon
  <2> QED BY <2>2, <2>4
<1>9. CASE Record
  <2>1. /\ cq # << >> /\ cq' = Tail(cq) /\ Event.id \in tickets /\ FromEvent(Event)
        /\ UNCHANGED <<inc, armed, loose>>
    BY <1>9 DEF Record, Matching
  <2>2. ~inc /\ ~Event.buf_more /\ Event.buffer \subseteq InCq /\ \A a, b \in Event.buffer : a = b
    <3>1. ~inc /\ cq \in Seq(Completion)
      BY <1>1, <2>1 DEF RequestsInv
    <3>2. 1 \in DOMAIN cq /\ Event = cq[1]
      BY <2>1, <3>1 DEF Event
    <3>3. ~Event.buf_more /\ \A a, b \in Event.buffer : a = b
      BY <1>1, <3>1, <3>2 DEF RequestsInv
    <3>4. Event.buffer # {} => 1 \in Unread
      BY <3>2, <3>3 DEF Unread
    <3> QED BY <3>1, <3>2, <3>3, <3>4, Carried
  <2>3. tickets' = IF Event.more THEN tickets ELSE tickets \ {Event.id}
    BY <2>1, Zenon DEF FromEvent, Matching
  <2>4. CASE Event.buffer # {}
    <3>1. PICK bid \in Event.buffer : Lease(bid)
      BY <2>1, <2>4 DEF FromEvent
    <3>2. Event.buffer = {bid} /\ bid \in held /\ bid \notin delivered /\ bid \notin loose
      BY <1>2, <2>2
    <3>3. /\ lease = {} /\ lease' = {bid} /\ UNCHANGED <<entries, held, delivered>>
      BY <3>1 DEF Lease, Free
    <3>4. Claim(bid)
      BY <3>1, <3>2 DEF Claim
    <3>5. RequestsInv'
      BY <1>1, <2>1, <2>2, <2>3, <3>2, <3>3, ReapInv
    <3> QED BY <3>2, <3>4, <3>5 DEF Next
  <2>5. CASE Event.buffer = {}
    <3>1. UNCHANGED vars
      BY <2>1, <2>5 DEF FromEvent
    <3>2. UNCHANGED <<entries, held, delivered, lease>>
      BY <3>1 DEF vars
    <3>3. RequestsInv'
      BY <1>1, <1>2, <2>1, <2>2, <2>3, <2>5, <3>2, ReapInv
    <3> QED BY <3>1, <3>3
  <2> QED BY <2>4, <2>5
<1>10. CASE TakeByHand
  <2>1. /\ cq # << >> /\ cq' = Tail(cq) /\ Event.id \notin tickets
        /\ UNCHANGED <<vars, inc, armed, tickets>>
        /\ loose' = IF Event.buf_more THEN loose ELSE loose \cup Event.buffer
    BY <1>10 DEF TakeByHand, Matching
  <2>2. UNCHANGED <<entries, held, delivered, lease>>
    BY <2>1 DEF vars
  <2>3. Event.buf_more \/ Event.buffer \subseteq InCq
    BY <1>1, <2>1, ReapOwners DEF RequestsInv, DeliveryHasOneOwner
  <2>4. RequestsInv'
    BY <1>1, <1>2, <2>1, <2>2, <2>3, ReapInv
  <2> QED BY <2>1, <2>4
<1>11. CASE ReturnByHand
  <2>1. PICK bid \in loose :
          /\ (\E commit \in BOOLEAN : Recycle(bid, commit)) \/ Claim(bid) \/ Acknowledge(bid)
          /\ loose' = loose \ {bid} /\ UNCHANGED <<inc, armed, cq, tickets>>
    BY <1>11 DEF ReturnByHand
  <2>2. bid \in held
    BY <1>2
  <2>3. /\ held' = InCq \cup lease' \cup loose' \cup delivered'
        /\ InCq \cap (lease' \cup loose' \cup delivered') = {}
        /\ lease' \cap (loose' \cup delivered') = {} /\ loose' \cap delivered' = {}
        /\ entries' = entries
    BY <1>2, <2>1 DEF Recycle, Claim, Lease, Acknowledge, Free
  <2> QED BY <1>1, <2>1, <2>2, <2>3, CallInv DEF Next
<1>12. CASE PoolStep
  <2>1. UNCHANGED requestVars
    BY <1>12 DEF PoolStep
  <2>2. /\ held' = InCq \cup lease' \cup loose' \cup delivered'
        /\ InCq \cap (lease' \cup loose' \cup delivered') = {}
        /\ lease' \cap (loose' \cup delivered') = {} /\ loose' \cap delivered' = {}
        /\ entries' = entries
    BY <1>2, <1>3, <1>12
       DEF PoolStep, Commit, DropLease, ForgetLease, ReturnToken, RecycleAcknowledged, DropToken,
           requestVars
  <2>3. Next
    BY <1>12 DEF PoolStep, ReturnToken, Next
  <2> QED BY <1>1, <2>1, <2>2, <2>3, CallInv DEF requestVars
<1>13. CASE UNCHANGED mvars
  <2>1. UNCHANGED vars /\ UNCHANGED requestVars
    BY <1>13 DEF mvars
  <2> QED BY <1>1, <1>2, <2>1, CallInv DEF vars, requestVars
<1> QED
  BY <1>4, <1>5, <1>6, <1>7, <1>8, <1>9, <1>10, <1>11, <1>12, <1>13 DEF MNext

\* The inductive invariant, with tickets kept off incremental pools.
THEOREM MultishotInvariant ==
  ASSUME IncTickets = FALSE
  PROVE  MSpec => []MultishotInv
<1>1. MInit => MultishotInv
  <2> SUFFICES ASSUME MInit PROVE MultishotInv
    OBVIOUS
  <2>1. Init /\ ~inc /\ armed = {} /\ cq = << >> /\ tickets = {} /\ loose = {}
    BY DEF MInit
  <2>2. cq \in Seq(Completion) /\ DOMAIN cq = {}
    BY <2>1
  <2>3. Unread = {} /\ InCq = {}
    <3>1. Unread = {}
      BY <2>2 DEF Unread
    <3> QED BY <3>1, Carried
  <2>4. DeliveryHasOneOwner /\ ArmedOrTold
    BY <2>1, <2>3 DEF DeliveryHasOneOwner, ArmedOrTold, Init
  <2> QED BY <2>1, <2>2, <2>4 DEF MultishotInv, RequestsInv
<1>2. MultishotInv /\ [MNext]_mvars => MultishotInv'
  <2> SUFFICES ASSUME MultishotInv, [MNext]_mvars PROVE MultishotInv'
    OBVIOUS
  <2>1. RequestsInv' /\ [Next]_vars
    BY MultishotStep, Zenon
  <2>2. Init' \/ PoolInv'
    BY <2>1, StepInv, UnregisteredStep DEF MultishotInv
  <2> QED BY <2>1, <2>2 DEF MultishotInv
<1> QED BY <1>1, <1>2, PTL DEF MSpec

\* Multishot requests, their completions and their tickets implement the pool's
\* specification: record claims only a buffer that a completion named, once.
THEOREM MultishotImplementsPool ==
  ASSUME IncTickets = FALSE
  PROVE  MSpec => ImplementsPool
<1>1. MInit => Init
  BY DEF MInit
<1>2. MultishotInv /\ [MNext]_mvars => [Next]_vars
  BY MultishotStep, Zenon
<1> QED BY <1>1, <1>2, MultishotInvariant, PTL DEF MSpec, ImplementsPool, Spec

\* No delivered buffer is dropped on its way to an owner or owned twice, the one
\* in a terminal completion included (multishot.rs Delivery::from_event).
THEOREM EveryDeliveryHasOneOwner ==
  ASSUME IncTickets = FALSE
  PROVE  MSpec => []DeliveryHasOneOwner
<1>1. MultishotInv => DeliveryHasOneOwner
  BY DEF MultishotInv, RequestsInv
<1> QED BY <1>1, MultishotInvariant, PTL

\* A ticket stands for an armed request, or for one whose terminal completion is
\* still unread (multishot.rs record).
THEOREM TicketsAreArmedOrTold ==
  ASSUME IncTickets = FALSE
  PROVE  MSpec => []ArmedOrTold
<1>1. MultishotInv => ArmedOrTold
  BY DEF MultishotInv, RequestsInv
<1> QED BY <1>1, MultishotInvariant, PTL

\* So a pool that multishot requests draw on never offers a buffer twice, or one
\* that the application still reads.
THEOREM MultishotNoDoubleProvide ==
  ASSUME IncTickets = FALSE
  PROVE  MSpec => []NoDoubleProvide
  BY MultishotImplementsPool, PoolNoDoubleProvide, PTL DEF ImplementsPool

=============================================================================
