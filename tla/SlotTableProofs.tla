-------------------------- MODULE SlotTableProofs --------------------------
(***************************************************************************)
(* Proofs about SlotTable, for every word size, table, set of descriptors  *)
(* and number of requests: what the application can tell of the table from *)
(* the results it reaps is what is in the table.                           *)
(***************************************************************************)
EXTENDS SlotTable, FiniteSetTheorems, TLAPS

\* The constants in the form the arithmetic needs.
LEMMA Constants ==
  /\ Word \in Nat /\ Word >= 4 /\ TableSize \in Nat /\ TableSize >= 1 /\ TableSize + 3 <= Word
  /\ OpenFds \subseteq Nat /\ RawFds \subseteq Nat /\ MaxRequests \in Nat
BY SlotAssumption

\* Writing a number below 2^32 as a signed word loses nothing: the kernel reads
\* back what was meant.
LEMMA SignedRoundTrip ==
  ASSUME NEW x \in 0 .. Word - 1
  PROVE  Signed(x) \in Int /\ Unsigned(Signed(x)) = x
<1> USE Constants
<1>1. x % Word = x
  OBVIOUS
<1>2. (x - Word) % Word = x
  OBVIOUS
<1> QED
  BY <1>1, <1>2 DEF Signed, Unsigned

\* What the kernel reads in file_index: the sentinel for a slot of its choice,
\* one more than the slot for one of the caller's, and never 0.
LEMMA RawIsUnderstood ==
  ASSUME NEW target \in Targets
  PROVE  /\ Raw(target) \in Int
         /\ \/ target = AutoTarget /\ Unsigned(Raw(target)) = FILE_INDEX_ALLOC
            \/ /\ target.kind = "exact" /\ target.slot \in SlotIndexes
               /\ Unsigned(Raw(target)) = target.slot + 1
               /\ Unsigned(Raw(target)) \in 1 .. FILE_INDEX_ALLOC - 1
<1> USE Constants
<1>1. CASE target = AutoTarget
  <2>1. FILE_INDEX_ALLOC \in 0 .. Word - 1
    BY DEF FILE_INDEX_ALLOC
  <2> QED
    BY <1>1, <2>1, SignedRoundTrip DEF Raw, AutoTarget
<1>2. ASSUME NEW slot \in SlotIndexes, target = ExactTarget(slot)
      PROVE  /\ Raw(target) \in Int /\ target.kind = "exact" /\ target.slot \in SlotIndexes
             /\ Unsigned(Raw(target)) = target.slot + 1
             /\ Unsigned(Raw(target)) \in 1 .. FILE_INDEX_ALLOC - 1
  <2>1. slot + 1 \in 0 .. Word - 1 /\ slot + 1 \in 1 .. FILE_INDEX_ALLOC - 1
    BY DEF SlotIndexes, FILE_INDEX_ALLOC
  <2>2. target.kind = "exact" /\ target.slot = slot /\ target.kind # "auto"
    BY <1>2 DEF ExactTarget
  <2>3. Raw(target) = Signed(slot + 1)
    BY <2>2 DEF Raw
  <2> QED
    BY <2>1, <2>2, <2>3, SignedRoundTrip
<1> QED
  BY <1>1, <1>2 DEF Targets

\* A descriptor that fits 31 bits is sent as it is, and is no sentinel.
LEMMA EntryIsUnderstood ==
  ASSUME \A fd \in RawFds : fd < Word \div 2, NEW entry \in TableEntries
  PROVE  /\ EntryRaw(entry) \in I32Fds /\ EntryRaw(entry) # -2
         /\ EntryFile(entry) = IF EntryRaw(entry) = -1 THEN Empty ELSE FileOf(EntryRaw(entry))
<1> USE Constants
<1>1. CASE entry = Clear
  BY <1>1 DEF Clear, EntryRaw, EntryFile, I32Fds
<1>2. ASSUME NEW fd \in RawFds, entry = Install(fd)
      PROVE  EntryRaw(entry) = fd /\ EntryRaw(entry) \in I32Fds /\ EntryFile(entry) = FileOf(fd)
  <2>1. fd \in Nat /\ fd < Word \div 2 /\ Word \div 2 <= Word /\ Word \div 2 \in Nat
    OBVIOUS
  <2>2. fd % Word = fd
    BY <2>1
  <2>3. Signed(fd) = fd
    BY <2>1, <2>2 DEF Signed
  <2> QED
    BY <1>2, <2>3, Zenon DEF Install, EntryRaw, EntryFile, I32Fds
<1> QED
  BY <1>1, <1>2 DEF TableEntries

-----------------------------------------------------------------------------
\* Changes of the table.

\* An array of bounded length is a sequence.
LEMMA ArrayIsSequence ==
  ASSUME NEW S, NEW n \in Nat, NEW array \in Arrays(S, n)
  PROVE  array \in Seq(S)
<1>1. PICK m \in 0 .. n : array \in [1 .. m -> S]
  BY DEF Arrays
<1> QED
  BY <1>1

\* The kernel takes no more entries than it is given.
LEMMA TakenBound ==
  ASSUME NEW S, NEW fds \in Seq(S)
  PROVE  Taken(fds) \in 0 .. Len(fds)
<1> DEFINE good == {i \in DOMAIN fds : \A j \in 1 .. i : fds[j] \in {-1, -2} \cup OpenFds}
<1>1. Len(fds) \in Nat /\ DOMAIN fds = 1 .. Len(fds) /\ good \subseteq 1 .. Len(fds)
  OBVIOUS
<1>2. IsFiniteSet(1 .. Len(fds)) /\ Cardinality(1 .. Len(fds)) = Len(fds)
  <2>1. /\ IsFiniteSet(1 .. Len(fds))
        /\ Cardinality(1 .. Len(fds)) = IF 1 > Len(fds) THEN 0 ELSE Len(fds) - 1 + 1
    BY <1>1, FS_Interval
  <2> QED
    BY <1>1, <2>1
<1> HIDE DEF good
<1>3. IsFiniteSet(good) /\ Cardinality(good) <= Cardinality(1 .. Len(fds))
  BY <1>1, <1>2, FS_Subset, Zenon
<1>4. Cardinality(good) \in Nat
  BY <1>3, FS_CardinalityType
<1> QED
  BY <1>1, <1>2, <1>3, <1>4 DEF Taken, good

\* What the first n entries put into the table, slot by slot.
LEMMA PutValue ==
  ASSUME NEW off \in Nat, NEW fds \in Seq(I32Fds), NEW n \in 0 .. Len(fds)
  PROVE  /\ \A slot : slot \in DOMAIN Put(off, fds, n)
                        <=> slot \in off .. off + n - 1 /\ fds[slot - off + 1] # -2
         /\ \A slot \in DOMAIN Put(off, fds, n) :
              /\ slot - off + 1 \in 1 .. n
              /\ Put(off, fds, n)[slot] = IF fds[slot - off + 1] = -1 THEN Empty
                                          ELSE FileOf(fds[slot - off + 1])
<1> DEFINE D == {off + i - 1 : i \in {k \in 1 .. n : fds[k] # -2}}
<1>0. n \in Nat /\ n <= Len(fds)
  OBVIOUS
<1>1. \A slot : slot \in D <=> slot \in off .. off + n - 1 /\ fds[slot - off + 1] # -2
  <2>1. ASSUME NEW slot \in D
        PROVE  slot \in off .. off + n - 1 /\ fds[slot - off + 1] # -2 /\ slot - off + 1 \in 1 .. n
    <3>1. PICK i \in 1 .. n : slot = off + i - 1 /\ fds[i] # -2
      BY Zenon
    <3>2. slot - off + 1 = i /\ slot \in off .. off + n - 1
      BY <1>0, <3>1
    <3> QED
      BY <3>1, <3>2
  <2>2. ASSUME NEW slot \in off .. off + n - 1, fds[slot - off + 1] # -2
        PROVE  slot \in D
    <3>1. slot - off + 1 \in 1 .. n /\ off + (slot - off + 1) - 1 = slot
      BY <1>0
    <3> QED
      BY <2>2, <3>1
  <2> QED
    BY <2>1, <2>2
<1>2. DOMAIN Put(off, fds, n) = D
  BY DEF Put
<1>3. \A slot \in D : slot - off + 1 \in 1 .. n
  BY <1>0, <1>1
<1>4. \A slot \in D : Put(off, fds, n)[slot] = IF fds[slot - off + 1] = -1 THEN Empty
                                               ELSE FileOf(fds[slot - off + 1])
  BY DEF Put
<1> HIDE DEF D
<1> QED
  BY <1>1, <1>2, <1>3, <1>4

\* Without skips, the first n entries fill n slots.
LEMMA PutWithoutSkips ==
  ASSUME NEW off \in Nat, NEW fds \in Seq(I32Fds), NEW n \in 0 .. Len(fds),
         \A i \in 1 .. Len(fds) : fds[i] # -2
  PROVE  Put(off, fds, n)
           = [slot \in off .. off + n - 1 |->
                IF fds[slot - off + 1] = -1 THEN Empty ELSE FileOf(fds[slot - off + 1])]
<1> DEFINE p == Put(off, fds, n)
<1>1. /\ \A slot : slot \in DOMAIN p
                     <=> slot \in off .. off + n - 1 /\ fds[slot - off + 1] # -2
      /\ \A slot \in DOMAIN p :
           p[slot] = IF fds[slot - off + 1] = -1 THEN Empty ELSE FileOf(fds[slot - off + 1])
  BY PutValue
<1>2. p = [slot \in DOMAIN p |-> p[slot]]
  BY DEF Put
<1> HIDE DEF p
<1>3. \A slot \in off .. off + n - 1 : fds[slot - off + 1] # -2
  <2>1. \A slot \in off .. off + n - 1 : slot - off + 1 \in 1 .. Len(fds)
    OBVIOUS
  <2> QED
    BY <2>1
<1>4. DOMAIN p = off .. off + n - 1
  BY <1>1, <1>3, Zenon
<1>5. p = [slot \in off .. off + n - 1 |->
             IF fds[slot - off + 1] = -1 THEN Empty ELSE FileOf(fds[slot - off + 1])]
  BY <1>1, <1>2, <1>4, Zenon
<1> QED
  BY <1>5 DEF p

\* What is in a slot after a change.
LEMMA WrittenValue ==
  ASSUME NEW change, NEW array, NEW slot \in Slots
  PROVE  /\ slot \in DOMAIN change => Written(change, array)[slot] = change[slot]
         /\ slot \notin DOMAIN change => Written(change, array)[slot] = array[slot]
BY DEF Written

\* A change of files to slots of the table.
LEMMA ChangeIs ==
  ASSUME NEW change
  PROVE  change \in Change => /\ DOMAIN change \subseteq Slots
                              /\ \A slot \in DOMAIN change : change[slot] \in File
BY DEF Change

\* A table stays a table.
LEMMA WrittenType ==
  ASSUME NEW change \in Change, NEW array \in [Slots -> File]
  PROVE  Written(change, array) \in [Slots -> File]
<1>1. \A slot \in DOMAIN change : change[slot] \in File
  BY ChangeIs
<1> QED
  BY <1>1 DEF Written

\* A request that fails changes nothing, which is such a change.
LEMMA NoneIsChange == None \in Change
BY DEF None, Change

\* So is one slot's.
LEMMA OnlyIsChange ==
  ASSUME NEW slot \in Slots, NEW n \in 1 .. MaxRequests
  PROVE  Only(slot, NewFile(n)) \in Change
<1>1. NewFile(n) \in File
  BY DEF File
<1>2. Only(slot, NewFile(n)) \in [{slot} -> File]
  BY <1>1 DEF Only
<1> QED
  BY <1>2 DEF Change

\* So is that of an update that fits the table.
LEMMA PutIsChange ==
  ASSUME NEW off \in Nat, NEW fds \in Seq(I32Fds), NEW n \in 0 .. Len(fds), off + n <= TableSize
  PROVE  Put(off, fds, n) \in Change
<1> DEFINE p == Put(off, fds, n)
<1>1. DOMAIN p \subseteq Slots
  BY Constants, PutValue DEF Slots
<1>2. ASSUME NEW slot \in DOMAIN p PROVE p[slot] \in File
  <2>1. fds[slot - off + 1] \in I32Fds
    BY PutValue
  <2> QED
    BY <2>1, PutValue DEF File
<1>3. p = [slot \in DOMAIN p |-> p[slot]]
  BY DEF Put
<1> HIDE DEF p
<1>4. p \in [DOMAIN p -> File]
  BY <1>2, <1>3
<1> QED
  BY <1>1, <1>4 DEF Change, p

-----------------------------------------------------------------------------
\* What a ticket makes of a completion is what the kernel did.

\* A failure tells of no slot, whatever the request was.
LEMMA FailureTells ==
  ASSUME NEW ticket \in TicketType, NEW cqe, cqe.result = -1
  PROVE  Learned(ticket, cqe) = None
<1> USE Constants
<1>1. CASE ticket.op = "direct"
  <2>1. SlotOfDirect(ticket, cqe) \cap Slots = {}
    BY DEF SlotOfDirect
  <2> QED
    BY <1>1, <2>1 DEF Learned, Opened, None
<1>2. CASE ticket.op = "accept"
  <2>1. Resolve(AutoTarget, cqe.result) \cap Slots = {}
    BY DEF Resolve, AutoTarget
  <2> QED
    BY <1>2, <2>1 DEF Learned, Accepted, None
<1>3. CASE ticket.op = "update"
  <2>1. UpdateInstalled(cqe.result, Len(ticket.entries)) = 0
    BY DEF UpdateInstalled
  <2>2. ticket.offset \in Nat
    BY DEF TicketType
  <2>3. (ticket.offset .. ticket.offset + 0 - 1) \cap Slots = {}
    BY <2>2
  <2> QED
    BY <1>3, <2>1, <2>3 DEF Learned, Updated, None
<1> QED
  BY <1>1, <1>2, <1>3 DEF TicketType, Op

\* A slot of the kernel's choice comes back as the result.
LEMMA ChosenSlotTells ==
  ASSUME NEW ticket \in TicketType, NEW cqe, NEW slot \in Slots, cqe.result = slot,
         ticket.op = "accept" \/ (ticket.op = "direct" /\ ticket.target = AutoTarget)
  PROVE  Learned(ticket, cqe) = Only(slot, NewFile(ticket.id))
<1> USE Constants
<1>1. slot \in SlotIndexes /\ ~(slot < 0)
  BY DEF Slots, SlotIndexes
<1>2. Resolve(AutoTarget, cqe.result) \cap Slots = {slot}
  BY <1>1 DEF Resolve, AutoTarget
<1>3. CASE ticket.op = "accept"
  BY <1>2, <1>3 DEF Learned, Accepted, Only
<1>4. CASE ticket.op = "direct" /\ ticket.target = AutoTarget
  <2>1. SlotOfDirect(ticket, cqe) \cap Slots = {slot}
    BY <1>1, <1>2, <1>4 DEF SlotOfDirect
  <2> QED
    BY <1>4, <2>1 DEF Learned, Opened, Only
<1> QED
  BY <1>3, <1>4

\* A slot of the caller's choice is the one it named.
LEMMA NamedSlotTells ==
  ASSUME NEW ticket \in TicketType, NEW cqe, cqe.result = 0, ticket.op = "direct",
         ticket.target.kind = "exact", ticket.target.slot \in Slots
  PROVE  Learned(ticket, cqe) = Only(ticket.target.slot, NewFile(ticket.id))
<1>1. SlotOfDirect(ticket, cqe) \cap Slots = {ticket.target.slot}
  BY DEF SlotOfDirect, Resolve
<1> QED
  BY <1>1 DEF Learned, Opened, Only

\* The array an update publishes says what its entries say.
LEMMA EntriesAreUnderstood ==
  ASSUME \A fd \in RawFds : fd < Word \div 2,
         NEW entries \in Seq(TableEntries)
  PROVE  LET fds == [i \in DOMAIN entries |-> EntryRaw(entries[i])]
         IN  /\ fds \in Seq(I32Fds) /\ Len(fds) = Len(entries)
             /\ \A i \in 1 .. Len(entries) :
                  /\ fds[i] # -2
                  /\ EntryFile(entries[i]) = IF fds[i] = -1 THEN Empty ELSE FileOf(fds[i])
<1> DEFINE fds == [i \in DOMAIN entries |-> EntryRaw(entries[i])]
<1>1. /\ Len(entries) \in Nat /\ DOMAIN entries = 1 .. Len(entries)
      /\ \A i \in 1 .. Len(entries) : entries[i] \in TableEntries
  OBVIOUS
<1>2. \A i \in 1 .. Len(entries) :
        /\ EntryRaw(entries[i]) \in I32Fds /\ EntryRaw(entries[i]) # -2
        /\ EntryFile(entries[i])
             = IF EntryRaw(entries[i]) = -1 THEN Empty ELSE FileOf(EntryRaw(entries[i]))
  BY <1>1, EntryIsUnderstood, Zenon
<1>3. DOMAIN fds = 1 .. Len(entries) /\ \A i \in 1 .. Len(entries) : fds[i] = EntryRaw(entries[i])
  BY <1>1
<1>4. fds \in [1 .. Len(entries) -> I32Fds]
  BY <1>1, <1>2, Zenon
<1> HIDE DEF fds
<1>5. fds \in Seq(I32Fds) /\ Len(fds) = Len(entries)
  BY <1>1, <1>4
<1>6. \A i \in 1 .. Len(entries) :
        /\ fds[i] # -2
        /\ EntryFile(entries[i]) = IF fds[i] = -1 THEN Empty ELSE FileOf(fds[i])
  BY <1>2, <1>3, Zenon
<1> QED
  BY <1>5, <1>6, Zenon DEF fds

\* An update's count says which of its entries took effect.
LEMMA UpdateTells ==
  ASSUME NEW ticket \in TicketType, ticket.op = "update",
         ticket.offset + Len(ticket.entries) <= TableSize,
         NEW fds \in Seq(I32Fds), Len(fds) = Len(ticket.entries),
         \A i \in 1 .. Len(ticket.entries) :
           /\ fds[i] # -2
           /\ EntryFile(ticket.entries[i]) = IF fds[i] = -1 THEN Empty ELSE FileOf(fds[i]),
         NEW cqe, NEW n \in 1 .. Len(ticket.entries), cqe.result = n
  PROVE  Learned(ticket, cqe) = Put(ticket.offset, fds, n)
<1> USE Constants
<1>0. PICK off, entries : off = ticket.offset /\ entries = ticket.entries
  OBVIOUS
<1>1. off \in Nat /\ entries \in Seq(TableEntries) /\ Len(entries) \in Nat /\ n \in Nat
  BY <1>0 DEF TicketType
<1>2. UpdateInstalled(cqe.result, Len(entries)) = n
  BY <1>0, <1>1 DEF UpdateInstalled
<1>3. (off .. off + n - 1) \cap Slots = off .. off + n - 1
  BY <1>0, <1>1 DEF Slots
<1>4. Learned(ticket, cqe) = [slot \in off .. off + n - 1 |-> EntryFile(entries[slot - off + 1])]
  BY <1>0, <1>2, <1>3 DEF Learned, Updated
<1>5. \A slot \in off .. off + n - 1 : slot - off + 1 \in 1 .. Len(entries)
  BY <1>0, <1>1
<1>6. Put(off, fds, n)
        = [slot \in off .. off + n - 1 |->
             IF fds[slot - off + 1] = -1 THEN Empty ELSE FileOf(fds[slot - off + 1])]
  <2>1. n \in 0 .. Len(fds)
    BY <1>0, <1>1
  <2>2. \A i \in 1 .. Len(fds) : fds[i] # -2
    BY Zenon
  <2>3. off \in Nat /\ fds \in Seq(I32Fds)
    BY <1>1, Zenon
  <2> HIDE <1>0, <1>1
  <2> QED
    BY <2>1, <2>2, <2>3, PutWithoutSkips, Zenon
<1>7. \A slot \in off .. off + n - 1 :
        EntryFile(entries[slot - off + 1])
          = IF fds[slot - off + 1] = -1 THEN Empty ELSE FileOf(fds[slot - off + 1])
  BY <1>0, <1>5, Zenon
<1>8. [slot \in off .. off + n - 1 |-> EntryFile(entries[slot - off + 1])]
        = [slot \in off .. off + n - 1 |->
             IF fds[slot - off + 1] = -1 THEN Empty ELSE FileOf(fds[slot - off + 1])]
  BY <1>7, Zenon
<1> QED
  BY <1>0, <1>4, <1>6, <1>8, Zenon

\* What every ticket of a request makes of a completion with this result.
Told(request, result, files) ==
  \A ticket \in tickets : \A cqe :
    ticket.id = request.id /\ Describes(ticket, request) /\ cqe.result = result
      => Learned(ticket, cqe) = files

\* Whatever the kernel does with a request, its completion tells.
LEMMA WorkTells ==
  ASSUME \A fd \in RawFds : fd < Word \div 2,
         SlotTypeOK, NEW request \in requests, Work(request)
  PROVE  \E result \in Int, more \in BOOLEAN, files \in Change :
           Post(request, result, more, files) /\ Told(request, result, files)
<1> USE Constants
<1>1. /\ tickets \subseteq TicketType /\ request.id \in 1 .. MaxRequests
      /\ request.off \in Nat /\ request.fds \in Seq(I32Fds)
  BY DEF SlotTypeOK, RequestType
<1>2. Free \subseteq Slots /\ Slots \subseteq Int
  <2>1. Free \subseteq Slots
    BY Zenon DEF Free, SlotTypeOK
  <2> QED
    BY <2>1 DEF Slots
<1>3. ASSUME Fail(request)
      PROVE  \E result \in Int, more \in BOOLEAN, files \in Change :
               Post(request, result, more, files) /\ Told(request, result, files)
  <2>1. Told(request, -1, None)
    BY <1>1, FailureTells DEF Told
  <2>2. -1 \in Int /\ FALSE \in BOOLEAN /\ None \in Change
    BY NoneIsChange
  <2> QED
    BY <1>3, <2>1, <2>2, Zenon DEF Fail
<1>4. ASSUME NEW slot \in Free, NEW more \in BOOLEAN,
             Post(request, slot, more, Only(slot, NewFile(request.id))),
             request.op = "accept"
               \/ (request.op = "direct" /\ Unsigned(request.file_index) = FILE_INDEX_ALLOC)
      PROVE  \E result \in Int, m \in BOOLEAN, files \in Change :
               Post(request, result, m, files) /\ Told(request, result, files)
  <2>1. Only(slot, NewFile(request.id)) \in Change /\ slot \in Slots /\ slot \in Int
    BY <1>1, <1>2, OnlyIsChange
  <2>2. ASSUME NEW ticket \in tickets, NEW cqe, ticket.id = request.id,
               Describes(ticket, request), cqe.result = slot
        PROVE  Learned(ticket, cqe) = Only(slot, NewFile(request.id))
    <3>1. ticket \in TicketType /\ ticket.target \in Targets
      BY <1>1 DEF TicketType
    <3>2. ticket.op = "accept" \/ (ticket.op = "direct" /\ ticket.target = AutoTarget)
      <4>1. CASE request.op = "direct" /\ Unsigned(request.file_index) = FILE_INDEX_ALLOC
        <5>1. Unsigned(Raw(ticket.target)) = FILE_INDEX_ALLOC /\ ticket.op = "direct"
          BY <2>2, <4>1 DEF Describes
        <5>2. ~(FILE_INDEX_ALLOC \in 1 .. FILE_INDEX_ALLOC - 1)
          BY DEF FILE_INDEX_ALLOC
        <5> QED
          BY <3>1, <5>1, <5>2, RawIsUnderstood
      <4> QED
        BY <1>4, <2>2, <4>1 DEF Describes
    <3> QED
      BY <2>1, <2>2, <3>1, <3>2, ChosenSlotTells
  <2>3. Told(request, slot, Only(slot, NewFile(request.id)))
    BY <2>2, Zenon DEF Told
  <2> QED
    BY <1>4, <2>1, <2>3, Zenon
<1>5. CASE InstallDirect(request)
  <2> DEFINE wire == Unsigned(request.file_index)
  <2>1. request.op = "direct"
    BY <1>5 DEF InstallDirect
  <2>2. ASSUME wire = 0, NEW ticket \in tickets, Describes(ticket, request) PROVE FALSE
    <3>1. ticket.target \in Targets /\ Unsigned(Raw(ticket.target)) = 0
      BY <1>1, <2>1, <2>2 DEF TicketType, Describes
    <3> QED
      BY <3>1, RawIsUnderstood DEF FILE_INDEX_ALLOC
  <2>3. CASE wire = 0
    <3>1. Post(request, 0, FALSE, None)
      <4>1. 0 # FILE_INDEX_ALLOC
        BY DEF FILE_INDEX_ALLOC
      <4> QED
        BY <1>5, <2>3, <4>1, Zenon DEF InstallDirect
    <3>2. Told(request, 0, None)
      BY <2>2, <2>3 DEF Told
    <3>3. 0 \in Int /\ FALSE \in BOOLEAN /\ None \in Change
      BY NoneIsChange
    <3> QED
      BY <3>1, <3>2, <3>3, Zenon
  <2>4. CASE wire = FILE_INDEX_ALLOC
    <3>1. wire # 0
      BY <2>4 DEF FILE_INDEX_ALLOC
    <3>2. \/ Fail(request)
          \/ \E slot \in Free : Post(request, slot, FALSE, Only(slot, NewFile(request.id)))
      BY <1>5, <2>4, <3>1, Zenon DEF InstallDirect
    <3> QED
      BY <1>3, <1>4, <2>1, <2>4, <3>2, Zenon
  <2>5. CASE wire # 0 /\ wire # FILE_INDEX_ALLOC
    <3>1. CASE Fail(request)
      BY <1>3, <3>1
    <3>2. CASE ~Fail(request)
      <4>1. wire - 1 \in Slots /\ Post(request, 0, FALSE, Only(wire - 1, NewFile(request.id)))
        BY <1>5, <2>5, <3>2, Zenon DEF InstallDirect
      <4>2. Only(wire - 1, NewFile(request.id)) \in Change
        BY <1>1, <4>1, OnlyIsChange
      <4>3. ASSUME NEW ticket \in tickets, NEW cqe, ticket.id = request.id,
                   Describes(ticket, request), cqe.result = 0
            PROVE  Learned(ticket, cqe) = Only(wire - 1, NewFile(request.id))
        <5>1. /\ ticket \in TicketType /\ ticket.target \in Targets /\ ticket.op = "direct"
              /\ Unsigned(Raw(ticket.target)) = wire
          BY <1>1, <2>1, <4>3 DEF TicketType, Describes
        <5>2. ticket.target.kind = "exact" /\ wire = ticket.target.slot + 1
              /\ ticket.target.slot \in SlotIndexes
          BY <2>5, <5>1, RawIsUnderstood
        <5>3. wire - 1 = ticket.target.slot
          BY <5>2 DEF SlotIndexes
        <5> QED
          BY <4>1, <4>3, <5>1, <5>2, <5>3, NamedSlotTells
      <4>4. Told(request, 0, Only(wire - 1, NewFile(request.id)))
        BY <4>3, Zenon DEF Told
      <4>5. 0 \in Int /\ FALSE \in BOOLEAN
        OBVIOUS
      <4> QED
        BY <4>1, <4>2, <4>4, <4>5, Zenon
    <3> QED
      BY <3>1, <3>2
  <2> QED
    BY <2>3, <2>4, <2>5
<1>6. CASE Accept(request)
  BY <1>3, <1>4, <1>6 DEF Accept
<1>7. CASE Update(request)
  <2> DEFINE fds == request.fds
  <2> DEFINE n == Taken(fds)
  <2>1. CASE Fail(request)
    BY <1>3, <2>1
  <2>2. CASE ~Fail(request)
    <3>1. /\ request.off + Len(fds) <= TableSize /\ n # 0 /\ request.op = "update"
          /\ Post(request, n, FALSE, Put(request.off, fds, n))
      <4>1. /\ request.op = "update" /\ n # 0 /\ ~(request.off + Len(fds) > TableSize)
            /\ Post(request, n, FALSE, Put(request.off, fds, n))
        BY <1>7, <2>2, Zenon DEF Update
      <4>2. request.off + Len(fds) \in Nat
        BY <1>1
      <4>3. request.off + Len(fds) <= TableSize
        BY <4>1, <4>2
      <4> QED
        BY <4>1, <4>3, Zenon
    <3>2. n \in 0 .. Len(fds) /\ n \in 1 .. Len(fds) /\ n \in Int /\ Len(fds) \in Nat
      BY <1>1, <3>1, TakenBound
    <3>3. Put(request.off, fds, n) \in Change
      <4>1. request.off + n <= TableSize
        BY <1>1, <3>1, <3>2
      <4> QED
        BY <1>1, <3>2, <4>1, PutIsChange
    <3>4. ASSUME NEW ticket \in tickets, NEW cqe, ticket.id = request.id,
                 Describes(ticket, request), cqe.result = n
          PROVE  Learned(ticket, cqe) = Put(request.off, fds, n)
      <4>1. /\ ticket \in TicketType /\ ticket.entries \in Seq(TableEntries)
            /\ ticket.op = "update" /\ ticket.offset = request.off
            /\ fds = [i \in DOMAIN ticket.entries |-> EntryRaw(ticket.entries[i])]
        BY <1>1, <3>1, <3>4, Zenon DEF TicketType, Describes
      <4>2. /\ fds \in Seq(I32Fds) /\ Len(fds) = Len(ticket.entries)
            /\ \A i \in 1 .. Len(ticket.entries) :
                 /\ fds[i] # -2
                 /\ EntryFile(ticket.entries[i]) = IF fds[i] = -1 THEN Empty ELSE FileOf(fds[i])
        <5>1. PICK entries : entries = ticket.entries
          BY Zenon
        <5>2. /\ entries \in Seq(TableEntries)
              /\ fds = [i \in DOMAIN entries |-> EntryRaw(entries[i])]
          BY <4>1, <5>1, Zenon
        <5>3. /\ fds \in Seq(I32Fds) /\ Len(fds) = Len(entries)
              /\ \A i \in 1 .. Len(entries) :
                   /\ fds[i] # -2
                   /\ EntryFile(entries[i]) = IF fds[i] = -1 THEN Empty ELSE FileOf(fds[i])
          BY <5>2, EntriesAreUnderstood, Zenon
        <5> QED
          BY <5>1, <5>3, Zenon
      <4>3. /\ ticket \in TicketType /\ ticket.op = "update"
            /\ ticket.offset + Len(ticket.entries) <= TableSize
            /\ n \in 1 .. Len(ticket.entries)
        BY <3>1, <3>2, <4>1, <4>2, Zenon
      <4>4. Learned(ticket, cqe) = Put(ticket.offset, fds, n)
        BY <3>4, <4>2, <4>3, UpdateTells, Zenon
      <4> QED
        BY <4>1, <4>4, Zenon
    <3>5. Told(request, n, Put(request.off, fds, n))
      BY <3>4, Zenon DEF Told
    <3>6. FALSE \in BOOLEAN
      OBVIOUS
    <3> QED
      BY <3>1, <3>2, <3>3, <3>5, <3>6, Zenon
  <2> QED
    BY <2>1, <2>2
<1> QED
  BY <1>5, <1>6, <1>7 DEF Work

-----------------------------------------------------------------------------
\* The invariant, action by action.

\* A ring on which no table has been registered.
LEMMA SlotInit == Init => SlotInv
<1> SUFFICES ASSUME Init PROVE SlotInv
  OBVIOUS
<1> USE Constants
<1>1. Empty \in File
  BY DEF File
<1>2. SlotTypeOK
  <2>1. table \in [Slots -> File] /\ picture \in [Slots -> File] /\ cq \in Seq(CompletionType)
    BY <1>1 DEF Init
  <2>2. next \in 1 .. MaxRequests + 1
    BY DEF Init
  <2>3. split \in BOOLEAN /\ registered \in BOOLEAN /\ alloc \subseteq Slots
        /\ requests \subseteq RequestType /\ tickets \subseteq TicketType
    BY Zenon DEF Init
  <2> QED
    BY <2>1, <2>2, <2>3 DEF SlotTypeOK
<1>3. Numbered /\ TicketsTell /\ LastTells
  BY DEF Init, Numbered, TicketsTell, LastTells
<1>4. PictureExact /\ ArmedIsArmed
  BY DEF Init, PictureExact, ArmedIsArmed
<1> QED
  BY <1>2, <1>3, <1>4 DEF SlotInv, Init

\* A call on the whole ring, before any request, may change table and picture
\* together.
LEMMA WholeRingStep ==
  ASSUME SlotInv, ~split, UNCHANGED <<requests, cq, tickets, next>>,
         split' \in BOOLEAN, registered' \in BOOLEAN, alloc' \subseteq Slots,
         table' \in [Slots -> File], picture' \in [Slots -> File],
         \A slot \in Slots : picture'[slot] = table'[slot] \/ slot \in unnamed'
  PROVE  SlotInv'
<1>1. cq = << >> /\ requests = {} /\ tickets = {}
  BY DEF SlotInv
<1>2. SlotTypeOK'
  BY DEF SlotInv, SlotTypeOK
<1>3. Numbered' /\ TicketsTell' /\ LastTells' /\ ArmedIsArmed'
  BY <1>1 DEF Numbered, TicketsTell, LastTells, ArmedIsArmed
<1>4. PictureExact'
  BY DEF PictureExact
<1> QED
  BY <1>1, <1>2, <1>3, <1>4 DEF SlotInv

\* A registration tells what it does, or the slots it may have changed.
LEMMA SetupStep ==
  ASSUME SlotInv, Setup
  PROVE  SlotInv'
<1> USE Constants
<1>0. /\ split \in BOOLEAN /\ registered \in BOOLEAN /\ alloc \subseteq Slots
      /\ table \in [Slots -> File] /\ picture \in [Slots -> File]
      /\ Empty \in File
  BY DEF SlotInv, SlotTypeOK, File
<1>1. ASSUME ~split PROVE \A slot \in Slots : picture[slot] = table[slot] \/ slot \in unnamed
  BY <1>1 DEF SlotInv, PictureExact, Untold
<1>2. ASSUME NEW fds \in [Slots -> I32Fds], RegisterFiles(fds) PROVE SlotInv'
  <2>1. /\ table' = [slot \in Slots |-> IF fds[slot] = -1 THEN Empty ELSE FileOf(fds[slot])]
        /\ picture' = table' /\ UNCHANGED <<split, alloc, requests, cq, tickets, unnamed, next>>
        /\ registered' = TRUE /\ ~split
    BY <1>2 DEF RegisterFiles
  <2>2. \A slot \in Slots : FileOf(fds[slot]) \in File
    BY DEF File
  <2>3. table' \in [Slots -> File]
    BY <1>0, <2>1, <2>2
  <2> QED
    BY <1>0, <2>1, <2>3, WholeRingStep
<1>3. CASE UnregisterFiles
  BY <1>0, <1>3, WholeRingStep, Zenon DEF UnregisterFiles
<1>4. ASSUME NEW offset \in Slots, NEW fds \in Arrays(I32Fds, TableSize),
             UpdateRegisteredFiles(offset, fds)
      PROVE  SlotInv'
  <2> DEFINE n == Taken(fds)
  <2>1. fds \in Seq(I32Fds) /\ Len(fds) \in Nat /\ offset \in Nat
    <3>1. fds \in Seq(I32Fds)
      BY ArrayIsSequence
    <3> QED
      BY <3>1 DEF Slots
  <2>2. /\ ~split /\ n > 0 /\ offset + Len(fds) <= TableSize
        /\ table' = Written(Put(offset, fds, n), table)
        /\ picture' = Written(Put(offset, fds, 1), picture)
        /\ unnamed' = (unnamed \ DOMAIN Put(offset, fds, 1))
                        \cup (DOMAIN Put(offset, fds, Len(fds)) \ {offset})
        /\ UNCHANGED <<setup, requests, cq, tickets, next>>
    BY <1>4 DEF UpdateRegisteredFiles
  <2>3. n \in 0 .. Len(fds) /\ 1 \in 0 .. Len(fds) /\ Len(fds) \in 0 .. Len(fds) /\ n >= 1
    <3>1. n \in 0 .. Len(fds)
      BY <2>1, TakenBound
    <3> QED
      BY <2>1, <2>2, <3>1
  <2>4. Put(offset, fds, n) \in Change /\ Put(offset, fds, 1) \in Change
    <3>1. offset + n <= TableSize /\ offset + 1 <= TableSize
      BY <2>1, <2>2, <2>3
    <3> QED
      BY <2>1, <2>3, <3>1, PutIsChange
  <2>5. table' \in [Slots -> File] /\ picture' \in [Slots -> File]
    BY <1>0, <2>2, <2>4, WrittenType
  <2>6. ASSUME NEW slot \in Slots, slot \notin unnamed' PROVE picture'[slot] = table'[slot]
    <3>1. /\ \A s : s \in DOMAIN Put(offset, fds, n)
                     <=> s \in offset .. offset + n - 1 /\ fds[s - offset + 1] # -2
          /\ \A s \in DOMAIN Put(offset, fds, n) :
               Put(offset, fds, n)[s] = IF fds[s - offset + 1] = -1 THEN Empty
                                        ELSE FileOf(fds[s - offset + 1])
      BY <2>1, <2>3, PutValue, Zenon
    <3>2. /\ \A s : s \in DOMAIN Put(offset, fds, 1)
                     <=> s \in offset .. offset + 1 - 1 /\ fds[s - offset + 1] # -2
          /\ \A s \in DOMAIN Put(offset, fds, 1) :
               Put(offset, fds, 1)[s] = IF fds[s - offset + 1] = -1 THEN Empty
                                        ELSE FileOf(fds[s - offset + 1])
      BY <2>1, <2>3, PutValue, Zenon
    <3>3. \A s : s \in DOMAIN Put(offset, fds, Len(fds))
                  <=> s \in offset .. offset + Len(fds) - 1 /\ fds[s - offset + 1] # -2
      BY <2>1, <2>3, PutValue, Zenon
    <3>4. /\ offset .. offset + 1 - 1 = {offset} /\ offset \in offset .. offset + n - 1
          /\ offset .. offset + n - 1 \subseteq offset .. offset + Len(fds) - 1
      BY <2>1, <2>3
    <3>5. CASE slot \in DOMAIN Put(offset, fds, 1)
      <4>1. slot \in DOMAIN Put(offset, fds, n)
            /\ Put(offset, fds, n)[slot] = Put(offset, fds, 1)[slot]
        BY <3>1, <3>2, <3>4, <3>5, Zenon
      <4> QED
        BY <2>2, <3>5, <4>1, WrittenValue
    <3>6. CASE slot \notin DOMAIN Put(offset, fds, 1)
      <4>1. slot \notin unnamed /\ slot \notin DOMAIN Put(offset, fds, n)
        BY <2>2, <2>6, <3>1, <3>2, <3>3, <3>4, <3>6, Zenon
      <4> QED
        BY <1>1, <2>2, <3>6, <4>1, WrittenValue
    <3> QED
      BY <3>5, <3>6
  <2> QED
    BY <1>0, <2>2, <2>5, <2>6, WholeRingStep DEF setup
<1>5. ASSUME NEW off \in Slots, NEW len \in 0 .. TableSize, RegisterFileAllocRange(off, len)
      PROVE  SlotInv'
  <2>1. alloc' \subseteq Slots
    BY <1>5 DEF RegisterFileAllocRange, Slots
  <2> QED
    BY <1>0, <1>1, <1>5, <2>1, WholeRingStep DEF RegisterFileAllocRange
<1>6. CASE SplitOwned
  BY <1>0, <1>1, <1>6, WholeRingStep DEF SplitOwned
<1> QED
  BY <1>2, <1>3, <1>4, <1>5, <1>6 DEF Setup

\* A push adds a request and the ticket that describes it, under a new number.
LEMMA PushStep ==
  ASSUME SlotInv, split, NEW request \in RequestType, NEW ticket \in TicketType,
         request.id = next, ticket.id = next, next <= MaxRequests, Describes(ticket, request),
         requests' = requests \cup {request}, tickets' = tickets \cup {ticket},
         next' = next + 1, UNCHANGED <<setup, table, cq, picture, unnamed>>
  PROVE  SlotInv'
<1> USE Constants
<1>1. /\ next \in 1 .. MaxRequests /\ next' = next + 1 /\ split' = split
      /\ \A other \in requests : other.id \in Nat /\ other.id < next
      /\ \A other \in tickets : other.id \in Nat /\ other.id < next
      /\ \A i \in DOMAIN cq : cq[i].id \in Nat /\ cq[i].id < next
  <2>1. next \in 1 .. MaxRequests /\ split' = split
    BY DEF SlotInv, SlotTypeOK, setup
  <2>2. \A other \in requests : other.id \in Nat /\ other.id < next
    BY DEF SlotInv, SlotTypeOK, Numbered, RequestType
  <2>3. \A other \in tickets : other.id \in Nat /\ other.id < next
    BY DEF SlotInv, SlotTypeOK, Numbered, TicketType
  <2>4. \A i \in DOMAIN cq : cq[i].id \in Nat /\ cq[i].id < next
    <3>1. \A i \in DOMAIN cq : cq[i] \in CompletionType
      BY DEF SlotInv, SlotTypeOK
    <3> QED
      BY <3>1 DEF SlotInv, Numbered, CompletionType
  <2> QED
    BY <2>1, <2>2, <2>3, <2>4
<1>2. SlotTypeOK'
  <2>1. next' \in 1 .. MaxRequests + 1
    BY <1>1
  <2> QED
    BY <2>1, Zenon DEF SlotInv, SlotTypeOK, setup
<1>3. Numbered'
  <2>1. \A other \in requests' \cup tickets' : other.id < next'
    BY <1>1
  <2>2. \A i \in DOMAIN cq' : cq'[i].id < next'
    BY <1>1
  <2>3. \A other \in tickets : other.id # ticket.id
    BY <1>1
  <2>4. \A one, other \in tickets' : one.id = other.id => one = other
    BY <2>3, Zenon DEF SlotInv, Numbered
  <2> QED
    BY <2>1, <2>2, <2>4, Zenon DEF Numbered
<1>4. TicketsTell'
  <2>1. \A other \in requests : other.id # next
    BY <1>1
  <2>2. \A other \in tickets : other.id # next
    BY <1>1
  <2>3. \A i \in DOMAIN cq : cq[i].id # next
    BY <1>1
  <2>4. TicketsTell
    BY Zenon DEF SlotInv
  <2>5. \A one \in tickets', other \in requests' : other.id = one.id => Describes(one, other)
    BY <2>1, <2>2, <2>4, Zenon DEF TicketsTell
  <2>6. \A one \in tickets', i \in DOMAIN cq' :
          cq'[i].id = one.id => Learned(one, cq'[i]) = cq'[i].files
    BY <2>3, <2>4, Zenon DEF TicketsTell
  <2> QED
    BY <2>5, <2>6, Zenon DEF TicketsTell
<1>5. LastTells' /\ PictureExact'
  BY DEF SlotInv, LastTells, PictureExact, Untold
<1>6. ArmedIsArmed'
  BY Zenon DEF SlotInv, ArmedIsArmed
<1> QED
  BY <1>1, <1>2, <1>3, <1>4, <1>5, <1>6 DEF SlotInv

\* The three kinds of push send what their ticket describes.
LEMMA PushesStep ==
  ASSUME \A fd \in RawFds : fd < Word \div 2, SlotInv,
         \/ \E target \in Targets, cloexec \in BOOLEAN : PushDirect(target, cloexec)
         \/ PushAccept
         \/ \E offset \in Slots, entries \in Arrays(TableEntries, 2) :
              PushUpdate(offset, entries)
  PROVE  SlotInv'
<1> USE Constants
<1>0. /\ AutoTarget \in Targets /\ Raw(AutoTarget) \in Int
      /\ << >> \in Seq(I32Fds) /\ << >> \in Seq(TableEntries)
  <2>1. AutoTarget \in Targets
    BY DEF Targets
  <2> QED
    BY <2>1, RawIsUnderstood
<1>1. next \in Nat /\ next >= 1
  BY DEF SlotInv, SlotTypeOK
<1>2. ASSUME NEW target \in Targets, NEW cloexec \in BOOLEAN, PushDirect(target, cloexec)
      PROVE  SlotInv'
  <2> DEFINE request == [id |-> next, op |-> "direct", file_index |-> Raw(target), fds |-> << >>,
                         off |-> 0]
  <2> DEFINE ticket == [id |-> next, op |-> "direct", target |-> target, entries |-> << >>,
                        offset |-> 0]
  <2>1. /\ split /\ next <= MaxRequests
        /\ requests' = requests \cup {request} /\ tickets' = tickets \cup {ticket}
        /\ next' = next + 1 /\ UNCHANGED <<setup, table, cq, picture, unnamed>>
    BY <1>2 DEF PushDirect, Push
  <2>2. Raw(target) \in Int
    BY RawIsUnderstood
  <2>3. request \in RequestType /\ ticket \in TicketType
    BY <1>0, <1>1, <2>1, <2>2 DEF RequestType, TicketType, Op
  <2>4. request.id = next /\ ticket.id = next /\ Describes(ticket, request)
    BY DEF Describes
  <2> HIDE DEF request, ticket
  <2> QED
    BY <2>1, <2>3, <2>4, PushStep
<1>3. CASE PushAccept
  <2> DEFINE request == [id |-> next, op |-> "accept", file_index |-> Raw(AutoTarget), fds |-> << >>,
                         off |-> 0]
  <2> DEFINE ticket == [id |-> next, op |-> "accept", target |-> AutoTarget, entries |-> << >>,
                        offset |-> 0]
  <2>1. /\ split /\ next <= MaxRequests
        /\ requests' = requests \cup {request} /\ tickets' = tickets \cup {ticket}
        /\ next' = next + 1 /\ UNCHANGED <<setup, table, cq, picture, unnamed>>
    BY <1>3 DEF PushAccept, Push
  <2>2. request \in RequestType /\ ticket \in TicketType
    <3>1. next \in 1 .. MaxRequests
      BY <1>1, <2>1
    <3>2. request \in RequestType
      BY <1>0, <3>1 DEF RequestType, Op
    <3>3. ticket \in TicketType
      BY <1>0, <3>1 DEF TicketType, Op
    <3> QED
      BY <3>2, <3>3
  <2>3. request.id = next /\ ticket.id = next /\ Describes(ticket, request)
    BY DEF Describes
  <2> HIDE DEF request, ticket
  <2> QED
    BY <2>1, <2>2, <2>3, PushStep
<1>4. ASSUME NEW offset \in Slots, NEW entries \in Arrays(TableEntries, 2),
             PushUpdate(offset, entries)
      PROVE  SlotInv'
  <2> DEFINE fds == [i \in DOMAIN entries |-> EntryRaw(entries[i])]
  <2> DEFINE request == [id |-> next, op |-> "update", file_index |-> 0, off |-> offset,
                         fds |-> fds]
  <2> DEFINE ticket == [id |-> next, op |-> "update", target |-> AutoTarget, entries |-> entries,
                        offset |-> offset]
  <2>1. /\ split /\ next <= MaxRequests
        /\ requests' = requests \cup {request} /\ tickets' = tickets \cup {ticket}
        /\ next' = next + 1 /\ UNCHANGED <<setup, table, cq, picture, unnamed>>
    <3>1. \A f : [[id |-> 0, op |-> "update", file_index |-> 0, off |-> offset, fds |-> f]
                    EXCEPT !.id = next]
                 = [id |-> next, op |-> "update", file_index |-> 0, off |-> offset, fds |-> f]
      OBVIOUS
    <3>2. [[id |-> 0, op |-> "update", target |-> AutoTarget, entries |-> entries, offset |-> offset]
             EXCEPT !.id = next] = ticket
      OBVIOUS
    <3> QED
      BY <1>4, <3>1, <3>2, Zenon DEF PushUpdate, Push
  <2>2. entries \in Seq(TableEntries) /\ offset \in Nat
    BY ArrayIsSequence DEF Slots
  <2>3. fds \in Seq(I32Fds)
    BY <2>2, EntriesAreUnderstood, Zenon
  <2>4. Describes(ticket, request)
    BY DEF Describes
  <2> HIDE DEF fds
  <2>5. request \in RequestType /\ ticket \in TicketType /\ request.id = next /\ ticket.id = next
    <3>1. next \in 1 .. MaxRequests
      BY <1>1, <2>1
    <3>2. request \in RequestType /\ request.id = next
      BY <2>2, <2>3, <3>1 DEF RequestType, Op
    <3>3. ticket \in TicketType /\ ticket.id = next
      BY <1>0, <2>2, <3>1 DEF TicketType, Op
    <3> QED
      BY <3>2, <3>3
  <2> HIDE DEF request, ticket
  <2> QED
    BY <2>1, <2>4, <2>5, PushStep
<1> QED
  BY <1>2, <1>3, <1>4

\* The kernel changes the table and posts the completion that tells of it.
LEMMA PostStep ==
  ASSUME SlotInv, NEW request \in requests, NEW result \in Int, NEW more \in BOOLEAN,
         NEW files \in Change, Post(request, result, more, files), Told(request, result, files)
  PROVE  SlotInv'
<1> USE Constants
<1>0. PICK cqe : cqe = [id |-> request.id, result |-> result, more |-> more, files |-> files]
  BY Zenon
<1>1. /\ cq' = Append(cq, cqe) /\ table' = Written(files, table)
      /\ requests' = IF more THEN requests ELSE requests \ {request}
      /\ UNCHANGED <<setup, tickets, picture, unnamed, next>>
  BY <1>0, Zenon DEF Post
<1>2. /\ cqe.id = request.id /\ cqe.result = result /\ cqe.more = more /\ cqe.files = files
      /\ cqe \in CompletionType
  BY <1>0 DEF CompletionType, SlotInv, SlotTypeOK, RequestType
<1>3. cq \in Seq(CompletionType) /\ request.id < next
  BY Zenon DEF SlotInv, SlotTypeOK, Numbered
<1>4. /\ cq' \in Seq(CompletionType) /\ Len(cq) \in Nat
      /\ DOMAIN cq = 1 .. Len(cq) /\ DOMAIN cq' = 1 .. Len(cq) + 1
      /\ \A i \in DOMAIN cq : cq'[i] = cq[i]
      /\ cq'[Len(cq) + 1] = cqe
  <2>1. cqe \in CompletionType /\ cq' = Append(cq, cqe)
    BY <1>1, <1>2, Zenon
  <2> HIDE <1>0
  <2> QED
    BY <1>3, <2>1
<1>5. /\ \A i \in DOMAIN cq' : i \in DOMAIN cq \/ i = Len(cq) + 1
      /\ \A i \in DOMAIN cq : i \in DOMAIN cq' /\ Len(cq) + 1 > i
      /\ Len(cq) + 1 \in DOMAIN cq' /\ ~(Len(cq) + 1 > Len(cq) + 1)
      /\ \A i \in DOMAIN cq : i \in Nat
  BY <1>4
<1>6. \A slot \in Slots :
         /\ slot \in DOMAIN files => table'[slot] = files[slot]
         /\ slot \notin DOMAIN files => table'[slot] = table[slot]
  BY <1>1 DEF Written
<1>7. SlotTypeOK'
  <2>1. table' \in [Slots -> File]
    BY <1>1, WrittenType DEF SlotInv, SlotTypeOK
  <2> QED
    BY <1>1, <1>4, <2>1, Zenon DEF SlotInv, SlotTypeOK, setup
<1>8. Numbered'
  BY <1>1, <1>2, <1>3, <1>4, <1>5, Zenon DEF SlotInv, Numbered
<1>9. TicketsTell'
  <2>1. ASSUME NEW ticket \in tickets, cqe.id = ticket.id PROVE Learned(ticket, cqe) = cqe.files
    BY <1>2, <2>1, Zenon DEF SlotInv, TicketsTell, Told
  <2>2. requests' \subseteq requests /\ tickets' = tickets
    BY <1>1, Zenon
  <2>3. ASSUME NEW ticket \in tickets, NEW i \in DOMAIN cq', cq'[i].id = ticket.id
        PROVE  Learned(ticket, cq'[i]) = cq'[i].files
    <3>1. CASE i \in DOMAIN cq
      BY <1>4, <2>3, <3>1, Zenon DEF SlotInv, TicketsTell
    <3>2. CASE i = Len(cq) + 1
      BY <1>4, <2>1, <2>3, <3>2, Zenon
    <3> QED
      BY <1>5, <3>1, <3>2, Zenon
  <2>4. \A ticket \in tickets', other \in requests' :
          other.id = ticket.id => Describes(ticket, other)
    BY <2>2, Zenon DEF SlotInv, TicketsTell
  <2>5. \A ticket \in tickets', i \in DOMAIN cq' :
          cq'[i].id = ticket.id => Learned(ticket, cq'[i]) = cq'[i].files
    BY <2>2, <2>3, Zenon
  <2> QED
    BY <2>4, <2>5, Zenon DEF TicketsTell
<1>10. LastTells'
  <2> SUFFICES ASSUME NEW i \in DOMAIN cq', NEW slot \in Slots, slot \in DOMAIN cq'[i].files,
                      \A j \in DOMAIN cq' : j > i => slot \notin DOMAIN cq'[j].files
               PROVE  cq'[i].files[slot] = table'[slot]
    BY Zenon DEF LastTells
  <2>1. CASE i = Len(cq) + 1
    <3>1. cq'[i] = cqe
      BY <1>4, <2>1, Zenon
    <3> QED
      BY <1>2, <1>6, <3>1, Zenon
  <2>2. CASE i \in DOMAIN cq
    <3>1. slot \notin DOMAIN files
      BY <1>2, <1>4, <1>5, <2>2, Zenon
    <3>2. cq[i].files[slot] = table[slot]
      BY <1>4, <1>5, <2>2, Zenon DEF SlotInv, LastTells
    <3> QED
      BY <1>4, <1>6, <2>2, <3>1, <3>2, Zenon
  <2> QED
    BY <1>5, <2>1, <2>2, Zenon
<1>11. PictureExact'
  <2>1. Untold' = Untold \cup DOMAIN files
    BY <1>2, <1>4, <1>5, Zenon DEF Untold
  <2>2. ASSUME NEW slot \in Slots, slot \notin Untold' \cup unnamed'
        PROVE  picture'[slot] = table'[slot]
    <3>1. slot \notin DOMAIN files /\ picture[slot] = table[slot]
      BY <1>1, <2>1, <2>2, Zenon DEF SlotInv, PictureExact
    <3> QED
      BY <1>1, <1>6, <3>1, Zenon
  <2> QED
    BY <2>2, Zenon DEF PictureExact
<1>12. ArmedIsArmed'
  <2> SUFFICES ASSUME NEW ticket \in tickets
               PROVE  \/ \E other \in requests' : other.id = ticket.id
                      \/ \E i \in DOMAIN cq' : cq'[i].id = ticket.id /\ ~cq'[i].more
    BY <1>1, Zenon DEF ArmedIsArmed
  <2>1. CASE \E i \in DOMAIN cq : cq[i].id = ticket.id /\ ~cq[i].more
    BY <1>4, <1>5, <2>1, Zenon
  <2>2. ASSUME NEW other \in requests, other.id = ticket.id
        PROVE  \/ \E o \in requests' : o.id = ticket.id
               \/ \E i \in DOMAIN cq' : cq'[i].id = ticket.id /\ ~cq'[i].more
    <3>1. CASE other \in requests'
      BY <2>2, <3>1
    <3>2. CASE other \notin requests'
      <4>1. other = request /\ ~more
        BY <1>1, <3>2, Zenon
      <4> QED
        BY <1>2, <1>4, <1>5, <2>2, <4>1, Zenon
    <3> QED
      BY <3>1, <3>2
  <2> QED
    BY <2>1, <2>2, Zenon DEF SlotInv, ArmedIsArmed
<1>13. split
  BY DEF SlotInv
<1> QED
  BY <1>1, <1>7, <1>8, <1>9, <1>10, <1>11, <1>12, <1>13, Zenon DEF SlotInv, setup

\* Reaping the oldest completion, when the application learns its change or the
\* change goes unnamed, and no ticket goes on waiting for a terminal one.
LEMMA ReapStep ==
  ASSUME SlotInv, cq # << >>, cq' = Tail(cq), tickets' \subseteq tickets,
         UNCHANGED <<setup, table, requests, next>>, picture' \in [Slots -> File],
         \A ticket \in tickets' : ticket.id = Cqe.id => Cqe.more,
         \A slot \in Slots :
           IF slot \in DOMAIN Cqe.files
           THEN picture'[slot] = Cqe.files[slot] \/ slot \in unnamed'
           ELSE picture'[slot] = picture[slot] /\ (slot \in unnamed => slot \in unnamed')
  PROVE  SlotInv'
<1>1. cq \in Seq(CompletionType)
  BY Zenon DEF SlotInv, SlotTypeOK
<1>2. /\ cq' \in Seq(CompletionType) /\ Len(cq) \in Nat /\ Len(cq) >= 1 /\ Cqe = cq[1]
      /\ DOMAIN cq = 1 .. Len(cq) /\ DOMAIN cq' = 1 .. Len(cq) - 1
      /\ \A i \in DOMAIN cq' : cq'[i] = cq[i + 1]
  BY <1>1 DEF Cqe
<1>3. /\ \A i \in DOMAIN cq' : i + 1 \in DOMAIN cq /\ i + 1 # 1
      /\ 1 \in DOMAIN cq
  BY <1>2
<1>4. ASSUME NEW i \in DOMAIN cq PROVE i = 1 \/ \E k \in DOMAIN cq' : i = k + 1
  <2>1. CASE i # 1
    <3>1. i - 1 \in DOMAIN cq' /\ i = (i - 1) + 1
      BY <1>2, <2>1
    <3> QED
      BY <3>1
  <2> QED
    BY <2>1
<1>5. SlotTypeOK'
  <2>1. UNCHANGED <<split, registered, alloc>>
    BY DEF setup
  <2> QED
    BY <1>2, <2>1, Zenon DEF SlotInv, SlotTypeOK
<1>6. Numbered'
  BY <1>2, <1>3, Zenon DEF SlotInv, Numbered
<1>7. TicketsTell'
  <2>1. \A ticket \in tickets', other \in requests' :
          other.id = ticket.id => Describes(ticket, other)
    BY Zenon DEF SlotInv, TicketsTell
  <2>2. \A ticket \in tickets', i \in DOMAIN cq' :
          cq'[i].id = ticket.id => Learned(ticket, cq'[i]) = cq'[i].files
    <3> SUFFICES ASSUME NEW ticket \in tickets', NEW i \in DOMAIN cq', cq'[i].id = ticket.id
                 PROVE  Learned(ticket, cq'[i]) = cq'[i].files
      OBVIOUS
    <3>1. ticket \in tickets /\ i + 1 \in DOMAIN cq /\ cq'[i] = cq[i + 1]
      BY <1>2, <1>3, Zenon
    <3>2. cq[i + 1].id = ticket.id => Learned(ticket, cq[i + 1]) = cq[i + 1].files
      BY <3>1, Zenon DEF SlotInv, TicketsTell
    <3> QED
      BY <3>1, <3>2, Zenon
  <2> QED
    BY <2>1, <2>2, Zenon DEF TicketsTell
<1>8. LastTells'
  <2> SUFFICES ASSUME NEW i \in DOMAIN cq', NEW slot \in Slots, slot \in DOMAIN cq'[i].files,
                      \A j \in DOMAIN cq' : j > i => slot \notin DOMAIN cq'[j].files
               PROVE  cq'[i].files[slot] = table'[slot]
    BY Zenon DEF LastTells
  <2>1. ASSUME NEW j \in DOMAIN cq, j > i + 1 PROVE slot \notin DOMAIN cq[j].files
    <3>1. j # 1 /\ i \in Nat
      BY <1>2, <2>1
    <3>2. PICK k \in DOMAIN cq' : j = k + 1
      BY <1>4, <3>1
    <3>3. k > i
      BY <1>2, <2>1, <3>1, <3>2
    <3> QED
      BY <1>2, <3>2, <3>3, Zenon
  <2>2. i + 1 \in DOMAIN cq /\ slot \in DOMAIN cq[i + 1].files
    BY <1>2, <1>3, Zenon
  <2>3. cq[i + 1].files[slot] = table[slot]
    BY <2>1, <2>2, Zenon DEF SlotInv, LastTells
  <2> QED
    BY <1>2, <2>3, Zenon
<1>9. PictureExact'
  <2> SUFFICES ASSUME NEW slot \in Slots, slot \notin Untold', slot \notin unnamed'
               PROVE  picture'[slot] = table[slot]
    BY Zenon DEF PictureExact
  <2>0. \A k \in DOMAIN cq' : slot \notin DOMAIN cq'[k].files
    BY Zenon DEF Untold
  <2>1. \A k \in DOMAIN cq' : slot \notin DOMAIN cq[k + 1].files
    BY <1>2, <2>0, Zenon
  <2>2. \A i \in DOMAIN cq : i # 1 => slot \notin DOMAIN cq[i].files
    BY <1>4, <2>1, Zenon
  <2>3. CASE slot \in DOMAIN Cqe.files
    <3>1. \A j \in DOMAIN cq : j > 1 => slot \notin DOMAIN cq[j].files
      BY <1>2, <2>2
    <3>2. slot \in DOMAIN cq[1].files
      BY <1>2, <2>3, Zenon
    <3>3. LastTells
      BY Zenon DEF SlotInv
    <3>4. cq[1].files[slot] = table[slot]
      BY <1>3, <3>1, <3>2, <3>3, Zenon DEF LastTells
    <3> QED
      BY <1>2, <2>3, <3>4, Zenon
  <2>4. CASE slot \notin DOMAIN Cqe.files
    <3>1. slot \notin Untold
      BY <1>2, <2>2, <2>4, Zenon DEF Untold
    <3> QED
      BY <2>4, <3>1, Zenon DEF SlotInv, PictureExact
  <2> QED
    BY <2>3, <2>4
<1>10. ArmedIsArmed'
  <2> SUFFICES ASSUME NEW ticket \in tickets'
               PROVE  \/ \E request \in requests : request.id = ticket.id
                      \/ \E i \in DOMAIN cq' : cq'[i].id = ticket.id /\ ~cq'[i].more
    BY Zenon DEF ArmedIsArmed
  <2>1. ASSUME NEW i \in DOMAIN cq, cq[i].id = ticket.id, ~cq[i].more
        PROVE  \E k \in DOMAIN cq' : cq'[k].id = ticket.id /\ ~cq'[k].more
    <3>1. i # 1
      BY <1>2, <2>1, Zenon
    <3>2. PICK k \in DOMAIN cq' : i = k + 1
      BY <1>4, <3>1, Zenon
    <3> QED
      BY <1>2, <2>1, <3>2, Zenon
  <2> QED
    BY <2>1, Zenon DEF SlotInv, ArmedIsArmed
<1>11. split
  BY DEF SlotInv
<1> QED
  BY <1>5, <1>6, <1>7, <1>8, <1>9, <1>10, <1>11, Zenon DEF SlotInv, setup

\* Redeeming a ticket: what it makes of the completion is the completion's change.
LEMMA RedeemStep ==
  ASSUME SlotInv, Redeem
  PROVE  SlotInv'
<1>1. PICK ticket \in Named : RedeemDirect(ticket) \/ RecordAccept(ticket) \/ RedeemUpdate(ticket)
  BY DEF Redeem
<1>2. /\ ticket \in tickets /\ ticket.id = Cqe.id
      /\ cq \in Seq(CompletionType) /\ cq # << >> /\ picture \in [Slots -> File]
  BY Zenon DEF Named, Redeem, SlotInv, SlotTypeOK
<1>3. Cqe \in CompletionType /\ 1 \in DOMAIN cq /\ Cqe = cq[1]
  BY <1>2 DEF Cqe
<1>4. Cqe.files \in Change
  BY <1>3 DEF CompletionType
<1>5. picture' = Written(Learned(ticket, Cqe), picture)
  <2>1. CASE RedeemDirect(ticket)
    BY <2>1 DEF RedeemDirect, Learned
  <2>2. CASE RecordAccept(ticket)
    BY <2>2 DEF RecordAccept, Learned
  <2>3. CASE RedeemUpdate(ticket)
    BY <2>3 DEF RedeemUpdate, Learned
  <2> QED
    BY <1>1, <2>1, <2>2, <2>3
<1>6. Learned(ticket, Cqe) = Cqe.files
  BY <1>2, <1>3, Zenon DEF SlotInv, TicketsTell
<1>7. picture' = Written(Cqe.files, picture)
  BY <1>5, <1>6, Zenon
<1>8. picture' \in [Slots -> File]
  BY <1>2, <1>4, <1>7, WrittenType, Zenon
<1>9. \A slot \in Slots :
        IF slot \in DOMAIN Cqe.files
        THEN picture'[slot] = Cqe.files[slot]
        ELSE picture'[slot] = picture[slot]
  <2> TAKE slot \in Slots
  <2> QED
    BY <1>7 DEF Written
<1>10. tickets' = tickets \/ tickets' = tickets \ {ticket}
  BY <1>1, Zenon DEF RedeemDirect, RecordAccept, RedeemUpdate
<1>11. Cqe.more \/ tickets' = tickets \ {ticket}
  BY <1>1, Zenon DEF RedeemDirect, RecordAccept, RedeemUpdate
<1>12. \A other \in tickets' : other.id = Cqe.id => Cqe.more
  BY <1>2, <1>10, <1>11, Zenon DEF SlotInv, Numbered
<1>13. \A slot \in Slots :
         IF slot \in DOMAIN Cqe.files
         THEN picture'[slot] = Cqe.files[slot] \/ slot \in unnamed'
         ELSE picture'[slot] = picture[slot] /\ (slot \in unnamed => slot \in unnamed')
  BY <1>9, Zenon DEF Redeem
<1>14. tickets' \subseteq tickets /\ cq' = Tail(cq) /\ UNCHANGED <<setup, table, requests, next>>
  BY <1>10, Zenon DEF Redeem
<1> QED
  BY <1>2, <1>8, <1>12, <1>13, <1>14, ReapStep, Zenon

\* A completion nobody holds the ticket of leaves its slots unnamed.
LEMMA DiscardStep ==
  ASSUME SlotInv, Discard
  PROVE  SlotInv'
<1>1. picture' \in [Slots -> File]
  BY Zenon DEF Discard, SlotInv, SlotTypeOK
<1>2. \A ticket \in tickets' : ticket.id = Cqe.id => Cqe.more
  BY Zenon DEF Discard, Named
<1>3. \A slot \in Slots :
        IF slot \in DOMAIN Cqe.files
        THEN picture'[slot] = Cqe.files[slot] \/ slot \in unnamed'
        ELSE picture'[slot] = picture[slot] /\ (slot \in unnamed => slot \in unnamed')
  BY Zenon DEF Discard
<1>4. /\ cq # << >> /\ cq' = Tail(cq) /\ tickets' \subseteq tickets
      /\ UNCHANGED <<setup, table, requests, next>>
  BY Zenon DEF Discard
<1> QED
  BY <1>1, <1>2, <1>3, <1>4, ReapStep, Zenon

\* Holding fewer tickets, or doing nothing, keeps the invariant.
LEMMA QuietStep ==
  ASSUME SlotInv, tickets' \subseteq tickets,
         UNCHANGED <<setup, table, requests, cq, picture, unnamed, next>>
  PROVE  SlotInv'
<1>0. UNCHANGED <<split, registered, alloc>>
  BY DEF setup
<1>1. SlotTypeOK'
  BY <1>0, Zenon DEF SlotInv, SlotTypeOK
<1>2. (~split => cq = << >> /\ requests = {} /\ tickets = {})'
  BY <1>0 DEF SlotInv
<1>3. Numbered'
  BY Zenon DEF SlotInv, Numbered
<1>4. TicketsTell'
  BY Zenon DEF SlotInv, TicketsTell
<1>5. LastTells'
  BY Zenon DEF SlotInv, LastTells
<1>6. PictureExact'
  BY Zenon DEF SlotInv, PictureExact, Untold
<1>7. ArmedIsArmed'
  BY Zenon DEF SlotInv, ArmedIsArmed
<1> QED
  BY <1>1, <1>2, <1>3, <1>4, <1>5, <1>6, <1>7, Zenon DEF SlotInv

-----------------------------------------------------------------------------

\* The inductive invariant, for every table, every set of descriptors and any
\* number of requests.  Descriptors are those a process can have: non-negative
\* 32-bit integers, which `RawFd::as_i32` sends as they are.
THEOREM SlotInvariant ==
  ASSUME \A fd \in RawFds : fd < Word \div 2
  PROVE  Spec => []SlotInv
<1>1. Init => SlotInv
  BY SlotInit
<1>2. SlotInv /\ [Next]_vars => SlotInv'
  <2> SUFFICES ASSUME SlotInv, [Next]_vars PROVE SlotInv'
    OBVIOUS
  <2>1. CASE Setup
    BY <2>1, SetupStep
  <2>2. CASE \E target \in Targets, cloexec \in BOOLEAN : PushDirect(target, cloexec)
    BY <2>2, PushesStep, Zenon
  <2>3. CASE PushAccept
    BY <2>3, PushesStep, Zenon
  <2>4. CASE \E offset \in Slots, entries \in Arrays(TableEntries, 2) :
               PushUpdate(offset, entries)
    BY <2>4, PushesStep, Zenon
  <2>5. ASSUME NEW request \in requests, Work(request) PROVE SlotInv'
    <3>1. SlotTypeOK
      BY Zenon DEF SlotInv
    <3> QED
      BY <2>5, <3>1, WorkTells, PostStep, Zenon
  <2>6. CASE Redeem
    BY <2>6, RedeemStep
  <2>7. CASE Discard
    BY <2>7, DiscardStep
  <2>8. ASSUME NEW ticket \in tickets, DropTicket(ticket) PROVE SlotInv'
    BY <2>8, QuietStep, Zenon DEF DropTicket
  <2>9. CASE UNCHANGED vars
    BY <2>9, QuietStep, Zenon DEF vars
  <2> QED
    BY <2>1, <2>2, <2>3, <2>4, <2>5, <2>6, <2>7, <2>8, <2>9, Zenon DEF Next
<1> QED
  BY <1>1, <1>2, PTL DEF Spec

\* What `redeem`, `record` and `update` return is enough to know the table: a
\* slot differs from the application's picture only while a completion is
\* unreaped, its ticket was dropped, or a registration did not report it.
THEOREM PictureIsExact ==
  ASSUME \A fd \in RawFds : fd < Word \div 2
  PROVE  Spec => []PictureExact
<1>1. SlotInv => PictureExact
  BY DEF SlotInv
<1> QED
  BY <1>1, SlotInvariant, PTL

\* A ticket the application holds has its request in the kernel or its last
\* completion on the way: `DirectAccept::record` keeps no accept that ended.
THEOREM AcceptsStayArmed ==
  ASSUME \A fd \in RawFds : fd < Word \div 2
  PROVE  Spec => []ArmedIsArmed
<1>1. SlotInv => ArmedIsArmed
  BY DEF SlotInv
<1> QED
  BY <1>1, SlotInvariant, PTL

=============================================================================
