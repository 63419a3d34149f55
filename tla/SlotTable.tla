----------------------------- MODULE SlotTable -----------------------------
(***************************************************************************)
(* A ring's registered-file table, and the owned requests that fill it:    *)
(* direct opens and sockets (into a slot of the kernel's or of the         *)
(* caller's choice), the multishot direct accept, and files_update.  The   *)
(* application learns what is where only from what these requests return;  *)
(* `picture` is the table as it can tell from that.  The registrations     *)
(* that set the table up are calls on the whole ring, made before          *)
(* split_owned.                                                            *)
(*                                                                         *)
(* Word stands for 2^32: SQE fields are 32 bits wide, written signed by    *)
(* the crate and read unsigned by the kernel, and slot indices share the   *)
(* range with two sentinels.  Requests take effect in the table one at a   *)
(* time, in the order of their completions.                                *)
(***************************************************************************)
EXTENDS Integers, Sequences, FiniteSets

CONSTANTS
  Word,
  TableSize,    \* slots of the registered table
  OpenFds,      \* descriptors the process has open
  RawFds,       \* descriptors the application asks to install
  MaxRequests   \* bound on requests

ASSUME SlotAssumption ==
  /\ Word \in Nat /\ TableSize \in 1 .. Word - 3
  /\ OpenFds \subseteq Nat /\ RawFds \subseteq Nat /\ MaxRequests \in Nat

VARIABLES
  split,      \* split_owned was called
  registered, \* there is a table
  alloc,      \* the slots the kernel may choose from
  table,      \* the kernel's table
  requests,   \* requests the kernel is working on
  cq,         \* their completions
  tickets,    \* tickets the application holds
  picture,    \* the table as the application knows it
  unnamed,    \* slots changed by what the application was not told of
  next

setup == <<split, registered, alloc>>
vars == <<setup, table, requests, cq, tickets, picture, unnamed, next>>

Slots == 0 .. TableSize - 1
Empty == <<"empty", 0>>
NewFile(n) == <<"new", n>>
FileOf(fd) == <<"fd", fd>>

Unsigned(x) == x % Word
Signed(x) == IF x % Word >= Word \div 2 THEN (x % Word) - Word ELSE x % Word

\* An array of slots after a change: the change's value where it has one.
Written(change, array) ==
  [slot \in Slots |-> IF slot \in DOMAIN change THEN change[slot] ELSE array[slot]]

-----------------------------------------------------------------------------
\* SlotIndex and SlotTarget.

FILE_INDEX_ALLOC == Word - 1
AutoTarget == [kind |-> "auto", slot |-> 0]
ExactTarget(slot) == [kind |-> "exact", slot |-> slot]

\* The indices SlotIndex::new accepts.
SlotIndexes == 0 .. Word - 3

Targets == {AutoTarget} \cup {ExactTarget(slot) : slot \in SlotIndexes}

\* mutant of Raw: the slot is sent as it is named
RawNoOffset(target) == Signed(IF target.kind = "auto" THEN FILE_INDEX_ALLOC ELSE target.slot)

Raw(target) == Signed(IF target.kind = "auto" THEN FILE_INDEX_ALLOC ELSE target.slot + 1)

\* The slot a completion names, as a set of at most one.
Resolve(target, result) ==
  IF target.kind = "exact" THEN {target.slot}
  ELSE IF result < 0 THEN {} ELSE {result} \cap SlotIndexes

-----------------------------------------------------------------------------
\* files_update.

Clear == [kind |-> "clear", fd |-> 0]
Install(fd) == [kind |-> "install", fd |-> fd]
TableEntries == {Clear} \cup {Install(fd) : fd \in RawFds}

\* TableEntry::raw; RawFd::as_i32 keeps the low 32 bits.
EntryRaw(entry) == IF entry.kind = "clear" THEN -1 ELSE Signed(entry.fd)

\* What the application takes the entry to leave in the slot.
EntryFile(entry) == IF entry.kind = "clear" THEN Empty ELSE FileOf(entry.fd)

\* Update::from_raw and Update::installed
UpdateInstalled(result, requested) ==
  CASE result < 0          -> 0
    [] result >= requested -> requested
    [] OTHER               -> result

-----------------------------------------------------------------------------

Init ==
  /\ split = FALSE /\ registered = FALSE /\ alloc = Slots
  /\ table = [slot \in Slots |-> Empty]
  /\ requests = {} /\ cq = << >> /\ tickets = {}
  /\ picture = table /\ unnamed = {} /\ next = 1

-----------------------------------------------------------------------------
\* Registration, on the whole ring.  A call that fails changes nothing.

\* The entries of the arrays, i32 each.
I32Fds == {-1, -2} \cup {Signed(fd) : fd \in RawFds}

\* The kernel takes entries in order up to the first that is neither open, a
\* clear (-1) nor a skip (-2).
Taken(fds) == Cardinality({i \in DOMAIN fds : \A j \in 1 .. i : fds[j] \in {-1, -2} \cup OpenFds})

\* What the first n entries put into the slots from off on.
Put(off, fds, n) ==
  [slot \in {off + i - 1 : i \in {k \in 1 .. n : fds[k] # -2}} |->
     LET fd == fds[slot - off + 1] IN IF fd = -1 THEN Empty ELSE FileOf(fd)]

\* register_files and register_files_tagged: all entries or none.
RegisterFiles(fds) ==
  /\ ~split /\ ~registered
  /\ \A slot \in Slots : fds[slot] = -1 \/ fds[slot] \in OpenFds
  /\ registered' = TRUE
  /\ table' = [slot \in Slots |-> IF fds[slot] = -1 THEN Empty ELSE FileOf(fds[slot])]
  /\ picture' = table'
  /\ UNCHANGED <<split, alloc, requests, cq, tickets, unnamed, next>>

UnregisterFiles ==
  /\ ~split /\ registered
  /\ registered' = FALSE
  /\ alloc' = Slots
  /\ table' = [slot \in Slots |-> Empty]
  /\ picture' = table'
  /\ unnamed' = {}
  /\ UNCHANGED <<split, requests, cq, tickets, next>>

\* update_registered_files and update_registered_files_tagged drop the count
\* the kernel returns: Ok tells that the first entry was taken.
UpdateRegisteredFiles(offset, fds) ==
  /\ ~split /\ registered
  /\ fds # << >> /\ offset + Len(fds) <= TableSize
  /\ Taken(fds) > 0
  /\ table' = Written(Put(offset, fds, Taken(fds)), table)
  /\ picture' = Written(Put(offset, fds, 1), picture)
  /\ unnamed' = (unnamed \ DOMAIN Put(offset, fds, 1))
                  \cup (DOMAIN Put(offset, fds, Len(fds)) \ {offset})
  /\ UNCHANGED <<setup, requests, cq, tickets, next>>

RegisterFileAllocRange(off, len) ==
  /\ ~split /\ registered
  /\ off + len <= TableSize
  /\ alloc' = off .. off + len - 1
  /\ UNCHANGED <<split, registered, table, requests, cq, tickets, picture, unnamed, next>>

SplitOwned ==
  /\ ~split
  /\ split' = TRUE
  /\ UNCHANGED <<registered, alloc, table, requests, cq, tickets, picture, unnamed, next>>

-----------------------------------------------------------------------------
\* Pushes.

\* A push: the SQE's fields go to the kernel, the ticket to the application.
Push(sqe, ticket) ==
  /\ split
  /\ next <= MaxRequests
  /\ requests' = requests \cup {[sqe EXCEPT !.id = next]}
  /\ tickets' = tickets \cup {[ticket EXCEPT !.id = next]}
  /\ next' = next + 1
  /\ UNCHANGED <<setup, table, cq, picture, unnamed>>

\* PreparedDirectOpen and PreparedDirectSocket refuse CLOEXEC, then send the
\* encoded target.
PushDirect(target, cloexec) ==
  /\ ~cloexec
  /\ Push([id |-> 0, op |-> "direct", file_index |-> Raw(target), fds |-> << >>, off |-> 0],
          [id |-> 0, op |-> "direct", target |-> target, entries |-> << >>, offset |-> 0])

\* PreparedDirectAccept: the kernel chooses a slot for each connection.
PushAccept ==
  Push([id |-> 0, op |-> "accept", file_index |-> Raw(AutoTarget), fds |-> << >>, off |-> 0],
       [id |-> 0, op |-> "accept", target |-> AutoTarget, entries |-> << >>, offset |-> 0])

\* PreparedFilesUpdate::at refuses an empty update and publishes the array.
PushUpdate(offset, entries) ==
  /\ entries # << >>
  /\ Push([id |-> 0, op |-> "update", file_index |-> 0, off |-> offset,
           fds |-> [i \in DOMAIN entries |-> EntryRaw(entries[i])]],
          [id |-> 0, op |-> "update", target |-> AutoTarget, entries |-> entries, offset |-> offset])

-----------------------------------------------------------------------------
\* The kernel.

Free == {slot \in alloc : registered /\ table[slot] = Empty}

\* files: the slots the request changed, and what it put there.
Post(request, result, more, files) ==
  /\ cq' = Append(cq, [id |-> request.id, result |-> result, more |-> more, files |-> files])
  /\ table' = Written(files, table)
  /\ requests' = IF more THEN requests ELSE requests \ {request}
  /\ UNCHANGED <<setup, tickets, picture, unnamed, next>>

None == [slot \in {} |-> Empty]
Only(slot, file) == [s \in {slot} |-> file]

Fail(request) == Post(request, -1, FALSE, None)

\* A file is installed where sqe->file_index says: 0 is a plain descriptor.
InstallDirect(request) ==
  LET wire == Unsigned(request.file_index)
      file == NewFile(request.id)
  IN  /\ request.op = "direct"
      /\ CASE wire = 0 -> Post(request, 0, FALSE, None)
           [] wire = FILE_INDEX_ALLOC ->
                IF Free = {} THEN Fail(request)
                ELSE \E slot \in Free : Post(request, slot, FALSE, Only(slot, file))
           [] OTHER ->
                IF registered /\ wire - 1 \in Slots
                THEN Post(request, 0, FALSE, Only(wire - 1, file))
                ELSE Fail(request)

\* A connection arrives: a full table ends the request; so does a completion
\* queue that cannot take the extra completion.
Accept(request) ==
  /\ request.op = "accept"
  /\ IF Free = {} THEN Fail(request)
     ELSE \E slot \in Free, more \in BOOLEAN :
            Post(request, slot, more, Only(slot, NewFile(request.id)))

Update(request) ==
  LET fds == request.fds
  IN  /\ request.op = "update"
      /\ IF ~registered \/ request.off + Len(fds) > TableSize \/ Taken(fds) = 0 THEN Fail(request)
         ELSE Post(request, Taken(fds), FALSE, Put(request.off, fds, Taken(fds)))

Work(request) == InstallDirect(request) \/ Accept(request) \/ Update(request)

-----------------------------------------------------------------------------
\* The application reaps a completion and applies it to its ticket.

Cqe == Head(cq)
Named == {ticket \in tickets : ticket.id = Cqe.id}

\* PendingDirectOpen::redeem, PendingDirectSocket::redeem
SlotOfDirect(ticket, cqe) == IF cqe.result < 0 THEN {} ELSE Resolve(ticket.target, cqe.result)

Opened(ticket, cqe) == [slot \in SlotOfDirect(ticket, cqe) \cap Slots |-> NewFile(ticket.id)]

RedeemDirect(ticket) ==
  /\ ticket.op = "direct"
  /\ picture' = Written(Opened(ticket, Cqe), picture)
  /\ tickets' = tickets \ {ticket}

Accepted(ticket, cqe) ==
  [slot \in Resolve(AutoTarget, cqe.result) \cap Slots |-> NewFile(ticket.id)]

\* mutant of RecordAccept: an error leaves the accept armed
RecordAcceptArmedOnError(ticket) ==
  /\ ticket.op = "accept"
  /\ picture' = Written(Accepted(ticket, Cqe), picture)
  /\ tickets' = IF Cqe.more \/ Cqe.result < 0 THEN tickets ELSE tickets \ {ticket}

\* DirectAccept::record: a partial completion leaves it armed, a terminal one
\* ends it; either may carry a slot.
RecordAccept(ticket) ==
  /\ ticket.op = "accept"
  /\ picture' = Written(Accepted(ticket, Cqe), picture)
  /\ tickets' = IF Cqe.more THEN tickets ELSE tickets \ {ticket}

\* FilesUpdated::update
Updated(ticket, cqe) ==
  LET installed == UpdateInstalled(cqe.result, Len(ticket.entries))
  IN  [slot \in (ticket.offset .. ticket.offset + installed - 1) \cap Slots |->
         EntryFile(ticket.entries[slot - ticket.offset + 1])]

RedeemUpdate(ticket) ==
  /\ ticket.op = "update"
  /\ picture' = Written(Updated(ticket, Cqe), picture)
  /\ tickets' = tickets \ {ticket}

Redeem ==
  /\ cq # << >>
  /\ \E ticket \in Named : RedeemDirect(ticket) \/ RecordAccept(ticket) \/ RedeemUpdate(ticket)
  /\ cq' = Tail(cq)
  /\ unnamed' = unnamed \ DOMAIN Cqe.files
  /\ UNCHANGED <<setup, table, requests, next>>

\* The completion of a dropped ticket: nobody learns of its slots.
Discard ==
  /\ cq # << >>
  /\ Named = {}
  /\ cq' = Tail(cq)
  /\ unnamed' = unnamed \cup DOMAIN Cqe.files
  /\ UNCHANGED <<setup, table, requests, tickets, picture, next>>

DropTicket(ticket) ==
  /\ ticket \in tickets
  /\ tickets' = tickets \ {ticket}
  /\ UNCHANGED <<setup, table, requests, cq, picture, unnamed, next>>

-----------------------------------------------------------------------------

\* The arrays of at most n elements that a caller may pass.
Arrays(S, n) == UNION {[1 .. m -> S] : m \in 0 .. n}

Setup ==
  \/ \E fds \in [Slots -> I32Fds] : RegisterFiles(fds)
  \/ UnregisterFiles
  \/ \E offset \in Slots, fds \in Arrays(I32Fds, TableSize) : UpdateRegisteredFiles(offset, fds)
  \/ \E off \in Slots, len \in 0 .. TableSize : RegisterFileAllocRange(off, len)
  \/ SplitOwned

Next ==
  \/ Setup
  \/ \E target \in Targets, cloexec \in BOOLEAN : PushDirect(target, cloexec)
  \/ PushAccept
  \/ \E offset \in Slots, entries \in Arrays(TableEntries, 2) : PushUpdate(offset, entries)
  \/ \E request \in requests : Work(request)
  \/ Redeem
  \/ Discard
  \/ \E ticket \in tickets : DropTicket(ticket)

Spec == Init /\ [][Next]_vars

-----------------------------------------------------------------------------

\* Slots whose change the application has not been told of yet.
Untold == UNION {DOMAIN cq[i].files : i \in DOMAIN cq}

\* The application's picture is the table, but for completions it has not
\* reaped, requests whose tickets it dropped, and what a registration does not
\* report: no install, replacement, clear, partly applied update, or slot
\* folded into a terminal completion is missed, and none is imagined.
PictureExact ==
  \A slot \in Slots : picture[slot] = table[slot] \/ slot \in Untold \cup unnamed

\* An accept the application takes for armed is armed, or its last completion
\* is on its way: a full table never leaves it waiting on a retired listener.
ArmedIsArmed ==
  \A ticket \in tickets :
    \/ \E request \in requests : request.id = ticket.id
    \/ \E i \in DOMAIN cq : cq[i].id = ticket.id /\ ~cq[i].more

-----------------------------------------------------------------------------
\* Why both hold.

Op == {"direct", "accept", "update"}
File ==
  {Empty} \cup {NewFile(n) : n \in 1 .. MaxRequests} \cup {FileOf(fd) : fd \in I32Fds}
Change == UNION {[slots -> File] : slots \in SUBSET Slots}

RequestType ==
  [id : 1 .. MaxRequests, op : Op, file_index : Int, fds : Seq(I32Fds), off : Nat]
TicketType ==
  [id : 1 .. MaxRequests, op : Op, target : Targets, entries : Seq(TableEntries), offset : Nat]
CompletionType == [id : 1 .. MaxRequests, result : Int, more : BOOLEAN, files : Change]

\* Type correctness.
SlotTypeOK ==
  /\ split \in BOOLEAN /\ registered \in BOOLEAN /\ alloc \subseteq Slots
  /\ table \in [Slots -> File] /\ picture \in [Slots -> File]
  /\ requests \subseteq RequestType /\ tickets \subseteq TicketType /\ cq \in Seq(CompletionType)
  /\ next \in 1 .. MaxRequests + 1

\* Requests and tickets are numbered in the order they are pushed.
Numbered ==
  /\ \A request \in requests : request.id < next
  /\ \A i \in DOMAIN cq : cq[i].id < next
  /\ \A ticket \in tickets : ticket.id < next
  /\ \A ticket, other \in tickets : ticket.id = other.id => ticket = other

\* A ticket describes what its request asks of the kernel.
Describes(ticket, request) ==
  /\ ticket.op = request.op
  /\ request.op = "direct" => request.file_index = Raw(ticket.target)
  /\ request.op = "update" =>
       /\ request.off = ticket.offset
       /\ request.fds = [i \in DOMAIN ticket.entries |-> EntryRaw(ticket.entries[i])]

\* What a ticket makes of a completion.
Learned(ticket, cqe) ==
  CASE ticket.op = "direct" -> Opened(ticket, cqe)
    [] ticket.op = "accept" -> Accepted(ticket, cqe)
    [] ticket.op = "update" -> Updated(ticket, cqe)

TicketsTell ==
  \A ticket \in tickets :
    /\ \A request \in requests : request.id = ticket.id => Describes(ticket, request)
    /\ \A i \in DOMAIN cq : cq[i].id = ticket.id => Learned(ticket, cq[i]) = cq[i].files

\* The last completion that changed a slot says what is in it.
LastTells ==
  \A i \in DOMAIN cq, slot \in Slots :
    slot \in DOMAIN cq[i].files /\ (\A j \in DOMAIN cq : j > i => slot \notin DOMAIN cq[j].files)
      => cq[i].files[slot] = table[slot]

\* What every call, completion and reaping preserves.
SlotInv ==
  /\ SlotTypeOK
  /\ ~split => cq = << >> /\ requests = {} /\ tickets = {}
  /\ Numbered
  /\ TicketsTell
  /\ LastTells
  /\ PictureExact
  /\ ArmedIsArmed

=============================================================================
