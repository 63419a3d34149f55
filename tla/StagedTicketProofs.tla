------------------------- MODULE StagedTicketProofs -------------------------
(***************************************************************************)
(* Staged requests over any storages, any structure sizes and any number   *)
(* of requests: what the kinds have in common, one case per kind (their    *)
(* entries stay in their storage, their parts do not overlap, their        *)
(* answers were written, and their outcomes are right), and from it what   *)
(* the operations on a ticket and the kernel's completions preserve of the *)
(* invariant, the ends at which storage changes hands included.            *)
(* StagedRequestsProofs has the other operations and the theorems.         *)
(***************************************************************************)
EXTENDS StagedRequests, TLAPS

\* The structures have sizes, and so have the storages.
LEMMA Sizes ==
  /\ MsgHdrLen \in Nat /\ MsgHdrLen > 0 /\ IoVecLen \in Nat /\ IoVecLen > 0
  /\ SockAddrLen \in Nat /\ SockAddrLen > 1 /\ StatxLen \in Nat /\ StatxLen > 0
  /\ OpenHowLen \in Nat /\ OpenHowLen > 0 /\ SiginfoLen \in Nat /\ SiginfoLen > 0
  /\ FutexWaitvLen \in Nat /\ FutexWaitvLen > 0 /\ EpollEventLen \in Nat /\ EpollEventLen > 0
  /\ TimespecLen \in Nat /\ TimespecLen > 0
  /\ \A s \in Storage : Size[s] \in Nat
  /\ NamelenField \in 0 .. MsgHdrLen - 1 /\ FlagsField \in 0 .. MsgHdrLen - 1
  /\ SiginfoFields \subseteq 0 .. SiginfoLen - 1
  /\ NoStorage \notin Storage
BY StagingAssumption

\* A span within the storage's length is inside it.
LEMMA SpanInside ==
  ASSUME NEW s \in Storage, NEW from \in Nat, NEW len \in Nat, from + len <= Size[s]
  PROVE  Span(s, from, len) \subseteq Cells(s)
<1>1. from .. from + len - 1 \subseteq 0 .. 0 + Size[s] - 1
  BY Sizes
<1> QED
  BY <1>1 DEF Span, Cells

\* A check that passes leaves room.
LEMMA FitMeans ==
  ASSUME NEW s \in Storage, NEW needed \in Nat, NEW align, FitError(s, needed, align) = "ok"
  PROVE  needed <= Size[s] /\ Span(s, 0, needed) \subseteq Cells(s)
<1>1. needed <= Size[s]
  BY Sizes DEF FitError
<1> QED
  BY <1>1, SpanInside

\* A request's storages.
LEMMA Storages ==
  ASSUME NEW a, WellFormed(a)
  PROVE  /\ Owned(a) \subseteq Storage /\ Scratch(a) \subseteq Owned(a)
         /\ Owned(a) = {a.paths[i] : i \in DOMAIN a.paths} \union Scratch(a)
         /\ \A i \in DOMAIN a.paths : a.paths[i] \in Owned(a) /\ a.paths[i] \notin Scratch(a)
         /\ \A i \in DOMAIN a.bufs : a.bufs[i] \in Scratch(a)
         /\ a.store \in Storage => a.store \in Scratch(a)
<1>1. a.paths \in Seq(Storage) /\ a.bufs \in Seq(Storage) /\ a.store \in Storage \union {NoStorage}
  BY DEF WellFormed
<1>2. /\ \A i \in DOMAIN a.paths : a.paths[i] \in Storage
      /\ \A i \in DOMAIN a.bufs : a.bufs[i] \in Storage
  BY <1>1
<1>3. /\ \A i \in DOMAIN a.paths, j \in DOMAIN a.bufs : a.paths[i] # a.bufs[j]
      /\ \A i \in DOMAIN a.paths : a.paths[i] # a.store
  BY DEF WellFormed
<1>4. NoStorage \notin Storage
  BY StagingAssumption
<1> QED
  BY <1>1, <1>2, <1>3, <1>4, Zenon DEF Owned, Scratch

\* The entry of each kind, and the check of each kind that has one.
LEMMA Entries ==
  ASSUME NEW a
  PROVE  /\ a.kind = "open" => Sqe(a) = OpenSqe(a)
         /\ a.kind = "openat2" => Sqe(a) = Openat2Sqe(a) /\ NewError(a) = Openat2At(a)
         /\ a.kind = "path_op" => Sqe(a) = PathOpSqe(a)
         /\ a.kind = "rename" => Sqe(a) = RenameSqe(a)
         /\ a.kind = "link" => Sqe(a) = LinkSqe(a)
         /\ a.kind = "statx" => Sqe(a) = StatxSqe(a) /\ NewError(a) = StatxAt(a)
         /\ a.kind = "pipe" => Sqe(a) = PipeSqe(a) /\ NewError(a) = PipeNew(a)
         /\ a.kind = "files_update" => Sqe(a) = FilesUpdateSqe(a) /\ NewError(a) = FilesUpdateAt(a)
         /\ a.kind = "accept" => Sqe(a) = AcceptSqe(a)
         /\ a.kind = "fixed_fd_install" => Sqe(a) = FixedFdInstallSqe(a)
         /\ a.kind = "request" => Sqe(a) = ReadWriteSqe(a)
         /\ a.kind = "send_zc" => Sqe(a) = SendZcSqe(a)
         /\ a.kind = "vectored" => Sqe(a) = VectoredSqe(a) /\ NewError(a) = VectoredBuild(a)
         /\ a.kind = "sendmsg" => Sqe(a) = SendmsgSqe(a) /\ NewError(a) = SendmsgBuild(a)
         /\ a.kind = "sendmsg_zc" => Sqe(a) = SendmsgZcSqe(a) /\ NewError(a) = SendmsgZcBuild(a)
         /\ a.kind = "recvmsg" => Sqe(a) = RecvmsgSqe(a) /\ NewError(a) = RecvmsgBuild(a)
         /\ a.kind = "bind" => Sqe(a) = BindSqe(a) /\ NewError(a) = AddrNew(a)
         /\ a.kind = "connect" => Sqe(a) = ConnectSqe(a) /\ NewError(a) = AddrNew(a)
         /\ a.kind = "timeout" => Sqe(a) = TimeoutSqe(a) /\ NewError(a) = TimeoutNew(a)
         /\ a.kind = "epoll_ctl" => Sqe(a) = EpollCtlSqe(a) /\ NewError(a) = EpollCtlNew(a)
         /\ a.kind = "epoll_wait" => Sqe(a) = EpollWaitSqe(a) /\ NewError(a) = EpollWaitNew(a)
         /\ a.kind = "waitid" => Sqe(a) = WaitIdSqe(a) /\ NewError(a) = WaitIdNew(a)
         /\ a.kind = "futex_waitv" => Sqe(a) = FutexWaitvSqe(a) /\ NewError(a) = FutexWaitvNew(a)
         /\ a.kind = "futex_wait" => Sqe(a) = FutexWaitSqe(a)
         /\ a.kind = "futex_wake" => Sqe(a) = FutexWakeSqe(a)
         /\ a.kind = "cancel" => Sqe(a) = CancelSqe(a)
         /\ a.kind = "msg_ring" => Sqe(a) = MsgRingSqe(a)
<1>1. a.kind = "open" => Sqe(a) = OpenSqe(a)
  BY DEF Sqe
<1>2. a.kind = "openat2" => Sqe(a) = Openat2Sqe(a) /\ NewError(a) = Openat2At(a)
  BY DEF Sqe, NewError
<1>3. a.kind = "path_op" => Sqe(a) = PathOpSqe(a)
  BY DEF Sqe
<1>4. a.kind = "rename" => Sqe(a) = RenameSqe(a)
  BY DEF Sqe
<1>5. a.kind = "link" => Sqe(a) = LinkSqe(a)
  BY DEF Sqe
<1>6. a.kind = "statx" => Sqe(a) = StatxSqe(a) /\ NewError(a) = StatxAt(a)
  BY DEF Sqe, NewError
<1>7. a.kind = "pipe" => Sqe(a) = PipeSqe(a) /\ NewError(a) = PipeNew(a)
  BY DEF Sqe, NewError
<1>8. a.kind = "files_update" => Sqe(a) = FilesUpdateSqe(a) /\ NewError(a) = FilesUpdateAt(a)
  BY DEF Sqe, NewError
<1>9. a.kind = "accept" => Sqe(a) = AcceptSqe(a)
  BY DEF Sqe
<1>10. a.kind = "fixed_fd_install" => Sqe(a) = FixedFdInstallSqe(a)
  BY DEF Sqe
<1>11. a.kind = "request" => Sqe(a) = ReadWriteSqe(a)
  BY DEF Sqe
<1>12. a.kind = "send_zc" => Sqe(a) = SendZcSqe(a)
  BY DEF Sqe
<1>13. a.kind = "vectored" => Sqe(a) = VectoredSqe(a) /\ NewError(a) = VectoredBuild(a)
  BY DEF Sqe, NewError
<1>14. a.kind = "sendmsg" => Sqe(a) = SendmsgSqe(a) /\ NewError(a) = SendmsgBuild(a)
  BY DEF Sqe, NewError
<1>15. a.kind = "sendmsg_zc" => Sqe(a) = SendmsgZcSqe(a) /\ NewError(a) = SendmsgZcBuild(a)
  BY DEF Sqe, NewError
<1>16. a.kind = "recvmsg" => Sqe(a) = RecvmsgSqe(a) /\ NewError(a) = RecvmsgBuild(a)
  BY DEF Sqe, NewError
<1>17. a.kind = "bind" => Sqe(a) = BindSqe(a) /\ NewError(a) = AddrNew(a)
  BY DEF Sqe, NewError
<1>18. a.kind = "connect" => Sqe(a) = ConnectSqe(a) /\ NewError(a) = AddrNew(a)
  BY DEF Sqe, NewError
<1>19. a.kind = "timeout" => Sqe(a) = TimeoutSqe(a) /\ NewError(a) = TimeoutNew(a)
  BY DEF Sqe, NewError
<1>20. a.kind = "epoll_ctl" => Sqe(a) = EpollCtlSqe(a) /\ NewError(a) = EpollCtlNew(a)
  BY DEF Sqe, NewError
<1>21. a.kind = "epoll_wait" => Sqe(a) = EpollWaitSqe(a) /\ NewError(a) = EpollWaitNew(a)
  BY DEF Sqe, NewError
<1>22. a.kind = "waitid" => Sqe(a) = WaitIdSqe(a) /\ NewError(a) = WaitIdNew(a)
  BY DEF Sqe, NewError
<1>23. a.kind = "futex_waitv" => Sqe(a) = FutexWaitvSqe(a) /\ NewError(a) = FutexWaitvNew(a)
  BY DEF Sqe, NewError
<1>24. a.kind = "futex_wait" => Sqe(a) = FutexWaitSqe(a)
  BY DEF Sqe
<1>25. a.kind = "futex_wake" => Sqe(a) = FutexWakeSqe(a)
  BY DEF Sqe
<1>26. a.kind = "cancel" => Sqe(a) = CancelSqe(a)
  BY DEF Sqe
<1>27. a.kind = "msg_ring" => Sqe(a) = MsgRingSqe(a)
  BY DEF Sqe
<1> QED
  BY <1>1, <1>2, <1>3, <1>4, <1>5, <1>6, <1>7, <1>8, <1>9, <1>10, <1>11, <1>12, <1>13, <1>14,
     <1>15, <1>16, <1>17, <1>18, <1>19, <1>20, <1>21, <1>22, <1>23, <1>24, <1>25, <1>26, <1>27, Zenon

-----------------------------------------------------------------------------
\* The entries.

Inside(a) == UNION {Cells(s) : s \in Scratch(a)}

\* An entry that keeps to its request's storage and has its parts apart.
Fitting(a, q) ==
  /\ q.names = a.paths
  /\ q.reads \subseteq Inside(a) /\ q.writes \subseteq Inside(a)
  /\ DOMAIN q.parts \subseteq Nat /\ \A i \in DOMAIN q.parts : q.parts[i].cells \subseteq Inside(a)
  /\ \A i, j \in DOMAIN q.parts : i # j => q.parts[i].cells \intersect q.parts[j].cells = {}

\* An entry without parts.
LEMMA NoParts ==
  ASSUME NEW a, NEW q, q.names = a.paths, q.parts = <<>>,
         q.reads \subseteq Inside(a), q.writes \subseteq Inside(a)
  PROVE  Fitting(a, q)
BY DEF Fitting

\* An entry with one part.
LEMMA OnePart ==
  ASSUME NEW a, NEW q, q.names = a.paths, NEW tag, NEW cells, q.parts = <<Part(tag, cells)>>,
         cells \subseteq Inside(a), q.reads \subseteq Inside(a), q.writes \subseteq Inside(a)
  PROVE  Fitting(a, q)
BY DEF Fitting, Part

\* Two short sequences put together.
LEMMA Pair ==
  ASSUME NEW x, NEW y
  PROVE  <<x>> \o <<y>> = <<x, y>> /\ <<x>> \o <<>> = <<x>>
<1> DEFINE S == {x, y}
<1>1. <<x>> \in Seq(S) /\ <<y>> \in Seq(S) /\ <<>> \in Seq(S)
  OBVIOUS
<1>2. PICK s : s = <<x>> \o <<y>>
  BY Zenon
<1>3. s \in Seq(S) /\ Len(s) = 2 /\ s[1] = x /\ s[2] = y
  BY <1>1, <1>2
<1>4. s = <<x, y>>
  BY <1>3
<1>5. PICK t : t = <<x>> \o <<>>
  BY Zenon
<1>6. t \in Seq(S) /\ Len(t) = 1 /\ t[1] = x
  BY <1>1, <1>5
<1>7. t = <<x>>
  BY <1>6
<1> QED
  BY <1>2, <1>4, <1>5, <1>7, Zenon

\* Three short sequences put together.
LEMMA Together ==
  ASSUME NEW x, NEW y, NEW z
  PROVE  /\ <<x>> \o <<y>> \o <<z>> = <<x, y, z>>
         /\ <<x>> \o <<>> \o <<z>> = <<x, z>>
<1> DEFINE S == {x, y, z}
<1>1. <<x, y>> \in Seq(S) /\ <<z>> \in Seq(S)
  OBVIOUS
<1>2. PICK s : s = <<x, y>> \o <<z>>
  BY Zenon
<1>3. s \in Seq(S) /\ Len(s) = 3 /\ s[1] = x /\ s[2] = y /\ s[3] = z
  BY <1>1, <1>2
<1>4. s = <<x, y, z>>
  BY <1>3
<1> QED
  BY <1>2, <1>4, Pair, Zenon

\* An entry with the parts of a message: the address is there if it is asked for.
LEMMA MessageParts ==
  ASSUME NEW a, NEW q, q.names = a.paths, NEW tag, NEW named \in BOOLEAN,
         NEW vecs, NEW name, NEW hdr,
         q.parts = <<Part("iovec", vecs)>> \o (IF named THEN <<Part(tag, name)>> ELSE <<>>)
                     \o <<Part("header", hdr)>>,
         vecs \subseteq Inside(a), name \subseteq Inside(a), hdr \subseteq Inside(a),
         vecs \intersect name = {}, vecs \intersect hdr = {}, name \intersect hdr = {},
         q.reads \subseteq Inside(a), q.writes \subseteq Inside(a)
  PROVE  Fitting(a, q)
<1>1. CASE named
  <2>1. q.parts = <<Part("iovec", vecs), Part(tag, name), Part("header", hdr)>>
    BY <1>1, Together, Zenon
  <2>2. /\ DOMAIN q.parts = {1, 2, 3} /\ q.parts[1].cells = vecs
        /\ q.parts[2].cells = name /\ q.parts[3].cells = hdr
    BY <2>1 DEF Part
  <2> QED
    BY <2>2 DEF Fitting
<1>2. CASE ~named
  <2>1. q.parts = <<Part("iovec", vecs), Part("header", hdr)>>
    BY <1>2, Together, Zenon
  <2>2. DOMAIN q.parts = {1, 2} /\ q.parts[1].cells = vecs /\ q.parts[2].cells = hdr
    BY <2>1 DEF Part
  <2> QED
    BY <2>2 DEF Fitting
<1> QED
  BY <1>1, <1>2

\* Spans of a storage one after the other do not meet.
LEMMA SpansApart ==
  ASSUME NEW s, NEW from \in Nat, NEW len \in Nat, NEW next \in Nat, NEW more \in Nat,
         from + len <= next
  PROVE  Span(s, from, len) \intersect Span(s, next, more) = {}
BY DEF Span

\* The buffers of a request, up to their clamped lengths, are inside.
LEMMA BuffersInside ==
  ASSUME NEW a, WellFormed(a), a.kind \in Buffers
  PROVE  BufferCells(a) \subseteq Inside(a)
<1>1. /\ a.bufs \in Seq(Storage) /\ a.lens \in Seq(Nat) /\ Len(a.bufs) = Len(a.lens)
  BY DEF WellFormed
<1>2. ASSUME NEW i \in DOMAIN a.bufs PROVE Span(a.bufs[i], 0, Clamp(a)[i]) \subseteq Inside(a)
  <2>1. a.bufs[i] \in Storage /\ a.lens[i] \in Nat
    BY <1>1
  <2>2. Size[a.bufs[i]] \in Nat
    BY <2>1, Sizes
  <2>3. Clamp(a)[i] \in Nat /\ 0 + Clamp(a)[i] <= Size[a.bufs[i]]
    BY <2>1, <2>2 DEF Clamp
  <2>4. Span(a.bufs[i], 0, Clamp(a)[i]) \subseteq Cells(a.bufs[i])
    BY <2>1, <2>3, SpanInside
  <2> QED
    BY <2>4, Storages, Zenon DEF Inside
<1> QED
  BY <1>2, Zenon DEF BufferCells

\* A check that passes leaves room inside.
LEMMA StoreInside ==
  ASSUME NEW a, WellFormed(a), a.store \in Storage, NEW from \in Nat, NEW len \in Nat,
         from + len <= Size[a.store]
  PROVE  Span(a.store, from, len) \subseteq Inside(a)
BY SpanInside, Storages, Zenon DEF Inside

\* What a request of each kind carries.
LEMMA Carried ==
  ASSUME NEW a, WellFormed(a)
  PROVE  /\ a.kind \notin OnePath \union TwoPaths => a.paths = <<>>
         /\ a.kind \in TwoPaths => a.paths = <<a.paths[1], a.paths[2]>>
         /\ a.kind \in Stored => a.store \in Storage
         /\ a.kind = "waitid" => a.store \in Storage \union {NoStorage}
         /\ Len(a.bufs) \in Nat /\ Len(a.lens) \in Nat
<1>1. /\ a.paths \in Seq(Storage) /\ a.bufs \in Seq(Storage) /\ a.lens \in Seq(Nat)
      /\ Len(a.paths) = IF a.kind \in OnePath THEN 1 ELSE IF a.kind \in TwoPaths THEN 2 ELSE 0
      /\ a.store \in IF a.kind \in Stored THEN Storage
                 ELSE IF a.kind = "waitid" THEN Storage \union {NoStorage} ELSE {NoStorage}
  BY Zenon DEF WellFormed
<1>2. a.kind \notin OnePath \union TwoPaths => a.paths = <<>>
  BY <1>1
<1>3. a.kind \in TwoPaths => a.kind \notin OnePath
  BY DEF TwoPaths, OnePath
<1>4. a.kind \in TwoPaths => a.paths = <<a.paths[1], a.paths[2]>>
  BY <1>1, <1>3
<1>5. "waitid" \notin Stored
  BY DEF Stored
<1>6. Len(a.bufs) \in Nat /\ Len(a.lens) \in Nat
  BY <1>1
<1> QED
  BY <1>1, <1>2, <1>4, <1>5, <1>6, Zenon

\* As many events as fit take no more room than there is.
LEMMA EventsFit ==
  ASSUME NEW a, a.store \in Storage
  PROVE  /\ MaxEvents(a) \in Nat /\ MaxEvents(a) * EpollEventLen \in Nat
         /\ MaxEvents(a) * EpollEventLen <= Size[a.store]
<1>1. \A size \in Nat, len \in Nat \ {0} : size \div len \in Nat /\ (size \div len) * len <= size
  OBVIOUS
<1>2. Size[a.store] \in Nat /\ EpollEventLen \in Nat \ {0}
  BY Sizes
<1>3. MaxEvents(a) \in Nat /\ MaxEvents(a) * EpollEventLen <= Size[a.store]
  BY <1>1, <1>2, Zenon DEF MaxEvents
<1> QED
  BY <1>2, <1>3

\* The header, the descriptors and the address of an accepted message are inside,
\* and apart.
LEMMA RegionApart ==
  ASSUME NEW a, WellFormed(a), a.store \in Storage, Stage(a.store, Len(a.bufs)) = "ok"
  PROVE  /\ Hdr(a) \subseteq Inside(a) /\ Vecs(a) \subseteq Inside(a) /\ Name(a) \subseteq Inside(a)
         /\ Vecs(a) \intersect Name(a) = {} /\ Vecs(a) \intersect Hdr(a) = {}
         /\ Name(a) \intersect Hdr(a) = {}
         /\ <<a.store, NamelenField>> \in Hdr(a) /\ <<a.store, FlagsField>> \in Hdr(a)
<1>1. PICK count \in Nat : count = Len(a.bufs)
  BY Carried
<1>2. PICK vecs \in Nat : vecs = IoVecLen * count
  BY Sizes
<1>3. /\ MsgHdrLen + vecs + SockAddrLen <= Size[a.store] /\ Size[a.store] \in Nat
      /\ MsgHdrLen \in Nat /\ SockAddrLen \in Nat
  BY <1>1, <1>2, Sizes DEF Stage, FitError, BytesFor, NameOffset
<1>4. /\ Hdr(a) = Span(a.store, 0, MsgHdrLen) /\ Vecs(a) = Span(a.store, MsgHdrLen, vecs)
      /\ Name(a) = Span(a.store, MsgHdrLen + vecs, SockAddrLen)
  BY <1>1, <1>2 DEF Hdr, Vecs, Name, NameOffset
<1>5. /\ Hdr(a) \subseteq Inside(a) /\ Vecs(a) \subseteq Inside(a) /\ Name(a) \subseteq Inside(a)
  BY <1>3, <1>4, StoreInside
<1>6. /\ Vecs(a) \intersect Name(a) = {} /\ Vecs(a) \intersect Hdr(a) = {}
      /\ Name(a) \intersect Hdr(a) = {}
  BY <1>3, <1>4, SpansApart
<1>7. <<a.store, NamelenField>> \in Hdr(a) /\ <<a.store, FlagsField>> \in Hdr(a)
  BY Sizes DEF Hdr, Span
<1> QED
  BY <1>5, <1>6, <1>7

\* The entry of an accepted request keeps to its storage.
LEMMA EntryFits ==
  ASSUME NEW a, WellFormed(a), NewError(a) = "ok"
  PROVE  Fitting(a, Sqe(a))
<1> DEFINE room(len) == Span(a.store, 0, len)
<1>0. ASSUME NEW len \in Nat, NEW align, a.kind \in Stored, FitError(a.store, len, align) = "ok"
      PROVE  room(len) \subseteq Inside(a)
  <2>1. a.store \in Storage
    BY <1>0, Carried, Zenon
  <2>2. room(len) \subseteq Cells(a.store)
    BY <1>0, <2>1, FitMeans
  <2> QED
    BY <2>1, <2>2, Storages, Zenon DEF Inside
<1>e. a.kind \in {"pipe", "files_update", "timeout", "epoll_ctl", "futex_waitv", "bind", "connect",
                 "epoll_wait", "waitid"} => a.paths = <<>>
  BY Carried DEF OnePath, TwoPaths
<1>f. a.kind \in Buffers \union Bare => a.paths = <<>>
  BY Carried DEF OnePath, TwoPaths, Buffers, Bare
<1>c. a.kind \in TwoPaths => a.paths = <<a.paths[1], a.paths[2]>>
  BY Carried, Zenon
<1>1. CASE a.kind = "open"
  <2>1. /\ OpenSqe(a).names = a.paths /\ OpenSqe(a).parts = <<>>
        /\ OpenSqe(a).reads = {} /\ OpenSqe(a).writes = {}
    BY <1>1 DEF OpenSqe, Zeroed
  <2> QED
    BY <1>1, <2>1, Entries, NoParts, Zenon
<1>2. CASE a.kind = "path_op"
  <2>1. /\ PathOpSqe(a).names = a.paths /\ PathOpSqe(a).parts = <<>>
        /\ PathOpSqe(a).reads = {} /\ PathOpSqe(a).writes = {}
    BY <1>2 DEF PathOpSqe, Zeroed
  <2> QED
    BY <1>2, <2>1, Entries, NoParts, Zenon
<1>3. CASE a.kind = "rename"
  <2>1. /\ RenameSqe(a).names = a.paths /\ RenameSqe(a).parts = <<>>
        /\ RenameSqe(a).reads = {} /\ RenameSqe(a).writes = {}
    BY <1>3, <1>c DEF RenameSqe, Zeroed, TwoPaths
  <2> QED
    BY <1>3, <2>1, Entries, NoParts, Zenon
<1>4. CASE a.kind = "link"
  <2>1. /\ LinkSqe(a).names = a.paths /\ LinkSqe(a).parts = <<>>
        /\ LinkSqe(a).reads = {} /\ LinkSqe(a).writes = {}
    BY <1>4, <1>c DEF LinkSqe, Zeroed, TwoPaths
  <2> QED
    BY <1>4, <2>1, Entries, NoParts, Zenon
<1>5. CASE a.kind = "openat2"
  <2>1. room(OpenHowLen) \subseteq Inside(a)
    BY <1>5, <1>0, Entries, Sizes DEF Openat2At, Stored
  <2>2. /\ Openat2Sqe(a).names = a.paths /\ Openat2Sqe(a).writes = {}
        /\ Openat2Sqe(a).parts = <<Part("how", room(OpenHowLen))>>
        /\ Openat2Sqe(a).reads = room(OpenHowLen)
    BY DEF Openat2Sqe, Zeroed
  <2> QED
    BY <1>5, <2>1, <2>2, Entries, OnePart, Zenon
<1>6. CASE a.kind = "statx"
  <2>1. room(StatxLen) \subseteq Inside(a)
    BY <1>6, <1>0, Entries, Sizes DEF StatxAt, Stored
  <2>2. /\ StatxSqe(a).names = a.paths /\ StatxSqe(a).reads = {} /\ StatxSqe(a).parts = <<>>
        /\ StatxSqe(a).writes = room(StatxLen)
    BY DEF StatxSqe, Zeroed
  <2> QED
    BY <1>6, <1>e, <2>1, <2>2, Entries, NoParts, Zenon
<1>7. CASE a.kind = "pipe"
  <2>1. room(2) \subseteq Inside(a)
    BY <1>7, <1>0, Entries, Sizes DEF PipeNew, Stored
  <2>2. /\ PipeSqe(a).names = <<>> /\ PipeSqe(a).reads = {} /\ PipeSqe(a).parts = <<>>
        /\ PipeSqe(a).writes = room(2)
    BY DEF PipeSqe, Zeroed
  <2> QED
    BY <1>7, <1>e, <2>1, <2>2, Entries, NoParts, Zenon
<1>8. CASE a.kind = "files_update"
  <2>1. room(Len(a.lens)) \subseteq Inside(a)
    BY <1>8, <1>0, Entries, Carried, Sizes DEF FilesUpdateAt, Stored
  <2>2. /\ FilesUpdateSqe(a).names = <<>> /\ FilesUpdateSqe(a).writes = {}
        /\ FilesUpdateSqe(a).parts = <<Part("fds", room(Len(a.lens)))>>
        /\ FilesUpdateSqe(a).reads = room(Len(a.lens))
    BY DEF FilesUpdateSqe, Zeroed
  <2> QED
    BY <1>8, <2>1, <2>2, <1>e, Entries, OnePart, Zenon
<1>9. CASE a.kind = "timeout"
  <2>1. room(TimespecLen) \subseteq Inside(a)
    BY <1>9, <1>0, Entries, Carried, Sizes DEF TimeoutNew, ValueNew, Stored
  <2>2. /\ TimeoutSqe(a).names = <<>> /\ TimeoutSqe(a).writes = {}
        /\ TimeoutSqe(a).parts = <<Part("value", room(TimespecLen))>>
        /\ TimeoutSqe(a).reads = room(TimespecLen)
    BY DEF TimeoutSqe, ValueSqe, Zeroed
  <2> QED
    BY <1>9, <2>1, <2>2, <1>e, Entries, OnePart, Zenon
<1>10. CASE a.kind = "epoll_ctl"
  <2>1. room(EpollEventLen) \subseteq Inside(a)
    BY <1>10, <1>0, Entries, Carried, Sizes DEF EpollCtlNew, ValueNew, Stored
  <2>2. /\ EpollCtlSqe(a).names = <<>> /\ EpollCtlSqe(a).writes = {}
        /\ EpollCtlSqe(a).parts = <<Part("value", room(EpollEventLen))>>
        /\ EpollCtlSqe(a).reads = room(EpollEventLen)
    BY DEF EpollCtlSqe, ValueSqe, Zeroed
  <2> QED
    BY <1>10, <2>1, <2>2, <1>e, Entries, OnePart, Zenon
<1>11. CASE a.kind = "futex_waitv"
  <2>1. room(FutexWaitvLen * Len(a.lens)) \subseteq Inside(a)
    BY <1>11, <1>0, Entries, Carried, Sizes DEF FutexWaitvNew, Stored
  <2>2. /\ FutexWaitvSqe(a).names = <<>> /\ FutexWaitvSqe(a).writes = {}
        /\ FutexWaitvSqe(a).parts = <<Part("waiters", room(FutexWaitvLen * Len(a.lens)))>>
        /\ FutexWaitvSqe(a).reads = room(FutexWaitvLen * Len(a.lens))
    BY DEF FutexWaitvSqe, Zeroed
  <2> QED
    BY <1>11, <2>1, <2>2, <1>e, Entries, OnePart, Zenon
<1>12. CASE a.kind = "bind"
  <2>1. room(SockAddrLen) \subseteq Inside(a)
    BY <1>12, Entries, Carried, Sizes, StoreInside DEF AddrNew, Stored
  <2>2. /\ BindSqe(a).names = <<>> /\ BindSqe(a).writes = {}
        /\ BindSqe(a).parts = <<Part("name", room(SockAddrLen))>>
        /\ BindSqe(a).reads = room(SockAddrLen)
    BY DEF BindSqe, AddrSqe, Zeroed
  <2> QED
    BY <1>12, <2>1, <2>2, <1>e, Entries, OnePart, Zenon
<1>13. CASE a.kind = "connect"
  <2>1. room(SockAddrLen) \subseteq Inside(a)
    BY <1>13, Entries, Carried, Sizes, StoreInside DEF AddrNew, Stored
  <2>2. /\ ConnectSqe(a).names = <<>> /\ ConnectSqe(a).writes = {}
        /\ ConnectSqe(a).parts = <<Part("name", room(SockAddrLen))>>
        /\ ConnectSqe(a).reads = room(SockAddrLen)
    BY DEF ConnectSqe, AddrSqe, Zeroed
  <2> QED
    BY <1>13, <2>1, <2>2, <1>e, Entries, OnePart, Zenon
<1>14. CASE a.kind = "epoll_wait"
  <2>1. a.store \in Storage /\ Size[a.store] \in Nat
    BY <1>14, Carried, Sizes DEF Stored
  <2>2. MaxEvents(a) * EpollEventLen \in Nat /\ 0 + MaxEvents(a) * EpollEventLen <= Size[a.store]
    BY <2>1, EventsFit
  <2>3. room(MaxEvents(a) * EpollEventLen) \subseteq Inside(a)
    BY <2>1, <2>2, StoreInside
  <2>4. /\ EpollWaitSqe(a).names = <<>> /\ EpollWaitSqe(a).reads = {} /\ EpollWaitSqe(a).parts = <<>>
        /\ EpollWaitSqe(a).writes = room(MaxEvents(a) * EpollEventLen)
    BY DEF EpollWaitSqe, Zeroed
  <2> QED
    BY <1>14, <1>e, <2>3, <2>4, Entries, NoParts, Zenon
<1>15. CASE a.kind = "waitid"
  <2>a. /\ WaitIdSqe(a).names = <<>> /\ WaitIdSqe(a).parts = <<>> /\ WaitIdSqe(a).reads = {}
        /\ WaitIdSqe(a).writes = IF a.store = NoStorage THEN {} ELSE Span(a.store, 0, SiginfoLen)
    BY DEF WaitIdSqe, Zeroed
  <2>1. CASE a.store = NoStorage
    BY <1>15, <1>e, <2>a, <2>1, Entries, NoParts, Zenon
  <2>2. CASE a.store # NoStorage
    <3>1. a.store \in Storage
      BY <1>15, <2>2, Carried
    <3>2. FitError(a.store, SiginfoLen, IntAlign) = "ok"
      BY <1>15, <2>2, Entries DEF WaitIdNew
    <3>3. room(SiginfoLen) \subseteq Inside(a)
      BY <3>1, <3>2, FitMeans, Sizes, Storages, Zenon DEF Inside
    <3> QED
      BY <1>15, <1>e, <2>a, <2>2, <3>3, Entries, NoParts, Zenon
  <2> QED
    BY <2>1, <2>2
<1>16. CASE a.kind \in Bare
  <2>1. /\ AcceptSqe(a).names = <<>> /\ FixedFdInstallSqe(a).names = <<>> /\ FutexWaitSqe(a).names = <<>>
        /\ FutexWakeSqe(a).names = <<>> /\ CancelSqe(a).names = <<>> /\ MsgRingSqe(a).names = <<>>
    BY DEF AcceptSqe, FixedFdInstallSqe, FutexWaitSqe, FutexWakeSqe, CancelSqe, MsgRingSqe, Zeroed
  <2>2. /\ AcceptSqe(a).parts = <<>> /\ FixedFdInstallSqe(a).parts = <<>> /\ FutexWaitSqe(a).parts = <<>>
        /\ FutexWakeSqe(a).parts = <<>> /\ CancelSqe(a).parts = <<>> /\ MsgRingSqe(a).parts = <<>>
    BY DEF AcceptSqe, FixedFdInstallSqe, FutexWaitSqe, FutexWakeSqe, CancelSqe, MsgRingSqe, Zeroed
  <2>3. /\ AcceptSqe(a).reads = {} /\ FixedFdInstallSqe(a).reads = {} /\ FutexWaitSqe(a).reads = {}
        /\ FutexWakeSqe(a).reads = {} /\ CancelSqe(a).reads = {} /\ MsgRingSqe(a).reads = {}
    BY DEF AcceptSqe, FixedFdInstallSqe, FutexWaitSqe, FutexWakeSqe, CancelSqe, MsgRingSqe, Zeroed
  <2>4. /\ AcceptSqe(a).writes = {} /\ FixedFdInstallSqe(a).writes = {} /\ FutexWaitSqe(a).writes = {}
        /\ FutexWakeSqe(a).writes = {} /\ CancelSqe(a).writes = {} /\ MsgRingSqe(a).writes = {}
    BY DEF AcceptSqe, FixedFdInstallSqe, FutexWaitSqe, FutexWakeSqe, CancelSqe, MsgRingSqe, Zeroed
  <2>5. Sqe(a) \in {AcceptSqe(a), FixedFdInstallSqe(a), FutexWaitSqe(a), FutexWakeSqe(a), CancelSqe(a), MsgRingSqe(a)}
    BY <1>16, Entries, Zenon DEF Bare
  <2>6. /\ Sqe(a).names = <<>> /\ Sqe(a).parts = <<>> /\ Sqe(a).reads = {} /\ Sqe(a).writes = {}
    BY <2>1, <2>2, <2>3, <2>4, <2>5, Zenon
  <2> QED
    BY <1>16, <1>f, <2>6, NoParts
<1>17. CASE a.kind \in Buffers
  <2>1. CASE a.kind \in {"request", "send_zc"}
    <3>1. /\ Sqe(a).names = <<>> /\ Sqe(a).parts = <<>>
          /\ Sqe(a).reads \subseteq BufferCells(a) /\ Sqe(a).writes \subseteq BufferCells(a)
      <4>1. /\ SendZcSqe(a).names = <<>> /\ SendZcSqe(a).parts = <<>>
            /\ SendZcSqe(a).reads = BufferCells(a) /\ SendZcSqe(a).writes = {}
        BY DEF SendZcSqe, Zeroed
      <4>2. /\ ReadWriteSqe(a).names = <<>> /\ ReadWriteSqe(a).parts = <<>>
            /\ ReadWriteSqe(a).reads \subseteq BufferCells(a)
            /\ ReadWriteSqe(a).writes \subseteq BufferCells(a)
        BY DEF ReadWriteSqe, Zeroed
      <4> QED
        BY <2>1, <4>1, <4>2, Entries, Zenon
    <3> QED
      BY <1>17, <1>f, <3>1, BuffersInside, NoParts
  <2>2. CASE a.kind = "vectored"
    <3>1. room(IoVecLen * Len(a.bufs)) \subseteq Inside(a)
      BY <2>2, <1>0, Entries, Carried, Sizes DEF VectoredBuild, Stored
    <3>2. /\ VectoredSqe(a).names = <<>>
          /\ VectoredSqe(a).parts = <<Part("iovec", room(IoVecLen * Len(a.bufs)))>>
          /\ VectoredSqe(a).reads \subseteq room(IoVecLen * Len(a.bufs)) \union BufferCells(a)
          /\ VectoredSqe(a).writes \subseteq BufferCells(a)
      BY DEF VectoredSqe, Zeroed
    <3> QED
      BY <1>17, <1>f, <2>2, <3>1, <3>2, Entries, BuffersInside, OnePart, ZenonT(30)
  <2>3. CASE a.kind \in {"sendmsg", "sendmsg_zc"}
    <3>1. a.store \in Storage /\ Stage(a.store, Len(a.bufs)) = "ok"
      BY <2>3, Entries, Carried DEF SendmsgBuild, SendmsgZcBuild, Stored
    <3>2. PICK named \in BOOLEAN : named = (a.asked = "to")
      BY Zenon
    <3>3. /\ Sqe(a).names = <<>> /\ Sqe(a).writes = {}
          /\ Sqe(a).parts = <<Part("iovec", Vecs(a))>>
                              \o (IF named THEN <<Part("name", Name(a))>> ELSE <<>>) \o <<Part("header", Hdr(a))>>
          /\ Sqe(a).reads = Hdr(a) \union Reached(a, named) \union BufferCells(a)
      <4>1. /\ SendmsgSqe(a).names = <<>> /\ SendmsgSqe(a).writes = {}
            /\ SendmsgSqe(a).parts =
                 <<Part("iovec", Vecs(a))>> \o (IF a.asked = "to" THEN <<Part("name", Name(a))>> ELSE <<>>)
                   \o <<Part("header", Hdr(a))>>
            /\ SendmsgSqe(a).reads = Hdr(a) \union Reached(a, a.asked = "to") \union BufferCells(a)
        BY DEF SendmsgSqe, Zeroed
      <4>2. /\ SendmsgZcSqe(a).names = SendmsgSqe(a).names /\ SendmsgZcSqe(a).writes = SendmsgSqe(a).writes
            /\ SendmsgZcSqe(a).parts = SendmsgSqe(a).parts /\ SendmsgZcSqe(a).reads = SendmsgSqe(a).reads
        BY DEF SendmsgZcSqe, SendmsgSqe, Zeroed
      <4> QED
        BY <2>3, <3>2, <4>1, <4>2, Entries, Zenon
    <3>4. Sqe(a).reads \subseteq Inside(a) /\ Sqe(a).writes \subseteq Inside(a)
      BY <1>17, <3>1, <3>3, RegionApart, BuffersInside, Zenon DEF Reached
    <3> QED
      <4>1. Sqe(a).names = a.paths
        BY <1>17, <1>f, <3>3
      <4>2. Sqe(a).parts = <<Part("iovec", Vecs(a))>>
                             \o (IF named THEN <<Part("name", Name(a))>> ELSE <<>>) \o <<Part("header", Hdr(a))>>
        BY <3>3, Zenon
      <4> QED
        BY <4>1, <4>2, <3>1, <3>4, RegionApart, MessageParts, Zenon
  <2>4. CASE a.kind = "recvmsg"
    <3>1. a.store \in Storage /\ Stage(a.store, Len(a.bufs)) = "ok"
      BY <2>4, Entries, Carried DEF RecvmsgBuild, Stored
    <3>2. PICK named \in BOOLEAN : named = (a.asked = "peer")
      BY Zenon
    <3>3. /\ RecvmsgSqe(a).names = <<>>
          /\ RecvmsgSqe(a).parts =
               <<Part("iovec", Vecs(a))>> \o (IF a.asked = "peer" THEN <<Part("zero", Name(a))>> ELSE <<>>)
                 \o <<Part("header", Hdr(a))>>
          /\ RecvmsgSqe(a).reads = Hdr(a) \union Vecs(a)
          /\ RecvmsgSqe(a).writes = BufferCells(a) \union {<<a.store, NamelenField>>, <<a.store, FlagsField>>}
                                      \union IF a.asked = "peer" THEN Name(a) ELSE {}
      BY DEF RecvmsgSqe, Zeroed
    <3>4. Sqe(a).reads \subseteq Inside(a)
      BY <2>4, <3>1, <3>3, RegionApart, Entries, Zenon
    <3>5. Sqe(a).writes \subseteq Inside(a)
      BY <1>17, <2>4, <3>1, <3>3, RegionApart, Entries, BuffersInside, Zenon
    <3>6. Sqe(a).parts = <<Part("iovec", Vecs(a))>>
                           \o (IF named THEN <<Part("zero", Name(a))>> ELSE <<>>) \o <<Part("header", Hdr(a))>>
      BY <2>4, <3>2, <3>3, Entries, Zenon
    <3>7. Sqe(a).names = <<>>
      BY <2>4, <3>3, Entries, Zenon
    <3> QED
      BY <1>17, <1>f, <3>1, <3>4, <3>5, <3>6, <3>7, RegionApart, MessageParts, Zenon
  <2> QED
    BY <1>17, <2>1, <2>2, <2>3, <2>4 DEF Buffers
<1> QED
  BY <1>1, <1>2, <1>3, <1>4, <1>5, <1>6, <1>7, <1>8, <1>9, <1>10, <1>11, <1>12, <1>13, <1>14, <1>15,
     <1>16, <1>17, Zenon DEF WellFormed, OnePath, TwoPaths, Stored, Buffers, Bare

\* What the kernel takes the entries with variants for.
LEMMA Taken ==
  ASSUME NEW q
  PROVE  /\ q.op = "openat2" /\ q.flags = {"CREAT"} => Does(q) = "create"
         /\ q.op = "openat2" /\ q.flags = {"CREAT", "EXCL"} => Does(q) = "create_new"
         /\ q.op = "openat2" /\ q.flags = {"TMPFILE"} => Does(q) = "tmpfile"
         /\ q.op = "openat2" /\ q.flags = {} => Does(q) = "existing"
         /\ q.op = "unlinkat" => Does(q) = IF "REMOVEDIR" \in q.flags THEN "rmdir" ELSE "unlink"
         /\ q.op = "mkdirat" => Does(q) = "mkdir"
         /\ q.op = "renameat" /\ q.flags = {"NOREPLACE"} => Does(q) = "no_replace"
         /\ q.op = "renameat" /\ q.flags = {"EXCHANGE"} => Does(q) = "exchange"
         /\ q.op = "renameat" /\ q.flags = {} => Does(q) = "replace"
         /\ q.op = "symlinkat" => Does(q) = "symlink"
         /\ q.op = "linkat" => Does(q) = "link"
         /\ q.op \in {"read", "readv"} => Does(q) = "read"
         /\ q.op \in {"write", "writev"} => Does(q) = "write"
         /\ q.op = "timeout" => Does(q) = IF "ABS" \in q.flags THEN "at" ELSE "after"
         /\ q.op = "cancel" /\ q.flags = {} => Does(q) = "user_data"
         /\ q.op = "cancel" /\ q.flags = {"FD"} => Does(q) = "fd"
         /\ q.op = "cancel" /\ q.flags = {"FD", "ALL"} => Does(q) = "fd_all"
         /\ q.op = "cancel" /\ q.flags = {"ANY"} => Does(q) = "any"
         /\ q.op = "cancel" /\ q.flags = {"ANY", "ALL"} => Does(q) = "any_all"
         /\ q.op \notin {"openat2", "unlinkat", "mkdirat", "renameat", "symlinkat", "linkat", "read", "readv",
                         "write", "writev", "timeout", "epoll_ctl", "cancel"} => Does(q) = "other"
<1>1. q.op = "openat2" /\ q.flags = {"CREAT"} => Does(q) = "create"
  BY DEF Does
<1>2. q.op = "openat2" /\ q.flags = {"CREAT", "EXCL"} => Does(q) = "create_new"
  BY DEF Does
<1>3. q.op = "openat2" /\ q.flags = {"TMPFILE"} => Does(q) = "tmpfile"
  BY DEF Does
<1>4. q.op = "openat2" /\ q.flags = {} => Does(q) = "existing"
  BY DEF Does
<1>5. q.op = "unlinkat" => Does(q) = IF "REMOVEDIR" \in q.flags THEN "rmdir" ELSE "unlink"
  BY DEF Does
<1>6. q.op = "mkdirat" => Does(q) = "mkdir"
  BY DEF Does
<1>7. q.op = "renameat" /\ q.flags = {"NOREPLACE"} => Does(q) = "no_replace"
  BY DEF Does
<1>8. q.op = "renameat" /\ q.flags = {"EXCHANGE"} => Does(q) = "exchange"
  BY DEF Does
<1>9. q.op = "renameat" /\ q.flags = {} => Does(q) = "replace"
  BY DEF Does
<1>10. q.op = "symlinkat" => Does(q) = "symlink"
  BY DEF Does
<1>11. q.op = "linkat" => Does(q) = "link"
  BY DEF Does
<1>12. q.op \in {"read", "readv"} => Does(q) = "read"
  BY DEF Does
<1>13. q.op \in {"write", "writev"} => Does(q) = "write"
  BY DEF Does
<1>14. q.op = "timeout" => Does(q) = IF "ABS" \in q.flags THEN "at" ELSE "after"
  BY DEF Does
<1>15. q.op = "cancel" /\ q.flags = {} => Does(q) = "user_data"
  BY DEF Does
<1>16. q.op = "cancel" /\ q.flags = {"FD"} => Does(q) = "fd"
  BY DEF Does
<1>17. q.op = "cancel" /\ q.flags = {"FD", "ALL"} => Does(q) = "fd_all"
  BY DEF Does
<1>18. q.op = "cancel" /\ q.flags = {"ANY"} => Does(q) = "any"
  BY DEF Does
<1>19. q.op = "cancel" /\ q.flags = {"ANY", "ALL"} => Does(q) = "any_all"
  BY DEF Does
<1>20. q.op \notin {"openat2", "unlinkat", "mkdirat", "renameat", "symlinkat", "linkat", "read", "readv",
                         "write", "writev", "timeout", "epoll_ctl", "cancel"} => Does(q) = "other"
  BY DEF Does
<1> QED
  BY <1>1, <1>2, <1>3, <1>4, <1>5, <1>6, <1>7, <1>8, <1>9, <1>10, <1>11, <1>12, <1>13, <1>14, <1>15,
     <1>16, <1>17, <1>18, <1>19, <1>20, Zenon

\* An accepted request asks the kernel for what the application asked.
LEMMA AsksForIt ==
  ASSUME NEW a, WellFormed(a), NewError(a) = "ok"
  PROVE  Does(Sqe(a)) \in {a.asked, "other"}
<1>1. a.asked \in Variants(a.kind)
  BY Zenon DEF WellFormed
<1>2. CASE a.kind = "openat2"
  <2>1. a.asked \in {"existing", "create", "create_new", "tmpfile"}
    BY <1>1, <1>2, Entries DEF Variants, Openat2At
  <2>2. Openat2Sqe(a).op = "openat2" /\ Openat2Sqe(a).flags = Openat2Flags(a.asked)
    BY DEF Openat2Sqe, Zeroed
  <2>3. /\ Openat2Flags("existing") = {} /\ Openat2Flags("create") = {"CREAT"}
        /\ Openat2Flags("create_new") = {"CREAT", "EXCL"} /\ Openat2Flags("tmpfile") = {"TMPFILE"}
    BY DEF Openat2Flags
  <2> QED
    <3>1. PICK q : q = Sqe(a)
      BY Zenon
    <3>2. q.op = "openat2" /\ q.flags = Openat2Flags(a.asked)
      BY <1>2, <2>2, <3>1, Entries, Zenon
    <3>3. Does(q) = a.asked
      BY <2>1, <2>3, <3>2, Taken, Zenon
    <3> QED
      BY <3>1, <3>3, Zenon
<1>3. CASE a.kind = "path_op"
  <2>1. a.asked \in {"mkdir", "rmdir", "unlink"}
    BY <1>1, <1>3 DEF Variants
  <2>2. /\ PathOpSqe(a).op = IF a.asked = "mkdir" THEN "mkdirat" ELSE "unlinkat"
        /\ PathOpSqe(a).flags = IF a.asked = "rmdir" THEN {"REMOVEDIR"} ELSE {}
    BY DEF PathOpSqe, Zeroed
  <2> QED
    BY <1>3, <2>1, <2>2, Entries, Taken
<1>4. CASE a.kind = "rename"
  <2>1. a.asked \in {"replace", "no_replace", "exchange"}
    BY <1>1, <1>4 DEF Variants
  <2>2. RenameSqe(a).op = "renameat" /\ RenameSqe(a).flags = RenameFlags(a.asked)
    BY DEF RenameSqe, Zeroed
  <2>3. /\ RenameFlags("replace") = {} /\ RenameFlags("no_replace") = {"NOREPLACE"}
        /\ RenameFlags("exchange") = {"EXCHANGE"}
    BY DEF RenameFlags
  <2> QED
    BY <1>4, <2>1, <2>2, <2>3, Entries, Taken, Zenon
<1>5. CASE a.kind = "link"
  <2>1. a.asked \in {"symlink", "link"}
    BY <1>1, <1>5 DEF Variants
  <2>2. LinkSqe(a).op = IF a.asked = "symlink" THEN "symlinkat" ELSE "linkat"
    BY DEF LinkSqe, Zeroed
  <2> QED
    BY <1>5, <2>1, <2>2, Entries, Taken
<1>6. CASE a.kind \in {"request", "vectored"}
  <2>1. a.asked \in {"read", "write"}
    BY <1>1, <1>6, Zenon DEF Variants
  <2>2. /\ ReadWriteSqe(a).op = IF a.asked = "read" THEN "read" ELSE "write"
        /\ VectoredSqe(a).op = IF a.asked = "read" THEN "readv" ELSE "writev"
    BY DEF ReadWriteSqe, VectoredSqe, Zeroed
  <2> QED
    BY <1>6, <2>1, <2>2, Entries, Taken
<1>7. CASE a.kind = "timeout"
  <2>1. a.asked \in {"after", "at"}
    BY <1>1, <1>7 DEF Variants
  <2>2. /\ TimeoutSqe(a).op = "timeout"
        /\ TimeoutSqe(a).flags = IF a.asked = "at" THEN {"ABS"} ELSE {}
    BY DEF TimeoutSqe, ValueSqe, Zeroed
  <2> QED
    BY <1>7, <2>1, <2>2, Entries, Taken
<1>8. CASE a.kind = "epoll_ctl"
  <2>1. EpollCtlSqe(a).op = "epoll_ctl" /\ EpollCtlSqe(a).flags = {a.asked}
    BY DEF EpollCtlSqe, ValueSqe, Zeroed
  <2>2. PICK q : q = Sqe(a)
    BY Zenon
  <2>3. q.op = "epoll_ctl" /\ q.flags = {a.asked}
    BY <1>8, <2>1, <2>2, Entries
  <2>4. Does(q) = CHOOSE f \in q.flags : TRUE
    BY <2>3 DEF Does
  <2> QED
    BY <2>2, <2>3, <2>4, Zenon
<1>9. CASE a.kind = "cancel"
  <2>1. a.asked \in {"user_data", "fd", "fd_all", "any", "any_all"}
    BY <1>1, <1>9 DEF Variants
  <2>2. /\ CancelSqe(a).op = "cancel"
        /\ a.asked = "user_data" => CancelSqe(a).flags = {}
        /\ a.asked = "fd" => CancelSqe(a).flags = {"FD"}
        /\ a.asked = "fd_all" => CancelSqe(a).flags = {"FD", "ALL"}
        /\ a.asked = "any" => CancelSqe(a).flags = {"ANY"}
        /\ a.asked = "any_all" => CancelSqe(a).flags = {"ANY", "ALL"}
    BY DEF CancelSqe, Zeroed
  <2> QED
    BY <1>9, <2>1, <2>2, Entries, Taken, Zenon
<1>10. CASE a.kind \in {"open", "statx", "pipe", "files_update", "accept", "fixed_fd_install", "send_zc"}
  <2>1. /\ OpenSqe(a).op = "openat" /\ StatxSqe(a).op = "statx" /\ PipeSqe(a).op = "pipe"
        /\ FilesUpdateSqe(a).op = "files_update" /\ AcceptSqe(a).op = "accept_multishot"
        /\ FixedFdInstallSqe(a).op = "fixed_fd_install" /\ SendZcSqe(a).op = "send_zc"
    BY DEF OpenSqe, StatxSqe, PipeSqe, FilesUpdateSqe, AcceptSqe, FixedFdInstallSqe, SendZcSqe, Zeroed
  <2> QED
    BY <1>10, <2>1, Entries, Taken
<1>11. CASE a.kind \in {"sendmsg", "sendmsg_zc", "recvmsg", "bind", "connect"}
  <2>1. /\ SendmsgSqe(a).op = "sendmsg" /\ SendmsgZcSqe(a).op = "sendmsg_zc"
        /\ RecvmsgSqe(a).op = "recvmsg" /\ BindSqe(a).op = "bind" /\ ConnectSqe(a).op = "connect"
    BY SMTT(30) DEF SendmsgSqe, SendmsgZcSqe, RecvmsgSqe, BindSqe, ConnectSqe, AddrSqe, Zeroed
  <2> QED
    BY <1>11, <2>1, Entries, Taken
<1>12. CASE a.kind \in {"epoll_wait", "waitid", "futex_waitv", "futex_wait", "futex_wake", "msg_ring"}
  <2>1. /\ EpollWaitSqe(a).op = "epoll_wait" /\ WaitIdSqe(a).op = "waitid"
        /\ FutexWaitvSqe(a).op = "futex_waitv" /\ FutexWaitSqe(a).op = "futex_wait"
        /\ FutexWakeSqe(a).op = "futex_wake" /\ MsgRingSqe(a).op = "msg_ring"
    BY DEF EpollWaitSqe, WaitIdSqe, FutexWaitvSqe, FutexWaitSqe, FutexWakeSqe, MsgRingSqe, Zeroed
  <2> QED
    BY <1>12, <2>1, Entries, Taken
<1> QED
  BY <1>2, <1>3, <1>4, <1>5, <1>6, <1>7, <1>8, <1>9, <1>10, <1>11, <1>12, Zenon
     DEF WellFormed, OnePath, TwoPaths, Stored, Buffers, Bare

-----------------------------------------------------------------------------
\* The answers.

\* What each kind makes of a completion.
LEMMA OutcomeOf ==
  ASSUME NEW a, NEW sent, NEW cqe
  PROVE  /\ a.kind = "request" => Outcome(a, sent, cqe) = TransferOutcome(cqe.result)
         /\ a.kind = "vectored" => Outcome(a, sent, cqe) = VectoredOutcome(cqe.result)
         /\ a.kind = "sendmsg" => Outcome(a, sent, cqe) = SendmsgOutcome(cqe.result)
         /\ a.kind = "send_zc" => Outcome(a, sent, cqe) = TransferOutcome(ZcResult(sent, cqe.result))
         /\ a.kind = "sendmsg_zc" => Outcome(a, sent, cqe) = TransferOutcome(SendmsgZcResult(sent, cqe.result))
         /\ a.kind = "recvmsg" => Outcome(a, sent, cqe) = RecvmsgPeer(a, cqe.result, cqe.reported)
         /\ a.kind = "bind" => Outcome(a, sent, cqe) = BindOutcome(cqe.result)
         /\ a.kind = "connect" => Outcome(a, sent, cqe) = ConnectOutcome(cqe.result)
         /\ a.kind = "timeout" => Outcome(a, sent, cqe) = Expiry(cqe.result)
         /\ a.kind = "epoll_ctl" => Outcome(a, sent, cqe) = EpollOutcome(cqe.result)
         /\ a.kind = "futex_wait" => Outcome(a, sent, cqe) = FutexWaitOutcome(cqe.result)
         /\ a.kind = "cancel" => Outcome(a, sent, cqe) = CancelOutcome(cqe.result)
         /\ a.kind \notin {"request", "vectored", "sendmsg", "send_zc", "sendmsg_zc", "recvmsg", "bind", "connect",
                        "timeout", "epoll_ctl", "futex_wait", "cancel"} =>
            Outcome(a, sent, cqe) = IF cqe.result >= 0 THEN "ok" ELSE "failed"
<1>1. a.kind = "request" => Outcome(a, sent, cqe) = TransferOutcome(cqe.result)
  BY DEF Outcome, CqeIsOk, PathOpOutcome, RenameOutcome, LinkOutcome
<1>2. a.kind = "vectored" => Outcome(a, sent, cqe) = VectoredOutcome(cqe.result)
  BY DEF Outcome, CqeIsOk, PathOpOutcome, RenameOutcome, LinkOutcome
<1>3. a.kind = "sendmsg" => Outcome(a, sent, cqe) = SendmsgOutcome(cqe.result)
  BY DEF Outcome, CqeIsOk, PathOpOutcome, RenameOutcome, LinkOutcome
<1>4. a.kind = "send_zc" => Outcome(a, sent, cqe) = TransferOutcome(ZcResult(sent, cqe.result))
  BY DEF Outcome, CqeIsOk, PathOpOutcome, RenameOutcome, LinkOutcome
<1>5. a.kind = "sendmsg_zc" => Outcome(a, sent, cqe) = TransferOutcome(SendmsgZcResult(sent, cqe.result))
  BY DEF Outcome, CqeIsOk, PathOpOutcome, RenameOutcome, LinkOutcome
<1>6. a.kind = "recvmsg" => Outcome(a, sent, cqe) = RecvmsgPeer(a, cqe.result, cqe.reported)
  BY DEF Outcome, CqeIsOk, PathOpOutcome, RenameOutcome, LinkOutcome
<1>7. a.kind = "bind" => Outcome(a, sent, cqe) = BindOutcome(cqe.result)
  BY DEF Outcome, CqeIsOk, PathOpOutcome, RenameOutcome, LinkOutcome
<1>8. a.kind = "connect" => Outcome(a, sent, cqe) = ConnectOutcome(cqe.result)
  BY DEF Outcome, CqeIsOk, PathOpOutcome, RenameOutcome, LinkOutcome
<1>9. a.kind = "timeout" => Outcome(a, sent, cqe) = Expiry(cqe.result)
  BY DEF Outcome, CqeIsOk, PathOpOutcome, RenameOutcome, LinkOutcome
<1>10. a.kind = "epoll_ctl" => Outcome(a, sent, cqe) = EpollOutcome(cqe.result)
  BY DEF Outcome, CqeIsOk, PathOpOutcome, RenameOutcome, LinkOutcome
<1>11. a.kind = "futex_wait" => Outcome(a, sent, cqe) = FutexWaitOutcome(cqe.result)
  BY DEF Outcome, CqeIsOk, PathOpOutcome, RenameOutcome, LinkOutcome
<1>12. a.kind = "cancel" => Outcome(a, sent, cqe) = CancelOutcome(cqe.result)
  BY DEF Outcome, CqeIsOk, PathOpOutcome, RenameOutcome, LinkOutcome
<1>13. a.kind \notin {"request", "vectored", "sendmsg", "send_zc", "sendmsg_zc", "recvmsg", "bind", "connect",
                        "timeout", "epoll_ctl", "futex_wait", "cancel"} =>
            Outcome(a, sent, cqe) = IF cqe.result >= 0 THEN "ok" ELSE "failed"
  BY DEF Outcome, CqeIsOk, PathOpOutcome, RenameOutcome, LinkOutcome
<1> QED
  BY <1>1, <1>2, <1>3, <1>4, <1>5, <1>6, <1>7, <1>8, <1>9, <1>10, <1>11, <1>12, <1>13, Zenon

\* What each kind shows of its storage.
LEMMA ShownOf ==
  ASSUME NEW a, NEW cqe
  PROVE  /\ a.kind = "statx" => Shown(a, cqe) = StatxStat(a, cqe.result)
         /\ a.kind = "pipe" => Shown(a, cqe) = PipeFds(a, cqe.result)
         /\ a.kind = "epoll_wait" => Shown(a, cqe) = EpollWaitEvents(a, cqe.result)
         /\ a.kind = "waitid" => Shown(a, cqe) = WaitIdInfo(a, cqe.result)
         /\ a.kind = "recvmsg" =>
            Shown(a, cqe) = RecvmsgReceived(a, cqe.result)
                              \union RecvmsgPeerCells(a, RecvmsgPeer(a, cqe.result, cqe.reported))
         /\ a.kind \notin {"statx", "pipe", "epoll_wait", "waitid", "recvmsg"} => Shown(a, cqe) = {}
<1>1. a.kind = "statx" => Shown(a, cqe) = StatxStat(a, cqe.result)
  BY DEF Shown
<1>2. a.kind = "pipe" => Shown(a, cqe) = PipeFds(a, cqe.result)
  BY DEF Shown
<1>3. a.kind = "epoll_wait" => Shown(a, cqe) = EpollWaitEvents(a, cqe.result)
  BY DEF Shown
<1>4. a.kind = "waitid" => Shown(a, cqe) = WaitIdInfo(a, cqe.result)
  BY DEF Shown
<1>5. a.kind = "recvmsg" =>
            Shown(a, cqe) = RecvmsgReceived(a, cqe.result)
                              \union RecvmsgPeerCells(a, RecvmsgPeer(a, cqe.result, cqe.reported))
  BY DEF Shown
<1>6. a.kind \notin {"statx", "pipe", "epoll_wait", "waitid", "recvmsg"} => Shown(a, cqe) = {}
  BY DEF Shown
<1> QED
  BY <1>1, <1>2, <1>3, <1>4, <1>5, <1>6, Zenon

\* What the kernel fills in, after a success.
LEMMA FillsOf ==
  ASSUME NEW a, NEW cqe
  PROVE  /\ cqe.result < 0 => Fills(a, cqe) = {}
         /\ ~(cqe.result < 0) /\ a.kind \in {"request", "vectored"} =>
            Fills(a, cqe) = IF cqe.result > 0 THEN Sqe(a).writes ELSE {}
         /\ ~(cqe.result < 0) /\ a.kind = "recvmsg" =>
            Fills(a, cqe) = BufferCells(a) \union {<<a.store, FlagsField>>}
              \union IF a.asked = "peer"
                       THEN {<<a.store, NamelenField>>}
                              \union {c \in Name(a) : c[2] < NameOffset(Len(a.bufs)) + cqe.reported}
                       ELSE {}
         /\ ~(cqe.result < 0) /\ a.kind = "epoll_wait" =>
            Fills(a, cqe) = Span(a.store, 0, cqe.result * EpollEventLen)
         /\ ~(cqe.result < 0) /\ a.kind = "waitid" =>
            Fills(a, cqe) = IF a.store = NoStorage THEN {} ELSE {a.store} \X SiginfoFields
         /\ ~(cqe.result < 0) /\ a.kind \notin {"request", "vectored", "recvmsg", "epoll_wait", "waitid"} =>
            Fills(a, cqe) = Sqe(a).writes
<1>1. cqe.result < 0 => Fills(a, cqe) = {}
  BY DEF Fills
<1>2. ~(cqe.result < 0) /\ a.kind \in {"request", "vectored"} =>
            Fills(a, cqe) = IF cqe.result > 0 THEN Sqe(a).writes ELSE {}
  BY DEF Fills
<1>3. ~(cqe.result < 0) /\ a.kind = "recvmsg" =>
            Fills(a, cqe) = BufferCells(a) \union {<<a.store, FlagsField>>}
              \union IF a.asked = "peer"
                       THEN {<<a.store, NamelenField>>}
                              \union {c \in Name(a) : c[2] < NameOffset(Len(a.bufs)) + cqe.reported}
                       ELSE {}
  BY DEF Fills
<1>4. ~(cqe.result < 0) /\ a.kind = "epoll_wait" =>
            Fills(a, cqe) = Span(a.store, 0, cqe.result * EpollEventLen)
  BY DEF Fills
<1>5. ~(cqe.result < 0) /\ a.kind = "waitid" =>
            Fills(a, cqe) = IF a.store = NoStorage THEN {} ELSE {a.store} \X SiginfoFields
  BY DEF Fills
<1>6. ~(cqe.result < 0) /\ a.kind \notin {"request", "vectored", "recvmsg", "epoll_wait", "waitid"} =>
            Fills(a, cqe) = Sqe(a).writes
  BY DEF Fills
<1> QED
  BY <1>1, <1>2, <1>3, <1>4, <1>5, <1>6, Zenon

\* The completions of a table.
LEMMA NamedIs ==
  ASSUME NEW table \in SUBSET (Int \X Happening), NEW cqe \in Named(table)
  PROVE  /\ cqe \in Completion /\ ~cqe.more /\ cqe.reported = 0
         /\ <<cqe.result, cqe.happened>> \in table
<1>1. PICK entry \in table : cqe = Cqe(entry[1], FALSE, entry[2], 0)
  BY Zenon DEF Named
<1>2. entry[1] \in Int /\ entry[2] \in Happening /\ entry = <<entry[1], entry[2]>>
  OBVIOUS
<1>3. /\ cqe \in Completion /\ cqe.more = FALSE /\ cqe.reported = 0
      /\ cqe.result = entry[1] /\ cqe.happened = entry[2]
  BY <1>1, <1>2 DEF Cqe, Completion
<1> QED
  BY <1>2, <1>3, Zenon

\* The completions that are right or wrong by their sign.
LEMMA PlainIs ==
  ASSUME NEW results \in SUBSET Int, NEW cqe \in Plain(results)
  PROVE  /\ cqe \in Completion /\ ~cqe.more /\ cqe.reported = 0
         /\ cqe.result \in results
         /\ cqe.happened = IF cqe.result >= 0 THEN "ok" ELSE "failed"
<1>1. PICK r \in results : cqe = Cqe(r, FALSE, IF r < 0 THEN "failed" ELSE "ok", 0)
  BY Zenon DEF Plain
<1>2. "failed" \in Happening /\ "ok" \in Happening
  BY DEF Happening
<1>3. r \in Int
  OBVIOUS
<1>4. PICK happened \in Happening : happened = IF r < 0 THEN "failed" ELSE "ok"
  BY <1>2, Zenon
<1>5. cqe = Cqe(r, FALSE, happened, 0)
  BY <1>1, <1>4, Zenon
<1>6. /\ cqe \in Completion /\ cqe.more = FALSE /\ cqe.reported = 0
      /\ cqe.result = r /\ cqe.happened = happened
  BY <1>3, <1>5 DEF Cqe, Completion
<1> QED
  BY <1>3, <1>4, <1>6

\* What holds of a completion of the kernel's.
Answered(a, cqe) ==
  /\ cqe \in Completion /\ ~cqe.more
  /\ Fills(a, cqe) \subseteq Inside(a)
  /\ Shown(a, cqe) \subseteq Fills(a, cqe)
  /\ \A sent : Outcome(a, sent, cqe) = cqe.happened

\* After a failure nothing is shown.
LEMMA FailureShowsNothing ==
  ASSUME NEW a, NEW cqe, cqe.result \in Int, cqe.result < 0
  PROVE  Shown(a, cqe) = {}
<1>1. ~(cqe.result >= 0)
  OBVIOUS
<1>2. StatxStat(a, cqe.result) = {} /\ PipeFds(a, cqe.result) = {} /\ WaitIdInfo(a, cqe.result) = {}
  BY DEF StatxStat, PipeFds, WaitIdInfo
<1>3. EpollWaitEvents(a, cqe.result) = {} /\ RecvmsgReceived(a, cqe.result) = {}
  BY <1>1 DEF EpollWaitEvents, RecvmsgReceived, CqeIsOk
<1>4. RecvmsgPeer(a, cqe.result, cqe.reported) = "none"
  BY <1>1 DEF RecvmsgPeer, CqeIsOk
<1>5. RecvmsgPeerCells(a, "none") = {}
  BY DEF RecvmsgPeerCells
<1>6. \A S, T : S = {} /\ T = {} => S \union T = {}
  BY Zenon
<1> QED
  BY <1>2, <1>3, <1>4, <1>5, <1>6, ShownOf, Zenon

\* The kinds whose entry says all that the kernel writes, and that show nothing.
LEMMA QuietAnswers ==
  ASSUME NEW a, WellFormed(a), NewError(a) = "ok", NEW cqe, cqe.result \in Int,
         a.kind \notin {"statx", "pipe", "epoll_wait", "waitid", "recvmsg"}
  PROVE  Fills(a, cqe) \subseteq Inside(a) /\ Shown(a, cqe) \subseteq Fills(a, cqe)
<1>1. Sqe(a).writes \subseteq Inside(a)
  BY EntryFits, Zenon DEF Fitting
<1>2. Fills(a, cqe) \in {Sqe(a).writes, {}}
  BY FillsOf
<1>3. Shown(a, cqe) = {}
  BY ShownOf, Zenon
<1> QED
  BY <1>1, <1>2, <1>3, Zenon

\* The kinds that report by a table.
LEMMA TableAnswers ==
  ASSUME NEW a, WellFormed(a), NewError(a) = "ok", NEW cqe \in Completions(a),
         a.kind \in {"bind", "connect", "timeout", "epoll_ctl", "futex_wait"}
  PROVE  Answered(a, cqe)
<1>0. ASSUME NEW table \in SUBSET (Int \X Happening), cqe \in Named(table),
             \A sent : \A entry \in table : cqe.result = entry[1] => Outcome(a, sent, cqe) = entry[2]
      PROVE  Answered(a, cqe)
  <2>1. /\ cqe \in Completion /\ ~cqe.more /\ <<cqe.result, cqe.happened>> \in table
    BY <1>0, NamedIs, Zenon
  <2>2. cqe.result \in Int
    BY <2>1 DEF Completion
  <2>3. \A sent : Outcome(a, sent, cqe) = cqe.happened
    BY <1>0, <2>1
  <2>4. a.kind \notin {"statx", "pipe", "epoll_wait", "waitid", "recvmsg"}
    OBVIOUS
  <2> QED
    BY <2>1, <2>2, <2>3, <2>4, QuietAnswers, Zenon DEF Answered
<1>1. CASE a.kind = "bind"
  <2> DEFINE table == {<<0, "Bound">>, <<-98, "AddressInUse">>, <<-22, "AlreadyBound">>,
                              <<-13, "PermissionDenied">>, <<-9, "Failed">>}
  <2>1. Completions(a) = Named(table)
    BY <1>1 DEF Completions
  <2>2. table \in SUBSET (Int \X Happening)
    BY DEF Happening
  <2>3. \A entry \in table : BindOutcome(entry[1]) = entry[2]
    BY DEF BindOutcome
  <2>4. \A sent : Outcome(a, sent, cqe) = BindOutcome(cqe.result)
    BY <1>1, OutcomeOf, Zenon
  <2> HIDE DEF table
  <2> QED
    BY <1>0, <2>1, <2>2, <2>3, <2>4, Zenon
<1>2. CASE a.kind = "connect"
  <2> DEFINE table == {<<0, "Connected">>, <<-111, "Refused">>, <<-106, "AlreadyConnected">>,
                              <<-110, "TimedOut">>, <<-101, "NetworkUnreachable">>, <<-9, "Failed">>}
  <2>1. Completions(a) = Named(table)
    BY <1>2 DEF Completions
  <2>2. table \in SUBSET (Int \X Happening)
    BY DEF Happening
  <2>3. \A entry \in table : ConnectOutcome(entry[1]) = entry[2]
    BY DEF ConnectOutcome
  <2>4. \A sent : Outcome(a, sent, cqe) = ConnectOutcome(cqe.result)
    BY <1>2, OutcomeOf, Zenon
  <2> HIDE DEF table
  <2> QED
    BY <1>0, <2>1, <2>2, <2>3, <2>4, Zenon
<1>3. CASE a.kind = "timeout"
  <2> DEFINE table == {<<-62, "Expired">>, <<0, "CountReached">>, <<-22, "Failed">>}
  <2>1. Completions(a) = Named(table)
    BY <1>3 DEF Completions
  <2>2. table \in SUBSET (Int \X Happening)
    BY DEF Happening
  <2>3. \A entry \in table : Expiry(entry[1]) = entry[2]
    BY DEF Expiry
  <2>4. \A sent : Outcome(a, sent, cqe) = Expiry(cqe.result)
    BY <1>3, OutcomeOf, Zenon
  <2> HIDE DEF table
  <2> QED
    BY <1>0, <2>1, <2>2, <2>3, <2>4, Zenon
<1>4. CASE a.kind = "epoll_ctl"
  <2> DEFINE table == {<<0, "Applied">>, <<-17, "AlreadyRegistered">>, <<-2, "NotRegistered">>,
                              <<-9, "Failed">>}
  <2>1. Completions(a) = Named(table)
    BY <1>4 DEF Completions
  <2>2. table \in SUBSET (Int \X Happening)
    BY DEF Happening
  <2>3. \A entry \in table : EpollOutcome(entry[1]) = entry[2]
    BY DEF EpollOutcome
  <2>4. \A sent : Outcome(a, sent, cqe) = EpollOutcome(cqe.result)
    BY <1>4, OutcomeOf, Zenon
  <2> HIDE DEF table
  <2> QED
    BY <1>0, <2>1, <2>2, <2>3, <2>4, Zenon
<1>5. CASE a.kind = "futex_wait"
  <2> DEFINE table == {<<0, "Woken">>, <<-11, "ValueMismatch">>, <<-14, "Failed">>}
  <2>1. Completions(a) = Named(table)
    BY <1>5 DEF Completions
  <2>2. table \in SUBSET (Int \X Happening)
    BY DEF Happening
  <2>3. \A entry \in table : FutexWaitOutcome(entry[1]) = entry[2]
    BY DEF FutexWaitOutcome
  <2>4. \A sent : Outcome(a, sent, cqe) = FutexWaitOutcome(cqe.result)
    BY <1>5, OutcomeOf, Zenon
  <2> HIDE DEF table
  <2> QED
    BY <1>0, <2>1, <2>2, <2>3, <2>4, Zenon
<1> QED
  BY <1>1, <1>2, <1>3, <1>4, <1>5

\* The kinds that report by the sign.
LEMMA SignAnswers ==
  ASSUME NEW a, WellFormed(a), NewError(a) = "ok", NEW cqe \in Completions(a),
         a.kind \in {"path_op", "rename", "link", "files_update", "futex_waitv", "futex_wake", "msg_ring"}
  PROVE  Answered(a, cqe)
<1>1. Completions(a) = Plain({-5, 0})
  BY DEF Completions
<1>2. {-5, 0} \in SUBSET Int
  OBVIOUS
<1>3. /\ cqe \in Completion /\ ~cqe.more
      /\ cqe.happened = IF cqe.result >= 0 THEN "ok" ELSE "failed"
  BY <1>1, <1>2, PlainIs, Zenon
<1>4. a.kind \notin {"request", "vectored", "sendmsg", "send_zc", "sendmsg_zc", "recvmsg", "bind", "connect",
                     "timeout", "epoll_ctl", "futex_wait", "cancel"}
  OBVIOUS
<1>5. \A sent : Outcome(a, sent, cqe) = IF cqe.result >= 0 THEN "ok" ELSE "failed"
  BY <1>4, OutcomeOf, Zenon
<1>6. cqe.result \in Int
  BY <1>3 DEF Completion
<1>7. a.kind \notin {"statx", "pipe", "epoll_wait", "waitid", "recvmsg"}
  OBVIOUS
<1>8. Fills(a, cqe) \subseteq Inside(a) /\ Shown(a, cqe) \subseteq Fills(a, cqe)
  BY <1>6, <1>7, QuietAnswers, Zenon
<1> QED
  BY <1>3, <1>5, <1>8, Zenon DEF Answered

\* The kinds that move bytes.
LEMMA TransferAnswers ==
  ASSUME NEW a, WellFormed(a), NewError(a) = "ok", NEW cqe \in Completions(a),
         a.kind \in {"request", "vectored", "sendmsg"}
  PROVE  Answered(a, cqe)
<1> DEFINE table == {<<-5, "failed">>, <<0, "empty">>, <<1, "moved">>}
<1>1. Completions(a) = Named(table)
  BY DEF Completions, Moved
<1>2. table \in SUBSET (Int \X Happening)
  BY DEF Happening
<1>3. \A entry \in table : /\ TransferOutcome(entry[1]) = entry[2] /\ VectoredOutcome(entry[1]) = entry[2]
                           /\ SendmsgOutcome(entry[1]) = entry[2]
  BY DEF TransferOutcome, VectoredOutcome, SendmsgOutcome, CqeIsOk
<1> HIDE DEF table
<1>4. cqe \in Completion /\ ~cqe.more /\ <<cqe.result, cqe.happened>> \in table
  BY <1>1, <1>2, NamedIs, Zenon
<1>5. \A sent : Outcome(a, sent, cqe) \in {TransferOutcome(cqe.result), VectoredOutcome(cqe.result),
                                          SendmsgOutcome(cqe.result)}
  BY OutcomeOf, Zenon
<1>6. /\ TransferOutcome(cqe.result) = cqe.happened /\ VectoredOutcome(cqe.result) = cqe.happened
      /\ SendmsgOutcome(cqe.result) = cqe.happened
  BY <1>3, <1>4
<1>7. \A sent : Outcome(a, sent, cqe) = cqe.happened
  BY <1>5, <1>6, Zenon
<1>8. cqe.result \in Int
  BY <1>4 DEF Completion
<1>9. a.kind \notin {"statx", "pipe", "epoll_wait", "waitid", "recvmsg"}
  OBVIOUS
<1>10. Fills(a, cqe) \subseteq Inside(a) /\ Shown(a, cqe) \subseteq Fills(a, cqe)
  BY <1>8, <1>9, QuietAnswers, Zenon
<1> QED
  BY <1>4, <1>7, <1>10, Zenon DEF Answered

\* The kinds that receive one structure, or as many events as they are told of.
LEMMA ValueAnswers ==
  ASSUME NEW a, WellFormed(a), NewError(a) = "ok", NEW cqe \in Completions(a),
         a.kind \in {"statx", "pipe", "waitid", "epoll_wait"}
  PROVE  Answered(a, cqe)
<1>1. PICK results \in SUBSET Int : Completions(a) = Plain(results) /\ results \subseteq {-5, 0, -9} \union 0 .. MaxEvents(a)
  <2>1. CASE a.kind = "epoll_wait"
    <3>1. Completions(a) = Plain({-9} \union 0 .. MaxEvents(a))
      BY <2>1 DEF Completions
    <3> QED
      BY <3>1
  <2>2. CASE a.kind # "epoll_wait"
    <3>1. Completions(a) = Plain({-5, 0})
      BY <2>2 DEF Completions
    <3> QED
      BY <3>1
  <2> QED
    BY <2>1, <2>2
<1>2. /\ cqe \in Completion /\ ~cqe.more /\ cqe.result \in results
      /\ cqe.happened = IF cqe.result >= 0 THEN "ok" ELSE "failed"
  BY <1>1, PlainIs, Zenon
<1>3. a.kind \notin {"request", "vectored", "sendmsg", "send_zc", "sendmsg_zc", "recvmsg", "bind", "connect",
                     "timeout", "epoll_ctl", "futex_wait", "cancel"}
  OBVIOUS
<1>4. \A sent : Outcome(a, sent, cqe) = IF cqe.result >= 0 THEN "ok" ELSE "failed"
  BY <1>3, OutcomeOf, Zenon
<1>5. cqe.result \in Int
  BY <1>2 DEF Completion
<1>6. Fills(a, cqe) \subseteq Inside(a) /\ Shown(a, cqe) \subseteq Fills(a, cqe)
  <2>1. CASE cqe.result < 0
    BY <1>5, <2>1, FillsOf, FailureShowsNothing
  <2>2. CASE ~(cqe.result < 0) /\ a.kind \in {"statx", "pipe"}
    <3>1. Sqe(a).writes \subseteq Inside(a)
      BY EntryFits, Zenon DEF Fitting
    <3>2. Fills(a, cqe) = Sqe(a).writes
      BY <2>2, FillsOf
    <3>3. StatxSqe(a).writes = Span(a.store, 0, StatxLen) /\ PipeSqe(a).writes = Span(a.store, 0, 2)
      BY DEF StatxSqe, PipeSqe, Zeroed
    <3>4. /\ StatxStat(a, cqe.result) = Span(a.store, 0, StatxLen)
          /\ PipeFds(a, cqe.result) = Span(a.store, 0, 2)
      BY <2>2 DEF StatxStat, PipeFds
    <3>5. Shown(a, cqe) = Sqe(a).writes
      BY <2>2, <3>3, <3>4, ShownOf, Entries, Zenon
    <3> QED
      BY <3>1, <3>2, <3>5, Zenon
  <2>3. CASE ~(cqe.result < 0) /\ a.kind = "waitid"
    <3>1. /\ Fills(a, cqe) = IF a.store = NoStorage THEN {} ELSE {a.store} \X SiginfoFields
          /\ Shown(a, cqe) = IF a.store = NoStorage THEN {} ELSE {a.store} \X SiginfoFields
      BY <2>3, FillsOf, ShownOf, Zenon DEF WaitIdInfo
    <3>2. WaitIdSqe(a).writes = IF a.store = NoStorage THEN {} ELSE Span(a.store, 0, SiginfoLen)
      BY DEF WaitIdSqe, Zeroed
    <3>3. Sqe(a).writes \subseteq Inside(a) /\ Sqe(a) = WaitIdSqe(a)
      BY <2>3, EntryFits, Entries, Zenon DEF Fitting
    <3>4. {a.store} \X SiginfoFields \subseteq Span(a.store, 0, SiginfoLen)
      <4>1. SiginfoFields \subseteq 0 .. 0 + SiginfoLen - 1
        BY Sizes
      <4> QED
        BY <4>1, Zenon DEF Span
    <3> QED
      BY <3>1, <3>2, <3>3, <3>4
  <2>4. CASE ~(cqe.result < 0) /\ a.kind = "epoll_wait"
    <3>1. a.store \in Storage
      BY <2>4, Carried DEF Stored
    <3>2. cqe.result \in Nat /\ MaxEvents(a) \in Nat /\ cqe.result <= MaxEvents(a)
      BY <1>1, <1>2, <1>5, <2>4, <3>1, EventsFit
    <3>3. \A r, m, len \in Nat : r <= m => r * len \in Nat /\ r * len <= m * len
      OBVIOUS
    <3>4. PICK len \in Nat : len = cqe.result * EpollEventLen /\ len <= MaxEvents(a) * EpollEventLen
      BY <3>2, <3>3, Sizes, Zenon
    <3>5. 0 + len <= Size[a.store]
      BY <3>1, <3>4, EventsFit, Sizes
    <3>6. Span(a.store, 0, len) \subseteq Inside(a)
      BY <3>1, <3>5, StoreInside
    <3>7. cqe.result >= 0
      BY <3>2
    <3>8. Fills(a, cqe) = Span(a.store, 0, len) /\ Shown(a, cqe) = Span(a.store, 0, len)
      BY <2>4, <3>4, <3>7, FillsOf, ShownOf, Zenon DEF EpollWaitEvents, CqeIsOk
    <3> QED
      BY <3>6, <3>8, Zenon
  <2> QED
    BY <2>1, <2>2, <2>3, <2>4
<1> QED
  BY <1>2, <1>4, <1>6, Zenon DEF Answered

\* What peer says of an address of each length, and the cells it is read from.
LEMMA PeerOf ==
  ASSUME NEW a, NEW result \in Int, result >= 0, NEW reported \in Int
  PROVE  /\ a.asked # "peer" => RecvmsgPeer(a, result, reported) = "none"
         /\ a.asked = "peer" =>
              /\ reported = 0 => RecvmsgPeer(a, result, reported) = "none"
              /\ reported = 1 => RecvmsgPeer(a, result, reported) = "other"
              /\ reported = SockAddrLen => RecvmsgPeer(a, result, reported) = "v4"
              /\ reported = SockAddrLen + 1 => RecvmsgPeer(a, result, reported) = "truncated"
         /\ RecvmsgPeerCells(a, "none") = {} /\ RecvmsgPeerCells(a, "truncated") = {}
         /\ RecvmsgPeerCells(a, "other") = {<<a.store, NameOffset(Len(a.bufs))>>}
         /\ RecvmsgPeerCells(a, "v4") = Name(a)
<1>1. a.asked # "peer" => RecvmsgPeer(a, result, reported) = "none"
  BY DEF RecvmsgPeer
<1>2. ASSUME a.asked = "peer" PROVE
        /\ reported = 0 => RecvmsgPeer(a, result, reported) = "none"
        /\ reported = 1 => RecvmsgPeer(a, result, reported) = "other"
        /\ reported = SockAddrLen => RecvmsgPeer(a, result, reported) = "v4"
        /\ reported = SockAddrLen + 1 => RecvmsgPeer(a, result, reported) = "truncated"
  BY <1>2, Sizes DEF RecvmsgPeer, CqeIsOk
<1>3. /\ RecvmsgPeerCells(a, "none") = {} /\ RecvmsgPeerCells(a, "truncated") = {}
      /\ RecvmsgPeerCells(a, "other") = {<<a.store, NameOffset(Len(a.bufs))>>}
      /\ RecvmsgPeerCells(a, "v4") = Name(a)
  BY DEF RecvmsgPeerCells
<1> QED
  BY <1>1, <1>2, <1>3

\* A received message.
LEMMA MessageAnswers ==
  ASSUME NEW a, WellFormed(a), NewError(a) = "ok", NEW cqe \in Completions(a), a.kind = "recvmsg"
  PROVE  Answered(a, cqe)
<1>1. Completions(a) =
         {Cqe(-11, FALSE, "none", 0)}
           \union IF a.asked = "peer"
                    THEN {Cqe(1, FALSE, "none", 0), Cqe(1, FALSE, "other", 1),
                          Cqe(1, FALSE, "v4", SockAddrLen), Cqe(1, FALSE, "truncated", SockAddrLen + 1)}
                    ELSE {Cqe(1, FALSE, "none", 0)}
  BY DEF Completions
<1>2. /\ cqe \in Completion /\ ~cqe.more
      /\ \/ cqe.result = -11 /\ cqe.happened = "none"
         \/ cqe.result = 1 /\ a.asked # "peer" /\ cqe.happened = "none"
         \/ cqe.result = 1 /\ a.asked = "peer" /\ cqe.happened = "none" /\ cqe.reported = 0
         \/ cqe.result = 1 /\ a.asked = "peer" /\ cqe.happened = "other" /\ cqe.reported = 1
         \/ cqe.result = 1 /\ a.asked = "peer" /\ cqe.happened = "v4" /\ cqe.reported = SockAddrLen
         \/ cqe.result = 1 /\ a.asked = "peer" /\ cqe.happened = "truncated" /\ cqe.reported = SockAddrLen + 1
  <2>1. \/ cqe = Cqe(-11, FALSE, "none", 0)
        \/ cqe = Cqe(1, FALSE, "none", 0)
        \/ a.asked = "peer" /\ cqe = Cqe(1, FALSE, "other", 1)
        \/ a.asked = "peer" /\ cqe = Cqe(1, FALSE, "v4", SockAddrLen)
        \/ a.asked = "peer" /\ cqe = Cqe(1, FALSE, "truncated", SockAddrLen + 1)
    BY <1>1, Zenon
  <2>2. {"none", "other", "v4", "truncated"} \subseteq Happening
    BY DEF Happening
  <2>3. {-11, 1, 0, SockAddrLen, SockAddrLen + 1} \subseteq Int
    BY Sizes
  <2>4. cqe \in Completion /\ ~cqe.more
    <3>1. PICK result \in Int, happened \in Happening, reported \in Int :
            cqe = Cqe(result, FALSE, happened, reported)
      BY <2>1, <2>2, <2>3, Zenon
    <3> QED
      BY <3>1 DEF Cqe, Completion
  <2> QED
    BY <2>1, <2>4 DEF Cqe
<1>3. cqe.result \in Int /\ cqe.reported \in Int
  BY <1>2 DEF Completion
<1>4. \A sent : Outcome(a, sent, cqe) = RecvmsgPeer(a, cqe.result, cqe.reported)
  BY OutcomeOf, Zenon
<1>5. CASE cqe.result = -11
  <2>1. cqe.result < 0
    BY <1>5
  <2>2. ~(cqe.result >= 0) /\ cqe.happened = "none"
    BY <1>2, <1>5
  <2>3. RecvmsgPeer(a, cqe.result, cqe.reported) = "none"
    BY <2>2 DEF RecvmsgPeer, CqeIsOk
  <2>4. Fills(a, cqe) = {} /\ Shown(a, cqe) = {}
    BY <1>3, <2>1, FillsOf, FailureShowsNothing, Zenon
  <2> QED
    BY <1>2, <1>4, <2>2, <2>3, <2>4, Zenon DEF Answered
<1>6. CASE cqe.result = 1
  <2>1. ~(cqe.result < 0) /\ cqe.result >= 0
    BY <1>6, SMTT(30)
  <2>2. a.store \in Storage /\ Stage(a.store, Len(a.bufs)) = "ok"
    BY Entries, Carried, ZenonT(30) DEF RecvmsgBuild, Stored
  <2>3. PICK name : name = {c \in Name(a) : c[2] < NameOffset(Len(a.bufs)) + cqe.reported}
    BY Zenon
  <2>4. Fills(a, cqe) = BufferCells(a) \union {<<a.store, FlagsField>>}
                          \union IF a.asked = "peer" THEN {<<a.store, NamelenField>>} \union name ELSE {}
    BY <2>1, <2>3, FillsOf, Zenon
  <2>5. Fills(a, cqe) \subseteq Inside(a)
    <3>1. BufferCells(a) \subseteq Inside(a)
      BY BuffersInside DEF Buffers
    <3>2. name \subseteq Name(a)
      BY <2>3, Zenon
    <3> QED
      BY <2>2, <2>4, <3>1, <3>2, RegionApart, Zenon
  <2>6. /\ cqe.happened = "v4" => Name(a) \subseteq name
        /\ cqe.happened = "other" => <<a.store, NameOffset(Len(a.bufs))>> \in name
    <3>1. PICK offset \in Nat : offset = NameOffset(Len(a.bufs))
      BY Carried, Sizes DEF NameOffset
    <3>2. Name(a) = {a.store} \X (offset .. offset + SockAddrLen - 1)
      BY <3>1 DEF Name, Span
    <3>3. name = {c \in Name(a) : c[2] < offset + cqe.reported}
      BY <2>3, <3>1, Zenon
    <3> QED
      BY <1>2, <1>6, <3>1, <3>2, <3>3, Sizes
  <2>7. Shown(a, cqe) = {<<a.store, FlagsField>>} \union RecvmsgPeerCells(a, RecvmsgPeer(a, cqe.result, cqe.reported))
    BY <2>1, ShownOf, Zenon DEF RecvmsgReceived, CqeIsOk
  <2>8. RecvmsgPeer(a, cqe.result, cqe.reported) = cqe.happened
    BY <1>2, <1>3, <1>6, <2>1, PeerOf
  <2>9. Shown(a, cqe) \subseteq Fills(a, cqe)
    <3>1. cqe.happened \in {"none", "truncated"} \/ (a.asked = "peer" /\ cqe.happened \in {"v4", "other"})
      BY <1>2, <1>6
    <3>2. /\ RecvmsgPeerCells(a, "none") = {} /\ RecvmsgPeerCells(a, "truncated") = {}
          /\ RecvmsgPeerCells(a, "other") = {<<a.store, NameOffset(Len(a.bufs))>>}
          /\ RecvmsgPeerCells(a, "v4") = Name(a)
      BY <1>3, <2>1, PeerOf, Zenon
    <3>3. CASE cqe.happened \in {"none", "truncated"}
      <4>1. Shown(a, cqe) = {<<a.store, FlagsField>>} \union {}
        BY <2>7, <2>8, <3>2, <3>3, Zenon
      <4> QED
        BY <2>4, <4>1, Zenon
    <3>4. CASE a.asked = "peer" /\ cqe.happened \in {"v4", "other"}
      <4>1. Fills(a, cqe) = BufferCells(a) \union {<<a.store, FlagsField>>}
                              \union ({<<a.store, NamelenField>>} \union name)
        BY <2>4, <3>4, Zenon
      <4>2. RecvmsgPeerCells(a, cqe.happened) \subseteq name
        BY <2>6, <3>2, <3>4, Zenon
      <4> QED
        BY <2>7, <2>8, <4>1, <4>2, Zenon
    <3> QED
      BY <3>1, <3>3, <3>4, Zenon
  <2> QED
    BY <1>2, <1>4, <2>5, <2>8, <2>9, Zenon DEF Answered
<1> QED
  BY <1>2, <1>5, <1>6

\* Every completion of a request that the kernel carries out at once.
LEMMA AnswersHold ==
  ASSUME NEW a, WellFormed(a), NewError(a) = "ok", NEW cqe \in Completions(a),
         ~Installs(a), ~ZeroCopy(a), a.kind # "cancel"
  PROVE  Answered(a, cqe)
<1>1. a.kind \in {"bind", "connect", "timeout", "epoll_ctl", "futex_wait"}
        \union {"path_op", "rename", "link", "files_update", "futex_waitv", "futex_wake", "msg_ring"}
        \union {"request", "vectored", "sendmsg"} \union {"statx", "pipe", "waitid", "epoll_wait"} \union {"recvmsg"}
  BY DEF WellFormed, OnePath, TwoPaths, Stored, Buffers, Bare, Installs, ZeroCopy
<1> QED
  BY <1>1, TableAnswers, SignAnswers, TransferAnswers, ValueAnswers, MessageAnswers, Zenon

\* A request that was cancelled reports so.
LEMMA CancelledAnswer ==
  ASSUME NEW a, a.kind # "cancel", ~ZeroCopy(a), NEW sent
  PROVE  Outcome(a, sent, Cqe(-125, FALSE, CancelledAs(a), 0)) = CancelledAs(a)
<1>1. PICK cqe : cqe = Cqe(-125, FALSE, CancelledAs(a), 0)
  BY Zenon
<1>2. cqe.result = -125
  BY <1>1 DEF Cqe
<1>a. SUFFICES Outcome(a, sent, cqe) = CancelledAs(a)
  BY <1>1, Zenon
<1>b. PICK result : result = cqe.result
  BY Zenon
<1>c. result = -125
  BY <1>2, <1>b
<1>3. CASE a.kind \in {"timeout", "futex_wait"}
  <2>1. CancelledAs(a) = "Cancelled"
    BY <1>3, Zenon DEF CancelledAs
  <2>2. Expiry(result) = "Cancelled" /\ FutexWaitOutcome(result) = "Cancelled"
    BY <1>c DEF Expiry, FutexWaitOutcome
  <2> QED
    BY <1>b, <1>3, <2>1, <2>2, OutcomeOf, Zenon
<1>4. CASE a.kind \in {"bind", "connect", "epoll_ctl"}
  <2>1. CancelledAs(a) = "Failed"
    BY <1>4 DEF CancelledAs
  <2>2. BindOutcome(result) = "Failed" /\ ConnectOutcome(result) = "Failed" /\ EpollOutcome(result) = "Failed"
    BY <1>c DEF BindOutcome, ConnectOutcome, EpollOutcome
  <2> QED
    BY <1>b, <1>4, <2>1, <2>2, OutcomeOf, Zenon
<1>5. CASE a.kind = "recvmsg"
  <2>1. CancelledAs(a) = "none"
    BY <1>5 DEF CancelledAs
  <2>2. RecvmsgPeer(a, cqe.result, cqe.reported) = "none"
    BY <1>2 DEF RecvmsgPeer, CqeIsOk
  <2> QED
    BY <1>5, <2>1, <2>2, OutcomeOf, Zenon
<1>6. CASE a.kind \in {"request", "vectored", "sendmsg"}
  <2>1. CancelledAs(a) = "failed"
    BY <1>6 DEF CancelledAs
  <2>2. /\ TransferOutcome(result) = "failed" /\ VectoredOutcome(result) = "failed"
        /\ SendmsgOutcome(result) = "failed"
    BY <1>c DEF TransferOutcome, VectoredOutcome, SendmsgOutcome, CqeIsOk
  <2> QED
    BY <1>b, <1>6, <2>1, <2>2, OutcomeOf, Zenon
<1>7. CASE a.kind \notin {"timeout", "futex_wait", "bind", "connect", "epoll_ctl", "recvmsg", "request", "vectored", "sendmsg"}
  <2>1. CancelledAs(a) = "failed"
    BY <1>7 DEF CancelledAs
  <2>2. a.kind \notin {"request", "vectored", "sendmsg", "send_zc", "sendmsg_zc", "recvmsg", "bind", "connect",
                       "timeout", "epoll_ctl", "futex_wait", "cancel"}
    BY <1>7 DEF ZeroCopy
  <2>3. Outcome(a, sent, cqe) = IF cqe.result >= 0 THEN "ok" ELSE "failed"
    BY <2>2, OutcomeOf, Zenon
  <2> QED
    BY <1>2, <2>1, <2>3
<1> QED
  BY <1>3, <1>4, <1>5, <1>6, <1>7, Zenon

\* What happens to a cancelled request can happen.
LEMMA CancelledHappens ==
  ASSUME NEW a
  PROVE  CancelledAs(a) \in Happening /\ (ZeroCopy(a) => CancelledAs(a) = "failed")
<1>1. CancelledAs(a) \in {"Cancelled", "Failed", "none", "failed"}
  BY DEF CancelledAs
<1>2. ZeroCopy(a) => CancelledAs(a) = "failed"
  BY DEF CancelledAs, ZeroCopy
<1> QED
  BY <1>1, <1>2 DEF Happening

\* An opened, installed or accepted descriptor, and the lack of one.
LEMMA InstallAnswer ==
  ASSUME NEW a, Installs(a), NEW sent, NEW result \in Int, NEW more \in BOOLEAN
  PROVE  /\ result >= 0 => Outcome(a, sent, Cqe(result, more, "ok", 0)) = "ok"
         /\ result < 0 => Outcome(a, sent, Cqe(result, more, "failed", 0)) = "failed"
<1>1. a.kind \notin {"request", "vectored", "sendmsg", "send_zc", "sendmsg_zc", "recvmsg", "bind", "connect",
                     "timeout", "epoll_ctl", "futex_wait", "cancel"}
  BY DEF Installs
<1>2. \A cqe : Outcome(a, sent, cqe) = IF cqe.result >= 0 THEN "ok" ELSE "failed"
  BY <1>1, OutcomeOf, Zenon
<1>3. \A happened : Cqe(result, more, happened, 0).result = result
  BY DEF Cqe
<1>4. result < 0 => ~(result >= 0)
  OBVIOUS
<1> QED
  BY <1>2, <1>3, <1>4, Zenon

\* A cancellation reports what it found.
LEMMA CancelAnswer ==
  ASSUME NEW a, a.kind = "cancel", NEW sent
  PROVE  /\ \A result \in Int : result >= 0 => Outcome(a, sent, Cqe(result, FALSE, "Applied", 0)) = "Applied"
         /\ Outcome(a, sent, Cqe(-114, FALSE, "AlreadyCompleting", 0)) = "AlreadyCompleting"
         /\ Outcome(a, sent, Cqe(-2, FALSE, "NotFound", 0)) = "NotFound"
<1>1. \A cqe : Outcome(a, sent, cqe) = CancelOutcome(cqe.result)
  BY OutcomeOf, Zenon
<1>2. \A result, happened : Cqe(result, FALSE, happened, 0).result = result
  BY DEF Cqe
<1>3. \A result, happened : Outcome(a, sent, Cqe(result, FALSE, happened, 0)) = CancelOutcome(result)
  BY <1>1, <1>2, Zenon
<1>4. /\ \A result \in Int : result >= 0 => CancelOutcome(result) = "Applied"
      /\ CancelOutcome(-114) = "AlreadyCompleting" /\ CancelOutcome(-2) = "NotFound"
  BY DEF CancelOutcome
<1>5. \A result \in Int : result >= 0 => Outcome(a, sent, Cqe(result, FALSE, "Applied", 0)) = "Applied"
  BY <1>3, <1>4, Zenon
<1>6. Outcome(a, sent, Cqe(-114, FALSE, "AlreadyCompleting", 0)) = "AlreadyCompleting"
  BY <1>3, <1>4, Zenon
<1>7. Outcome(a, sent, Cqe(-2, FALSE, "NotFound", 0)) = "NotFound"
  BY <1>3, <1>4, Zenon
<1> QED
  BY <1>5, <1>6, <1>7, Zenon

-----------------------------------------------------------------------------
\* A request by itself.

\* The fields of a request.
LEMMA FieldTypes ==
  ASSUME NEW r \in RequestState
  PROVE  /\ r.phase \in {"unused", "prepared", "pending", "done", "gone"}
         /\ r.args \in Arguments \union {Unused.args}
         /\ r.kernel \in {"idle", "running", "notify", "over"}
         /\ r.cqes \in Seq(Completion) /\ r.sent \in Seq(Int) /\ r.last \in Seq(Completion)
         /\ r.missed \in BOOLEAN
BY DEF RequestState

\* A request that was not built is sound, and so is what is left of one.
LEMMA SoundEnds == Sound(Unused) /\ Sound(Gone)
<1>1. /\ Unused \in RequestState /\ Unused.phase = "unused" /\ Unused.kernel = "idle" /\ Unused.cqes = <<>>
      /\ Unused.sent = <<>> /\ Unused.last = <<>>
  BY DEF Unused, RequestState
<1>2. /\ Gone \in RequestState /\ Gone.phase = "gone" /\ Gone.kernel = "over" /\ Gone.cqes = <<>>
      /\ Gone.sent = <<>> /\ Gone.last = <<>>
  <2>1. PICK u : u = Unused
    BY Zenon
  <2>2. Gone = [u EXCEPT !.phase = "gone", !.kernel = "over"]
    BY <2>1, Zenon DEF Gone
  <2> QED
    BY <1>1, <2>1, <2>2, Zenon DEF RequestState
<1> QED
  BY <1>1, <1>2 DEF Sound, Active, Terminal

Prepared(r, a) == [r EXCEPT !.phase = "prepared", !.args = a]

\* A constructor's request.
LEMMA SoundPrepare ==
  ASSUME NEW r, NEW a, NEW t, Sound(r), r.phase = "unused", a \in Arguments, NewError(a) = "ok",
         t = Prepared(r, a)
  PROVE  Sound(t) /\ t.phase = "prepared" /\ t.args = a /\ t.kernel = "idle" /\ t.cqes = <<>>
<1>1. r = Unused
  BY DEF Sound
<1>2. /\ t \in RequestState /\ t.phase = "prepared" /\ t.kernel = "idle" /\ t.cqes = <<>> /\ t.args = a
      /\ t.sent = <<>> /\ t.last = <<>> /\ t.missed = FALSE
  <2>1. /\ r \in RequestState /\ r.phase = "unused" /\ r.kernel = "idle" /\ r.cqes = <<>>
        /\ r.sent = <<>> /\ r.last = <<>> /\ r.missed = FALSE
    BY <1>1, SoundEnds, Zenon DEF Unused, Sound
  <2> QED
    BY <2>1, Zenon DEF RequestState, Prepared
<1> QED
  BY <1>2 DEF Sound, Active, Terminal

\* A request pushed.
LEMMA SoundPush ==
  ASSUME NEW r, Sound(r), r.phase = "prepared",
         NEW t, t = [r EXCEPT !.phase = "pending", !.kernel = "running"]
  PROVE  Sound(t) /\ t.phase = "pending" /\ t.args = r.args /\ t.kernel = "running" /\ t.cqes = r.cqes
<1>1. /\ r \in RequestState /\ r.args \in Arguments /\ NewError(r.args) = "ok" /\ r.cqes = <<>>
      /\ r.sent = <<>> /\ r.last = <<>> /\ r.missed = FALSE
  BY DEF Sound, Active
<1>2. /\ t \in RequestState /\ t.phase = "pending" /\ t.kernel = "running" /\ t.cqes = <<>>
      /\ t.args = r.args /\ t.sent = <<>> /\ t.last = <<>> /\ t.missed = FALSE
  BY <1>1, Zenon DEF RequestState
<1>3. ZeroCopyProgress(t)
  BY <1>2 DEF ZeroCopyProgress
<1> QED
  BY <1>1, <1>2, <1>3 DEF Sound, Active, Terminal

\* The completions of a ticket, the oldest and the rest.
LEMMA HeadAndTail ==
  ASSUME NEW S, NEW c \in Seq(S), c # <<>>
  PROVE  /\ 1 \in DOMAIN c /\ Head(c) = c[1] /\ Head(c) \in S
         /\ Tail(c) \in Seq(S) /\ Len(Tail(c)) = Len(c) - 1
         /\ \A i \in DOMAIN Tail(c) : i + 1 \in DOMAIN c /\ Tail(c)[i] = c[i + 1]
         /\ \A i \in DOMAIN c : i # 1 => i - 1 \in DOMAIN Tail(c) /\ Tail(c)[i - 1] = c[i]
OBVIOUS

\* A pending request.
LEMMA SoundPending ==
  ASSUME NEW r, Sound(r), r.phase = "pending"
  PROVE  /\ r \in RequestState /\ r.args \in Arguments /\ NewError(r.args) = "ok" /\ Len(r.sent) <= 1
         /\ r.kernel \in {"running", "notify", "over"} /\ r.last = <<>>
         /\ r.cqes \in Seq(Completion) /\ r.sent \in Seq(Int) /\ r.missed \in BOOLEAN
         /\ r.kernel = "notify" => ZeroCopy(r.args)
         /\ \A i \in DOMAIN r.cqes : ~r.cqes[i].more => i = Len(r.cqes) /\ r.kernel = "over"
         /\ ~r.missed =>
              IF ZeroCopy(r.args) THEN ZeroCopyProgress(r)
              ELSE \A i \in DOMAIN r.cqes : Terminal(r, i) =>
                     Outcome(r.args, r.sent, r.cqes[i]) = r.cqes[i].happened
<1>1. r \in RequestState
  BY DEF Sound
<1>2. Active(r)
  BY DEF Active
<1> QED
  BY <1>1, <1>2, FieldTypes DEF Sound

\* What makes a pending request sound.
LEMMA PendingSound ==
  ASSUME NEW r \in RequestState, r.phase = "pending", r.args \in Arguments, NewError(r.args) = "ok",
         Len(r.sent) <= 1, r.kernel # "idle", r.last = <<>>, r.kernel = "notify" => ZeroCopy(r.args),
         \A i \in DOMAIN r.cqes : ~r.cqes[i].more => i = Len(r.cqes) /\ r.kernel = "over",
         ~r.missed => IF ZeroCopy(r.args) THEN ZeroCopyProgress(r)
                      ELSE \A i \in DOMAIN r.cqes : Terminal(r, i) =>
                             Outcome(r.args, r.sent, r.cqes[i]) = r.cqes[i].happened
  PROVE  Sound(r)
BY DEF Sound, Active

\* Only the last of the rest of the completions is terminal.
LEMMA RestIsOrdered ==
  ASSUME NEW c \in Seq(Completion), c # <<>>, NEW over \in BOOLEAN,
         \A i \in DOMAIN c : ~c[i].more => i = Len(c) /\ over
  PROVE  \A i \in DOMAIN Tail(c) : ~Tail(c)[i].more => i = Len(Tail(c)) /\ over
<1>1. \A i \in DOMAIN Tail(c) : i + 1 \in DOMAIN c /\ Tail(c)[i] = c[i + 1]
  BY HeadAndTail, Zenon
<1>2. Len(Tail(c)) = Len(c) - 1 /\ Len(c) \in Nat /\ Tail(c) \in Seq(Completion)
  BY HeadAndTail
<1>3. ASSUME NEW i \in DOMAIN Tail(c), ~Tail(c)[i].more PROVE i = Len(Tail(c)) /\ over
  <2>1. i + 1 \in DOMAIN c /\ ~c[i + 1].more
    BY <1>1, <1>3, Zenon
  <2>2. i + 1 = Len(c) /\ over
    BY <2>1, Zenon
  <2>3. i \in Nat
    BY <1>2
  <2>4. i + 1 = Len(c)
    BY <2>2, Zenon
  <2>5. \A x, y, z \in Int : x + 1 = y /\ z = y - 1 => x = z
    OBVIOUS
  <2>6. i \in Int /\ Len(c) \in Int /\ Len(Tail(c)) \in Int
    BY <1>2, <2>3
  <2>7. i = Len(Tail(c))
    BY <1>2, <2>4, <2>5, <2>6, Zenon
  <2> QED
    BY <2>2, <2>7, Zenon
<1> QED
  BY <1>3

\* An event dropped unread.
LEMMA SoundDropEvent ==
  ASSUME NEW r, Sound(r), r.phase = "pending", r.cqes # <<>>,
         NEW t, t = [r EXCEPT !.cqes = Tail(r.cqes), !.missed = TRUE]
  PROVE  Sound(t) /\ t.phase = "pending" /\ t.args = r.args /\ t.kernel = r.kernel /\ t.cqes = Tail(r.cqes)
<1>1. PICK over \in BOOLEAN : over = (r.kernel = "over")
  BY Zenon
<1>2. Tail(r.cqes) \in Seq(Completion)
  BY SoundPending, HeadAndTail, Zenon
<1>3. \A i \in DOMAIN Tail(r.cqes) : ~Tail(r.cqes)[i].more => i = Len(Tail(r.cqes)) /\ over
  <2>1. /\ r.cqes \in Seq(Completion)
        /\ \A i \in DOMAIN r.cqes : ~r.cqes[i].more => i = Len(r.cqes) /\ over
    BY <1>1, SoundPending, Zenon
  <2> QED
    BY <2>1, RestIsOrdered, Zenon
<1>4. /\ t.phase = "pending" /\ t.args = r.args /\ t.kernel = r.kernel /\ t.cqes = Tail(r.cqes)
      /\ t.sent = r.sent /\ t.last = r.last /\ t.missed = TRUE /\ t \in RequestState
  <2>1. r \in RequestState
    BY SoundPending, Zenon
  <2> QED
    BY <1>2, <2>1, Zenon DEF RequestState
<1>5. /\ t.args \in Arguments /\ NewError(t.args) = "ok" /\ Len(t.sent) <= 1 /\ t.kernel # "idle"
      /\ t.last = <<>> /\ (t.kernel = "notify" => ZeroCopy(t.args))
  BY <1>4, SoundPending
<1>6. \A i \in DOMAIN t.cqes : ~t.cqes[i].more => i = Len(t.cqes) /\ t.kernel = "over"
  BY <1>1, <1>3, <1>4, Zenon
<1>7. Sound(t)
  BY <1>4, <1>5, <1>6, PendingSound, Zenon
<1> QED
  BY <1>4, <1>7, Zenon

\* A request none of whose completions was thrown away.
LEMMA SoundRecord ==
  ASSUME NEW r, Sound(r), r.phase = "pending", r.cqes # <<>>, ~ZeroCopy(r.args),
         NEW t, t = [r EXCEPT !.cqes = Tail(r.cqes)]
  PROVE  Sound(t) /\ t.phase = "pending" /\ t.args = r.args /\ t.kernel = r.kernel /\ t.cqes = Tail(r.cqes)
<1>1. PICK over \in BOOLEAN : over = (r.kernel = "over")
  BY Zenon
<1>2. /\ r.cqes \in Seq(Completion) /\ Tail(r.cqes) \in Seq(Completion)
      /\ \A i \in DOMAIN Tail(r.cqes) : i + 1 \in DOMAIN r.cqes /\ Tail(r.cqes)[i] = r.cqes[i + 1]
  BY SoundPending, HeadAndTail, Zenon
<1>3. \A i \in DOMAIN Tail(r.cqes) : ~Tail(r.cqes)[i].more => i = Len(Tail(r.cqes)) /\ over
  <2>1. \A i \in DOMAIN r.cqes : ~r.cqes[i].more => i = Len(r.cqes) /\ over
    BY <1>1, SoundPending, Zenon
  <2> QED
    BY <1>2, <2>1, RestIsOrdered, Zenon
<1>4. /\ t.phase = "pending" /\ t.args = r.args /\ t.kernel = r.kernel /\ t.cqes = Tail(r.cqes)
      /\ t.sent = r.sent /\ t.last = r.last /\ t.missed = r.missed /\ t \in RequestState
  <2>1. r \in RequestState
    BY SoundPending, Zenon
  <2> QED
    BY <1>2, <2>1, Zenon DEF RequestState
<1>5. /\ t.args \in Arguments /\ NewError(t.args) = "ok" /\ Len(t.sent) <= 1 /\ t.kernel # "idle"
      /\ t.last = <<>> /\ (t.kernel = "notify" => ZeroCopy(t.args))
  BY <1>4, SoundPending
<1>6. \A i \in DOMAIN t.cqes : ~t.cqes[i].more => i = Len(t.cqes) /\ t.kernel = "over"
  BY <1>1, <1>3, <1>4, Zenon
<1>7. ~t.missed => \A i \in DOMAIN t.cqes : Terminal(t, i) =>
                     Outcome(t.args, t.sent, t.cqes[i]) = t.cqes[i].happened
  <2>1. ~r.missed => \A i \in DOMAIN r.cqes : Terminal(r, i) =>
                       Outcome(r.args, r.sent, r.cqes[i]) = r.cqes[i].happened
    BY SoundPending, Zenon
  <2>2. ASSUME ~r.missed, NEW i \in DOMAIN Tail(r.cqes), ~Tail(r.cqes)[i].more
        PROVE  Outcome(r.args, r.sent, Tail(r.cqes)[i]) = Tail(r.cqes)[i].happened
    <3>1. i + 1 \in DOMAIN r.cqes /\ Tail(r.cqes)[i] = r.cqes[i + 1]
      BY <1>2, Zenon
    <3>2. Terminal(r, i + 1)
      BY <2>2, <3>1, Zenon DEF Terminal
    <3> QED
      BY <2>1, <2>2, <3>1, <3>2, Zenon
  <2> QED
    BY <1>4, <2>2, Zenon DEF Terminal
<1>8. Sound(t)
  BY <1>4, <1>5, <1>6, <1>7, PendingSound, Zenon
<1> QED
  BY <1>4, <1>8, Zenon

\* The completions of a zero-copy send by how far it is.
LEMMA ProgressOf ==
  ASSUME NEW r, ZeroCopyProgress(r), r.kernel \in {"running", "notify", "over"}
  PROVE  /\ r.kernel = "running" => r.cqes = <<>> /\ r.sent = <<>>
         /\ r.kernel = "notify" => \/ r.cqes = <<Cqe(1, TRUE, "moved", 0)>> /\ r.sent = <<>>
                                   \/ r.cqes = <<>> /\ r.sent = << 1 >>
         /\ r.kernel = "over" =>
              \/ r.cqes = <<Cqe(1, TRUE, "moved", 0), Cqe(0, FALSE, "moved", 0)>> /\ r.sent = <<>>
              \/ r.cqes = <<Cqe(0, FALSE, "moved", 0)>> /\ r.sent = << 1 >>
              \/ r.sent = <<>> /\ \/ r.cqes = <<Cqe(-32, FALSE, "failed", 0)>>
                                  \/ r.cqes = <<Cqe(-125, FALSE, "failed", 0)>>
<1>1. CASE r.kernel = "running"
  BY <1>1 DEF ZeroCopyProgress
<1>2. CASE r.kernel = "notify"
  BY <1>2, Zenon DEF ZeroCopyProgress
<1>3. CASE r.kernel = "over"
  BY <1>3, Zenon DEF ZeroCopyProgress
<1> QED
  BY <1>1, <1>2, <1>3, Zenon

\* And what makes such a progress.
LEMMA IsProgress ==
  ASSUME NEW r,
         \/ r.kernel = "running" /\ r.cqes = <<>> /\ r.sent = <<>>
         \/ r.kernel = "notify" /\ r.cqes = <<Cqe(1, TRUE, "moved", 0)>> /\ r.sent = <<>>
         \/ r.kernel = "notify" /\ r.cqes = <<>> /\ r.sent = << 1 >>
  PROVE  ZeroCopyProgress(r)
<1>1. CASE r.kernel = "running" /\ r.cqes = <<>> /\ r.sent = <<>>
  BY <1>1 DEF ZeroCopyProgress
<1>2. CASE r.kernel = "notify"
  BY <1>2, Zenon DEF ZeroCopyProgress
<1> QED
  BY <1>1, <1>2, Zenon

\* Where a zero-copy send may end.
LEMMA IsOver ==
  ASSUME NEW r, r.kernel = "over",
         \/ r.cqes = <<Cqe(1, TRUE, "moved", 0), Cqe(0, FALSE, "moved", 0)>> /\ r.sent = <<>>
         \/ r.cqes = <<Cqe(0, FALSE, "moved", 0)>> /\ r.sent = << 1 >>
         \/ r.cqes = <<Cqe(-32, FALSE, "failed", 0)>> /\ r.sent = <<>>
         \/ r.cqes = <<Cqe(-125, FALSE, "failed", 0)>> /\ r.sent = <<>>
  PROVE  ZeroCopyProgress(r)
BY Zenon DEF ZeroCopyProgress

\* The count of a zero-copy send, recorded.
LEMMA SoundRecordSent ==
  ASSUME NEW r, Sound(r), r.phase = "pending", r.cqes # <<>>, Head(r.cqes).more, ZeroCopy(r.args),
         NEW t, t = [r EXCEPT !.sent = <<Head(r.cqes).result>>, !.cqes = Tail(r.cqes)]
  PROVE  Sound(t) /\ t.phase = "pending" /\ t.args = r.args /\ t.kernel = r.kernel /\ t.cqes = Tail(r.cqes)
<1>1. PICK over \in BOOLEAN : over = (r.kernel = "over")
  BY Zenon
<1>2. r.cqes \in Seq(Completion) /\ Tail(r.cqes) \in Seq(Completion) /\ Head(r.cqes) \in Completion
  BY SoundPending, HeadAndTail, Zenon
<1>3. \A i \in DOMAIN Tail(r.cqes) : ~Tail(r.cqes)[i].more => i = Len(Tail(r.cqes)) /\ over
  <2>1. \A i \in DOMAIN r.cqes : ~r.cqes[i].more => i = Len(r.cqes) /\ over
    BY <1>1, SoundPending, Zenon
  <2> QED
    BY <1>2, <2>1, RestIsOrdered, Zenon
<1>4. PICK sent : sent = <<Head(r.cqes).result>>
  BY Zenon
<1>5. sent \in Seq(Int) /\ Len(sent) = 1
  <2>1. Head(r.cqes).result \in Int
    BY <1>2 DEF Completion
  <2> QED
    BY <1>4, <2>1
<1>6. /\ t.phase = "pending" /\ t.args = r.args /\ t.kernel = r.kernel /\ t.cqes = Tail(r.cqes)
      /\ t.sent = sent /\ t.last = r.last /\ t.missed = r.missed /\ t \in RequestState
  <2>1. r \in RequestState
    BY SoundPending, Zenon
  <2> QED
    BY <1>2, <1>4, <1>5, <2>1, Zenon DEF RequestState
<1>7. /\ t.args \in Arguments /\ NewError(t.args) = "ok" /\ Len(t.sent) <= 1 /\ t.kernel # "idle"
      /\ t.last = <<>>
  BY <1>5, <1>6, SoundPending
<1>8. \A i \in DOMAIN t.cqes : ~t.cqes[i].more => i = Len(t.cqes) /\ t.kernel = "over"
  BY <1>1, <1>3, <1>6, Zenon
<1>9. ASSUME ~t.missed PROVE ZeroCopyProgress(t)
  <2> DEFINE count == Cqe(1, TRUE, "moved", 0)
             notification == Cqe(0, FALSE, "moved", 0)
  <2>1. /\ count.more = TRUE /\ notification.more = FALSE /\ count.result = 1
        /\ Cqe(-32, FALSE, "failed", 0).more = FALSE /\ Cqe(-125, FALSE, "failed", 0).more = FALSE
    BY DEF Cqe
  <2>2. ZeroCopyProgress(r) /\ r.kernel \in {"running", "notify", "over"}
    BY <1>6, <1>9, SoundPending, Zenon
  <2> HIDE DEF count, notification
  <2>3. \A x, y : /\ Head(<<x>>) = x /\ Tail(<<x>>) = <<>>
                  /\ Head(<<x, y>>) = x /\ Tail(<<x, y>>) = <<y>>
    OBVIOUS
  <2>4. \/ r.kernel = "notify" /\ r.cqes = <<count>>
        \/ r.kernel = "over" /\ r.cqes = <<count, notification>>
    <3>1. CASE r.kernel = "running"
      BY <2>2, <3>1, ProgressOf, Zenon
    <3>2. CASE r.kernel = "notify"
      BY <2>2, <3>2, ProgressOf, Zenon DEF count
    <3>3. CASE r.kernel = "over"
      <4>1. \/ r.cqes = <<count, notification>> \/ r.cqes = <<notification>>
            \/ r.cqes = <<Cqe(-32, FALSE, "failed", 0)>> \/ r.cqes = <<Cqe(-125, FALSE, "failed", 0)>>
        BY <2>2, <3>3, ProgressOf, Zenon DEF count, notification
      <4> QED
        <5>1. \A x : x.more = FALSE => r.cqes # <<x>>
          BY <2>3, Zenon
        <5> QED
          BY <2>1, <3>3, <4>1, <5>1, Zenon
    <3> QED
      BY <2>2, <3>1, <3>2, <3>3
  <2>5. CASE r.kernel = "notify" /\ r.cqes = <<count>>
    <3>1. t.kernel = "notify" /\ t.cqes = <<>> /\ t.sent = << 1 >>
      BY <1>4, <1>6, <2>1, <2>5
    <3> QED
      BY <3>1, IsProgress, Zenon
  <2>6. CASE r.kernel = "over" /\ r.cqes = <<count, notification>>
    <3>1. t.kernel = "over" /\ t.cqes = <<notification>> /\ t.sent = << 1 >>
      BY <1>4, <1>6, <2>1, <2>6
    <3> QED
      BY <3>1, IsOver, Zenon DEF notification
  <2> QED
    BY <2>4, <2>5, <2>6, Zenon
<1>10. Sound(t)
  BY <1>6, <1>7, <1>8, <1>9, PendingSound, Zenon
<1> QED
  BY <1>6, <1>10, Zenon

\* A request redeemed: what it reports is what happened.
LEMMA SoundRedeem ==
  ASSUME NEW r, Sound(r), r.phase = "pending", r.cqes # <<>>, ~Head(r.cqes).more,
         NEW t, t = [r EXCEPT !.phase = "done", !.cqes = <<>>, !.last = <<Head(r.cqes)>>]
  PROVE  /\ Sound(t) /\ t.phase = "done" /\ t.args = r.args /\ t.kernel = "over" /\ t.cqes = <<>>
         /\ t.last[1] = Head(r.cqes) /\ r.kernel = "over"
<1>1. PICK cqe : cqe = Head(r.cqes)
  BY Zenon
<1>2. /\ r.cqes \in Seq(Completion) /\ cqe \in Completion /\ 1 \in DOMAIN r.cqes /\ r.cqes[1] = cqe
      /\ ~cqe.more
  BY <1>1, SoundPending, HeadAndTail, Zenon
<1>3. r.kernel = "over"
  BY <1>2, SoundPending, Zenon
<1>4. PICK last : last = <<cqe>>
  BY Zenon
<1>5. last \in Seq(Completion) /\ Len(last) = 1 /\ last[1] = cqe
  BY <1>2, <1>4
<1>6. /\ t.phase = "done" /\ t.args = r.args /\ t.kernel = r.kernel /\ t.cqes = <<>>
      /\ t.sent = r.sent /\ t.last = last /\ t.missed = r.missed /\ t \in RequestState
  <2>1. r \in RequestState /\ <<>> \in Seq(Completion)
    BY SoundPending
  <2> QED
    BY <1>1, <1>4, <1>5, <2>1, Zenon DEF RequestState
<1>7. ASSUME ~r.missed PROVE Outcome(r.args, r.sent, cqe) = cqe.happened
  <2>1. CASE ~ZeroCopy(r.args)
    <3>1. Terminal(r, 1)
      BY <1>2, Zenon DEF Terminal
    <3> QED
      BY <1>2, <1>7, <2>1, <3>1, SoundPending, Zenon
  <2>2. CASE ZeroCopy(r.args)
    <3>1. ZeroCopyProgress(r)
      BY <1>7, <2>2, SoundPending, Zenon
    <3>2. \A x, y : <<x>>[1] = x /\ <<x, y>>[1] = x
      OBVIOUS
    <3>3. Cqe(1, TRUE, "moved", 0).more = TRUE
      BY DEF Cqe
    <3>4. \/ cqe = Cqe(0, FALSE, "moved", 0) /\ r.sent = << 1 >>
          \/ r.sent = <<>> /\ (cqe = Cqe(-32, FALSE, "failed", 0) \/ cqe = Cqe(-125, FALSE, "failed", 0))
      <4>1. /\ r.kernel = "over" /\ r.kernel \in {"running", "notify", "over"} /\ cqe.more # TRUE
        BY <1>2, <1>3, Zenon
      <4>2. \/ r.cqes = <<Cqe(1, TRUE, "moved", 0), Cqe(0, FALSE, "moved", 0)>>
            \/ r.cqes = <<Cqe(0, FALSE, "moved", 0)>> /\ r.sent = << 1 >>
            \/ r.sent = <<>> /\ r.cqes = <<Cqe(-32, FALSE, "failed", 0)>>
            \/ r.sent = <<>> /\ r.cqes = <<Cqe(-125, FALSE, "failed", 0)>>
        BY <3>1, <4>1, ProgressOf, Zenon
      <4>3. CASE r.cqes = <<Cqe(1, TRUE, "moved", 0), Cqe(0, FALSE, "moved", 0)>>
        <5>1. cqe = Cqe(1, TRUE, "moved", 0)
          <6>1. PICK x, y : x = Cqe(1, TRUE, "moved", 0) /\ y = Cqe(0, FALSE, "moved", 0)
            BY Zenon
          <6>2. r.cqes = <<x, y>> /\ r.cqes[1] = cqe
            BY <1>2, <4>3, <6>1, Zenon
          <6>3. cqe = x
            BY <6>2
          <6> QED
            BY <6>1, <6>3, Zenon
        <5> QED
          BY <3>3, <4>1, <5>1, Zenon
      <4>4. CASE r.cqes = <<Cqe(0, FALSE, "moved", 0)>> /\ r.sent = << 1 >>
        BY <1>2, <3>2, <4>4, Zenon
      <4>5. CASE r.sent = <<>> /\ r.cqes = <<Cqe(-32, FALSE, "failed", 0)>>
        BY <1>2, <3>2, <4>5, Zenon
      <4>6. CASE r.sent = <<>> /\ r.cqes = <<Cqe(-125, FALSE, "failed", 0)>>
        BY <1>2, <3>2, <4>6, Zenon
      <4> QED
        BY <4>2, <4>3, <4>4, <4>5, <4>6, Zenon
    <3>5. PICK result : result = ZcResult(r.sent, cqe.result)
      BY Zenon
    <3>6. Outcome(r.args, r.sent, cqe) = TransferOutcome(result)
      <4>1. SendmsgZcResult(r.sent, cqe.result) = result
        BY <3>5, Zenon DEF ZcResult, SendmsgZcResult
      <4> QED
        <5>1. CASE r.args.kind = "send_zc"
          BY <3>5, <5>1, OutcomeOf
        <5>2. CASE r.args.kind = "sendmsg_zc"
          BY <4>1, <5>2, OutcomeOf
        <5> QED
          BY <2>2, <5>1, <5>2 DEF ZeroCopy
    <3>7. CASE cqe = Cqe(0, FALSE, "moved", 0) /\ r.sent = << 1 >>
      <4>1. result = 1
        BY <3>5, <3>7 DEF ZcResult
      <4> QED
        BY <3>6, <3>7, <4>1 DEF TransferOutcome, CqeIsOk, Cqe
    <3>8. CASE r.sent = <<>> /\ (cqe = Cqe(-32, FALSE, "failed", 0) \/ cqe = Cqe(-125, FALSE, "failed", 0))
      <4>1. result = cqe.result /\ (cqe.result = -32 \/ cqe.result = -125) /\ cqe.happened = "failed"
        BY <3>5, <3>8 DEF ZcResult, Cqe
      <4> QED
        BY <3>6, <4>1 DEF TransferOutcome, CqeIsOk
    <3> QED
      BY <3>4, <3>7, <3>8, Zenon
  <2> QED
    BY <2>1, <2>2
<1>8. r.args \in Arguments /\ NewError(r.args) = "ok" /\ Len(r.sent) <= 1
  BY SoundPending
<1>9. Sound(t)
  BY <1>3, <1>5, <1>6, <1>7, <1>8 DEF Sound, Active
<1> QED
  BY <1>1, <1>3, <1>5, <1>6, <1>9, Zenon

\* A ticket dropped while the kernel is at work.
LEMMA SoundDropTicket ==
  ASSUME NEW r, Sound(r), r.phase = "pending", r.kernel # "over",
         NEW t, t = [r EXCEPT !.phase = "gone", !.cqes = <<>>]
  PROVE  /\ Sound(t) /\ t.phase = "gone" /\ t.args = r.args /\ t.kernel = r.kernel /\ t.cqes = <<>>
<1>1. /\ r \in RequestState /\ r.args \in Arguments /\ NewError(r.args) = "ok" /\ Len(r.sent) <= 1
      /\ r.kernel \in {"running", "notify"} /\ r.last = <<>> /\ (r.kernel = "notify" => ZeroCopy(r.args))
  BY SoundPending
<1>2. /\ t.phase = "gone" /\ t.args = r.args /\ t.kernel = r.kernel /\ t.cqes = <<>>
      /\ t.sent = r.sent /\ t.last = r.last /\ t \in RequestState
  <2>1. <<>> \in Seq(Completion)
    OBVIOUS
  <2> QED
    BY <1>1, <2>1, Zenon DEF RequestState
<1> QED
  BY <1>1, <1>2 DEF Sound, Active

\* The kernel works for a ticket, or for one that was dropped.
LEMMA SoundWorking ==
  ASSUME NEW r, Sound(r), r.kernel \in {"running", "notify"}
  PROVE  /\ r.phase \in {"pending", "gone"} /\ r \in RequestState /\ r.args \in Arguments
         /\ NewError(r.args) = "ok"
         /\ r.phase = "gone" => r.cqes = <<>> /\ r.last = <<>> /\ Len(r.sent) <= 1
         /\ r.phase = "pending" => \A i \in DOMAIN r.cqes : r.cqes[i].more
<1>1. r \in RequestState /\ r.args \in Arguments /\ NewError(r.args) = "ok"
  BY DEF Sound, Active
<1>2. r.phase \in {"pending", "gone"}
  <2>1. Unused.kernel = "idle"
    BY DEF Unused
  <2> QED
    BY <1>1, <2>1, FieldTypes DEF Sound
<1>3. r.phase = "gone" => r.cqes = <<>> /\ r.last = <<>> /\ Len(r.sent) <= 1
  BY DEF Sound
<1>4. r.phase = "pending" => \A i \in DOMAIN r.cqes : r.cqes[i].more
  BY SoundPending
<1> QED
  BY <1>1, <1>2, <1>3, <1>4, Zenon

\* A completion with which the request will report what happened.
Reports(r, t, cqe) ==
  r.phase = "pending" /\ ~r.missed =>
    IF ZeroCopy(r.args) THEN ZeroCopyProgress(t)
    ELSE ~cqe.more => Outcome(r.args, r.sent, cqe) = cqe.happened

\* A request after a completion, with its ticket or without.
Progressed(r, t, cqe, progress) ==
  /\ r.phase = "pending" => /\ t.phase = "pending" /\ t.args = r.args /\ t.kernel = progress
                            /\ t.cqes = Append(r.cqes, cqe)
  /\ r.phase # "pending" => /\ r.phase = "gone" /\ t.phase = "gone" /\ t.cqes = <<>>
                            /\ IF progress = "over" THEN t = Gone
                               ELSE t.args = r.args /\ t.kernel = progress

\* What posting does.
LEMMA SoundPosted ==
  ASSUME NEW r, Sound(r), r.kernel \in {"running", "notify"}, NEW cqe \in Completion,
         NEW progress \in {"running", "notify", "over"}, ~cqe.more => progress = "over",
         progress = "notify" => ZeroCopy(r.args), NEW t, t = Posted(r, cqe, progress), Reports(r, t, cqe)
  PROVE  Sound(t) /\ Progressed(r, t, cqe, progress)
<1>1. CASE r.phase = "pending"
  <2>1. t = [r EXCEPT !.kernel = progress, !.cqes = Append(@, cqe)]
    BY <1>1, Zenon DEF Posted
  <2>2. ~r.missed => IF ZeroCopy(r.args) THEN ZeroCopyProgress(t)
                     ELSE ~cqe.more => Outcome(r.args, r.sent, cqe) = cqe.happened
    BY <1>1, Zenon DEF Reports
  <2>3. PICK c : c = Append(r.cqes, cqe)
    BY Zenon
  <2>4. /\ c \in Seq(Completion) /\ r.cqes \in Seq(Completion) /\ DOMAIN c = DOMAIN r.cqes \union {Len(r.cqes) + 1}
        /\ \A i \in DOMAIN r.cqes : c[i] = r.cqes[i]
        /\ c[Len(r.cqes) + 1] = cqe /\ Len(c) = Len(r.cqes) + 1
    <3>1. r.cqes \in Seq(Completion)
      BY <1>1, SoundPending, Zenon
    <3> QED
      BY <2>3, <3>1
  <2>5. \A i \in DOMAIN r.cqes : r.cqes[i].more
    BY <1>1, SoundWorking, Zenon
  <2>6. /\ t.phase = "pending" /\ t.args = r.args /\ t.kernel = progress /\ t.cqes = c
        /\ t.sent = r.sent /\ t.last = r.last /\ t.missed = r.missed /\ t \in RequestState
    <3>1. r \in RequestState /\ progress \in {"idle", "running", "notify", "over"}
      BY <1>1, SoundPending
    <3> QED
      BY <1>1, <2>1, <2>3, <2>4, <3>1, Zenon DEF RequestState
  <2>7. /\ t.args \in Arguments /\ NewError(t.args) = "ok" /\ Len(t.sent) <= 1 /\ t.kernel # "idle"
        /\ t.last = <<>> /\ (t.kernel = "notify" => ZeroCopy(t.args))
    BY <1>1, <2>6, SoundPending
  <2>8. \A i \in DOMAIN c : ~c[i].more => i = Len(c) /\ c[i] = cqe
    BY <2>4, <2>5, Zenon
  <2>9. \A i \in DOMAIN t.cqes : ~t.cqes[i].more => i = Len(t.cqes) /\ t.kernel = "over"
    BY <2>6, <2>8, Zenon
  <2>10. ~t.missed => IF ZeroCopy(t.args) THEN ZeroCopyProgress(t)
                     ELSE \A i \in DOMAIN t.cqes : Terminal(t, i) =>
                            Outcome(t.args, t.sent, t.cqes[i]) = t.cqes[i].happened
    BY <2>2, <2>6, <2>8, Zenon DEF Terminal
  <2>11. Sound(t)
    BY <2>6, <2>7, <2>9, <2>10, PendingSound, Zenon
  <2> QED
    BY <1>1, <2>3, <2>6, <2>11, Zenon DEF Progressed
<1>2. CASE r.phase # "pending" /\ progress = "over"
  <2>1. t = Gone /\ r.phase = "gone"
    BY <1>2, SoundWorking, Zenon DEF Posted
  <2>2. Gone.phase = "gone" /\ Gone.cqes = <<>>
    BY DEF Gone, Unused
  <2> QED
    BY <1>2, <2>1, <2>2, SoundEnds, Zenon DEF Progressed
<1>3. CASE r.phase # "pending" /\ progress # "over"
  <2>1. t = [r EXCEPT !.kernel = progress] /\ r.phase = "gone"
    BY <1>3, SoundWorking, Zenon DEF Posted
  <2>2. progress \in {"running", "notify"}
    BY <1>3
  <2>3. /\ r \in RequestState /\ r.args \in Arguments /\ NewError(r.args) = "ok"
        /\ r.cqes = <<>> /\ r.last = <<>> /\ Len(r.sent) <= 1
    BY <2>1, SoundWorking, Zenon
  <2>4. /\ t.phase = "gone" /\ t.args = r.args /\ t.kernel = progress /\ t.cqes = r.cqes
        /\ t.sent = r.sent /\ t.last = r.last /\ t \in RequestState
    <3>1. progress \in {"idle", "running", "notify", "over"}
      OBVIOUS
    <3> QED
      BY <2>1, <2>3, <3>1, Zenon DEF RequestState
  <2> QED
    <3>1. Sound(t)
      BY <2>2, <2>3, <2>4 DEF Sound, Active
    <3> QED
      BY <1>3, <2>1, <2>3, <2>4, <3>1, Zenon DEF Progressed
<1> QED
  BY <1>1, <1>2, <1>3, Zenon

\* What the kernel posts for a zero-copy send.
ZeroCopyPosts(kernel, cqe, progress) ==
  \/ kernel = "running" /\ cqe = Cqe(1, TRUE, "moved", 0) /\ progress = "notify"
  \/ kernel = "running" /\ cqe = Cqe(-32, FALSE, "failed", 0) /\ progress = "over"
  \/ kernel = "running" /\ cqe = Cqe(-125, FALSE, "failed", 0) /\ progress = "over"
  \/ kernel = "notify" /\ cqe = Cqe(0, FALSE, "moved", 0) /\ progress = "over"

\* The steps of a zero-copy send.
LEMMA ZeroCopySteps ==
  ASSUME NEW r, r.kernel \in {"running", "notify"}, ZeroCopyProgress(r), r.cqes \in Seq(Completion),
         NEW cqe \in Completion, NEW t, t.cqes = Append(r.cqes, cqe), t.sent = r.sent,
         ZeroCopyPosts(r.kernel, cqe, t.kernel)
  PROVE  ZeroCopyProgress(t)
<1>1. \A x, y : Append(<<>>, x) = <<x>> /\ Append(<<x>>, y) = <<x, y>>
  <2>1. SUFFICES ASSUME NEW x, NEW y PROVE Append(<<>>, x) = <<x>> /\ Append(<<x>>, y) = <<x, y>>
    BY Zenon
  <2>2. <<>> \in Seq({x, y}) /\ <<x>> \in Seq({x, y}) /\ x \in {x, y} /\ y \in {x, y}
    OBVIOUS
  <2>3. PICK one, two : one = Append(<<>>, x) /\ two = Append(<<x>>, y)
    BY Zenon
  <2>4. /\ one \in Seq({x, y}) /\ Len(one) = 1 /\ one[1] = x
        /\ two \in Seq({x, y}) /\ Len(two) = 2 /\ two[1] = x /\ two[2] = y
    BY <2>2, <2>3
  <2>5. one = <<x>> /\ two = <<x, y>>
    BY <2>4
  <2> QED
    BY <2>3, <2>5, Zenon
<1>2. CASE r.kernel = "running"
  <2>1. r.cqes = <<>> /\ r.sent = <<>>
    BY <1>2, ProgressOf, Zenon
  <2>2. t.cqes = <<cqe>> /\ t.sent = <<>>
    BY <1>1, <2>1, Zenon
  <2> QED
    BY <1>2, <2>2, IsProgress, IsOver, Zenon DEF ZeroCopyPosts
<1>3. CASE r.kernel = "notify"
  <2>1. \/ r.cqes = <<Cqe(1, TRUE, "moved", 0)>> /\ r.sent = <<>>
        \/ r.cqes = <<>> /\ r.sent = << 1 >>
    BY <1>3, ProgressOf, Zenon
  <2>2. \/ t.cqes = <<Cqe(1, TRUE, "moved", 0), cqe>> /\ t.sent = <<>>
        \/ t.cqes = <<cqe>> /\ t.sent = << 1 >>
    BY <1>1, <2>1, Zenon
  <2> QED
    BY <1>3, <2>2, IsOver, Zenon DEF ZeroCopyPosts
<1> QED
  BY <1>2, <1>3

-----------------------------------------------------------------------------
\* Requests among others.

\* t has no storage that r did not have, has nothing staged that r had not, and
\* shows no memory that r did not show.
Follows(r, t) ==
  /\ Active(t) => Active(r) /\ t.args = r.args
  /\ t.phase = "prepared" \/ t.kernel = "running" =>
       t.args = r.args /\ (r.phase = "prepared" \/ r.kernel = "running")
  /\ \A i \in DOMAIN t.cqes : Terminal(t, i) =>
       \/ Shown(t.args, t.cqes[i]) = {}
       \/ t.args = r.args /\ \E j \in DOMAIN r.cqes : Terminal(r, j) /\ r.cqes[j] = t.cqes[i]
  /\ t.phase = "done" =>
       \/ t.args = r.args /\ r.phase = "done" /\ t.last = r.last
       \/ t.args = r.args /\ \E j \in DOMAIN r.cqes : Terminal(r, j) /\ r.cqes[j] = t.last[1]

\* t is with the application if r is.
Stays(r, t) == Active(t) => (t.phase = "gone" <=> r.phase = "gone")

\* A request follows itself.
LEMMA FollowsSelf ==
  ASSUME NEW r
  PROVE  Follows(r, r) /\ Stays(r, r)
BY Zenon DEF Follows, Stays

\* What is left of a request follows it.
LEMMA FollowsGone ==
  ASSUME NEW r
  PROVE  /\ Follows(r, Gone) /\ Stays(r, Gone) /\ ~Active(Gone)
         /\ Gone.cqes = <<>> /\ Gone.phase = "gone" /\ Gone.kernel = "over"
<1>1. Gone.phase = "gone" /\ Gone.kernel = "over" /\ Gone.cqes = <<>>
  BY DEF Gone, Unused
<1> QED
  BY <1>1 DEF Follows, Stays, Active

\* Following keeps the storage,
LEMMA FollowsHas ==
  ASSUME NEW r, NEW t, Follows(r, t), Stays(r, t), NEW n, NEW held, NEW wrapped, Has(r, n, held, wrapped)
  PROVE  Has(t, n, held, wrapped)
BY Zenon DEF Follows, Stays, Has

\* keeps it apart from that of others,
LEMMA FollowsApart ==
  ASSUME NEW r, NEW t, Follows(r, t), NEW r2, NEW t2, Follows(r2, t2), Apart(r, r2)
  PROVE  Apart(t, t2)
BY Zenon DEF Follows, Apart

\* and keeps the memory.
LEMMA FollowsRemembers ==
  ASSUME NEW r, NEW t, Follows(r, t), NEW n, NEW memory, Remembers(r, n, memory)
  PROVE  Remembers(t, n, memory)
<1>1. t.phase = "prepared" \/ t.kernel = "running" =>
        \A i \in DOMAIN Sqe(t.args).parts : \A c \in Sqe(t.args).parts[i].cells :
          memory[c[1]][c[2]] = <<Sqe(t.args).parts[i].tag, n>>
  BY Zenon DEF Follows, Remembers
<1>2. \A i \in DOMAIN t.cqes : Terminal(t, i) => Answers(t.args, t.cqes[i], n, memory)
  <2>1. SUFFICES ASSUME NEW i \in DOMAIN t.cqes, Terminal(t, i) PROVE Answers(t.args, t.cqes[i], n, memory)
    BY Zenon
  <2>2. CASE Shown(t.args, t.cqes[i]) = {}
    BY <2>2, Zenon DEF Answers
  <2>3. CASE t.args = r.args /\ \E j \in DOMAIN r.cqes : Terminal(r, j) /\ r.cqes[j] = t.cqes[i]
    BY <2>3, Zenon DEF Remembers
  <2> QED
    BY <2>1, <2>2, <2>3, Zenon DEF Follows
<1>3. t.phase = "done" => Answers(t.args, t.last[1], n, memory)
  BY Zenon DEF Follows, Remembers
<1> QED
  BY <1>1, <1>2, <1>3, Zenon DEF Remembers

\* An accepted request is one the API can build.
LEMMA Accepted ==
  ASSUME NEW r, Sound(r), Active(r)
  PROVE  r.args \in Arguments /\ WellFormed(r.args) /\ NewError(r.args) = "ok"
BY StagedAssumption, Zenon DEF Sound

\* Only requests that have their storage remember anything.
LEMMA OnlyActive ==
  ASSUME NEW r, Sound(r)
  PROVE  /\ r.phase \in {"prepared", "done"} \/ r.kernel = "running" => Active(r)
         /\ \A i \in DOMAIN r.cqes : Active(r)
<1>1. ~Active(r) => r \in {Unused, Gone}
  BY Zenon DEF Sound
<1>2. Unused.cqes = <<>> /\ Gone.cqes = <<>>
  BY DEF Unused, Gone
<1>3. ~Active(r) => r.cqes = <<>>
  BY <1>1, <1>2, Zenon
<1>4. DOMAIN <<>> = {}
  OBVIOUS
<1>5. r.phase \in {"prepared", "done"} \/ r.kernel = "running" => Active(r)
  BY Zenon DEF Active
<1> QED
  BY <1>3, <1>4, <1>5, Zenon

\* A change of memory that is not the request's does not matter to it.
LEMMA SameMemory ==
  ASSUME NEW r, Sound(r), NEW n, NEW memory, Remembers(r, n, memory), NEW memory2,
         Active(r) => \A s \in Scratch(r.args) : memory2[s] = memory[s]
  PROVE  Remembers(r, n, memory2)
<1>1. ASSUME r.phase = "prepared" \/ r.kernel = "running",
             NEW i \in DOMAIN Sqe(r.args).parts, NEW c \in Sqe(r.args).parts[i].cells
      PROVE  memory2[c[1]][c[2]] = <<Sqe(r.args).parts[i].tag, n>>
  <2>1. Active(r)
    BY <1>1, OnlyActive, Zenon
  <2>2. Fitting(r.args, Sqe(r.args))
    BY <2>1, Accepted, EntryFits, Zenon
  <2>3. c \in Inside(r.args)
    BY <2>2, Zenon DEF Fitting
  <2>4. PICK s \in Scratch(r.args) : c \in Cells(s)
    BY <2>3, Zenon DEF Inside
  <2>5. c[1] = s
    BY <2>4 DEF Cells, Span
  <2>6. memory[c[1]][c[2]] = <<Sqe(r.args).parts[i].tag, n>>
    BY <1>1, Zenon DEF Remembers
  <2> QED
    BY <2>1, <2>4, <2>5, <2>6, Zenon
<1>2. ASSUME NEW cqe, Active(r), Answers(r.args, cqe, n, memory)
      PROVE  Answers(r.args, cqe, n, memory2)
  BY <1>2, Zenon DEF Answers
<1>3. \A i \in DOMAIN r.cqes : Terminal(r, i) => Answers(r.args, r.cqes[i], n, memory2)
  BY <1>2, OnlyActive, Zenon DEF Remembers
<1>4. r.phase = "done" => Answers(r.args, r.last[1], n, memory2)
  <2>1. r.phase = "done" => Active(r)
    BY Zenon DEF Active
  <2> QED
    BY <1>2, <2>1, Zenon DEF Remembers
<1> QED
  BY <1>1, <1>3, <1>4, Zenon DEF Remembers

\* Steps that leave the storages alone and that every request follows.
LEMMA Kept ==
  ASSUME StagedInv, UNCHANGED <<mem, paths, holder>>, DOMAIN req' = RequestId, DescriptorInv',
         \A m \in RequestId : Sound(req'[m]) /\ Follows(req[m], req'[m]) /\ Stays(req[m], req'[m])
  PROVE  StagedInv'
<1>1. mem' = mem /\ paths' = paths /\ holder' = holder
  BY Zenon
<1>2. \A n \in RequestId : Has(req[n], n, holder, paths)
  BY Zenon DEF StagedInv, HeldInv
<1>3. \A n, m \in RequestId : n # m => Apart(req[n], req[m])
  BY Zenon DEF StagedInv, HeldInv
<1>4. ASSUME NEW n \in RequestId PROVE Has(req'[n], n, holder', paths')
  <2>1. Has(req[n], n, holder, paths) /\ Follows(req[n], req'[n]) /\ Stays(req[n], req'[n])
    BY <1>2, Zenon
  <2>2. Has(req'[n], n, holder, paths)
    BY <2>1, FollowsHas
  <2> QED
    BY <1>1, <2>2, Zenon
<1>5. \A n, m \in RequestId : n # m => Apart(req'[n], req'[m])
  BY <1>3, FollowsApart, Zenon
<1>6. \A n \in RequestId : Remembers(req'[n], n, mem')
  <2>1. \A n \in RequestId : Remembers(req[n], n, mem)
    BY Zenon DEF StagedInv, MemoryInv
  <2> QED
    BY <1>1, <2>1, FollowsRemembers, Zenon
<1>7. HeldInv' /\ MemoryInv'
  BY <1>4, <1>5, <1>6, Zenon DEF HeldInv, MemoryInv
<1>8. PathsInv'
  BY <1>1, Zenon DEF StagedInv, PathsInv
<1> QED
  BY <1>1, <1>7, <1>8, Zenon DEF StagedInv

\* The same where one request changes.
LEMMA KeptOne ==
  ASSUME StagedInv, NEW n \in RequestId, UNCHANGED <<mem, paths, holder>>, DOMAIN req' = RequestId,
         \A m \in RequestId : m # n => req'[m] = req[m], DescriptorInv',
         Sound(req'[n]), Follows(req[n], req'[n]), Stays(req[n], req'[n])
  PROVE  StagedInv'
<1>1. \A m \in RequestId : Sound(req[m])
  BY Zenon DEF StagedInv
<1>2. \A m \in RequestId : Sound(req'[m]) /\ Follows(req[m], req'[m]) /\ Stays(req[m], req'[m])
  BY <1>1, FollowsSelf, Zenon
<1> QED
  BY <1>2, Kept, Zenon

-----------------------------------------------------------------------------
\* Descriptors.

\* A request that brings none.
LEMMA BringsNone ==
  ASSUME NEW r, r.phase # "pending" \/ ~Installs(r.args) \/ r.cqes = <<>>
  PROVE  Waiting(r) = {} /\ Distinct(r)
<1>1. DOMAIN <<>> = {}
  OBVIOUS
<1>2. \A i : ~Brings(r, i)
  BY <1>1, Zenon DEF Brings
<1> QED
  BY <1>2, Zenon DEF Waiting, Distinct

\* One more completion.
LEMMA BringsMore ==
  ASSUME NEW r, NEW t, r.phase = "pending", t.phase = "pending", t.args = r.args,
         r.cqes \in Seq(Completion), NEW cqe \in Completion, t.cqes = Append(r.cqes, cqe), Distinct(r)
  PROVE  /\ ~Installs(r.args) \/ cqe.result < 0 => Waiting(t) = Waiting(r) /\ Distinct(t)
         /\ Installs(r.args) /\ cqe.result >= 0 /\ cqe.result \notin Waiting(r) =>
              Waiting(t) = Waiting(r) \union {cqe.result} /\ Distinct(t)
<1>1. PICK k : k = Len(r.cqes) + 1
  BY Zenon
<1>2. PICK c : c = t.cqes
  BY Zenon
<1>3. /\ DOMAIN c = DOMAIN r.cqes \union {k} /\ k \notin DOMAIN r.cqes
      /\ \A i \in DOMAIN r.cqes : c[i] = r.cqes[i]
      /\ c[k] = cqe
  BY <1>1, <1>2
<1>4. \A i \in DOMAIN r.cqes : Brings(t, i) <=> Brings(r, i)
  BY <1>2, <1>3, Zenon DEF Brings
<1>5. Brings(t, k) <=> Installs(r.args) /\ cqe.result >= 0
  BY <1>2, <1>3, Zenon DEF Brings
<1>6. \A i : Brings(t, i) => i \in DOMAIN r.cqes \/ i = k
  BY <1>2, <1>3, Zenon DEF Brings
<1>7. CASE ~(Installs(r.args) /\ cqe.result >= 0)
  <2>1. \A i : Brings(t, i) <=> Brings(r, i)
    BY <1>4, <1>5, <1>6, <1>7, Zenon DEF Brings
  <2>2. \A i : Brings(r, i) => i \in DOMAIN r.cqes /\ i \in DOMAIN t.cqes /\ t.cqes[i] = r.cqes[i]
    BY <1>2, <1>3, Zenon DEF Brings
  <2>3. Waiting(t) = Waiting(r)
    BY <2>1, <2>2, Zenon DEF Waiting
  <2>4. Distinct(t)
    BY <2>1, <2>2, Zenon DEF Distinct
  <2> QED
    BY <1>7, <2>3, <2>4, Zenon
<1>8. CASE Installs(r.args) /\ cqe.result >= 0
  <2>1. ~(cqe.result < 0)
    <3>1. cqe.result \in Int
      BY DEF Completion
    <3> QED
      BY <1>8, <3>1
  <2>2. Brings(t, k)
    BY <1>5, <1>8, Zenon
  <2>3. Waiting(t) = Waiting(r) \union {cqe.result}
    <3>1. ASSUME NEW fd \in Waiting(t) PROVE fd \in Waiting(r) \union {cqe.result}
      <4>1. PICK i \in DOMAIN t.cqes : Brings(t, i) /\ t.cqes[i].result = fd
        BY Zenon DEF Waiting
      <4>2. CASE i \in DOMAIN r.cqes
        BY <1>2, <1>3, <1>4, <4>1, <4>2, Zenon DEF Waiting
      <4>3. CASE i = k
        BY <1>2, <1>3, <4>1, <4>3, Zenon
      <4> QED
        BY <1>6, <4>1, <4>2, <4>3, Zenon
    <3>2. ASSUME NEW fd \in Waiting(r) PROVE fd \in Waiting(t)
      <4>1. PICK i \in DOMAIN r.cqes : Brings(r, i) /\ r.cqes[i].result = fd
        BY Zenon DEF Waiting
      <4>2. i \in DOMAIN t.cqes /\ Brings(t, i) /\ t.cqes[i].result = fd
        BY <1>2, <1>3, <1>4, <4>1, Zenon
      <4> QED
        BY <4>2, Zenon DEF Waiting
    <3>3. cqe.result \in Waiting(t)
      <4>1. k \in DOMAIN t.cqes /\ t.cqes[k].result = cqe.result
        BY <1>2, <1>3, Zenon
      <4> QED
        BY <2>2, <4>1, Zenon DEF Waiting
    <3> QED
      BY <3>1, <3>2, <3>3, Zenon
  <2>4. ASSUME cqe.result \notin Waiting(r), NEW i \in DOMAIN t.cqes, NEW j \in DOMAIN t.cqes,
               Brings(t, i), Brings(t, j), t.cqes[i].result = t.cqes[j].result
        PROVE  i = j
    <3>1. CASE i \in DOMAIN r.cqes /\ j \in DOMAIN r.cqes
      BY <1>2, <1>3, <1>4, <2>4, <3>1, Zenon DEF Distinct
    <3>2. CASE i \in DOMAIN r.cqes /\ j = k
      BY <1>2, <1>3, <1>4, <2>4, <3>2, Zenon DEF Waiting
    <3>3. CASE i = k /\ j \in DOMAIN r.cqes
      BY <1>2, <1>3, <1>4, <2>4, <3>3, Zenon DEF Waiting
    <3> QED
      BY <1>6, <2>4, <3>1, <3>2, <3>3, Zenon
  <2>5. cqe.result \notin Waiting(r) => Distinct(t)
    BY <2>4, Zenon DEF Distinct
  <2> QED
    BY <1>8, <2>1, <2>3, <2>5, Zenon
<1> QED
  BY <1>7, <1>8, Zenon

\* The oldest completion taken.
LEMMA BringsRest ==
  ASSUME NEW r, NEW t, r.phase = "pending", t.phase = "pending", t.args = r.args,
         r.cqes \in Seq(Completion), r.cqes # <<>>, t.cqes = Tail(r.cqes), Distinct(r)
  PROVE  /\ Distinct(t)
         /\ Waiting(t) = IF Brings(r, 1) THEN Waiting(r) \ {Head(r.cqes).result} ELSE Waiting(r)
<1>1. PICK c : c = t.cqes
  BY Zenon
<1>2. /\ 1 \in DOMAIN r.cqes /\ Head(r.cqes) = r.cqes[1]
      /\ \A i \in DOMAIN c : i + 1 \in DOMAIN r.cqes /\ c[i] = r.cqes[i + 1]
      /\ \A i \in DOMAIN r.cqes : i # 1 => i - 1 \in DOMAIN c /\ c[i - 1] = r.cqes[i]
  <2>1. /\ 1 \in DOMAIN r.cqes /\ Head(r.cqes) = r.cqes[1]
        /\ \A i \in DOMAIN Tail(r.cqes) : i + 1 \in DOMAIN r.cqes /\ Tail(r.cqes)[i] = r.cqes[i + 1]
        /\ \A i \in DOMAIN r.cqes :
             i # 1 => i - 1 \in DOMAIN Tail(r.cqes) /\ Tail(r.cqes)[i - 1] = r.cqes[i]
    BY HeadAndTail, Zenon
  <2> QED
    BY <1>1, <2>1, Zenon
<1>3. /\ \A i \in DOMAIN c : i + 1 # 1 /\ (\A j \in DOMAIN c : i + 1 = j + 1 => i = j)
      /\ DOMAIN c \subseteq Nat
  <2>1. DOMAIN c \subseteq Nat \ {0}
    BY <1>1
  <2> QED
    BY <2>1
<1>4. \A i \in DOMAIN c : Brings(t, i) <=> Brings(r, i + 1)
  BY <1>1, <1>2, Zenon DEF Brings
<1>5. Distinct(t)
  <2>1. ASSUME NEW i \in DOMAIN c, NEW j \in DOMAIN c, Brings(t, i), Brings(t, j), c[i].result = c[j].result
        PROVE  i = j
    <3>1. /\ i + 1 \in DOMAIN r.cqes /\ j + 1 \in DOMAIN r.cqes /\ Brings(r, i + 1) /\ Brings(r, j + 1)
          /\ r.cqes[i + 1].result = r.cqes[j + 1].result
      BY <1>2, <1>4, <2>1, Zenon
    <3>2. i + 1 = j + 1
      BY <3>1, Zenon DEF Distinct
    <3> QED
      BY <1>3, <3>2, Zenon
  <2> QED
    BY <1>1, <2>1, Zenon DEF Distinct
<1>6. \A fd : fd \in Waiting(t) <=> \E i \in DOMAIN r.cqes : i # 1 /\ Brings(r, i) /\ r.cqes[i].result = fd
  <2>1. ASSUME NEW fd \in Waiting(t) PROVE \E i \in DOMAIN r.cqes : i # 1 /\ Brings(r, i) /\ r.cqes[i].result = fd
    <3>1. PICK i \in DOMAIN c : Brings(t, i) /\ c[i].result = fd
      BY <1>1, Zenon DEF Waiting
    <3> QED
      BY <1>2, <1>3, <1>4, <3>1, Zenon
  <2>2. ASSUME NEW i \in DOMAIN r.cqes, i # 1, Brings(r, i) PROVE r.cqes[i].result \in Waiting(t)
    <3>1. i - 1 \in DOMAIN c /\ c[i - 1] = r.cqes[i]
      BY <1>2, <2>2, Zenon
    <3>2. Brings(t, i - 1)
      BY <1>1, <2>2, <3>1, Zenon DEF Brings
    <3> QED
      BY <1>1, <3>1, <3>2, Zenon DEF Waiting
  <2> QED
    BY <2>1, <2>2, Zenon
<1>7. \A fd : fd \in Waiting(r) <=> \E i \in DOMAIN r.cqes : Brings(r, i) /\ r.cqes[i].result = fd
  BY Zenon DEF Waiting
<1>8. \A i \in DOMAIN r.cqes : Brings(r, i) /\ Brings(r, 1) /\ r.cqes[i].result = r.cqes[1].result => i = 1
  BY <1>2, Zenon DEF Distinct
<1>9. CASE Brings(r, 1)
  <2>1. \A fd : fd \in Waiting(t) <=> fd \in Waiting(r) /\ fd # r.cqes[1].result
    <3>1. ASSUME NEW fd \in Waiting(t) PROVE fd \in Waiting(r) /\ fd # r.cqes[1].result
      <4>1. PICK i \in DOMAIN r.cqes : i # 1 /\ Brings(r, i) /\ r.cqes[i].result = fd
        BY <1>6, Zenon
      <4> QED
        BY <1>7, <1>8, <1>9, <4>1, Zenon
    <3>2. ASSUME NEW fd \in Waiting(r), fd # r.cqes[1].result PROVE fd \in Waiting(t)
      <4>1. PICK i \in DOMAIN r.cqes : Brings(r, i) /\ r.cqes[i].result = fd
        BY <1>7, Zenon
      <4> QED
        BY <1>6, <3>2, <4>1, Zenon
    <3> QED
      BY <3>1, <3>2, Zenon
  <2>2. Waiting(t) = Waiting(r) \ {Head(r.cqes).result}
    BY <1>2, <2>1, Zenon
  <2> QED
    BY <1>5, <1>9, <2>2, Zenon
<1>10. CASE ~Brings(r, 1)
  <2>1. \A fd : fd \in Waiting(t) <=> fd \in Waiting(r)
    BY <1>6, <1>7, <1>10, Zenon
  <2>2. Waiting(t) = Waiting(r)
    BY <2>1, Zenon
  <2> QED
    BY <1>5, <1>10, <2>2, Zenon
<1> QED
  BY <1>9, <1>10, Zenon

\* A File or Socket made from a completion.
LEMMA AccountedClaim ==
  ASSUME NEW open, NEW objects, NEW gone, NEW waiting, NEW waiting2, NEW n \in RequestId, NEW fd,
         Accounted(open, objects, gone, waiting), fd \in waiting[n],
         \A m \in RequestId : waiting2[m] = IF m = n THEN waiting[n] \ {fd} ELSE waiting[m]
  PROVE  Accounted(open, objects \union {<<fd, n>>}, gone, waiting2)
<1>1. fd \in open \ gone /\ fd \in Fd /\ \A f \in objects : f[1] # fd
  BY DEF Accounted
<1>2. PICK file : file = <<fd, n>>
  BY Zenon
<1>3. file[1] = fd /\ file \in Fd \X RequestId
  BY <1>1, <1>2
<1>4. /\ gone \subseteq open /\ open \subseteq Fd /\ objects \union {file} \subseteq Fd \X RequestId
      /\ \A f \in objects \union {file} : f[1] \in open \ gone
      /\ \A f, g \in objects \union {file} : f[1] = g[1] => f = g
  BY <1>1, <1>3 DEF Accounted
<1>5. \A m \in RequestId : waiting2[m] \subseteq open \ gone
  BY DEF Accounted
<1>6. \A m \in RequestId, f \in objects \union {file} : f[1] \notin waiting2[m]
  BY <1>3 DEF Accounted
<1>7. \A m, k \in RequestId : m # k => waiting2[m] \intersect waiting2[k] = {}
  BY DEF Accounted
<1>8. \A x \in open \ gone :
        (\E f \in objects \union {file} : f[1] = x) \/ (\E m \in RequestId : x \in waiting2[m])
  BY <1>3 DEF Accounted
<1>9. Accounted(open, objects \union {file}, gone, waiting2)
  BY <1>4, <1>5, <1>6, <1>7, <1>8, Zenon DEF Accounted
<1> QED
  BY <1>2, <1>9, Zenon

\* Completions that nobody will redeem.
LEMMA AccountedLoss ==
  ASSUME NEW open, NEW objects, NEW gone, NEW waiting, NEW waiting2, NEW n \in RequestId, NEW more,
         Accounted(open, objects, gone, waiting), more \subseteq waiting[n],
         \A m \in RequestId : waiting2[m] = IF m = n THEN waiting[n] \ more ELSE waiting[m]
  PROVE  Accounted(open, objects, gone \union more, waiting2)
<1>1. PICK gone2 : gone2 = gone \union more
  BY Zenon
<1>2. /\ gone2 \subseteq open /\ \A f \in objects : f[1] \in open \ gone2
  BY <1>1 DEF Accounted
<1>3. \A m \in RequestId : waiting2[m] \subseteq open \ gone2
  BY <1>1 DEF Accounted
<1>4. \A m \in RequestId, f \in objects : f[1] \notin waiting2[m]
  BY DEF Accounted
<1>5. \A m, k \in RequestId : m # k => waiting2[m] \intersect waiting2[k] = {}
  BY DEF Accounted
<1>6. \A x \in open \ gone2 :
        (\E f \in objects : f[1] = x) \/ (\E m \in RequestId : x \in waiting2[m])
  BY <1>1 DEF Accounted
<1>7. /\ open \subseteq Fd /\ objects \subseteq Fd \X RequestId
      /\ \A f, g \in objects : f[1] = g[1] => f = g
  BY Zenon DEF Accounted
<1>8. Accounted(open, objects, gone2, waiting2)
  BY <1>2, <1>3, <1>4, <1>5, <1>6, <1>7, Zenon DEF Accounted
<1> QED
  BY <1>1, <1>8, Zenon

\* A new descriptor in a completion.
LEMMA AccountedOpening ==
  ASSUME NEW open, NEW objects, NEW gone, NEW waiting, NEW waiting2, NEW n \in RequestId,
         NEW fd, fd \in Fd, fd \notin open, Accounted(open, objects, gone, waiting),
         \A m \in RequestId : waiting2[m] = IF m = n THEN waiting[n] \union {fd} ELSE waiting[m]
  PROVE  Accounted(open \union {fd}, objects, gone, waiting2)
<1>1. PICK open2 : open2 = open \union {fd}
  BY Zenon
<1>2. /\ fd \notin gone /\ (\A m \in RequestId : fd \notin waiting[m]) /\ \A f \in objects : f[1] # fd
      /\ open2 \subseteq Fd /\ objects \subseteq Fd \X RequestId
      /\ \A f, g \in objects : f[1] = g[1] => f = g
  BY <1>1 DEF Accounted
<1>3. gone \subseteq open2 /\ \A f \in objects : f[1] \in open2 \ gone
  BY <1>1 DEF Accounted
<1>4. \A m \in RequestId : waiting2[m] \subseteq open2 \ gone
  BY <1>1, <1>2 DEF Accounted
<1>5. \A m \in RequestId, f \in objects : f[1] \notin waiting2[m]
  BY <1>2 DEF Accounted
<1>6. \A m, k \in RequestId : m # k => waiting2[m] \intersect waiting2[k] = {}
  BY <1>2 DEF Accounted
<1>7. \A x \in open2 \ gone :
        (\E f \in objects : f[1] = x) \/ (\E m \in RequestId : x \in waiting2[m])
  BY <1>1 DEF Accounted
<1>8. Accounted(open2, objects, gone, waiting2)
  BY <1>2, <1>3, <1>4, <1>5, <1>6, <1>7, Zenon DEF Accounted
<1> QED
  BY <1>1, <1>8, Zenon

\* A new descriptor that nobody will have.
LEMMA AccountedLeak ==
  ASSUME NEW open, NEW objects, NEW gone, NEW waiting, NEW waiting2, NEW fd, fd \in Fd, fd \notin open,
         Accounted(open, objects, gone, waiting), \A m \in RequestId : waiting2[m] = waiting[m]
  PROVE  Accounted(open \union {fd}, objects, gone \union {fd}, waiting2)
<1>1. PICK open2, gone2 : open2 = open \union {fd} /\ gone2 = gone \union {fd}
  BY Zenon
<1>2. gone2 \subseteq open2 /\ open2 \ gone2 = open \ gone /\ open2 \subseteq Fd
  BY <1>1 DEF Accounted
<1>3. Accounted(open2, objects, gone2, waiting2)
  BY <1>2 DEF Accounted
<1> QED
  BY <1>1, <1>3, Zenon

\* A descriptor closed.
LEMMA AccountedClose ==
  ASSUME NEW open, NEW objects, NEW gone, NEW waiting, NEW file \in objects,
         Accounted(open, objects, gone, waiting)
  PROVE  Accounted(open \ {file[1]}, objects \ {file}, gone, waiting)
<1>1. PICK open2, objects2 : open2 = open \ {file[1]} /\ objects2 = objects \ {file}
  BY Zenon
<1>2. gone \subseteq open2 /\ \A f \in objects2 : f[1] \in open2 \ gone
  BY <1>1 DEF Accounted
<1>3. \A m \in RequestId : waiting[m] \subseteq open2 \ gone
  BY <1>1 DEF Accounted
<1>4. /\ open2 \subseteq Fd /\ objects2 \subseteq Fd \X RequestId
      /\ \A f, g \in objects2 : f[1] = g[1] => f = g
      /\ \A m \in RequestId, f \in objects2 : f[1] \notin waiting[m]
      /\ \A m, k \in RequestId : m # k => waiting[m] \intersect waiting[k] = {}
  BY <1>1 DEF Accounted
<1>5. \A x \in open2 \ gone :
        (\E f \in objects2 : f[1] = x) \/ (\E m \in RequestId : x \in waiting[m])
  BY <1>1 DEF Accounted
<1>6. Accounted(open2, objects2, gone, waiting)
  BY <1>2, <1>3, <1>4, <1>5, Zenon DEF Accounted
<1> QED
  BY <1>1, <1>6, Zenon

\* Steps in which no descriptor changes hands.
LEMMA SameDescriptors ==
  ASSUME DescriptorInv, UNCHANGED <<fds, files, lost>>,
         \A m \in RequestId : Waiting(req'[m]) = Waiting(req[m]) /\ Distinct(req'[m])
  PROVE  DescriptorInv'
<1>1. [n \in RequestId |-> Waiting(req'[n])] = [n \in RequestId |-> Waiting(req[n])]
  BY Zenon
<1>2. fds' = fds /\ files' = files /\ lost' = lost
  BY Zenon
<1> QED
  BY <1>1, <1>2, Zenon DEF DescriptorInv

\* The same where one request changes.
LEMMA SameDescriptorsOne ==
  ASSUME DescriptorInv, UNCHANGED <<fds, files, lost>>, NEW n \in RequestId,
         \A m \in RequestId : m # n => req'[m] = req[m],
         Waiting(req'[n]) = Waiting(req[n]), Distinct(req'[n])
  PROVE  DescriptorInv'
<1>1. \A m \in RequestId : Distinct(req[m])
  BY Zenon DEF DescriptorInv
<1>2. \A m \in RequestId : Waiting(req'[m]) = Waiting(req[m]) /\ Distinct(req'[m])
  BY <1>1, Zenon
<1> QED
  BY <1>2, SameDescriptors, Zenon

\* One request's descriptors change.
LEMMA OneWaiting ==
  ASSUME DescriptorInv, NEW n \in RequestId, \A m \in RequestId : m # n => req'[m] = req[m],
         Distinct(req'[n]), NEW waiting, waiting = [m \in RequestId |-> Waiting(req[m])],
         NEW waiting2, waiting2 = [m \in RequestId |-> Waiting(req'[m])]
  PROVE  /\ waiting[n] = Waiting(req[n]) /\ Accounted(fds, files, lost, waiting)
         /\ \A m \in RequestId : waiting2[m] = IF m = n THEN Waiting(req'[n]) ELSE waiting[m]
         /\ Accounted(fds', files', lost', waiting2) => DescriptorInv'
<1>1. \A m \in RequestId : Distinct(req'[m])
  BY Zenon DEF DescriptorInv
<1>2. \A m \in RequestId : waiting[m] = Waiting(req[m]) /\ waiting2[m] = Waiting(req'[m])
  BY Zenon
<1>3. Accounted(fds, files, lost, waiting)
  BY Zenon DEF DescriptorInv
<1>4. Accounted(fds', files', lost', waiting2) => DescriptorInv'
  BY <1>1, Zenon DEF DescriptorInv
<1> QED
  BY <1>2, <1>3, <1>4, Zenon

\* A File or Socket made from a completion.
LEMMA ClaimedDescriptor ==
  ASSUME DescriptorInv, NEW n \in RequestId, NEW fd, fd \in Waiting(req[n]),
         \A m \in RequestId : m # n => req'[m] = req[m],
         Waiting(req'[n]) = Waiting(req[n]) \ {fd}, Distinct(req'[n]),
         files' = files \union {<<fd, n>>}, UNCHANGED <<fds, lost>>
  PROVE  DescriptorInv'
<1>1. PICK waiting, waiting2 : /\ waiting = [m \in RequestId |-> Waiting(req[m])]
                               /\ waiting2 = [m \in RequestId |-> Waiting(req'[m])]
  BY Zenon
<1>2. /\ waiting[n] = Waiting(req[n]) /\ Accounted(fds, files, lost, waiting)
      /\ \A m \in RequestId : waiting2[m] = IF m = n THEN waiting[n] \ {fd} ELSE waiting[m]
      /\ Accounted(fds', files', lost', waiting2) => DescriptorInv'
  BY <1>1, OneWaiting, Zenon
<1>3. Accounted(fds, files \union {<<fd, n>>}, lost, waiting2)
  BY <1>2, AccountedClaim, ZenonT(30)
<1> QED
  BY <1>2, <1>3, Zenon

\* Completions that nobody will redeem.
LEMMA LostDescriptors ==
  ASSUME DescriptorInv, NEW n \in RequestId, NEW gone, gone \subseteq Waiting(req[n]),
         \A m \in RequestId : m # n => req'[m] = req[m],
         Waiting(req'[n]) = Waiting(req[n]) \ gone, Distinct(req'[n]),
         lost' = lost \union gone, UNCHANGED <<fds, files>>
  PROVE  DescriptorInv'
<1>1. PICK waiting, waiting2 : /\ waiting = [m \in RequestId |-> Waiting(req[m])]
                               /\ waiting2 = [m \in RequestId |-> Waiting(req'[m])]
  BY Zenon
<1>2. /\ waiting[n] = Waiting(req[n]) /\ Accounted(fds, files, lost, waiting)
      /\ \A m \in RequestId : waiting2[m] = IF m = n THEN waiting[n] \ gone ELSE waiting[m]
      /\ Accounted(fds', files', lost', waiting2) => DescriptorInv'
  BY <1>1, OneWaiting, Zenon
<1>3. gone \subseteq waiting[n]
  BY <1>2, Zenon
<1>4. Accounted(fds, files, lost \union gone, waiting2)
  BY <1>2, <1>3, AccountedLoss
<1> QED
  BY <1>2, <1>4, Zenon

\* A new descriptor, in a completion or without anybody to have it.
LEMMA OpenedDescriptor ==
  ASSUME DescriptorInv, NEW n \in RequestId, NEW fd, fd \in Fd, fd \notin fds,
         fds' = fds \union {fd}, files' = files,
         \A m \in RequestId : m # n => req'[m] = req[m], Distinct(req'[n]),
         \/ Waiting(req'[n]) = Waiting(req[n]) \union {fd} /\ lost' = lost
         \/ Waiting(req'[n]) = Waiting(req[n]) /\ lost' = lost \union {fd}
  PROVE  DescriptorInv'
<1>1. PICK waiting, waiting2 : /\ waiting = [m \in RequestId |-> Waiting(req[m])]
                               /\ waiting2 = [m \in RequestId |-> Waiting(req'[m])]
  BY Zenon
<1>2. /\ waiting[n] = Waiting(req[n]) /\ Accounted(fds, files, lost, waiting)
      /\ \A m \in RequestId : waiting2[m] = IF m = n THEN Waiting(req'[n]) ELSE waiting[m]
      /\ Accounted(fds', files', lost', waiting2) => DescriptorInv'
  BY <1>1, OneWaiting, Zenon
<1>3. CASE Waiting(req'[n]) = Waiting(req[n]) \union {fd} /\ lost' = lost
  <2>1. \A m \in RequestId : waiting2[m] = IF m = n THEN waiting[n] \union {fd} ELSE waiting[m]
    BY <1>2, <1>3, Zenon
  <2>2. Accounted(fds \union {fd}, files, lost, waiting2)
    BY <1>2, <2>1, AccountedOpening, ZenonT(30)
  <2> QED
    BY <1>2, <1>3, <2>2, Zenon
<1>4. CASE Waiting(req'[n]) = Waiting(req[n]) /\ lost' = lost \union {fd}
  <2>1. \A m \in RequestId : waiting2[m] = waiting[m]
    BY <1>2, <1>4, Zenon
  <2>2. Accounted(fds \union {fd}, files, lost \union {fd}, waiting2)
    BY <1>2, <2>1, AccountedLeak
  <2> QED
    BY <1>2, <1>4, <2>2, Zenon
<1> QED
  BY <1>3, <1>4

-----------------------------------------------------------------------------
\* The operations on a ticket.

\* One request replaced.
LEMMA Replaced ==
  ASSUME StagedInv, NEW n \in RequestId, NEW t, req' = [req EXCEPT ![n] = t]
  PROVE  /\ DOMAIN req' = RequestId /\ req'[n] = t
         /\ \A m \in RequestId : m # n => req'[m] = req[m]
<1>1. DOMAIN req = RequestId
  BY Zenon DEF StagedInv
<1> QED
  BY <1>1

\* A pushed request has what it had.
LEMMA FollowsPush ==
  ASSUME NEW r, NEW t, r.phase = "prepared", t.phase = "pending", t.args = r.args, t.cqes = <<>>
  PROVE  Follows(r, t) /\ Stays(r, t)
BY DEF Follows, Stays, Active

\* A ticket whose oldest completion was taken has what it had.
LEMMA FollowsRest ==
  ASSUME NEW r, NEW t, r.phase = "pending", t.phase = "pending", t.args = r.args, t.kernel = r.kernel,
         r.cqes \in Seq(Completion), r.cqes # <<>>, t.cqes = Tail(r.cqes)
  PROVE  Follows(r, t) /\ Stays(r, t)
<1>1. \A i \in DOMAIN Tail(r.cqes) : i + 1 \in DOMAIN r.cqes /\ Tail(r.cqes)[i] = r.cqes[i + 1]
  BY HeadAndTail, Zenon
<1>2. \A i \in DOMAIN t.cqes : i + 1 \in DOMAIN r.cqes /\ t.cqes[i] = r.cqes[i + 1]
  BY <1>1, Zenon
<1>3. \A i \in DOMAIN t.cqes : Terminal(t, i) =>
        \E j \in DOMAIN r.cqes : Terminal(r, j) /\ r.cqes[j] = t.cqes[i]
  BY <1>2, Zenon DEF Terminal
<1>4. Active(r) /\ t.phase \notin {"prepared", "done", "gone"} /\ r.phase # "gone"
  BY DEF Active
<1> QED
  BY <1>3, <1>4, Zenon DEF Follows, Stays

\* A completed request shows what its completion answered.
LEMMA FollowsRedeem ==
  ASSUME NEW r, NEW t, r.phase = "pending", t.phase = "done", t.kernel = "over", t.args = r.args,
         t.cqes = <<>>, r.cqes \in Seq(Completion), r.cqes # <<>>, ~Head(r.cqes).more, t.last[1] = Head(r.cqes)
  PROVE  Follows(r, t) /\ Stays(r, t)
<1>1. 1 \in DOMAIN r.cqes /\ Head(r.cqes) = r.cqes[1]
  BY HeadAndTail, Zenon
<1>2. Terminal(r, 1) /\ r.cqes[1] = t.last[1]
  BY <1>1, Zenon DEF Terminal
<1>3. Active(r) /\ t.phase \notin {"prepared", "gone"} /\ r.phase # "gone" /\ t.kernel # "running"
  BY DEF Active
<1>4. DOMAIN t.cqes = {}
  OBVIOUS
<1> QED
  BY <1>1, <1>2, <1>3, <1>4, Zenon DEF Follows, Stays

\* A request that the kernel answered without showing anything.
LEMMA FollowsPosted ==
  ASSUME NEW r, Sound(r), r.kernel \in {"running", "notify"}, NEW t, NEW cqe \in Completion, NEW progress,
         Progressed(r, t, cqe, progress),
         progress = "running" => r.kernel = "running", cqe.more \/ Shown(r.args, cqe) = {}
  PROVE  Follows(r, t) /\ Stays(r, t)
<1>1. Active(r)
  BY DEF Active
<1>2. CASE r.phase = "pending"
  <2>1. PICK c : c = Append(r.cqes, cqe)
    BY Zenon
  <2>2. \A i \in DOMAIN c : (i \in DOMAIN r.cqes /\ c[i] = r.cqes[i]) \/ c[i] = cqe
    <3>1. r.cqes \in Seq(Completion)
      BY <1>2, SoundPending, Zenon
    <3> QED
      BY <2>1, <3>1
  <2>3. t.phase = "pending" /\ t.args = r.args /\ t.kernel = progress /\ t.cqes = c
    BY <1>2, <2>1, Zenon DEF Progressed
  <2>4. \A i \in DOMAIN r.cqes : r.cqes[i].more
    BY <1>2, SoundWorking, Zenon
  <2>5. \A i \in DOMAIN t.cqes : Terminal(t, i) => Shown(t.args, t.cqes[i]) = {}
    BY <2>2, <2>3, <2>4, Zenon DEF Terminal
  <2>6. t.phase \notin {"prepared", "done", "gone"} /\ r.phase # "gone"
    BY <1>2, <2>3
  <2> QED
    BY <1>1, <2>3, <2>5, <2>6, Zenon DEF Follows, Stays
<1>3. CASE r.phase # "pending" /\ progress = "over"
  BY <1>3, FollowsGone, Zenon DEF Progressed
<1>4. CASE r.phase # "pending" /\ progress # "over"
  <2>1. r.phase = "gone" /\ t.phase = "gone" /\ t.cqes = <<>> /\ t.args = r.args /\ t.kernel = progress
    BY <1>4, Zenon DEF Progressed
  <2>2. DOMAIN t.cqes = {} /\ t.phase \notin {"prepared", "done"}
    BY <2>1
  <2> QED
    BY <1>1, <2>1, <2>2, Zenon DEF Follows, Stays
<1> QED
  BY <1>2, <1>3, <1>4, Zenon

\* Push.
LEMMA PushKeeps ==
  ASSUME StagedInv, NEW n \in RequestId, Push(n)
  PROVE  StagedInv'
<1>1. PICK t : t = [req[n] EXCEPT !.phase = "pending", !.kernel = "running"]
  BY Zenon
<1>2. req' = [req EXCEPT ![n] = t]
  BY <1>1, Zenon DEF Push
<1>3. Sound(req[n]) /\ req[n].phase = "prepared"
  BY Zenon DEF StagedInv, Push
<1>4. Sound(t) /\ t.phase = "pending" /\ t.args = req[n].args /\ t.kernel = "running" /\ t.cqes = req[n].cqes
  BY <1>1, <1>3, SoundPush, Zenon
<1>5. req[n].cqes = <<>>
  BY <1>3, Zenon DEF Sound
<1>6. Follows(req[n], t) /\ Stays(req[n], t)
  BY <1>3, <1>4, <1>5, FollowsPush, Zenon
<1>7. /\ DOMAIN req' = RequestId /\ req'[n] = t
      /\ \A m \in RequestId : m # n => req'[m] = req[m]
  BY <1>2, Replaced, Zenon
<1>8. DescriptorInv'
  <2>1. Waiting(req[n]) = {} /\ Waiting(t) = {} /\ Distinct(t)
    BY <1>4, <1>5, BringsNone, Zenon
  <2>2. DescriptorInv /\ UNCHANGED <<fds, files, lost>>
    BY Zenon DEF StagedInv, Push
  <2> QED
    BY <1>7, <2>1, <2>2, SameDescriptorsOne, Zenon
<1>9. UNCHANGED <<mem, paths, holder>>
  BY Zenon DEF Push
<1> QED
  BY <1>4, <1>6, <1>7, <1>8, <1>9, KeptOne, Zenon

\* What becomes a File or Socket.
LEMMA ClaimOf ==
  ASSUME NEW a, NEW result
  PROVE  Claim(a, result) = IF Installs(a) /\ result >= 0 THEN {result} ELSE {}
<1>1. /\ OpenClaim(result) = IF result >= 0 THEN {result} ELSE {}
      /\ Openat2Claim(result) = IF result >= 0 THEN {result} ELSE {}
      /\ AcceptClaim(result) = IF result >= 0 THEN {result} ELSE {}
      /\ FixedFdInstallClaim(result) = IF result >= 0 THEN {result} ELSE {}
  BY DEF OpenClaim, Openat2Claim, AcceptClaim, FixedFdInstallClaim, CqeIsOk
<1>2. CASE Installs(a)
  BY <1>1, <1>2 DEF Claim, Installs
<1>3. CASE ~Installs(a)
  BY <1>3 DEF Claim, Installs
<1> QED
  BY <1>2, <1>3

\* The descriptors left when the oldest completion is taken.
LeftBy(r) == IF Brings(r, 1) THEN Waiting(r) \ {Head(r.cqes).result} ELSE Waiting(r)

\* The oldest completion and the descriptor it may bring.
LEMMA OldestBrings ==
  ASSUME NEW r, r.phase = "pending", r.cqes \in Seq(Completion), r.cqes # <<>>
  PROVE  /\ Brings(r, 1) <=> Installs(r.args) /\ Head(r.cqes).result >= 0
         /\ Brings(r, 1) => Head(r.cqes).result \in Waiting(r)
<1>1. 1 \in DOMAIN r.cqes /\ Head(r.cqes) = r.cqes[1]
  BY HeadAndTail, Zenon
<1> QED
  BY <1>1, Zenon DEF Brings, Waiting

\* After a terminal completion there are none.
LEMMA LastBrings ==
  ASSUME NEW r, Sound(r), r.phase = "pending", r.cqes # <<>>, ~Head(r.cqes).more
  PROVE  LeftBy(r) = {}
<1>1. r.cqes \in Seq(Completion) /\ 1 \in DOMAIN r.cqes /\ Head(r.cqes) = r.cqes[1]
  BY SoundPending, HeadAndTail, Zenon
<1>2. Len(r.cqes) = 1
  BY <1>1, SoundPending, Zenon
<1>3. DOMAIN r.cqes = {1}
  BY <1>1, <1>2
<1>4. \A i : Brings(r, i) => i = 1
  BY <1>3, Zenon DEF Brings
<1>5. \A fd \in Waiting(r) : Brings(r, 1) /\ fd = Head(r.cqes).result
  BY <1>1, <1>4, Zenon DEF Waiting
<1> QED
  BY <1>5, Zenon DEF LeftBy

\* The oldest completion redeemed or recorded: its descriptor has an owner.
LEMMA OldestClaimed ==
  ASSUME StagedInv, NEW n \in RequestId, req[n].phase = "pending", req[n].cqes # <<>>,
         \A m \in RequestId : m # n => req'[m] = req[m],
         Waiting(req'[n]) = LeftBy(req[n]), Distinct(req'[n]),
         TakeFiles(n, Head(req[n].cqes).result), UNCHANGED <<fds, lost>>
  PROVE  DescriptorInv'
<1>1. DescriptorInv /\ Sound(req[n])
  BY Zenon DEF StagedInv
<1>2. req[n].cqes \in Seq(Completion)
  BY <1>1, SoundPending, Zenon
<1>3. PICK fd : fd = Head(req[n].cqes).result
  BY Zenon
<1>4. files' = files \union ((IF Brings(req[n], 1) THEN {fd} ELSE {}) \X {n})
  BY <1>2, <1>3, OldestBrings, ClaimOf, Zenon DEF TakeFiles
<1>5. CASE Brings(req[n], 1)
  <2>1. fd \in Waiting(req[n]) /\ Waiting(req'[n]) = Waiting(req[n]) \ {fd}
    BY <1>2, <1>3, <1>5, OldestBrings, Zenon DEF LeftBy
  <2>2. files' = files \union ({fd} \X {n})
    BY <1>4, <1>5, Zenon
  <2>3. files' = files \union {<<fd, n>>}
    BY <2>2
  <2> QED
    BY <1>1, <2>1, <2>3, ClaimedDescriptor, Zenon
<1>6. CASE ~Brings(req[n], 1)
  <2>1. files' = files \union ({} \X {n})
    BY <1>4, <1>6, Zenon
  <2>2. files' = files
    BY <2>1
  <2>3. Waiting(req'[n]) = Waiting(req[n])
    BY <1>6, Zenon DEF LeftBy
  <2> QED
    BY <1>1, <2>2, <2>3, SameDescriptorsOne, Zenon
<1> QED
  BY <1>5, <1>6

\* The oldest completion dropped: its descriptor is lost.
LEMMA OldestLost ==
  ASSUME StagedInv, NEW n \in RequestId, req[n].phase = "pending", req[n].cqes # <<>>,
         \A m \in RequestId : m # n => req'[m] = req[m],
         Waiting(req'[n]) = LeftBy(req[n]), Distinct(req'[n]),
         lost' = lost \union Unclaimed(n, <<Head(req[n].cqes)>>), UNCHANGED <<fds, files>>
  PROVE  DescriptorInv'
<1>1. DescriptorInv /\ Sound(req[n])
  BY Zenon DEF StagedInv
<1>2. req[n].cqes \in Seq(Completion)
  BY <1>1, SoundPending, Zenon
<1>3. PICK cqe : cqe = Head(req[n].cqes)
  BY Zenon
<1>4. DOMAIN <<cqe>> = {1} /\ <<cqe>>[1] = cqe
  OBVIOUS
<1>5. Unclaimed(n, <<cqe>>) = IF Installs(req[n].args) /\ cqe.result >= 0 THEN {cqe.result} ELSE {}
  BY <1>4, Zenon DEF Unclaimed
<1>6. PICK gone : gone = IF Brings(req[n], 1) THEN {cqe.result} ELSE {}
  BY Zenon
<1>7. lost' = lost \union gone
  BY <1>2, <1>3, <1>5, <1>6, OldestBrings, Zenon
<1>8. gone \subseteq Waiting(req[n]) /\ Waiting(req'[n]) = Waiting(req[n]) \ gone
  BY <1>2, <1>3, <1>6, OldestBrings, Zenon DEF LeftBy
<1> QED
  BY <1>1, <1>7, <1>8, LostDescriptors, Zenon

\* A completion that has arrived.
LEMMA ArrivedMeans ==
  ASSUME StagedInv, NEW n \in RequestId, NEW more, Arrived(n, more)
  PROVE  /\ Sound(req[n]) /\ req[n].phase = "pending" /\ req[n].cqes # <<>> /\ Oldest(n) = Head(req[n].cqes)
         /\ Head(req[n].cqes).more = more /\ req[n].cqes \in Seq(Completion) /\ Distinct(req[n])
<1>1. Sound(req[n]) /\ Distinct(req[n])
  BY Zenon DEF StagedInv, DescriptorInv
<1>2. req[n].phase = "pending"
  BY Zenon DEF Arrived
<1> QED
  BY <1>1, <1>2, SoundPending, Zenon DEF Arrived, Oldest

\* record_sent.
LEMMA RecordSentKeeps ==
  ASSUME StagedInv, NEW n \in RequestId, RecordSent(n)
  PROVE  StagedInv'
<1>1. /\ Sound(req[n]) /\ req[n].phase = "pending" /\ req[n].cqes # <<>> /\ Oldest(n) = Head(req[n].cqes)
      /\ Head(req[n].cqes).more /\ req[n].cqes \in Seq(Completion) /\ ZeroCopy(req[n].args)
  BY ArrivedMeans, Zenon DEF RecordSent
<1>2. PICK t : t = [req[n] EXCEPT !.sent = <<Head(req[n].cqes).result>>, !.cqes = Tail(req[n].cqes)]
  BY Zenon
<1>3. req' = [req EXCEPT ![n] = t]
  BY <1>1, <1>2, Zenon DEF RecordSent
<1>4. /\ Sound(t) /\ t.phase = "pending" /\ t.args = req[n].args /\ t.kernel = req[n].kernel
      /\ t.cqes = Tail(req[n].cqes)
  BY <1>1, <1>2, SoundRecordSent, ZenonT(30)
<1>5. Follows(req[n], t) /\ Stays(req[n], t)
  BY <1>1, <1>4, FollowsRest, Zenon
<1>6. /\ DOMAIN req' = RequestId /\ req'[n] = t
      /\ \A m \in RequestId : m # n => req'[m] = req[m]
  BY <1>3, Replaced, Zenon
<1>7. DescriptorInv'
  <2>1. ~Installs(req[n].args)
    BY <1>1 DEF ZeroCopy, Installs
  <2>2. Waiting(req[n]) = {} /\ Waiting(t) = {} /\ Distinct(t)
    BY <1>4, <2>1, BringsNone, Zenon
  <2>3. DescriptorInv /\ UNCHANGED <<fds, files, lost>>
    BY Zenon DEF StagedInv, RecordSent
  <2> QED
    BY <1>6, <2>2, <2>3, SameDescriptorsOne, Zenon
<1>8. UNCHANGED <<mem, paths, holder>>
  BY Zenon DEF RecordSent
<1> QED
  BY <1>4, <1>5, <1>6, <1>7, <1>8, KeptOne, Zenon

\* MultishotAccept::record.
LEMMA RecordKeeps ==
  ASSUME StagedInv, NEW n \in RequestId, Record(n)
  PROVE  StagedInv'
<1>1. /\ Sound(req[n]) /\ req[n].phase = "pending" /\ req[n].cqes # <<>> /\ Oldest(n) = Head(req[n].cqes)
      /\ req[n].cqes \in Seq(Completion) /\ Distinct(req[n]) /\ req[n].args.kind = "accept"
  BY ArrivedMeans, Zenon DEF Record
<1>2. PICK t : t = IF Head(req[n].cqes).more THEN [req[n] EXCEPT !.cqes = Tail(req[n].cqes)] ELSE Gone
  BY Zenon
<1>3. req' = [req EXCEPT ![n] = t]
  <2>1. req' = [req EXCEPT ![n] = IF Oldest(n).more THEN [req[n] EXCEPT !.cqes = Tail(req[n].cqes)] ELSE Gone]
    BY DEF Record
  <2> QED
    BY <1>1, <1>2, <2>1, Zenon
<1>4. Sound(t) /\ Follows(req[n], t) /\ Stays(req[n], t) /\ Waiting(t) = LeftBy(req[n]) /\ Distinct(t)
  <2>1. CASE Head(req[n].cqes).more
    <3>1. t = [req[n] EXCEPT !.cqes = Tail(req[n].cqes)]
      BY <1>2, <2>1, Zenon
    <3>2. ~ZeroCopy(req[n].args)
      BY <1>1 DEF ZeroCopy
    <3>3. /\ Sound(t) /\ t.phase = "pending" /\ t.args = req[n].args /\ t.kernel = req[n].kernel
          /\ t.cqes = Tail(req[n].cqes)
      BY <1>1, <3>1, <3>2, SoundRecord, Zenon
    <3> QED
      BY <1>1, <3>3, FollowsRest, BringsRest, Zenon DEF LeftBy
  <2>2. CASE ~Head(req[n].cqes).more
    <3>1. t = Gone
      BY <1>2, <2>2, Zenon
    <3>2. LeftBy(req[n]) = {}
      BY <1>1, <2>2, LastBrings, Zenon
    <3>3. Waiting(Gone) = {} /\ Distinct(Gone)
      BY FollowsGone, BringsNone, Zenon
    <3> QED
      BY <3>1, <3>2, <3>3, FollowsGone, SoundEnds, Zenon
  <2> QED
    BY <2>1, <2>2
<1>5. /\ DOMAIN req' = RequestId /\ req'[n] = t
      /\ \A m \in RequestId : m # n => req'[m] = req[m]
  BY <1>3, Replaced, Zenon
<1>6. TakeFiles(n, Head(req[n].cqes).result) /\ UNCHANGED <<fds, lost>> /\ UNCHANGED <<mem, paths, holder>>
  BY <1>1, Zenon DEF Record
<1>7. DescriptorInv'
  BY <1>1, <1>4, <1>5, <1>6, OldestClaimed, Zenon
<1> QED
  BY <1>4, <1>5, <1>6, <1>7, KeptOne, Zenon

\* redeem.
LEMMA RedeemKeeps ==
  ASSUME StagedInv, NEW n \in RequestId, Redeem(n)
  PROVE  StagedInv'
<1>1. /\ Sound(req[n]) /\ req[n].phase = "pending" /\ req[n].cqes # <<>> /\ Oldest(n) = Head(req[n].cqes)
      /\ req[n].cqes \in Seq(Completion) /\ ~Head(req[n].cqes).more
  BY ArrivedMeans, Zenon DEF Redeem
<1>2. PICK t : t = [req[n] EXCEPT !.phase = "done", !.cqes = <<>>, !.last = <<Head(req[n].cqes)>>]
  BY Zenon
<1>3. req' = [req EXCEPT ![n] = t]
  BY <1>1, <1>2, Zenon DEF Redeem
<1>4. /\ Sound(t) /\ t.phase = "done" /\ t.args = req[n].args /\ t.kernel = "over" /\ t.cqes = <<>>
      /\ t.last[1] = Head(req[n].cqes)
  BY <1>1, <1>2, SoundRedeem, Zenon
<1>5. Follows(req[n], t) /\ Stays(req[n], t)
  BY <1>1, <1>4, FollowsRedeem, Zenon
<1>6. /\ DOMAIN req' = RequestId /\ req'[n] = t
      /\ \A m \in RequestId : m # n => req'[m] = req[m]
  BY <1>3, Replaced, Zenon
<1>7. Waiting(t) = LeftBy(req[n]) /\ Distinct(t)
  BY <1>1, <1>4, LastBrings, BringsNone, Zenon
<1>8. TakeFiles(n, Head(req[n].cqes).result) /\ UNCHANGED <<fds, lost>> /\ UNCHANGED <<mem, paths, holder>>
  BY <1>1, Zenon DEF Redeem
<1>9. DescriptorInv'
  BY <1>1, <1>6, <1>7, <1>8, OldestClaimed, Zenon
<1> QED
  BY <1>4, <1>5, <1>6, <1>8, <1>9, KeptOne, Zenon

\* A notice or receipt dropped unread.
LEMMA DropEventKeeps ==
  ASSUME StagedInv, NEW n \in RequestId, DropEvent(n)
  PROVE  StagedInv'
<1>1. /\ Sound(req[n]) /\ Distinct(req[n]) /\ req[n].phase = "pending" /\ req[n].cqes # <<>>
      /\ Oldest(n) = Head(req[n].cqes)
  BY Zenon DEF DropEvent, Oldest, StagedInv, DescriptorInv
<1>2. PICK t : t = [req[n] EXCEPT !.cqes = Tail(req[n].cqes), !.missed = TRUE]
  BY Zenon
<1>3. req' = [req EXCEPT ![n] = t]
  BY <1>2, Zenon DEF DropEvent
<1>4. /\ Sound(t) /\ t.phase = "pending" /\ t.args = req[n].args /\ t.kernel = req[n].kernel
      /\ t.cqes = Tail(req[n].cqes)
  BY <1>1, <1>2, SoundDropEvent, Zenon
<1>5. req[n].cqes \in Seq(Completion)
  BY <1>1, SoundPending, Zenon
<1>6. /\ Follows(req[n], t) /\ Stays(req[n], t) /\ Waiting(t) = LeftBy(req[n]) /\ Distinct(t)
  BY <1>1, <1>4, <1>5, FollowsRest, BringsRest, Zenon DEF LeftBy
<1>7. /\ DOMAIN req' = RequestId /\ req'[n] = t
      /\ \A m \in RequestId : m # n => req'[m] = req[m]
  BY <1>3, Replaced, Zenon
<1>8. /\ lost' = lost \union Unclaimed(n, <<Head(req[n].cqes)>>)
      /\ UNCHANGED <<fds, files>> /\ UNCHANGED <<mem, paths, holder>>
  BY <1>1, Zenon DEF DropEvent
<1>9. DescriptorInv'
  BY <1>1, <1>6, <1>7, <1>8, OldestLost, Zenon
<1> QED
  BY <1>4, <1>6, <1>7, <1>8, <1>9, KeptOne, Zenon

-----------------------------------------------------------------------------
\* The kernel's completions.

\* A descriptor is brought to the ticket, if there still is one.
Gains(r, t, fd) ==
  Distinct(t) /\ Waiting(t) = IF r.phase = "pending" THEN Waiting(r) \union {fd} ELSE Waiting(r)

\* A completion that shows nothing.
LEMMA PostedFollows ==
  ASSUME NEW r, Sound(r), Distinct(r), r.kernel \in {"running", "notify"}, NEW cqe \in Completion,
         NEW progress \in {"running", "notify", "over"}, ~cqe.more => progress = "over",
         progress = "notify" => ZeroCopy(r.args), progress = "running" => r.kernel = "running",
         NEW t, t = Posted(r, cqe, progress), cqe.more \/ Shown(r.args, cqe) = {}, Reports(r, t, cqe)
  PROVE  /\ Sound(t) /\ Follows(r, t) /\ Stays(r, t)
         /\ ~Installs(r.args) \/ cqe.result < 0 => Waiting(t) = Waiting(r) /\ Distinct(t)
         /\ Installs(r.args) /\ cqe.result >= 0 /\ cqe.result \notin Waiting(r) => Gains(r, t, cqe.result)
<1>1. Sound(t) /\ Progressed(r, t, cqe, progress)
  BY SoundPosted, Zenon
<1>2. Follows(r, t) /\ Stays(r, t)
  BY <1>1, FollowsPosted, Zenon
<1>3. CASE r.phase = "pending"
  <2>1. r.cqes \in Seq(Completion)
    BY <1>3, SoundPending, Zenon
  <2> QED
    BY <1>1, <1>2, <1>3, <2>1, BringsMore, Zenon DEF Gains, Progressed
<1>4. CASE r.phase # "pending"
  <2>1. Waiting(r) = {} /\ Waiting(t) = {} /\ Distinct(t)
    BY <1>1, <1>4, BringsNone, Zenon DEF Progressed
  <2> QED
    BY <1>1, <1>2, <1>4, <2>1, Zenon DEF Gains
<1> QED
  BY <1>3, <1>4

\* The completions of a zero-copy send.
LEMMA ZeroCopyPosted ==
  ASSUME NEW r, Sound(r), r.phase = "pending", ~r.missed, ZeroCopy(r.args), r.kernel \in {"running", "notify"},
         NEW cqe \in Completion, NEW progress, NEW t, t = Posted(r, cqe, progress),
         ZeroCopyPosts(r.kernel, cqe, progress)
  PROVE  ZeroCopyProgress(t)
<1>1. ZeroCopyProgress(r) /\ r.cqes \in Seq(Completion) /\ r \in RequestState
  BY SoundPending, Zenon
<1>2. t = [r EXCEPT !.kernel = progress, !.cqes = Append(r.cqes, cqe)]
  BY Zenon DEF Posted
<1>3. t.kernel = progress /\ t.cqes = Append(r.cqes, cqe) /\ t.sent = r.sent
  BY <1>1, <1>2, Zenon DEF RequestState
<1>4. ZeroCopyPosts(r.kernel, cqe, t.kernel)
  BY <1>3, Zenon
<1> QED
  BY <1>1, <1>3, <1>4, ZeroCopySteps

\* Where the kernel may be with a request once it has posted a completion.
MayReach(r, cqe, progress) ==
  /\ ~cqe.more => progress = "over"
  /\ progress = "notify" => ZeroCopy(r.args)
  /\ progress = "running" => r.kernel = "running"

\* A step in which the kernel posts a completion without a descriptor.
LEMMA PostKeeps ==
  ASSUME StagedInv, NEW n \in RequestId, req[n].kernel \in {"running", "notify"}, NEW cqe \in Completion,
         NEW progress \in {"running", "notify", "over"}, MayReach(req[n], cqe, progress),
         Post(n, cqe, progress), cqe.more \/ Shown(req[n].args, cqe) = {},
         Reports(req[n], Posted(req[n], cqe, progress), cqe),
         ~Installs(req[n].args) \/ cqe.result < 0, UNCHANGED <<mem, paths, holder, fds, files, lost>>
  PROVE  StagedInv'
<1>1. PICK t : t = Posted(req[n], cqe, progress)
  BY Zenon
<1>2. req' = [req EXCEPT ![n] = t]
  BY <1>1, Zenon DEF Post
<1>3. Sound(req[n]) /\ Distinct(req[n]) /\ DescriptorInv
  BY Zenon DEF StagedInv, DescriptorInv
<1>4. Reports(req[n], t, cqe)
  BY <1>1, Zenon
<1>5. Sound(t) /\ Follows(req[n], t) /\ Stays(req[n], t) /\ Waiting(t) = Waiting(req[n]) /\ Distinct(t)
  BY <1>1, <1>3, <1>4, PostedFollows, ZenonT(30) DEF MayReach
<1>6. /\ DOMAIN req' = RequestId /\ req'[n] = t
      /\ \A m \in RequestId : m # n => req'[m] = req[m]
  BY <1>2, Replaced, Zenon
<1>7. DescriptorInv'
  BY <1>3, <1>5, <1>6, SameDescriptorsOne, Zenon
<1> QED
  BY <1>5, <1>6, <1>7, KeptOne, Zenon

\* A full descriptor table.
LEMMA InstallFailsKeeps ==
  ASSUME StagedInv, NEW n \in RequestId, InstallFails(n)
  PROVE  StagedInv'
<1>1. PICK cqe : cqe = Cqe(-24, FALSE, "failed", 0)
  BY Zenon
<1>2. /\ cqe \in Completion /\ ~cqe.more /\ cqe.result \in Int /\ cqe.result < 0 /\ cqe.happened = "failed"
  BY <1>1 DEF Cqe, Completion, Happening
<1>3. /\ req[n].kernel = "running" /\ Installs(req[n].args) /\ Post(n, cqe, "over")
      /\ UNCHANGED <<mem, paths, holder, fds, files, lost>>
  BY <1>1, Zenon DEF InstallFails
<1>4. Shown(req[n].args, cqe) = {}
  BY <1>2, FailureShowsNothing, Zenon
<1>5. ~ZeroCopy(req[n].args)
  BY <1>3 DEF Installs, ZeroCopy
<1>6. Outcome(req[n].args, req[n].sent, cqe) = cqe.happened
  <2>1. PICK result \in Int : result = -24
    OBVIOUS
  <2>2. result < 0 /\ cqe = Cqe(result, FALSE, "failed", 0)
    BY <1>1, <2>1
  <2> QED
    BY <1>2, <1>3, <2>2, InstallAnswer, Zenon
<1>7. Reports(req[n], Posted(req[n], cqe, "over"), cqe)
  BY <1>5, <1>6, Zenon DEF Reports
<1>8. /\ req[n].kernel \in {"running", "notify"} /\ "over" \in {"running", "notify", "over"}
      /\ "over" # "notify" /\ "over" # "running"
  BY <1>3
<1> QED
  BY <1>2, <1>3, <1>4, <1>7, <1>8, PostKeeps, Zenon DEF MayReach

\* A zero-copy send shows nothing and brings nothing.
LEMMA ZeroCopyShows ==
  ASSUME NEW a, ZeroCopy(a), NEW cqe
  PROVE  Shown(a, cqe) = {} /\ ~Installs(a)
<1>1. a.kind \notin {"statx", "pipe", "epoll_wait", "waitid", "recvmsg"} /\ ~Installs(a)
  BY DEF ZeroCopy, Installs
<1> QED
  BY <1>1, ShownOf, Zenon

\* A step of a zero-copy send.
LEMMA ZeroCopyKeeps ==
  ASSUME StagedInv, NEW n \in RequestId, req[n].kernel \in {"running", "notify"}, ZeroCopy(req[n].args),
         NEW cqe \in Completion, NEW progress \in {"notify", "over"}, ~cqe.more => progress = "over",
         ZeroCopyPosts(req[n].kernel, cqe, progress), Post(n, cqe, progress),
         UNCHANGED <<mem, paths, holder, fds, files, lost>>
  PROVE  StagedInv'
<1>1. Sound(req[n])
  BY Zenon DEF StagedInv
<1>2. Reports(req[n], Posted(req[n], cqe, progress), cqe)
  BY <1>1, ZeroCopyPosted, Zenon DEF Reports
<1>3. Shown(req[n].args, cqe) = {} /\ ~Installs(req[n].args)
  BY ZeroCopyShows, Zenon
<1>4. progress \in {"running", "notify", "over"} /\ progress # "running"
  OBVIOUS
<1> QED
  BY <1>2, <1>3, <1>4, PostKeeps, Zenon DEF MayReach

\* The count of a zero-copy send, or its failure.
LEMMA ZcSendKeeps ==
  ASSUME StagedInv, NEW n \in RequestId, ZcSend(n)
  PROVE  StagedInv'
<1>1. /\ req[n].kernel = "running" /\ ZeroCopy(req[n].args)
      /\ UNCHANGED <<mem, paths, holder, fds, files, lost>>
  BY Zenon DEF ZcSend
<1>2. CASE Post(n, Cqe(1, TRUE, "moved", 0), "notify")
  <2>1. PICK cqe : cqe = Cqe(1, TRUE, "moved", 0)
    BY Zenon
  <2>2. cqe \in Completion /\ cqe.more
    BY <2>1 DEF Cqe, Completion, Happening
  <2>3. ZeroCopyPosts(req[n].kernel, cqe, "notify")
    BY <1>1, <2>1, Zenon DEF ZeroCopyPosts
  <2>4. Post(n, cqe, "notify")
    BY <1>2, <2>1, Zenon
  <2> QED
    BY <1>1, <2>2, <2>3, <2>4, ZeroCopyKeeps
<1>3. CASE Post(n, Cqe(-32, FALSE, "failed", 0), "over")
  <2>1. PICK cqe : cqe = Cqe(-32, FALSE, "failed", 0)
    BY Zenon
  <2>2. cqe \in Completion
    BY <2>1 DEF Cqe, Completion, Happening
  <2>3. ZeroCopyPosts(req[n].kernel, cqe, "over")
    BY <1>1, <2>1, Zenon DEF ZeroCopyPosts
  <2>4. Post(n, cqe, "over")
    BY <1>3, <2>1, Zenon
  <2> QED
    BY <1>1, <2>2, <2>3, <2>4, ZeroCopyKeeps
<1> QED
  BY <1>2, <1>3, Zenon DEF ZcSend

\* The notification of a zero-copy send.
LEMMA ZcNotifyKeeps ==
  ASSUME StagedInv, NEW n \in RequestId, ZcNotify(n)
  PROVE  StagedInv'
<1>1. PICK cqe : cqe = Cqe(0, FALSE, "moved", 0)
  BY Zenon
<1>2. cqe \in Completion
  BY <1>1 DEF Cqe, Completion, Happening
<1>3. /\ req[n].kernel = "notify" /\ Post(n, cqe, "over")
      /\ UNCHANGED <<mem, paths, holder, fds, files, lost>>
  BY <1>1, Zenon DEF ZcNotify
<1>4. ZeroCopy(req[n].args)
  BY <1>3, Zenon DEF StagedInv, Sound
<1>5. ZeroCopyPosts(req[n].kernel, cqe, "over")
  BY <1>1, <1>3, Zenon DEF ZeroCopyPosts
<1> QED
  BY <1>2, <1>3, <1>4, <1>5, ZeroCopyKeeps

\* fd_install.
LEMMA InstallKeeps ==
  ASSUME StagedInv, NEW n \in RequestId, NEW more \in BOOLEAN, Install(n, more)
  PROVE  StagedInv'
<1>1. PICK fd \in Fd \ fds :
        /\ fds' = fds \union {fd}
        /\ Post(n, Cqe(fd, more, "ok", 0), IF more THEN "running" ELSE "over")
        /\ lost' = IF req[n].phase = "pending" THEN lost ELSE lost \union {fd}
  BY Zenon DEF Install
<1>2. PICK cqe : cqe = Cqe(fd, more, "ok", 0)
  BY Zenon
<1>3. fd \in Nat /\ fd \in Int /\ fd >= 0
  BY <1>1, StagedAssumption
<1>4. cqe \in Completion /\ cqe.more = more /\ cqe.result = fd /\ cqe.happened = "ok"
  BY <1>2, <1>3 DEF Cqe, Completion, Happening
<1>5. PICK progress : progress = IF more THEN "running" ELSE "over"
  BY Zenon
<1>6. progress \in {"running", "notify", "over"} /\ progress # "notify" /\ (~cqe.more => progress = "over")
  BY <1>4, <1>5
<1>7. PICK t : t = Posted(req[n], cqe, progress)
  BY Zenon
<1>8. req' = [req EXCEPT ![n] = t]
  BY <1>1, <1>2, <1>5, <1>7, Zenon DEF Post
<1>9. req[n].kernel = "running" /\ Installs(req[n].args) /\ UNCHANGED <<mem, paths, holder>> /\ files' = files
  BY Zenon DEF Install
<1>10. Sound(req[n]) /\ Distinct(req[n]) /\ DescriptorInv
  BY Zenon DEF StagedInv, DescriptorInv
<1>11. ~ZeroCopy(req[n].args) /\ Shown(req[n].args, cqe) = {}
  <2>1. ~ZeroCopy(req[n].args) /\ req[n].args.kind \notin {"statx", "pipe", "epoll_wait", "waitid", "recvmsg"}
    BY <1>9 DEF Installs, ZeroCopy
  <2> QED
    BY <2>1, ShownOf, Zenon
<1>12. Outcome(req[n].args, req[n].sent, cqe) = cqe.happened
  <2>1. Outcome(req[n].args, req[n].sent, Cqe(fd, more, "ok", 0)) = "ok"
    BY <1>3, <1>9, InstallAnswer
  <2> QED
    BY <1>2, <1>4, <2>1, Zenon
<1>13. cqe.result >= 0 /\ cqe.result \notin Waiting(req[n])
  <2>1. Waiting(req[n]) \subseteq fds
    <3>1. [m \in RequestId |-> Waiting(req[m])][n] \subseteq fds \ lost
      BY <1>10, Zenon DEF DescriptorInv, Accounted
    <3> QED
      BY <3>1, Zenon
  <2> QED
    BY <1>1, <1>3, <1>4, <2>1, Zenon
<1>14. /\ Sound(t) /\ Follows(req[n], t) /\ Stays(req[n], t) /\ Distinct(t)
       /\ Waiting(t) = IF req[n].phase = "pending" THEN Waiting(req[n]) \union {fd} ELSE Waiting(req[n])
  <2>1. Sound(req[n]) /\ Distinct(req[n]) /\ req[n].kernel \in {"running", "notify"}
    BY <1>9, <1>10
  <2>2. /\ progress = "notify" => ZeroCopy(req[n].args)
        /\ progress = "running" => req[n].kernel = "running"
        /\ cqe.more \/ Shown(req[n].args, cqe) = {}
        /\ Reports(req[n], t, cqe)
    BY <1>6, <1>9, <1>11, <1>12, Zenon DEF Reports
  <2>3. /\ Sound(t) /\ Follows(req[n], t) /\ Stays(req[n], t)
        /\ Gains(req[n], t, cqe.result)
    <3>1. cqe \in Completion
      BY <1>4
    <3>2. progress \in {"running", "notify", "over"} /\ (~cqe.more => progress = "over")
      BY <1>6
    <3> QED
      BY <1>7, <1>9, <1>13, <2>1, <2>2, <3>1, <3>2, PostedFollows, Zenon
  <2> QED
    BY <1>4, <2>3, Zenon DEF Gains
<1>15. /\ DOMAIN req' = RequestId /\ req'[n] = t
       /\ \A m \in RequestId : m # n => req'[m] = req[m]
  BY <1>8, Replaced, Zenon
<1>16. DescriptorInv'
  <2>1. \/ Waiting(req'[n]) = Waiting(req[n]) \union {fd} /\ lost' = lost
        \/ Waiting(req'[n]) = Waiting(req[n]) /\ lost' = lost \union {fd}
    BY <1>1, <1>14, <1>15, Zenon
  <2>2. fd \in Fd /\ fd \notin fds /\ fds' = fds \union {fd}
    BY <1>1, Zenon
  <2> QED
    BY <1>9, <1>10, <1>14, <1>15, <2>1, <2>2, OpenedDescriptor, Zenon
<1> QED
  BY <1>9, <1>14, <1>15, <1>16, KeptOne, Zenon

\* A request that was stopped.
LEMMA StoppedFollows ==
  ASSUME NEW r, Sound(r), Distinct(r), r.kernel = "running", r.args.kind # "cancel",
         NEW t, t = Posted(r, Cqe(-125, FALSE, CancelledAs(r.args), 0), "over")
  PROVE  Sound(t) /\ Follows(r, t) /\ Stays(r, t) /\ Waiting(t) = Waiting(r) /\ Distinct(t)
<1>1. PICK cqe : cqe = Cqe(-125, FALSE, CancelledAs(r.args), 0)
  BY Zenon
<1>2. CancelledAs(r.args) \in Happening /\ (ZeroCopy(r.args) => CancelledAs(r.args) = "failed")
  BY CancelledHappens, Zenon
<1>3. /\ cqe \in Completion /\ ~cqe.more /\ cqe.result \in Int /\ cqe.result < 0
      /\ cqe.happened = CancelledAs(r.args)
  BY <1>1, <1>2 DEF Cqe, Completion
<1>4. t = Posted(r, cqe, "over")
  BY <1>1, Zenon
<1>5. Shown(r.args, cqe) = {}
  BY <1>3, FailureShowsNothing, Zenon
<1>6. r.kernel \in {"running", "notify"}
  OBVIOUS
<1>7. ASSUME ZeroCopy(r.args), r.phase = "pending", ~r.missed PROVE ZeroCopyProgress(t)
  <2>1. ZeroCopyPosts(r.kernel, cqe, "over")
    BY <1>1, <1>2, <1>7, Zenon DEF ZeroCopyPosts
  <2> QED
    BY <1>3, <1>4, <1>6, <1>7, <2>1, ZeroCopyPosted, Zenon
<1>8. ~ZeroCopy(r.args) => Outcome(r.args, r.sent, cqe) = cqe.happened
  BY <1>1, <1>3, CancelledAnswer, Zenon
<1>9. Reports(r, t, cqe)
  BY <1>7, <1>8, Zenon DEF Reports
<1> QED
  BY <1>3, <1>4, <1>5, <1>6, <1>9, PostedFollows, Zenon

\* The cancellation itself.
LEMMA CancellationFollows ==
  ASSUME NEW r, Sound(r), Distinct(r), r.kernel = "running", r.args.kind = "cancel",
         NEW cqe \in Completion, ~cqe.more, Outcome(r.args, r.sent, cqe) = cqe.happened,
         NEW t, t = Posted(r, cqe, "over")
  PROVE  Sound(t) /\ Follows(r, t) /\ Stays(r, t) /\ Waiting(t) = Waiting(r) /\ Distinct(t)
<1>1. ~ZeroCopy(r.args) /\ ~Installs(r.args) /\ r.kernel \in {"running", "notify"}
  BY DEF ZeroCopy, Installs
<1>2. Shown(r.args, cqe) = {}
  <2>1. r.args.kind \notin {"statx", "pipe", "epoll_wait", "waitid", "recvmsg"}
    OBVIOUS
  <2> QED
    BY <2>1, ShownOf, Zenon
<1>3. Reports(r, t, cqe)
  BY <1>1, Zenon DEF Reports
<1>4. "over" \in {"running", "notify", "over"} /\ "over" # "notify" /\ "over" # "running"
  OBVIOUS
<1> QED
  BY <1>1, <1>2, <1>3, <1>4, PostedFollows, Zenon

\* A cancellation and what it stopped.
LEMMA CancelledKeeps ==
  ASSUME StagedInv, NEW n \in RequestId, req[n].kernel = "running", req[n].args.kind = "cancel",
         NEW stopped, stopped \subseteq Matched(n), NEW cqe \in Completion, ~cqe.more,
         Outcome(req[n].args, req[n].sent, cqe) = cqe.happened, NEW result, NEW happened,
         cqe = Cqe(result, FALSE, happened, 0), Cancelled(n, stopped, result, happened),
         UNCHANGED <<mem, paths, holder, fds, files, lost>>
  PROVE  StagedInv'
<1>1. /\ DOMAIN req' = RequestId
      /\ \A m \in RequestId :
           req'[m] = IF m = n THEN Posted(req[n], cqe, "over")
                     ELSE IF m \in stopped
                       THEN Posted(req[m], Cqe(-125, FALSE, CancelledAs(req[m].args), 0), "over")
                     ELSE req[m]
  BY Zenon DEF Cancelled
<1>2. \A m \in stopped : req[m].kernel = "running" /\ req[m].args.kind # "cancel"
  BY Zenon DEF Matched
<1>3. DescriptorInv /\ \A m \in RequestId : Sound(req[m]) /\ Distinct(req[m])
  BY Zenon DEF StagedInv, DescriptorInv
<1>4. ASSUME NEW m \in RequestId
      PROVE  /\ Sound(req'[m]) /\ Follows(req[m], req'[m]) /\ Stays(req[m], req'[m])
             /\ Waiting(req'[m]) = Waiting(req[m]) /\ Distinct(req'[m])
  <2>1. CASE m = n
    <3>1. req'[m] = Posted(req[n], cqe, "over") /\ Sound(req[n]) /\ Distinct(req[n])
      BY <1>1, <1>3, <2>1, Zenon
    <3> QED
      BY <2>1, <3>1, CancellationFollows, Zenon
  <2>2. CASE m # n /\ m \in stopped
    <3>1. /\ req'[m] = Posted(req[m], Cqe(-125, FALSE, CancelledAs(req[m].args), 0), "over")
          /\ Sound(req[m]) /\ Distinct(req[m]) /\ req[m].kernel = "running" /\ req[m].args.kind # "cancel"
      BY <1>1, <1>2, <1>3, <2>2, Zenon
    <3> QED
      BY <3>1, StoppedFollows, Zenon
  <2>3. CASE m # n /\ m \notin stopped
    BY <1>1, <1>3, <2>3, FollowsSelf, Zenon
  <2> QED
    BY <2>1, <2>2, <2>3, Zenon
<1>5. DescriptorInv'
  BY <1>3, <1>4, SameDescriptors, Zenon
<1> QED
  BY <1>1, <1>4, <1>5, Kept, Zenon

-----------------------------------------------------------------------------
\* Storage that changes hands.

\* Having storage apart goes both ways.
LEMMA ApartBoth ==
  ASSUME NEW r, NEW t, Apart(r, t)
  PROVE  Apart(t, r)
BY Zenon DEF Apart

\* The storages of the other requests stay as they are.
Undisturbed(n) ==
  \A m \in RequestId : m # n /\ Active(req[m]) =>
    \A s \in Owned(req[m].args) : holder'[s] = holder[s] /\ mem'[s] = mem[s]

\* Steps that change one request and leave the storages of the others alone.
LEMMA KeptOthers ==
  ASSUME StagedInv, NEW n \in RequestId, DOMAIN req' = RequestId,
         \A m \in RequestId : m # n => req'[m] = req[m], Sound(req'[n]), DescriptorInv',
         DOMAIN mem' = Storage, \A s \in Storage : mem'[s] = [i \in 0 .. Size[s] - 1 |-> mem'[s][i]],
         paths' = paths, holder' \in [Storage -> RequestId \union {0, -1}], PathsInv',
         Undisturbed(n), Has(req'[n], n, holder', paths), Remembers(req'[n], n, mem'),
         \A m \in RequestId : m # n => Apart(req[m], req'[n])
  PROVE  StagedInv'
<1>1. \A m \in RequestId : Sound(req[m])
  BY Zenon DEF StagedInv
<1>2. \A m \in RequestId : Sound(req'[m])
  BY <1>1, Zenon
<1>3. ASSUME NEW m \in RequestId PROVE Has(req'[m], m, holder', paths')
  <2>1. CASE m = n
    BY <2>1, Zenon
  <2>2. CASE m # n
    <3>1. Has(req[m], m, holder, paths)
      BY Zenon DEF StagedInv, HeldInv
    <3>2. Active(req[m]) => \A s \in Owned(req[m].args) : holder'[s] = holder[s]
      BY <2>2, Zenon DEF Undisturbed
    <3>3. ASSUME Active(req[m]), NEW s \in Owned(req[m].args)
          PROVE  holder'[s] = IF req[m].phase = "gone" THEN -1 ELSE m
      <4>1. holder[s] = IF req[m].phase = "gone" THEN -1 ELSE m
        BY <3>1, <3>3, Zenon DEF Has
      <4>2. holder'[s] = holder[s]
        BY <3>2, <3>3, Zenon
      <4> QED
        BY <4>1, <4>2, Zenon
    <3>4. Has(req[m], m, holder', paths)
      BY <3>1, <3>3, Zenon DEF Has
    <3> QED
      BY <2>2, <3>4, Zenon
  <2> QED
    BY <2>1, <2>2, Zenon
<1>4. ASSUME NEW m \in RequestId, NEW k \in RequestId, m # k PROVE Apart(req'[m], req'[k])
  <2>1. Apart(req[m], req[k])
    BY <1>4, Zenon DEF StagedInv, HeldInv
  <2> QED
    BY <1>4, <2>1, ApartBoth, Zenon
<1>5. ASSUME NEW m \in RequestId PROVE Remembers(req'[m], m, mem')
  <2>1. CASE m = n
    BY <2>1, Zenon
  <2>2. CASE m # n
    <3>1. Remembers(req[m], m, mem) /\ Sound(req[m])
      BY Zenon DEF StagedInv, MemoryInv
    <3>2. Active(req[m]) => \A s \in Scratch(req[m].args) : mem'[s] = mem[s]
      BY <2>2, <3>1, Accepted, Storages, Zenon DEF Undisturbed
    <3>3. Remembers(req[m], m, mem')
      BY <3>1, <3>2, SameMemory, Zenon
    <3> QED
      BY <2>2, <3>3, Zenon
  <2> QED
    BY <2>1, <2>2, Zenon
<1>6. HeldInv' /\ MemoryInv'
  BY <1>3, <1>4, <1>5, Zenon DEF HeldInv, MemoryInv
<1>7. paths' \in [Storage -> Nat]
  BY Zenon DEF StagedInv
<1> QED
  BY <1>2, <1>6, <1>7, Zenon DEF StagedInv

\* A request's storage handed back, or leaked.
LEMMA HandedOver ==
  ASSUME StagedInv, NEW n \in RequestId, Active(req[n]), NEW to \in {0, -1}, Hand(Owned(req[n].args), to),
         UNCHANGED <<mem, paths>>, DescriptorInv', DOMAIN req' = RequestId,
         \A m \in RequestId : m # n => req'[m] = req[m], Sound(req'[n]), Follows(req[n], req'[n]),
         Active(req'[n]) => req'[n].phase = "gone" /\ to = -1
  PROVE  StagedInv'
<1>1. mem' = mem /\ paths' = paths
  BY Zenon
<1>2. \A s \in Storage : holder'[s] = IF s \in Owned(req[n].args) THEN to ELSE holder[s]
  BY Zenon DEF Hand
<1>3. holder' \in [Storage -> RequestId \union {0, -1}]
  <2>1. holder \in [Storage -> RequestId \union {0, -1}] /\ to \in RequestId \union {0, -1}
    BY Zenon DEF StagedInv
  <2> QED
    BY <2>1, Zenon DEF Hand
<1>4. \A m \in RequestId : Sound(req[m]) /\ (m # n => Apart(req[m], req[n]))
  BY Zenon DEF StagedInv, HeldInv
<1>5. \A m \in RequestId : Active(req[m]) => Owned(req[m].args) \subseteq Storage
  BY <1>4, Accepted, Storages, Zenon
<1>6. ASSUME NEW m \in RequestId, m # n, Active(req[m]), NEW s \in Owned(req[m].args)
      PROVE  holder'[s] = holder[s] /\ mem'[s] = mem[s]
  <2>1. s \notin Owned(req[n].args) /\ s \in Storage
    BY <1>4, <1>5, <1>6, Zenon DEF Apart
  <2> QED
    BY <1>1, <1>2, <2>1, Zenon
<1>7. Has(req'[n], n, holder', paths)
  <2>1. SUFFICES ASSUME Active(req'[n]) PROVE Has(req'[n], n, holder', paths)
    BY Zenon DEF Has
  <2>2. req'[n].args = req[n].args /\ req'[n].phase = "gone" /\ to = -1
    BY <2>1, Zenon DEF Follows
  <2>3. Has(req[n], n, holder, paths)
    BY Zenon DEF StagedInv, HeldInv
  <2>4. \A s \in Owned(req[n].args) : holder'[s] = -1
    BY <1>2, <1>5, <2>2, Zenon
  <2> QED
    BY <2>2, <2>3, <2>4, Zenon DEF Has
<1>8. Remembers(req'[n], n, mem')
  <2>1. Remembers(req[n], n, mem)
    BY Zenon DEF StagedInv, MemoryInv
  <2> QED
    BY <1>1, <2>1, FollowsRemembers, Zenon
<1>9. \A m \in RequestId : m # n => Apart(req[m], req'[n])
  BY <1>4, FollowsApart, FollowsSelf, Zenon
<1>10. PathsInv' /\ DOMAIN mem' = Storage /\ \A s \in Storage : mem'[s] = [i \in 0 .. Size[s] - 1 |-> mem'[s][i]]
  BY <1>1, Zenon DEF StagedInv, PathsInv
<1> QED
  BY <1>1, <1>3, <1>6, <1>7, <1>8, <1>9, <1>10, KeptOthers, Zenon DEF Undisturbed

\* The end of a request that was not pushed, or that has completed.
LEMMA PartsKeep ==
  ASSUME StagedInv, NEW n \in RequestId, req[n].phase \in {"prepared", "done"},
         req' = [req EXCEPT ![n] = Gone], Hand(Owned(req[n].args), 0),
         UNCHANGED <<mem, paths, fds, files, lost>>
  PROVE  StagedInv'
<1>1. /\ DOMAIN req' = RequestId /\ req'[n] = Gone
      /\ \A m \in RequestId : m # n => req'[m] = req[m]
  BY Replaced, Zenon
<1>2. Active(req[n]) /\ req[n].phase # "pending"
  BY DEF Active
<1>3. Sound(Gone) /\ Follows(req[n], Gone) /\ ~Active(Gone) /\ Gone.phase # "pending"
  <2>1. Gone.phase = "gone"
    BY FollowsGone, Zenon
  <2>2. Gone.phase # "pending"
    BY <2>1
  <2> QED
    BY <2>2, SoundEnds, FollowsGone, Zenon
<1>4. Waiting(req[n]) = {} /\ Waiting(Gone) = {} /\ Distinct(Gone)
  BY <1>2, <1>3, BringsNone, Zenon
<1>5. DescriptorInv /\ UNCHANGED <<fds, files, lost>>
  BY Zenon DEF StagedInv
<1>6. DescriptorInv'
  BY <1>1, <1>4, <1>5, SameDescriptorsOne, Zenon
<1> QED
  BY <1>1, <1>2, <1>3, <1>6, HandedOver, Zenon

\* Abandon.
LEMMA AbandonKeeps ==
  ASSUME StagedInv, NEW n \in RequestId, Abandon(n)
  PROVE  StagedInv'
BY PartsKeep, Zenon DEF Abandon

\* IntoParts.
LEMMA IntoPartsKeeps ==
  ASSUME StagedInv, NEW n \in RequestId, IntoParts(n)
  PROVE  StagedInv'
BY PartsKeep, Zenon DEF IntoParts

\* DropTicket.
LEMMA DropTicketKeeps ==
  ASSUME StagedInv, NEW n \in RequestId, DropTicket(n)
  PROVE  StagedInv'
<1>1. PICK t : t = IF req[n].kernel = "over" THEN Gone ELSE [req[n] EXCEPT !.phase = "gone", !.cqes = <<>>]
  BY Zenon
<1>2. req' = [req EXCEPT ![n] = t]
  BY <1>1, Zenon DEF DropTicket
<1>3. Sound(req[n]) /\ req[n].phase = "pending" /\ DescriptorInv
  BY Zenon DEF StagedInv, DropTicket
<1>4. /\ DOMAIN req' = RequestId /\ req'[n] = t
      /\ \A m \in RequestId : m # n => req'[m] = req[m]
  BY <1>2, Replaced, Zenon
<1>5. Active(req[n])
  BY <1>3 DEF Active
<1>6. Sound(t) /\ Follows(req[n], t) /\ t.phase = "gone" /\ t.cqes = <<>>
  <2>1. CASE req[n].kernel = "over"
    BY <1>1, <2>1, SoundEnds, FollowsGone, Zenon
  <2>2. CASE req[n].kernel # "over"
    <3>1. Sound(t) /\ t.phase = "gone" /\ t.args = req[n].args /\ t.kernel = req[n].kernel /\ t.cqes = <<>>
      BY <1>1, <1>3, <2>2, SoundDropTicket, Zenon
    <3>2. DOMAIN t.cqes = {} /\ t.phase \notin {"prepared", "done"}
      BY <3>1
    <3>3. Follows(req[n], t)
      BY <1>5, <3>1, <3>2, Zenon DEF Follows
    <3> QED
      BY <3>1, <3>3
  <2> QED
    BY <2>1, <2>2, Zenon
<1>7. Unclaimed(n, req[n].cqes) = Waiting(req[n])
  BY <1>3, Zenon DEF Unclaimed, Waiting, Brings
<1>8. Waiting(t) = {} /\ Distinct(t)
  BY <1>6, BringsNone, Zenon
<1>9. lost' = lost \union Waiting(req[n]) /\ UNCHANGED <<fds, files>>
  BY <1>7, Zenon DEF DropTicket
<1>10. DescriptorInv'
  <2>1. PICK gone : gone = Waiting(req[n])
    BY Zenon
  <2>2. gone \subseteq Waiting(req[n]) /\ Waiting(req'[n]) = Waiting(req[n]) \ gone /\ lost' = lost \union gone
    BY <1>4, <1>8, <1>9, <2>1
  <2> QED
    BY <1>3, <1>4, <1>8, <1>9, <2>2, LostDescriptors, Zenon
<1>11. Hand(Owned(req[n].args), -1) /\ UNCHANGED <<mem, paths>>
  BY Zenon DEF DropTicket
<1> QED
  BY <1>4, <1>5, <1>6, <1>10, <1>11, HandedOver, Zenon

=============================================================================
