------------------------------ MODULE Staging ------------------------------
(***************************************************************************)
(* Storage that a request owns and the layouts the library stages in it.   *)
(* A storage is a run of cells at a fixed address (StableBuffer); a cell   *)
(* is the unit in which the layouts are measured.  The sizes of the        *)
(* kernel's structures are constants.                                      *)
(***************************************************************************)
EXTENDS Integers, Sequences

CONSTANTS
  Storage,       \* the stable buffers of the application
  NoStorage,     \* stands for a storage a request does not have
  Size, Base,    \* length of a storage in cells, and its address
  Align, IntAlign, EpollAlign,  \* alignment of structures, of i32, of EpollEvent
  MsgHdrLen, IoVecLen, SockAddrLen, StatxLen, OpenHowLen, SiginfoLen,
  FutexWaitvLen, EpollEventLen, TimespecLen,
  NamelenField, FlagsField,  \* cells of a MsgHdr the kernel writes back
  SiginfoFields,             \* cells of a WaitidSiginfo that have a name
  MaxIov, MaxWaiters         \* UIO_MAXIOV and FUTEX_WAITV_MAX

ASSUME StagingAssumption ==
  /\ NoStorage \notin Storage
  /\ Size \in [Storage -> Nat] /\ Base \in [Storage -> Nat]
  /\ {Align, IntAlign, EpollAlign} \subseteq Nat \ {0}
  /\ {MsgHdrLen, IoVecLen, SockAddrLen, StatxLen, OpenHowLen, SiginfoLen,
      FutexWaitvLen, EpollEventLen, TimespecLen} \subseteq Nat \ {0}
  /\ SockAddrLen >= 2  \* the family and the rest
  /\ {NamelenField, FlagsField} \subseteq 0 .. MsgHdrLen - 1
  /\ SiginfoFields \subseteq 0 .. SiginfoLen - 1
  /\ MaxIov \in Nat /\ MaxWaiters \in Nat

Span(s, from, len) == {s} \X (from .. from + len - 1)

Cells(s) == Span(s, 0, Size[s])

\* What a request carries: which kind, the variant asked for, and its owned
\* paths, buffers with their lengths, and staging or destination storage.
Request(kind, asked, paths, bufs, lens, store) ==
  [kind |-> kind, asked |-> asked, paths |-> paths, bufs |-> bufs, lens |-> lens, store |-> store]

Owned(a) ==
  {a.paths[i] : i \in DOMAIN a.paths} \union {a.bufs[i] : i \in DOMAIN a.bufs}
    \union ({a.store} \ {NoStorage})

\* The entry every builder starts from.  names are C strings the kernel scans;
\* parts are what the constructor wrote, in order; reads and writes are the other
\* cells the kernel is told of.
Zeroed ==
  [op |-> "nop", flags |-> {}, names |-> <<>>, parts |-> <<>>, reads |-> {}, writes |-> {}]

Part(tag, cells) == [tag |-> tag, cells |-> cells]

PartCells(parts) == UNION {parts[i].cells : i \in DOMAIN parts}

-----------------------------------------------------------------------------
\* Checks shared by the constructors.

\* The length check, then the alignment check on the address.
FitError(s, needed, align) ==
  IF Size[s] < needed THEN "TooSmall"
  ELSE IF Base[s] % align # 0 THEN "Misaligned"
  ELSE "ok"

\* with_lens: a length past the end of its buffer is clamped to it.
Clamp(a) ==
  [i \in DOMAIN a.bufs |-> IF a.lens[i] > Size[a.bufs[i]] THEN Size[a.bufs[i]] ELSE a.lens[i]]

BufferCells(a) == UNION {Span(a.bufs[i], 0, Clamp(a)[i]) : i \in DOMAIN a.bufs}

\* from_failed_cqe, cqe_is_ok.
CqeIsOk(result) == result >= 0

-----------------------------------------------------------------------------
\* OwnedPath.

IsNul(content) == content[1] \in {"nul", "zero"}

\* The index of the first NUL of a storage's contents, or its size.
ScanEnd(s, contents) ==
  LET first(i) == IsNul(contents[i]) /\ \A j \in 0 .. i - 1 : ~IsNul(contents[j])
  IN  IF \E i \in 0 .. Size[s] - 1 : first(i)
        THEN CHOOSE i \in 0 .. Size[s] - 1 : first(i)
        ELSE Size[s]

\* mutant of CopyError: no room for the terminator
CopyErrorNoTerminator(s, len, interior) ==
  IF len = 0 THEN "Empty"
  ELSE IF interior THEN "NotTerminated"
  ELSE IF Size[s] < len THEN "TooLong"
  ELSE "ok"

CopyError(s, len, interior) ==
  IF len = 0 THEN "Empty"
  ELSE IF interior THEN "NotTerminated"
  ELSE IF Size[s] < len + 1 THEN "TooLong"
  ELSE "ok"

CopyInto(contents, len) ==
  [i \in DOMAIN contents |->
     IF i < len THEN <<"text", 0>> ELSE IF i = len THEN <<"nul", 0>> ELSE contents[i]]

AdoptError(s, contents) ==
  IF ScanEnd(s, contents) = Size[s] THEN "NotTerminated"
  ELSE IF ScanEnd(s, contents) = 0 THEN "Empty"
  ELSE "ok"

=============================================================================
