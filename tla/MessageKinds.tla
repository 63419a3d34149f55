---------------------------- MODULE MessageKinds ----------------------------
(***************************************************************************)
(* The owned requests that move bytes: reads and writes of one buffer or   *)
(* of several, messages, and the zero-copy sends.                          *)
(***************************************************************************)
EXTENDS Staging

\* request.rs
ReadWriteSqe(a) ==
  IF a.asked = "read"
    THEN [Zeroed EXCEPT !.op = "read", !.writes = BufferCells(a)]
    ELSE [Zeroed EXCEPT !.op = "write", !.reads = BufferCells(a)]

TransferOutcome(result) ==
  IF ~CqeIsOk(result) THEN "failed" ELSE IF result = 0 THEN "empty" ELSE "moved"

\* zerocopy.rs
SendZcSqe(a) == [Zeroed EXCEPT !.op = "send_zc", !.reads = BufferCells(a)]

\* mutant of ZcResult: the notification's result is reported
ZcResultNotified(sent, notified) == notified

\* The send's own completion carries the count, if it was recorded.
ZcResult(sent, notified) == IF sent = <<>> THEN notified ELSE sent[1]

-----------------------------------------------------------------------------
\* vectored.rs: the array of descriptors is staged in a.store.

VectoredBuild(a) == FitError(a.store, IoVecLen * Len(a.bufs), Align)

VectoredSqe(a) ==
  LET array == Span(a.store, 0, IoVecLen * Len(a.bufs))
  IN [Zeroed EXCEPT !.op = IF a.asked = "read" THEN "readv" ELSE "writev",
                    !.parts = <<Part("iovec", array)>>,
                    !.reads = array \union IF a.asked = "read" THEN {} ELSE BufferCells(a),
                    !.writes = IF a.asked = "read" THEN BufferCells(a) ELSE {}]

VectoredOutcome(result) ==
  IF ~CqeIsOk(result) THEN "failed" ELSE IF result = 0 THEN "empty" ELSE "moved"

-----------------------------------------------------------------------------
\* msgregion.rs: header, descriptors and address, staged one after the other.

\* mutant of NameOffset: room for one descriptor only
NameOffsetOneVec(count) == MsgHdrLen + IoVecLen

NameOffset(count) == MsgHdrLen + IoVecLen * count

BytesFor(count) == NameOffset(count) + SockAddrLen

Stage(s, count) ==
  IF count > MaxIov THEN "TooManyDescriptors"
  ELSE FitError(s, BytesFor(count), Align)

Hdr(a) == Span(a.store, 0, MsgHdrLen)

Vecs(a) == Span(a.store, MsgHdrLen, IoVecLen * Len(a.bufs))

Name(a) == Span(a.store, NameOffset(Len(a.bufs)), SockAddrLen)

\* What the header has the kernel look at besides itself.
Reached(a, named) == Vecs(a) \union IF named THEN Name(a) ELSE {}

-----------------------------------------------------------------------------
\* sendmsg.rs and sendmsg_zc.rs

SendmsgBuild(a) == Stage(a.store, Len(a.bufs))

SendmsgSqe(a) ==
  LET named == a.asked = "to"
  IN [Zeroed EXCEPT !.op = "sendmsg",
                    !.parts = <<Part("iovec", Vecs(a))>>
                                \o (IF named THEN <<Part("name", Name(a))>> ELSE <<>>)
                                \o <<Part("header", Hdr(a))>>,
                    !.reads = Hdr(a) \union Reached(a, named) \union BufferCells(a)]

SendmsgOutcome(result) ==
  IF ~CqeIsOk(result) THEN "failed" ELSE IF result = 0 THEN "empty" ELSE "moved"

SendmsgZcBuild(a) == Stage(a.store, Len(a.bufs))

SendmsgZcSqe(a) == [SendmsgSqe(a) EXCEPT !.op = "sendmsg_zc"]

SendmsgZcResult(sent, notified) == IF sent = <<>> THEN notified ELSE sent[1]

-----------------------------------------------------------------------------
\* recvmsg.rs

RecvmsgBuild(a) == Stage(a.store, Len(a.bufs))

\* The address slot is zeroed, and the kernel writes it only if it was asked to.
RecvmsgSqe(a) ==
  LET named == a.asked = "peer"
  IN [Zeroed EXCEPT !.op = "recvmsg",
                    !.parts = <<Part("iovec", Vecs(a))>>
                                \o (IF named THEN <<Part("zero", Name(a))>> ELSE <<>>)
                                \o <<Part("header", Hdr(a))>>,
                    !.reads = Hdr(a) \union Vecs(a),
                    !.writes = BufferCells(a) \union {<<a.store, NamelenField>>, <<a.store, FlagsField>>}
                                 \union IF named THEN Name(a) ELSE {}]

\* received: the flags are read out of the header.
RecvmsgReceived(a, result) == IF CqeIsOk(result) THEN {<<a.store, FlagsField>>} ELSE {}

RecvmsgPeer(a, result, reported) ==
  IF ~CqeIsOk(result) \/ a.asked # "peer" THEN "none"
  ELSE CASE reported = 0 -> "none"
         [] reported > SockAddrLen -> "truncated"
         [] reported \in 1 .. SockAddrLen - 1 -> "other"
         [] OTHER -> "v4"

\* The cells of the address slot that peer's answer gives out.
RecvmsgPeerCells(a, peer) ==
  CASE peer = "v4" -> Name(a)
    [] peer = "other" -> {<<a.store, NameOffset(Len(a.bufs))>>}
    [] OTHER -> {}

=============================================================================
