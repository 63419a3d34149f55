----------------------------- MODULE ValueKinds -----------------------------
(***************************************************************************)
(* The owned requests that stage one value or array for the kernel or      *)
(* receive one from it, and those that carry no storage.                   *)
(***************************************************************************)
EXTENDS Staging

\* staged_addr.rs: the address is bytes, so only its length is checked.
AddrNew(a) == IF Size[a.store] < SockAddrLen THEN "TooSmall" ELSE "ok"

AddrSqe(a, op) ==
  LET addr == Span(a.store, 0, SockAddrLen)
  IN [Zeroed EXCEPT !.op = op, !.parts = <<Part("name", addr)>>, !.reads = addr]

\* bind.rs
BindSqe(a) == AddrSqe(a, "bind")

BindOutcome(result) ==
  CASE result = -98 -> "AddressInUse"
    [] result = -22 -> "AlreadyBound"
    [] result = -13 -> "PermissionDenied"
    [] result >= 0 -> "Bound"
    [] OTHER -> "Failed"

\* connect.rs
ConnectSqe(a) == AddrSqe(a, "connect")

ConnectOutcome(result) ==
  CASE result = -111 -> "Refused"
    [] result = -106 -> "AlreadyConnected"
    [] result = -110 -> "TimedOut"
    [] result = -101 -> "NetworkUnreachable"
    [] result >= 0 -> "Connected"
    [] OTHER -> "Failed"

-----------------------------------------------------------------------------
\* staged_value.rs

ValueNew(a, len, align) == FitError(a.store, len, align)

ValueSqe(a, len) ==
  LET value == Span(a.store, 0, len)
  IN [Zeroed EXCEPT !.parts = <<Part("value", value)>>, !.reads = value]

\* timeout.rs: the variant is the clock mode and the barrier's count.
TimeoutNew(a) == ValueNew(a, TimespecLen, Align)

TimeoutSqe(a) ==
  [ValueSqe(a, TimespecLen) EXCEPT !.op = "timeout",
                                   !.flags = IF a.asked = "at" THEN {"ABS"} ELSE {}]

Expiry(result) ==
  CASE result = -62 -> "Expired"
    [] result = -125 -> "Cancelled"
    [] result >= 0 -> "CountReached"
    [] OTHER -> "Failed"

\* epoll.rs
EpollCtlNew(a) == ValueNew(a, EpollEventLen, EpollAlign)

EpollCtlSqe(a) == [ValueSqe(a, EpollEventLen) EXCEPT !.op = "epoll_ctl", !.flags = {a.asked}]

EpollOutcome(result) ==
  CASE result = -17 -> "AlreadyRegistered"
    [] result = -2 -> "NotRegistered"
    [] result >= 0 -> "Applied"
    [] OTHER -> "Failed"

-----------------------------------------------------------------------------
\* epollwait.rs: as many events as fit.

EpollWaitNew(a) == FitError(a.store, EpollEventLen, EpollAlign)

MaxEvents(a) == Size[a.store] \div EpollEventLen

EpollWaitSqe(a) ==
  [Zeroed EXCEPT !.op = "epoll_wait", !.writes = Span(a.store, 0, MaxEvents(a) * EpollEventLen)]

EpollWaitEvents(a, result) ==
  IF CqeIsOk(result) THEN Span(a.store, 0, result * EpollEventLen) ELSE {}

\* waitid.rs: without a destination the pointer is null.
WaitIdNew(a) == IF a.store = NoStorage THEN "ok" ELSE FitError(a.store, SiginfoLen, IntAlign)

WaitIdSqe(a) ==
  [Zeroed EXCEPT !.op = "waitid",
                 !.writes = IF a.store = NoStorage THEN {} ELSE Span(a.store, 0, SiginfoLen)]

WaitIdInfo(a, result) ==
  IF result < 0 \/ a.store = NoStorage THEN {} ELSE {a.store} \X SiginfoFields

\* futexwaitv.rs: a.lens has an entry for each waiter.
FutexWaitvNew(a) ==
  IF a.lens = <<>> THEN "NoWaiters"
  ELSE IF Len(a.lens) > MaxWaiters THEN "TooManyWaiters"
  ELSE FitError(a.store, FutexWaitvLen * Len(a.lens), Align)

FutexWaitvSqe(a) ==
  LET array == Span(a.store, 0, FutexWaitvLen * Len(a.lens))
  IN [Zeroed EXCEPT !.op = "futex_waitv", !.parts = <<Part("waiters", array)>>, !.reads = array]

-----------------------------------------------------------------------------
\* Requests without storage.

\* futex.rs
FutexWaitSqe(a) == [Zeroed EXCEPT !.op = "futex_wait"]

FutexWaitOutcome(result) ==
  CASE result = 0 -> "Woken"
    [] result = -11 -> "ValueMismatch"
    [] result = -125 -> "Cancelled"
    [] OTHER -> "Failed"

FutexWakeSqe(a) == [Zeroed EXCEPT !.op = "futex_wake"]

\* cancel.rs: the key is an identity, a descriptor or nothing; ALL is the caller's.
CancelSqe(a) ==
  [Zeroed EXCEPT !.op = "cancel",
                 !.flags = (IF a.asked \in {"fd", "fd_all"} THEN {"FD"} ELSE {})
                             \union (IF a.asked \in {"any", "any_all"} THEN {"ANY"} ELSE {})
                             \union (IF a.asked \in {"fd_all", "any_all"} THEN {"ALL"} ELSE {})]

CancelOutcome(result) ==
  CASE result = -2 -> "NotFound"
    [] result = -114 -> "AlreadyCompleting"
    [] result >= 0 -> "Applied"
    [] OTHER -> "Failed"

\* msgring.rs
MsgRingSqe(a) == [Zeroed EXCEPT !.op = "msg_ring"]

=============================================================================
