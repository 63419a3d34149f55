--------------------------- MODULE StagedRequests ---------------------------
(***************************************************************************)
(* Every kind of owned request over the memory it stages, reads and is     *)
(* given: an application builds, pushes, redeems and drops requests over a *)
(* few storages while the kernel carries them out.  Identities, receipts   *)
(* and the queue are modelled in OwnedRequests; here a request's own       *)
(* completions arrive in order.                                            *)
(***************************************************************************)
EXTENDS FileKinds, MessageKinds, ValueKinds, FiniteSets

CONSTANTS
  MaxRequests,  \* bound on the requests a behaviour builds
  Fd,           \* the process's descriptor numbers
  PathLens,     \* lengths of the paths the application copies
  Arguments     \* the requests the application may build

OnePath == {"open", "openat2", "path_op", "statx"}
TwoPaths == {"rename", "link"}
Buffers == {"request", "send_zc", "vectored", "sendmsg", "sendmsg_zc", "recvmsg"}
Stored == {"openat2", "statx", "pipe", "files_update", "vectored", "sendmsg", "sendmsg_zc", "recvmsg",
           "bind", "connect", "timeout", "epoll_ctl", "epoll_wait", "futex_waitv"}
Bare == {"accept", "fixed_fd_install", "futex_wait", "futex_wake", "cancel", "msg_ring"}

\* The variants of a kind that the API can name.
Variants(kind) ==
  CASE kind = "openat2" -> {"existing", "create", "create_new", "tmpfile", "stray"}
    [] kind = "statx" -> {"stat", "reserved"}
    [] kind = "path_op" -> {"mkdir", "rmdir", "unlink"}
    [] kind = "rename" -> {"replace", "no_replace", "exchange"}
    [] kind = "link" -> {"symlink", "link"}
    [] kind \in {"request", "vectored"} -> {"read", "write"}
    [] kind \in {"sendmsg", "sendmsg_zc"} -> {"to", "connected"}
    [] kind = "recvmsg" -> {"peer", "connected"}
    [] kind = "timeout" -> {"after", "at"}
    [] kind = "epoll_ctl" -> {"add", "modify", "delete"}
    [] kind = "cancel" -> {"user_data", "fd", "fd_all", "any", "any_all"}
    [] OTHER -> {""}

\* The parameters a constructor of the kind has.  They are moved in, so no
\* storage is two of them.
WellFormed(a) ==
  /\ a.kind \in OnePath \union TwoPaths \union Buffers \union Stored \union Bare \union {"waitid"}
  /\ a.asked \in Variants(a.kind)
  /\ a.paths \in Seq(Storage) /\ a.bufs \in Seq(Storage) /\ a.lens \in Seq(Nat)
  /\ Len(a.paths) = IF a.kind \in OnePath THEN 1 ELSE IF a.kind \in TwoPaths THEN 2 ELSE 0
  /\ Len(a.bufs) = IF a.kind \in Buffers THEN Len(a.lens) ELSE 0
  /\ a.store \in IF a.kind \in Stored THEN Storage
                 ELSE IF a.kind = "waitid" THEN Storage \union {NoStorage} ELSE {NoStorage}
  /\ \A i, j \in DOMAIN a.paths : a.paths[i] = a.paths[j] => i = j
  /\ \A i, j \in DOMAIN a.bufs : a.bufs[i] = a.bufs[j] => i = j
  /\ \A i \in DOMAIN a.paths, j \in DOMAIN a.bufs : a.paths[i] # a.bufs[j]
  /\ \A i \in DOMAIN a.paths : a.paths[i] # a.store
  /\ \A i \in DOMAIN a.bufs : a.bufs[i] # a.store

ASSUME StagedAssumption ==
  /\ MaxRequests \in Nat /\ Fd \subseteq Nat /\ PathLens \subseteq Nat
  /\ \A a \in Arguments : WellFormed(a)

RequestId == 1 .. MaxRequests

VARIABLES
  mem,     \* contents of every cell: who wrote it last, and what
  paths,   \* length of the OwnedPath a storage is wrapped in, 0 for none
  holder,  \* 0: the application; n: request n; -1: leaked
  req,     \* the requests: typestate, arguments, kernel's progress, completions
  fds,     \* open descriptors
  files,   \* the File and Socket objects: descriptor and request it came from
  lost     \* descriptors whose completion nobody redeemed

vars == <<mem, paths, holder, req, fds, files, lost>>

Unused ==
  [phase |-> "unused", args |-> Request("none", "", <<>>, <<>>, <<>>, NoStorage), kernel |-> "idle",
   cqes |-> <<>>, sent |-> <<>>, last |-> <<>>, missed |-> FALSE]

\* What is left of a request that the application and the kernel are done with.
Gone == [Unused EXCEPT !.phase = "gone", !.kernel = "over"]

Init ==
  /\ mem = [s \in Storage |-> [i \in 0 .. Size[s] - 1 |-> <<"app", 0>>]]
  /\ paths = [s \in Storage |-> 0]
  /\ holder = [s \in Storage |-> 0]
  /\ req = [n \in RequestId |-> Unused]
  /\ fds = {} /\ files = {} /\ lost = {}

\* mem with value in the given cells.
Written(memory, cells, value) ==
  [s \in Storage |-> [i \in DOMAIN memory[s] |-> IF <<s, i>> \in cells THEN value ELSE memory[s][i]]]

Hand(storages, to) == holder' = [s \in Storage |-> IF s \in storages THEN to ELSE holder[s]]

-----------------------------------------------------------------------------
\* What the kinds have in common.

NewError(a) ==
  CASE a.kind = "openat2" -> Openat2At(a)
    [] a.kind = "statx" -> StatxAt(a)
    [] a.kind = "pipe" -> PipeNew(a)
    [] a.kind = "files_update" -> FilesUpdateAt(a)
    [] a.kind = "vectored" -> VectoredBuild(a)
    [] a.kind = "sendmsg" -> SendmsgBuild(a)
    [] a.kind = "sendmsg_zc" -> SendmsgZcBuild(a)
    [] a.kind = "recvmsg" -> RecvmsgBuild(a)
    [] a.kind \in {"bind", "connect"} -> AddrNew(a)
    [] a.kind = "timeout" -> TimeoutNew(a)
    [] a.kind = "epoll_ctl" -> EpollCtlNew(a)
    [] a.kind = "epoll_wait" -> EpollWaitNew(a)
    [] a.kind = "waitid" -> WaitIdNew(a)
    [] a.kind = "futex_waitv" -> FutexWaitvNew(a)
    [] OTHER -> "ok"

Sqe(a) ==
  CASE a.kind = "open" -> OpenSqe(a)
    [] a.kind = "openat2" -> Openat2Sqe(a)
    [] a.kind = "path_op" -> PathOpSqe(a)
    [] a.kind = "rename" -> RenameSqe(a)
    [] a.kind = "link" -> LinkSqe(a)
    [] a.kind = "statx" -> StatxSqe(a)
    [] a.kind = "pipe" -> PipeSqe(a)
    [] a.kind = "files_update" -> FilesUpdateSqe(a)
    [] a.kind = "accept" -> AcceptSqe(a)
    [] a.kind = "fixed_fd_install" -> FixedFdInstallSqe(a)
    [] a.kind = "request" -> ReadWriteSqe(a)
    [] a.kind = "send_zc" -> SendZcSqe(a)
    [] a.kind = "vectored" -> VectoredSqe(a)
    [] a.kind = "sendmsg" -> SendmsgSqe(a)
    [] a.kind = "sendmsg_zc" -> SendmsgZcSqe(a)
    [] a.kind = "recvmsg" -> RecvmsgSqe(a)
    [] a.kind = "bind" -> BindSqe(a)
    [] a.kind = "connect" -> ConnectSqe(a)
    [] a.kind = "timeout" -> TimeoutSqe(a)
    [] a.kind = "epoll_ctl" -> EpollCtlSqe(a)
    [] a.kind = "epoll_wait" -> EpollWaitSqe(a)
    [] a.kind = "waitid" -> WaitIdSqe(a)
    [] a.kind = "futex_waitv" -> FutexWaitvSqe(a)
    [] a.kind = "futex_wait" -> FutexWaitSqe(a)
    [] a.kind = "futex_wake" -> FutexWakeSqe(a)
    [] a.kind = "cancel" -> CancelSqe(a)
    [] OTHER -> MsgRingSqe(a)

\* The descriptors redeem or record takes ownership of.
Claim(a, result) ==
  CASE a.kind = "open" -> OpenClaim(result)
    [] a.kind = "openat2" -> Openat2Claim(result)
    [] a.kind = "accept" -> AcceptClaim(result)
    [] a.kind = "fixed_fd_install" -> FixedFdInstallClaim(result)
    [] OTHER -> {}

\* What the accessors of the completed form say of a completion.
Outcome(a, sent, cqe) ==
  LET result == cqe.result
  IN CASE a.kind = "path_op" -> PathOpOutcome(result)
       [] a.kind = "rename" -> RenameOutcome(result)
       [] a.kind = "link" -> LinkOutcome(result)
       [] a.kind = "request" -> TransferOutcome(result)
       [] a.kind = "vectored" -> VectoredOutcome(result)
       [] a.kind = "sendmsg" -> SendmsgOutcome(result)
       [] a.kind = "send_zc" -> TransferOutcome(ZcResult(sent, result))
       [] a.kind = "sendmsg_zc" -> TransferOutcome(SendmsgZcResult(sent, result))
       [] a.kind = "recvmsg" -> RecvmsgPeer(a, result, cqe.reported)
       [] a.kind = "bind" -> BindOutcome(result)
       [] a.kind = "connect" -> ConnectOutcome(result)
       [] a.kind = "timeout" -> Expiry(result)
       [] a.kind = "epoll_ctl" -> EpollOutcome(result)
       [] a.kind = "futex_wait" -> FutexWaitOutcome(result)
       [] a.kind = "cancel" -> CancelOutcome(result)
       [] OTHER -> IF CqeIsOk(result) THEN "ok" ELSE "failed"

\* The cells that the accessors of the completed form present as the kernel's.
Shown(a, cqe) ==
  CASE a.kind = "statx" -> StatxStat(a, cqe.result)
    [] a.kind = "pipe" -> PipeFds(a, cqe.result)
    [] a.kind = "epoll_wait" -> EpollWaitEvents(a, cqe.result)
    [] a.kind = "waitid" -> WaitIdInfo(a, cqe.result)
    [] a.kind = "recvmsg" ->
         RecvmsgReceived(a, cqe.result)
           \union RecvmsgPeerCells(a, RecvmsgPeer(a, cqe.result, cqe.reported))
    [] OTHER -> {}

ZeroCopy(a) == a.kind \in {"send_zc", "sendmsg_zc"}

Installs(a) == a.kind \in {"open", "openat2", "fixed_fd_install", "accept"}

-----------------------------------------------------------------------------
\* The application: paths.

CopyPath(s, len, interior) ==
  /\ holder[s] = 0 /\ paths[s] = 0
  /\ CopyError(s, len, interior) = "ok"
  /\ mem' = [mem EXCEPT ![s] = CopyInto(mem[s], len)]
  /\ paths' = [paths EXCEPT ![s] = len]
  /\ UNCHANGED <<holder, req, fds, files, lost>>

AdoptPath(s) ==
  /\ holder[s] = 0 /\ paths[s] = 0
  /\ AdoptError(s, mem[s]) = "ok"
  /\ paths' = [paths EXCEPT ![s] = ScanEnd(s, mem[s])]
  /\ UNCHANGED <<mem, holder, req, fds, files, lost>>

IntoStorage(s) ==
  /\ holder[s] = 0 /\ paths[s] # 0
  /\ paths' = [paths EXCEPT ![s] = 0]
  /\ UNCHANGED <<mem, holder, req, fds, files, lost>>

-----------------------------------------------------------------------------
\* The application: requests.

\* Moved into the constructor: each storage once, paths as OwnedPaths.
Movable(a) ==
  /\ \A s \in Owned(a) : holder[s] = 0
  /\ \A i \in DOMAIN a.paths : paths[a.paths[i]] # 0
  /\ \A i \in DOMAIN a.bufs : paths[a.bufs[i]] = 0
  /\ a.store # NoStorage => paths[a.store] = 0

\* The constructor writes its parts one after the other: where they overlap,
\* the last one is left.
Staged(n, parts) ==
  [s \in Storage |-> [i \in DOMAIN mem[s] |->
     LET over == {k \in DOMAIN parts : <<s, i>> \in parts[k].cells}
     IN  IF over = {} THEN mem[s][i]
         ELSE <<parts[CHOOSE k \in over : \A other \in over : other <= k].tag, n>>]]

\* A constructor that accepts; one that refuses hands everything back.
Prepare(n, a) ==
  /\ req[n].phase = "unused"
  /\ \A m \in 1 .. n - 1 : req[m].phase # "unused"
  /\ Movable(a)
  /\ NewError(a) = "ok"
  /\ req' = [req EXCEPT ![n].phase = "prepared", ![n].args = a]
  /\ mem' = Staged(n, Sqe(a).parts)
  /\ Hand(Owned(a), n)
  /\ UNCHANGED <<paths, fds, files, lost>>

\* into_parts of a prepared request.
Abandon(n) ==
  /\ req[n].phase = "prepared"
  /\ req' = [req EXCEPT ![n] = Gone]
  /\ Hand(Owned(req[n].args), 0)
  /\ UNCHANGED <<mem, paths, fds, files, lost>>

\* An accepted push; after a refused one reclaim_unsubmitted rebuilds the
\* prepared request from the same fields.
Push(n) ==
  /\ req[n].phase = "prepared"
  /\ req' = [req EXCEPT ![n].phase = "pending", ![n].kernel = "running"]
  /\ UNCHANGED <<mem, paths, holder, fds, files, lost>>

Oldest(n) == Head(req[n].cqes)

Arrived(n, more) ==
  /\ req[n].phase = "pending"
  /\ req[n].cqes # <<>>
  /\ Oldest(n).more = more

\* The File or Socket objects made from a completion.
TakeFiles(n, result) == files' = files \union (Claim(req[n].args, result) \X {n})

RecordSent(n) ==
  /\ Arrived(n, TRUE) /\ ZeroCopy(req[n].args)
  /\ req' = [req EXCEPT ![n].sent = <<Oldest(n).result>>, ![n].cqes = Tail(req[n].cqes)]
  /\ UNCHANGED <<mem, paths, holder, fds, files, lost>>

\* MultishotAccept::record; the last completion ends the request and may carry a
\* connection as well.
Record(n) ==
  /\ req[n].args.kind = "accept"
  /\ Arrived(n, TRUE) \/ Arrived(n, FALSE)
  /\ req' = [req EXCEPT ![n] = IF Oldest(n).more THEN [@ EXCEPT !.cqes = Tail(req[n].cqes)] ELSE Gone]
  /\ TakeFiles(n, Oldest(n).result)
  /\ UNCHANGED <<mem, paths, holder, fds, lost>>

\* redeem: the storage moves into the completed form, a descriptor into a File.
Redeem(n) ==
  /\ Arrived(n, FALSE) /\ req[n].args.kind # "accept"
  /\ req' = [req EXCEPT ![n].phase = "done", ![n].cqes = <<>>, ![n].last = <<Oldest(n)>>]
  /\ TakeFiles(n, Oldest(n).result)
  /\ UNCHANGED <<mem, paths, holder, fds, lost>>

\* Descriptors in completions that nobody will redeem.
Unclaimed(n, cqes) ==
  {cqes[i].result : i \in {j \in DOMAIN cqes : Installs(req[n].args) /\ cqes[j].result >= 0}}

\* A notice or receipt that is dropped unread.
DropEvent(n) ==
  /\ req[n].phase = "pending" /\ req[n].cqes # <<>>
  /\ req' = [req EXCEPT ![n].cqes = Tail(req[n].cqes), ![n].missed = TRUE]
  /\ lost' = lost \union Unclaimed(n, <<Oldest(n)>>)
  /\ UNCHANGED <<mem, paths, holder, fds, files>>

\* Dropping or forgetting a ticket leaks its storage.
DropTicket(n) ==
  /\ req[n].phase = "pending"
  /\ req' = [req EXCEPT ![n] = IF @.kernel = "over" THEN Gone
                               ELSE [@ EXCEPT !.phase = "gone", !.cqes = <<>>]]
  /\ Hand(Owned(req[n].args), -1)
  /\ lost' = lost \union Unclaimed(n, req[n].cqes)
  /\ UNCHANGED <<mem, paths, fds, files>>

\* into_parts of a completed request; paths come back as OwnedPaths.
IntoParts(n) ==
  /\ req[n].phase = "done"
  /\ req' = [req EXCEPT ![n] = Gone]
  /\ Hand(Owned(req[n].args), 0)
  /\ UNCHANGED <<mem, paths, fds, files, lost>>

\* Drop of a File or Socket closes its descriptor.
CloseFile(file) ==
  /\ file \in files
  /\ files' = files \ {file}
  /\ fds' = fds \ {file[1]}
  /\ UNCHANGED <<mem, paths, holder, req, lost>>

-----------------------------------------------------------------------------
\* The kernel.

Cqe(result, more, happened, reported) ==
  [result |-> result, more |-> more, happened |-> happened, reported |-> reported]

Plain(results) ==
  {Cqe(r, FALSE, IF r < 0 THEN "failed" ELSE "ok", 0) : r \in results}

Named(table) == {Cqe(entry[1], FALSE, entry[2], 0) : entry \in table}

Moved == Named({<<-5, "failed">>, <<0, "empty">>, <<1, "moved">>})

\* The completions the kernel may post for a request that it carries out at once.
Completions(a) ==
  CASE a.kind \in {"request", "vectored", "sendmsg"} -> Moved
    [] a.kind = "recvmsg" ->
         {Cqe(-11, FALSE, "none", 0)}
           \union IF a.asked = "peer"
                    THEN {Cqe(1, FALSE, "none", 0), Cqe(1, FALSE, "other", 1),
                          Cqe(1, FALSE, "v4", SockAddrLen), Cqe(1, FALSE, "truncated", SockAddrLen + 1)}
                    ELSE {Cqe(1, FALSE, "none", 0)}
    [] a.kind = "bind" ->
         Named({<<0, "Bound">>, <<-98, "AddressInUse">>, <<-22, "AlreadyBound">>,
                <<-13, "PermissionDenied">>, <<-9, "Failed">>})
    [] a.kind = "connect" ->
         Named({<<0, "Connected">>, <<-111, "Refused">>, <<-106, "AlreadyConnected">>,
                <<-110, "TimedOut">>, <<-101, "NetworkUnreachable">>, <<-9, "Failed">>})
    [] a.kind = "timeout" ->
         Named({<<-62, "Expired">>, <<0, "CountReached">>, <<-22, "Failed">>})
    [] a.kind = "epoll_ctl" ->
         Named({<<0, "Applied">>, <<-17, "AlreadyRegistered">>, <<-2, "NotRegistered">>, <<-9, "Failed">>})
    [] a.kind = "epoll_wait" -> Plain({-9} \union 0 .. MaxEvents(a))
    [] a.kind = "futex_wait" -> Named({<<0, "Woken">>, <<-11, "ValueMismatch">>, <<-14, "Failed">>})
    [] OTHER -> Plain({-5, 0})

\* What the kernel writes of what it was given.
Fills(a, cqe) ==
  IF cqe.result < 0 THEN {} ELSE
  CASE a.kind \in {"request", "vectored"} ->
         IF cqe.result > 0 THEN Sqe(a).writes ELSE {}
    [] a.kind = "recvmsg" ->
         BufferCells(a) \union {<<a.store, FlagsField>>}
           \union IF a.asked = "peer"
                    THEN {<<a.store, NamelenField>>}
                           \union {c \in Name(a) : c[2] < NameOffset(Len(a.bufs)) + cqe.reported}
                    ELSE {}
    [] a.kind = "epoll_wait" -> Span(a.store, 0, cqe.result * EpollEventLen)
    [] a.kind = "waitid" -> IF a.store = NoStorage THEN {} ELSE {a.store} \X SiginfoFields
    [] OTHER -> Sqe(a).writes

\* A request that made progress; its completion reaches the ticket, if there
\* still is one.
Posted(r, cqe, progress) ==
  IF r.phase = "pending" THEN [r EXCEPT !.kernel = progress, !.cqes = Append(@, cqe)]
  ELSE IF progress = "over" THEN Gone
  ELSE [r EXCEPT !.kernel = progress]

Post(n, cqe, progress) == req' = [req EXCEPT ![n] = Posted(@, cqe, progress)]

Finish(n, cqe) ==
  /\ req[n].kernel = "running"
  /\ ~Installs(req[n].args) /\ ~ZeroCopy(req[n].args) /\ req[n].args.kind # "cancel"
  /\ cqe \in Completions(req[n].args)
  /\ mem' = Written(mem, Fills(req[n].args, cqe), <<"kernel", n>>)
  /\ Post(n, cqe, "over")
  /\ UNCHANGED <<paths, holder, fds, files, lost>>

\* fd_install of the lowest free number; a full table is an error, which ends a
\* multishot request.  Without a ticket nobody closes the descriptor.
Install(n, more) ==
  /\ req[n].kernel = "running" /\ Installs(req[n].args)
  /\ more => req[n].args.kind = "accept"
  /\ \E fd \in Fd \ fds :
       /\ \A other \in Fd \ fds : fd <= other
       /\ fds' = fds \union {fd}
       /\ Post(n, Cqe(fd, more, "ok", 0), IF more THEN "running" ELSE "over")
       /\ lost' = IF req[n].phase = "pending" THEN lost ELSE lost \union {fd}
  /\ UNCHANGED <<mem, paths, holder, files>>

InstallFails(n) ==
  /\ req[n].kernel = "running" /\ Installs(req[n].args)
  /\ Post(n, Cqe(-24, FALSE, "failed", 0), "over")
  /\ UNCHANGED <<mem, paths, holder, fds, files, lost>>

\* A zero-copy send posts its count, and a notification when the pages are free;
\* an error posts one completion.
ZcSend(n) ==
  /\ req[n].kernel = "running" /\ ZeroCopy(req[n].args)
  /\ \/ Post(n, Cqe(1, TRUE, "moved", 0), "notify")
     \/ Post(n, Cqe(-32, FALSE, "failed", 0), "over")
  /\ UNCHANGED <<mem, paths, holder, fds, files, lost>>

ZcNotify(n) ==
  /\ req[n].kernel = "notify"
  /\ Post(n, Cqe(0, FALSE, "moved", 0), "over")
  /\ UNCHANGED <<mem, paths, holder, fds, files, lost>>

\* How a cancelled request's kind reports it.
CancelledAs(a) ==
  CASE a.kind \in {"timeout", "futex_wait"} -> "Cancelled"
    [] a.kind \in {"bind", "connect", "epoll_ctl"} -> "Failed"
    [] a.kind = "recvmsg" -> "none"
    [] OTHER -> "failed"

\* The kinds that act on a descriptor; the application has one that they share.
OnDescriptor ==
  {"request", "vectored", "sendmsg", "sendmsg_zc", "send_zc", "recvmsg", "bind",
   "connect", "accept", "epoll_ctl", "epoll_wait"}

\* The requests that a cancellation's key matches and that can still be stopped.
Matched(n) ==
  LET flags == Sqe(req[n].args).flags
      keyed(m) == IF "ANY" \in flags THEN TRUE
                  ELSE IF "FD" \in flags THEN req[m].args.kind \in OnDescriptor
                  ELSE m = req[n].args.lens[1]
  IN {m \in RequestId : req[m].kernel = "running" /\ req[m].args.kind # "cancel" /\ keyed(m)}

\* Cancellation n completes, and so do the requests it stopped.
Cancelled(n, stopped, result, happened) ==
  req' = [m \in RequestId |->
            IF m = n THEN Posted(req[n], Cqe(result, FALSE, happened, 0), "over")
            ELSE IF m \in stopped
              THEN Posted(req[m], Cqe(-125, FALSE, CancelledAs(req[m].args), 0), "over")
            ELSE req[m]]

\* With ALL the result is the number of requests stopped, which may be none.
\* Without it one match is stopped, or found too late, or there is none.
Cancel(n) ==
  /\ req[n].kernel = "running" /\ req[n].args.kind = "cancel"
  /\ IF "ALL" \in Sqe(req[n].args).flags
       THEN \E stopped \in SUBSET Matched(n), count \in 0 .. MaxRequests :
              count = Cardinality(stopped) /\ Cancelled(n, stopped, count, "Applied")
       ELSE \/ \E m \in Matched(n) : Cancelled(n, {m}, 0, "Applied")
            \/ Matched(n) # {} /\ Cancelled(n, {}, -114, "AlreadyCompleting")
            \/ Matched(n) = {} /\ Cancelled(n, {}, -2, "NotFound")
  /\ UNCHANGED <<mem, paths, holder, fds, files, lost>>

-----------------------------------------------------------------------------

Application ==
  \/ \E s \in Storage, len \in PathLens, interior \in BOOLEAN : CopyPath(s, len, interior)
  \/ \E s \in Storage : AdoptPath(s) \/ IntoStorage(s)
  \/ \E n \in RequestId, a \in Arguments : Prepare(n, a)
  \/ \E n \in RequestId :
       \/ Abandon(n) \/ Push(n) \/ RecordSent(n) \/ Record(n) \/ Redeem(n)
       \/ DropEvent(n) \/ DropTicket(n) \/ IntoParts(n)
  \/ \E file \in files : CloseFile(file)

Kernel ==
  \E n \in RequestId :
    \/ \E cqe \in Completions(req[n].args) : Finish(n, cqe)
    \/ \E more \in BOOLEAN : Install(n, more)
    \/ InstallFails(n)
    \/ ZcSend(n)
    \/ ZcNotify(n)
    \/ Cancel(n)

Next == Application \/ Kernel

Spec == Init /\ [][Next]_vars

-----------------------------------------------------------------------------

\* Type correctness.  The terminator of an OwnedPath lies inside its storage.
TypeOK ==
  /\ \A s \in Storage :
       /\ DOMAIN mem[s] = 0 .. Size[s] - 1
       /\ paths[s] = 0 \/ paths[s] \in 1 .. Size[s] - 1
       /\ holder[s] \in RequestId \union {0, -1}
  /\ \A n \in RequestId :
       /\ req[n].phase \in {"unused", "prepared", "pending", "done", "gone"}
       /\ req[n].kernel \in {"idle", "running", "notify", "over"}
       /\ req[n].args \in Arguments \/ req[n] \in {Unused, Gone}
       /\ Len(req[n].sent) <= 1 /\ Len(req[n].last) <= 1
  /\ fds \subseteq Fd /\ lost \subseteq Fd /\ files \subseteq Fd \X RequestId

\* The kernel may touch the memory of a request.
InKernel(n) == req[n].kernel \in {"running", "notify"}

\* Every address in an entry that the kernel holds, its scans for a path's
\* terminator included, is inside storage the request owns; that storage is with
\* the ticket or leaked, never with the application or another request; and the
\* kernel's writes miss the paths it reads.  This is what the SAFETY comments of
\* the into_pending functions claim.
KernelStaysInside ==
  \A n \in RequestId : InKernel(n) =>
    LET a == req[n].args
        q == Sqe(a)
    IN /\ q.reads \union q.writes \subseteq UNION {Cells(s) : s \in Owned(a)}
       /\ \A s \in Owned(a) : holder[s] \in {n, -1}
       /\ \A i \in DOMAIN q.names :
            /\ ScanEnd(q.names[i], mem[q.names[i]]) < Size[q.names[i]]
            /\ q.writes \intersect Cells(q.names[i]) = {}

\* What the kernel takes an entry for: the variant and the paths in their order.
Does(q) ==
  CASE q.op = "openat2" /\ q.flags = {"CREAT"} -> "create"
    [] q.op = "openat2" /\ q.flags = {"CREAT", "EXCL"} -> "create_new"
    [] q.op = "openat2" /\ q.flags = {"TMPFILE"} -> "tmpfile"
    [] q.op = "openat2" /\ q.flags = {} -> "existing"
    [] q.op = "unlinkat" -> IF "REMOVEDIR" \in q.flags THEN "rmdir" ELSE "unlink"
    [] q.op = "mkdirat" -> "mkdir"
    [] q.op = "renameat" /\ q.flags = {"NOREPLACE"} -> "no_replace"
    [] q.op = "renameat" /\ q.flags = {"EXCHANGE"} -> "exchange"
    [] q.op = "renameat" /\ q.flags = {} -> "replace"
    [] q.op = "symlinkat" -> "symlink"
    [] q.op = "linkat" -> "link"
    [] q.op \in {"read", "readv"} -> "read"
    [] q.op \in {"write", "writev"} -> "write"
    [] q.op = "timeout" -> IF "ABS" \in q.flags THEN "at" ELSE "after"
    [] q.op = "epoll_ctl" -> CHOOSE f \in q.flags : TRUE
    [] q.op = "cancel" /\ q.flags = {} -> "user_data"
    [] q.op = "cancel" /\ q.flags = {"FD"} -> "fd"
    [] q.op = "cancel" /\ q.flags = {"FD", "ALL"} -> "fd_all"
    [] q.op = "cancel" /\ q.flags = {"ANY"} -> "any"
    [] q.op = "cancel" /\ q.flags = {"ANY", "ALL"} -> "any_all"
    [] OTHER -> "other"

\* Until the kernel has run a request, its entry asks for what the application
\* asked, every structure the constructor staged is still there whole, whatever
\* was staged after it and whatever else the kernel wrote, and every path still
\* ends where OwnedPath found its terminator.
KernelReadsWhatWasAsked ==
  \A n \in RequestId : req[n].phase = "prepared" \/ req[n].kernel = "running" =>
    LET a == req[n].args
        q == Sqe(a)
    IN /\ Does(q) \in {a.asked, "other"}
       /\ q.names = a.paths
       /\ \A i \in DOMAIN q.parts : \A c \in q.parts[i].cells :
            mem[c[1]][c[2]] = <<q.parts[i].tag, n>>
       /\ \A i \in DOMAIN a.paths :
            ScanEnd(a.paths[i], mem[a.paths[i]]) = paths[a.paths[i]]

\* What a completed request presents as the kernel's answer (stat, events, info,
\* read_fd and write_fd, received, peer) was written for this request, or zeroed
\* for it: never left over from an earlier use of the storage.
ExposedIsThisRequests ==
  \A n \in RequestId : req[n].phase = "done" =>
    \A c \in Shown(req[n].args, req[n].last[1]) :
      mem[c[1]][c[2]] \in {<<"kernel", n>>, <<"zero", n>>}

\* The outcome that a completed request reports is what happened, also when the
\* usual reading of the sign is wrong (timeouts) or the count came in an earlier
\* completion (zero-copy sends), unless that completion was thrown away.
OutcomeIsWhatHappened ==
  \A n \in RequestId : req[n].phase = "done" /\ ~req[n].missed =>
    Outcome(req[n].args, req[n].sent, req[n].last[1]) = req[n].last[1].happened

\* Every open descriptor that was not lost with a dropped ticket or event is
\* owned exactly once, by a File or Socket or by a completion that will make one;
\* and no File refers to a closed descriptor.
DescriptorsOwnedOnce ==
  LET waiting(fd) ==
        {n \in RequestId : req[n].phase = "pending" /\ fd \in Unclaimed(n, req[n].cqes)}
      objects(fd) == {f \in files : f[1] = fd}
  IN /\ \A f \in files : f[1] \in fds \ lost
     /\ \A fd \in fds \ lost :
          \/ waiting(fd) = {} /\ \E f \in files : objects(fd) = {f}
          \/ objects(fd) = {} /\ \E n \in RequestId : waiting(fd) = {n}

\* Storage in the hands of tickets, of the kernel, and of the caller: plain, in a
\* prepared request, or in a completed one.
TicketStorage == UNION {Owned(req[n].args) : n \in {m \in RequestId : req[m].phase = "pending"}}
KernelStorage == UNION {Owned(req[n].args) : n \in {m \in RequestId : InKernel(m)}}
CallerStorage == {s \in Storage : holder[s] # -1} \ TicketStorage

\* Requests of every kind implement lending: see Lending.  A push lends, whatever
\* the kernel completes or a cancellation stops finishes, redeem gives back, and
\* no other call of the application moves storage to or from the kernel.
Lent == INSTANCE Lending WITH owned <- CallerStorage, access <- KernelStorage
ImplementsLending == Lent!Spec

-----------------------------------------------------------------------------
\* Why they hold.

\* All that can happen to a request.
Happening ==
  {"ok", "failed", "empty", "moved", "none", "other", "v4", "truncated", "Bound", "AddressInUse",
   "AlreadyBound", "PermissionDenied", "Connected", "Refused", "AlreadyConnected", "TimedOut",
   "NetworkUnreachable", "Expired", "CountReached", "Applied", "AlreadyRegistered", "NotRegistered",
   "Woken", "ValueMismatch", "Cancelled", "NotFound", "AlreadyCompleting", "Failed"}

Completion == [result : Int, more : BOOLEAN, happened : Happening, reported : Int]

RequestState ==
  [phase : {"unused", "prepared", "pending", "done", "gone"}, args : Arguments \union {Unused.args},
   kernel : {"idle", "running", "notify", "over"}, cqes : Seq(Completion), sent : Seq(Int),
   last : Seq(Completion), missed : BOOLEAN]

\* The storages of a request that are not paths.
Scratch(a) == {a.bufs[i] : i \in DOMAIN a.bufs} \union ({a.store} \ {NoStorage})

\* The library or the kernel has the request's storage.
Active(r) == r.phase \in {"prepared", "pending", "done"} \/ r.kernel \in {"running", "notify"}

Terminal(r, i) == i \in DOMAIN r.cqes /\ ~r.cqes[i].more

\* How far a zero-copy send is whose completions were all recorded: count,
\* notification and failure are the three completions it may post.
ZeroCopyProgress(r) ==
  LET count == Cqe(1, TRUE, "moved", 0)
      notification == Cqe(0, FALSE, "moved", 0)
      failures == {Cqe(result, FALSE, "failed", 0) : result \in {-32, -125}}
  IN  CASE r.kernel = "running" -> r.cqes = <<>> /\ r.sent = <<>>
        [] r.kernel = "notify" -> \/ r.cqes = <<count>> /\ r.sent = <<>>
                                  \/ r.cqes = <<>> /\ r.sent = <<1>>
        [] r.kernel = "over" -> \/ r.cqes = <<count, notification>> /\ r.sent = <<>>
                                \/ r.cqes = <<notification>> /\ r.sent = <<1>>
                                \/ r.cqes \in {<<failure>> : failure \in failures} /\ r.sent = <<>>

\* A request by itself: where it stands in its life, that only its last
\* completion is terminal, and that what it will report is what happened.
Sound(r) ==
  /\ r \in RequestState /\ Len(r.sent) <= 1
  /\ IF Active(r) THEN r.args \in Arguments /\ NewError(r.args) = "ok" ELSE r \in {Unused, Gone}
  /\ r.phase = "unused" => r = Unused
  /\ r.phase = "prepared" => /\ r.kernel = "idle" /\ r.cqes = <<>> /\ r.sent = <<>>
                             /\ r.last = <<>> /\ ~r.missed
  /\ r.phase = "pending" => r.kernel # "idle" /\ r.last = <<>>
  /\ r.phase = "done" => r.kernel = "over" /\ Len(r.last) = 1
  /\ r.phase = "gone" => r.cqes = <<>> /\ r.last = <<>>
  /\ r.kernel = "notify" => ZeroCopy(r.args)
  /\ \A i \in DOMAIN r.cqes : ~r.cqes[i].more => i = Len(r.cqes) /\ r.kernel = "over"
  /\ r.phase = "pending" /\ ~r.missed =>
       IF ZeroCopy(r.args) THEN ZeroCopyProgress(r)
       ELSE \A i \in DOMAIN r.cqes : Terminal(r, i) =>
              Outcome(r.args, r.sent, r.cqes[i]) = r.cqes[i].happened
  /\ r.phase = "done" /\ ~r.missed => Outcome(r.args, r.sent, r.last[1]) = r.last[1].happened

\* Who has which storage: a request has its own, as paths and as the rest, and
\* after its ticket was dropped they are leaked.
Has(r, n, held, wrapped) ==
  Active(r) =>
    /\ \A s \in Owned(r.args) : held[s] = IF r.phase = "gone" THEN -1 ELSE n
    /\ \A s \in Scratch(r.args) : wrapped[s] = 0
    /\ \A i \in DOMAIN r.args.paths : wrapped[r.args.paths[i]] # 0

Apart(r, t) == Active(r) /\ Active(t) => Owned(r.args) \intersect Owned(t.args) = {}

HeldInv ==
  /\ \A n \in RequestId : Has(req[n], n, holder, paths)
  /\ \A n, m \in RequestId : n # m => Apart(req[n], req[m])

\* An OwnedPath has its terminator where it was found.
Ends(s, contents, len) == len # 0 => len \in 1 .. Size[s] - 1 /\ ScanEnd(s, contents) = len

PathsInv == \A s \in Storage : Ends(s, mem[s], paths[s])

\* What was staged for the kernel and what the kernel answered are in memory.
Answers(a, cqe, n, memory) ==
  \A c \in Shown(a, cqe) : c[1] \in Scratch(a) /\ memory[c[1]][c[2]] = <<"kernel", n>>

Remembers(r, n, memory) ==
  /\ r.phase = "prepared" \/ r.kernel = "running" =>
       \A i \in DOMAIN Sqe(r.args).parts : \A c \in Sqe(r.args).parts[i].cells :
         memory[c[1]][c[2]] = <<Sqe(r.args).parts[i].tag, n>>
  /\ \A i \in DOMAIN r.cqes : Terminal(r, i) => Answers(r.args, r.cqes[i], n, memory)
  /\ r.phase = "done" => Answers(r.args, r.last[1], n, memory)

MemoryInv == \A n \in RequestId : Remembers(req[n], n, mem)

\* A completion, of those nobody has taken yet, that brings a descriptor.
Brings(r, i) ==
  /\ r.phase = "pending" /\ Installs(r.args)
  /\ i \in DOMAIN r.cqes /\ r.cqes[i].result >= 0

\* The descriptors that a ticket's completions bring, each brought once.
Waiting(r) == {r.cqes[i].result : i \in {j \in DOMAIN r.cqes : Brings(r, j)}}

Distinct(r) ==
  \A i, j \in DOMAIN r.cqes :
    Brings(r, i) /\ Brings(r, j) /\ r.cqes[i].result = r.cqes[j].result => i = j

\* Open descriptors are lost, or an object's, or brought to one request.
Accounted(open, objects, gone, waiting) ==
  /\ gone \subseteq open /\ open \subseteq Fd /\ objects \subseteq Fd \X RequestId
  /\ \A f \in objects : f[1] \in open \ gone
  /\ \A f, g \in objects : f[1] = g[1] => f = g
  /\ \A n \in RequestId : waiting[n] \subseteq open \ gone
  /\ \A n \in RequestId, f \in objects : f[1] \notin waiting[n]
  /\ \A n, m \in RequestId : n # m => waiting[n] \intersect waiting[m] = {}
  /\ \A fd \in open \ gone :
       (\E f \in objects : f[1] = fd) \/ (\E n \in RequestId : fd \in waiting[n])

DescriptorInv ==
  /\ \A n \in RequestId : Distinct(req[n])
  /\ Accounted(fds, files, lost, [n \in RequestId |-> Waiting(req[n])])

\* What every step preserves.
StagedInv ==
  /\ DOMAIN mem = Storage
  /\ \A s \in Storage : mem[s] = [i \in 0 .. Size[s] - 1 |-> mem[s][i]]
  /\ paths \in [Storage -> Nat] /\ holder \in [Storage -> RequestId \union {0, -1}]
  /\ DOMAIN req = RequestId /\ \A n \in RequestId : Sound(req[n])
  /\ HeldInv
  /\ PathsInv
  /\ MemoryInv
  /\ DescriptorInv

=============================================================================
