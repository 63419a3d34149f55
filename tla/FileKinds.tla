----------------------------- MODULE FileKinds -----------------------------
(***************************************************************************)
(* The owned requests on paths and files.  Of every kind: the error its    *)
(* constructor reports, the entry it submits, and what its completed form  *)
(* shows of the storage.                                                   *)
(***************************************************************************)
EXTENDS Staging

\* open.rs
OpenSqe(a) == [Zeroed EXCEPT !.op = "openat", !.names = a.paths]

\* mutant of OpenClaim: descriptor 0 taken for a failure
OpenClaimPositive(result) == IF result > 0 THEN {result} ELSE {}

OpenClaim(result) == IF result >= 0 THEN {result} ELSE {}

\* openat2.rs
Openat2At(a) ==
  IF a.asked = "stray" THEN "ModeOutsidePermissionBits"
  ELSE FitError(a.store, OpenHowLen, Align)

Openat2Flags(asked) ==
  CASE asked = "create" -> {"CREAT"}
    [] asked = "create_new" -> {"CREAT", "EXCL"}
    [] asked = "tmpfile" -> {"TMPFILE"}
    [] OTHER -> {}

Openat2Sqe(a) ==
  LET how == Span(a.store, 0, OpenHowLen)
  IN [Zeroed EXCEPT !.op = "openat2", !.flags = Openat2Flags(a.asked), !.names = a.paths,
                    !.parts = <<Part("how", how)>>, !.reads = how]

Openat2Claim(result) == IF result >= 0 THEN {result} ELSE {}

\* pathop.rs
PathOpSqe(a) ==
  [Zeroed EXCEPT !.op = IF a.asked = "mkdir" THEN "mkdirat" ELSE "unlinkat",
                 !.flags = IF a.asked = "rmdir" THEN {"REMOVEDIR"} ELSE {},
                 !.names = a.paths]

PathOpOutcome(result) == IF CqeIsOk(result) THEN "ok" ELSE "failed"

\* rename.rs
RenameFlags(asked) ==
  CASE asked = "no_replace" -> {"NOREPLACE"}
    [] asked = "exchange" -> {"EXCHANGE"}
    [] OTHER -> {}

RenameSqe(a) ==
  [Zeroed EXCEPT !.op = "renameat", !.flags = RenameFlags(a.asked), !.names = <<a.paths[1], a.paths[2]>>]

RenameOutcome(result) == IF CqeIsOk(result) THEN "ok" ELSE "failed"

\* link.rs
LinkSqe(a) ==
  [Zeroed EXCEPT !.op = IF a.asked = "symlink" THEN "symlinkat" ELSE "linkat",
                 !.names = <<a.paths[1], a.paths[2]>>]

LinkOutcome(result) == IF CqeIsOk(result) THEN "ok" ELSE "failed"

-----------------------------------------------------------------------------
\* statx.rs

\* mutant of StatxAt: the destination's length is not checked
StatxAtUnsized(a) ==
  IF a.asked = "reserved" THEN "ReservedMaskBit"
  ELSE IF Base[a.store] % Align # 0 THEN "Misaligned"
  ELSE "ok"

StatxAt(a) ==
  IF a.asked = "reserved" THEN "ReservedMaskBit"
  ELSE FitError(a.store, StatxLen, Align)

StatxSqe(a) ==
  [Zeroed EXCEPT !.op = "statx", !.names = a.paths, !.writes = Span(a.store, 0, StatxLen)]

\* mutant of StatxStat: shown after a failure as well
StatxStatAlways(a, result) == Span(a.store, 0, StatxLen)

StatxStat(a, result) == IF result < 0 THEN {} ELSE Span(a.store, 0, StatxLen)

-----------------------------------------------------------------------------
\* pipe.rs: two descriptors, of one cell each.

PipeNew(a) == FitError(a.store, 2, IntAlign)

PipeSqe(a) == [Zeroed EXCEPT !.op = "pipe", !.writes = Span(a.store, 0, 2)]

PipeFds(a, result) == IF result < 0 THEN {} ELSE Span(a.store, 0, 2)

\* filesupdate.rs: one descriptor per entry; a.lens has an entry for each.
FilesUpdateAt(a) ==
  IF a.lens = <<>> THEN "Empty" ELSE FitError(a.store, Len(a.lens), IntAlign)

FilesUpdateSqe(a) ==
  LET fds == Span(a.store, 0, Len(a.lens))
  IN [Zeroed EXCEPT !.op = "files_update", !.parts = <<Part("fds", fds)>>, !.reads = fds]

\* accept.rs and fixedfdinstall.rs: no storage, a descriptor per completion.
AcceptSqe(a) == [Zeroed EXCEPT !.op = "accept_multishot"]

AcceptClaim(result) == IF result >= 0 THEN {result} ELSE {}

FixedFdInstallSqe(a) == [Zeroed EXCEPT !.op = "fixed_fd_install"]

FixedFdInstallClaim(result) == IF result >= 0 THEN {result} ELSE {}

=============================================================================
