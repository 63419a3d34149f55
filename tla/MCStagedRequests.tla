-------------------------- MODULE MCStagedRequests --------------------------
(***************************************************************************)
(* Structures of one to four cells and three storages: wide is large and   *)
(* aligned, odd is as large but aligned for i32 only, tiny is small.  A    *)
(* message with two descriptors and an address fills all of wide.          *)
(***************************************************************************)
EXTENDS StagedRequests, TLC

CONSTANTS wide, odd, tiny

MCSize == wide :> 7 @@ odd :> 7 @@ tiny :> 2

MCBase == wide :> 0 @@ odd :> 4 @@ tiny :> 16

\* Requests over paths; openat2 and statx also with arguments that are refused.
OnPaths ==
  {Request("open", "", <<odd>>, <<>>, <<>>, NoStorage),
   Request("openat2", "create_new", <<odd>>, <<>>, <<>>, wide),
   Request("openat2", "stray", <<odd>>, <<>>, <<>>, wide),
   Request("path_op", "rmdir", <<wide>>, <<>>, <<>>, NoStorage),
   Request("rename", "exchange", <<wide, odd>>, <<>>, <<>>, NoStorage),
   Request("link", "symlink", <<odd, wide>>, <<>>, <<>>, NoStorage)}
    \union {Request("statx", asked, <<odd>>, <<>>, <<>>, s) : asked \in {"stat", "reserved"}, s \in {wide, tiny}}

OnBuffers ==
  {Request("request", "read", <<>>, <<odd>>, <<8>>, NoStorage),
   Request("request", "write", <<>>, <<tiny>>, <<1>>, NoStorage)}
    \union {Request("recvmsg", asked, <<>>, <<odd, tiny>>, <<7, 2>>, wide) : asked \in {"peer", "connected"}}
    \union {Request("recvmsg", "peer", <<>>, <<wide>>, <<7>>, odd),
            Request("vectored", "read", <<>>, <<odd, tiny>>, <<8, 1>>, wide),
            Request("sendmsg", "to", <<>>, <<odd, tiny>>, <<1, 3>>, wide),
            Request("send_zc", "", <<>>, <<wide>>, <<8>>, NoStorage),
            Request("sendmsg_zc", "to", <<>>, <<tiny>>, <<2>>, wide)}

OnValues ==
  {Request("waitid", "", <<>>, <<>>, <<>>, s) : s \in {odd, tiny, NoStorage}}
    \union {Request("pipe", "", <<>>, <<>>, <<>>, tiny),
            Request("bind", "", <<>>, <<>>, <<>>, tiny),
            Request("connect", "", <<>>, <<>>, <<>>, odd),
            Request("timeout", "after", <<>>, <<>>, <<>>, wide),
            Request("timeout", "at", <<>>, <<>>, <<>>, odd),
            Request("epoll_ctl", "modify", <<>>, <<>>, <<>>, tiny),
            Request("epoll_wait", "", <<>>, <<>>, <<>>, odd)}
    \union {Request(kind, "", <<>>, <<>>, lens, tiny) :
              kind \in {"files_update", "futex_waitv"}, lens \in {<<>>, <<1, 1>>, <<1, 1, 1>>}}

WithoutStorage ==
  {Request(kind, "", <<>>, <<>>, <<>>, NoStorage) :
     kind \in {"accept", "fixed_fd_install", "futex_wait", "futex_wake", "msg_ring"}}
    \union {Request("cancel", asked, <<>>, <<>>, <<1>>, NoStorage) :
              asked \in {"user_data", "fd", "fd_all", "any", "any_all"}}

MCArguments == OnPaths \union OnBuffers \union OnValues \union WithoutStorage

=============================================================================
