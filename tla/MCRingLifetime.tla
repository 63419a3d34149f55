--------------------------- MODULE MCRingLifetime ---------------------------
(* Two pools that share a buffer group, over every layout of the rings; and *)
(* rings of sizes around the limits, with every way of asking for them.     *)
EXTENDS RingLifetime

MCBgid(pool) == 1

Layouts ==
  {{}, {"SINGLE_MMAP"}, {"NO_MMAP"}, {"NO_MMAP", "SINGLE_MMAP"},
   {"SINGLE_MMAP", "DEFER_TASKRUN", "SINGLE_ISSUER"},
   {"SINGLE_MMAP", "SINGLE_ISSUER"}, {"SINGLE_MMAP", "SINGLE_ISSUER", "SQPOLL"}}

Sized ==
  {base \cup more : base \in {{}, {"SINGLE_MMAP"}, {"NO_MMAP"}, {"NO_MMAP", "SINGLE_MMAP"}},
                    more \in SUBSET {"CQSIZE", "CLAMP", "NO_SQARRAY", "SQE128"}}

MCRequest ==
  [entries : {4}, cq_entries : {0}, flags : Layouts]
    \cup [entries : {0, 1, 5, 32768, 32769}, cq_entries : {0, 1, 200, 65536, 65537}, flags : Sized]

=============================================================================
