------------------------------ MODULE Lending ------------------------------
(***************************************************************************)
(* What the owned API promises about storage: the caller gives it away     *)
(* before the kernel can touch it, and has it back only after the kernel   *)
(* has finished with it.                                                   *)
(***************************************************************************)
CONSTANT Storage

VARIABLES
  owned,   \* storage the caller can reach, or free
  access   \* storage the kernel may read or write

Init == owned = Storage /\ access = {}

Lend(set) ==
  /\ set \subseteq owned
  /\ owned' = owned \ set
  /\ access' = access \cup set

Finish(set) ==
  /\ set \subseteq access
  /\ access' = access \ set
  /\ UNCHANGED owned

GiveBack(set) ==
  /\ set \cap access = {}
  /\ owned' = owned \cup set
  /\ UNCHANGED access

Next == \E set \in SUBSET Storage : Lend(set) \/ Finish(set) \/ GiveBack(set)

Spec == Init /\ [][Next]_<<owned, access>>

=============================================================================
