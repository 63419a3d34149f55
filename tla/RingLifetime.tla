---------------------------- MODULE RingLifetime ----------------------------
(***************************************************************************)
(* Who keeps a ring's kernel resources alive, from io_uring_setup to the   *)
(* last munmap.  SetupGuard (NoMmapGuard before it) unwinds a ring that is *)
(* only partly built; RingResources then counts the owners: the IoUring,   *)
(* or the Submitter and the Completer it is split into, and every pool of  *)
(* provided buffers.  Owners live on different threads, so the steps of    *)
(* their drops interleave.                                                 *)
(***************************************************************************)
EXTENDS RingLayout, Sequences, Functions

CONSTANTS
  Pool,     \* provided-buffer pools that may be registered
  Bgid(_),  \* the buffer group each is registered under
  Request   \* what rings are asked for: entries, cq_entries and flags

Half  == {"ring", "submitter", "completer"}
Owner == Half \cup Pool

RingResource == {"fd", "sq", "cq", "sqes", "page"}

ASSUME OwnerAssumption == IsFiniteSet(Pool) /\ Pool \cap (Half \cup RingResource) = {}

ASSUME RequestAssumption == \A asked \in Request : asked.entries \in Nat /\ asked.cq_entries \in Nat

VARIABLES
  request,    \* see RingLayout
  acquired,   \* how many steps of setup have succeeded
  guard,      \* what SetupGuard or NoMmapGuard would release
  mapped,     \* regions mapped ("fd" while the ring is open; a pool stands
              \* for its two mappings)
  pc,         \* where each owner is in its life
  refcount,
  cleanup,    \* what the last owner still has to release, in order
  groups,     \* the kernel's registrations: pools that are registered
  lost        \* regions released when they were not held

vars == <<request, acquired, guard, mapped, pc, refcount, cleanup, groups, lost>>

-----------------------------------------------------------------------------
\* Setup.

\* from_params: what is acquired, in order.  With NO_MMAP the crate maps both
\* regions before io_uring_setup; with SINGLE_MMAP the CQ shares the SQ mapping.
SetupSteps ==
  IF "NO_MMAP" \in request.flags THEN <<"sq", "sqes", "fd", "page">>
  ELSE IF "SINGLE_MMAP" \in request.flags THEN <<"fd", "sq", "sqes", "page">>
  ELSE <<"fd", "sq", "cq", "sqes", "page">>

Init ==
  /\ request \in Request
  /\ acquired = 0 /\ guard = {} /\ mapped = {}
  /\ pc = [owner \in Owner |-> "absent"]
  /\ refcount = 0 /\ cleanup = << >> /\ groups = {} /\ lost = {}

\* mutant of Guarded: the guard only learns of the SQ mappings
GuardedSqOnly(resource) == guard' = guard \cup ({resource} \ {"cq"})

Guarded(resource) == guard' = guard \cup {resource}

\* A flag outside the mask is refused before anything is acquired, the kernel
\* refuses sizes, and a mapping of no bytes fails.
Possible(resource) ==
  /\ request.flags \subseteq SUPPORTED_MASK \cup {"SINGLE_MMAP"}
  /\ resource = "fd" => Accepts(request)
  /\ resource \in {"sq", "cq", "sqes"} => Length(request, resource) > 0

\* One more resource of an unfinished ring.  The page of RingResources comes
\* last, with the first reference; the guard is then disarmed.
Acquire ==
  /\ acquired < Len(SetupSteps)
  /\ acquired' = acquired + 1
  /\ LET resource == SetupSteps[acquired'] IN
     /\ Possible(resource)
     /\ mapped' = mapped \cup {resource}
     /\ IF resource = "page"
        THEN guard' = {} /\ refcount' = 1 /\ pc' = [pc EXCEPT !["ring"] = "live"]
        ELSE Guarded(resource) /\ UNCHANGED <<refcount, pc>>
  /\ UNCHANGED <<request, cleanup, groups, lost>>

\* A failed step drops the guard.
SetupFails ==
  /\ acquired < Len(SetupSteps)
  /\ acquired' = Len(SetupSteps) + 1
  /\ mapped' = mapped \ guard
  /\ lost' = lost \cup (guard \ mapped)
  /\ guard' = {}
  /\ UNCHANGED <<request, pc, refcount, cleanup, groups>>

-----------------------------------------------------------------------------
\* Owners.

ForbidsSplit ==
  "DEFER_TASKRUN" \in request.flags \/ ("SINGLE_ISSUER" \in request.flags /\ "SQPOLL" \notin request.flags)

\* mutant of Retain: a second owner does not count
NoRetain == UNCHANGED refcount

Retain == refcount' = refcount + 1

Split ==
  /\ pc["ring"] = "live"
  /\ ~ForbidsSplit
  /\ Retain
  /\ pc' = [pc EXCEPT !["ring"] = "moved", !["submitter"] = "live", !["completer"] = "live"]
  /\ UNCHANGED <<request, acquired, guard, mapped, cleanup, groups, lost>>

\* register_provided_buffers, called on the ring or on the submitter: both
\* mappings are made, and the group is refused if it is already registered.
RegisterPool(pool) ==
  /\ pc["ring"] = "live" \/ pc["submitter"] = "live"
  /\ pc[pool] = "absent"
  /\ \A other \in groups : Bgid(other) # Bgid(pool)
  /\ mapped' = mapped \cup {pool}
  /\ groups' = groups \cup {pool}
  /\ Retain
  /\ pc' = [pc EXCEPT ![pool] = "live"]
  /\ UNCHANGED <<request, acquired, guard, cleanup, lost>>

\* mutant of Unregister: the group stays registered
UnregisterSkipped(bgid) == UNCHANGED groups

\* The kernel forgets the group, whichever pool it holds.
Unregister(bgid) == groups' = {pool \in groups : Bgid(pool) # bgid}

\* unregister_provided_buffers: the pool keeps its memory.
UnregisterPool(pool) ==
  /\ pc["ring"] = "live"
  /\ pool \in groups
  /\ Unregister(Bgid(pool))
  /\ UNCHANGED <<request, acquired, guard, mapped, pc, refcount, cleanup, lost>>

\* A half drops (the IoUring and the Completer publish the CQ head, into the
\* mapped ring, before they release).
DropHalf(half) ==
  /\ pc[half] = "live"
  /\ pc' = [pc EXCEPT ![half] = "releasing"]
  /\ UNCHANGED <<request, acquired, guard, mapped, refcount, cleanup, groups, lost>>

\* A pool drops: unregister through the ring's fd ...
DropPool(pool) ==
  /\ pc[pool] = "live"
  /\ Unregister(Bgid(pool))
  /\ pc' = [pc EXCEPT ![pool] = "unmapping"]
  /\ UNCHANGED <<request, acquired, guard, mapped, refcount, cleanup, lost>>

\* ... then the two mappings.
UnmapPool(pool) ==
  /\ pc[pool] = "unmapping"
  /\ mapped' = mapped \ {pool}
  /\ lost' = lost \cup ({pool} \ mapped)
  /\ pc' = [pc EXCEPT ![pool] = "releasing"]
  /\ UNCHANGED <<request, acquired, guard, refcount, cleanup, groups>>

\* mutant of CleanupOrder: the CQ is unmapped whether or not it is a mapping
CleanupAlwaysCq == <<"sqes", "cq", "sq", "fd", "page">>

CleanupOrder ==
  IF "NO_MMAP" \in request.flags \/ "SINGLE_MMAP" \in request.flags
  THEN <<"sqes", "sq", "fd", "page">>
  ELSE <<"sqes", "cq", "sq", "fd", "page">>

\* RingResources::release: the fetch_sub decides who cleans up.
Release(owner) ==
  /\ pc[owner] = "releasing"
  /\ refcount' = refcount - 1
  /\ cleanup' = IF refcount = 1 THEN CleanupOrder ELSE cleanup
  /\ pc' = [pc EXCEPT ![owner] = IF refcount = 1 THEN "cleaning" ELSE "gone"]
  /\ UNCHANGED <<request, acquired, guard, mapped, groups, lost>>

\* The last owner's cleanup, one resource at a time.
CleanUp(owner) ==
  /\ pc[owner] = "cleaning"
  /\ cleanup # << >>
  /\ mapped' = mapped \ {Head(cleanup)}
  /\ lost' = lost \cup ({Head(cleanup)} \ mapped)
  /\ cleanup' = Tail(cleanup)
  /\ pc' = [pc EXCEPT ![owner] = IF Tail(cleanup) = << >> THEN "gone" ELSE "cleaning"]
  /\ UNCHANGED <<request, acquired, guard, refcount, groups>>

-----------------------------------------------------------------------------

OwnerStep(owner) ==
  \/ owner \in Half /\ DropHalf(owner)
  \/ owner \in Pool /\ (RegisterPool(owner) \/ UnregisterPool(owner) \/ DropPool(owner) \/ UnmapPool(owner))
  \/ Release(owner)
  \/ CleanUp(owner)

Next == Acquire \/ SetupFails \/ Split \/ \E owner \in Owner : OwnerStep(owner)

Spec == Init /\ [][Next]_vars

\* Setup goes on, whether or not the next step succeeds.
\* A thread that has begun a drop finishes it, and every owner is dropped.
Dropping(owner) ==
  \/ owner \in Half /\ DropHalf(owner)
  \/ owner \in Pool /\ (DropPool(owner) \/ UnmapPool(owner))
  \/ Release(owner)
  \/ CleanUp(owner)

FairSpec == Spec /\ WF_vars(Acquire \/ SetupFails) /\ \A owner \in Owner : WF_vars(Dropping(owner))

-----------------------------------------------------------------------------

\* Owners that hold a reference.
Holders == {owner \in Owner : pc[owner] \in {"live", "unmapping", "releasing"}}

Stage == {"absent", "live", "moved", "unmapping", "releasing", "cleaning", "gone"}

\* Whatever owner is left, on whichever thread, finds the fd open and every
\* ring mapping in place: Submitter, Completer and pools may be dropped in any
\* order and at the same time.
OwnersReachRing ==
  Holders # {} => Range(CleanupOrder) \subseteq mapped

\* Nothing is unmapped or closed that is not held: neither by the unwinding of
\* a failed setup, nor by two owners that both take themselves for the last.
NothingFreedTwice == lost = {}

\* The kernel never holds a registration of unmapped buffers.
RegisteredPoolsMapped == \A pool \in groups : pool \in mapped

\* The inductive form.  Until setup is over nobody owns anything and the guard
\* holds what is mapped.  After it the count is that of the owners that hold a
\* reference; while there is one the ring is whole and nobody cleans up, and
\* what the last one still has to release is mapped, each region once.
SetupInv ==
  /\ \A owner \in Owner : pc[owner] = "absent"
  /\ refcount = 0 /\ cleanup = << >> /\ groups = {}
  /\ guard = mapped
  /\ mapped = IF acquired < Len(SetupSteps) THEN {SetupSteps[i] : i \in 1 .. acquired} ELSE {}

RefcountInv ==
  /\ guard = {}
  /\ refcount = Cardinality(Holders)
  /\ Holders # {} =>
       /\ Range(CleanupOrder) \subseteq mapped /\ cleanup = << >>
       /\ \A owner \in Owner : pc[owner] # "cleaning"
  /\ cleanup \in Seq(RingResource)
  /\ \A i \in DOMAIN cleanup : cleanup[i] \in mapped
  /\ \A i, j \in DOMAIN cleanup : cleanup[i] = cleanup[j] => i = j
  /\ \A a, b \in Owner : pc[a] = "cleaning" /\ pc[b] = "cleaning" => a = b
  /\ pc["ring"] = "live" => pc["submitter"] = "absent" /\ pc["completer"] = "absent"
  /\ \A pool \in Pool : pc[pool] \in {"live", "unmapping"} => pool \in mapped
  /\ groups \subseteq {pool \in Pool : pc[pool] = "live"}

LifetimeInv ==
  /\ pc \in [Owner -> Stage] /\ lost = {}
  /\ acquired \in 0 .. Len(SetupSteps) + 1
  /\ IF acquired = Len(SetupSteps) THEN RefcountInv ELSE SetupInv

\* What is mapped is what somebody will release: the ring's own regions, all of
\* them until the last owner begins and then those it has not come to yet, and
\* the pools that are not unmapped.
MappedIsHeld ==
  acquired = Len(SetupSteps) =>
    mapped = (IF Holders # {} THEN Range(CleanupOrder) ELSE Range(cleanup))
               \cup {pool \in Pool : pc[pool] \in {"live", "unmapping"}}

\* Nothing is left behind: once setup is over, no owner holds a reference and the
\* last one has finished its cleanup, the fd is closed and nothing is mapped.
NothingLeaked ==
  acquired >= Len(SetupSteps) /\ Holders = {} /\ cleanup = << >> => mapped = {}

\* However a ring was asked for, what the library reaches through the pointers
\* of a finished setup lies in a region it holds, and the kernel neither uses
\* more than the memory predicted for it nor backs less than was mapped.
RingFits ==
  Holders # {} =>
    /\ \A part \in Reached(request) : part.to <= Length(request, part.region)
    /\ IF "NO_MMAP" \in request.flags
       THEN \A part \in Pinned(request) : part.to <= Length(request, part.region)
       ELSE \A region \in {"sq", "cq", "sqes"} : Length(request, region) <= Backed(request, region)
    /\ SqeSize = KernelSqeSize(request)

\* What it follows from: every step of setup that succeeded was possible.
SetupWasPossible ==
  acquired <= Len(SetupSteps) => \A i \in 1 .. acquired : Possible(SetupSteps[i])

\* A setup that fails leaves nothing behind, and a ring whose owners are all
\* dropped is released completely.
AllReleased == <>[](mapped = {})

=============================================================================
