------------------------- MODULE RingLifetimeProofs -------------------------
(***************************************************************************)
(* The life of a ring's resources, for any number of pools, any buffer     *)
(* groups and any request: whatever order the owners are dropped in, the   *)
(* ring outlives them, nothing is released twice and nothing is left over, *)
(* and the kernel holds no registration of unmapped memory.                *)
(***************************************************************************)
EXTENDS RingLifetime, FiniteSetTheorems, TLAPS

\* What setup acquires is what the last owner releases.
LEMMA Steps ==
  /\ Len(SetupSteps) \in {4, 5} /\ SetupSteps \in Seq(RingResource)
  /\ SetupSteps[Len(SetupSteps)] = "page"
  /\ \A i \in 1 .. Len(SetupSteps) - 1 : SetupSteps[i] # "page"
  /\ Range(CleanupOrder) = {SetupSteps[i] : i \in 1 .. Len(SetupSteps)}
  /\ CleanupOrder \in Seq(RingResource) /\ CleanupOrder # << >>
  /\ \A i, j \in DOMAIN CleanupOrder : CleanupOrder[i] = CleanupOrder[j] => i = j
<1>1. CASE "NO_MMAP" \in request.flags
  <2>1. SetupSteps = <<"sq", "sqes", "fd", "page">> /\ CleanupOrder = <<"sqes", "sq", "fd", "page">>
    BY <1>1 DEF SetupSteps, CleanupOrder
  <2>2. Range(CleanupOrder) = {"sqes", "sq", "fd", "page"}
    BY <2>1 DEF Range
  <2>3. {SetupSteps[i] : i \in 1 .. 4} = {"sqes", "sq", "fd", "page"}
    BY <2>1
  <2> QED BY <2>1, <2>2, <2>3 DEF RingResource
<1>2. CASE "NO_MMAP" \notin request.flags /\ "SINGLE_MMAP" \in request.flags
  <2>1. SetupSteps = <<"fd", "sq", "sqes", "page">> /\ CleanupOrder = <<"sqes", "sq", "fd", "page">>
    BY <1>2 DEF SetupSteps, CleanupOrder
  <2>2. Range(CleanupOrder) = {"sqes", "sq", "fd", "page"}
    BY <2>1 DEF Range
  <2>3. {SetupSteps[i] : i \in 1 .. 4} = {"sqes", "sq", "fd", "page"}
    BY <2>1
  <2> QED BY <2>1, <2>2, <2>3 DEF RingResource
<1>3. CASE "NO_MMAP" \notin request.flags /\ "SINGLE_MMAP" \notin request.flags
  <2>1. /\ SetupSteps = <<"fd", "sq", "cq", "sqes", "page">>
        /\ CleanupOrder = <<"sqes", "cq", "sq", "fd", "page">>
    BY <1>3 DEF SetupSteps, CleanupOrder
  <2>2. Range(CleanupOrder) = {"sqes", "cq", "sq", "fd", "page"}
    BY <2>1 DEF Range
  <2>3. {SetupSteps[i] : i \in 1 .. 5} = {"sqes", "cq", "sq", "fd", "page"}
    BY <2>1
  <2> QED BY <2>1, <2>2, <2>3 DEF RingResource
<1> QED BY <1>1, <1>2, <1>3

\* There are finitely many owners.
LEMMA FiniteOwners ==
  \A S \in SUBSET Owner : IsFiniteSet(S) /\ Cardinality(S) \in Nat
<1>1. IsFiniteSet(Half)
  <2>1. Half = ({"ring"} \cup {"submitter"}) \cup {"completer"}
    BY DEF Half
  <2> QED BY <2>1, FS_Singleton, FS_Union, ZenonT(30)
<1>2. IsFiniteSet(Owner)
  BY <1>1, OwnerAssumption, FS_Union, ZenonT(30) DEF Owner
<1> QED BY <1>2, FS_Subset, FS_CardinalityType

\* While the request stands, so does the plan of setup and cleanup.
LEMMA SameSteps ==
  ASSUME UNCHANGED request
  PROVE  SetupSteps' = SetupSteps /\ CleanupOrder' = CleanupOrder
  BY DEF SetupSteps, CleanupOrder

\* Setup takes one more step.
LEMMA AcquireInv ==
  ASSUME LifetimeInv, Acquire
  PROVE  LifetimeInv'
<1> DEFINE n == Len(SetupSteps)
           resource == SetupSteps[acquired']
<1>1. /\ acquired < n /\ acquired' = acquired + 1 /\ mapped' = mapped \cup {resource}
      /\ UNCHANGED <<request, cleanup, groups, lost>>
  BY DEF Acquire
<1>2. SetupSteps' = SetupSteps /\ CleanupOrder' = CleanupOrder
  BY <1>1, SameSteps
<1>3. n \in {4, 5} /\ acquired \in Nat
  BY Steps DEF LifetimeInv
<1>4. /\ SetupInv /\ pc \in [Owner -> Stage] /\ lost = {}
      /\ mapped = {SetupSteps[i] : i \in 1 .. acquired}
  BY <1>1, <1>3 DEF LifetimeInv, SetupInv
<1>5. mapped' = {SetupSteps[i] : i \in 1 .. acquired'}
  BY <1>1, <1>3, <1>4
<1>6. CASE acquired' = n
  <2>1. resource = "page"
    BY <1>6, Steps
  <2>2. guard' = {} /\ refcount' = 1 /\ pc' = [pc EXCEPT !["ring"] = "live"]
    BY <2>1 DEF Acquire
  <2>3. /\ pc' \in [Owner -> Stage] /\ pc'["ring"] = "live" /\ "ring" \in Owner
        /\ "submitter" \in Owner /\ "completer" \in Owner
        /\ \A owner \in Owner \ {"ring"} : pc'[owner] = "absent"
    BY <1>4, <2>2 DEF SetupInv, Stage, Owner, Half
  <2>4. Holders' = {"ring"}
    BY <2>3 DEF Holders
  <2>5. Cardinality({"ring"}) = 1
    BY FS_Singleton
  <2>6. Range(CleanupOrder)' \subseteq mapped'
    BY <1>2, <1>5, <1>6, Steps
  <2>7. cleanup' = << >> /\ groups' = {} /\ lost' = {}
    BY <1>1, <1>4 DEF SetupInv
  <2>8. "ring" \notin Pool
    BY OwnerAssumption DEF Half
  <2>9. RefcountInv'
    BY <2>2, <2>3, <2>4, <2>5, <2>6, <2>7, <2>8 DEF RefcountInv, Owner
  <2> QED BY <1>1, <1>2, <1>3, <1>6, <2>3, <2>7, <2>9 DEF LifetimeInv
<1>7. CASE acquired' < n
  <2>1. resource # "page"
    BY <1>1, <1>3, <1>7, Steps
  <2>2. guard' = guard \cup {resource} /\ UNCHANGED <<refcount, pc>>
    BY <2>1 DEF Acquire, Guarded
  <2>3. SetupInv'
    BY <1>1, <1>2, <1>4, <1>5, <1>7, <2>2, ZenonT(30) DEF SetupInv
  <2> QED BY <1>1, <1>2, <1>3, <1>4, <1>7, <2>2, <2>3 DEF LifetimeInv
<1> QED BY <1>1, <1>3, <1>6, <1>7

\* A failed setup unwinds what the guard holds.
LEMMA SetupFailsInv ==
  ASSUME LifetimeInv, SetupFails
  PROVE  LifetimeInv'
<1> DEFINE n == Len(SetupSteps)
<1>1. /\ acquired < n /\ acquired' = n + 1 /\ mapped' = mapped \ guard
      /\ lost' = lost \cup (guard \ mapped) /\ guard' = {}
      /\ UNCHANGED <<request, pc, refcount, cleanup, groups>>
  BY DEF SetupFails
<1>2. SetupSteps' = SetupSteps
  BY <1>1, SameSteps
<1>3. n \in {4, 5} /\ acquired \in Nat
  BY Steps DEF LifetimeInv
<1>4. SetupInv /\ pc \in [Owner -> Stage] /\ lost = {} /\ guard = mapped
  BY <1>1, <1>3 DEF LifetimeInv, SetupInv
<1>5. SetupInv'
  BY <1>1, <1>2, <1>3, <1>4 DEF SetupInv
<1> QED BY <1>1, <1>2, <1>3, <1>4, <1>5 DEF LifetimeInv

\* Only a finished setup has owners.
LEMMA OwnersAfterSetup ==
  ASSUME LifetimeInv, NEW owner \in Owner, pc[owner] # "absent"
  PROVE  acquired = Len(SetupSteps) /\ RefcountInv
  BY DEF LifetimeInv, SetupInv

\* A step of the owners of a finished ring keeps the rest of the invariant.
LEMMA KeepsLifetime ==
  ASSUME LifetimeInv, acquired = Len(SetupSteps), UNCHANGED <<request, acquired>>,
         pc' \in [Owner -> Stage], lost' = {}, RefcountInv'
  PROVE  LifetimeInv'
  BY SameSteps DEF LifetimeInv

\* The ring is split in two.
LEMMA SplitInv ==
  ASSUME LifetimeInv, Split
  PROVE  LifetimeInv'
<1>1. /\ "ring" \in Owner /\ "submitter" \in Owner /\ "completer" \in Owner
      /\ "ring" \notin Pool /\ "submitter" \notin Pool /\ "completer" \notin Pool
  BY OwnerAssumption DEF Owner, Half
<1>2. /\ pc["ring"] = "live" /\ refcount' = refcount + 1
      /\ pc' = [pc EXCEPT !["ring"] = "moved", !["submitter"] = "live", !["completer"] = "live"]
      /\ UNCHANGED <<request, acquired, guard, mapped, cleanup, groups, lost>>
  BY DEF Split, Retain
<1>3. /\ acquired = Len(SetupSteps) /\ RefcountInv /\ pc \in [Owner -> Stage] /\ lost = {}
      /\ pc["submitter"] = "absent" /\ pc["completer"] = "absent"
  BY <1>1, <1>2, OwnersAfterSetup DEF LifetimeInv, RefcountInv
<1>4. /\ pc' \in [Owner -> Stage]
      /\ pc'["ring"] = "moved" /\ pc'["submitter"] = "live" /\ pc'["completer"] = "live"
      /\ \A owner \in Owner \ {"ring", "submitter", "completer"} : pc'[owner] = pc[owner]
  BY <1>1, <1>2, <1>3 DEF Stage
<1>5. Cardinality(Holders') = Cardinality(Holders) + 1
  <2> DEFINE rest == Holders \ {"ring"}
             one == rest \cup {"submitter"}
  <2>1. /\ "ring" \in Holders /\ "submitter" \notin Holders /\ "completer" \notin Holders
        /\ Holders \subseteq Owner
    BY <1>1, <1>2, <1>3 DEF Holders
  <2>2. Holders' = one \cup {"completer"}
    BY <1>1, <1>3, <1>4 DEF Holders
  <2>3. IsFiniteSet(Holders) /\ IsFiniteSet(rest) /\ IsFiniteSet(one)
        /\ Cardinality(Holders) \in Nat
    BY <1>1, <2>1, FiniteOwners
  <2>4. Cardinality(rest) = Cardinality(Holders) - 1
    BY <2>1, <2>3, FS_RemoveElement
  <2>5. Cardinality(one) = Cardinality(rest) + 1
    BY <2>1, <2>3, FS_AddElement, ZenonT(30)
  <2>6. "completer" \notin one
    BY <2>1
  <2>7. Cardinality(one \cup {"completer"}) = Cardinality(one) + 1
    BY <2>3, <2>6, FS_AddElement, SMTT(30)
  <2> QED BY <2>2, <2>3, <2>4, <2>5, <2>7
<1>6. "ring" \in Holders /\ CleanupOrder' = CleanupOrder
  BY <1>1, <1>2, SameSteps DEF Holders
<1>7. RefcountInv'
  <2>1. /\ Range(CleanupOrder) \subseteq mapped /\ cleanup = << >>
        /\ \A owner \in Owner : pc[owner] # "cleaning"
    BY <1>3, <1>6 DEF RefcountInv
  <2>2. \A owner \in Owner : pc'[owner] # "cleaning"
    BY <1>4, <2>1
  <2>3. refcount' = Cardinality(Holders')
    BY <1>2, <1>3, <1>5 DEF RefcountInv
  <2>4. /\ \A pool \in Pool : pc'[pool] = pc[pool]
        /\ groups' \subseteq {pool \in Pool : pc'[pool] = "live"}
        /\ \A pool \in Pool : pc'[pool] \in {"live", "unmapping"} => pool \in mapped'
    BY <1>1, <1>2, <1>3, <1>4 DEF RefcountInv, Owner
  <2>5. guard' = {} /\ cleanup' = << >> /\ Range(CleanupOrder)' \subseteq mapped'
    BY <1>2, <1>3, <1>6, <2>1 DEF RefcountInv
  <2> QED BY <1>4, <2>2, <2>3, <2>4, <2>5 DEF RefcountInv
<1> QED BY <1>2, <1>3, <1>4, <1>7, KeepsLifetime

\* An owner moves from one holding stage to another.
LEMMA StaysHolder ==
  ASSUME LifetimeInv, NEW owner \in Owner, NEW to \in {"live", "unmapping", "releasing"},
         owner \in Holders, pc' = [pc EXCEPT ![owner] = to],
         to = "live" => pc[owner] = "live",
         owner \in Pool /\ to = "unmapping" => pc[owner] = "live",
         UNCHANGED <<request, acquired, guard, refcount, cleanup>>,
         lost' = {},
         (mapped' = mapped \ ({owner} \cap Pool) /\ to = "releasing") \/ mapped' = mapped,
         groups' \subseteq groups, owner \in groups' => to = "live"
  PROVE  LifetimeInv'
<1>1. acquired = Len(SetupSteps) /\ RefcountInv /\ pc \in [Owner -> Stage]
  BY OwnersAfterSetup DEF LifetimeInv, Holders
<1>2. /\ pc' \in [Owner -> Stage] /\ pc'[owner] = to
      /\ \A other \in Owner \ {owner} : pc'[other] = pc[other]
  BY <1>1 DEF Stage
<1>3. Holders' = Holders
  BY <1>1, <1>2 DEF Holders
<1>4. CleanupOrder' = CleanupOrder /\ Range(CleanupOrder) \subseteq RingResource
      /\ RingResource \cap Pool = {}
  BY SameSteps, Steps, OwnerAssumption DEF Range
<1>5. Range(CleanupOrder) \subseteq mapped'
  BY <1>1, <1>4 DEF RefcountInv
<1>6. cleanup = << >> /\ \A other \in Owner : pc[other] # "cleaning"
  BY <1>1 DEF RefcountInv
<1>7. /\ \A pool \in Pool : pc'[pool] \in {"live", "unmapping"} => pool \in mapped'
      /\ groups' \subseteq {pool \in Pool : pc'[pool] = "live"}
  BY <1>1, <1>2 DEF RefcountInv, Owner
<1>8. pc'["ring"] = "live" => pc'["submitter"] = "absent" /\ pc'["completer"] = "absent"
  BY <1>1, <1>2 DEF RefcountInv, Owner, Half, Holders
<1>9. RefcountInv'
  BY <1>1, <1>2, <1>3, <1>4, <1>5, <1>6, <1>7, <1>8 DEF RefcountInv
<1> QED BY <1>1, <1>2, <1>9, KeepsLifetime

\* A pool is registered.
LEMMA RegisterPoolInv ==
  ASSUME LifetimeInv, NEW pool \in Pool, RegisterPool(pool)
  PROVE  LifetimeInv'
<1>1. /\ pool \in Owner /\ "ring" \in Owner /\ "submitter" \in Owner /\ "completer" \in Owner
      /\ pool \notin {"ring", "submitter", "completer"}
  BY OwnerAssumption DEF Owner, Half
<1>2. /\ pc["ring"] = "live" \/ pc["submitter"] = "live"
      /\ pc[pool] = "absent" /\ mapped' = mapped \cup {pool} /\ groups' = groups \cup {pool}
      /\ refcount' = refcount + 1 /\ pc' = [pc EXCEPT ![pool] = "live"]
      /\ UNCHANGED <<request, acquired, guard, cleanup, lost>>
  BY DEF RegisterPool, Retain
<1>3. acquired = Len(SetupSteps) /\ RefcountInv /\ pc \in [Owner -> Stage] /\ lost = {}
  BY <1>1, <1>2, OwnersAfterSetup DEF LifetimeInv
<1>4. /\ pc' \in [Owner -> Stage] /\ pc'[pool] = "live"
      /\ \A owner \in Owner \ {pool} : pc'[owner] = pc[owner]
  BY <1>1, <1>2, <1>3 DEF Stage
<1>5. Holders # {} /\ Holders' = Holders \cup {pool} /\ pool \notin Holders /\ Holders \subseteq Owner
  BY <1>1, <1>2, <1>3, <1>4 DEF Holders
<1>6. refcount' = Cardinality(Holders')
  BY <1>2, <1>3, <1>5, FiniteOwners, FS_AddElement DEF RefcountInv
<1>7. RefcountInv'
  <2>1. /\ Range(CleanupOrder) \subseteq mapped /\ cleanup = << >>
        /\ \A owner \in Owner : pc[owner] # "cleaning"
    BY <1>3, <1>5 DEF RefcountInv
  <2>2. \A owner \in Owner : pc'[owner] # "cleaning"
    BY <1>4, <2>1
  <2>3. /\ groups' \subseteq {p \in Pool : pc'[p] = "live"}
        /\ \A p \in Pool : pc'[p] \in {"live", "unmapping"} => p \in mapped'
    BY <1>2, <1>3, <1>4 DEF RefcountInv, Owner
  <2>4. guard' = {} /\ cleanup' = << >> /\ Range(CleanupOrder)' \subseteq mapped'
    BY <1>2, <1>3, <2>1, SameSteps DEF RefcountInv
  <2>5. pc'["ring"] = "live" => pc'["submitter"] = "absent" /\ pc'["completer"] = "absent"
    BY <1>1, <1>3, <1>4 DEF RefcountInv
  <2> QED BY <1>6, <2>2, <2>3, <2>4, <2>5 DEF RefcountInv
<1> QED BY <1>2, <1>3, <1>4, <1>7, KeepsLifetime

\* A reference is given back, the last one by the owner that then cleans up.
LEMMA ReleaseInv ==
  ASSUME LifetimeInv, NEW owner \in Owner, Release(owner)
  PROVE  LifetimeInv'
<1> DEFINE last == refcount = 1
<1>1. /\ pc[owner] = "releasing" /\ refcount' = refcount - 1
      /\ cleanup' = (IF last THEN CleanupOrder ELSE cleanup)
      /\ pc' = [pc EXCEPT ![owner] = IF last THEN "cleaning" ELSE "gone"]
      /\ UNCHANGED <<request, acquired, guard, mapped, groups, lost>>
  BY DEF Release
<1>2. acquired = Len(SetupSteps) /\ RefcountInv /\ pc \in [Owner -> Stage] /\ lost = {}
  BY <1>1, OwnersAfterSetup DEF LifetimeInv
<1>3. /\ pc' \in [Owner -> Stage] /\ pc'[owner] = IF last THEN "cleaning" ELSE "gone"
      /\ \A other \in Owner \ {owner} : pc'[other] = pc[other]
  BY <1>1, <1>2 DEF Stage
<1>4. owner \in Holders /\ Holders' = Holders \ {owner} /\ Holders \subseteq Owner
  BY <1>1, <1>2, <1>3 DEF Holders
<1>5. /\ IsFiniteSet(Holders) /\ Cardinality(Holders) \in Nat
      /\ Cardinality(Holders') = Cardinality(Holders) - 1
      /\ IsFiniteSet(Holders')
  BY <1>4, FiniteOwners, FS_RemoveElement
<1>6. refcount = Cardinality(Holders) /\ refcount' = Cardinality(Holders')
  BY <1>1, <1>2, <1>5 DEF RefcountInv
<1>7. last <=> Holders' = {}
  BY <1>1, <1>5, <1>6, FS_EmptySet
<1>8. /\ Range(CleanupOrder) \subseteq mapped /\ cleanup = << >>
      /\ \A other \in Owner : pc[other] # "cleaning"
  BY <1>2, <1>4 DEF RefcountInv
<1>9. CleanupOrder' = CleanupOrder /\ guard' = {}
  BY <1>1, <1>2, SameSteps DEF RefcountInv
<1>10. \A other \in Owner : pc'[other] = "cleaning" => last /\ other = owner
  BY <1>3, <1>8
<1>11. Holders' # {} =>
         /\ Range(CleanupOrder)' \subseteq mapped' /\ cleanup' = << >>
         /\ \A other \in Owner : pc'[other] # "cleaning"
  BY <1>1, <1>7, <1>8, <1>9, <1>10
<1>12. /\ cleanup' \in Seq(RingResource)
       /\ \A i \in DOMAIN cleanup' : cleanup'[i] \in mapped'
       /\ \A i, j \in DOMAIN cleanup' : cleanup'[i] = cleanup'[j] => i = j
  <2>1. CASE last
    <3>1. cleanup' = CleanupOrder /\ mapped' = mapped
      BY <1>1, <2>1
    <3>2. \A i \in DOMAIN CleanupOrder : CleanupOrder[i] \in mapped
      BY <1>8 DEF Range
    <3> QED BY <3>1, <3>2, Steps
  <2>2. CASE ~last
    BY <1>1, <1>8, <2>2
  <2> QED BY <2>1, <2>2
<1>13. /\ \A pool \in Pool : pc'[pool] \in {"live", "unmapping"} => pool \in mapped'
       /\ groups' \subseteq {pool \in Pool : pc'[pool] = "live"}
  BY <1>1, <1>2, <1>3 DEF RefcountInv, Owner
<1>14. pc'["ring"] = "live" => pc'["submitter"] = "absent" /\ pc'["completer"] = "absent"
  BY <1>1, <1>2, <1>3 DEF RefcountInv, Owner, Half
<1>15. RefcountInv'
  BY <1>6, <1>9, <1>10, <1>11, <1>12, <1>13, <1>14 DEF RefcountInv
<1> QED BY <1>1, <1>2, <1>3, <1>15, KeepsLifetime

\* The last owner releases one resource.
LEMMA CleanUpInv ==
  ASSUME LifetimeInv, NEW owner \in Owner, CleanUp(owner)
  PROVE  LifetimeInv'
<1> DEFINE next == IF Tail(cleanup) = << >> THEN "gone" ELSE "cleaning"
<1>1. /\ pc[owner] = "cleaning" /\ cleanup # << >>
      /\ mapped' = mapped \ {Head(cleanup)} /\ lost' = lost \cup ({Head(cleanup)} \ mapped)
      /\ cleanup' = Tail(cleanup) /\ pc' = [pc EXCEPT ![owner] = next]
      /\ UNCHANGED <<request, acquired, guard, refcount, groups>>
  BY DEF CleanUp
<1>2. acquired = Len(SetupSteps) /\ RefcountInv /\ pc \in [Owner -> Stage] /\ lost = {}
  BY <1>1, OwnersAfterSetup DEF LifetimeInv
<1>3. /\ pc' \in [Owner -> Stage] /\ pc'[owner] = next
      /\ \A other \in Owner \ {owner} : pc'[other] = pc[other]
  BY <1>1, <1>2 DEF Stage
<1>4. Holders = {} /\ Holders' = {}
  <2>1. Holders = {}
    BY <1>1, <1>2 DEF RefcountInv
  <2> QED BY <1>1, <1>2, <1>3, <2>1 DEF Holders
<1>5. cleanup \in Seq(RingResource) /\ \A i, j \in DOMAIN cleanup : cleanup[i] = cleanup[j] => i = j
  BY <1>2 DEF RefcountInv
<1>6. /\ Head(cleanup) = cleanup[1] /\ 1 \in DOMAIN cleanup
      /\ cleanup' \in Seq(RingResource)
      /\ \A i \in DOMAIN cleanup' :
           cleanup'[i] = cleanup[i + 1] /\ i + 1 \in DOMAIN cleanup /\ i + 1 # 1 /\ i \in Nat
  BY <1>1, <1>5
<1>7. lost' = {}
  BY <1>1, <1>2, <1>6 DEF RefcountInv
<1>8. /\ \A i \in DOMAIN cleanup' : cleanup'[i] \in mapped'
      /\ \A i, j \in DOMAIN cleanup' : cleanup'[i] = cleanup'[j] => i = j
  <2>1. \A i \in DOMAIN cleanup' : cleanup'[i] \in mapped'
    BY <1>1, <1>2, <1>5, <1>6 DEF RefcountInv
  <2>2. ASSUME NEW i \in DOMAIN cleanup', NEW j \in DOMAIN cleanup', cleanup'[i] = cleanup'[j]
        PROVE  i = j
    <3>1. i + 1 = j + 1
      BY <1>5, <1>6, <2>2
    <3> QED BY <1>6, <3>1
  <2> QED BY <2>1, <2>2
<1>9. /\ \A a, b \in Owner : pc'[a] = "cleaning" /\ pc'[b] = "cleaning" => a = b
      /\ \A pool \in Pool : pc'[pool] \notin {"live", "unmapping"}
      /\ groups' = {}
      /\ pc'["ring"] # "live"
  <2>1. \A other \in Owner : pc[other] \notin {"live", "unmapping"} /\ pc'[other] \notin {"live", "unmapping"}
    BY <1>4 DEF Holders
  <2>2. groups = {}
    BY <1>2, <2>1 DEF RefcountInv, Owner
  <2> QED BY <1>1, <1>2, <1>3, <2>1, <2>2, ZenonT(30) DEF RefcountInv, Owner, Half
<1>10. RefcountInv'
  BY <1>1, <1>2, <1>4, <1>6, <1>8, <1>9 DEF RefcountInv
<1> QED BY <1>1, <1>2, <1>3, <1>7, <1>10, KeepsLifetime

\* Drops that begin, and registrations that end, change no count.
LEMMA DropInv ==
  ASSUME LifetimeInv, NEW owner \in Owner,
         \/ owner \in Half /\ DropHalf(owner)
         \/ owner \in Pool /\ (UnregisterPool(owner) \/ DropPool(owner) \/ UnmapPool(owner))
  PROVE  LifetimeInv'
<1>1. pc \in [Owner -> Stage] /\ lost = {} /\ "ring" \in Owner /\ "ring" \notin Pool
  BY OwnerAssumption DEF LifetimeInv, Owner, Half
<1>2. groups \subseteq {pool \in Pool : pc[pool] = "live"}
  BY DEF LifetimeInv, SetupInv, RefcountInv
<1>3. CASE owner \in Half /\ DropHalf(owner)
  <2>1. /\ pc[owner] = "live" /\ pc' = [pc EXCEPT ![owner] = "releasing"]
        /\ UNCHANGED <<request, acquired, guard, mapped, refcount, cleanup, groups, lost>>
    BY <1>3 DEF DropHalf
  <2>2. owner \notin Pool /\ owner \in Holders
    BY <1>3, <2>1, OwnerAssumption DEF Holders
  <2> QED BY <1>1, <1>2, <2>1, <2>2, StaysHolder, ZenonT(30)
<1>4. CASE owner \in Pool /\ UnregisterPool(owner)
  <2>1. /\ pc["ring"] = "live" /\ groups' \subseteq groups
        /\ UNCHANGED <<request, acquired, guard, mapped, pc, refcount, cleanup, lost>>
    BY <1>4 DEF UnregisterPool, Unregister
  <2>2. "ring" \in Holders /\ "ring" \notin groups /\ pc' = [pc EXCEPT !["ring"] = "live"]
    BY <1>1, <1>2, <2>1 DEF Holders
  <2> QED BY <1>1, <2>1, <2>2, StaysHolder, ZenonT(30)
<1>5. CASE owner \in Pool /\ DropPool(owner)
  <2>1. /\ pc[owner] = "live" /\ pc' = [pc EXCEPT ![owner] = "unmapping"]
        /\ groups' \subseteq groups /\ owner \notin groups'
        /\ UNCHANGED <<request, acquired, guard, mapped, refcount, cleanup, lost>>
    BY <1>5 DEF DropPool, Unregister
  <2>2. owner \in Holders
    BY <2>1 DEF Holders
  <2> QED BY <1>1, <2>1, <2>2, StaysHolder, ZenonT(30)
<1>6. CASE owner \in Pool /\ UnmapPool(owner)
  <2>1. /\ pc[owner] = "unmapping" /\ pc' = [pc EXCEPT ![owner] = "releasing"]
        /\ mapped' = mapped \ {owner} /\ lost' = lost \cup ({owner} \ mapped)
        /\ UNCHANGED <<request, acquired, guard, refcount, cleanup, groups>>
    BY <1>6 DEF UnmapPool
  <2>2. owner \in Holders /\ owner \notin groups
    BY <1>2, <2>1 DEF Holders
  <2>3. RefcountInv
    BY <2>1, OwnersAfterSetup
  <2>4. owner \in mapped /\ lost' = {}
    BY <1>1, <1>6, <2>1, <2>3 DEF RefcountInv
  <2>5. mapped' = mapped \ ({owner} \cap Pool)
    BY <1>6, <2>1
  <2> QED BY <2>1, <2>2, <2>4, <2>5, StaysHolder, ZenonT(30)
<1> QED BY <1>3, <1>4, <1>5, <1>6

\* The invariant of a ring's life.
THEOREM RingLifetimeInvariant == Spec => []LifetimeInv
<1>1. Init => LifetimeInv
  <2> SUFFICES ASSUME Init PROVE LifetimeInv
    OBVIOUS
  <2>1. Len(SetupSteps) \in {4, 5}
    BY Steps
  <2>2. /\ acquired = 0 /\ guard = {} /\ mapped = {} /\ pc = [owner \in Owner |-> "absent"]
        /\ refcount = 0 /\ cleanup = << >> /\ groups = {} /\ lost = {}
    BY DEF Init
  <2>3. {SetupSteps[i] : i \in 1 .. 0} = {}
    OBVIOUS
  <2>4. SetupInv
    BY <2>1, <2>2, <2>3 DEF SetupInv
  <2> QED BY <2>1, <2>2, <2>4 DEF LifetimeInv, Stage
<1>2. LifetimeInv /\ [Next]_vars => LifetimeInv'
  <2> SUFFICES ASSUME LifetimeInv, [Next]_vars PROVE LifetimeInv'
    OBVIOUS
  <2>1. ASSUME NEW owner \in Owner, OwnerStep(owner) PROVE LifetimeInv'
    <3>1. CASE owner \in Pool /\ RegisterPool(owner)
      BY <3>1, RegisterPoolInv
    <3>2. CASE Release(owner)
      BY <3>2, ReleaseInv
    <3>3. CASE CleanUp(owner)
      BY <3>3, CleanUpInv
    <3> QED BY <2>1, <3>1, <3>2, <3>3, DropInv DEF OwnerStep
  <2>2. CASE UNCHANGED vars
    BY <2>2
       DEF vars, LifetimeInv, SetupInv, RefcountInv, Holders, SetupSteps, CleanupOrder
  <2> QED BY <2>1, <2>2, AcquireInv, SetupFailsInv, SplitInv DEF Next
<1> QED BY <1>1, <1>2, PTL DEF Spec

\* Every owner that is left finds the fd open and the rings mapped, in whatever
\* order and on whatever threads the others drop (resources.rs release).
THEOREM RingOutlivesOwners == Spec => []OwnersReachRing
<1>1. LifetimeInv => OwnersReachRing
  <2> SUFFICES ASSUME LifetimeInv, Holders # {} PROVE Range(CleanupOrder) \subseteq mapped
    BY DEF OwnersReachRing
  <2>1. PICK owner \in Owner : pc[owner] # "absent"
    BY DEF Holders
  <2>2. RefcountInv
    BY <2>1, OwnersAfterSetup
  <2> QED BY <2>2 DEF RefcountInv
<1> QED BY <1>1, RingLifetimeInvariant, PTL

\* No region is unmapped and no descriptor closed twice, by the unwinding of a
\* failed setup or by two owners that race for the last reference.
THEOREM RingFreedOnce == Spec => []NothingFreedTwice
<1>1. LifetimeInv => NothingFreedTwice
  BY DEF LifetimeInv, NothingFreedTwice
<1> QED BY <1>1, RingLifetimeInvariant, PTL

\* The kernel never holds a registration of unmapped buffers, however pools and
\* groups are registered and dropped (pbuf.rs drop, register.rs).
THEOREM RegistrationsAreMapped == Spec => []RegisteredPoolsMapped
<1>1. LifetimeInv => RegisteredPoolsMapped
  BY DEF LifetimeInv, SetupInv, RefcountInv, RegisteredPoolsMapped
<1> QED BY <1>1, RingLifetimeInvariant, PTL

-----------------------------------------------------------------------------
\* Nothing is left behind.

\* The pools that still have their mappings.
Pools == {pool \in Pool : pc[pool] \in {"live", "unmapping"}}

\* The regions of the ring are not pools.
LEMMA RingIsNoPool == Range(CleanupOrder) \cap Pool = {}
BY Steps, OwnerAssumption DEF Range

\* While an owner is left, before and after a step, only pools come and go.
LEMMA HeldStep ==
  ASSUME MappedIsHeld, acquired = Len(SetupSteps), UNCHANGED <<request, acquired>>,
         Holders # {}, Holders' # {},
         \/ mapped' = mapped /\ Pools' = Pools
         \/ \E pool \in Pool : mapped' = mapped \cup {pool} /\ Pools' = Pools \cup {pool}
         \/ \E pool \in Pool : mapped' = mapped \ {pool} /\ Pools' = Pools \ {pool}
  PROVE  MappedIsHeld'
<1>1. mapped = Range(CleanupOrder) \cup Pools
  BY DEF MappedIsHeld, Pools
<1>2. CleanupOrder' = CleanupOrder
  BY SameSteps
<1>3. mapped' = Range(CleanupOrder) \cup Pools'
  BY <1>1, RingIsNoPool
<1> QED
  BY <1>2, <1>3 DEF MappedIsHeld, Pools

\* The last step of setup makes the ring whole.
LEMMA AcquireHeld ==
  ASSUME LifetimeInv, Acquire
  PROVE  MappedIsHeld'
<1> DEFINE n == Len(SetupSteps)
<1>1. /\ acquired < n /\ acquired' = acquired + 1 /\ mapped' = mapped \cup {SetupSteps[acquired']}
      /\ UNCHANGED request
  BY DEF Acquire
<1>2. SetupSteps' = SetupSteps /\ CleanupOrder' = CleanupOrder
  BY <1>1, SameSteps
<1>3. n \in {4, 5} /\ acquired \in Nat
  BY Steps DEF LifetimeInv
<1>4. /\ SetupInv /\ pc \in [Owner -> Stage] /\ mapped = {SetupSteps[i] : i \in 1 .. acquired}
  BY <1>1, <1>3 DEF LifetimeInv, SetupInv
<1>5. CASE acquired' = n
  <2>1. mapped' = {SetupSteps[i] : i \in 1 .. n}
    BY <1>1, <1>3, <1>4, <1>5
  <2>2. mapped' = Range(CleanupOrder)
    BY <2>1, Steps
  <2>3. pc' = [pc EXCEPT !["ring"] = "live"]
    <3>1. SetupSteps[acquired'] = "page"
      BY <1>5, Steps
    <3> QED
      BY <3>1 DEF Acquire
  <2>4. /\ "ring" \in Owner /\ pc'["ring"] = "live"
        /\ \A pool \in Pool : pc'[pool] = "absent"
    BY <1>4, <2>3, OwnerAssumption, ZenonT(30) DEF SetupInv, Owner, Half
  <2>5. Holders' # {} /\ Pools' = {}
    BY <2>4 DEF Holders, Pools
  <2> QED
    BY <1>2, <2>2, <2>5 DEF MappedIsHeld, Pools
<1>6. CASE acquired' # n
  BY <1>2, <1>6 DEF MappedIsHeld
<1> QED
  BY <1>5, <1>6

\* A reference is given back: with the last one, everything is left to clean up.
LEMMA ReleaseHeld ==
  ASSUME LifetimeInv, MappedIsHeld, NEW owner \in Owner, Release(owner)
  PROVE  MappedIsHeld'
<1> DEFINE last == refcount = 1
<1>1. /\ pc[owner] = "releasing"
      /\ cleanup' = (IF last THEN CleanupOrder ELSE cleanup)
      /\ pc' = [pc EXCEPT ![owner] = IF last THEN "cleaning" ELSE "gone"]
      /\ UNCHANGED <<request, acquired, mapped>>
  BY DEF Release
<1>2. acquired = Len(SetupSteps) /\ RefcountInv /\ pc \in [Owner -> Stage]
  BY <1>1, OwnersAfterSetup DEF LifetimeInv
<1>3. owner \in Holders /\ Holders' = Holders \ {owner} /\ Holders \subseteq Owner
  BY <1>1, <1>2 DEF Holders, Stage
<1>4. Pools' = Pools
  BY <1>1, <1>2 DEF Pools, Owner
<1>5. CASE last
  <2>1. Holders' = {}
    <3>1. IsFiniteSet(Holders) /\ IsFiniteSet(Holders') /\ Cardinality(Holders) = 1
      BY <1>2, <1>3, <1>5, FiniteOwners DEF RefcountInv
    <3>2. Cardinality(Holders') = 0
      BY <1>3, <3>1, FS_RemoveElement
    <3> QED
      BY <3>1, <3>2, FS_EmptySet
  <2>2. mapped = Range(CleanupOrder) \cup Pools
    BY <1>2, <1>3 DEF MappedIsHeld, Pools
  <2>3. mapped' = Range(cleanup') \cup Pools'
    BY <1>1, <1>4, <1>5, <2>2
  <2> QED
    BY <2>1, <2>3 DEF MappedIsHeld, Pools
<1>6. CASE ~last
  <2>1. Holders' # {}
    <3>1. CASE Holders' = {}
      <4>1. Holders = {owner}
        BY <1>3, <3>1
      <4>2. Cardinality(Holders) = 1
        BY <4>1, FS_Singleton, ZenonT(30)
      <4> QED
        BY <1>2, <1>6, <4>2 DEF RefcountInv
    <3> QED
      BY <3>1
  <2> QED
    BY <1>1, <1>2, <1>3, <1>4, <2>1, HeldStep
<1> QED
  BY <1>5, <1>6

\* The last owner unmaps what comes next, and it was there once.
LEMMA CleanUpHeld ==
  ASSUME LifetimeInv, MappedIsHeld, NEW owner \in Owner, CleanUp(owner)
  PROVE  MappedIsHeld'
<1>1. /\ pc[owner] = "cleaning" /\ cleanup # << >>
      /\ mapped' = mapped \ {Head(cleanup)} /\ cleanup' = Tail(cleanup)
      /\ pc' = [pc EXCEPT ![owner] = IF Tail(cleanup) = << >> THEN "gone" ELSE "cleaning"]
      /\ UNCHANGED <<request, acquired>>
  BY DEF CleanUp
<1>2. acquired = Len(SetupSteps) /\ RefcountInv /\ pc \in [Owner -> Stage]
  BY <1>1, OwnersAfterSetup DEF LifetimeInv
<1>3. Holders = {}
  BY <1>1, <1>2 DEF RefcountInv
<1>4. Holders' = {} /\ Pools = {} /\ Pools' = {}
  BY <1>1, <1>2, <1>3 DEF Holders, Pools, Owner
<1>5. mapped = Range(cleanup)
  BY <1>2, <1>3, <1>4, ZenonT(30) DEF MappedIsHeld, Pools
<1>6. cleanup \in Seq(RingResource) /\ \A i, j \in DOMAIN cleanup : cleanup[i] = cleanup[j] => i = j
  BY <1>2 DEF RefcountInv
<1>7. Range(cleanup') = Range(cleanup) \ {Head(cleanup)}
  <2>1. /\ DOMAIN cleanup = 1 .. Len(cleanup) /\ DOMAIN cleanup' = 1 .. Len(cleanup) - 1
        /\ Len(cleanup) \in Nat /\ Head(cleanup) = cleanup[1] /\ 1 \in DOMAIN cleanup
        /\ \A i \in DOMAIN cleanup' : cleanup'[i] = cleanup[i + 1]
    BY <1>1, <1>6
  <2>2. \A i \in DOMAIN cleanup' : i + 1 \in DOMAIN cleanup /\ i + 1 # 1
    BY <2>1
  <2>3. ASSUME NEW i \in DOMAIN cleanup, i # 1 PROVE cleanup[i] \in Range(cleanup')
    <3>1. i - 1 \in DOMAIN cleanup' /\ (i - 1) + 1 = i
      BY <2>1, <2>3
    <3>2. cleanup'[i - 1] = cleanup[i]
      BY <2>1, <3>1
    <3> QED
      BY <3>1, <3>2 DEF Range
  <2>4. \A i \in DOMAIN cleanup' : cleanup'[i] \in Range(cleanup) /\ cleanup'[i] # Head(cleanup)
    BY <1>6, <2>1, <2>2 DEF Range
  <2>5. \A x : x \in Range(cleanup) /\ x # Head(cleanup) => x \in Range(cleanup')
    BY <2>1, <2>3 DEF Range
  <2>6. \A x \in Range(cleanup') : x \in Range(cleanup) /\ x # Head(cleanup)
    BY <2>4 DEF Range
  <2> QED
    BY <2>5, <2>6
<1> QED
  BY <1>1, <1>4, <1>5, <1>7 DEF MappedIsHeld, Pools

\* Whatever step is taken, what is mapped is what somebody will release.
LEMMA MappedStep ==
  ASSUME LifetimeInv, MappedIsHeld, [Next]_vars
  PROVE  MappedIsHeld'
<1>1. /\ pc \in [Owner -> Stage] /\ "ring" \in Owner /\ "submitter" \in Owner /\ "completer" \in Owner
      /\ "ring" \notin Pool /\ "submitter" \notin Pool /\ "completer" \notin Pool
      /\ Pool \subseteq Owner
  BY OwnerAssumption DEF LifetimeInv, Owner, Half
<1>2. \A owner \in Owner : pc[owner] # "absent" => acquired = Len(SetupSteps)
  BY OwnersAfterSetup
<1>3. CASE SetupFails
  <2>1. acquired' = Len(SetupSteps) + 1 /\ SetupSteps' = SetupSteps /\ Len(SetupSteps) \in {4, 5}
    BY <1>3, SameSteps, Steps DEF SetupFails
  <2> QED
    BY <2>1 DEF MappedIsHeld
<1>4. CASE Split
  <2>1. /\ pc["ring"] = "live" /\ UNCHANGED <<request, acquired, mapped>>
        /\ pc' = [pc EXCEPT !["ring"] = "moved", !["submitter"] = "live", !["completer"] = "live"]
    BY <1>4 DEF Split
  <2>2. Holders # {} /\ Holders' # {} /\ Pools' = Pools
    BY <1>1, <2>1 DEF Holders, Pools
  <2> QED
    BY <1>1, <1>2, <2>1, <2>2, HeldStep
<1>5. ASSUME NEW pool \in Pool, RegisterPool(pool) PROVE MappedIsHeld'
  <2>1. /\ pc["ring"] = "live" \/ pc["submitter"] = "live"
        /\ mapped' = mapped \cup {pool} /\ pc' = [pc EXCEPT ![pool] = "live"]
        /\ UNCHANGED <<request, acquired>>
    BY <1>5 DEF RegisterPool
  <2>2. Holders # {} /\ Holders' # {} /\ Pools' = Pools \cup {pool}
    BY <1>1, <2>1 DEF Holders, Pools
  <2> QED
    BY <1>1, <1>2, <2>1, <2>2, HeldStep
<1>6. ASSUME NEW pool \in Pool, UnregisterPool(pool) PROVE MappedIsHeld'
  <2>1. pc["ring"] = "live" /\ UNCHANGED <<request, acquired, mapped, pc>>
    BY <1>6 DEF UnregisterPool
  <2>2. Holders # {} /\ Holders' # {} /\ Pools' = Pools
    BY <1>1, <2>1 DEF Holders, Pools
  <2> QED
    BY <1>1, <1>2, <2>1, <2>2, HeldStep
<1>7. ASSUME NEW half \in Half, DropHalf(half) PROVE MappedIsHeld'
  <2>1. /\ pc[half] = "live" /\ pc' = [pc EXCEPT ![half] = "releasing"]
        /\ UNCHANGED <<request, acquired, mapped>>
    BY <1>7 DEF DropHalf
  <2>2. half \in Owner /\ half \notin Pool
    BY OwnerAssumption DEF Owner
  <2>3. Holders # {} /\ Holders' # {} /\ Pools' = Pools
    BY <1>1, <2>1, <2>2 DEF Holders, Pools
  <2> QED
    BY <1>2, <2>1, <2>2, <2>3, HeldStep
<1>8. ASSUME NEW pool \in Pool, DropPool(pool) PROVE MappedIsHeld'
  <2>1. /\ pc[pool] = "live" /\ pc' = [pc EXCEPT ![pool] = "unmapping"]
        /\ UNCHANGED <<request, acquired, mapped>>
    BY <1>8 DEF DropPool
  <2>2. Holders # {} /\ Holders' # {} /\ Pools' = Pools
    BY <1>1, <2>1 DEF Holders, Pools
  <2> QED
    BY <1>1, <1>2, <2>1, <2>2, HeldStep
<1>9. ASSUME NEW pool \in Pool, UnmapPool(pool) PROVE MappedIsHeld'
  <2>1. /\ pc[pool] = "unmapping" /\ pc' = [pc EXCEPT ![pool] = "releasing"]
        /\ mapped' = mapped \ {pool} /\ UNCHANGED <<request, acquired>>
    BY <1>9 DEF UnmapPool
  <2>2. Holders # {} /\ Holders' # {} /\ Pools' = Pools \ {pool}
    BY <1>1, <2>1 DEF Holders, Pools
  <2> QED
    BY <1>1, <1>2, <2>1, <2>2, HeldStep
<1>10. CASE UNCHANGED vars
  BY <1>10 DEF vars, MappedIsHeld, Holders, SetupSteps, CleanupOrder
<1> QED
  BY <1>3, <1>4, <1>5, <1>6, <1>7, <1>8, <1>9, <1>10, AcquireHeld, ReleaseHeld, CleanUpHeld
     DEF Next, OwnerStep

\* At every moment of a ring's life the fd and the mappings are exactly what the
\* owners that are left, or the last one's cleanup, will release: no step of
\* setup, registration or drop loses track of a region (resources.rs release,
\* guard.rs, pbuf.rs drop).
THEOREM RingHoldsWhatIsMapped == Spec => []MappedIsHeld
<1>1. Init => MappedIsHeld
  BY Steps DEF Init, MappedIsHeld
<1>2. LifetimeInv /\ MappedIsHeld /\ [Next]_vars => MappedIsHeld'
  BY MappedStep
<1> QED
  BY <1>1, <1>2, RingLifetimeInvariant, PTL DEF Spec

\* When the last owner is done the fd is closed and no mapping is left, of the
\* ring or of any pool, and a setup that failed leaves nothing either.
THEOREM RingLeavesNothing == Spec => []NothingLeaked
<1>1. LifetimeInv /\ MappedIsHeld => NothingLeaked
  <2> SUFFICES ASSUME LifetimeInv, MappedIsHeld, acquired >= Len(SetupSteps), Holders = {},
                      cleanup = << >>
               PROVE  mapped = {}
    BY DEF NothingLeaked
  <2>1. CASE acquired = Len(SetupSteps)
    <3>1. Pools = {}
      BY DEF Holders, Pools, Owner
    <3>2. Range(<< >>) = {}
      BY DEF Range
    <3>3. mapped = Range(cleanup) \cup Pools
      BY <2>1 DEF MappedIsHeld, Pools
    <3> QED
      BY <3>1, <3>2, <3>3
  <2>2. CASE acquired # Len(SetupSteps)
    <3>1. Len(SetupSteps) \in {4, 5} /\ acquired \in Nat
      BY Steps DEF LifetimeInv
    <3> QED
      BY <2>2, <3>1 DEF LifetimeInv, SetupInv
  <2> QED
    BY <2>1, <2>2
<1> QED
  BY <1>1, RingLifetimeInvariant, RingHoldsWhatIsMapped, PTL

-----------------------------------------------------------------------------
\* The memory of a ring that was set up.

\* Every size within the kernel's limits has a power of two to be rounded up to.
LEMMA RoundedUp ==
  ASSUME NEW n \in Nat, n <= IORING_MAX_CQ_ENTRIES
  PROVE  NextPowerOfTwo(n) \in Nat /\ NextPowerOfTwo(n) > 0
<1> DEFINE Least(p) == p >= n /\ \A q \in PowersOfTwo : q >= n => p <= q
<1>1. \E p \in PowersOfTwo : Least(p)
  <2>1. n <= 65536
    BY DEF IORING_MAX_CQ_ENTRIES, IORING_MAX_ENTRIES
  <2>2. CASE n <= 128
    BY <2>2 DEF PowersOfTwo
  <2>3. CASE n > 128 /\ n <= 4096
    BY <2>3 DEF PowersOfTwo
  <2>4. CASE n > 4096
    BY <2>1, <2>4 DEF PowersOfTwo
  <2> QED
    BY <2>2, <2>3, <2>4
<1>2. NextPowerOfTwo(n) \in PowersOfTwo
  BY <1>1, Zenon DEF NextPowerOfTwo
<1> QED
  BY <1>2 DEF PowersOfTwo

\* Rounding up to pages adds less than one page.
LEMMA Aligned ==
  ASSUME NEW n \in Nat
  PROVE  AlignUp(n, PAGE_SIZE) \in n .. n + PAGE_SIZE - 1
BY DEF AlignUp, PAGE_SIZE

\* What the kernel accepts, it settles on, and the prediction finds the same.
LEMMA Settled ==
  ASSUME NEW asked, asked.entries \in Nat, asked.cq_entries \in Nat, Accepts(asked)
  PROVE  /\ SettledSq(asked) \in Nat /\ SettledSq(asked) > 0
         /\ SettledCq(asked) \in Nat /\ SettledCq(asked) > 0
         /\ PredictSq(asked) = SettledSq(asked)
         /\ PredictCq(asked, SettledSq(asked)) = SettledCq(asked)
<1> DEFINE sq == Limit(asked.entries, IORING_MAX_ENTRIES, asked)
           cq == Limit(asked.cq_entries, IORING_MAX_CQ_ENTRIES, asked)
<1>1. sq \in 1 .. IORING_MAX_ENTRIES
  BY DEF Accepts
<1>2. /\ IORING_MAX_ENTRIES \in Nat /\ IORING_MAX_CQ_ENTRIES \in Nat
      /\ IORING_MAX_ENTRIES > 0 /\ IORING_MAX_CQ_ENTRIES > 0
      /\ IORING_MAX_ENTRIES <= IORING_MAX_CQ_ENTRIES
  BY DEF IORING_MAX_ENTRIES, IORING_MAX_CQ_ENTRIES
<1>3. SettledSq(asked) \in Nat /\ SettledSq(asked) > 0
  BY <1>1, <1>2, RoundedUp DEF SettledSq
<1>4. PredictSq(asked) = SettledSq(asked)
  BY DEF PredictSq, SettledSq
<1>5. CASE "CQSIZE" \notin asked.flags
  BY <1>3, <1>4, <1>5 DEF SettledCq, PredictCq
<1>6. CASE "CQSIZE" \in asked.flags
  <2>1. cq \in 1 .. IORING_MAX_CQ_ENTRIES /\ SettledCq(asked) >= SettledSq(asked)
    BY <1>6 DEF Accepts
  <2>2. SettledCq(asked) = NextPowerOfTwo(cq)
    BY <1>6 DEF SettledCq
  <2>3. cq \in Nat /\ cq <= IORING_MAX_CQ_ENTRIES
    BY <1>2, <2>1
  <2>4. NextPowerOfTwo(cq) \in Nat /\ NextPowerOfTwo(cq) > 0
    BY <2>3, RoundedUp
  <2>5. asked.cq_entries > 0
    BY <1>2, <2>1 DEF Limit
  <2>6. PredictCq(asked, SettledSq(asked)) = Larger(NextPowerOfTwo(cq), SettledSq(asked))
    BY <1>6, <2>5 DEF PredictCq
  <2> QED
    BY <1>3, <1>4, <2>1, <2>2, <2>4, <2>6 DEF Larger
<1> QED
  BY <1>5, <1>6

\* A ring the kernel accepted, and whose SQ mapping is not empty, fits.
LEMMA Fits ==
  ASSUME NEW asked, asked.entries \in Nat, asked.cq_entries \in Nat, Accepts(asked),
         asked.flags \subseteq SUPPORTED_MASK \cup {"SINGLE_MMAP"}, Length(asked, "sq") > 0
  PROVE  /\ \A part \in Reached(asked) : part.to <= Length(asked, part.region)
         /\ IF "NO_MMAP" \in asked.flags
            THEN \A part \in Pinned(asked) : part.to <= Length(asked, part.region)
            ELSE \A region \in {"sq", "cq", "sqes"} : Length(asked, region) <= Backed(asked, region)
         /\ SqeSize = KernelSqeSize(asked)
<1>1. PICK sq, cq : sq = SettledSq(asked) /\ cq = SettledCq(asked)
  BY Zenon
<1>2. /\ sq \in Nat /\ sq > 0 /\ cq \in Nat /\ cq > 0
      /\ PredictSq(asked) = sq /\ PredictCq(asked, sq) = cq
  BY <1>1, Settled, Zenon
<1>3. KernelSqeSize(asked) = 64 /\ SqeSize = 64
  BY DEF KernelSqeSize, SqeSize, SUPPORTED_MASK
<1>4. PICK line : line = CacheLine /\ line \in {32, 64, 128} /\ line \in Nat
  BY LayoutAssumption
<1>5. PICK array : array = AlignUp(2 * line + 16 * cq, line)
                   /\ array \in 2 * line + 16 * cq .. 2 * line + 16 * cq + line - 1
  <2>1. PICK bytes : bytes = 2 * line + 16 * cq /\ bytes \in Nat
    BY <1>2, <1>4
  <2>2. AlignUp(bytes, line) \in bytes .. bytes + line - 1
    <3>1. CASE line = 32
      BY <2>1, <3>1 DEF AlignUp
    <3>2. CASE line = 64
      BY <2>1, <3>2 DEF AlignUp
    <3>3. CASE line = 128
      BY <2>1, <3>3 DEF AlignUp
    <3> QED
      BY <1>4, <3>1, <3>2, <3>3
  <2> QED
    BY <2>1, <2>2, Zenon
<1>6. /\ HasSqArray(asked) => /\ ArrayOffset(asked) = array /\ RingsSize(asked) = array + 4 * sq
                              /\ SqRingSize(asked) = array + 4 * sq
      /\ ~HasSqArray(asked) => /\ ArrayOffset(asked) = 0 /\ RingsSize(asked) = 2 * line + 16 * cq
                               /\ SqRingSize(asked) = 0
  BY <1>1, <1>2, <1>4, <1>5 DEF ArrayOffset, RingsSize, SqRingSize, RingBytes, CqesOffset, CqeSize
<1>7. CqRingSize(asked) = 2 * line + 16 * cq
  BY <1>1, <1>2, <1>4 DEF CqRingSize, RingBytes, CqesOffset, CqeSize
<1>8. ASSUME NEW part \in Reached(asked)
       PROVE  \/ part.region = "sq" /\ part.to \in Int /\ part.to <= line + 32
              \/ part.region = "sq" /\ part.to = SqRingSize(asked)
              \/ part.region = CqRegion(asked) /\ part.to \in Int /\ part.to <= CqRingSize(asked)
              \/ part.region = "sqes" /\ part.to = 64 * sq
  BY <1>1, <1>2, <1>4, <1>6, <1>7
     DEF Reached, CqesOffset, CqeSize, SqeSize, SqRingSize, RingBytes
<1>9. CASE "NO_MMAP" \in asked.flags
  <2>1. /\ Length(asked, "sq") = RingRegionSize(asked)
        /\ Length(asked, "sqes") = SqesRegionSize(asked)
        /\ CqRegion(asked) = "sq"
    BY <1>9 DEF Length, CqRegion
  <2>2. Length(asked, "sq") >= 256 + 16 * cq + (IF HasSqArray(asked) THEN 4 * sq ELSE 0) + 4096
    <3>1. PICK bytes : bytes = 256 + 16 * cq + (IF HasSqArray(asked) THEN 4 * sq ELSE 0)
      BY Zenon
    <3>2. bytes \in Nat
      BY <1>2, <3>1
    <3>3. RingRegionSize(asked) = AlignUp(bytes, PAGE_SIZE) + PAGE_SIZE
      BY <1>2, <3>1 DEF RingRegionSize, RINGS_HEADER_SLACK, CqeSize
    <3>4. AlignUp(bytes, PAGE_SIZE) \in bytes .. bytes + PAGE_SIZE - 1
      BY <3>2, Aligned, Zenon
    <3> QED
      BY <2>1, <3>1, <3>2, <3>3, <3>4 DEF PAGE_SIZE
  <2>3. Length(asked, "sqes") >= 64 * sq
    <3>1. AlignUp(64 * sq, PAGE_SIZE) \in 64 * sq .. 64 * sq + PAGE_SIZE - 1
      <4>1. PICK bytes : bytes = 64 * sq /\ bytes \in Nat
        BY <1>2
      <4> QED
        BY <4>1, Aligned, Zenon
    <3> QED
      BY <1>2, <2>1, <3>1 DEF SqesRegionSize, SqeSize, PAGE_SIZE
  <2>4. PICK length : length = Length(asked, "sq")
    BY Zenon
  <2>5. length \in Int
    <3>1. CASE HasSqArray(asked)
      BY <1>2, <2>1, <2>4, <3>1 DEF RingRegionSize, AlignUp, PAGE_SIZE, CqeSize, RINGS_HEADER_SLACK
    <3>2. CASE ~HasSqArray(asked)
      BY <1>2, <2>1, <2>4, <3>2 DEF RingRegionSize, AlignUp, PAGE_SIZE, CqeSize, RINGS_HEADER_SLACK
    <3> QED BY <3>1, <3>2
  <2>6. RingsSize(asked) <= length /\ SqRingSize(asked) <= length /\ CqRingSize(asked) <= length
        /\ line + 32 <= length
    <3>1. CASE HasSqArray(asked)
      <4>1. length >= 256 + 16 * cq + 4 * sq + 4096
        BY <1>2, <2>2, <2>4, <3>1
      <4> QED
        BY <1>2, <1>4, <1>5, <1>6, <1>7, <2>5, <3>1, <4>1
    <3>2. CASE ~HasSqArray(asked)
      <4>1. length >= 256 + 16 * cq + 0 + 4096
        BY <1>2, <2>2, <2>4, <3>2
      <4> QED
        BY <1>2, <1>4, <1>5, <1>6, <1>7, <2>5, <3>2, <4>1
    <3> QED
      BY <3>1, <3>2
  <2>7. \A part \in Pinned(asked) : part.to <= Length(asked, part.region)
    BY <1>1, <1>3, <2>3, <2>4, <2>6 DEF Pinned
  <2>8. \A part \in Reached(asked) : part.to <= Length(asked, part.region)
    <3> TAKE part \in Reached(asked)
    <3>1. CASE part.region = "sq" /\ part.to \in Int /\ part.to <= line + 32
      BY <1>4, <2>4, <2>5, <2>6, <3>1
    <3>2. CASE part.region = "sq" /\ part.to = SqRingSize(asked)
      BY <2>4, <2>6, <3>2
    <3>3. CASE part.region = "sq" /\ part.to \in Int /\ part.to <= CqRingSize(asked)
      BY <1>2, <1>4, <1>7, <2>4, <2>5, <2>6, <3>3
    <3>4. CASE part.region = "sqes" /\ part.to = 64 * sq
      BY <1>2, <2>3, <3>4
    <3> QED
      BY <1>8, <2>1, <3>1, <3>2, <3>3, <3>4, Zenon
  <2> QED
    BY <1>3, <1>9, <2>7, <2>8, Zenon
<1>10. CASE "NO_MMAP" \notin asked.flags
  <2>1. /\ Length(asked, "sq") = MmapSize(asked) /\ Length(asked, "cq") = CqRingSize(asked)
        /\ Length(asked, "sqes") = 64 * sq
        /\ CqRegion(asked) = IF "SINGLE_MMAP" \in asked.flags THEN "sq" ELSE "cq"
    BY <1>1, <1>2, <1>10 DEF Length, CqRegion, RingBytes, SqeSize
  <2>2. SqRingSize(asked) \in Nat /\ RingsSize(asked) \in Nat
    BY <1>2, <1>4, <1>5, <1>6
  <2>3. /\ MmapSize(asked) \in Nat /\ SqRingSize(asked) <= MmapSize(asked)
        /\ line + 32 <= MmapSize(asked) /\ MmapSize(asked) <= RingsSize(asked)
        /\ "SINGLE_MMAP" \in asked.flags => CqRingSize(asked) <= MmapSize(asked)
        /\ CqRingSize(asked) <= RingsSize(asked)
    <3>1. CASE HasSqArray(asked)
      BY <1>2, <1>4, <1>5, <1>6, <1>7, <3>1 DEF MmapSize, Larger
    <3>2. CASE ~HasSqArray(asked)
      <4>1. "SINGLE_MMAP" \in asked.flags
        BY <1>6, <2>1, <3>2 DEF MmapSize
      <4> QED
        BY <1>2, <1>4, <1>6, <1>7, <3>2, <4>1 DEF MmapSize, Larger
    <3> QED
      BY <3>1, <3>2
  <2>4. \A region \in {"sq", "cq", "sqes"} : Length(asked, region) <= Backed(asked, region)
    <3>1. AlignUp(64 * sq, PAGE_SIZE) >= 64 * sq
      <4>1. PICK bytes : bytes = 64 * sq /\ bytes \in Nat
        BY <1>2
      <4>2. AlignUp(bytes, PAGE_SIZE) \in bytes .. bytes + PAGE_SIZE - 1
        BY <4>1, Aligned, Zenon
      <4> QED
        BY <4>1, <4>2 DEF PAGE_SIZE
    <3>2. PICK rings : rings = RingsSize(asked)
      BY Zenon
    <3>3. AlignUp(rings, PAGE_SIZE) \in rings .. rings + PAGE_SIZE - 1
      BY <2>2, <3>2, Aligned, Zenon
    <3>4. PICK backed : backed = AlignUp(rings, PAGE_SIZE)
      BY Zenon
    <3>5. backed \in Int /\ backed >= rings /\ rings \in Int
      BY <2>2, <3>2, <3>3, <3>4 DEF PAGE_SIZE
    <3>6. CqRingSize(asked) \in Int
      BY <1>2, <1>4, <1>7
    <3>7. CqRingSize(asked) <= backed /\ MmapSize(asked) <= backed
      BY <2>3, <3>2, <3>5, <3>6
    <3>8. /\ Backed(asked, "sq") = backed /\ Backed(asked, "cq") = backed
          /\ Backed(asked, "sqes") = AlignUp(64 * sq, PAGE_SIZE)
      BY <1>1, <1>3, <3>2, <3>4 DEF Backed
    <3> QED
      BY <2>1, <3>1, <3>7, <3>8
  <2>5. \A part \in Reached(asked) : part.to <= Length(asked, part.region)
    <3> TAKE part \in Reached(asked)
    <3>1. CASE part.region = "sq" /\ part.to \in Int /\ part.to <= line + 32
      BY <1>4, <2>1, <2>3, <3>1
    <3>2. CASE part.region = "sq" /\ part.to = SqRingSize(asked)
      BY <2>1, <2>3, <3>2
    <3>3. CASE part.region = CqRegion(asked) /\ part.to \in Int /\ part.to <= CqRingSize(asked)
      BY <1>2, <1>4, <1>7, <2>1, <2>3, <3>3
    <3>4. CASE part.region = "sqes" /\ part.to = 64 * sq
      BY <1>2, <2>1, <3>4
    <3> QED
      BY <1>8, <3>1, <3>2, <3>3, <3>4, Zenon
  <2> QED
    BY <1>3, <1>10, <2>4, <2>5, Zenon
<1> QED
  BY <1>9, <1>10

\* Only what was possible was acquired, and the request stands.
THEOREM SetupTookPossibleSteps ==
  Spec => [](request \in Request /\ acquired \in Nat /\ SetupWasPossible)
<1> DEFINE Inv == request \in Request /\ acquired \in Nat /\ SetupWasPossible
<1>1. Init => Inv
  BY Steps DEF Init, SetupWasPossible
<1>2. Inv /\ [Next]_vars => Inv'
  <2> SUFFICES ASSUME Inv, [Next]_vars PROVE Inv'
    OBVIOUS
  <2>1. Len(SetupSteps) \in {4, 5}
    BY Steps
  <2>2. CASE UNCHANGED <<request, acquired>>
    BY <2>2, SameSteps DEF SetupWasPossible, Possible
  <2>3. CASE Acquire
    <3>1. /\ acquired' = acquired + 1 /\ Possible(SetupSteps[acquired']) /\ UNCHANGED request
          /\ acquired < Len(SetupSteps)
      BY <2>3 DEF Acquire
    <3>2. SetupSteps' = SetupSteps
      BY <3>1, SameSteps
    <3>3. \A i \in 1 .. acquired' : i \in 1 .. acquired \/ i = acquired'
      BY <3>1
    <3>4. acquired <= Len(SetupSteps)
      BY <2>1, <3>1
    <3>5. \A i \in 1 .. acquired' : Possible(SetupSteps[i])
      BY <3>1, <3>3, <3>4, Zenon DEF SetupWasPossible
    <3>6. \A i \in 1 .. acquired' : Possible(SetupSteps[i])'
      BY <3>1, <3>2, <3>5 DEF Possible
    <3> QED
      BY <3>1, <3>6 DEF SetupWasPossible
  <2>4. CASE SetupFails
    <3>1. acquired' = Len(SetupSteps) + 1 /\ UNCHANGED request
      BY <2>4 DEF SetupFails
    <3>2. SetupSteps' = SetupSteps
      BY <3>1, SameSteps
    <3> QED
      BY <2>1, <3>1, <3>2 DEF SetupWasPossible
  <2> QED
    BY <2>2, <2>3, <2>4
       DEF Next, vars, Split, OwnerStep, DropHalf, RegisterPool, UnregisterPool, DropPool, UnmapPool,
           Release, CleanUp
<1> QED
  BY <1>1, <1>2, PTL DEF Spec

\* Whatever number of entries, CQ size and flags a ring is asked for, a setup
\* that succeeds has mapped all that `push` and `complete` reach, and neither
\* more than the kernel backs nor, under NO_MMAP, less than it uses.
THEOREM FinishedRingsFit == Spec => []RingFits
<1>1. LifetimeInv /\ request \in Request /\ acquired \in Nat /\ SetupWasPossible => RingFits
  <2> SUFFICES ASSUME LifetimeInv, request \in Request, SetupWasPossible, Holders # {}
               PROVE  RingFits
    BY DEF RingFits
  <2>1. PICK owner \in Owner : pc[owner] # "absent"
    BY DEF Holders
  <2>2. acquired = Len(SetupSteps)
    BY <2>1 DEF LifetimeInv, SetupInv
  <2>3. \A i \in 1 .. Len(SetupSteps) : Possible(SetupSteps[i])
    BY <2>2, Steps DEF SetupWasPossible
  <2>4. \E i, k \in 1 .. Len(SetupSteps) : SetupSteps[i] = "fd" /\ SetupSteps[k] = "sq"
    <3>1. CASE "NO_MMAP" \in request.flags
      BY <3>1 DEF SetupSteps
    <3>2. CASE "NO_MMAP" \notin request.flags /\ "SINGLE_MMAP" \in request.flags
      BY <3>2 DEF SetupSteps
    <3>3. CASE "NO_MMAP" \notin request.flags /\ "SINGLE_MMAP" \notin request.flags
      BY <3>3 DEF SetupSteps
    <3> QED
      BY <3>1, <3>2, <3>3
  <2>5. Possible("fd") /\ Possible("sq")
    BY <2>3, <2>4, Zenon
  <2>6. /\ Accepts(request) /\ Length(request, "sq") > 0
        /\ request.flags \subseteq SUPPORTED_MASK \cup {"SINGLE_MMAP"}
    BY <2>5 DEF Possible
  <2>7. request.entries \in Nat /\ request.cq_entries \in Nat
    BY RequestAssumption
  <2> QED
    BY <2>6, <2>7, Fits, Zenon DEF RingFits
<1> QED
  BY <1>1, RingLifetimeInvariant, SetupTookPossibleSteps, PTL

=============================================================================
