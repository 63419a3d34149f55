----------------------------- MODULE RingLayout -----------------------------
(***************************************************************************)
(* How large a ring's memory is and where its parts lie.  A request has    *)
(* the number of entries asked for, the size asked for with CQSIZE and the *)
(* setup flags; SINGLE_MMAP among them stands for the kernel's feature.    *)
(* The kernel settles on its own sizes and offsets; the crate maps the     *)
(* regions from those or, under NO_MMAP, from a prediction made before     *)
(* io_uring_setup.  Sizes are in bytes and have the code's values.         *)
(***************************************************************************)
EXTENDS Integers, FiniteSets

CONSTANT CacheLine  \* the kernel's SMP_CACHE_BYTES

ASSUME LayoutAssumption == CacheLine \in {32, 64, 128}

PAGE_SIZE == 4096
IORING_MAX_ENTRIES == 32768
IORING_MAX_CQ_ENTRIES == 2 * IORING_MAX_ENTRIES
RINGS_HEADER_SLACK == 128
SqeSize == 64
CqeSize == 16

\* The flags that matter here, of those the crate lets through.
SUPPORTED_MASK ==
  {"SQPOLL", "CQSIZE", "CLAMP", "SINGLE_ISSUER", "DEFER_TASKRUN", "NO_MMAP", "NO_SQARRAY"}

\* Far enough to be beyond both limits.
PowersOfTwo ==
  {1, 2, 4, 8, 16, 32, 64, 128, 256, 512, 1024, 2048, 4096, 8192, 16384, 32768, 65536, 131072, 262144}

NextPowerOfTwo(n) ==
  CHOOSE p \in PowersOfTwo : p >= n /\ \A q \in PowersOfTwo : q >= n => p <= q

Larger(a, b) == IF a >= b THEN a ELSE b

AlignUp(n, unit) == ((n + unit - 1) \div unit) * unit

-----------------------------------------------------------------------------
\* The kernel: io_uring_fill_params and rings_size.

Limit(n, max, request) == IF n > max /\ "CLAMP" \in request.flags THEN max ELSE n

SettledSq(request) == NextPowerOfTwo(Limit(request.entries, IORING_MAX_ENTRIES, request))

SettledCq(request) ==
  IF "CQSIZE" \in request.flags
  THEN NextPowerOfTwo(Limit(request.cq_entries, IORING_MAX_CQ_ENTRIES, request))
  ELSE 2 * SettledSq(request)

Accepts(request) ==
  /\ Limit(request.entries, IORING_MAX_ENTRIES, request) \in 1 .. IORING_MAX_ENTRIES
  /\ "CQSIZE" \in request.flags =>
       /\ Limit(request.cq_entries, IORING_MAX_CQ_ENTRIES, request) \in 1 .. IORING_MAX_CQ_ENTRIES
       /\ SettledCq(request) >= SettledSq(request)

KernelSqeSize(request) == IF "SQE128" \in request.flags THEN 2 * SqeSize ELSE SqeSize

HasSqArray(request) == "NO_SQARRAY" \notin request.flags

\* Two heads and tails and the counters, a cache line for each side; the CQEs;
\* the SQ array.
CqesOffset == 2 * CacheLine
ArrayOffset(request) ==
  IF HasSqArray(request) THEN AlignUp(CqesOffset + CqeSize * SettledCq(request), CacheLine) ELSE 0
RingsSize(request) ==
  IF HasSqArray(request) THEN ArrayOffset(request) + 4 * SettledSq(request)
  ELSE CqesOffset + CqeSize * SettledCq(request)

-----------------------------------------------------------------------------
\* The crate, under NO_MMAP.

\* mutant of PredictCq: CQSIZE is overlooked
PredictCqDefault(request, sq_entries) == 2 * sq_entries

\* predict_entries: the SQ as the kernel will have it, then the CQ.
PredictSq(request) == NextPowerOfTwo(Limit(request.entries, IORING_MAX_ENTRIES, request))

PredictCq(request, sq_entries) ==
  IF "CQSIZE" \in request.flags /\ request.cq_entries > 0
  THEN Larger(NextPowerOfTwo(Limit(request.cq_entries, IORING_MAX_CQ_ENTRIES, request)), sq_entries)
  ELSE 2 * sq_entries

RingRegionSize(request) ==
  LET sq == PredictSq(request)
      array == IF HasSqArray(request) THEN 4 * sq ELSE 0
  IN  AlignUp(2 * RINGS_HEADER_SLACK + CqeSize * PredictCq(request, sq) + array, PAGE_SIZE) + PAGE_SIZE

SqesRegionSize(request) == AlignUp(SqeSize * PredictSq(request), PAGE_SIZE)

-----------------------------------------------------------------------------
\* The crate, mapping what the kernel has allocated.

RingBytes(offset, count, elem_size) == offset + count * elem_size

SqRingSize(request) ==
  RingBytes(ArrayOffset(request), IF HasSqArray(request) THEN SettledSq(request) ELSE 0, 4)

CqRingSize(request) == RingBytes(CqesOffset, SettledCq(request), CqeSize)

MmapSize(request) ==
  IF "SINGLE_MMAP" \in request.flags
  THEN Larger(SqRingSize(request), CqRingSize(request)) ELSE SqRingSize(request)

\* How many bytes of each region the crate has.
Length(request, region) ==
  LET predicted == "NO_MMAP" \in request.flags IN
  CASE region = "sq"   -> IF predicted THEN RingRegionSize(request) ELSE MmapSize(request)
    [] region = "cq"   -> CqRingSize(request)
    [] region = "sqes" -> IF predicted THEN SqesRegionSize(request)
                          ELSE RingBytes(0, SettledSq(request), SqeSize)

-----------------------------------------------------------------------------

CqRegion(request) == IF {"NO_MMAP", "SINGLE_MMAP"} \cap request.flags = {} THEN "cq" ELSE "sq"

\* What parse_sq and parse_cq point at, and push and complete reach from there.
Reached(request) ==
  LET part(region, from, bytes) == [region |-> region, from |-> from, to |-> from + bytes]
      cq == CqRegion(request)
  IN  {part("sq", 0, 8), part("sq", CacheLine + 8, 4), part("sq", CacheLine + 28, 4),
       part("sq", ArrayOffset(request), IF HasSqArray(request) THEN 4 * SettledSq(request) ELSE 0),
       part(cq, CacheLine, 8), part(cq, CacheLine + 12, 4),
       part(cq, CqesOffset, CqeSize * SettledCq(request)),
       part("sqes", 0, SqeSize * SettledSq(request))}

\* What the kernel reaches of memory that the crate supplies.
Pinned(request) ==
  {[region |-> "sq",   from |-> 0, to |-> RingsSize(request)],
   [region |-> "sqes", from |-> 0, to |-> KernelSqeSize(request) * SettledSq(request)]}

\* What the kernel has behind each mapping.
Backed(request, region) ==
  AlignUp(IF region = "sqes" THEN KernelSqeSize(request) * SettledSq(request) ELSE RingsSize(request), PAGE_SIZE)

=============================================================================
