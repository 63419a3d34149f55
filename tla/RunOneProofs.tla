---------------------------- MODULE RunOneProofs ----------------------------
(***************************************************************************)
(* Proofs about RunOne, for every queue capacity and every number of calls *)
(* and of the application's own requests.  As long as fewer calls are made *)
(* than there are tags (2^63), a call returns its own result or an error,  *)
(* and with a result it has its buffer back.  In any case it reports what  *)
(* it drained for others, and never waits for what cannot come.            *)
(***************************************************************************)
EXTENDS RunOne, TLAPS

\* Appending a new element to a sequence without repetitions adds it to the
\* elements and repeats none.
LEMMA AppendElements ==
  ASSUME NEW S, NEW s \in Seq(S), NEW e \in S
  PROVE  /\ Append(s, e) \in Seq(S)
         /\ Range(Append(s, e)) = Range(s) \cup {e}
         /\ IsInjective(s) /\ e \notin Range(s) => IsInjective(Append(s, e))
<1> DEFINE t == Append(s, e)
<1>1. /\ DOMAIN s = 1 .. Len(s) /\ DOMAIN t = 1 .. Len(s) + 1 /\ Len(s) \in Nat
      /\ \A i \in 1 .. Len(s) : t[i] = s[i]
      /\ t[Len(s) + 1] = e
      /\ t \in Seq(S)
  OBVIOUS
<1> HIDE DEF t
<1>2. IsInjective(s) /\ e \notin Range(s) => IsInjective(t)
  BY <1>1 DEF IsInjective, Range
<1>3. Range(t) = Range(s) \cup {e}
  BY <1>1 DEF Range
<1> QED
  BY <1>1, <1>2, <1>3 DEF t

\* Cutting a sequence without repetitions in two distributes its elements.
LEMMA CutElements ==
  ASSUME NEW S, NEW s \in Seq(S), NEW n \in 0 .. Len(s), IsInjective(s)
  PROVE  LET front == SubSeq(s, 1, n)
             rest  == SubSeq(s, n + 1, Len(s))
         IN  /\ rest \in Seq(S)
             /\ IsInjective(rest)
             /\ Range(front) \cup Range(rest) = Range(s)
             /\ Range(front) \cap Range(rest) = {}
<1> DEFINE front == SubSeq(s, 1, n)
<1> DEFINE rest == SubSeq(s, n + 1, Len(s))
<1>1. /\ DOMAIN s = 1 .. Len(s) /\ Len(s) \in Nat
      /\ DOMAIN front = 1 .. n /\ \A i \in 1 .. n : front[i] = s[i]
      /\ rest \in Seq(S) /\ DOMAIN rest = 1 .. Len(s) - n
      /\ \A i \in 1 .. Len(s) - n : rest[i] = s[n + i]
  OBVIOUS
<1> HIDE DEF front, rest
<1>3. \A i \in DOMAIN rest : n + i \in DOMAIN s /\ rest[i] = s[n + i] /\ n + i > n
  BY <1>1
<1>2. IsInjective(rest)
  <2>1. ASSUME NEW i \in DOMAIN rest, NEW j \in DOMAIN rest, rest[i] = rest[j] PROVE i = j
    <3>1. n + i = n + j
      BY <1>3, <2>1 DEF IsInjective
    <3> QED
      BY <1>1, <3>1
  <2> QED
    BY <2>1 DEF IsInjective
<1>4. \A i \in DOMAIN front : i \in DOMAIN s /\ front[i] = s[i] /\ i <= n
  BY <1>1
<1>5. ASSUME NEW i \in DOMAIN s
      PROVE  s[i] \in Range(front) \cup Range(rest)
  <2>1. CASE i <= n
    BY <1>1, <2>1 DEF Range
  <2>2. CASE i > n
    <3>1. i - n \in DOMAIN rest /\ n + (i - n) = i
      BY <1>1, <2>2
    <3>2. rest[i - n] = s[i]
      BY <1>3, <3>1
    <3> QED
      BY <3>1, <3>2 DEF Range
  <2> QED
    BY <1>1, <2>1, <2>2
<1>6. Range(front) \cap Range(rest) = {}
  <2>1. ASSUME NEW i \in DOMAIN front, NEW j \in DOMAIN rest PROVE front[i] # rest[j]
    <3>1. i # n + j
      BY <1>1
    <3> QED
      BY <1>3, <1>4, <3>1 DEF IsInjective
  <2> QED
    BY <2>1 DEF Range
<1>7. Range(front) \cup Range(rest) = Range(s)
  BY <1>3, <1>4, <1>5 DEF Range
<1> QED
  BY <1>1, <1>2, <1>6, <1>7 DEF front, rest

-----------------------------------------------------------------------------

\* The constants in the form the arithmetic needs.
LEMMA Constants ==
  /\ SqEntries \in Nat \ {0} /\ TagModulus \in Nat \ {0}
  /\ MaxCalls \in Nat /\ MaxOthers \in Nat
BY RunOneAssumption

\* A request under the tag of the current call is that call's own.
LEMMA TagIdentifies ==
  ASSUME calls \in Nat \ {0}, own = DoRequest(calls, calls - 1), NEW request \in Minted,
         Mine(request)
  PROVE  request = own
<1>1. CASE \E n \in 1 .. calls : request = DoRequest(n, n - 1)
  BY <1>1 DEF Mine, DoRequest
<1>2. CASE \E n \in 1 .. others : request = OtherRequest(n)
  BY <1>2 DEF Mine, DoRequest, OtherRequest
<1> QED
  BY <1>1, <1>2 DEF Minted

\* The next request of either kind is none of those pushed so far.
LEMMA NextIsNew ==
  ASSUME calls \in Nat, others \in Nat
  PROVE  DoRequest(calls + 1, calls) \notin Minted /\ OtherRequest(others + 1) \notin Minted
<1>1. \A n \in 1 .. calls : DoRequest(calls + 1, calls) # DoRequest(n, n - 1)
  BY DEF DoRequest
<1>2. \A n \in 1 .. others : DoRequest(calls + 1, calls) # OtherRequest(n)
  BY DEF DoRequest, OtherRequest
<1>3. \A n \in 1 .. others : OtherRequest(others + 1) # OtherRequest(n)
  BY DEF OtherRequest
<1>4. \A n \in 1 .. calls : OtherRequest(others + 1) # DoRequest(n, n - 1)
  BY DEF DoRequest, OtherRequest
<1> QED
  BY <1>1, <1>2, <1>3, <1>4, Zenon DEF Minted

\* A ring no call has used yet.
LEMMA RunOneInit == Init => RunOneInv
<1> SUFFICES ASSUME Init PROVE RunOneInv
  OBVIOUS
<1> USE Constants
<1>1. Range(queue) = {} /\ Range(cq) = {} /\ IsInjective(queue)
  BY DEF Init, Range, IsInjective
<1>2. Placed
  BY <1>1 DEF Init, Placed
<1>3. ResultIsOwn /\ StrayReported /\ ResultEndsBorrow
  BY DEF Init, ResultIsOwn, StrayReported, ResultEndsBorrow
<1> QED
  BY <1>2, <1>3 DEF Init, RunOneInv

\* A call mints a request that is nowhere yet, queued or not.
LEMMA CallStep ==
  ASSUME MaxCalls <= TagModulus, RunOneInv, Call
  PROVE  RunOneInv'
<1> USE Constants
<1> DEFINE new == DoRequest(calls + 1, calls)
<1>1. /\ calls \in Nat /\ others \in Nat /\ calls' = calls + 1 /\ calls < MaxCalls
      /\ UNCHANGED <<others, flight, cq>>
  BY DEF Call, RunOneInv
<1>2. calls % TagModulus = calls
  BY <1>1
<1>3. own' = new
  BY <1>1, <1>2 DEF Call, RunOneInv
<1>4. do_tag_next' = calls' % TagModulus
  BY <1>1, <1>2 DEF Call, NextDoTag, RunOneInv
<1>5. new \notin Minted
  BY <1>1, NextIsNew
<1>6. Minted \cup {new} \subseteq Minted'
  <2>1. new \in Minted'
    <3>1. calls + 1 \in 1 .. calls' /\ (calls + 1) - 1 = calls
      BY <1>1
    <3> QED
      BY <3>1 DEF Minted
  <2>2. 1 .. calls \subseteq 1 .. calls' /\ others' = others
    BY <1>1
  <2> QED
    BY <2>1, <2>2, Zenon DEF Minted
<1>7. new \in Request
  <2>1. calls + 1 \in 0 .. MaxCalls /\ calls \in 0 .. TagModulus - 1
    BY <1>1
  <2> QED
    BY <2>1 DEF Request
<1>8. new \notin Range(queue) \cup flight \cup Range(cq)
  BY <1>5 DEF RunOneInv, Placed
<1>9. CASE Len(queue) < SqEntries
  <2>1. queue' = Append(queue, new) /\ call' = "entering"
    BY <1>3, <1>9 DEF Call
  <2>2. queue' \in Seq(Request) /\ Range(queue') = Range(queue) \cup {new} /\ IsInjective(queue')
    BY <1>7, <1>8, <2>1, AppendElements DEF RunOneInv, Placed
  <2>3. Placed'
    BY <1>1, <1>6, <1>8, <2>2 DEF RunOneInv, Placed
  <2>4. ResultIsOwn' /\ StrayReported' /\ ResultEndsBorrow'
    BY <2>1 DEF ResultIsOwn, StrayReported, ResultEndsBorrow
  <2> QED
    BY <1>1, <1>3, <1>4, <2>3, <2>4 DEF RunOneInv
<1>10. CASE ~(Len(queue) < SqEntries)
  <2>1. /\ UNCHANGED queue /\ call' = "idle" /\ stray' = FALSE
        /\ outcome' = [what |-> "full", of |-> own']
    BY <1>10 DEF Call, Return
  <2>2. Placed'
    BY <1>1, <1>6, <2>1 DEF RunOneInv, Placed
  <2>3. ResultIsOwn' /\ StrayReported' /\ ResultEndsBorrow'
    BY <1>1, <1>3, <1>8, <2>1 DEF ResultIsOwn, StrayReported, ResultEndsBorrow
  <2> QED
    BY <1>1, <1>3, <1>4, <2>2, <2>3 DEF RunOneInv
<1> QED
  BY <1>9, <1>10

\* What the kernel consumes leaves the queue, and the call goes on.
LEMMA EnterStep ==
  ASSUME RunOneInv, NEW n \in 0 .. Len(queue),
         flight' = flight \cup Range(SubSeq(queue, 1, n)),
         queue' = SubSeq(queue, n + 1, Len(queue)),
         UNCHANGED <<cq, own, stray, do_tag_next, outcome, calls, others>>,
         calls # 0, call' # "idle"
  PROVE  RunOneInv'
<1>1. queue \in Seq(Request) /\ IsInjective(queue)
  BY DEF RunOneInv, Placed
<1>2. /\ queue' \in Seq(Request) /\ IsInjective(queue')
      /\ Range(SubSeq(queue, 1, n)) \cup Range(queue') = Range(queue)
      /\ Range(SubSeq(queue, 1, n)) \cap Range(queue') = {}
  BY <1>1, CutElements
<1>3. Minted' = Minted
  BY DEF Minted
<1>4. Placed'
  <2>1. Range(queue) \subseteq Request
    BY <1>1 DEF Range
  <2> QED
    BY <1>2, <1>3, <2>1 DEF RunOneInv, Placed
<1> QED
  BY <1>4 DEF RunOneInv, ResultIsOwn, StrayReported, ResultEndsBorrow

\* A call that returns with an error, or goes on without touching the queues.
LEMMA QuietStep ==
  ASSUME RunOneInv, calls # 0,
         UNCHANGED <<queue, flight, cq, own, stray, do_tag_next, calls, others>>,
         Return("error", own) \/ (call' # "idle" /\ UNCHANGED outcome)
  PROVE  RunOneInv'
<1>1. Placed'
  BY DEF RunOneInv, Placed, Minted
<1>2. ResultIsOwn' /\ StrayReported' /\ ResultEndsBorrow'
  BY DEF Return, ResultIsOwn, StrayReported, ResultEndsBorrow
<1> QED
  BY <1>1, <1>2 DEF RunOneInv

\* The completion under the call's own tag is its own, which is then neither
\* queued nor in flight; any other one is noted.
LEMMA DrainStep ==
  ASSUME RunOneInv, calls # 0, Drain
  PROVE  RunOneInv'
<1>1. cq \in Seq(Request) /\ cq # << >>
  BY DEF RunOneInv, Placed, Drain
<1>2. Head(cq) \in Range(cq) /\ cq' \in Seq(Request) /\ Range(cq') \subseteq Range(cq)
  <2>1. /\ Head(cq) = cq[1] /\ 1 \in DOMAIN cq
        /\ Tail(cq) \in Seq(Request) /\ DOMAIN Tail(cq) = 1 .. Len(cq) - 1
        /\ DOMAIN cq = 1 .. Len(cq) /\ Len(cq) \in Nat
        /\ \A i \in 1 .. Len(cq) - 1 : Tail(cq)[i] = cq[i + 1]
    BY <1>1
  <2>2. \A i \in DOMAIN Tail(cq) : i + 1 \in DOMAIN cq
    BY <2>1
  <2> QED
    BY <2>1, <2>2 DEF Drain, Range
<1>3. Placed'
  BY <1>2 DEF RunOneInv, Placed, Drain, Minted
<1>4. CASE DrainOwn
  <2>1. Head(cq) = own
    <3>1. calls \in Nat \ {0} /\ own = DoRequest(calls, calls - 1) /\ Head(cq) \in Minted
      BY <1>2 DEF RunOneInv, Placed
    <3> QED
      BY <1>4, <3>1, TagIdentifies DEF DrainOwn
  <2>2. own \notin Range(queue) \cup flight
    BY <1>2, <2>1 DEF RunOneInv, Placed
  <2>3. ResultIsOwn' /\ StrayReported' /\ ResultEndsBorrow'
    BY <1>4, <2>1, <2>2
       DEF Drain, DrainOwn, Return, ResultIsOwn, StrayReported, ResultEndsBorrow
  <2> QED
    BY <1>3, <2>3 DEF RunOneInv, Drain
<1>5. CASE DrainStray
  BY <1>3, <1>5
     DEF RunOneInv, Drain, DrainStray, ResultIsOwn, StrayReported, ResultEndsBorrow
<1> QED
  BY <1>4, <1>5 DEF Drain

\* A request of the application's own joins the queue between two calls.
LEMMA PushOtherStep ==
  ASSUME RunOneInv, PushOther
  PROVE  RunOneInv'
<1> USE Constants
<1> DEFINE new == OtherRequest(others + 1)
<1>1. /\ calls \in Nat /\ others \in Nat /\ others' = others + 1 /\ others < MaxOthers
      /\ UNCHANGED <<flight, cq, call, own, stray, do_tag_next, outcome, calls>>
      /\ queue' = Append(queue, new)
  BY DEF PushOther, RunOneInv
<1>2. new \notin Minted /\ new # own
  <2>1. new # own
    BY <1>1 DEF RunOneInv, OtherRequest, DoRequest
  <2> QED
    BY <1>1, <2>1, NextIsNew
<1>3. Minted \cup {new} \subseteq Minted' /\ new \in Request
  <2>1. others + 1 \in 1 .. others' /\ 1 .. others \subseteq 1 .. others'
        /\ others + 1 \in 0 .. MaxOthers
    BY <1>1
  <2> QED
    BY <1>1, <2>1 DEF Minted, Request
<1>4. new \notin Range(queue) \cup flight \cup Range(cq)
  BY <1>2 DEF RunOneInv, Placed
<1>5. queue' \in Seq(Request) /\ Range(queue') = Range(queue) \cup {new} /\ IsInjective(queue')
  BY <1>1, <1>3, <1>4, AppendElements DEF RunOneInv, Placed
<1>6. Placed'
  BY <1>1, <1>3, <1>4, <1>5 DEF RunOneInv, Placed
<1>7. ResultIsOwn' /\ StrayReported' /\ ResultEndsBorrow'
  BY <1>1, <1>2, <1>5 DEF RunOneInv, ResultIsOwn, StrayReported, ResultEndsBorrow
<1> QED
  BY <1>1, <1>6, <1>7 DEF RunOneInv

\* The kernel posts the completion of a request it has finished.
LEMMA FinishStep ==
  ASSUME RunOneInv, NEW request \in flight, Finish(request)
  PROVE  RunOneInv'
<1>1. /\ flight' = flight \ {request} /\ cq' = Append(cq, request)
      /\ UNCHANGED <<queue, call, own, stray, do_tag_next, outcome, calls, others>>
  BY DEF Finish
<1>2. request \in Request /\ cq \in Seq(Request)
  BY DEF RunOneInv, Placed
<1>3. cq' \in Seq(Request) /\ Range(cq') = Range(cq) \cup {request}
  BY <1>1, <1>2, AppendElements
<1>4. Placed'
  BY <1>1, <1>2, <1>3 DEF RunOneInv, Placed, Minted
<1>5. ResultIsOwn' /\ StrayReported' /\ ResultEndsBorrow'
  BY <1>1 DEF RunOneInv, ResultIsOwn, StrayReported, ResultEndsBorrow
<1> QED
  BY <1>1, <1>4, <1>5 DEF RunOneInv

-----------------------------------------------------------------------------

\* The invariant of the synchronous calls: requests are in one place, tags are
\* unique, and what a call returned is true of its own request.
THEOREM RunOneInvariant == ASSUME MaxCalls <= TagModulus PROVE Spec => []RunOneInv
<1>1. Init => RunOneInv
  BY RunOneInit
<1>2. ASSUME RunOneInv, [Next]_vars PROVE RunOneInv'
  <2> USE Constants
  <2>0. call # "idle" => calls # 0
    BY <1>2 DEF RunOneInv
  <2>1. CASE Call
    BY <1>2, <2>1, CallStep
  <2>2. CASE Enter
    <3>1. queue \in Seq(Request)
      BY <1>2 DEF RunOneInv, Placed
    <3>2. /\ Len(queue) \in 0 .. Len(queue)
          /\ SubSeq(queue, 1, Len(queue)) = queue
          /\ SubSeq(queue, Len(queue) + 1, Len(queue)) = << >>
      BY <3>1
    <3> QED
      BY <1>2, <2>0, <2>2, <3>2, EnterStep, Zenon DEF Enter
  <2>3. CASE EnterPart
    <3>1. PICK consumed \in 1 .. Len(queue) - 1 :
               /\ flight' = flight \cup Range(SubSeq(queue, 1, consumed))
               /\ queue' = SubSeq(queue, consumed + 1, Len(queue))
      BY <2>3 DEF EnterPart
    <3>2. consumed \in 0 .. Len(queue)
      BY <1>2 DEF RunOneInv, Placed
    <3> QED
      BY <1>2, <2>0, <2>3, <3>1, <3>2, EnterStep, Zenon DEF EnterPart
  <2>4. CASE EnterFails \/ WaitDone \/ Interrupted \/ DrainNone
    BY <1>2, <2>0, <2>4, QuietStep DEF EnterFails, WaitDone, Interrupted, DrainNone
  <2>5. CASE Drain
    <3>1. calls # 0
      BY <2>0, <2>5 DEF Drain
    <3> QED
      BY <1>2, <2>5, <3>1, DrainStep
  <2>6. CASE PushOther
    BY <1>2, <2>6, PushOtherStep
  <2>7. ASSUME NEW request \in flight, Finish(request) PROVE RunOneInv'
    BY <1>2, <2>7, FinishStep
  <2>8. CASE UNCHANGED vars
    BY <1>2, <2>8
       DEF vars, RunOneInv, Placed, Minted, ResultIsOwn, StrayReported, ResultEndsBorrow
  <2> QED
    BY <1>2, <2>1, <2>2, <2>3, <2>4, <2>5, <2>6, <2>7, <2>8 DEF Next, RunOneStep
<1> QED
  BY <1>1, <1>2, PTL DEF Spec

\* A do_* call never returns the result of another request.
THEOREM CallsReturnTheirOwn == ASSUME MaxCalls <= TagModulus PROVE Spec => []ResultIsOwn
<1>1. RunOneInv => ResultIsOwn
  BY DEF RunOneInv
<1> QED
  BY <1>1, RunOneInvariant, PTL

\* A call that drained the completion of another request never reports success,
\* even when tags come round again.
THEOREM StraysAreReported == Spec => []StrayReported
<1>1. Init => StrayReported
  BY DEF Init, StrayReported
<1>2. ASSUME StrayReported, [Next]_vars PROVE StrayReported'
  <2>1. CASE Call
    BY <2>1 DEF Call, Return, StrayReported
  <2>2. CASE RunOneStep
    <3>1. CASE Return("error", own)
      <4>1. outcome'.what = "error"
        BY <3>1 DEF Return
      <4> QED
        BY <4>1 DEF StrayReported
    <3>2. CASE call' # "idle"
      BY <3>2 DEF StrayReported
    <3>3. CASE Drain /\ DrainOwn
      <4>1. CASE stray
        BY <3>3, <4>1 DEF DrainOwn, Return, StrayReported
      <4>2. CASE ~stray
        BY <3>3, <4>2 DEF DrainOwn, StrayReported
      <4> QED
        BY <4>1, <4>2
    <3> QED
      BY <2>2, <3>1, <3>2, <3>3, Zenon
         DEF RunOneStep, Enter, EnterPart, EnterFails, WaitDone, Interrupted, Drain, DrainStray,
             DrainNone
  <2>3. CASE UNCHANGED <<call, stray, outcome>>
    BY <1>2, <2>3 DEF StrayReported
  <2> QED
    BY <1>2, <2>1, <2>2, <2>3 DEF Next, vars, PushOther, Finish
<1> QED
  BY <1>1, <1>2, PTL DEF Spec

\* A call that returns a result has its buffer back from the kernel.
THEOREM ResultsEndBorrows == ASSUME MaxCalls <= TagModulus PROVE Spec => []ResultEndsBorrow
<1>1. RunOneInv => ResultEndsBorrow
  BY DEF RunOneInv
<1> QED
  BY <1>1, RunOneInvariant, PTL

-----------------------------------------------------------------------------
\* Why a call does not wait for ever: what it waits for can come.

\* The queues hold requests.
Stored ==
  /\ queue \in Seq(Request) /\ cq \in Seq(Request) /\ flight \subseteq Request
  /\ calls \in 0 .. MaxCalls /\ others \in 0 .. MaxOthers /\ do_tag_next \in 0 .. TagModulus - 1

\* What is taken off the front of a queue and what is left are all of it.
LEMMA Parted ==
  ASSUME NEW S, NEW s \in Seq(S), NEW n \in 0 .. Len(s)
  PROVE  /\ SubSeq(s, n + 1, Len(s)) \in Seq(S)
         /\ Range(s) = Range(SubSeq(s, 1, n)) \cup Range(SubSeq(s, n + 1, Len(s)))
<1> DEFINE front == SubSeq(s, 1, n)
<1> DEFINE rest == SubSeq(s, n + 1, Len(s))
<1>1. /\ DOMAIN s = 1 .. Len(s) /\ Len(s) \in Nat
      /\ DOMAIN front = 1 .. n /\ \A i \in 1 .. n : front[i] = s[i]
      /\ rest \in Seq(S) /\ DOMAIN rest = 1 .. Len(s) - n
      /\ \A i \in 1 .. Len(s) - n : rest[i] = s[n + i]
  OBVIOUS
<1> HIDE DEF front, rest
<1>2. ASSUME NEW i \in DOMAIN s PROVE s[i] \in Range(front) \cup Range(rest)
  <2>1. CASE i <= n
    BY <1>1, <2>1 DEF Range
  <2>2. CASE i > n
    <3>1. i - n \in 1 .. Len(s) - n /\ n + (i - n) = i
      BY <1>1, <2>2
    <3>2. rest[i - n] = s[i]
      BY <1>1, <3>1
    <3> QED
      BY <1>1, <3>1, <3>2 DEF Range
  <2> QED
    BY <1>1, <2>1, <2>2
<1>3. \A i \in DOMAIN rest : n + i \in DOMAIN s /\ rest[i] = s[n + i]
  BY <1>1
<1>4. \A i \in DOMAIN front : i \in DOMAIN s /\ front[i] = s[i]
  BY <1>1
<1>5. Range(s) = Range(front) \cup Range(rest)
  BY <1>2, <1>3, <1>4 DEF Range
<1> QED
  BY <1>1, <1>5 DEF front, rest

\* The oldest completion and the rest are all of them.
LEMMA HeadOrTail ==
  ASSUME NEW S, NEW s \in Seq(S), s # << >>
  PROVE  Tail(s) \in Seq(S) /\ Range(s) = {Head(s)} \cup Range(Tail(s))
<1>1. PICK n \in 0 .. Len(s) : n = 1
  OBVIOUS
<1>2. /\ Tail(s) = SubSeq(s, n + 1, Len(s))
      /\ DOMAIN SubSeq(s, 1, n) = {1} /\ SubSeq(s, 1, n)[1] = Head(s)
  BY <1>1
<1>3. Range(SubSeq(s, 1, n)) = {Head(s)}
  <2> DEFINE front == SubSeq(s, 1, n)
  <2>1. DOMAIN front = {1} /\ front[1] = Head(s)
    BY <1>2
  <2> HIDE DEF front
  <2>2. Range(front) = {Head(s)}
    BY <2>1 DEF Range
  <2> QED
    BY <2>2 DEF front
<1>4. /\ SubSeq(s, n + 1, Len(s)) \in Seq(S)
      /\ Range(s) = Range(SubSeq(s, 1, n)) \cup Range(SubSeq(s, n + 1, Len(s)))
  BY Parted, Zenon
<1> QED
  BY <1>2, <1>3, <1>4, Zenon

\* A new request is one, under whichever tag.
LEMMA StoredStep ==
  ASSUME Stored, [Next]_vars
  PROVE  Stored'
<1> USE Constants
<1>1. CASE Call
  <2>1. own' \in Request /\ calls' \in 0 .. MaxCalls /\ do_tag_next' \in 0 .. TagModulus - 1
    <3>1. own' = DoRequest(calls + 1, do_tag_next) /\ calls' = calls + 1 /\ calls < MaxCalls
          /\ do_tag_next' = (do_tag_next + 1) % TagModulus
      BY <1>1 DEF Call, NextDoTag
    <3>2. calls + 1 \in 0 .. MaxCalls /\ do_tag_next \in 0 .. TagModulus - 1
          /\ (do_tag_next + 1) % TagModulus \in 0 .. TagModulus - 1
      BY <3>1 DEF Stored
    <3>3. DoRequest(calls + 1, do_tag_next) \in Request
      BY <3>2 DEF Request
    <3> QED
      BY <3>1, <3>2, <3>3
  <2>2. UNCHANGED <<flight, cq, others>>
    BY <1>1 DEF Call
  <2>3. queue' = queue \/ queue' = Append(queue, own')
    BY <1>1 DEF Call
  <2> QED
    BY <2>1, <2>2, <2>3 DEF Stored
<1>2. CASE Enter
  <2>1. queue' = << >> /\ flight' = flight \cup Range(queue) /\ UNCHANGED <<cq, do_tag_next, calls, others>>
    BY <1>2 DEF Enter
  <2>2. Range(queue) \subseteq Request
    BY DEF Stored, Range
  <2> QED
    BY <2>1, <2>2 DEF Stored
<1>3. CASE EnterPart
  <2>1. PICK n \in 1 .. Len(queue) - 1 :
             /\ flight' = flight \cup Range(SubSeq(queue, 1, n))
             /\ queue' = SubSeq(queue, n + 1, Len(queue))
    BY <1>3 DEF EnterPart
  <2>2. UNCHANGED <<cq, do_tag_next, calls, others>>
    BY <1>3 DEF EnterPart
  <2>3. n \in 0 .. Len(queue) /\ queue \in Seq(Request)
    BY DEF Stored
  <2>4. /\ SubSeq(queue, n + 1, Len(queue)) \in Seq(Request)
        /\ Range(queue) = Range(SubSeq(queue, 1, n)) \cup Range(SubSeq(queue, n + 1, Len(queue)))
    BY <2>3, Parted, Zenon
  <2>5. Range(queue) \subseteq Request
    BY <2>3 DEF Range
  <2> QED
    BY <2>1, <2>2, <2>4, <2>5 DEF Stored
<1>4. CASE EnterFails \/ WaitDone \/ Interrupted \/ DrainNone
  BY <1>4 DEF EnterFails, WaitDone, Interrupted, DrainNone, Stored
<1>5. CASE Drain
  <2>1. cq # << >> /\ cq' = Tail(cq) /\ UNCHANGED <<queue, flight, do_tag_next, calls, others>>
    BY <1>5 DEF Drain
  <2> QED
    BY <2>1, HeadOrTail DEF Stored
<1>6. CASE PushOther
  <2>1. /\ others' \in 0 .. MaxOthers /\ queue' = Append(queue, OtherRequest(others'))
        /\ UNCHANGED <<flight, cq, do_tag_next, calls>>
    BY <1>6 DEF PushOther, Stored
  <2>2. OtherRequest(others') \in Request
    BY <2>1 DEF Request
  <2> QED
    BY <2>1, <2>2 DEF Stored
<1>7. ASSUME NEW request \in flight, Finish(request) PROVE Stored'
  BY <1>7 DEF Finish, Stored
<1>8. CASE UNCHANGED vars
  BY <1>8 DEF vars, Stored
<1> QED
  BY <1>1, <1>2, <1>3, <1>4, <1>5, <1>6, <1>7, <1>8 DEF Next, RunOneStep

\* Whatever a step does, the request of a call that goes on is still somewhere,
\* and with the kernel once the call waits.
LEMMA StrandedStep ==
  ASSUME Stored, NeverStranded, [Next]_vars
  PROVE  NeverStranded'
<1>0. queue \in Seq(Request) /\ cq \in Seq(Request)
  BY DEF Stored
<1>1. CASE Call
  <2>1. CASE Len(queue) < SqEntries
    <3>1. queue' = Append(queue, own') /\ call' = "entering"
      BY <1>1, <2>1 DEF Call
    <3>2. own' \in Range(queue')
      <4>1. Len(queue) + 1 \in DOMAIN queue' /\ queue'[Len(queue) + 1] = own'
        BY <1>0, <3>1
      <4> QED
        BY <4>1 DEF Range
    <3> QED
      BY <3>1, <3>2 DEF NeverStranded
  <2>2. CASE ~(Len(queue) < SqEntries)
    BY <1>1, <2>2 DEF Call, Return, NeverStranded
  <2> QED
    BY <2>1, <2>2
<1>2. CASE Enter
  BY <1>2 DEF Enter, NeverStranded
<1>3. CASE EnterPart
  <2>1. PICK n \in 1 .. Len(queue) - 1 :
             /\ flight' = flight \cup Range(SubSeq(queue, 1, n))
             /\ queue' = SubSeq(queue, n + 1, Len(queue))
    BY <1>3 DEF EnterPart
  <2>2. call # "idle" /\ call' = "draining" /\ UNCHANGED <<cq, own>>
    BY <1>3 DEF EnterPart
  <2>3. n \in 0 .. Len(queue)
    BY <1>0
  <2>4. Range(queue) = Range(SubSeq(queue, 1, n)) \cup Range(queue')
    BY <1>0, <2>1, <2>3, Parted, Zenon
  <2> QED
    BY <2>1, <2>2, <2>4 DEF NeverStranded
<1>4. CASE EnterFails \/ WaitDone \/ Interrupted \/ DrainNone
  <2>1. call # "idle" /\ call' # "waiting" /\ UNCHANGED <<queue, flight, cq, own>>
    BY <1>4 DEF EnterFails, WaitDone, Interrupted, DrainNone, Return
  <2> QED
    BY <2>1 DEF NeverStranded
<1>5. CASE Drain
  <2>1. /\ cq # << >> /\ cq' = Tail(cq) /\ call = "draining" /\ UNCHANGED <<queue, flight, own>>
        /\ DrainOwn \/ DrainStray
    BY <1>5 DEF Drain
  <2>2. CASE DrainOwn
    BY <2>2 DEF DrainOwn, Return, NeverStranded
  <2>3. CASE DrainStray
    <3>1. call' = "entering" /\ Head(cq) # own
      BY <2>3 DEF DrainStray, Mine
    <3>2. Range(cq) = {Head(cq)} \cup Range(cq')
      BY <1>0, <2>1, HeadOrTail
    <3> QED
      BY <2>1, <3>1, <3>2 DEF NeverStranded
  <2> QED
    BY <2>1, <2>2, <2>3
<1>6. CASE PushOther
  BY <1>6 DEF PushOther, NeverStranded
<1>7. ASSUME NEW request \in flight, Finish(request) PROVE NeverStranded'
  <2>1. /\ flight' = flight \ {request} /\ cq' = Append(cq, request) /\ request \in Request
        /\ UNCHANGED <<queue, call, own>>
    BY <1>7 DEF Finish, Stored
  <2>2. Range(cq') = Range(cq) \cup {request}
    BY <1>0, <2>1, AppendElements
  <2> QED
    BY <2>1, <2>2 DEF NeverStranded
<1>8. CASE UNCHANGED vars
  BY <1>8 DEF vars, NeverStranded
<1> QED
  BY <1>1, <1>2, <1>3, <1>4, <1>5, <1>6, <1>7, <1>8 DEF Next, RunOneStep

\* The loop of run_one never enters the kernel to wait for a completion that
\* cannot come, however many strays it drained and however its enters were cut
\* short, and even when tags come round again.
THEOREM CallsAreNeverStranded == Spec => []NeverStranded
<1>1. Init => Stored /\ NeverStranded
  BY Constants DEF Init, Stored, NeverStranded
<1>2. Stored /\ NeverStranded /\ [Next]_vars => Stored' /\ NeverStranded'
  BY StoredStep, StrandedStep
<1> QED
  BY <1>1, <1>2, PTL DEF Spec

=============================================================================
