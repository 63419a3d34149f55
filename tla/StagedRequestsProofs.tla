------------------------ MODULE StagedRequestsProofs ------------------------
(***************************************************************************)
(* Every kind of owned request over any storages, any structure sizes and  *)
(* any number of requests: the invariant, one step per operation, in which *)
(* a kind no longer matters (StagedTicketProofs has the kinds, the         *)
(* operations on a ticket and the kernel's completions); what follows from *)
(* it; and that the requests lend their storage as Lending says.           *)
(***************************************************************************)
EXTENDS StagedTicketProofs

-----------------------------------------------------------------------------
\* Storage that is written.

\* The cells of a storage.
LEMMA CellsOf ==
  ASSUME NEW s \in Storage
  PROVE  /\ \A c : c \in Cells(s) => c[1] = s /\ c[2] \in 0 .. Size[s] - 1 /\ c = <<s, c[2]>>
         /\ \A i \in 0 .. Size[s] - 1 : <<s, i>> \in Cells(s)
<1>1. Cells(s) = {s} \X (0 .. Size[s] - 1)
  BY Sizes DEF Cells, Span
<1> QED
  BY <1>1

\* A constructor leaves its parts, and nothing else, in memory.
LEMMA StagedLeaves ==
  ASSUME StagedInv, NEW n, NEW parts, DOMAIN parts \subseteq Nat, mem' = Staged(n, parts),
         \A i, j \in DOMAIN parts : i # j => parts[i].cells \intersect parts[j].cells = {}
  PROVE  /\ DOMAIN mem' = Storage
         /\ \A s \in Storage : mem'[s] = [i \in 0 .. Size[s] - 1 |-> mem'[s][i]]
         /\ \A s \in Storage :
              (\A k \in DOMAIN parts : parts[k].cells \intersect Cells(s) = {}) => mem'[s] = mem[s]
         /\ \A s \in Storage, i \in Int, k \in DOMAIN parts :
              i \in 0 .. Size[s] - 1 /\ <<s, i>> \in parts[k].cells => mem'[s][i] = <<parts[k].tag, n>>
<1> DEFINE over(s, i) == {k \in DOMAIN parts : <<s, i>> \in parts[k].cells}
           last(s, i) == CHOOSE k \in over(s, i) : \A other \in over(s, i) : other <= k
           value(s, i) == IF over(s, i) = {} THEN mem[s][i] ELSE <<parts[last(s, i)].tag, n>>
<1>1. \A s \in Storage : mem[s] = [i \in 0 .. Size[s] - 1 |-> mem[s][i]]
  BY Zenon DEF StagedInv
<1>2. \A s \in Storage : DOMAIN mem[s] = 0 .. Size[s] - 1
  BY <1>1, Zenon
<1>3. mem' = [s \in Storage |-> [i \in DOMAIN mem[s] |-> value(s, i)]]
  BY Zenon DEF Staged
<1>4. \A s \in Storage, i \in Int, k \in DOMAIN parts : <<s, i>> \in parts[k].cells => last(s, i) = k /\ over(s, i) # {}
  <2>1. SUFFICES ASSUME NEW s \in Storage, NEW i \in Int, NEW k \in DOMAIN parts, <<s, i>> \in parts[k].cells
                 PROVE  last(s, i) = k /\ over(s, i) # {}
    BY Zenon
  <2>2. over(s, i) = {k}
    BY <2>1, Zenon
  <2>3. k <= k
    OBVIOUS
  <2> HIDE DEF over
  <2>4. \E x \in over(s, i) : \A other \in over(s, i) : other <= x
    BY <2>2, <2>3, Zenon
  <2>5. last(s, i) \in over(s, i)
    BY <2>4, Zenon
  <2> QED
    BY <2>2, <2>5, Zenon
<1>5. \A s \in Storage, i \in Int :
        (\A k \in DOMAIN parts : <<s, i>> \notin parts[k].cells) => over(s, i) = {}
  BY Zenon
<1> HIDE DEF over, last
<1>6. \A s \in Storage, i \in Int, k \in DOMAIN parts :
        <<s, i>> \in parts[k].cells => value(s, i) = <<parts[k].tag, n>>
  BY <1>4, Zenon
<1>7. \A s \in Storage, i \in Int :
        (\A k \in DOMAIN parts : <<s, i>> \notin parts[k].cells) => value(s, i) = mem[s][i]
  BY <1>5, Zenon
<1> HIDE DEF value
<1>8. DOMAIN mem' = Storage /\ \A s \in Storage : mem'[s] = [i \in 0 .. Size[s] - 1 |-> value(s, i)]
  BY <1>2, <1>3, Zenon
<1>9. \A s \in Storage : mem'[s] = [i \in 0 .. Size[s] - 1 |-> mem'[s][i]]
  BY <1>8, Zenon
<1>10. ASSUME NEW s \in Storage, \A k \in DOMAIN parts : parts[k].cells \intersect Cells(s) = {}
       PROVE  mem'[s] = mem[s]
  <2>1. ASSUME NEW i \in 0 .. Size[s] - 1 PROVE value(s, i) = mem[s][i]
    <3>1. i \in Int /\ <<s, i>> \in Cells(s)
      BY CellsOf
    <3>2. \A k \in DOMAIN parts : <<s, i>> \notin parts[k].cells
      BY <1>10, <3>1, Zenon
    <3> QED
      BY <1>7, <3>1, <3>2, Zenon
  <2>2. [i \in 0 .. Size[s] - 1 |-> value(s, i)] = [i \in 0 .. Size[s] - 1 |-> mem[s][i]]
    BY <2>1, Zenon
  <2>3. mem'[s] = [i \in 0 .. Size[s] - 1 |-> value(s, i)] /\ mem[s] = [i \in 0 .. Size[s] - 1 |-> mem[s][i]]
    BY <1>1, <1>8, Zenon
  <2> QED
    BY <2>2, <2>3, Zenon
<1>11. \A s \in Storage, i \in Int, k \in DOMAIN parts :
         i \in 0 .. Size[s] - 1 /\ <<s, i>> \in parts[k].cells => mem'[s][i] = <<parts[k].tag, n>>
  <2>1. \A s \in Storage : \A i \in 0 .. Size[s] - 1 : mem'[s][i] = value(s, i)
    BY <1>8, Zenon
  <2> QED
    BY <1>6, <2>1, ZenonT(30)
<1> QED
  BY <1>8, <1>9, <1>10, <1>11, Zenon

\* What a request has, the application has not.
LEMMA NotTheApplications ==
  ASSUME StagedInv, NEW m \in RequestId, Active(req[m]), NEW s \in Owned(req[m].args)
  PROVE  s \in Storage /\ holder[s] # 0
<1>1. Has(req[m], m, holder, paths) /\ Sound(req[m])
  BY Zenon DEF StagedInv, HeldInv
<1>2. holder[s] = IF req[m].phase = "gone" THEN -1 ELSE m
  BY <1>1, Zenon DEF Has
<1>3. m # 0 /\ -1 # 0
  BY DEF RequestId
<1>4. s \in Storage
  BY <1>1, Accepted, Storages, Zenon
<1> QED
  BY <1>2, <1>3, <1>4, Zenon

\* Cells inside a request's storage are in none of the other storages.
LEMMA OutsideCells ==
  ASSUME NEW a, WellFormed(a), NEW cells, cells \subseteq Inside(a), NEW s \in Storage, s \notin Scratch(a)
  PROVE  cells \intersect Cells(s) = {}
<1>1. Scratch(a) \subseteq Storage
  BY Storages, Zenon
<1>2. SUFFICES ASSUME NEW c \in cells, c \in Cells(s) PROVE FALSE
  BY Zenon
<1>3. PICK x \in Scratch(a) : c \in Cells(x)
  BY Zenon DEF Inside
<1>4. c[1] = x /\ c[1] = s
  BY <1>1, <1>2, <1>3, CellsOf, Zenon
<1> QED
  BY <1>3, <1>4, Zenon

\* Prepare.
LEMMA PrepareKeeps ==
  ASSUME StagedInv, NEW n \in RequestId, NEW a \in Arguments, Prepare(n, a)
  PROVE  StagedInv'
<1>1. PICK t : t = Prepared(req[n], a)
  BY Zenon
<1>2. PICK parts : parts = Sqe(a).parts
  BY Zenon
<1>3. req' = [req EXCEPT ![n] = t]
  BY <1>1, Zenon DEF Prepare, Prepared
<1>4. /\ req[n].phase = "unused" /\ Movable(a) /\ NewError(a) = "ok" /\ Hand(Owned(a), n)
      /\ mem' = Staged(n, parts) /\ UNCHANGED <<paths, fds, files, lost>>
  BY <1>2, Zenon DEF Prepare
<1>5. \A m \in RequestId : Sound(req[m])
  BY Zenon DEF StagedInv
<1>6. Sound(t) /\ t.phase = "prepared" /\ t.args = a /\ t.kernel = "idle" /\ t.cqes = <<>>
  <2>1. Sound(req[n]) /\ req[n].phase = "unused" /\ NewError(a) = "ok"
    BY <1>4, <1>5
  <2> QED
    BY <1>1, <2>1, SoundPrepare
<1>7. /\ DOMAIN req' = RequestId /\ req'[n] = t
      /\ \A m \in RequestId : m # n => req'[m] = req[m]
  BY <1>3, Replaced, Zenon
<1>8. WellFormed(a) /\ Fitting(a, Sqe(a))
  BY <1>4, StagedAssumption, EntryFits, Zenon
<1>9. /\ DOMAIN parts \subseteq Nat /\ \A k \in DOMAIN parts : parts[k].cells \subseteq Inside(a)
      /\ \A k, j \in DOMAIN parts : k # j => parts[k].cells \intersect parts[j].cells = {}
  BY <1>2, <1>8, Zenon DEF Fitting
<1>10. /\ DOMAIN mem' = Storage /\ \A s \in Storage : mem'[s] = [i \in 0 .. Size[s] - 1 |-> mem'[s][i]]
       /\ \A s \in Storage :
            (\A k \in DOMAIN parts : parts[k].cells \intersect Cells(s) = {}) => mem'[s] = mem[s]
       /\ \A s \in Storage, i \in Int, k \in DOMAIN parts :
            i \in 0 .. Size[s] - 1 /\ <<s, i>> \in parts[k].cells => mem'[s][i] = <<parts[k].tag, n>>
  <2>1. /\ DOMAIN parts \subseteq Nat /\ mem' = Staged(n, parts)
        /\ \A k, j \in DOMAIN parts : k # j => parts[k].cells \intersect parts[j].cells = {}
    BY <1>4, <1>9, Zenon
  <2> QED
    BY <2>1, StagedLeaves
<1>11. \A s \in Storage : s \notin Scratch(a) => mem'[s] = mem[s]
  BY <1>8, <1>9, <1>10, OutsideCells, Zenon
<1>12. /\ Owned(a) \subseteq Storage /\ Scratch(a) \subseteq Owned(a) /\ Scratch(a) \subseteq Storage
       /\ \A s \in Owned(a) : holder[s] = 0
       /\ \A s \in Scratch(a) : paths[s] = 0
       /\ \A i \in DOMAIN a.paths : paths[a.paths[i]] # 0
  <2>1. Owned(a) \subseteq Storage /\ Scratch(a) \subseteq Owned(a)
    BY <1>8, Storages, Zenon
  <2> QED
    BY <1>4, <2>1, Zenon DEF Movable, Scratch
<1>13. \A s \in Storage : holder'[s] = IF s \in Owned(a) THEN n ELSE holder[s]
  BY <1>4, Zenon DEF Hand
<1>14. holder' \in [Storage -> RequestId \union {0, -1}]
  <2>1. holder \in [Storage -> RequestId \union {0, -1}] /\ n \in RequestId \union {0, -1}
    BY Zenon DEF StagedInv
  <2> QED
    BY <1>4, <2>1, Zenon DEF Hand
<1>15. \A m \in RequestId : Active(req[m]) => Owned(req[m].args) \intersect Owned(a) = {}
  BY <1>12, NotTheApplications, Zenon
<1>16. ASSUME NEW m \in RequestId, m # n, Active(req[m]), NEW s \in Owned(req[m].args)
       PROVE  holder'[s] = holder[s] /\ mem'[s] = mem[s]
  <2>1. s \in Storage /\ s \notin Owned(a)
    BY <1>15, <1>16, NotTheApplications, Zenon
  <2> QED
    BY <1>11, <1>12, <1>13, <2>1, Zenon
<1>17. Has(t, n, holder', paths)
  <2>1. t.phase # "gone"
    BY <1>6
  <2> QED
    BY <1>6, <1>12, <1>13, <2>1, Zenon DEF Has
<1>18. Remembers(t, n, mem')
  <2>1. t.phase # "done" /\ DOMAIN t.cqes = {}
    BY <1>6
  <2>2. ASSUME NEW k \in DOMAIN parts, NEW c \in parts[k].cells
        PROVE  mem'[c[1]][c[2]] = <<parts[k].tag, n>>
    <3>1. PICK s \in Scratch(a) : c \in Cells(s)
      BY <1>9, <2>2, Zenon DEF Inside
    <3>2. s \in Storage
      BY <1>12, <3>1
    <3>3. c[1] = s /\ c[2] \in 0 .. Size[s] - 1 /\ c = <<s, c[2]>>
      BY <3>1, <3>2, CellsOf, Zenon
    <3>4. c[2] \in Int /\ <<s, c[2]>> \in parts[k].cells
      BY <2>2, <3>3
    <3>5. mem'[s][c[2]] = <<parts[k].tag, n>>
      BY <1>10, <2>2, <3>2, <3>3, <3>4, ZenonT(30)
    <3> QED
      BY <3>3, <3>5, Zenon
  <2> QED
    BY <1>2, <1>6, <2>1, <2>2, Zenon DEF Remembers
<1>19. \A m \in RequestId : m # n => Apart(req[m], t)
  BY <1>6, <1>15, Zenon DEF Apart
<1>20. PathsInv'
  <2>1. ASSUME NEW s \in Storage PROVE Ends(s, mem'[s], paths[s])
    <3>1. Ends(s, mem[s], paths[s])
      BY Zenon DEF StagedInv, PathsInv
    <3>2. CASE s \in Scratch(a)
      BY <1>12, <3>2, Zenon DEF Ends
    <3>3. CASE s \notin Scratch(a)
      BY <1>11, <3>1, <3>3, Zenon
    <3> QED
      BY <3>2, <3>3
  <2> QED
    BY <1>4, <2>1, Zenon DEF PathsInv
<1>21. DescriptorInv'
  <2>1. req[n].phase # "pending" /\ t.phase # "pending"
    BY <1>4, <1>6
  <2>2. Waiting(req[n]) = {} /\ Waiting(t) = {} /\ Distinct(t)
    BY <2>1, BringsNone, Zenon
  <2>3. DescriptorInv /\ UNCHANGED <<fds, files, lost>>
    BY <1>4, Zenon DEF StagedInv
  <2> QED
    BY <1>7, <2>2, <2>3, SameDescriptorsOne, Zenon
<1>22. paths' = paths
  BY <1>4, Zenon
<1>23. DOMAIN mem' = Storage /\ \A s \in Storage : mem'[s] = [i \in 0 .. Size[s] - 1 |-> mem'[s][i]]
  BY <1>10, Zenon
<1> QED
  BY <1>6, <1>7, <1>14, <1>16, <1>17, <1>18, <1>19, <1>20, <1>21, <1>22, <1>23, KeptOthers, Zenon DEF Undisturbed

\* The kernel writes what it fills, and nothing else.
LEMMA WrittenLeaves ==
  ASSUME StagedInv, NEW cells, NEW value, mem' = Written(mem, cells, value)
  PROVE  /\ DOMAIN mem' = Storage
         /\ \A s \in Storage : mem'[s] = [i \in 0 .. Size[s] - 1 |-> mem'[s][i]]
         /\ \A s \in Storage : cells \intersect Cells(s) = {} => mem'[s] = mem[s]
         /\ \A s \in Storage : \A i \in 0 .. Size[s] - 1 : <<s, i>> \in cells => mem'[s][i] = value
<1>1. \A s \in Storage : mem[s] = [i \in 0 .. Size[s] - 1 |-> mem[s][i]]
  BY Zenon DEF StagedInv
<1>2. \A s \in Storage : DOMAIN mem[s] = 0 .. Size[s] - 1
  BY <1>1, Zenon
<1> DEFINE new(s, i) == IF <<s, i>> \in cells THEN value ELSE mem[s][i]
<1>3. mem' = [s \in Storage |-> [i \in DOMAIN mem[s] |-> new(s, i)]]
  BY Zenon DEF Written
<1>4. \A s, i : /\ <<s, i>> \in cells => new(s, i) = value
                /\ <<s, i>> \notin cells => new(s, i) = mem[s][i]
  BY Zenon
<1> HIDE DEF new
<1>5. DOMAIN mem' = Storage /\ \A s \in Storage : mem'[s] = [i \in 0 .. Size[s] - 1 |-> new(s, i)]
  BY <1>2, <1>3, Zenon
<1>6. \A s \in Storage : mem'[s] = [i \in 0 .. Size[s] - 1 |-> mem'[s][i]]
  BY <1>5, Zenon
<1>7. ASSUME NEW s \in Storage, NEW i \in 0 .. Size[s] - 1 PROVE mem'[s][i] = new(s, i)
  <2>1. mem'[s] = [j \in 0 .. Size[s] - 1 |-> new(s, j)]
    BY <1>5, Zenon
  <2> QED
    BY <2>1, Zenon
<1>8. ASSUME NEW s \in Storage, cells \intersect Cells(s) = {} PROVE mem'[s] = mem[s]
  <2>1. ASSUME NEW i \in 0 .. Size[s] - 1 PROVE new(s, i) = mem[s][i]
    BY <1>4, <1>8, CellsOf, Zenon
  <2>2. [i \in 0 .. Size[s] - 1 |-> new(s, i)] = [i \in 0 .. Size[s] - 1 |-> mem[s][i]]
    BY <2>1, Zenon
  <2>3. mem'[s] = [i \in 0 .. Size[s] - 1 |-> new(s, i)] /\ mem[s] = [i \in 0 .. Size[s] - 1 |-> mem[s][i]]
    BY <1>1, <1>5, Zenon
  <2> QED
    BY <2>2, <2>3, Zenon
<1>9. \A s \in Storage : \A i \in 0 .. Size[s] - 1 : <<s, i>> \in cells => mem'[s][i] = value
  BY <1>4, <1>7, Zenon
<1> QED
  BY <1>5, <1>6, <1>8, <1>9, Zenon

\* Finish.
LEMMA FinishKeeps ==
  ASSUME StagedInv, NEW n \in RequestId, NEW cqe, Finish(n, cqe)
  PROVE  StagedInv'
<1>1. PICK r : r = req[n]
  BY Zenon
<1>2. PICK t : t = Posted(r, cqe, "over")
  BY Zenon
<1>3. PICK a : a = r.args
  BY Zenon
<1>4. req' = [req EXCEPT ![n] = t]
  BY <1>1, <1>2, Zenon DEF Finish, Post
<1>5. /\ r.kernel = "running" /\ ~Installs(a) /\ ~ZeroCopy(a) /\ a.kind # "cancel"
      /\ cqe \in Completions(a) /\ mem' = Written(mem, Fills(a, cqe), <<"kernel", n>>)
      /\ UNCHANGED <<paths, holder, fds, files, lost>>
  BY <1>1, <1>3, Zenon DEF Finish
<1>6. Sound(r) /\ Active(r) /\ Has(r, n, holder, paths)
  <2>1. Active(r)
    BY <1>5 DEF Active
  <2> QED
    BY <1>1, <2>1, Zenon DEF StagedInv, HeldInv
<1>7. WellFormed(a) /\ NewError(a) = "ok"
  BY <1>3, <1>6, Accepted, Zenon
<1>8. Answered(a, cqe)
  BY <1>5, <1>7, AnswersHold, Zenon
<1>9. /\ cqe \in Completion /\ ~cqe.more /\ Fills(a, cqe) \subseteq Inside(a)
      /\ Shown(a, cqe) \subseteq Fills(a, cqe) /\ Outcome(a, r.sent, cqe) = cqe.happened
  BY <1>8, Zenon DEF Answered
<1>10. Reports(r, t, cqe)
  BY <1>3, <1>5, <1>9, Zenon DEF Reports
<1>11. /\ Sound(t)
       /\ r.phase = "pending" => /\ t.phase = "pending" /\ t.args = r.args /\ t.kernel = "over"
                                 /\ t.cqes = Append(r.cqes, cqe)
       /\ r.phase # "pending" => r.phase = "gone" /\ t = Gone
  <2>1. r.kernel \in {"running", "notify"} /\ "over" \in {"running", "notify", "over"} /\ "over" # "notify"
        /\ "over" # "running"
    BY <1>5
  <2>2. Sound(t) /\ Progressed(r, t, cqe, "over")
    BY <1>2, <1>6, <1>9, <1>10, <2>1, SoundPosted, Zenon
  <2> QED
    BY <2>2 DEF Progressed
<1>12. /\ DOMAIN req' = RequestId /\ req'[n] = t
       /\ \A m \in RequestId : m # n => req'[m] = req[m]
  BY <1>4, Replaced, Zenon
<1>13. /\ DOMAIN mem' = Storage
       /\ \A s \in Storage : mem'[s] = [i \in 0 .. Size[s] - 1 |-> mem'[s][i]]
       /\ \A s \in Storage : Fills(a, cqe) \intersect Cells(s) = {} => mem'[s] = mem[s]
       /\ \A s \in Storage : \A i \in 0 .. Size[s] - 1 :
            <<s, i>> \in Fills(a, cqe) => mem'[s][i] = <<"kernel", n>>
  BY <1>5, WrittenLeaves, Zenon
<1>14. \A s \in Storage : s \notin Scratch(a) => mem'[s] = mem[s]
  BY <1>7, <1>9, <1>13, OutsideCells, Zenon
<1>15. /\ Scratch(a) \subseteq Owned(a) /\ Scratch(a) \subseteq Storage
       /\ \A s \in Scratch(a) : paths[s] = 0
  BY <1>3, <1>6, <1>7, Storages, Zenon DEF Has
<1>16. ASSUME NEW m \in RequestId, m # n, Active(req[m]), NEW s \in Owned(req[m].args)
       PROVE  holder'[s] = holder[s] /\ mem'[s] = mem[s]
  <2>1. s \in Storage
    BY <1>16, NotTheApplications, Zenon
  <2>2. Apart(req[m], r)
    BY <1>1, <1>16, Zenon DEF StagedInv, HeldInv
  <2>3. s \notin Scratch(a)
    BY <1>3, <1>6, <1>15, <1>16, <2>2, Zenon DEF Apart
  <2> QED
    BY <1>5, <1>14, <2>1, <2>3, Zenon
<1>17. Answers(a, cqe, n, mem')
  <2>1. SUFFICES ASSUME NEW c \in Shown(a, cqe) PROVE c[1] \in Scratch(a) /\ mem'[c[1]][c[2]] = <<"kernel", n>>
    BY Zenon DEF Answers
  <2>2. PICK s \in Scratch(a) : c \in Cells(s)
    BY <1>9, <2>1, Zenon DEF Inside
  <2>3. s \in Storage
    BY <1>15, <2>2
  <2>4. c[1] = s /\ c[2] \in 0 .. Size[s] - 1 /\ c = <<s, c[2]>>
    BY <2>2, <2>3, CellsOf, Zenon
  <2>5. <<s, c[2]>> \in Fills(a, cqe)
    BY <1>9, <2>1, <2>4, Zenon
  <2>6. mem'[s][c[2]] = <<"kernel", n>>
    BY <1>13, <2>3, <2>4, <2>5, Zenon
  <2> QED
    BY <2>2, <2>4, <2>6, Zenon
<1>18. ASSUME r.phase = "pending"
       PROVE  /\ Has(t, n, holder', paths) /\ Remembers(t, n, mem') /\ ~Installs(t.args)
              /\ \A m \in RequestId : m # n => Apart(req[m], t)
  <2>1. t.phase \notin {"prepared", "done", "gone"} /\ r.phase # "gone" /\ t.kernel # "running" /\ t.args = a
        /\ t.cqes = Append(r.cqes, cqe)
    BY <1>3, <1>11, <1>18
  <2>2. Has(t, n, holder', paths)
    BY <1>3, <1>5, <1>6, <2>1, Zenon DEF Has
  <2>3. Remembers(t, n, mem')
    <3>1. PICK c : c = Append(r.cqes, cqe)
      BY Zenon
    <3>2. \A i \in DOMAIN c : (i \in DOMAIN r.cqes /\ c[i] = r.cqes[i]) \/ c[i] = cqe
      <4>1. r.cqes \in Seq(Completion)
        BY <1>6, <1>18, SoundPending, Zenon
      <4> QED
        BY <3>1, <4>1
    <3>3. \A i \in DOMAIN r.cqes : r.cqes[i].more
      <4>1. r.kernel \in {"running", "notify"}
        BY <1>5
      <4> QED
        BY <1>6, <1>18, <4>1, SoundWorking, Zenon
    <3>4. \A i \in DOMAIN t.cqes : Terminal(t, i) => t.cqes[i] = cqe
      BY <2>1, <3>1, <3>2, <3>3, Zenon DEF Terminal
    <3> QED
      BY <1>17, <2>1, <3>4, Zenon DEF Remembers
  <2>4. \A m \in RequestId : m # n => Apart(req[m], t)
    <3>1. \A m \in RequestId : m # n => Apart(req[m], r)
      BY <1>1, Zenon DEF StagedInv, HeldInv
    <3> QED
      BY <1>3, <1>6, <2>1, <3>1, Zenon DEF Apart
  <2>5. ~Installs(t.args)
    BY <1>5, <2>1, Zenon
  <2> QED
    BY <2>2, <2>3, <2>4, <2>5, Zenon
<1>19. ASSUME r.phase # "pending"
       PROVE  /\ Has(t, n, holder', paths) /\ Remembers(t, n, mem') /\ t.phase # "pending"
              /\ \A m \in RequestId : m # n => Apart(req[m], t)
  <2>1. t = Gone /\ ~Active(Gone) /\ Gone.cqes = <<>> /\ Gone.phase = "gone" /\ Gone.kernel = "over"
    BY <1>11, <1>19, FollowsGone, Zenon
  <2>2. ~Active(t) /\ DOMAIN t.cqes = {} /\ t.phase \notin {"prepared", "pending", "done"} /\ t.kernel # "running"
    BY <2>1
  <2> QED
    BY <2>2, Zenon DEF Has, Remembers, Apart
<1>20. DescriptorInv'
  <2>1. r.phase # "pending" \/ ~Installs(r.args)
    BY <1>3, <1>5, Zenon
  <2>2. t.phase # "pending" \/ ~Installs(t.args)
    BY <1>18, <1>19, Zenon
  <2>3. Waiting(r) = {} /\ Waiting(t) = {} /\ Distinct(t)
    BY <2>1, <2>2, BringsNone, Zenon
  <2>4. DescriptorInv /\ UNCHANGED <<fds, files, lost>>
    BY <1>5, Zenon DEF StagedInv
  <2> QED
    BY <1>1, <1>12, <2>3, <2>4, SameDescriptorsOne, Zenon
<1>21. PathsInv'
  <2>1. ASSUME NEW s \in Storage PROVE Ends(s, mem'[s], paths[s])
    <3>1. Ends(s, mem[s], paths[s])
      BY Zenon DEF StagedInv, PathsInv
    <3>2. CASE s \in Scratch(a)
      BY <1>15, <3>2, Zenon DEF Ends
    <3>3. CASE s \notin Scratch(a)
      BY <1>14, <3>1, <3>3, Zenon
    <3> QED
      BY <3>2, <3>3
  <2> QED
    BY <1>5, <2>1, Zenon DEF PathsInv
<1>22. paths' = paths /\ holder' \in [Storage -> RequestId \union {0, -1}]
  BY <1>5, Zenon DEF StagedInv
<1>23. DOMAIN mem' = Storage /\ \A s \in Storage : mem'[s] = [i \in 0 .. Size[s] - 1 |-> mem'[s][i]]
  BY <1>13, Zenon
<1>24. /\ Has(req'[n], n, holder', paths) /\ Remembers(req'[n], n, mem') /\ Sound(req'[n])
       /\ \A m \in RequestId : m # n => Apart(req[m], req'[n])
  BY <1>11, <1>12, <1>18, <1>19, Zenon
<1> QED
  BY <1>12, <1>16, <1>20, <1>21, <1>22, <1>23, <1>24, KeptOthers, Zenon DEF Undisturbed

-----------------------------------------------------------------------------
\* Cancel.
LEMMA CancelKeeps ==
  ASSUME StagedInv, NEW n \in RequestId, Cancel(n)
  PROVE  StagedInv'
<1> DEFINE a == req[n].args
           sent == req[n].sent
<1>1. /\ req[n].kernel = "running" /\ a.kind = "cancel"
      /\ UNCHANGED <<mem, paths, holder, fds, files, lost>>
  BY Zenon DEF Cancel
<1>2. /\ \A result \in Int : result >= 0 => Outcome(a, sent, Cqe(result, FALSE, "Applied", 0)) = "Applied"
      /\ Outcome(a, sent, Cqe(-114, FALSE, "AlreadyCompleting", 0)) = "AlreadyCompleting"
      /\ Outcome(a, sent, Cqe(-2, FALSE, "NotFound", 0)) = "NotFound"
  BY <1>1, CancelAnswer, Zenon
<1>3. ASSUME NEW stopped, stopped \subseteq Matched(n), NEW result \in Int, NEW happened \in Happening,
             Outcome(a, sent, Cqe(result, FALSE, happened, 0)) = happened,
             Cancelled(n, stopped, result, happened)
      PROVE  StagedInv'
  <2>1. PICK cqe : cqe = Cqe(result, FALSE, happened, 0)
    BY Zenon
  <2>2. cqe \in Completion /\ ~cqe.more /\ cqe.happened = happened
    BY <2>1 DEF Cqe, Completion
  <2>3. Outcome(a, sent, cqe) = cqe.happened
    BY <1>3, <2>1, <2>2, Zenon
  <2> QED
    BY <1>1, <1>3, <2>1, <2>2, <2>3, CancelledKeeps, Zenon
<1>4. {"Applied", "AlreadyCompleting", "NotFound"} \subseteq Happening
  BY DEF Happening
<1>5. -114 \in Int /\ -2 \in Int /\ 0 \in Int /\ 0 >= 0
  OBVIOUS
<1>6. CASE \E stopped \in SUBSET Matched(n), count \in 0 .. MaxRequests : Cancelled(n, stopped, count, "Applied")
  <2>1. PICK stopped \in SUBSET Matched(n), count \in 0 .. MaxRequests : Cancelled(n, stopped, count, "Applied")
    BY <1>6
  <2>2. count \in Int /\ count >= 0
    BY StagedAssumption
  <2> QED
    BY <1>2, <1>3, <1>4, <2>1, <2>2, Zenon
<1>7. CASE \E m \in Matched(n) : Cancelled(n, {m}, 0, "Applied")
  BY <1>2, <1>3, <1>4, <1>5, <1>7, Zenon
<1>8. CASE Cancelled(n, {}, -114, "AlreadyCompleting")
  BY <1>2, <1>3, <1>4, <1>5, <1>8, Zenon
<1>9. CASE Cancelled(n, {}, -2, "NotFound")
  BY <1>2, <1>3, <1>4, <1>5, <1>9, Zenon
<1>10. CASE "ALL" \in Sqe(a).flags
  <2>1. \E stopped \in SUBSET Matched(n), count \in 0 .. MaxRequests : Cancelled(n, stopped, count, "Applied")
    BY <1>10, Zenon DEF Cancel
  <2> QED
    BY <1>6, <2>1
<1>11. CASE "ALL" \notin Sqe(a).flags
  <2>1. \/ \E m \in Matched(n) : Cancelled(n, {m}, 0, "Applied")
        \/ Cancelled(n, {}, -114, "AlreadyCompleting")
        \/ Cancelled(n, {}, -2, "NotFound")
    BY <1>11 DEF Cancel
  <2> QED
    BY <1>7, <1>8, <1>9, <2>1, Zenon
<1> QED
  BY <1>10, <1>11

-----------------------------------------------------------------------------
\* Paths.

\* A NUL with none before it is where the scan ends.
LEMMA ScanStops ==
  ASSUME NEW s \in Storage, NEW contents, NEW k \in 0 .. Size[s] - 1, IsNul(contents[k]),
         \A j \in 0 .. k - 1 : ~IsNul(contents[j])
  PROVE  ScanEnd(s, contents) = k
<1>1. Size[s] \in Nat
  BY Sizes
<1> DEFINE First(i) == IsNul(contents[i]) /\ \A j \in 0 .. i - 1 : ~IsNul(contents[j])
<1>2. First(k)
  OBVIOUS
<1>3. ASSUME NEW i \in 0 .. Size[s] - 1, First(i) PROVE i = k
  <2>1. ~(i < k)
    <3>1. i < k => i \in 0 .. k - 1
      BY <1>1
    <3> QED
      BY <1>3, <3>1, Zenon
  <2>2. ~(k < i)
    <3>1. k < i => k \in 0 .. i - 1
      BY <1>1
    <3> QED
      BY <1>3, <3>1, Zenon
  <2> QED
    BY <1>1, <2>1, <2>2
<1>4. ScanEnd(s, contents) = CHOOSE i \in 0 .. Size[s] - 1 : First(i)
  BY Zenon DEF ScanEnd
<1> HIDE DEF First
<1>5. (CHOOSE i \in 0 .. Size[s] - 1 : First(i)) = k
  BY <1>2, <1>3, Zenon
<1> QED
  BY <1>4, <1>5, Zenon

\* A scan ends inside the storage, or at its end.
LEMMA ScanRange ==
  ASSUME NEW s \in Storage, NEW contents
  PROVE  ScanEnd(s, contents) \in 0 .. Size[s]
<1>1. Size[s] \in Nat
  BY Sizes
<1> DEFINE First(i) == IsNul(contents[i]) /\ \A j \in 0 .. i - 1 : ~IsNul(contents[j])
<1>2. CASE \E i \in 0 .. Size[s] - 1 : First(i)
  <2>1. PICK k \in 0 .. Size[s] - 1 : First(k)
    BY <1>2, Zenon
  <2>2. ScanEnd(s, contents) = k
    BY <2>1, ScanStops, Zenon
  <2> QED
    BY <1>1, <2>2
<1>3. CASE ~ \E i \in 0 .. Size[s] - 1 : First(i)
  <2>1. ScanEnd(s, contents) = Size[s]
    BY <1>3, Zenon DEF ScanEnd
  <2> QED
    BY <1>1, <2>1
<1> QED
  BY <1>2, <1>3

\* Steps that change a storage of the application's.
LEMMA KeptPaths ==
  ASSUME StagedInv, NEW s \in Storage, holder[s] = 0, UNCHANGED <<holder, req, fds, files, lost>>,
         DOMAIN mem' = Storage, \A x \in Storage : mem'[x] = [i \in 0 .. Size[x] - 1 |-> mem'[x][i]],
         paths' \in [Storage -> Nat], \A x \in Storage : x # s => mem'[x] = mem[x] /\ paths'[x] = paths[x],
         Ends(s, mem'[s], paths'[s])
  PROVE  StagedInv'
<1>1. holder' = holder /\ req' = req /\ fds' = fds /\ files' = files /\ lost' = lost
  BY Zenon
<1>2. \A m \in RequestId : Active(req[m]) => \A x \in Owned(req[m].args) : x \in Storage /\ x # s
  BY NotTheApplications, Zenon
<1>3. \A m \in RequestId : Active(req[m]) =>
        /\ Scratch(req[m].args) \subseteq Owned(req[m].args)
        /\ \A i \in DOMAIN req[m].args.paths : req[m].args.paths[i] \in Owned(req[m].args)
  <2>1. \A m \in RequestId : Sound(req[m])
    BY Zenon DEF StagedInv
  <2> QED
    BY <2>1, Accepted, Storages, Zenon
<1>4. ASSUME NEW m \in RequestId PROVE Has(req'[m], m, holder', paths')
  <2>1. Has(req[m], m, holder, paths)
    BY Zenon DEF StagedInv, HeldInv
  <2>2. Has(req[m], m, holder, paths')
    BY <1>2, <1>3, <2>1, Zenon DEF Has
  <2> QED
    BY <1>1, <2>2, Zenon
<1>5. ASSUME NEW m \in RequestId PROVE Remembers(req'[m], m, mem')
  <2>1. Remembers(req[m], m, mem) /\ Sound(req[m])
    BY Zenon DEF StagedInv, MemoryInv
  <2>2. Active(req[m]) => \A x \in Scratch(req[m].args) : mem'[x] = mem[x]
    BY <1>2, <1>3, Zenon
  <2>3. Remembers(req[m], m, mem')
    BY <2>1, <2>2, SameMemory
  <2> QED
    BY <1>1, <2>3, Zenon
<1>6. PathsInv'
  <2>1. \A x \in Storage : Ends(x, mem[x], paths[x])
    BY Zenon DEF StagedInv, PathsInv
  <2>2. \A x \in Storage : Ends(x, mem'[x], paths'[x])
    BY <2>1, Zenon
  <2> QED
    BY <2>2, Zenon DEF PathsInv
<1>7. HeldInv' /\ MemoryInv'
  BY <1>1, <1>4, <1>5, Zenon DEF StagedInv, HeldInv, MemoryInv
<1>8. DescriptorInv'
  BY <1>1, Zenon DEF StagedInv, DescriptorInv
<1> QED
  BY <1>1, <1>6, <1>7, <1>8, Zenon DEF StagedInv

\* CopyPath.
LEMMA CopyPathKeeps ==
  ASSUME StagedInv, NEW s \in Storage, NEW len \in PathLens, NEW interior, CopyPath(s, len, interior)
  PROVE  StagedInv'
<1>1. PICK new : new = CopyInto(mem[s], len)
  BY Zenon
<1>2. /\ holder[s] = 0 /\ CopyError(s, len, interior) = "ok" /\ UNCHANGED <<holder, req, fds, files, lost>>
      /\ mem' = [mem EXCEPT ![s] = new] /\ paths' = [paths EXCEPT ![s] = len]
  BY <1>1, Zenon DEF CopyPath
<1>3. Size[s] \in Nat /\ len \in Nat
  BY Sizes, StagedAssumption
<1>4. len \in 1 .. Size[s] - 1
  BY <1>2, <1>3 DEF CopyError
<1>5. DOMAIN mem = Storage /\ paths \in [Storage -> Nat] /\ \A x \in Storage : mem[x] = [i \in 0 .. Size[x] - 1 |-> mem[x][i]]
  BY Zenon DEF StagedInv
<1>6. /\ DOMAIN mem' = Storage /\ mem'[s] = new /\ \A x \in Storage : x # s => mem'[x] = mem[x]
  BY <1>2, <1>5, Zenon
<1>7. /\ paths' \in [Storage -> Nat] /\ paths'[s] = len /\ \A x \in Storage : x # s => paths'[x] = paths[x]
  BY <1>2, <1>3, <1>5, Zenon
<1>8. DOMAIN mem[s] = 0 .. Size[s] - 1
  BY <1>5, Zenon
<1>9. new = [i \in 0 .. Size[s] - 1 |->
               IF i < len THEN <<"text", 0>> ELSE IF i = len THEN <<"nul", 0>> ELSE mem[s][i]]
  BY <1>1, <1>8, Zenon DEF CopyInto
<1>10. new = [i \in 0 .. Size[s] - 1 |-> new[i]]
  BY <1>9, Zenon
<1>11. \A x \in Storage : mem'[x] = [i \in 0 .. Size[x] - 1 |-> mem'[x][i]]
  BY <1>5, <1>6, <1>10, Zenon
<1>12. new[len] = <<"nul", 0>> /\ \A j \in 0 .. len - 1 : new[j] = <<"text", 0>>
  BY <1>3, <1>4, <1>9
<1>13. IsNul(<<"nul", 0>>) /\ ~IsNul(<<"text", 0>>)
  BY DEF IsNul
<1>14. IsNul(new[len]) /\ \A j \in 0 .. len - 1 : ~IsNul(new[j])
  BY <1>12, <1>13, Zenon
<1>15. ScanEnd(s, new) = len
  <2>1. len \in 0 .. Size[s] - 1
    BY <1>3, <1>4
  <2> QED
    BY <1>14, <2>1, ScanStops, Zenon
<1>16. Ends(s, mem'[s], paths'[s])
  BY <1>4, <1>6, <1>7, <1>15, Zenon DEF Ends
<1> QED
  BY <1>2, <1>6, <1>7, <1>11, <1>16, KeptPaths, Zenon

\* AdoptPath and IntoStorage wrap and unwrap.
LEMMA WrapKeeps ==
  ASSUME StagedInv, NEW s \in Storage, holder[s] = 0, NEW len \in Nat, paths' = [paths EXCEPT ![s] = len],
         Ends(s, mem[s], len), UNCHANGED <<mem, holder, req, fds, files, lost>>
  PROVE  StagedInv'
<1>1. DOMAIN mem = Storage /\ paths \in [Storage -> Nat] /\ \A x \in Storage : mem[x] = [i \in 0 .. Size[x] - 1 |-> mem[x][i]]
  BY Zenon DEF StagedInv
<1>2. mem' = mem /\ UNCHANGED <<holder, req, fds, files, lost>>
  BY Zenon
<1>3. /\ paths' \in [Storage -> Nat] /\ paths'[s] = len /\ \A x \in Storage : x # s => paths'[x] = paths[x]
  BY <1>1, Zenon
<1>4. Ends(s, mem'[s], paths'[s])
  BY <1>2, <1>3, Zenon
<1>5. DOMAIN mem' = Storage /\ \A x \in Storage : mem'[x] = [i \in 0 .. Size[x] - 1 |-> mem'[x][i]]
  BY <1>1, <1>2, ZenonT(30)
<1>6. \A x \in Storage : x # s => mem'[x] = mem[x] /\ paths'[x] = paths[x]
  BY <1>2, <1>3, Zenon
<1>7. paths' \in [Storage -> Nat] /\ UNCHANGED <<holder, req, fds, files, lost>>
  BY <1>2, <1>3, Zenon
<1> QED
  BY <1>4, <1>5, <1>6, <1>7, KeptPaths, Zenon

\* AdoptPath.
LEMMA AdoptPathKeeps ==
  ASSUME StagedInv, NEW s \in Storage, AdoptPath(s)
  PROVE  StagedInv'
<1>1. PICK len : len = ScanEnd(s, mem[s])
  BY Zenon
<1>2. len \in 0 .. Size[s] /\ Size[s] \in Nat
  BY <1>1, ScanRange, Sizes
<1>3. len # Size[s] /\ len # 0
  BY <1>1 DEF AdoptPath, AdoptError
<1>4. len \in Nat /\ len \in 1 .. Size[s] - 1
  BY <1>2, <1>3
<1>5. Ends(s, mem[s], len)
  BY <1>1, <1>4, Zenon DEF Ends
<1> QED
  BY <1>1, <1>4, <1>5, WrapKeeps, Zenon DEF AdoptPath

\* IntoStorage.
LEMMA IntoStorageKeeps ==
  ASSUME StagedInv, NEW s \in Storage, IntoStorage(s)
  PROVE  StagedInv'
<1>1. Ends(s, mem[s], 0) /\ 0 \in Nat
  BY DEF Ends
<1> QED
  BY <1>1, WrapKeeps, Zenon DEF IntoStorage

-----------------------------------------------------------------------------
\* Every step.

\* CloseFile.
LEMMA CloseFileKeeps ==
  ASSUME StagedInv, NEW file \in files, CloseFile(file)
  PROVE  StagedInv'
<1>1. /\ req' = req /\ lost' = lost /\ UNCHANGED <<mem, paths, holder>>
      /\ files' = files \ {file} /\ fds' = fds \ {file[1]}
  BY Zenon DEF CloseFile
<1>2. PICK waiting : waiting = [m \in RequestId |-> Waiting(req[m])]
  BY Zenon
<1>3. Accounted(fds, files, lost, waiting) /\ \A m \in RequestId : Distinct(req[m])
  BY <1>2, Zenon DEF StagedInv, DescriptorInv
<1>4. Accounted(fds', files', lost', waiting)
  BY <1>1, <1>3, AccountedClose, Zenon
<1>5. DescriptorInv'
  BY <1>1, <1>2, <1>3, <1>4, Zenon DEF DescriptorInv
<1>6. DOMAIN req' = RequestId /\ \A m \in RequestId : Sound(req[m])
  BY <1>1, Zenon DEF StagedInv
<1>7. \A m \in RequestId : Sound(req'[m]) /\ Follows(req[m], req'[m]) /\ Stays(req[m], req'[m])
  BY <1>1, <1>6, FollowsSelf, Zenon
<1> QED
  BY <1>1, <1>5, <1>6, <1>7, Kept, Zenon

\* A step of nothing.
LEMMA StutterKeeps ==
  ASSUME StagedInv, UNCHANGED vars
  PROVE  StagedInv'
<1>1. /\ mem' = mem /\ paths' = paths /\ holder' = holder /\ req' = req /\ fds' = fds
      /\ files' = files /\ lost' = lost
  BY Zenon DEF vars
<1> QED
  BY <1>1, Zenon DEF StagedInv, HeldInv, PathsInv, MemoryInv, DescriptorInv

\* The application owns every storage and no request was built.
LEMMA StagedStarts == Init => StagedInv
<1> SUFFICES ASSUME Init PROVE StagedInv
  BY Zenon
<1>1. DOMAIN mem = Storage /\ \A s \in Storage : mem[s] = [i \in 0 .. Size[s] - 1 |-> mem[s][i]]
  <2>1. \A s \in Storage : mem[s] = [i \in 0 .. Size[s] - 1 |-> <<"app", 0>>]
    BY Zenon DEF Init
  <2> QED
    BY <2>1, Zenon DEF Init
<1>2. 0 \in Nat
  OBVIOUS
<1>3. paths \in [Storage -> Nat] /\ holder \in [Storage -> RequestId \union {0, -1}]
  BY <1>2, Zenon DEF Init
<1>4. DOMAIN req = RequestId /\ \A n \in RequestId : req[n] = Unused
  BY Zenon DEF Init
<1>5. Unused.phase = "unused" /\ Unused.kernel = "idle" /\ Unused.cqes = <<>>
  BY DEF Unused
<1>6. /\ Unused.phase \notin {"prepared", "pending", "done"} /\ Unused.kernel \notin {"running", "notify"}
      /\ DOMAIN Unused.cqes = {}
  BY <1>5
<1>7. ~Active(Unused)
  BY <1>6, Zenon DEF Active
<1>8. HeldInv
  BY <1>4, <1>7, Zenon DEF HeldInv, Has, Apart
<1>9. MemoryInv
  BY <1>4, <1>6, Zenon DEF MemoryInv, Remembers
<1>10. PathsInv
  BY Zenon DEF Init, PathsInv, Ends
<1>11. DescriptorInv
  <2>1. Waiting(Unused) = {} /\ Distinct(Unused)
    BY <1>6, BringsNone, Zenon
  <2>2. PICK waiting : waiting = [n \in RequestId |-> Waiting(req[n])]
    BY Zenon
  <2>3. \A n \in RequestId : waiting[n] = {}
    BY <1>4, <2>1, <2>2, Zenon
  <2>4. fds = {} /\ files = {} /\ lost = {}
    BY Zenon DEF Init
  <2>5. Accounted(fds, files, lost, waiting)
    BY <2>3, <2>4 DEF Accounted
  <2> QED
    BY <1>4, <2>1, <2>2, <2>5, Zenon DEF DescriptorInv
<1> QED
  BY <1>1, <1>3, <1>4, <1>8, <1>9, <1>10, <1>11, SoundEnds, Zenon DEF StagedInv

\* Every operation of the application's and every step of the kernel's.
LEMMA StagedStep == StagedInv /\ [Next]_vars => StagedInv'
<1> SUFFICES ASSUME StagedInv, [Next]_vars PROVE StagedInv'
  BY Zenon
<1>1. CASE UNCHANGED vars
  BY <1>1, StutterKeeps, Zenon
<1>2. CASE Application
  <2>1. ASSUME NEW s \in Storage, NEW len \in PathLens, NEW interior \in BOOLEAN, CopyPath(s, len, interior)
        PROVE  StagedInv'
    BY <2>1, CopyPathKeeps, Zenon
  <2>2. ASSUME NEW s \in Storage, AdoptPath(s) \/ IntoStorage(s) PROVE StagedInv'
    BY <2>2, AdoptPathKeeps, IntoStorageKeeps, Zenon
  <2>3. ASSUME NEW n \in RequestId, NEW a \in Arguments, Prepare(n, a) PROVE StagedInv'
    BY <2>3, PrepareKeeps, Zenon
  <2>4. ASSUME NEW n \in RequestId, Abandon(n) \/ Push(n) \/ RecordSent(n) \/ Record(n) \/ Redeem(n)
        PROVE  StagedInv'
    BY <2>4, AbandonKeeps, PushKeeps, RecordSentKeeps, RecordKeeps, RedeemKeeps, Zenon
  <2>5. ASSUME NEW n \in RequestId, DropEvent(n) \/ DropTicket(n) \/ IntoParts(n) PROVE StagedInv'
    BY <2>5, DropEventKeeps, DropTicketKeeps, IntoPartsKeeps, Zenon
  <2>6. ASSUME NEW file \in files, CloseFile(file) PROVE StagedInv'
    BY <2>6, CloseFileKeeps, Zenon
  <2> QED
    BY <1>2, <2>1, <2>2, <2>3, <2>4, <2>5, <2>6, Zenon DEF Application
<1>3. CASE Kernel
  <2>1. ASSUME NEW n \in RequestId, NEW cqe, Finish(n, cqe) PROVE StagedInv'
    BY <2>1, FinishKeeps, Zenon
  <2>2. ASSUME NEW n \in RequestId, NEW more \in BOOLEAN, Install(n, more) PROVE StagedInv'
    BY <2>2, InstallKeeps, Zenon
  <2>3. ASSUME NEW n \in RequestId, InstallFails(n) \/ ZcSend(n) \/ ZcNotify(n) \/ Cancel(n) PROVE StagedInv'
    BY <2>3, InstallFailsKeeps, ZcSendKeeps, ZcNotifyKeeps, CancelKeeps, Zenon
  <2> QED
    BY <1>3, <2>1, <2>2, <2>3, Zenon DEF Kernel
<1> QED
  BY <1>1, <1>2, <1>3, Zenon DEF Next

\* Requests, storages, memory, paths and descriptors stay as StagedInv says
\* through every operation of the owned API and every answer of the kernel.
THEOREM StagedInvariant == Spec => []StagedInv
<1>1. Init => StagedInv
  BY StagedStarts
<1>2. StagedInv /\ [Next]_vars => StagedInv'
  BY StagedStep
<1> QED
  BY <1>1, <1>2, PTL DEF Spec

-----------------------------------------------------------------------------
\* What follows.

\* A path that a request has ends where OwnedPath found its terminator.
LEMMA PathEnds ==
  ASSUME StagedInv, NEW n \in RequestId, Active(req[n]), NEW i \in DOMAIN req[n].args.paths,
         NEW s, s = req[n].args.paths[i]
  PROVE  s \in Storage /\ s \notin Scratch(req[n].args) /\ ScanEnd(s, mem[s]) = paths[s] /\ paths[s] < Size[s]
<1>1. Sound(req[n]) /\ Has(req[n], n, holder, paths)
  BY Zenon DEF StagedInv, HeldInv
<1>2. s \in Storage /\ s \notin Scratch(req[n].args)
  BY <1>1, Accepted, Storages, Zenon
<1>3. paths[s] # 0
  BY <1>1, Zenon DEF Has
<1>4. paths[s] \in 1 .. Size[s] - 1 /\ ScanEnd(s, mem[s]) = paths[s]
  BY <1>2, <1>3, Zenon DEF StagedInv, PathsInv, Ends
<1>5. Size[s] \in Nat
  BY <1>2, Sizes
<1>6. paths[s] < Size[s]
  BY <1>4, <1>5
<1> QED
  BY <1>2, <1>4, <1>6, Zenon

\* Type correctness of the requests.
LEMMA RequestTypes ==
  ASSUME NEW r, Sound(r)
  PROVE  /\ r.phase \in {"unused", "prepared", "pending", "done", "gone"}
         /\ r.kernel \in {"idle", "running", "notify", "over"}
         /\ r.args \in Arguments \/ r \in {Unused, Gone}
         /\ Len(r.sent) <= 1 /\ Len(r.last) <= 1
<1>1. r \in RequestState /\ Len(r.sent) <= 1 /\ (r.args \in Arguments \/ r \in {Unused, Gone})
  BY Zenon DEF Sound
<1>2. /\ r.phase \in {"unused", "prepared", "pending", "done", "gone"}
      /\ r.kernel \in {"idle", "running", "notify", "over"}
  BY <1>1, FieldTypes, Zenon
<1>3. Len(r.last) <= 1
  <2>1. Unused.last = <<>> /\ Len(<<>>) <= 1 /\ 1 <= 1
    BY DEF Unused
  <2>2. r.phase = "done" => Len(r.last) = 1
    BY Zenon DEF Sound
  <2>3. r.phase # "done" => r.last = <<>>
    BY <1>2, <2>1, Zenon DEF Sound
  <2> QED
    BY <2>1, <2>2, <2>3, Zenon
<1> QED
  BY <1>1, <1>2, <1>3, Zenon

\* The types, and the terminators of OwnedPaths inside their storage, for every
\* set of storages and requests.
THEOREM StagedTypes == Spec => []TypeOK
<1>1. ASSUME StagedInv PROVE TypeOK
  <2>1. ASSUME NEW s \in Storage
        PROVE  /\ DOMAIN mem[s] = 0 .. Size[s] - 1
               /\ paths[s] = 0 \/ paths[s] \in 1 .. Size[s] - 1
               /\ holder[s] \in RequestId \union {0, -1}
    <3>1. mem[s] = [i \in 0 .. Size[s] - 1 |-> mem[s][i]] /\ holder \in [Storage -> RequestId \union {0, -1}]
          /\ Ends(s, mem[s], paths[s])
      BY <1>1, Zenon DEF StagedInv, PathsInv
    <3> QED
      BY <3>1, Zenon DEF Ends
  <2>2. \A n \in RequestId : Sound(req[n])
    BY <1>1, Zenon DEF StagedInv
  <2>3. ASSUME NEW n \in RequestId
        PROVE  /\ req[n].phase \in {"unused", "prepared", "pending", "done", "gone"}
               /\ req[n].kernel \in {"idle", "running", "notify", "over"}
               /\ req[n].args \in Arguments \/ req[n] \in {Unused, Gone}
               /\ Len(req[n].sent) <= 1 /\ Len(req[n].last) <= 1
    BY <2>2, RequestTypes, Zenon
  <2>4. fds \subseteq Fd /\ lost \subseteq Fd /\ files \subseteq Fd \X RequestId
    BY <1>1, Zenon DEF StagedInv, DescriptorInv, Accounted
  <2> QED
    BY <2>1, <2>3, <2>4, Zenon DEF TypeOK
<1> QED
  BY <1>1, StagedInvariant, PTL

\* Addresses in an entry that the kernel holds, scans included, stay inside
\* storage that the request owns and that nobody else has.
THEOREM EntriesStayInside == Spec => []KernelStaysInside
<1>1. ASSUME StagedInv PROVE KernelStaysInside
  <2>1. SUFFICES ASSUME NEW n \in RequestId, InKernel(n), NEW a, a = req[n].args, NEW q, q = Sqe(a)
                 PROVE  /\ q.reads \union q.writes \subseteq UNION {Cells(s) : s \in Owned(a)}
                        /\ \A s \in Owned(a) : holder[s] \in {n, -1}
                        /\ \A i \in DOMAIN q.names :
                             /\ ScanEnd(q.names[i], mem[q.names[i]]) < Size[q.names[i]]
                             /\ q.writes \intersect Cells(q.names[i]) = {}
    BY Zenon DEF KernelStaysInside
  <2>2. Active(req[n])
    BY <2>1, Zenon DEF InKernel, Active
  <2>3. Sound(req[n]) /\ Has(req[n], n, holder, paths)
    BY <1>1, Zenon DEF StagedInv, HeldInv
  <2>4. WellFormed(a) /\ Fitting(a, q)
    BY <2>1, <2>2, <2>3, Accepted, EntryFits, Zenon
  <2>5. q.names = a.paths /\ q.reads \subseteq Inside(a) /\ q.writes \subseteq Inside(a)
    BY <2>4, Zenon DEF Fitting
  <2>6. Inside(a) \subseteq UNION {Cells(s) : s \in Owned(a)}
    BY <2>4, Storages, Zenon DEF Inside
  <2>7. \A s \in Owned(a) : holder[s] \in {n, -1}
    BY <2>1, <2>2, <2>3, Zenon DEF Has
  <2>8. ASSUME NEW i \in DOMAIN a.paths
        PROVE  /\ ScanEnd(a.paths[i], mem[a.paths[i]]) < Size[a.paths[i]]
               /\ q.writes \intersect Cells(a.paths[i]) = {}
    <3>1. PICK s : s = a.paths[i]
      BY Zenon
    <3>2. s \in Storage /\ s \notin Scratch(a) /\ ScanEnd(s, mem[s]) = paths[s] /\ paths[s] < Size[s]
      BY <1>1, <2>1, <2>2, <2>8, <3>1, PathEnds, Zenon
    <3>3. q.writes \intersect Cells(s) = {}
      BY <2>4, <2>5, <3>2, OutsideCells, Zenon
    <3> QED
      BY <3>1, <3>2, <3>3, Zenon
  <2> QED
    BY <2>5, <2>6, <2>7, <2>8, Zenon
<1> QED
  BY <1>1, StagedInvariant, PTL

\* Until the kernel has run a request, what it will read is what the application
\* asked for.
THEOREM KernelIsAskedRight == Spec => []KernelReadsWhatWasAsked
<1>1. ASSUME StagedInv PROVE KernelReadsWhatWasAsked
  <2>1. SUFFICES ASSUME NEW n \in RequestId, req[n].phase = "prepared" \/ req[n].kernel = "running",
                        NEW a, a = req[n].args, NEW q, q = Sqe(a)
                 PROVE  /\ Does(q) \in {a.asked, "other"}
                        /\ q.names = a.paths
                        /\ \A i \in DOMAIN q.parts : \A c \in q.parts[i].cells :
                             mem[c[1]][c[2]] = <<q.parts[i].tag, n>>
                        /\ \A i \in DOMAIN a.paths :
                             ScanEnd(a.paths[i], mem[a.paths[i]]) = paths[a.paths[i]]
    BY Zenon DEF KernelReadsWhatWasAsked
  <2>2. Active(req[n])
    BY <2>1, Zenon DEF Active
  <2>3. Sound(req[n]) /\ Remembers(req[n], n, mem)
    BY <1>1, Zenon DEF StagedInv, MemoryInv
  <2>4. WellFormed(a) /\ NewError(a) = "ok"
    BY <2>1, <2>2, <2>3, Accepted, Zenon
  <2>5. Does(q) \in {a.asked, "other"} /\ q.names = a.paths
    BY <2>1, <2>4, AsksForIt, EntryFits, Zenon DEF Fitting
  <2>6. \A i \in DOMAIN q.parts : \A c \in q.parts[i].cells : mem[c[1]][c[2]] = <<q.parts[i].tag, n>>
    BY <2>1, <2>3, Zenon DEF Remembers
  <2>7. \A i \in DOMAIN a.paths : ScanEnd(a.paths[i], mem[a.paths[i]]) = paths[a.paths[i]]
    BY <1>1, <2>1, <2>2, PathEnds, Zenon
  <2> QED
    BY <2>5, <2>6, <2>7, Zenon
<1> QED
  BY <1>1, StagedInvariant, PTL

\* What a completed request presents was written by the kernel for it.
THEOREM AnswersAreFresh == Spec => []ExposedIsThisRequests
<1>1. ASSUME StagedInv PROVE ExposedIsThisRequests
  BY <1>1, Zenon DEF StagedInv, MemoryInv, Remembers, Answers, ExposedIsThisRequests
<1> QED
  BY <1>1, StagedInvariant, PTL

\* A completed request reports what happened.
THEOREM OutcomesAreTrue == Spec => []OutcomeIsWhatHappened
<1>1. ASSUME StagedInv PROVE OutcomeIsWhatHappened
  BY <1>1, Zenon DEF StagedInv, Sound, OutcomeIsWhatHappened
<1> QED
  BY <1>1, StagedInvariant, PTL

\* Open descriptors that were not lost have one owner.
THEOREM DescriptorsHaveOneOwner == Spec => []DescriptorsOwnedOnce
<1>1. ASSUME StagedInv PROVE DescriptorsOwnedOnce
  <2>1. PICK waiting : waiting = [n \in RequestId |-> Waiting(req[n])]
    BY Zenon
  <2>2. Accounted(fds, files, lost, waiting)
    BY <1>1, <2>1, Zenon DEF StagedInv, DescriptorInv
  <2>3. ASSUME NEW n \in RequestId, NEW fd
        PROVE  req[n].phase = "pending" /\ fd \in Unclaimed(n, req[n].cqes) <=> fd \in waiting[n]
    BY <2>1, Zenon DEF Unclaimed, Waiting, Brings
  <2>4. /\ \A f \in files : f[1] \in fds \ lost
        /\ \A f, g \in files : f[1] = g[1] => f = g
        /\ \A n \in RequestId, f \in files : f[1] \notin waiting[n]
        /\ \A n, m \in RequestId : n # m => waiting[n] \intersect waiting[m] = {}
        /\ \A fd \in fds \ lost : (\E f \in files : f[1] = fd) \/ (\E n \in RequestId : fd \in waiting[n])
    BY <2>2, Zenon DEF Accounted
  <2> DEFINE tickets(fd) ==
               {n \in RequestId : req[n].phase = "pending" /\ fd \in Unclaimed(n, req[n].cqes)}
             objects(fd) == {f \in files : f[1] = fd}
  <2>5. ASSUME NEW fd \in fds \ lost
        PROVE  \/ tickets(fd) = {} /\ \E f \in files : objects(fd) = {f}
               \/ objects(fd) = {} /\ \E n \in RequestId : tickets(fd) = {n}
    <3>1. \A n : n \in tickets(fd) <=> n \in RequestId /\ fd \in waiting[n]
      BY <2>3, Zenon
    <3>2. \A f : f \in objects(fd) <=> f \in files /\ f[1] = fd
      BY Zenon
    <3> HIDE DEF tickets, objects
    <3>3. CASE \E f \in files : f[1] = fd
      <4>1. PICK f \in files : f[1] = fd
        BY <3>3
      <4>2. objects(fd) = {f}
        <5>1. \A g \in files : g[1] = fd => g = f
          BY <2>4, <4>1
        <5>2. \A g : g \in objects(fd) <=> g = f
          BY <3>2, <4>1, <5>1, Zenon
        <5> QED
          BY <5>2
      <4>3. tickets(fd) = {}
        BY <2>4, <3>1, <4>1, Zenon
      <4> QED
        BY <4>2, <4>3, Zenon
    <3>4. CASE ~ \E f \in files : f[1] = fd
      <4>1. PICK n \in RequestId : fd \in waiting[n]
        BY <2>4, <2>5, <3>4, Zenon
      <4>2. tickets(fd) = {n}
        <5>1. \A m \in RequestId : fd \in waiting[m] => m = n
          BY <2>4, <4>1
        <5>2. \A m : m \in tickets(fd) <=> m = n
          BY <3>1, <4>1, <5>1, Zenon
        <5> QED
          BY <5>2
      <4>3. objects(fd) = {}
        BY <3>2, <3>4, Zenon
      <4> QED
        BY <4>2, <4>3, Zenon
    <3> QED
      BY <3>3, <3>4
  <2> QED
    BY <2>4, <2>5, Zenon DEF DescriptorsOwnedOnce
<1> QED
  BY <1>1, StagedInvariant, PTL

-----------------------------------------------------------------------------
\* The requests lend their storage.

\* The kernel may touch the memory of request r.
Uses(r) == r.kernel \in {"running", "notify"}

\* t has its storage where r had it, as far as tickets and the kernel go.
LendsAlike(r, t) ==
  /\ t.phase = "pending" <=> r.phase = "pending"
  /\ Uses(t) <=> Uses(r)
  /\ r.phase = "pending" \/ Uses(r) => t.args = r.args

\* The kernel is done with r, which has become t.
DoneWith(r, t) ==
  /\ Uses(r) /\ ~Uses(t)
  /\ t.phase = "pending" <=> r.phase = "pending"
  /\ r.phase = "pending" => t.args = r.args

\* Whose storage tickets and the kernel have, before a step and after it.
LEMMA InHands ==
  ASSUME NEW s
  PROVE  /\ s \in TicketStorage <=> \E m \in RequestId : req[m].phase = "pending" /\ s \in Owned(req[m].args)
         /\ s \in KernelStorage <=> \E m \in RequestId : Uses(req[m]) /\ s \in Owned(req[m].args)
         /\ s \in TicketStorage' <=> \E m \in RequestId : req'[m].phase = "pending" /\ s \in Owned(req'[m].args)
         /\ s \in KernelStorage' <=> \E m \in RequestId : Uses(req'[m]) /\ s \in Owned(req'[m].args)
         /\ s \in CallerStorage <=> s \in Storage /\ holder[s] # -1 /\ s \notin TicketStorage
         /\ s \in CallerStorage' <=> s \in Storage /\ holder'[s] # -1 /\ s \notin TicketStorage'
<1>1. s \in TicketStorage <=> \E m \in RequestId : req[m].phase = "pending" /\ s \in Owned(req[m].args)
  BY Zenon DEF TicketStorage
<1>2. s \in KernelStorage <=> \E m \in RequestId : Uses(req[m]) /\ s \in Owned(req[m].args)
  BY Zenon DEF KernelStorage, InKernel, Uses
<1>3. s \in TicketStorage' <=> \E m \in RequestId : req'[m].phase = "pending" /\ s \in Owned(req'[m].args)
  BY Zenon DEF TicketStorage
<1>4. s \in KernelStorage' <=> \E m \in RequestId : Uses(req'[m]) /\ s \in Owned(req'[m].args)
  BY Zenon DEF KernelStorage, InKernel, Uses
<1>5. s \in CallerStorage <=> s \in Storage /\ holder[s] # -1 /\ s \notin TicketStorage
  BY Zenon DEF CallerStorage
<1>6. s \in CallerStorage' <=> s \in Storage /\ holder'[s] # -1 /\ s \notin TicketStorage'
  BY Zenon DEF CallerStorage
<1> QED
  BY <1>1, <1>2, <1>3, <1>4, <1>5, <1>6, Zenon

\* Storage of a request whose ticket or whose entry is out.
LEMMA OutIsActive ==
  ASSUME StagedInv, NEW n \in RequestId, req[n].phase \in {"prepared", "pending"} \/ Uses(req[n])
  PROVE  /\ Active(req[n]) /\ Sound(req[n]) /\ Owned(req[n].args) \subseteq Storage
         /\ req[n].phase # "gone" => \A s \in Owned(req[n].args) : holder[s] = n /\ holder[s] # -1
         /\ \A m \in RequestId : m # n /\ (req[m].phase = "pending" \/ Uses(req[m])) =>
              Owned(req[n].args) \intersect Owned(req[m].args) = {}
<1>1. Active(req[n])
  BY DEF Active, Uses
<1>2. Sound(req[n]) /\ Has(req[n], n, holder, paths)
  BY Zenon DEF StagedInv, HeldInv
<1>3. Owned(req[n].args) \subseteq Storage
  BY <1>1, <1>2, Accepted, Storages, Zenon
<1>4. n # -1
  BY StagedAssumption DEF RequestId
<1>5. req[n].phase # "gone" => \A s \in Owned(req[n].args) : holder[s] = n /\ holder[s] # -1
  BY <1>1, <1>2, <1>4, Zenon DEF Has
<1>6. \A m \in RequestId : req[m].phase = "pending" \/ Uses(req[m]) => Active(req[m])
  BY DEF Active, Uses
<1>7. \A m \in RequestId : m # n => Apart(req[n], req[m])
  BY Zenon DEF StagedInv, HeldInv
<1> QED
  BY <1>1, <1>2, <1>3, <1>5, <1>6, <1>7, Zenon DEF Apart

\* Steps that lend nothing, finish nothing and give nothing back.
LEMMA LendsNothing ==
  ASSUME \A m \in RequestId : LendsAlike(req[m], req'[m]),
         \A s \in Storage : holder'[s] = -1 <=> holder[s] = -1
  PROVE  UNCHANGED <<CallerStorage, KernelStorage>>
<1>1. \A s : s \in TicketStorage' <=> s \in TicketStorage
  BY InHands, Zenon DEF LendsAlike
<1>2. \A s : s \in KernelStorage' <=> s \in KernelStorage
  BY InHands, Zenon DEF LendsAlike
<1>3. \A s : s \in CallerStorage' <=> s \in CallerStorage
  BY <1>1, InHands, Zenon
<1>4. CallerStorage' = CallerStorage /\ KernelStorage' = KernelStorage
  BY <1>2, <1>3, Zenon
<1> QED
  BY <1>4, Zenon

\* Requests that the kernel is done with.
LEMMA KernelFinishes ==
  ASSUME StagedInv, NEW ended \in SUBSET RequestId, \A m \in RequestId \ ended : LendsAlike(req[m], req'[m]),
         \A m \in ended : DoneWith(req[m], req'[m]), holder' = holder
  PROVE  Lent!Next
<1> DEFINE set == UNION {Owned(req[m].args) : m \in ended}
<1>1. \A s : s \in set <=> \E m \in ended : s \in Owned(req[m].args)
  BY Zenon
<1> HIDE DEF set
<1>2. set \subseteq Storage
  BY <1>1, OutIsActive, Zenon DEF DoneWith
<1>3. set \subseteq KernelStorage
  BY <1>1, InHands, Zenon DEF DoneWith
<1>4. \A s : s \in TicketStorage' <=> s \in TicketStorage
  BY InHands, Zenon DEF LendsAlike, DoneWith
<1>5. CallerStorage' = CallerStorage
  <2>1. \A s : s \in CallerStorage' <=> s \in CallerStorage
    BY <1>4, InHands, Zenon
  <2> QED
    BY <2>1, Zenon
<1>6. ASSUME NEW s PROVE s \in KernelStorage' <=> s \in KernelStorage /\ s \notin set
  <2>1. ASSUME s \in KernelStorage' PROVE s \in KernelStorage /\ s \notin set
    <3>1. PICK m \in RequestId : Uses(req'[m]) /\ s \in Owned(req'[m].args)
      BY <2>1, InHands, Zenon
    <3>2. m \notin ended /\ Uses(req[m]) /\ s \in Owned(req[m].args)
      BY <3>1, Zenon DEF LendsAlike, DoneWith
    <3>3. ASSUME NEW k \in ended PROVE s \notin Owned(req[k].args)
      BY <3>2, <3>3, OutIsActive, Zenon DEF DoneWith
    <3> QED
      BY <1>1, <3>2, <3>3, InHands, Zenon
  <2>2. ASSUME s \in KernelStorage, s \notin set PROVE s \in KernelStorage'
    <3>1. PICK m \in RequestId : Uses(req[m]) /\ s \in Owned(req[m].args)
      BY <2>2, InHands, Zenon
    <3>2. m \notin ended
      BY <1>1, <2>2, <3>1, Zenon
    <3>3. Uses(req'[m]) /\ s \in Owned(req'[m].args)
      BY <3>1, <3>2, Zenon DEF LendsAlike
    <3> QED
      BY <3>3, InHands, Zenon
  <2> QED
    BY <2>1, <2>2, Zenon
<1>7. KernelStorage' = KernelStorage \ set
  BY <1>6, Zenon
<1>8. Lent!Finish(set)
  BY <1>3, <1>5, <1>7, Zenon DEF Lent!Finish
<1> QED
  BY <1>2, <1>8, Zenon DEF Lent!Next

\* A push lends.
LEMMA PushLends ==
  ASSUME StagedInv, NEW n \in RequestId, Push(n)
  PROVE  Lent!Next
<1>1. PICK t : t = [req[n] EXCEPT !.phase = "pending", !.kernel = "running"]
  BY Zenon
<1>2. req' = [req EXCEPT ![n] = t] /\ holder' = holder
  BY <1>1, Zenon DEF Push
<1>3. Sound(req[n]) /\ req[n].phase = "prepared"
  BY Zenon DEF StagedInv, Push
<1>4. t.phase = "pending" /\ t.args = req[n].args /\ t.kernel = "running"
  BY <1>1, <1>3, SoundPush, Zenon
<1>5. req'[n] = t /\ \A m \in RequestId : m # n => req'[m] = req[m]
  BY <1>2, Replaced, Zenon
<1>6. Uses(t) /\ req[n].phase # "pending" /\ req[n].phase # "gone" /\ ~Uses(req[n])
  <2>1. req[n].kernel = "idle"
    BY <1>3, Zenon DEF Sound
  <2> QED
    BY <1>3, <1>4, <2>1 DEF Uses
<1>7. PICK set : set = Owned(req[n].args)
  BY Zenon
<1>8. /\ set \subseteq Storage /\ \A s \in set : holder[s] # -1
      /\ \A m \in RequestId : m # n /\ (req[m].phase = "pending" \/ Uses(req[m])) => set \intersect Owned(req[m].args) = {}
  <2>1. req[n].phase \in {"prepared", "pending"} \/ Uses(req[n])
    BY <1>3
  <2> QED
    BY <1>6, <1>7, <2>1, OutIsActive, Zenon
<1>9. set \subseteq CallerStorage
  <2>1. ASSUME NEW s \in set PROVE s \notin TicketStorage
    BY <1>6, <1>8, InHands, Zenon
  <2> QED
    BY <1>8, <2>1, InHands, Zenon
<1>10. \A s : s \in TicketStorage' <=> s \in TicketStorage \/ s \in set
  BY <1>4, <1>5, <1>6, <1>7, InHands, Zenon
<1>11. \A s : s \in KernelStorage' <=> s \in KernelStorage \/ s \in set
  BY <1>4, <1>5, <1>6, <1>7, InHands, Zenon
<1>12. \A s : s \in CallerStorage' <=> s \in CallerStorage /\ s \notin set
  BY <1>2, <1>10, InHands, Zenon
<1>13. CallerStorage' = CallerStorage \ set /\ KernelStorage' = KernelStorage \cup set
  BY <1>11, <1>12, Zenon
<1>14. Lent!Lend(set)
  BY <1>9, <1>13, Zenon DEF Lent!Lend
<1> QED
  BY <1>8, <1>14, Zenon DEF Lent!Next

\* A ticket redeemed, or a multishot request's last completion recorded, gives
\* the storage back.
LEMMA TicketGivesBack ==
  ASSUME StagedInv, NEW n \in RequestId, req[n].phase = "pending", ~Uses(req[n]),
         req'[n].phase # "pending", ~Uses(req'[n]),
         \A m \in RequestId : m # n => req'[m] = req[m], holder' = holder
  PROVE  Lent!Next
<1>1. PICK set : set = Owned(req[n].args)
  BY Zenon
<1>2. /\ set \subseteq Storage /\ \A s \in set : holder[s] # -1
      /\ \A m \in RequestId : m # n /\ (req[m].phase = "pending" \/ Uses(req[m])) => set \intersect Owned(req[m].args) = {}
  <2>1. req[n].phase \in {"prepared", "pending"} /\ req[n].phase # "gone"
    OBVIOUS
  <2> QED
    BY <1>1, <2>1, OutIsActive, Zenon
<1>3. set \cap KernelStorage = {}
  <2>1. ASSUME NEW s \in set PROVE s \notin KernelStorage
    BY <1>2, InHands, Zenon
  <2> QED
    BY <2>1, Zenon
<1>4. KernelStorage' = KernelStorage
  <2>1. \A s : s \in KernelStorage' <=> s \in KernelStorage
    BY InHands, Zenon
  <2> QED
    BY <2>1, Zenon
<1>5. ASSUME NEW s PROVE s \in TicketStorage' <=> s \in TicketStorage /\ s \notin set
  <2>1. ASSUME s \in TicketStorage' PROVE s \in TicketStorage /\ s \notin set
    <3>1. PICK m \in RequestId : req'[m].phase = "pending" /\ s \in Owned(req'[m].args)
      BY <2>1, InHands, Zenon
    <3>2. m # n /\ req[m].phase = "pending" /\ s \in Owned(req[m].args)
      BY <3>1, Zenon
    <3> QED
      BY <1>2, <3>2, InHands, Zenon
  <2>2. ASSUME s \in TicketStorage, s \notin set PROVE s \in TicketStorage'
    <3>1. PICK m \in RequestId : req[m].phase = "pending" /\ s \in Owned(req[m].args)
      BY <2>2, InHands, Zenon
    <3>2. m # n
      BY <1>1, <2>2, <3>1, Zenon
    <3> QED
      BY <3>1, <3>2, InHands, Zenon
  <2> QED
    BY <2>1, <2>2, Zenon
<1>6. \A s : s \in CallerStorage' <=> s \in CallerStorage \/ s \in set
  BY <1>2, <1>5, InHands, Zenon
<1>7. CallerStorage' = CallerStorage \cup set
  BY <1>6, Zenon
<1>8. Lent!GiveBack(set)
  BY <1>3, <1>4, <1>7, Zenon DEF Lent!GiveBack
<1> QED
  BY <1>2, <1>8, Zenon DEF Lent!Next

\* A ticket dropped gives nothing back, and takes nothing from the kernel.
LEMMA DropLendsNothing ==
  ASSUME StagedInv, NEW n \in RequestId, DropTicket(n)
  PROVE  UNCHANGED <<CallerStorage, KernelStorage>>
<1>1. PICK t : t = IF req[n].kernel = "over" THEN Gone ELSE [req[n] EXCEPT !.phase = "gone", !.cqes = <<>>]
  BY Zenon
<1>2. req' = [req EXCEPT ![n] = t] /\ Hand(Owned(req[n].args), -1) /\ req[n].phase = "pending"
  BY <1>1, Zenon DEF DropTicket
<1>3. req'[n] = t /\ \A m \in RequestId : m # n => req'[m] = req[m]
  BY <1>2, Replaced, Zenon
<1>4. t.phase # "pending" /\ (Uses(t) <=> Uses(req[n])) /\ (Uses(t) => t.args = req[n].args)
  <2>1. CASE req[n].kernel = "over"
    <3>1. t = Gone
      BY <1>1, <2>1, Zenon
    <3>2. t.phase = "gone" /\ t.kernel = "over"
      BY <3>1, FollowsGone, Zenon
    <3> QED
      BY <2>1, <3>2 DEF Uses
  <2>2. CASE req[n].kernel # "over"
    <3>1. t = [req[n] EXCEPT !.phase = "gone", !.cqes = <<>>]
      BY <1>1, <2>2, Zenon
    <3>2. req[n] \in RequestState
      BY Zenon DEF StagedInv, Sound
    <3>3. t.phase = "gone" /\ t.kernel = req[n].kernel /\ t.args = req[n].args
      BY <3>1, <3>2, Zenon DEF RequestState
    <3> QED
      BY <3>3 DEF Uses
  <2> QED
    BY <2>1, <2>2, Zenon
<1>5. KernelStorage' = KernelStorage
  <2>1. \A s : s \in KernelStorage' <=> s \in KernelStorage
    BY <1>3, <1>4, InHands, Zenon
  <2> QED
    BY <2>1, Zenon
<1>6. ASSUME NEW s PROVE s \in CallerStorage' <=> s \in CallerStorage
  <2>1. CASE s \in Owned(req[n].args)
    <3>1. s \in TicketStorage
      BY <1>2, <2>1, InHands, Zenon
    <3>2. s \in Storage => holder'[s] = -1
      BY <1>2, <2>1, Zenon DEF Hand
    <3> QED
      BY <3>1, <3>2, InHands, Zenon
  <2>2. CASE s \notin Owned(req[n].args)
    <3>1. s \in Storage => holder'[s] = holder[s]
      BY <1>2, <2>2, Zenon DEF Hand
    <3>2. s \in TicketStorage' <=> s \in TicketStorage
      BY <1>3, <1>4, <2>2, InHands, Zenon
    <3> QED
      BY <3>1, <3>2, InHands, Zenon
  <2> QED
    BY <2>1, <2>2, Zenon
<1>7. CallerStorage' = CallerStorage
  BY <1>6, Zenon
<1> QED
  BY <1>5, <1>7, Zenon

\* A request after a completion.
LEMMA PostedLends ==
  ASSUME NEW r, Sound(r), Uses(r), NEW cqe, NEW progress \in {"running", "notify", "over"},
         NEW t, t = Posted(r, cqe, progress)
  PROVE  IF progress = "over" THEN DoneWith(r, t) ELSE LendsAlike(r, t)
<1>1. r \in RequestState
  BY Zenon DEF Sound
<1>2. CASE r.phase = "pending"
  <2>1. t = [r EXCEPT !.kernel = progress, !.cqes = Append(r.cqes, cqe)]
    BY <1>2, Zenon DEF Posted
  <2>2. t.phase = r.phase /\ t.args = r.args /\ t.kernel = progress
    BY <1>1, <2>1, Zenon DEF RequestState
  <2> QED
    BY <1>2, <2>2 DEF Uses, LendsAlike, DoneWith
<1>3. CASE r.phase # "pending" /\ progress = "over"
  <2>1. t = Gone
    BY <1>3, Zenon DEF Posted
  <2>2. t.phase = "gone" /\ t.kernel = "over"
    BY <2>1, FollowsGone, Zenon
  <2> QED
    BY <1>3, <2>2 DEF Uses, DoneWith
<1>4. CASE r.phase # "pending" /\ progress # "over"
  <2>1. t = [r EXCEPT !.kernel = progress]
    BY <1>4, Zenon DEF Posted
  <2>2. t.phase = r.phase /\ t.args = r.args /\ t.kernel = progress
    BY <1>1, <2>1, Zenon DEF RequestState
  <2> QED
    BY <1>4, <2>2 DEF Uses, LendsAlike, DoneWith
<1> QED
  BY <1>2, <1>3, <1>4, Zenon

\* A completion that ends a request finishes with its storage; another one does
\* nothing to it.
LEMMA PostLends ==
  ASSUME StagedInv, NEW n \in RequestId, Uses(req[n]), NEW cqe, NEW progress \in {"running", "notify", "over"},
         Post(n, cqe, progress), holder' = holder
  PROVE  Lent!Next \/ UNCHANGED <<CallerStorage, KernelStorage>>
<1>1. PICK t : t = Posted(req[n], cqe, progress)
  BY Zenon
<1>2. req' = [req EXCEPT ![n] = t]
  BY <1>1, Zenon DEF Post
<1>3. req'[n] = t /\ \A m \in RequestId : m # n => req'[m] = req[m]
  BY <1>2, Replaced, Zenon
<1>4. Sound(req[n])
  BY Zenon DEF StagedInv
<1>5. IF progress = "over" THEN DoneWith(req[n], t) ELSE LendsAlike(req[n], t)
  BY <1>1, <1>4, PostedLends, Zenon
<1>6. \A m \in RequestId : m # n => LendsAlike(req[m], req'[m])
  BY <1>3, Zenon DEF LendsAlike
<1>7. CASE progress = "over"
  <2>1. {n} \in SUBSET RequestId
    BY Zenon
  <2>2. \A m \in RequestId \ {n} : LendsAlike(req[m], req'[m])
    BY <1>6, Zenon
  <2>3. \A m \in {n} : DoneWith(req[m], req'[m])
    BY <1>3, <1>5, <1>7, Zenon
  <2> QED
    BY <2>1, <2>2, <2>3, KernelFinishes, Zenon
<1>8. CASE progress # "over"
  <2>1. \A m \in RequestId : LendsAlike(req[m], req'[m])
    BY <1>3, <1>5, <1>6, <1>8, Zenon
  <2>2. \A s \in Storage : holder'[s] = -1 <=> holder[s] = -1
    BY Zenon
  <2> QED
    BY <2>1, <2>2, LendsNothing, Zenon
<1> QED
  BY <1>7, <1>8, Zenon

\* A cancellation finishes with its own storage and with that of all it stopped.
LEMMA CancelLends ==
  ASSUME StagedInv, NEW n \in RequestId, Cancel(n)
  PROVE  Lent!Next
<1>1. PICK stopped \in SUBSET Matched(n) : \E result, happened : Cancelled(n, stopped, result, happened)
  <2>1. CASE "ALL" \in Sqe(req[n].args).flags
    BY <2>1, Zenon DEF Cancel
  <2>2. CASE "ALL" \notin Sqe(req[n].args).flags
    <3>1. \/ \E m \in Matched(n) : Cancelled(n, {m}, 0, "Applied")
          \/ Cancelled(n, {}, -114, "AlreadyCompleting")
          \/ Cancelled(n, {}, -2, "NotFound")
      BY <2>2, Zenon DEF Cancel
    <3>2. {} \in SUBSET Matched(n) /\ \A m \in Matched(n) : {m} \in SUBSET Matched(n)
      BY Zenon
    <3> QED
      BY <3>1, <3>2, Zenon
  <2> QED
    BY <2>1, <2>2, Zenon
<1>2. Uses(req[n]) /\ holder' = holder
  BY DEF Cancel, Uses
<1>3. ASSUME NEW m \in stopped PROVE m \in RequestId /\ Uses(req[m])
  <2>1. m \in RequestId /\ req[m].kernel = "running"
    BY <1>1, <1>3, Zenon DEF Matched
  <2> QED
    BY <2>1 DEF Uses
<1>4. \A m \in RequestId : Sound(req[m])
  BY Zenon DEF StagedInv
<1>5. PICK ended : ended = stopped \union {n}
  BY Zenon
<1>6. ended \in SUBSET RequestId /\ \A m \in ended : Uses(req[m])
  BY <1>2, <1>3, <1>5, Zenon
<1>7. \A m \in ended : \E cqe : req'[m] = Posted(req[m], cqe, "over")
  BY <1>1, <1>5, <1>6, Zenon DEF Cancelled
<1>8. "over" \in {"running", "notify", "over"}
  OBVIOUS
<1>9. \A m \in ended : DoneWith(req[m], req'[m])
  BY <1>4, <1>6, <1>7, <1>8, PostedLends, Zenon
<1>10. \A m \in RequestId \ ended : req'[m] = req[m]
  BY <1>1, <1>5, Zenon DEF Cancelled
<1>11. \A m \in RequestId \ ended : LendsAlike(req[m], req'[m])
  BY <1>10, Zenon DEF LendsAlike
<1> QED
  BY <1>2, <1>6, <1>9, <1>11, KernelFinishes, Zenon

\* A step that changes one request, and not where it has its storage.
LEMMA OneLendsNothing ==
  ASSUME StagedInv, NEW n \in RequestId, NEW t, req' = [req EXCEPT ![n] = t], LendsAlike(req[n], t),
         \A s \in Storage : holder'[s] = -1 <=> holder[s] = -1
  PROVE  UNCHANGED <<CallerStorage, KernelStorage>>
<1>1. req'[n] = t /\ \A m \in RequestId : m # n => req'[m] = req[m]
  BY Replaced, Zenon
<1>2. \A m \in RequestId : LendsAlike(req[m], req'[m])
  BY <1>1, Zenon DEF LendsAlike
<1> QED
  BY <1>2, LendsNothing, Zenon

\* A constructor lends nothing,
LEMMA PrepareLendsNothing ==
  ASSUME StagedInv, NEW n \in RequestId, NEW a \in Arguments, Prepare(n, a)
  PROVE  UNCHANGED <<CallerStorage, KernelStorage>>
<1>1. PICK t : t = Prepared(req[n], a)
  BY Zenon
<1>2. req' = [req EXCEPT ![n] = t] /\ Hand(Owned(a), n) /\ Movable(a)
  BY <1>1, Zenon DEF Prepare, Prepared
<1>3. Sound(req[n]) /\ req[n].phase = "unused" /\ NewError(a) = "ok"
  BY Zenon DEF StagedInv, Prepare
<1>4. t.phase = "prepared" /\ t.kernel = "idle"
  BY <1>1, <1>3, SoundPrepare
<1>5. req[n] = Unused
  BY <1>3, Zenon DEF Sound
<1>6. LendsAlike(req[n], t)
  <2>1. Unused.phase = "unused" /\ Unused.kernel = "idle"
    BY DEF Unused
  <2> QED
    BY <1>4, <1>5, <2>1 DEF LendsAlike, Uses
<1>7. n # -1 /\ 0 # -1
  BY StagedAssumption DEF RequestId
<1>8. \A s \in Storage : holder'[s] = IF s \in Owned(a) THEN n ELSE holder[s]
  BY <1>2, Zenon DEF Hand
<1>9. \A s \in Owned(a) : holder[s] = 0
  BY <1>2, Zenon DEF Movable
<1>10. \A s \in Storage : holder'[s] = -1 <=> holder[s] = -1
  BY <1>7, <1>8, <1>9
<1> QED
  BY <1>2, <1>6, <1>10, OneLendsNothing, Zenon

\* nor does taking a request apart that was not pushed or has completed,
LEMMA PartsLendNothing ==
  ASSUME StagedInv, NEW n \in RequestId, Abandon(n) \/ IntoParts(n)
  PROVE  UNCHANGED <<CallerStorage, KernelStorage>>
<1>1. req' = [req EXCEPT ![n] = Gone] /\ Hand(Owned(req[n].args), 0) /\ req[n].phase \in {"prepared", "done"}
  <2>1. CASE Abandon(n)
    BY <2>1 DEF Abandon
  <2>2. CASE IntoParts(n)
    BY <2>2 DEF IntoParts
  <2> QED
    BY <2>1, <2>2, Zenon
<1>2. Sound(req[n]) /\ Has(req[n], n, holder, paths)
  BY Zenon DEF StagedInv, HeldInv
<1>3. req[n].phase # "pending" /\ req[n].phase # "gone" /\ ~Uses(req[n]) /\ Active(req[n])
  <2>1. req[n].kernel \in {"idle", "over"}
    <3>1. CASE req[n].phase = "prepared"
      BY <1>2, <3>1, Zenon DEF Sound
    <3>2. CASE req[n].phase = "done"
      BY <1>2, <3>2, Zenon DEF Sound
    <3> QED
      BY <1>1, <3>1, <3>2
  <2> QED
    BY <1>1, <2>1 DEF Uses, Active
<1>4. LendsAlike(req[n], Gone)
  <2>1. Gone.phase = "gone" /\ Gone.kernel = "over"
    BY FollowsGone, Zenon
  <2>2. Gone.phase # "pending" /\ ~Uses(Gone)
    BY <2>1 DEF Uses
  <2> QED
    BY <1>3, <2>2, Zenon DEF LendsAlike
<1>5. n # -1 /\ 0 # -1
  BY StagedAssumption DEF RequestId
<1>6. \A s \in Storage : holder'[s] = IF s \in Owned(req[n].args) THEN 0 ELSE holder[s]
  BY <1>1, Zenon DEF Hand
<1>7. \A s \in Owned(req[n].args) : holder[s] = n
  BY <1>2, <1>3, Zenon DEF Has
<1>8. \A s \in Storage : holder'[s] = -1 <=> holder[s] = -1
  BY <1>5, <1>6, <1>7
<1> QED
  BY <1>1, <1>4, <1>8, OneLendsNothing, Zenon

\* nor does taking a completion of a ticket that stays.
LEMMA RestLendsNothing ==
  ASSUME StagedInv, NEW n \in RequestId, NEW t, req' = [req EXCEPT ![n] = t], holder' = holder,
         t.phase = req[n].phase, t.args = req[n].args, t.kernel = req[n].kernel
  PROVE  UNCHANGED <<CallerStorage, KernelStorage>>
<1>1. LendsAlike(req[n], t)
  BY Zenon DEF LendsAlike, Uses
<1>2. \A s \in Storage : holder'[s] = -1 <=> holder[s] = -1
  BY Zenon
<1> QED
  BY <1>1, <1>2, OneLendsNothing, Zenon

\* record_sent, and an event dropped unread.
LEMMA EventLendsNothing ==
  ASSUME StagedInv, NEW n \in RequestId, RecordSent(n) \/ DropEvent(n)
  PROVE  UNCHANGED <<CallerStorage, KernelStorage>>
<1>1. req[n] \in RequestState
  BY Zenon DEF StagedInv, Sound
<1>2. CASE RecordSent(n)
  <2>1. PICK t : t = [req[n] EXCEPT !.sent = <<Oldest(n).result>>, !.cqes = Tail(req[n].cqes)]
    BY Zenon
  <2>2. req' = [req EXCEPT ![n] = t] /\ holder' = holder
    BY <1>2, <2>1, Zenon DEF RecordSent
  <2>3. t.phase = req[n].phase /\ t.args = req[n].args /\ t.kernel = req[n].kernel
    BY <1>1, <2>1, Zenon DEF RequestState
  <2> QED
    BY <2>2, <2>3, RestLendsNothing, Zenon
<1>3. CASE DropEvent(n)
  <2>1. PICK t : t = [req[n] EXCEPT !.cqes = Tail(req[n].cqes), !.missed = TRUE]
    BY Zenon
  <2>2. req' = [req EXCEPT ![n] = t] /\ holder' = holder
    BY <1>3, <2>1, Zenon DEF DropEvent
  <2>3. t.phase = req[n].phase /\ t.args = req[n].args /\ t.kernel = req[n].kernel
    BY <1>1, <2>1, Zenon DEF RequestState
  <2> QED
    BY <2>2, <2>3, RestLendsNothing, Zenon
<1> QED
  BY <1>2, <1>3, Zenon

\* The kernel is done with a request whose terminal completion has arrived.
LEMMA LastMeansDone ==
  ASSUME StagedInv, NEW n \in RequestId, Arrived(n, FALSE)
  PROVE  req[n].phase = "pending" /\ req[n].kernel = "over" /\ ~Uses(req[n])
<1>1. /\ Sound(req[n]) /\ req[n].phase = "pending" /\ req[n].cqes # <<>> /\ req[n].cqes \in Seq(Completion)
      /\ Head(req[n].cqes).more = FALSE
  BY ArrivedMeans, Zenon
<1>2. 1 \in DOMAIN req[n].cqes /\ Head(req[n].cqes) = req[n].cqes[1]
  BY <1>1, HeadAndTail, Zenon
<1>3. req[n].kernel = "over"
  BY <1>1, <1>2, SoundPending, Zenon
<1> QED
  BY <1>1, <1>3 DEF Uses

\* redeem.
LEMMA RedeemGivesBack ==
  ASSUME StagedInv, NEW n \in RequestId, Redeem(n)
  PROVE  Lent!Next
<1>1. req[n].phase = "pending" /\ req[n].kernel = "over" /\ ~Uses(req[n])
  BY LastMeansDone, Zenon DEF Redeem
<1>2. PICK t : t = [req[n] EXCEPT !.phase = "done", !.cqes = <<>>, !.last = <<Oldest(n)>>]
  BY Zenon
<1>3. req' = [req EXCEPT ![n] = t] /\ holder' = holder
  BY <1>2, Zenon DEF Redeem
<1>4. req'[n] = t /\ \A m \in RequestId : m # n => req'[m] = req[m]
  BY <1>3, Replaced, Zenon
<1>5. req[n] \in RequestState
  BY Zenon DEF StagedInv, Sound
<1>6. t.phase = "done" /\ t.kernel = req[n].kernel
  BY <1>2, <1>5, Zenon DEF RequestState
<1>7. t.phase # "pending" /\ ~Uses(t)
  BY <1>1, <1>6 DEF Uses
<1> QED
  BY <1>1, <1>3, <1>4, <1>7, TicketGivesBack, Zenon

\* MultishotAccept::record.
LEMMA RecordLends ==
  ASSUME StagedInv, NEW n \in RequestId, Record(n)
  PROVE  Lent!Next \/ UNCHANGED <<CallerStorage, KernelStorage>>
<1>1. PICK t : t = IF Oldest(n).more THEN [req[n] EXCEPT !.cqes = Tail(req[n].cqes)] ELSE Gone
  BY Zenon
<1>2. req' = [req EXCEPT ![n] = t] /\ holder' = holder
  <2>1. req' = [req EXCEPT ![n] = IF Oldest(n).more THEN [req[n] EXCEPT !.cqes = Tail(req[n].cqes)] ELSE Gone]
    BY DEF Record
  <2> QED
    BY <1>1, <2>1, Zenon DEF Record
<1>3. req[n] \in RequestState
  BY Zenon DEF StagedInv, Sound
<1>4. CASE Oldest(n).more
  <2>1. t = [req[n] EXCEPT !.cqes = Tail(req[n].cqes)]
    BY <1>1, <1>4, Zenon
  <2>2. t.phase = req[n].phase /\ t.args = req[n].args /\ t.kernel = req[n].kernel
    BY <1>3, <2>1, Zenon DEF RequestState
  <2> QED
    BY <1>2, <2>2, RestLendsNothing, Zenon
<1>5. CASE ~Oldest(n).more
  <2>1. Arrived(n, FALSE)
    BY <1>5, Zenon DEF Record, Arrived
  <2>2. req[n].phase = "pending" /\ ~Uses(req[n])
    BY <2>1, LastMeansDone, Zenon
  <2>3. t = Gone
    BY <1>1, <1>5, Zenon
  <2>4. t.phase = "gone" /\ t.kernel = "over"
    BY <2>3, FollowsGone, Zenon
  <2>5. t.phase # "pending" /\ ~Uses(t)
    BY <2>4 DEF Uses
  <2>6. req'[n] = t /\ \A m \in RequestId : m # n => req'[m] = req[m]
    BY <1>2, Replaced, Zenon
  <2> QED
    BY <1>2, <2>2, <2>5, <2>6, TicketGivesBack, Zenon
<1> QED
  BY <1>4, <1>5, Zenon

\* The kernel's steps but cancellation.
LEMMA KernelLends ==
  ASSUME StagedInv, NEW n \in RequestId,
         \/ \E cqe : Finish(n, cqe)
         \/ \E more \in BOOLEAN : Install(n, more)
         \/ InstallFails(n) \/ ZcSend(n) \/ ZcNotify(n)
  PROVE  Lent!Next \/ UNCHANGED <<CallerStorage, KernelStorage>>
<1>1. \E cqe : \E progress \in {"running", "notify", "over"} : Post(n, cqe, progress)
  <2>1. "running" \in {"running", "notify", "over"} /\ "notify" \in {"running", "notify", "over"}
        /\ "over" \in {"running", "notify", "over"}
    OBVIOUS
  <2>2. CASE \E cqe : Finish(n, cqe)
    BY <2>1, <2>2, Zenon DEF Finish
  <2>3. CASE \E more \in BOOLEAN : Install(n, more)
    BY <2>1, <2>3, Zenon DEF Install
  <2>4. CASE InstallFails(n) \/ ZcSend(n) \/ ZcNotify(n)
    BY <2>1, <2>4, Zenon DEF InstallFails, ZcSend, ZcNotify
  <2> QED
    BY <2>2, <2>3, <2>4, Zenon
<1>2. holder' = holder
  BY Zenon DEF Finish, Install, InstallFails, ZcSend, ZcNotify
<1>3. Uses(req[n])
  <2>1. req[n].kernel = "running" \/ req[n].kernel = "notify"
    BY Zenon DEF Finish, Install, InstallFails, ZcSend, ZcNotify
  <2> QED
    BY <2>1 DEF Uses
<1> QED
  BY <1>1, <1>2, <1>3, PostLends, Zenon

\* Every operation lends, finishes, gives back, or leaves storage where it is.
LEMMA LendingStep ==
  ASSUME StagedInv, [Next]_vars
  PROVE  Lent!Next \/ UNCHANGED <<CallerStorage, KernelStorage>>
<1>1. ASSUME UNCHANGED <<holder, req>> PROVE UNCHANGED <<CallerStorage, KernelStorage>>
  <2>1. req' = req /\ holder' = holder
    BY <1>1, Zenon
  <2>2. \A m \in RequestId : LendsAlike(req[m], req'[m])
    BY <2>1, Zenon DEF LendsAlike
  <2>3. \A s \in Storage : holder'[s] = -1 <=> holder[s] = -1
    BY <2>1, Zenon
  <2> QED
    BY <2>2, <2>3, LendsNothing, Zenon
<1>2. CASE Application
  <2>1. CASE \/ \E s \in Storage, len \in PathLens, interior \in BOOLEAN : CopyPath(s, len, interior)
             \/ \E s \in Storage : AdoptPath(s) \/ IntoStorage(s)
             \/ \E file \in files : CloseFile(file)
    <3>1. UNCHANGED <<holder, req>>
      BY <2>1, Zenon DEF CopyPath, AdoptPath, IntoStorage, CloseFile
    <3> QED
      BY <1>1, <3>1, Zenon
  <2>2. CASE \E n \in RequestId, a \in Arguments : Prepare(n, a)
    BY <2>2, PrepareLendsNothing, Zenon
  <2>3. ASSUME NEW n \in RequestId, Abandon(n) \/ IntoParts(n) \/ RecordSent(n) \/ DropEvent(n) \/ DropTicket(n)
        PROVE  UNCHANGED <<CallerStorage, KernelStorage>>
    BY <2>3, PartsLendNothing, EventLendsNothing, DropLendsNothing, Zenon
  <2>4. ASSUME NEW n \in RequestId, Push(n) \/ Record(n) \/ Redeem(n)
        PROVE  Lent!Next \/ UNCHANGED <<CallerStorage, KernelStorage>>
    BY <2>4, PushLends, RecordLends, RedeemGivesBack, Zenon
  <2> QED
    BY <1>2, <2>1, <2>2, <2>3, <2>4, Zenon DEF Application
<1>3. CASE Kernel
  BY <1>3, KernelLends, CancelLends, Zenon DEF Kernel
<1>4. CASE UNCHANGED vars
  BY <1>1, <1>4, Zenon DEF vars
<1> QED
  BY <1>2, <1>3, <1>4, Zenon DEF Next

\* Every kind of request keeps the promise of the owned API, for any storages and
\* any number of requests: storage leaves the caller before the kernel may touch
\* it, and comes back only when the kernel has finished with it.
THEOREM StagedRefinesLending == Spec => ImplementsLending
<1>1. Init => Lent!Init
  <2> SUFFICES ASSUME Init PROVE Lent!Init
    BY Zenon
  <2>1. \A m \in RequestId : req[m].phase # "pending" /\ ~Uses(req[m])
    <3>1. Unused.phase = "unused" /\ Unused.kernel = "idle"
      BY DEF Unused
    <3>2. Unused.phase # "pending" /\ ~Uses(Unused)
      BY <3>1 DEF Uses
    <3>3. \A m \in RequestId : req[m] = Unused
      BY Zenon DEF Init
    <3> QED
      BY <3>2, <3>3, Zenon
  <2>2. \A s : s \notin TicketStorage /\ s \notin KernelStorage
    BY <2>1, InHands, Zenon
  <2>3. \A s \in Storage : holder[s] # -1
    <3>1. 0 # -1
      OBVIOUS
    <3> QED
      BY <3>1, Zenon DEF Init
  <2>4. \A s : s \in CallerStorage <=> s \in Storage
    BY <2>2, <2>3, InHands, Zenon
  <2>5. CallerStorage = Storage /\ KernelStorage = {}
    BY <2>2, <2>4, Zenon
  <2> QED
    BY <2>5, Zenon DEF Lent!Init
<1>2. StagedInv /\ [Next]_vars => [Lent!Next]_<<CallerStorage, KernelStorage>>
  BY LendingStep, Zenon
<1> QED
  BY <1>1, <1>2, StagedInvariant, PTL DEF Spec, ImplementsLending, Lent!Spec

=============================================================================
