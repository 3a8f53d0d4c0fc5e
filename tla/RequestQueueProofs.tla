-------------------------- MODULE RequestQueueProofs --------------------------
(***************************************************************************)
(* Proofs about the request queue, for every set of tasks and every limit. *)
(* The invariants are inductive together with what asyncio's semaphore     *)
(* guarantees (NoIdlePermit): the ranges of the counters follow from what  *)
(* they count, and what the waiters are from their queue.                  *)
(***************************************************************************)
EXTENDS RequestQueue, FiniteSetTheorems, TLAPS

\* Nobody is blocked while a permit is free, and the semaphore's queue holds
\* exactly the blocked tasks, each once.
NoIdlePermit ==
    /\ permits > 0 => waiters = <<>>
    /\ InState("blocked") = {waiters[i] : i \in DOMAIN waiters}
    /\ \A i, j \in DOMAIN waiters : waiters[i] = waiters[j] => i = j

IInv == TypeOK /\ SlotsConserved /\ QueuedAccounted /\ NoIdlePermit

\* The number of tasks f has at place s.
Count(f, s) == Cardinality(At(f, s))

-----------------------------------------------------------------------------
\* Counting.

LEMMA CountType ==
    ASSUME NEW f, NEW s
    PROVE  IsFiniteSet(At(f, s)) /\ Count(f, s) \in Nat
<1>1. IsFiniteSet(At(f, s))
  BY LimitsAssumption, FS_Subset DEF At
<1> QED
  BY <1>1, FS_CardinalityType DEF Count

\* A task that moves is counted where it goes and no longer where it was.
Moves(f, g, r) ==
    /\ f \in [Request -> Place] /\ g \in [Request -> Place]
    /\ f[r] # g[r]
    /\ \A x \in Request \ {r} : g[x] = f[x]

LEMMA CountMove ==
    ASSUME NEW f, NEW g, NEW r \in Request, Moves(f, g, r)
    PROVE  \A s \in Place : 
             /\ s = g[r] => Count(g, s) = Count(f, s) + 1
             /\ s = f[r] => Count(g, s) = Count(f, s) - 1 /\ At(g, s) = At(f, s) \ {r}
             /\ s # g[r] /\ s # f[r] => Count(g, s) = Count(f, s) /\ At(g, s) = At(f, s)
<1> TAKE s \in Place
<1>1. CASE s = g[r]
  <2>1. At(g, s) = At(f, s) \cup {r} /\ r \notin At(f, s)
    BY <1>1 DEF At, Moves
  <2> QED
    BY <1>1, <2>1, CountType, FS_AddElement DEF Count, Moves
<1>2. CASE s = f[r]
  <2>1. At(g, s) = At(f, s) \ {r} /\ r \in At(f, s)
    BY <1>2 DEF At, Moves
  <2> QED
    BY <1>2, <2>1, CountType, FS_RemoveElement DEF Count, Moves
<1>3. CASE s # g[r] /\ s # f[r]
  <2>1. At(g, s) = At(f, s)
    BY <1>3 DEF At, Moves
  <2> QED
    BY <1>3, <2>1 DEF Count
<1> QED
  BY <1>1, <1>2, <1>3

\* IInv in terms of the counts of an arbitrary place function.
Slots(f, n, a) ==
    /\ n + Count(f, "handed") + Count(f, "running") = MaxConcurrent
    /\ a = Count(f, "running")
Line(f, n, w) ==
    /\ n > 0 => w = <<>>
    /\ At(f, "blocked") = {w[i] : i \in DOMAIN w}
    /\ \A i, j \in DOMAIN w : w[i] = w[j] => i = j

LEMMA Restated ==
    /\ SlotsConserved <=> Slots(pc, permits, active)
    /\ QueuedAccounted <=> queued = Count(pc, "blocked") + Count(pc, "handed") + leaked
    /\ NoIdlePermit <=> Line(pc, permits, waiters)
    /\ SlotsConserved' <=> Slots(pc', permits', active')
    /\ QueuedAccounted' <=>
          queued' = Count(pc', "blocked") + Count(pc', "handed") + leaked'
    /\ NoIdlePermit' <=> Line(pc', permits', waiters')
  BY DEF SlotsConserved, QueuedAccounted, NoIdlePermit, Slots, Line, Count, InState, At

-----------------------------------------------------------------------------
\* The semaphore's queue.

LEMMA DropElement ==
    ASSUME NEW w \in Seq(Request), NEW k \in DOMAIN w,
           \A i, j \in DOMAIN w : w[i] = w[j] => i = j
    PROVE  /\ Drop(w, k) \in Seq(Request)
           /\ {Drop(w, k)[i] : i \in DOMAIN Drop(w, k)}
                 = {w[i] : i \in DOMAIN w} \ {w[k]}
           /\ \A i, j \in DOMAIN Drop(w, k) : Drop(w, k)[i] = Drop(w, k)[j] => i = j
           /\ w = <<>> => Drop(w, k) = <<>>
<1> DEFINE n == Len(w)
           v == Drop(w, k)
<1>1. /\ n \in Nat /\ DOMAIN w = 1..n /\ k \in 1..n
      /\ \A i \in 1..n : w[i] \in Request
  OBVIOUS
<1>2. /\ DOMAIN v = 1..n - 1
      /\ \A i \in 1..n - 1 : v[i] = IF i < k THEN w[i] ELSE w[i + 1]
  BY <1>1 DEF Drop
<1>3. v \in Seq(Request)
  <2>1. v \in [1..n - 1 -> Request]
    BY <1>1 DEF Drop
  <2> QED
    BY <1>1, <2>1
<1>4. \A i \in 1..n - 1 : v[i] \in {w[j] : j \in 1..n} \ {w[k]}
  <2> TAKE i \in 1..n - 1
  <2>1. CASE i < k
    BY <1>1, <1>2, <2>1
  <2>2. CASE ~(i < k)
    <3>1. v[i] = w[i + 1] /\ i + 1 \in 1..n /\ i + 1 # k
      BY <1>1, <1>2, <2>2
    <3> QED
      BY <1>1, <3>1
  <2> QED
    BY <2>1, <2>2
<1>5. \A j \in 1..n : w[j] # w[k] => \E i \in 1..n - 1 : v[i] = w[j]
  <2> SUFFICES ASSUME NEW j \in 1..n, w[j] # w[k]
               PROVE  \E i \in 1..n - 1 : v[i] = w[j]
    OBVIOUS
  <2>1. CASE j < k
    <3>1. j \in 1..n - 1 /\ v[j] = w[j]
      BY <1>1, <1>2, <2>1
    <3> QED
      BY <3>1
  <2>2. CASE j > k
    <3>1. j - 1 \in 1..n - 1 /\ ~(j - 1 < k) /\ (j - 1) + 1 = j
      BY <1>1, <2>2
    <3>2. v[j - 1] = w[j]
      BY <1>2, <3>1
    <3> QED
      BY <3>1, <3>2
  <2> QED
    BY <1>1, <2>1, <2>2
<1>6. \A i, j \in 1..n - 1 : v[i] = v[j] => i = j
  BY <1>1, <1>2
<1>7. {v[i] : i \in 1..n - 1} = {w[i] : i \in 1..n} \ {w[k]}
  <2>1. \A x : x \in {v[i] : i \in 1..n - 1} => x \in {w[i] : i \in 1..n} \ {w[k]}
    BY <1>4
  <2>2. \A x : x \in {w[i] : i \in 1..n} \ {w[k]} => x \in {v[i] : i \in 1..n - 1}
    BY <1>5
  <2> QED
    BY <2>1, <2>2
<1>8. w # <<>>
  BY <1>1
<1> QED
  BY <1>1, <1>2, <1>3, <1>6, <1>7, <1>8

\* What is true of r's step when r leaves the queue or its slot.
Departs(r) ==
    /\ pc' \in [Request -> Place] /\ waiters' \in Seq(Request) /\ permits' \in Nat
    /\ permits' + Count(pc', "handed") + Count(pc', "running")
          = permits + Count(pc, "handed") + Count(pc, "running")
    /\ Count(pc', "running") = Count(pc, "running") - (IF pc[r] = "running" THEN 1 ELSE 0)
    /\ Count(pc', "blocked") + Count(pc', "handed")
          = Count(pc, "blocked") + Count(pc, "handed")
               - (IF pc[r] = "running" THEN 0 ELSE 1)
    /\ Line(pc', permits', waiters')

\* A permit that is given back is still there, in the pool or on its way to a
\* waiter, and the waiter that got it is no longer in the queue.
LEMMA GiveBackDeparts ==
    ASSUME IInv, NEW r \in Request, pc[r] \in {"handed", "running"}, GiveBack(r, "out")
    PROVE  Departs(r)
<1> DEFINE moved == [pc EXCEPT ![r] = "out"]
<1>1. /\ pc \in [Request -> Place] /\ permits \in Nat /\ waiters \in Seq(Request)
      /\ Line(pc, permits, waiters)
  BY LimitsAssumption, Restated DEF IInv, TypeOK
<1>2. /\ Count(pc, "blocked") \in Nat /\ Count(pc, "handed") \in Nat
      /\ Count(pc, "running") \in Nat
  BY CountType
<1>3. Moves(pc, moved, r)
  BY <1>1 DEF Moves, Place
<1>m. moved[r] = "out"
  BY <1>1
<1>4. /\ Count(moved, "blocked") = Count(pc, "blocked")
      /\ Count(moved, "handed") = Count(pc, "handed") - (IF pc[r] = "handed" THEN 1 ELSE 0)
      /\ Count(moved, "running") = Count(pc, "running") - (IF pc[r] = "running" THEN 1 ELSE 0)
      /\ At(moved, "blocked") = At(pc, "blocked")
  <2> HIDE DEF moved
  <2>1. CASE pc[r] = "handed"
    BY <1>2, <1>3, <1>m, <2>1, CountMove DEF Place
  <2>2. CASE pc[r] = "running"
    BY <1>2, <1>3, <1>m, <2>2, CountMove DEF Place
  <2> QED
    BY <2>1, <2>2
<1>5. CASE waiters = <<>>
  <2>1. pc' = moved /\ permits' = permits + 1 /\ waiters' = waiters
    BY <1>5 DEF GiveBack
  <2>2. pc' \in [Request -> Place]
    BY <1>3, <2>1 DEF Moves
  <2> HIDE DEF moved
  <2>3. Line(pc', permits', waiters')
    BY <1>1, <1>4, <1>5, <2>1 DEF Line
  <2>4. /\ Count(pc', "blocked") = Count(moved, "blocked")
        /\ Count(pc', "handed") = Count(moved, "handed")
        /\ Count(pc', "running") = Count(moved, "running")
    BY <2>1
  <2> QED
    BY <1>1, <1>2, <1>4, <2>1, <2>2, <2>3, <2>4 DEF Departs
<1>6. CASE waiters # <<>>
  <2> DEFINE h == Head(waiters)
  <2>1. /\ pc' = [moved EXCEPT ![h] = "handed"]
        /\ permits' = permits /\ waiters' = Tail(waiters)
    BY <1>6 DEF GiveBack
  <2>2. /\ h = waiters[1] /\ 1 \in DOMAIN waiters /\ h \in Request
        /\ Tail(waiters) \in Seq(Request)
        /\ \A i \in DOMAIN Tail(waiters) :
              i + 1 \in DOMAIN waiters /\ Tail(waiters)[i] = waiters[i + 1]
        /\ \A i \in DOMAIN waiters : i # 1 => i - 1 \in DOMAIN Tail(waiters)
        /\ DOMAIN waiters \subseteq Nat /\ DOMAIN Tail(waiters) \subseteq Nat \ {0}
    BY <1>1, <1>6
  <2>3. h \in At(pc, "blocked")
    BY <1>1, <2>2 DEF Line
  <2>4. h # r /\ moved[h] = "blocked"
    BY <1>1, <2>3 DEF At
  <2>5. Moves(moved, pc', h)
    BY <1>3, <2>1, <2>2, <2>4 DEF Moves, Place
  <2> HIDE DEF moved
  <2>6. /\ pc' \in [Request -> Place]
        /\ Count(pc', "handed") = Count(moved, "handed") + 1
        /\ Count(pc', "blocked") = Count(moved, "blocked") - 1
        /\ Count(pc', "running") = Count(moved, "running")
        /\ At(pc', "blocked") = At(moved, "blocked") \ {h}
    <3>1. pc' \in [Request -> Place]
      BY <2>5 DEF Moves
    <3>2. pc'[h] = "handed"
      BY <1>3, <2>1, <2>2 DEF Moves
    <3> QED
      BY <2>2, <2>4, <2>5, <3>1, <3>2, CountMove DEF Place
  <2>7. Line(pc', permits', waiters')
    <3>1. permits = 0
      BY <1>1, <1>6 DEF Line
    <3>2. \A i, j \in DOMAIN waiters : waiters[i] = waiters[j] => i = j
      BY <1>1 DEF Line
    <3>3. \A i, j \in DOMAIN Tail(waiters) :
             Tail(waiters)[i] = Tail(waiters)[j] => i = j
      BY <2>2, <3>2
    <3>4. {Tail(waiters)[i] : i \in DOMAIN Tail(waiters)}
             = {waiters[i] : i \in DOMAIN waiters} \ {h}
      <4>1. ASSUME NEW i \in DOMAIN Tail(waiters)
            PROVE  Tail(waiters)[i] \in {waiters[j] : j \in DOMAIN waiters} \ {h}
        BY <2>2, <3>2
      <4>2. ASSUME NEW i \in DOMAIN waiters, waiters[i] # h
            PROVE  \E j \in DOMAIN Tail(waiters) : Tail(waiters)[j] = waiters[i]
        <5>1. i # 1 /\ i - 1 \in DOMAIN Tail(waiters) /\ (i - 1) + 1 = i
          BY <2>2, <4>2
        <5>2. Tail(waiters)[i - 1] = waiters[i]
          BY <2>2, <5>1
        <5> QED
          BY <5>1, <5>2
      <4> QED
        BY <4>1, <4>2
    <3>5. At(pc', "blocked") = {waiters'[i] : i \in DOMAIN waiters'}
      <4>1. At(pc', "blocked") = {waiters[i] : i \in DOMAIN waiters} \ {h}
        BY <1>1, <1>4, <2>6 DEF Line
      <4> QED
        BY <2>1, <3>4, <4>1
    <3>6. \A i, j \in DOMAIN waiters' : waiters'[i] = waiters'[j] => i = j
      BY <2>1, <3>3
    <3>7. ~(permits' > 0)
      BY <2>1, <3>1
    <3> QED
      BY <3>5, <3>6, <3>7 DEF Line
  <2>8. /\ Count(pc', "blocked") = Count(pc, "blocked") - 1
        /\ Count(pc', "handed")
              = Count(pc, "handed") + 1 - (IF pc[r] = "handed" THEN 1 ELSE 0)
        /\ Count(pc', "running") = Count(pc, "running") - (IF pc[r] = "running" THEN 1 ELSE 0)
    BY <1>2, <1>4, <2>6
  <2>9. waiters' \in Seq(Request) /\ permits' = permits
    BY <2>1, <2>2
  <2>10. permits' + Count(pc', "handed") + Count(pc', "running")
          = permits + Count(pc, "handed") + Count(pc, "running")
    BY <1>1, <1>2, <2>8, <2>9
  <2>11. Count(pc', "blocked") + Count(pc', "handed")
          = Count(pc, "blocked") + Count(pc, "handed")
               - (IF pc[r] = "running" THEN 0 ELSE 1)
    BY <1>1, <1>2, <2>8
  <2>12. permits' \in Nat
    BY <1>1, <2>9
  <2> QED
    BY <2>6, <2>7, <2>8, <2>9, <2>10, <2>11, <2>12 DEF Departs
<1> QED
  BY <1>5, <1>6

\* The same of a task that stops waiting, wherever it stands in the queue.
LEMMA WithdrawDeparts ==
    ASSUME IInv, NEW r \in Request, Withdraw(r)
    PROVE  Departs(r) /\ pc[r] \in {"blocked", "handed"}
<1>1. CASE pc[r] = "handed" /\ GiveBack(r, "out")
  BY <1>1, GiveBackDeparts
<1>2. CASE /\ pc[r] = "blocked" /\ pc' = [pc EXCEPT ![r] = "out"]
           /\ Unqueue(r) /\ UNCHANGED permits
  <2>1. /\ pc \in [Request -> Place] /\ permits \in Nat /\ waiters \in Seq(Request)
        /\ Line(pc, permits, waiters)
    BY LimitsAssumption, Restated DEF IInv, TypeOK
  <2>2. /\ Count(pc, "blocked") \in Nat /\ Count(pc, "handed") \in Nat
        /\ Count(pc, "running") \in Nat
    BY CountType
  <2>3. Moves(pc, pc', r)
    BY <1>2, <2>1 DEF Moves, Place
  <2>4. /\ Count(pc', "blocked") = Count(pc, "blocked") - 1
        /\ Count(pc', "handed") = Count(pc, "handed")
        /\ Count(pc', "running") = Count(pc, "running")
        /\ At(pc', "blocked") = At(pc, "blocked") \ {r}
    <3>1. pc'[r] = "out"
      BY <1>2, <2>1
    <3>2. Count(pc', "blocked") = Count(pc, "blocked") - 1
      BY <1>2, <2>2, <2>3, <3>1, CountMove DEF Place
    <3>3. Count(pc', "handed") = Count(pc, "handed")
      BY <1>2, <2>2, <2>3, <3>1, CountMove DEF Place
    <3>4. Count(pc', "running") = Count(pc, "running")
      BY <1>2, <2>2, <2>3, <3>1, CountMove DEF Place
    <3>5. At(pc', "blocked") = At(pc, "blocked") \ {r}
      BY <1>2, <2>3, CountMove DEF Place
    <3> QED
      BY <3>2, <3>3, <3>4, <3>5
  <2>5. PICK k \in DOMAIN waiters : waiters[k] = r /\ waiters' = Drop(waiters, k)
    BY <1>2 DEF Unqueue
  <2>6. \A i, j \in DOMAIN waiters : waiters[i] = waiters[j] => i = j
    BY <2>1 DEF Line
  <2>7. /\ Drop(waiters, k) \in Seq(Request)
        /\ {Drop(waiters, k)[i] : i \in DOMAIN Drop(waiters, k)}
              = {waiters[i] : i \in DOMAIN waiters} \ {waiters[k]}
        /\ \A i, j \in DOMAIN Drop(waiters, k) :
              Drop(waiters, k)[i] = Drop(waiters, k)[j] => i = j
        /\ waiters = <<>> => Drop(waiters, k) = <<>>
    BY ONLY <2>1, <2>6, DropElement
  <2>8. Line(pc', permits', waiters')
    <3>1. At(pc', "blocked") = {waiters'[i] : i \in DOMAIN waiters'}
      <4>1. At(pc', "blocked") = {waiters[i] : i \in DOMAIN waiters} \ {waiters[k]}
        BY <2>1, <2>4, <2>5 DEF Line
      <4> QED
        BY <2>5, <2>7, <4>1
    <3>2. \A i, j \in DOMAIN waiters' : waiters'[i] = waiters'[j] => i = j
      BY <2>5, <2>7
    <3>3. permits' > 0 => waiters' = <<>>
      BY <1>2, <2>1, <2>5, <2>7 DEF Line
    <3> QED
      BY <3>1, <3>2, <3>3 DEF Line
  <2>9. pc' \in [Request -> Place] /\ waiters' \in Seq(Request) /\ permits' = permits
    BY <1>2, <2>3, <2>5, <2>7 DEF Moves
  <2>10. permits' + Count(pc', "handed") + Count(pc', "running")
          = permits + Count(pc, "handed") + Count(pc, "running")
    BY <2>1, <2>2, <2>4, <2>9
  <2>11. Count(pc', "blocked") + Count(pc', "handed")
          = Count(pc, "blocked") + Count(pc, "handed")
               - (IF pc[r] = "running" THEN 0 ELSE 1)
    BY <1>2, <2>2, <2>4
  <2>12. Count(pc', "running")
          = Count(pc, "running") - (IF pc[r] = "running" THEN 1 ELSE 0)
    BY <1>2, <2>2, <2>4
  <2> QED
    BY <1>2, <2>1, <2>8, <2>9, <2>10, <2>11, <2>12 DEF Departs
<1> QED
  BY <1>1, <1>2 DEF Withdraw

-----------------------------------------------------------------------------
(* The invariant. *)

\* A step to a state in which the counters count what they should ends in IInv.
LEMMA CountersInv ==
    ASSUME pc' \in [Request -> Place], answer' \in [Request -> Answers],
           waiters' \in Seq(Request), leaked' \in 0..MaxLeaks, permits' \in Nat,
           permits' + Count(pc', "handed") + Count(pc', "running") = MaxConcurrent,
           active' = Count(pc', "running"),
           queued' = Count(pc', "blocked") + Count(pc', "handed") + leaked',
           queued' <= MaxQueueSize,
           Line(pc', permits', waiters')
    PROVE  IInv'
<1>1. /\ Count(pc', "blocked") \in Nat /\ Count(pc', "handed") \in Nat
      /\ Count(pc', "running") \in Nat
  BY CountType
<1>2. leaked' \in Nat /\ MaxConcurrent \in Nat /\ MaxQueueSize \in Nat
  BY LimitsAssumption
<1>3. active' \in 0..MaxConcurrent /\ permits' \in 0..MaxConcurrent
  BY <1>1, <1>2
<1>4. queued' \in 0..MaxQueueSize
  BY <1>1, <1>2
<1>5. TypeOK'
  BY <1>3, <1>4 DEF TypeOK
<1>6. Slots(pc', permits', active')
  BY DEF Slots
<1> QED
  BY <1>5, <1>6, Restated DEF IInv

\* What IInv says of the current state, in the same terms.
LEMMA InvCounters ==
    ASSUME IInv
    PROVE  /\ pc \in [Request -> Place] /\ answer \in [Request -> Answers]
           /\ waiters \in Seq(Request) /\ leaked \in 0..MaxLeaks
           /\ permits \in Nat /\ queued \in Nat /\ queued <= MaxQueueSize
           /\ permits + Count(pc, "handed") + Count(pc, "running") = MaxConcurrent
           /\ active = Count(pc, "running")
           /\ queued = Count(pc, "blocked") + Count(pc, "handed") + leaked
           /\ Line(pc, permits, waiters)
           /\ Count(pc, "blocked") \in Nat /\ Count(pc, "handed") \in Nat
           /\ Count(pc, "running") \in Nat
           /\ MaxConcurrent \in Nat /\ MaxQueueSize \in Nat /\ leaked \in Nat
<1>1. /\ Count(pc, "blocked") \in Nat /\ Count(pc, "handed") \in Nat
      /\ Count(pc, "running") \in Nat
  BY CountType
<1>2. Slots(pc, permits, active) /\ Line(pc, permits, waiters)
      /\ queued = Count(pc, "blocked") + Count(pc, "handed") + leaked
  BY Restated DEF IInv
<1>3. TypeOK /\ MaxConcurrent \in Nat /\ MaxQueueSize \in Nat /\ MaxLeaks \in Nat
  BY LimitsAssumption DEF IInv
<1> QED
  BY <1>1, <1>2, <1>3 DEF TypeOK, Slots

LEMMA InitInv == Init => IInv
<1> SUFFICES ASSUME Init
             PROVE  IInv
  OBVIOUS
<1>1. /\ At(pc, "blocked") = {} /\ At(pc, "handed") = {} /\ At(pc, "running") = {}
  BY DEF Init, At
<1>2. /\ Count(pc, "blocked") = 0 /\ Count(pc, "handed") = 0 /\ Count(pc, "running") = 0
  BY <1>1, FS_EmptySet DEF Count
<1>3. Slots(pc, permits, active) /\ Line(pc, permits, waiters)
  BY <1>1, <1>2, LimitsAssumption DEF Init, Slots, Line
<1>4. queued = Count(pc, "blocked") + Count(pc, "handed") + leaked
  BY <1>2 DEF Init
<1>5. TypeOK
  BY LimitsAssumption DEF Init, TypeOK, Place, Answers
<1> QED
  BY <1>3, <1>4, <1>5, Restated DEF IInv

-----------------------------------------------------------------------------
\* One lemma per action.

LEMMA RejectInv ==
    ASSUME IInv, NEW r \in Request, RejectFull(r)
    PROVE  IInv'
<1>1. answer' \in [Request -> Answers]
  BY InvCounters DEF RejectFull, Answer, Answers
<1>2. /\ pc' = pc /\ queued' = queued /\ active' = active /\ permits' = permits
      /\ waiters' = waiters /\ leaked' = leaked
  BY DEF RejectFull, counters
<1> QED
  BY <1>1, <1>2, InvCounters, CountersInv

LEMMA EnterInv ==
    ASSUME IInv, NEW r \in Request, Enter(r)
    PROVE  IInv'
<1>1. answer' \in [Request -> Answers] /\ pc[r] = "out" /\ pc \in [Request -> Place]
  BY InvCounters DEF Enter, Answer, Answers
<1>2. /\ queued' = queued + 1 /\ queued < MaxQueueSize
      /\ active' = active /\ leaked' = leaked
  BY DEF Enter, HasRoom
<1>3. queued' \in Nat /\ queued' <= MaxQueueSize
  BY <1>2, InvCounters
<1>4. CASE permits > 0 /\ waiters = <<>>
  <2>1. /\ pc' = [pc EXCEPT ![r] = "handed"] /\ permits' = permits - 1
        /\ waiters' = waiters
    BY <1>4 DEF Enter
  <2>2. Moves(pc, pc', r) /\ pc'[r] = "handed"
    BY <1>1, <2>1 DEF Moves, Place
  <2>3. Count(pc', "handed") = Count(pc, "handed") + 1
    BY <1>1, <2>2, InvCounters, CountMove DEF Place
  <2>4. /\ Count(pc', "blocked") = Count(pc, "blocked")
        /\ At(pc', "blocked") = At(pc, "blocked")
    BY <1>1, <2>2, CountMove DEF Place
  <2>5. Count(pc', "running") = Count(pc, "running")
    BY <1>1, <2>2, CountMove DEF Place
  <2>6. Line(pc', permits', waiters')
    BY <1>4, <2>1, <2>4, InvCounters DEF Line
  <2>7. permits' \in Nat /\ pc' \in [Request -> Place]
    BY <1>4, <2>1, <2>2, InvCounters DEF Moves
  <2>8. /\ permits' + Count(pc', "handed") + Count(pc', "running") = MaxConcurrent
        /\ queued' = Count(pc', "blocked") + Count(pc', "handed") + leaked'
    BY <1>2, <2>1, <2>3, <2>4, <2>5, InvCounters
  <2> QED
    BY <1>1, <1>2, <1>3, <2>1, <2>5, <2>6, <2>7, <2>8, InvCounters, CountersInv
<1>5. CASE ~(permits > 0 /\ waiters = <<>>)
  <2>1. /\ pc' = [pc EXCEPT ![r] = "blocked"] /\ permits' = permits
        /\ waiters' = Append(waiters, r)
    BY <1>5 DEF Enter
  <2>2. Moves(pc, pc', r) /\ pc'[r] = "blocked"
    BY <1>1, <2>1 DEF Moves, Place
  <2>3. Count(pc', "blocked") = Count(pc, "blocked") + 1
    BY <1>1, <2>2, InvCounters, CountMove DEF Place
  <2>4. Count(pc', "handed") = Count(pc, "handed")
    BY <1>1, <2>2, CountMove DEF Place
  <2>5. Count(pc', "running") = Count(pc, "running")
    BY <1>1, <2>2, CountMove DEF Place
  <2>6. Line(pc', permits', waiters')
    <3>1. permits = 0
      BY <1>5, InvCounters DEF Line
    <3>2. At(pc', "blocked") = At(pc, "blocked") \cup {r} /\ r \notin At(pc, "blocked")
      BY <1>1, <2>1 DEF At
    <3>3. /\ DOMAIN waiters' = DOMAIN waiters \cup {Len(waiters) + 1}
          /\ Len(waiters) + 1 \notin DOMAIN waiters
          /\ waiters'[Len(waiters) + 1] = r
          /\ \A i \in DOMAIN waiters : waiters'[i] = waiters[i]
      BY <2>1, InvCounters
    <3>4. /\ At(pc, "blocked") = {waiters[i] : i \in DOMAIN waiters}
          /\ \A i, j \in DOMAIN waiters : waiters[i] = waiters[j] => i = j
      BY InvCounters DEF Line
    <3>5. At(pc', "blocked") = {waiters'[i] : i \in DOMAIN waiters'}
      BY <3>2, <3>3, <3>4
    <3>6. \A i, j \in DOMAIN waiters' : waiters'[i] = waiters'[j] => i = j
      BY <3>2, <3>3, <3>4
    <3>7. ~(permits' > 0)
      BY <2>1, <3>1
    <3> QED
      BY <3>5, <3>6, <3>7 DEF Line
  <2>7. pc' \in [Request -> Place] /\ waiters' \in Seq(Request) /\ permits' \in Nat
    BY <2>1, <2>2, InvCounters DEF Moves
  <2>8. /\ permits' + Count(pc', "handed") + Count(pc', "running") = MaxConcurrent
        /\ queued' = Count(pc', "blocked") + Count(pc', "handed") + leaked'
    BY <1>2, <2>1, <2>3, <2>4, <2>5, InvCounters
  <2> QED
    BY <1>1, <1>2, <1>3, <2>5, <2>6, <2>7, <2>8, InvCounters, CountersInv
<1> QED
  BY <1>4, <1>5

LEMMA ResumeInv ==
    ASSUME IInv, NEW r \in Request, Resume(r)
    PROVE  IInv'
<1>1. answer' \in [Request -> Answers] /\ pc[r] = "handed" /\ pc \in [Request -> Place]
  BY InvCounters DEF Resume, Answer, Answers
<1>2. /\ pc' = [pc EXCEPT ![r] = "running"] /\ queued' = queued - 1
      /\ active' = active + 1 /\ permits' = permits /\ waiters' = waiters
      /\ leaked' = leaked
  BY DEF Resume, Uncount
<1>3. Moves(pc, pc', r) /\ pc'[r] = "running"
  BY <1>1, <1>2 DEF Moves, Place
<1>4. Count(pc', "running") = Count(pc, "running") + 1
  BY <1>1, <1>3, InvCounters, CountMove DEF Place
<1>5. Count(pc', "handed") = Count(pc, "handed") - 1
  BY <1>1, <1>3, InvCounters, CountMove DEF Place
<1>6. /\ Count(pc', "blocked") = Count(pc, "blocked")
      /\ At(pc', "blocked") = At(pc, "blocked")
  BY <1>1, <1>3, CountMove DEF Place
<1>7. Line(pc', permits', waiters')
  BY <1>2, <1>6, InvCounters DEF Line
<1>8. pc' \in [Request -> Place]
  BY <1>3 DEF Moves
<1>9. permits' + Count(pc', "handed") + Count(pc', "running") = MaxConcurrent
  BY <1>2, <1>4, <1>5, InvCounters
<1>10. active' = Count(pc', "running")
  BY <1>2, <1>4, InvCounters
<1>11. queued' = Count(pc', "blocked") + Count(pc', "handed") + leaked'
  BY <1>2, <1>5, <1>6, InvCounters
<1>12. queued' <= MaxQueueSize
  BY <1>2, InvCounters
<1> QED
  BY <1>1, <1>2, <1>7, <1>8, <1>9, <1>10, <1>11, <1>12, InvCounters, CountersInv

LEMMA TimeOutInv ==
    ASSUME IInv, NEW r \in Request, TimeOut(r)
    PROVE  IInv'
<1>1. answer' \in [Request -> Answers]
  BY InvCounters DEF TimeOut, Answer, Answers
<1>2. queued' = queued - 1 /\ active' = active /\ leaked' = leaked
  BY DEF TimeOut, Uncount
<1>3. Departs(r) /\ pc[r] # "running"
  BY WithdrawDeparts DEF TimeOut
<1>4. /\ pc' \in [Request -> Place] /\ waiters' \in Seq(Request) /\ permits' \in Nat
      /\ Line(pc', permits', waiters')
  BY <1>3 DEF Departs
<1>5. /\ permits' + Count(pc', "handed") + Count(pc', "running")
            = permits + Count(pc, "handed") + Count(pc, "running")
      /\ Count(pc', "running") = Count(pc, "running") - 0
      /\ Count(pc', "blocked") + Count(pc', "handed")
            = Count(pc, "blocked") + Count(pc, "handed") - 1
  BY <1>3 DEF Departs
<1>6. Count(pc', "blocked") \in Nat /\ Count(pc', "handed") \in Nat
  BY CountType
<1>7. /\ active' = Count(pc', "running")
      /\ queued' = Count(pc', "blocked") + Count(pc', "handed") + leaked'
      /\ queued' <= MaxQueueSize
  BY <1>2, <1>5, <1>6, InvCounters
<1> QED
  BY <1>1, <1>2, <1>4, <1>5, <1>7, InvCounters, CountersInv

LEMMA CancelInv ==
    ASSUME IInv, NEW r \in Request, CancelWaiting(r)
    PROVE  IInv'
<1>1. answer' \in [Request -> Answers]
  BY InvCounters DEF CancelWaiting, Answer, Answers
<1>2. queued' = queued /\ active' = active /\ leaked' = leaked + 1 /\ leaked < MaxLeaks
  BY DEF CancelWaiting, counters
<1>3. Departs(r) /\ pc[r] # "running"
  BY WithdrawDeparts DEF CancelWaiting
<1>4. /\ pc' \in [Request -> Place] /\ waiters' \in Seq(Request) /\ permits' \in Nat
      /\ Line(pc', permits', waiters')
  BY <1>3 DEF Departs
<1>5. /\ permits' + Count(pc', "handed") + Count(pc', "running")
            = permits + Count(pc, "handed") + Count(pc, "running")
      /\ Count(pc', "running") = Count(pc, "running") - 0
      /\ Count(pc', "blocked") + Count(pc', "handed")
            = Count(pc, "blocked") + Count(pc, "handed") - 1
  BY <1>3 DEF Departs
<1>6. Count(pc', "blocked") \in Nat /\ Count(pc', "handed") \in Nat
  BY CountType
<1>7. /\ active' = Count(pc', "running")
      /\ queued' = Count(pc', "blocked") + Count(pc', "handed") + leaked'
      /\ queued' <= MaxQueueSize
  BY <1>2, <1>5, <1>6, InvCounters
<1>8. leaked' \in 0..MaxLeaks
  BY <1>2, InvCounters, LimitsAssumption
<1> QED
  BY <1>1, <1>4, <1>5, <1>7, <1>8, InvCounters, CountersInv

LEMMA FinishInv ==
    ASSUME IInv, NEW r \in Request, Finish(r)
    PROVE  IInv'
<1>1. /\ answer' = answer /\ queued' = queued /\ leaked' = leaked
      /\ active' = active - 1 /\ pc[r] = "running"
  BY DEF Finish
<1>2. Departs(r)
  BY <1>1, GiveBackDeparts DEF Finish
<1>3. /\ pc' \in [Request -> Place] /\ waiters' \in Seq(Request) /\ permits' \in Nat
      /\ Line(pc', permits', waiters')
  BY <1>2 DEF Departs
<1>4. /\ permits' + Count(pc', "handed") + Count(pc', "running")
            = permits + Count(pc, "handed") + Count(pc, "running")
      /\ Count(pc', "running") = Count(pc, "running") - 1
      /\ Count(pc', "blocked") + Count(pc', "handed")
            = Count(pc, "blocked") + Count(pc, "handed") - 0
  BY <1>1, <1>2 DEF Departs
<1>5. Count(pc', "blocked") \in Nat /\ Count(pc', "handed") \in Nat
  BY CountType
<1>6. /\ active' = Count(pc', "running")
      /\ queued' = Count(pc', "blocked") + Count(pc', "handed") + leaked'
      /\ queued' <= MaxQueueSize
  BY <1>1, <1>4, <1>5, InvCounters
<1> QED
  BY <1>1, <1>3, <1>4, <1>6, InvCounters, CountersInv

LEMMA StutterInv == IInv /\ UNCHANGED vars => IInv'
  BY DEF IInv, TypeOK, SlotsConserved, QueuedAccounted, NoIdlePermit, InState, At,
         vars, counters

\* The invariant of every behaviour.
THEOREM Inductive == Spec => []IInv
<1>1. Init => IInv
  BY InitInv
<1>2. IInv /\ [Next]_vars => IInv'
  BY RejectInv, EnterInv, ResumeInv, TimeOutInv, CancelInv, FinishInv, StutterInv
     DEF Next, Step
<1> QED
  BY <1>1, <1>2, PTL DEF Spec

\* The counters stay within their limits: in particular at most max_concurrent
\* calls run and at most max_queue_size requests are counted as queued.
THEOREM TypeCorrect == Spec => []TypeOK
<1>1. IInv => TypeOK
  BY DEF IInv
<1> QED
  BY <1>1, Inductive, PTL

\* No sequence of grants, time-outs and cancellations loses or duplicates a slot.
THEOREM Conservation == Spec => []SlotsConserved
<1>1. IInv => SlotsConserved
  BY DEF IInv
<1> QED
  BY <1>1, Inductive, PTL

\* _queued is the number of waiting tasks plus one per task cancelled there.
THEOREM QueueCount == Spec => []QueuedAccounted
<1>1. IInv => QueuedAccounted
  BY DEF IInv
<1> QED
  BY <1>1, Inductive, PTL
=============================================================================
