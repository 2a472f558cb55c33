-------------------------- MODULE LineageWalkProofs --------------------------
(***************************************************************************)
(* The walk over the parents of a pinned head, for every metadata          *)
(* generation, damaged or not, and every descendant limit.                 *)
(*                                                                         *)
(* That no document is yielded twice is Floyd's argument about a slow and  *)
(* a fast cursor.  The invariant carries the way the fast cursor has gone, *)
(* which is twice as long as what was yielded, as a function g: position k *)
(* of the way is k parents from the head.  If the next document had been   *)
(* yielded before, the way would be periodic from there on, and one of the *)
(* multiples of the period would have made the cursors meet already.       *)
(***************************************************************************)
EXTENDS LineageWalk, SequenceTheorems, WellFoundedInduction, TLAPS

Ids == Snapshots \cup {None}

WalkTypes ==
  /\ walked \in {"idle", "running", "done", "cycle"}
  /\ yielded \in Seq(Snapshots) /\ deque \in Seq(Snapshots)
  /\ limit \in Nat
  /\ walked = "idle" => yielded = <<>> /\ deque = <<>>
  /\ walked # "idle" => parent \in Generations /\ head \in Snapshots

\* What was yielded is a chain of parents from the head that the recorded ancestor ends.
YieldsTheChain ==
  /\ yielded # <<>> => yielded[1] = head
  /\ \A i \in 1..(Len(yielded) - 1) : parent[yielded[i]] = yielded[i + 1] /\ yielded[i] # stop
  /\ walked = "running" /\ yielded # <<>> =>
       parent[yielded[Len(yielded)]] = cursor /\ yielded[Len(yielded)] # stop

\* The deque is the tail of what was yielded.
DequeIsTheTail ==
  /\ Len(deque) <= limit + 1 /\ Len(deque) <= Len(yielded)
  /\ yielded # <<>> => deque # <<>>
  /\ \A i \in 1..Len(deque) : deque[i] = yielded[Len(yielded) - Len(deque) + i]

\* The way g of the fast cursor after n turns: the slow cursor has gone half of it, and
\* the two have not met.
WayOf(g, n) ==
  /\ g \in [0..(n + n) -> Ids]
  /\ g[0] = head
  /\ \A k \in 0..(n + n - 1) : g[k + 1] = next_snapshot_id(g[k])
  /\ \A i \in 1..n : yielded[i] = g[i - 1]
  /\ cursor = g[n] /\ fast = g[n + n]
  /\ \A m \in 1..n : g[m] # g[m + m]

CursorsApart ==
  walked = "running" =>
    /\ cursor \in Snapshots /\ slow = cursor
    /\ \A i \in 1..Len(yielded) : yielded[i] # cursor
    /\ \E g : WayOf(g, Len(yielded))

WalkInvariant ==
  /\ WalkTypes /\ YieldsTheChain /\ DequeIsTheTail /\ CursorsApart /\ NoDocumentTwice

-----------------------------------------------------------------------------
(* Numbers.                                                                *)

\* Every non-empty set of numbers has a least one.
LEMMA LeastNumber ==
  ASSUME NEW T \in SUBSET Nat, T # {}
  PROVE  \E x \in T : \A y \in T : x <= y
<1>1. \E x \in T : \A y \in T : ~(<<y, x>> \in OpToRel(<, Nat))
  BY NatLessThanWellFounded, WFMin
<1>2. \A x, y \in Nat : y < x => <<y, x>> \in OpToRel(<, Nat)
  BY DEF OpToRel
<1>3. \E R : /\ \E x \in T : \A y \in T : ~(<<y, x>> \in R)
             /\ \A x, y \in Nat : y < x => <<y, x>> \in R
  BY <1>1, <1>2
<1>4. PICK R : /\ \E x \in T : \A y \in T : ~(<<y, x>> \in R)
               /\ \A x, y \in Nat : y < x => <<y, x>> \in R
  BY <1>3
<1>5. PICK x \in T : \A y \in T : ~(<<y, x>> \in R)
  BY <1>4
<1>6. \A y \in T : ~(y < x)
  BY <1>4, <1>5
<1> QED BY <1>6

\* Every non-empty set of numbers up to n has a greatest one.
LEMMA GreatestNumber ==
  ASSUME NEW n \in Nat, NEW T \in SUBSET (0..n), T # {}
  PROVE  \E x \in T : \A y \in T : y <= x
<1> DEFINE M == {n - x : x \in T}
<1>1. M \in SUBSET Nat /\ M # {}
  <2>1. \A x \in T : n - x \in Nat
    OBVIOUS
  <2>2. PICK x \in T : TRUE
    OBVIOUS
  <2>3. n - x \in M
    BY <2>2
  <2> QED BY <2>1, <2>3
<1> HIDE DEF M
<1>2. PICK u \in M : \A v \in M : u <= v
  BY <1>1, LeastNumber
<1>3. PICK x \in T : u = n - x
  BY DEF M
<1>4. \A y \in T : n - x <= n - y
  BY <1>2, <1>3 DEF M
<1>5. \A y \in T : y <= x
  BY <1>4
<1> QED BY <1>5

-----------------------------------------------------------------------------
(* Floyd's argument.                                                       *)

\* Up to position N the same place is always left the same way.
Deterministic(g, N) == \A j, k \in 0..(N - 1) : g[j] = g[k] => g[j + 1] = g[k + 1]

\* From position i to position N the way repeats itself after d steps.
Periodic(g, N, i, d) == \A k \in Nat : i <= k /\ k + d <= N => g[k + d] = g[k]

\* A way on which the same place is always left the same way is periodic once it comes
\* back to a place.
LEMMA ReturnIsPeriodic ==
  ASSUME NEW N \in Nat, NEW g,
         Deterministic(g, N),
         NEW i \in Nat, NEW d \in Nat, i + d <= N, g[i + d] = g[i]
  PROVE  Periodic(g, N, i, d)
<1> DEFINE Bad == {k \in Nat : i <= k /\ k + d <= N /\ g[k + d] # g[k]}
<1>1. SUFFICES Bad = {}
  BY DEF Periodic
<1>2. SUFFICES ASSUME Bad # {} PROVE FALSE
  OBVIOUS
<1>3. PICK k \in Bad : \A j \in Bad : k <= j
  BY <1>2, LeastNumber
<1>4. k \in Nat /\ i <= k /\ k + d <= N /\ g[k + d] # g[k] /\ k # i
  OBVIOUS
<1>5. PICK j : j = k - 1  OBVIOUS
<1>6. j \in Nat /\ i <= j /\ j + d <= N - 1 /\ j <= N - 1 /\ j + 1 = k /\ (j + d) + 1 = k + d
  BY <1>4, <1>5
<1>7. j \notin Bad
  BY <1>3, <1>6
<1>8. g[j + d] = g[j]
  BY <1>6, <1>7
<1>9. j \in 0..(N - 1) /\ j + d \in 0..(N - 1)
  BY <1>6
<1>10. g[(j + d) + 1] = g[j + 1]
  BY <1>8, <1>9 DEF Deterministic
<1> QED BY <1>4, <1>6, <1>10

\* When the slow cursor is about to come back to a place, the cursors have met before, or
\* it is the head it comes back to and they meet there.
LEMMA CursorsMeet ==
  ASSUME NEW n \in Nat, NEW N, N = (n + 1) + (n + 1), NEW g,
         Deterministic(g, N),
         \A m \in 1..n : g[m] # g[m + m],
         NEW i \in 0..n, g[n + 1] = g[i]
  PROVE  g[n + 1] = g[(n + 1) + (n + 1)]
<1>1. PICK d : d = (n + 1) - i  OBVIOUS
<1>2. d \in Nat /\ i + d = n + 1 /\ i + d <= N /\ i \in Nat /\ N \in Nat
  BY <1>1
<1>3. \A k \in Nat : i <= k /\ k + d <= N => g[k + d] = g[k]
  <2>1. g[i + d] = g[i]
    BY <1>2
  <2> QED BY <1>2, <2>1, ReturnIsPeriodic DEF Periodic
<1> DEFINE Periods == {e \in 0..n : \A k \in Nat : i <= k /\ k + e <= N => g[k + e] = g[k]}
<1>4. 0 \in Periods
  OBVIOUS
<1>5. PICK m \in Periods : \A e \in Periods : e <= m
  BY <1>4, GreatestNumber
<1>6. m \in 0..n /\ \A k \in Nat : i <= k /\ k + m <= N => g[k + m] = g[k]
  OBVIOUS
<1>7. i <= m
  <2> SUFFICES ASSUME m < i PROVE FALSE
    BY <1>2, <1>6
  <2>1. PICK e : e = m + d  OBVIOUS
  <2>2. e \in 0..n /\ e > m
    BY <1>1, <1>6, <2>1
  <2>3. ASSUME NEW k \in Nat, i <= k, k + e <= N PROVE g[k + e] = g[k]
    <3>1. k + m \in Nat /\ i <= k + m /\ (k + m) + d = k + e /\ (k + m) + d <= N /\ k + m <= N
      BY <1>2, <1>6, <2>1, <2>3
    <3>2. g[(k + m) + d] = g[k + m]
      BY <1>3, <3>1
    <3>3. g[k + m] = g[k]
      BY <1>6, <2>3, <3>1
    <3> QED BY <3>1, <3>2, <3>3
  <2>4. e \in Periods
    BY <2>2, <2>3
  <2>5. e <= m
    BY <1>5, <2>4
  <2> QED BY <1>6, <2>2, <2>5
<1> HIDE DEF Periods
<1>8. CASE i = 0
  <2>1. n + 1 \in Nat /\ i <= n + 1 /\ (n + 1) + d = (n + 1) + (n + 1) /\ (n + 1) + d <= N
    BY <1>1, <1>8
  <2> QED BY <1>3, <2>1
<1>9. CASE i # 0
  <2>1. m \in Nat /\ m \in 1..n /\ i <= m /\ m + m <= N
    BY <1>2, <1>6, <1>7, <1>9
  <2>2. g[m + m] = g[m]
    BY <1>6, <2>1
  <2> QED BY <2>1, <2>2
<1> QED BY <1>8, <1>9
-----------------------------------------------------------------------------
(* The steps.                                                              *)

\* q is the tail of y.
TailOf(q, y) ==
  /\ q \in Seq(Snapshots)
  /\ Len(q) <= Len(y)
  /\ \A i \in 1..Len(q) : q[i] = y[Len(y) - Len(q) + i]

\* The deque keeps the last documents, and at least one.
LEMMA RetainKeepsTail ==
  ASSUME NEW q, NEW y \in Seq(Snapshots), NEW id \in Snapshots, limit \in Nat,
         TailOf(q, y), Len(q) <= limit + 1,
         NEW r, r = Retain(q, id), NEW z, z = Append(y, id)
  PROVE  TailOf(r, z) /\ r # <<>> /\ Len(r) <= limit + 1
<1>0. /\ q \in Seq(Snapshots) /\ Len(q) <= Len(y)
      /\ \A i \in 1..Len(q) : q[i] = y[Len(y) - Len(q) + i]
  BY DEF TailOf
<1>1. PICK full : full = Append(q, id)  OBVIOUS
<1>2. /\ full \in Seq(Snapshots) /\ Len(full) = Len(q) + 1 /\ full # <<>>
      /\ full[Len(q) + 1] = id /\ \A i \in 1..Len(q) : full[i] = q[i]
  BY <1>0, <1>1, AppendProperties
<1>3. /\ z \in Seq(Snapshots) /\ Len(z) = Len(y) + 1
      /\ z[Len(y) + 1] = id /\ \A i \in 1..Len(y) : z[i] = y[i]
  BY AppendProperties
<1>4. Len(q) \in Nat /\ Len(y) \in Nat
  BY <1>0
<1>5. \A i \in 1..(Len(q) + 1) : full[i] = z[Len(z) - Len(full) + i]
  <2> SUFFICES ASSUME NEW i \in 1..(Len(q) + 1) PROVE full[i] = z[Len(z) - Len(full) + i]
    OBVIOUS
  <2>1. Len(z) - Len(full) + i = Len(y) - Len(q) + i
    BY <1>2, <1>3, <1>4
  <2>2. CASE i = Len(q) + 1
    <3>1. Len(y) - Len(q) + i = Len(y) + 1
      BY <1>4, <2>2
    <3> QED BY <1>2, <1>3, <2>1, <2>2, <3>1
  <2>3. CASE i # Len(q) + 1
    <3>1. i \in 1..Len(q) /\ Len(y) - Len(q) + i \in 1..Len(y)
      BY <1>0, <1>4, <2>3
    <3> QED BY <1>0, <1>2, <1>3, <2>1, <3>1
  <2> QED BY <2>2, <2>3
<1>6. CASE Len(full) > limit + 1
  <2>1. r = Tail(full)
    BY <1>1, <1>6 DEF Retain
  <2>2. r \in Seq(Snapshots) /\ Len(r) = Len(full) - 1 /\ \A i \in 1..Len(r) : r[i] = full[i + 1]
    BY <1>2, <2>1, HeadTailProperties
  <2>3. Len(r) = Len(q) /\ Len(q) = limit + 1 /\ Len(r) > 0
    BY <1>2, <1>4, <1>6, <2>2
  <2>4. ASSUME NEW i \in 1..Len(r) PROVE r[i] = z[Len(z) - Len(r) + i]
    <3>1. i + 1 \in 1..(Len(q) + 1) /\ Len(z) - Len(full) + (i + 1) = Len(z) - Len(r) + i
      BY <1>2, <1>3, <1>4, <2>3
    <3> QED BY <1>5, <2>2, <3>1
  <2>5. r # <<>>
    BY <2>3
  <2>6. Len(r) <= limit + 1 /\ Len(r) <= Len(z)
    BY <1>0, <1>3, <1>4, <2>3
  <2>7. \A i \in 1..Len(r) : r[i] = z[Len(z) - Len(r) + i]
    BY <2>4
  <2> QED BY <2>2, <2>5, <2>6, <2>7 DEF TailOf
<1>7. CASE ~(Len(full) > limit + 1)
  <2>1. r = full
    BY <1>1, <1>7 DEF Retain
  <2>2. Len(r) <= limit + 1 /\ Len(r) <= Len(z)
    BY <1>0, <1>2, <1>3, <1>4, <1>7, <2>1
  <2>3. \A i \in 1..Len(r) : r[i] = z[Len(z) - Len(r) + i]
    BY <1>2, <1>5, <2>1
  <2> QED BY <1>2, <2>1, <2>2, <2>3 DEF TailOf
<1> QED BY <1>6, <1>7

\* A parent of a generation is a snapshot or none.
LEMMA NextIsAnId ==
  ASSUME parent \in Generations, NEW id
  PROVE  next_snapshot_id(id) \in Ids /\ (id \in DOMAIN parent => id \in Snapshots)
<1>1. PICK found \in SUBSET Snapshots : parent \in [found -> Snapshots \cup {None}]
  BY DEF Generations
<1> QED BY <1>1 DEF next_snapshot_id, Ids

\* The way g, two parents further.
Further(g, n) ==
  [k \in 0..((n + 1) + (n + 1)) |->
     IF k <= n + n THEN g[k]
     ELSE IF k = n + n + 1 THEN next_snapshot_id(fast)
     ELSE next_snapshot_id(next_snapshot_id(fast))]

\* h is a way of n turns, of parents from the head.
FromHead(h, n) ==
  /\ h \in [0..(n + n) -> Ids]
  /\ h[0] = head
  /\ \A k \in 0..(n + n - 1) : h[k + 1] = next_snapshot_id(h[k])

\* The way of the fast cursor goes on by two parents.
LEMMA WayGoesOn ==
  ASSUME parent \in Generations, NEW n \in Nat, NEW g, WayOf(g, n),
         NEW h, h = Further(g, n)
  PROVE  /\ FromHead(h, n + 1)
         /\ \A k \in 0..(n + n) : h[k] = g[k]
         /\ h[(n + 1) + (n + 1)] = next_snapshot_id(next_snapshot_id(fast))
<1>1. PICK a : a = next_snapshot_id(fast)  OBVIOUS
<1>2. PICK b : b = next_snapshot_id(a)  OBVIOUS
<1>3. a \in Ids /\ b \in Ids
  BY <1>1, <1>2, NextIsAnId
<1>4. h = [k \in 0..((n + 1) + (n + 1)) |->
             IF k <= n + n THEN g[k] ELSE IF k = n + n + 1 THEN a ELSE b]
  BY <1>1, <1>2 DEF Further
<1>5. g \in [0..(n + n) -> Ids] /\ g[0] = head /\ g[n + n] = fast
  BY DEF WayOf
<1>6. \A k \in 0..(n + n) : h[k] = g[k]
  BY <1>4
<1>7. h[n + n + 1] = a /\ h[(n + 1) + (n + 1)] = b
  BY <1>4
<1>8. h \in [0..((n + 1) + (n + 1)) -> Ids]
  BY <1>3, <1>4, <1>5
<1>9. ASSUME NEW k \in 0..((n + 1) + (n + 1) - 1) PROVE h[k + 1] = next_snapshot_id(h[k])
  <2>1. CASE k <= n + n - 1
    <3>1. k \in 0..(n + n - 1) /\ k \in 0..(n + n) /\ k + 1 \in 0..(n + n)
      BY <2>1
    <3>2. g[k + 1] = next_snapshot_id(g[k])
      BY <3>1 DEF WayOf
    <3> QED BY <1>6, <3>1, <3>2
  <2>2. CASE k = n + n
    <3>1. h[k] = fast /\ h[k + 1] = a
      BY <1>5, <1>6, <1>7, <2>2
    <3> QED BY <1>1, <3>1
  <2>3. CASE k = n + n + 1
    <3>1. k + 1 = (n + 1) + (n + 1)
      BY <2>3
    <3>2. h[k] = a /\ h[k + 1] = b
      BY <1>7, <2>3, <3>1
    <3> QED BY <1>2, <3>2
  <2> QED BY <2>1, <2>2, <2>3
<1>10. 0 \in 0..(n + n)
  OBVIOUS
<1>11. h[0] = head
  BY <1>5, <1>6, <1>10
<1>12. h[(n + 1) + (n + 1)] = next_snapshot_id(next_snapshot_id(fast))
  BY <1>1, <1>2, <1>7
<1>13. \A k \in 0..((n + 1) + (n + 1) - 1) : h[k + 1] = next_snapshot_id(h[k])
  BY <1>9
<1> QED BY <1>6, <1>8, <1>11, <1>12, <1>13 DEF FromHead

\* Yielding the document under the cursor keeps the chain, the tail and the absence of
\* repetitions.
LEMMA YieldKeeps ==
  ASSUME WalkInvariant, iter_snapshot_documents
  PROVE  /\ yielded' \in Seq(Snapshots) /\ deque' \in Seq(Snapshots)
         /\ Len(yielded') = Len(yielded) + 1 /\ yielded'[Len(yielded) + 1] = cursor
         /\ \A i \in 1..Len(yielded) : yielded'[i] = yielded[i]
         /\ DequeIsTheTail' /\ NoDocumentTwice'
<1>1. /\ yielded \in Seq(Snapshots) /\ deque \in Seq(Snapshots) /\ limit \in Nat
      /\ cursor \in Snapshots /\ \A i \in 1..Len(yielded) : yielded[i] # cursor
  BY DEF WalkInvariant, WalkTypes, CursorsApart, iter_snapshot_documents
<1>2. yielded' = Append(yielded, cursor) /\ deque' = Retain(deque, cursor) /\ limit' = limit
  BY DEF iter_snapshot_documents, chain
<1>3. /\ yielded' \in Seq(Snapshots) /\ Len(yielded') = Len(yielded) + 1
      /\ yielded'[Len(yielded) + 1] = cursor
      /\ \A i \in 1..Len(yielded) : yielded'[i] = yielded[i]
  BY <1>1, <1>2, AppendProperties
<1>4. /\ deque' \in Seq(Snapshots) /\ deque' # <<>>
      /\ Len(deque') <= limit + 1 /\ Len(deque') <= Len(yielded')
      /\ \A i \in 1..Len(deque') : deque'[i] = yielded'[Len(yielded') - Len(deque') + i]
  <2>1. TailOf(deque, yielded) /\ Len(deque) <= limit + 1
    BY <1>1 DEF WalkInvariant, DequeIsTheTail, TailOf
  <2>2. PICK r : r = deque'  OBVIOUS
  <2>3. PICK z : z = yielded'  OBVIOUS
  <2>4. r = Retain(deque, cursor) /\ z = Append(yielded, cursor)
    BY <1>2, <2>2, <2>3
  <2>5. TailOf(r, z) /\ r # <<>> /\ Len(r) <= limit + 1
    BY <1>1, <2>1, <2>4, RetainKeepsTail
  <2> QED BY <2>2, <2>3, <2>5 DEF TailOf
<1>5. DequeIsTheTail'
  BY <1>2, <1>4 DEF DequeIsTheTail
<1>6. NoDocumentTwice'
  <2> SUFFICES ASSUME NEW i \in 1..Len(yielded'), NEW j \in 1..Len(yielded'), yielded'[i] = yielded'[j]
               PROVE  i = j
    BY DEF NoDocumentTwice
  <2>1. Len(yielded) \in Nat
    BY <1>1
  <2>2. CASE i \in 1..Len(yielded) /\ j \in 1..Len(yielded)
    BY <1>3, <2>2 DEF WalkInvariant, NoDocumentTwice
  <2>3. CASE i = Len(yielded) + 1 /\ j \in 1..Len(yielded)
    BY <1>1, <1>3, <2>3
  <2>4. CASE j = Len(yielded) + 1 /\ i \in 1..Len(yielded)
    BY <1>1, <1>3, <2>4
  <2>5. CASE i = Len(yielded) + 1 /\ j = Len(yielded) + 1
    BY <2>5
  <2> QED BY <1>3, <2>1, <2>2, <2>3, <2>4, <2>5
<1> QED BY <1>3, <1>4, <1>5, <1>6

\* The chain grows by the document under the cursor.
LEMMA ChainGrows ==
  ASSUME WalkInvariant, iter_snapshot_documents
  PROVE  /\ yielded' # <<>> => yielded'[1] = head
         /\ \A i \in 1..(Len(yielded') - 1) : parent[yielded'[i]] = yielded'[i + 1] /\ yielded'[i] # stop
<1>1. /\ yielded \in Seq(Snapshots) /\ Len(yielded) \in Nat
      /\ walked = "running"
  BY DEF WalkInvariant, WalkTypes, iter_snapshot_documents
<1>2. /\ Len(yielded') = Len(yielded) + 1 /\ yielded'[Len(yielded) + 1] = cursor
      /\ \A i \in 1..Len(yielded) : yielded'[i] = yielded[i]
  BY YieldKeeps
<1>3. /\ yielded # <<>> => yielded[1] = head
      /\ \A i \in 1..(Len(yielded) - 1) : parent[yielded[i]] = yielded[i + 1] /\ yielded[i] # stop
      /\ yielded # <<>> => parent[yielded[Len(yielded)]] = cursor /\ yielded[Len(yielded)] # stop
  BY <1>1 DEF WalkInvariant, YieldsTheChain
<1>4. CASE yielded = <<>>
  <2>1. Len(yielded) = 0
    BY <1>4
  <2>2. \E g : WayOf(g, Len(yielded))
    BY <1>1 DEF WalkInvariant, CursorsApart
  <2>3. cursor = head
    BY <2>1, <2>2 DEF WayOf
  <2> QED BY <1>2, <2>1, <2>3
<1>5. CASE yielded # <<>>
  <2>1. Len(yielded) >= 1
    BY <1>1, <1>5, EmptySeq
  <2>2. yielded'[1] = head
    BY <1>1, <1>2, <1>3, <1>5, <2>1
  <2>3. ASSUME NEW i \in 1..(Len(yielded') - 1)
        PROVE  parent[yielded'[i]] = yielded'[i + 1] /\ yielded'[i] # stop
    <3>1. i \in 1..Len(yielded)
      BY <1>1, <1>2
    <3>2. CASE i = Len(yielded)
      BY <1>2, <1>3, <1>5, <3>1, <3>2
    <3>3. CASE i # Len(yielded)
      <4>1. i \in 1..(Len(yielded) - 1) /\ i + 1 \in 1..Len(yielded)
        BY <1>1, <3>1, <3>3
      <4> QED BY <1>2, <1>3, <3>1, <4>1
    <3> QED BY <3>2, <3>3
  <2> QED BY <2>2, <2>3
<1> QED BY <1>4, <1>5

\* A turn that neither ends the walk nor makes the cursors meet moves them on, and the
\* next document is a new one.
LEMMA CursorsGoOn ==
  ASSUME WalkInvariant, iter_snapshot_documents, walked' = "running"
  PROVE  CursorsApart' /\ parent[cursor] = cursor' /\ cursor # stop
<1>1. /\ walked = "running" /\ cursor \in DOMAIN parent /\ ~AtEnd
      /\ cursor' = parent[cursor] /\ slow' = next_snapshot_id(slow)
      /\ fast' = next_snapshot_id(next_snapshot_id(fast))
      /\ ~(slow' # None /\ slow' = fast')
      /\ parent' = parent /\ head' = head
  BY DEF iter_snapshot_documents, chain
<1>2. /\ parent \in Generations /\ slow = cursor /\ cursor \in Snapshots /\ Len(yielded) \in Nat
  BY <1>1 DEF WalkInvariant, WalkTypes, CursorsApart
<1>3. PICK n : n = Len(yielded)  OBVIOUS
<1>4. PICK g : WayOf(g, n)
  BY <1>1, <1>3 DEF WalkInvariant, CursorsApart
<1>5. n \in Nat
  BY <1>2, <1>3
<1>6. cursor # stop /\ parent[cursor] # None
  BY <1>1 DEF AtEnd
<1>7. cursor' = next_snapshot_id(cursor) /\ slow' = cursor' /\ cursor' \in Snapshots
  <2>1. cursor' = next_snapshot_id(cursor)
    BY <1>1 DEF next_snapshot_id
  <2>2. next_snapshot_id(cursor) \in Ids
    BY <1>2, NextIsAnId
  <2> QED BY <1>1, <1>2, <1>6, <2>1, <2>2 DEF Ids
<1>8. slow' # fast'
  BY <1>1, <1>7, WalkAssumption
<1>9. PICK h : h = Further(g, n)  OBVIOUS
<1>10. /\ FromHead(h, n + 1)
       /\ \A k \in 0..(n + n) : h[k] = g[k]
       /\ h[(n + 1) + (n + 1)] = next_snapshot_id(next_snapshot_id(fast))
  BY <1>2, <1>4, <1>5, <1>9, WayGoesOn
<1>11. /\ \A i \in 1..n : yielded[i] = g[i - 1]
       /\ cursor = g[n]
       /\ \A m \in 1..n : g[m] # g[m + m]
  BY <1>4 DEF WayOf
<1>12. h[n + 1] = cursor' /\ h[(n + 1) + (n + 1)] = fast'
  <2>1. n \in 0..((n + 1) + (n + 1) - 1) /\ n \in 0..(n + n)
    BY <1>5
  <2>2. h[n] = cursor
    BY <1>10, <1>11, <2>1
  <2>3. h[n + 1] = next_snapshot_id(h[n])
    BY <1>10, <2>1 DEF FromHead
  <2> QED BY <1>1, <1>7, <1>10, <2>2, <2>3
<1>13. \A m \in 1..n : h[m] # h[m + m]
  <2> SUFFICES ASSUME NEW m \in 1..n PROVE h[m] # h[m + m]
    OBVIOUS
  <2>1. m \in 0..(n + n) /\ m + m \in 0..(n + n)
    BY <1>5
  <2> QED BY <1>10, <1>11, <2>1
<1>14. /\ Len(yielded') = n + 1 /\ yielded'[n + 1] = cursor
       /\ \A i \in 1..n : yielded'[i] = yielded[i]
  BY <1>3, YieldKeeps
<1>15. \A i \in 1..(n + 1) : yielded'[i] = h[i - 1]
  <2> SUFFICES ASSUME NEW i \in 1..(n + 1) PROVE yielded'[i] = h[i - 1]
    OBVIOUS
  <2>1. i - 1 \in 0..(n + n)
    BY <1>5
  <2>2. CASE i = n + 1
    <3>1. i - 1 = n  BY <1>5, <2>2
    <3> QED BY <1>10, <1>11, <1>14, <2>1, <2>2, <3>1
  <2>3. CASE i # n + 1
    <3>1. i \in 1..n  BY <1>5, <2>3
    <3> QED BY <1>10, <1>11, <1>14, <2>1, <3>1
  <2> QED BY <2>2, <2>3
<1>16. Deterministic(h, (n + 1) + (n + 1))
  <2>1. \A k \in 0..((n + 1) + (n + 1) - 1) : h[k + 1] = next_snapshot_id(h[k])
    BY <1>10 DEF FromHead
  <2>2. PICK N : N = (n + 1) + (n + 1)  OBVIOUS
  <2>3. ASSUME NEW j \in 0..(N - 1), NEW k \in 0..(N - 1), h[j] = h[k] PROVE h[j + 1] = h[k + 1]
    <3>1. h[j + 1] = next_snapshot_id(h[j]) /\ h[k + 1] = next_snapshot_id(h[k])
      BY <1>5, <2>1, <2>2
    <3> QED BY <2>3, <3>1
  <2>4. Deterministic(h, N)
    BY <2>3 DEF Deterministic
  <2> QED BY <2>2, <2>4
<1>17. ASSUME NEW i \in 1..(n + 1) PROVE yielded'[i] # cursor'
  <2> SUFFICES ASSUME yielded'[i] = cursor' PROVE FALSE
    OBVIOUS
  <2>1. PICK j : j = i - 1  OBVIOUS
  <2>2. j \in 0..n
    BY <1>5, <2>1
  <2>3. h[n + 1] = h[j]
    BY <1>12, <1>15, <2>1
  <2>4. h[n + 1] = h[(n + 1) + (n + 1)]
    BY <1>5, <1>13, <1>16, <2>2, <2>3, CursorsMeet
  <2> QED BY <1>7, <1>8, <1>12, <2>4
<1>18. \A m \in 1..(n + 1) : h[m] # h[m + m]
  <2> SUFFICES ASSUME NEW m \in 1..(n + 1) PROVE h[m] # h[m + m]
    OBVIOUS
  <2>1. CASE m = n + 1
    BY <1>7, <1>8, <1>12, <2>1
  <2>2. CASE m # n + 1
    <3>1. m \in 1..n  BY <1>5, <2>2
    <3> QED BY <1>13, <3>1
  <2> QED BY <2>1, <2>2
<1>19. WayOf(h, n + 1)'
  <2>1. \A id : next_snapshot_id(id)' = next_snapshot_id(id)
    BY <1>1 DEF next_snapshot_id
  <2>2. \A k \in 0..((n + 1) + (n + 1) - 1) : h[k + 1] = next_snapshot_id(h[k])'
    BY <1>10, <2>1 DEF FromHead
  <2> QED BY <1>1, <1>10, <1>12, <1>15, <1>18, <2>2 DEF WayOf, FromHead
<1>20. CursorsApart'
  <2>1. \A i \in 1..Len(yielded') : yielded'[i] # cursor'
    BY <1>14, <1>17
  <2>2. \E q : WayOf(q, Len(yielded))'
    BY <1>14, <1>19
  <2> QED BY <1>7, <2>1, <2>2 DEF CursorsApart
<1> QED BY <1>1, <1>6, <1>20

\* A turn of the loop keeps the invariant.
LEMMA TurnKeeps ==
  ASSUME WalkInvariant, iter_snapshot_documents
  PROVE  WalkInvariant'
<1>1. /\ yielded' \in Seq(Snapshots) /\ deque' \in Seq(Snapshots)
      /\ Len(yielded') = Len(yielded) + 1 /\ yielded'[Len(yielded) + 1] = cursor
      /\ DequeIsTheTail' /\ NoDocumentTwice'
  BY YieldKeeps
<1>2. walked = "running" /\ walked' \in {"running", "done", "cycle"}
      /\ parent' = parent /\ head' = head /\ stop' = stop /\ limit' = limit
  BY DEF iter_snapshot_documents, chain
<1>3. WalkTypes'
  BY <1>1, <1>2 DEF WalkInvariant, WalkTypes
<1>4. walked' = "running" => CursorsApart' /\ parent[cursor] = cursor' /\ cursor # stop
  BY CursorsGoOn
<1>5. CursorsApart'
  BY <1>4 DEF CursorsApart
<1>6. YieldsTheChain'
  BY <1>1, <1>2, <1>4, ChainGrows DEF YieldsTheChain
<1> QED BY <1>1, <1>3, <1>5, <1>6 DEF WalkInvariant

\* The start of a walk keeps the invariant.
LEMMA StartKeeps ==
  ASSUME WalkInvariant, StartWalk
  PROVE  WalkInvariant'
<1>1. /\ walked' = "running" /\ yielded' = yielded /\ deque' = deque
      /\ parent' \in Generations /\ head' \in Snapshots /\ limit' \in 0..MaxLimit
      /\ cursor' = head' /\ slow' = head' /\ fast' = head'
  BY DEF StartWalk
<1>2. yielded = <<>> /\ deque = <<>>
  BY DEF StartWalk, WalkInvariant, WalkTypes
<1>3. limit' \in Nat
  BY <1>1, WalkAssumption
<1>4. Len(yielded') = 0 /\ Len(deque') = 0
  BY <1>1, <1>2
<1>5. yielded' \in Seq(Snapshots) /\ deque' \in Seq(Snapshots)
  BY <1>1, <1>2
<1>6. WalkTypes'
  BY <1>1, <1>3, <1>5 DEF WalkTypes
<1>7. YieldsTheChain' /\ DequeIsTheTail' /\ NoDocumentTwice'
  <2>0. yielded' = <<>> /\ 1..(Len(yielded') - 1) = {}
    BY <1>1, <1>2, <1>4
  <2>1. YieldsTheChain'
    BY <2>0 DEF YieldsTheChain
  <2>2. DequeIsTheTail'
    <3>1. 0 <= limit' + 1
      <4>1. PICK m : m = limit'  OBVIOUS
      <4>2. m \in Nat  BY <1>3, <4>1
      <4>3. 0 <= m + 1  BY <4>2
      <4> QED BY <4>1, <4>3
    <3>2. Len(deque') <= limit' + 1 /\ Len(deque') <= Len(yielded')
      BY <1>4, <3>1
    <3>3. 1..Len(deque') = {}
      BY <1>4
    <3> QED BY <2>0, <3>2, <3>3 DEF DequeIsTheTail
  <2>3. NoDocumentTwice'
    BY <1>4 DEF NoDocumentTwice
  <2> QED BY <2>1, <2>2, <2>3
<1>8. CursorsApart'
  <2>1. PICK h : h = head'  OBVIOUS
  <2>2. PICK g : g = [k \in 0..0 |-> h]  OBVIOUS
  <2>3. g \in [0..0 -> Ids] /\ g[0] = h
    BY <1>1, <2>1, <2>2 DEF Ids
  <2>4. WayOf(g, 0)'
    BY <1>1, <2>1, <2>3 DEF WayOf
  <2>5. \E q : WayOf(q, Len(yielded))'
    BY <1>4, <2>4
  <2> QED BY <1>1, <1>4, <2>5 DEF CursorsApart
<1> QED BY <1>6, <1>7, <1>8 DEF WalkInvariant

\* The invariant of the walk.
THEOREM WalkSafety == WalkSpec => []WalkInvariant
<1>1. WalkInit => WalkInvariant
  <2> SUFFICES ASSUME WalkInit PROVE WalkInvariant  OBVIOUS
  <2>1. yielded = <<>> /\ deque = <<>> /\ walked = "idle" /\ limit = 0
    BY DEF WalkInit
  <2>2. Len(yielded) = 0 /\ Len(deque) = 0 /\ yielded \in Seq(Snapshots) /\ deque \in Seq(Snapshots)
    BY <2>1
  <2>3. WalkTypes
    BY <2>1, <2>2 DEF WalkTypes
  <2>4. YieldsTheChain
    BY <2>1, <2>2 DEF YieldsTheChain
  <2>5. DequeIsTheTail
    BY <2>1, <2>2 DEF DequeIsTheTail
  <2>6. CursorsApart /\ NoDocumentTwice
    BY <2>1, <2>2 DEF CursorsApart, NoDocumentTwice
  <2> QED BY <2>3, <2>4, <2>5, <2>6 DEF WalkInvariant
<1>2. WalkInvariant /\ [WalkNext]_walkVars => WalkInvariant'
  <2> SUFFICES ASSUME WalkInvariant, [WalkNext]_walkVars PROVE WalkInvariant'
    OBVIOUS
  <2>1. CASE StartWalk  BY <2>1, StartKeeps
  <2>2. CASE iter_snapshot_documents  BY <2>2, TurnKeeps
  <2>3. CASE Missing
    <3>1. /\ walked' = "done" /\ yielded' = yielded /\ deque' = deque /\ parent' = parent
          /\ head' = head /\ stop' = stop /\ limit' = limit /\ walked = "running"
      BY <2>3 DEF Missing, chain
    <3>2. WalkTypes'
      BY <3>1 DEF WalkInvariant, WalkTypes
    <3>3. YieldsTheChain' /\ DequeIsTheTail' /\ NoDocumentTwice' /\ CursorsApart'
      BY <3>1 DEF WalkInvariant, YieldsTheChain, DequeIsTheTail, NoDocumentTwice, CursorsApart
    <3> QED BY <3>2, <3>3 DEF WalkInvariant
  <2>4. CASE UNCHANGED walkVars
    <3>1. /\ walked' = walked /\ yielded' = yielded /\ deque' = deque /\ parent' = parent
          /\ head' = head /\ stop' = stop /\ limit' = limit /\ cursor' = cursor /\ slow' = slow
          /\ fast' = fast
      BY <2>4 DEF walkVars, chain
    <3>2. WalkTypes' /\ YieldsTheChain' /\ DequeIsTheTail' /\ NoDocumentTwice'
      BY <3>1 DEF WalkInvariant, WalkTypes, YieldsTheChain, DequeIsTheTail, NoDocumentTwice
    <3>3. CursorsApart'
      BY <3>1 DEF WalkInvariant, CursorsApart, WayOf, next_snapshot_id
    <3> QED BY <3>2, <3>3 DEF WalkInvariant
  <2> QED BY <2>1, <2>2, <2>3, <2>4 DEF WalkNext
<1> QED BY <1>1, <1>2, PTL DEF WalkSpec

\* Whatever the parents of the metadata are, missing or cyclic, the walk yields no document
\* twice (iter_snapshot_documents).
THEOREM NoDocumentTwiceHolds == WalkSpec => []NoDocumentTwice
<1>1. WalkInvariant => NoDocumentTwice
  BY DEF WalkInvariant
<1> QED BY <1>1, WalkSafety, PTL

\* bounded_snapshot_documents is the head followed by the oldest documents the walk saw, in
\* lineage order and ending in the recorded ancestor if the walk found it, for every limit.
THEOREM RetainsTheTailHolds == WalkSpec => []RetainsTheTail
<1>1. WalkInvariant => RetainsTheTail
  <2> SUFFICES ASSUME WalkInvariant PROVE RetainsTheTail
    OBVIOUS
  <2>1. PICK n : n = Len(yielded)  OBVIOUS
  <2>2. PICK l : l = Len(deque)  OBVIOUS
  <2>3. /\ yielded \in Seq(Snapshots) /\ deque \in Seq(Snapshots) /\ limit \in Nat
        /\ n \in Nat /\ l \in Nat /\ l <= n
        /\ \A i \in 1..n : yielded[i] \in Snapshots
    BY <2>1, <2>2, ElementOfSeq DEF WalkInvariant, WalkTypes, DequeIsTheTail
  <2>4. /\ Len(deque) <= limit + 1
        /\ \A i \in 1..l : deque[i] = yielded[n - l + i]
        /\ n # 0 => l # 0
    <3>1. n = 0 <=> yielded = <<>>
      BY <2>1, <2>3, EmptySeq
    <3>2. l = 0 <=> deque = <<>>
      BY <2>2, <2>3, EmptySeq
    <3> QED BY <2>1, <2>2, <3>1, <3>2 DEF WalkInvariant, DequeIsTheTail
  <2>5. /\ n # 0 => yielded[1] = head
        /\ \A i \in 1..(n - 1) : parent[yielded[i]] = yielded[i + 1] /\ yielded[i] # stop
    BY <2>1, <2>3, EmptySeq DEF WalkInvariant, YieldsTheChain
  <2>6. \A i, j \in 1..n : yielded[i] = yielded[j] => i = j
    BY <2>1 DEF WalkInvariant, NoDocumentTwice
  <2>7. ASSUME NEW i \in 1..(l - 1) PROVE parent[deque[i]] = deque[i + 1]
    <3>1. i \in 1..l /\ i + 1 \in 1..l /\ n - l + i \in 1..(n - 1) /\ n - l + (i + 1) = (n - l + i) + 1
      BY <2>3
    <3> QED BY <2>4, <2>5, <3>1
  <2>8. \A i \in 1..l : deque[i] = head => n = l /\ i = 1
    <3> SUFFICES ASSUME NEW i \in 1..l, deque[i] = head PROVE n = l /\ i = 1
      OBVIOUS
    <3>1. n - l + i \in 1..n /\ 1 \in 1..n /\ n # 0
      BY <2>3
    <3>2. yielded[n - l + i] = yielded[1]
      BY <2>4, <2>5, <3>1
    <3>3. n - l + i = 1
      BY <2>6, <3>1, <3>2
    <3> QED BY <2>3, <3>3
  <2>9. PICK documents : documents = bounded_snapshot_documents  OBVIOUS
  <2>10. \/ documents = deque /\ (n = 0 \/ \E i \in 1..l : deque[i] = head)
         \/ documents = <<head>> \o deque /\ n # 0 /\ \A i \in 1..l : deque[i] # head
    <3>1. DOMAIN deque = 1..l
      BY <2>2, <2>3, LenProperties
    <3>2. n = 0 <=> yielded = <<>>
      BY <2>1, <2>3, EmptySeq
    <3> QED BY <2>9, <3>1, <3>2 DEF bounded_snapshot_documents
  <2>11. ASSUME n # 0, stop \in {yielded[i] : i \in 1..n} PROVE deque[l] = stop
    <3>1. PICK i \in 1..n : yielded[i] = stop
      BY <2>11
    <3>2. i = n
      BY <2>3, <2>5, <3>1
    <3>3. l \in 1..l /\ n - l + l = n
      BY <2>3, <2>4, <2>11
    <3> QED BY <2>4, <3>1, <3>2, <3>3
  <2>12. /\ \A i \in 1..Len(documents) : documents[i] = head <=> i = 1
         /\ stop \in {yielded[i] : i \in 1..n} => documents[Len(documents)] = stop
    <3>1. CASE documents = deque /\ n = 0
      BY <2>2, <2>3, <3>1
    <3>2. CASE documents = deque /\ \E i \in 1..l : deque[i] = head
      <4>1. n = l /\ deque[1] = head /\ l # 0
        BY <2>3, <2>8, <3>2
      <4>2. Len(documents) = l
        BY <2>2, <3>2
      <4>3. \A i \in 1..l : deque[i] = head <=> i = 1
        BY <2>8, <4>1
      <4> QED BY <2>11, <3>2, <4>1, <4>2, <4>3
    <3>3. CASE documents = <<head>> \o deque /\ n # 0 /\ \A i \in 1..l : deque[i] # head
      <4>1. head \in Snapshots
        BY <2>3, <2>5, <3>3
      <4>2. <<head>> \in Seq(Snapshots) /\ Len(<<head>>) = 1 /\ <<head>>[1] = head
        BY <4>1
      <4>3. Len(documents) = 1 + l /\ documents[1] = head /\ \A i \in 2..(1 + l) : documents[i] = deque[i - 1]
        <5>1. /\ Len(documents) = Len(<<head>>) + Len(deque)
              /\ \A i \in 1..(Len(<<head>>) + Len(deque)) :
                   documents[i] = IF i <= Len(<<head>>) THEN <<head>>[i] ELSE deque[i - Len(<<head>>)]
          BY <2>3, <3>3, <4>2, ConcatProperties
        <5> QED BY <2>2, <2>3, <4>2, <5>1
      <4>4. ASSUME NEW i \in 1..(1 + l) PROVE documents[i] = head <=> i = 1
        <5>1. CASE i = 1  BY <4>3, <5>1
        <5>2. CASE i # 1
          <6>1. i \in 2..(1 + l) /\ i - 1 \in 1..l
            BY <2>3, <5>2
          <6> QED BY <3>3, <4>3, <5>2, <6>1
        <5> QED BY <5>1, <5>2
      <4>5. documents[1 + l] = deque[l]
        <5>1. 1 + l \in 2..(1 + l) /\ (1 + l) - 1 = l
          BY <2>3, <2>4, <3>3
        <5> QED BY <4>3, <5>1
      <4> QED BY <2>11, <3>3, <4>3, <4>4, <4>5
    <3> QED BY <2>10, <3>1, <3>2, <3>3
  <2> QED BY <2>1, <2>2, <2>4, <2>7, <2>9, <2>12 DEF RetainsTheTail
<1> QED BY <1>1, WalkSafety, PTL


=============================================================================
