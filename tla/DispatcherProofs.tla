--------------------------- MODULE DispatcherProofs ---------------------------
(***************************************************************************)
(* What a running claim's lease depends on, for every number of processes, *)
(* datasets, batch size and pair of durations with Heartbeat below         *)
(* LeaseDuration, and however late renewals come.  The property alone is   *)
(* not inductive: it says whether the lease is live now, not for how long. *)
(* The invariant gives what is left of it, and needs to know that what a   *)
(* process executes is a claim of its own batch.                           *)
(***************************************************************************)
EXTENDS Dispatcher, FiniteSetTheorems, TLAPS

WorkStates == {"PENDING", "RETRY_WAIT", "RUNNING", "SUCCEEDED", "BLOCKED"}

Rows ==
  [state : WorkStates, owner : Processes \cup {Nobody}, lease : Nat, wait : Nat, attempts : Nat]

Positions ==
  {"plan", "claim", "begin", "execute", "reconcile", "sweep", "sleep", "exited"}

Holding == {"begin", "execute", "reconcile"}

Cycles ==
  [pc : Positions, batch : Seq(Datasets), size : Nat, drains : Nat, beat : 0..Heartbeat, late : Nat,
   lost : BOOLEAN, granted : Nat, outcome : {"none", "success", "retry", "block"}]

DispatchTypes ==
  /\ row \in [Datasets -> Rows]
  /\ proc \in [Processes -> Cycles]
  /\ faults \in Nat

\* A process at work has a claim at the head of its batch, and a result when it
\* reconciles it.
WorksOnAClaim ==
  \A p \in Processes :
    /\ proc[p].pc \in Holding => proc[p].batch # <<>>
    /\ proc[p].pc = "reconcile" => proc[p].outcome # "none"

\* What is left of the lease is what was granted less the time since.
BeatsInTime ==
  \A p \in Processes : Beating(p) =>
    /\ InTime(p) => /\ row[Current(p)].state = "RUNNING"
                    /\ row[Current(p)].owner = p
                    /\ row[Current(p)].lease = proc[p].granted - Elapsed(p)
    /\ ~InTime(p) => ~lease_is_current(p, Current(p))

HeartbeatInvariant == DispatchTypes /\ WorksOnAClaim /\ BeatsInTime
-----------------------------------------------------------------------------
(* The operators the actions are built from.                               *)

\* The smaller of two numbers is one of them.
LEMMA SmallerOne ==
  ASSUME NEW m \in Nat, NEW n \in Nat
  PROVE  Min({m, n}) \in {m, n}
<1>1. \E x \in {m, n} : \A y \in {m, n} : x =< y
  <2>1. CASE m =< n  BY <2>1
  <2>2. CASE ~(m =< n)  BY <2>2
  <2> QED BY <2>1, <2>2
<1> QED BY <1>1 DEF Min

\* The batches claim_due_work may choose from are sequences of due datasets.
LEMMA BatchesOfDue ==
  ASSUME NEW S \in SUBSET Datasets, NEW batch \in SetToAllKPermutations(S)
  PROVE  batch \in Seq(Datasets) /\ ToSet(batch) \subseteq S
<1>1. PICK s \in SUBSET S : batch \in SetToSeqs(s)
  BY DEF SetToAllKPermutations
<1>2. batch \in [1..Cardinality(s) -> s]
  BY <1>1 DEF SetToSeqs
<1>3. IsFiniteSet(s)
  BY SettingsAssumption, FS_Subset
<1>4. Cardinality(s) \in Nat
  BY <1>3, FS_CardinalityType
<1>5. batch \in [1..Cardinality(s) -> Datasets]
  BY <1>2
<1>6. batch \in Seq(Datasets)
  BY <1>4, <1>5
<1>7. \A i \in DOMAIN batch : batch[i] \in S
  BY <1>2
<1> QED BY <1>6, <1>7 DEF ToSet

\* The size of a claimed batch is a number, and zero only when nothing is due.
LEMMA BatchSizes ==
  ASSUME NEW S \in SUBSET Datasets
  PROVE  Min({BatchSize, Cardinality(S)}) \in Nat
<1>1. Cardinality(S) \in Nat
  BY SettingsAssumption, FS_Subset, FS_CardinalityType
<1>2. BatchSize \in Nat
  BY SettingsAssumption
<1> QED BY <1>1, <1>2, SmallerOne

\* The current claim of a process is a dataset.
LEMMA CurrentIsADataset ==
  ASSUME DispatchTypes, WorksOnAClaim, NEW p \in Processes, proc[p].pc \in Holding
  PROVE  Current(p) \in Datasets /\ Tail(proc[p].batch) \in Seq(Datasets)
<1>1. proc[p].batch \in Seq(Datasets)
  BY DEF DispatchTypes, Cycles
<1>2. proc[p].batch # <<>>
  BY DEF WorksOnAClaim
<1> QED BY <1>1, <1>2 DEF Current

\* Releasing expired leases keeps the rows well formed, and every live lease.
LEMMA ReleaseKeepsLive ==
  ASSUME row \in [Datasets -> Rows], NEW r, r = release_expired_leases(row)
  PROVE  /\ r \in [Datasets -> Rows]
         /\ \A d \in Datasets : row[d].lease > 0 => r[d] = row[d]
<1>1. ASSUME NEW d \in Datasets PROVE row[d] \in Rows  BY <1>1
<1>2. ASSUME NEW d \in Datasets
      PROVE  [row[d] EXCEPT !.state = "RETRY_WAIT", !.owner = Nobody, !.wait = 0] \in Rows
  BY <1>1 DEF Rows, WorkStates
<1>3. \A d \in Datasets : row[d].lease > 0 => row[d].lease # 0
  BY DEF Rows
<1> QED BY <1>1, <1>2, <1>3 DEF release_expired_leases

\* A claimed row is a row.
LEMMA ClaimedIsARow ==
  ASSUME NEW r \in [Datasets -> Rows], NEW p \in Processes, NEW d \in Datasets
  PROVE  Claimed(r, p, d) \in Rows
<1>1. PICK x : x = r[d]  OBVIOUS
<1>2. x \in Rows  BY <1>1
<1>3. LeaseDuration \in Nat /\ MaxAttempts \in Nat  BY SettingsAssumption
<1>4. PICK a : a = IF x.attempts < MaxAttempts THEN x.attempts + 1 ELSE x.attempts
  OBVIOUS
<1>5. a \in Nat
  BY <1>2, <1>3, <1>4 DEF Rows
<1>6. Claimed(r, p, d) =
        [x EXCEPT !.state = "RUNNING", !.owner = p, !.lease = LeaseDuration, !.wait = 0, !.attempts = a]
  BY <1>1, <1>4 DEF Claimed
<1>7. [x EXCEPT !.state = "RUNNING", !.owner = p, !.lease = LeaseDuration, !.wait = 0, !.attempts = a]
        \in Rows
  BY <1>2, <1>3, <1>5 DEF Rows, WorkStates
<1> QED BY <1>6, <1>7

-----------------------------------------------------------------------------
(* What a step must show.  A step of another process keeps BeatsInTime     *)
(* when it leaves the row alone, or when the row was lost and stays so.    *)

\* The row q works on after a step of another process.
LeftAlone(q) ==
  \/ row'[Current(q)] = row[Current(q)]
  \/ /\ ~lease_is_current(q, Current(q))
     /\ row'[Current(q)].state # "RUNNING" \/ row'[Current(q)].owner # q

\* The time since the lease was last seen, from the record of a cycle.
LEMMA ElapsedIsANumber ==
  ASSUME HeartbeatInvariant, NEW q \in Processes
  PROVE  Elapsed(q) \in Nat /\ proc[q].granted \in Nat
<1>1. proc[q] \in Cycles
  BY DEF HeartbeatInvariant, DispatchTypes
<1>2. proc[q].beat \in 0..Heartbeat /\ proc[q].late \in Nat /\ proc[q].granted \in Nat
  BY <1>1 DEF Cycles
<1> QED BY <1>2, SettingsAssumption DEF Elapsed

\* A beating process has a dataset, and its lease is current exactly in time.
LEMMA BeatingIsCurrent ==
  ASSUME HeartbeatInvariant, NEW q \in Processes, Beating(q)
  PROVE  /\ Current(q) \in Datasets
         /\ lease_is_current(q, Current(q)) <=> InTime(q)
<1>1. Current(q) \in Datasets
  BY CurrentIsADataset DEF HeartbeatInvariant, Beating, In, Holding
<1>2. CASE InTime(q)
  <2>1. proc[q].granted - Elapsed(q) > 0
    BY <1>2, ElapsedIsANumber DEF InTime
  <2> QED BY <1>1, <1>2, <2>1 DEF HeartbeatInvariant, BeatsInTime, lease_is_current
<1>3. CASE ~InTime(q)
  BY <1>1, <1>3 DEF HeartbeatInvariant, BeatsInTime
<1> QED BY <1>1, <1>2, <1>3

\* The other processes through a step that leaves them and their rows alone.
LEMMA OthersKeepBeating ==
  ASSUME HeartbeatInvariant, NEW q \in Processes, proc'[q] = proc[q],
         Beating(q) => LeftAlone(q)
  PROVE  Beating(q)' =>
           /\ InTime(q)' => /\ row'[Current(q)'].state = "RUNNING"
                            /\ row'[Current(q)'].owner = q
                            /\ row'[Current(q)'].lease = proc'[q].granted - Elapsed(q)'
           /\ ~InTime(q)' => ~lease_is_current(q, Current(q))'
<1>1. Current(q)' = Current(q)  BY DEF Current
<1>2. (Beating(q)' <=> Beating(q)) /\ Elapsed(q)' = Elapsed(q) /\ (InTime(q)' <=> InTime(q))
  BY DEF Beating, In, Elapsed, InTime
<1> SUFFICES ASSUME Beating(q)
             PROVE  /\ InTime(q) => /\ row'[Current(q)].state = "RUNNING"
                                    /\ row'[Current(q)].owner = q
                                    /\ row'[Current(q)].lease = proc[q].granted - Elapsed(q)
                    /\ ~InTime(q) => ~lease_is_current(q, Current(q))'
  BY <1>1, <1>2
<1>3. CASE row'[Current(q)] = row[Current(q)]
  BY <1>1, <1>3 DEF HeartbeatInvariant, BeatsInTime, lease_is_current
<1>4. CASE /\ ~lease_is_current(q, Current(q))
           /\ row'[Current(q)].state # "RUNNING" \/ row'[Current(q)].owner # q
  BY <1>1, <1>4, BeatingIsCurrent DEF lease_is_current
<1> QED BY <1>3, <1>4 DEF LeftAlone

\* A step of one process: its own new record, and the rows of the others.
LEMMA OneProcessSteps ==
  ASSUME HeartbeatInvariant, NEW p \in Processes, NEW v \in Cycles,
         proc' = [proc EXCEPT ![p] = v],
         row' \in [Datasets -> Rows], faults' \in Nat,
         v.pc \in Holding => v.batch # <<>>,
         v.pc = "reconcile" => v.outcome # "none",
         v.pc = "execute" /\ ~v.lost =>
           /\ v.beat = Heartbeat /\ v.late = 0 /\ v.granted > 0
           /\ row'[Head(v.batch)].state = "RUNNING"
           /\ row'[Head(v.batch)].owner = p
           /\ row'[Head(v.batch)].lease = v.granted,
         \A q \in Processes \ {p} : Beating(q) => LeftAlone(q)
  PROVE  HeartbeatInvariant'
<1>1. proc \in [Processes -> Cycles]
  BY DEF HeartbeatInvariant, DispatchTypes
<1>2. proc'[p] = v /\ \A q \in Processes \ {p} : proc'[q] = proc[q]
  BY <1>1
<1>3. DispatchTypes'
  BY <1>1 DEF DispatchTypes
<1>4. WorksOnAClaim'
  BY <1>2 DEF HeartbeatInvariant, WorksOnAClaim
<1>5. BeatsInTime'
  <2> SUFFICES ASSUME NEW q \in Processes, Beating(q)'
               PROVE  /\ InTime(q)' => /\ row'[Current(q)'].state = "RUNNING"
                                       /\ row'[Current(q)'].owner = q
                                       /\ row'[Current(q)'].lease = proc'[q].granted - Elapsed(q)'
                      /\ ~InTime(q)' => ~lease_is_current(q, Current(q))'
    BY DEF BeatsInTime
  <2>1. CASE q = p
    <3>1. proc'[q] = v  BY <1>2, <2>1
    <3>2. v.pc = "execute" /\ ~v.lost  BY <3>1 DEF Beating, In
    <3>3. Current(q)' = Head(v.batch)  BY <3>1 DEF Current
    <3>4. Elapsed(q)' = (Heartbeat - v.beat) + v.late /\ (InTime(q)' <=> v.granted > Elapsed(q)')
      BY <3>1 DEF Elapsed, InTime
    <3>5. Elapsed(q)' = 0 /\ InTime(q)' /\ v.granted \in Nat
      BY <3>2, <3>4, SettingsAssumption DEF Cycles
    <3>6. v.granted - Elapsed(q)' = v.granted
      BY <3>5
    <3> QED BY <2>1, <3>1, <3>2, <3>3, <3>5, <3>6
  <2>2. CASE q # p
    <3>1. proc'[q] = proc[q]  BY <1>2, <2>2
    <3> QED BY <2>2, <3>1, OthersKeepBeating
  <2> QED BY <2>1, <2>2
<1> QED BY <1>3, <1>4, <1>5 DEF HeartbeatInvariant

\* A step that leaves the rows alone leaves everyone's alone.
LEMMA RowsUnchanged ==
  ASSUME row' = row
  PROVE  \A q \in Processes : LeftAlone(q)
BY DEF LeftAlone

\* A process that is not at work needs nothing of the rows.
LEMMA GoesIdle ==
  ASSUME HeartbeatInvariant, NEW p \in Processes, NEW pc \in Positions \ Holding,
         proc' = [proc EXCEPT ![p] = [IdleProcess EXCEPT !.pc = pc]],
         row' = row, faults' \in Nat
  PROVE  HeartbeatInvariant'
<1>1. PICK v : v = [IdleProcess EXCEPT !.pc = pc]  OBVIOUS
<1>2. v \in Cycles /\ v.pc = pc
  <2>1. <<>> \in Seq(Datasets)  OBVIOUS
  <2>2. v = [pc |-> pc, batch |-> <<>>, size |-> 0, drains |-> 0, beat |-> 0, late |-> 0,
             lost |-> FALSE, granted |-> 0, outcome |-> "none"]
    BY <1>1 DEF IdleProcess
  <2>3. pc \in Positions /\ 0 \in 0..Heartbeat  BY SettingsAssumption
  <2> QED BY <2>1, <2>2, <2>3 DEF Cycles
<1>3. v.pc \notin Holding /\ v.pc # "reconcile" /\ v.pc # "execute"
  BY <1>2 DEF Holding
<1>4. row' \in [Datasets -> Rows]
  BY DEF HeartbeatInvariant, DispatchTypes
<1> QED BY <1>1, <1>2, <1>3, <1>4, RowsUnchanged, OneProcessSteps

\* The fault budget only grows.
LEMMA FaultTypes ==
  ASSUME faults \in Nat, Fault \/ UNCHANGED faults
  PROVE  faults' \in Nat
BY DEF Fault

-----------------------------------------------------------------------------
(* One lemma per action.                                                   *)

\* plan_and_enqueue_snapshots keeps the invariant.
LEMMA PlanKeeps ==
  ASSUME HeartbeatInvariant, NEW p \in Processes, Plan(p)
  PROVE  HeartbeatInvariant'
<1>1. PICK next \in {"claim", "sleep", "exited"} :
        proc' = [proc EXCEPT ![p] = [IdleProcess EXCEPT !.pc = next]]
  BY DEF Plan
<1>2. row' = row /\ faults' \in Nat
  BY DEF Plan, HeartbeatInvariant, DispatchTypes
<1>3. next \in Positions \ Holding
  BY DEF Positions, Holding
<1> QED BY <1>1, <1>2, <1>3, GoesIdle

\* The end of a cycle keeps the invariant.
LEMMA SweepKeeps ==
  ASSUME HeartbeatInvariant, NEW p \in Processes, Sweep(p)
  PROVE  HeartbeatInvariant'
<1>1. IdleProcess = [IdleProcess EXCEPT !.pc = "plan"]
  BY DEF IdleProcess
<1>2. \E pc \in {"plan", "sleep"} : proc' = [proc EXCEPT ![p] = [IdleProcess EXCEPT !.pc = pc]]
  BY <1>1 DEF Sweep
<1>3. row' = row /\ faults' \in Nat
  BY DEF Sweep, HeartbeatInvariant, DispatchTypes
<1>4. "plan" \in Positions \ Holding /\ "sleep" \in Positions \ Holding
  BY DEF Positions, Holding
<1> QED BY <1>2, <1>3, <1>4, GoesIdle

\* A crash keeps the invariant: the rows of the process stay behind with their leases.
LEMMA CrashKeeps ==
  ASSUME HeartbeatInvariant, NEW p \in Processes, Crash(p)
  PROVE  HeartbeatInvariant'
<1>1. IdleProcess = [IdleProcess EXCEPT !.pc = "plan"]
  BY DEF IdleProcess
<1>2. proc' = [proc EXCEPT ![p] = [IdleProcess EXCEPT !.pc = "plan"]]
  BY <1>1 DEF Crash
<1>3. row' = row /\ faults' \in Nat
  BY FaultTypes DEF Crash, HeartbeatInvariant, DispatchTypes
<1>4. "plan" \in Positions \ Holding
  BY DEF Positions, Holding
<1> QED BY <1>2, <1>3, <1>4, GoesIdle

\* Claiming a batch of rows nobody works on keeps the invariant.
LEMMA ClaimingKeeps ==
  ASSUME HeartbeatInvariant, NEW p \in Processes,
         NEW r \in [Datasets -> Rows], NEW batch \in Seq(Datasets), NEW size \in Nat,
         batch # <<>>,
         row' = [d \in Datasets |-> IF d \in ToSet(batch) THEN Claimed(r, p, d) ELSE r[d]],
         proc' = [proc EXCEPT ![p] = [@ EXCEPT !.pc = "begin", !.batch = batch, !.size = size,
                                               !.drains = proc[p].drains + 1]],
         faults' \in Nat,
         \A q \in Processes \ {p} : Beating(q) => LeftAlone(q)
  PROVE  HeartbeatInvariant'
<1>1. PICK c : c = proc[p]  OBVIOUS
<1>2. c \in Cycles
  BY <1>1 DEF HeartbeatInvariant, DispatchTypes
<1>n. PICK n : n = c.drains + 1  OBVIOUS
<1>m. n \in Nat  BY <1>2, <1>n DEF Cycles
<1>3. PICK v : v = [c EXCEPT !.pc = "begin", !.batch = batch, !.size = size, !.drains = n]
  OBVIOUS
<1>4. proc' = [proc EXCEPT ![p] = v]
  BY <1>1, <1>3, <1>n
<1>5. v \in Cycles /\ v.pc = "begin" /\ v.batch = batch
  BY <1>2, <1>3, <1>m DEF Cycles, Positions
<1>6. \A d \in Datasets : Claimed(r, p, d) \in Rows
  BY ClaimedIsARow
<1>7. row' \in [Datasets -> Rows]
  BY <1>6
<1> QED BY <1>4, <1>5, <1>7, OneProcessSteps

\* claim_due_work keeps the invariant: it releases only leases that ran out, and claims
\* only rows that nobody runs.
LEMMA ClaimKeeps ==
  ASSUME HeartbeatInvariant, NEW p \in Processes, claim_due_work(p)
  PROVE  HeartbeatInvariant'
<1> DEFINE released == release_expired_leases(row)
           size == Min({BatchSize, Cardinality(Due(released))})
<1>0. In(p, "claim") /\ faults' = faults
  BY DEF claim_due_work
<1>1. \/ row' = released /\ proc' = [proc EXCEPT ![p].pc = "sweep"]
      \/ \E batch \in SetToAllKPermutations(Due(released)) :
           /\ size # 0 /\ Len(batch) = size
           /\ row' = [d \in Datasets |-> IF d \in ToSet(batch) THEN Claimed(released, p, d) ELSE released[d]]
           /\ proc' = [proc EXCEPT ![p] = [@ EXCEPT !.pc = "begin", !.batch = batch, !.size = size,
                                                    !.drains = proc[p].drains + 1]]
  BY DEF claim_due_work
<1>2. /\ released \in [Datasets -> Rows]
      /\ \A d \in Datasets : row[d].lease > 0 => released[d] = row[d]
  BY ReleaseKeepsLive DEF HeartbeatInvariant, DispatchTypes
<1>3. Due(released) \in SUBSET Datasets /\ \A d \in Due(released) : released[d].state # "RUNNING"
  BY DEF Due
<1>4. size \in Nat
  BY <1>3, BatchSizes
<1>5. proc[p] \in Cycles /\ proc[p].pc = "claim" /\ faults' \in Nat
  BY <1>0 DEF In, HeartbeatInvariant, DispatchTypes
<1>6. ASSUME NEW q \in Processes, Beating(q)
      PROVE  /\ Current(q) \in Datasets
             /\ Current(q) \in Due(released) => ~lease_is_current(q, Current(q))
             /\ \/ released[Current(q)] = row[Current(q)]
                \/ /\ ~lease_is_current(q, Current(q))
                   /\ released[Current(q)].state # "RUNNING"
  <2>1. Current(q) \in Datasets
    BY <1>6, BeatingIsCurrent
  <2>2. lease_is_current(q, Current(q)) =>
          released[Current(q)] = row[Current(q)] /\ Current(q) \notin Due(released)
    BY <1>2, <1>3, <2>1 DEF lease_is_current
  <2>3. released[Current(q)] # row[Current(q)] => released[Current(q)].state # "RUNNING"
    <3>1. row[Current(q)] \in Rows
      BY <2>1 DEF HeartbeatInvariant, DispatchTypes
    <3> QED BY <2>1, <3>1 DEF release_expired_leases, Rows
  <2> QED BY <2>1, <2>2, <2>3
<1> HIDE DEF released, size
<1>7. CASE row' = released /\ proc' = [proc EXCEPT ![p].pc = "sweep"]
  <2>1. PICK v : v = [proc[p] EXCEPT !.pc = "sweep"]  OBVIOUS
  <2>2. proc' = [proc EXCEPT ![p] = v]
    BY <1>7, <2>1
  <2>3. v \in Cycles /\ v.pc = "sweep"
    BY <1>5, <2>1 DEF Cycles, Positions
  <2>4. v.pc \notin Holding /\ v.pc # "reconcile" /\ v.pc # "execute"
    BY <2>3 DEF Holding
  <2>5. \A q \in Processes \ {p} : Beating(q) => LeftAlone(q)
    BY <1>6, <1>7 DEF LeftAlone
  <2> QED BY <1>2, <1>5, <1>7, <2>2, <2>3, <2>4, <2>5, OneProcessSteps
<1>8. CASE \E batch \in SetToAllKPermutations(Due(released)) :
             /\ size # 0 /\ Len(batch) = size
             /\ row' = [d \in Datasets |-> IF d \in ToSet(batch) THEN Claimed(released, p, d) ELSE released[d]]
             /\ proc' = [proc EXCEPT ![p] = [@ EXCEPT !.pc = "begin", !.batch = batch, !.size = size,
                                                      !.drains = proc[p].drains + 1]]
  <2>1. PICK batch \in SetToAllKPermutations(Due(released)) :
          /\ size # 0 /\ Len(batch) = size
          /\ row' = [d \in Datasets |-> IF d \in ToSet(batch) THEN Claimed(released, p, d) ELSE released[d]]
          /\ proc' = [proc EXCEPT ![p] = [@ EXCEPT !.pc = "begin", !.batch = batch, !.size = size,
                                                   !.drains = proc[p].drains + 1]]
    BY <1>8
  <2>2. batch \in Seq(Datasets) /\ ToSet(batch) \subseteq Due(released)
    BY <1>3, BatchesOfDue
  <2>3. batch # <<>>
    BY <2>1, <2>2
  <2>4. PICK n : n = size  OBVIOUS
  <2>5. PICK r : r = released  OBVIOUS
  <2>6. PICK b : b = batch  OBVIOUS
  <2>7. /\ n \in Nat /\ b \in Seq(Datasets) /\ b # <<>>
        /\ r \in [Datasets -> Rows]
    BY <1>2, <1>4, <2>2, <2>3, <2>4, <2>5, <2>6
  <2>8. row' = [d \in Datasets |-> IF d \in ToSet(b) THEN Claimed(r, p, d) ELSE r[d]]
    BY <2>1, <2>5, <2>6
  <2>9. proc' = [proc EXCEPT ![p] = [@ EXCEPT !.pc = "begin", !.batch = b, !.size = n, !.drains = proc[p].drains + 1]]
    BY <2>1, <2>4, <2>6
  <2>10. ASSUME NEW q \in Processes \ {p}, Beating(q)
         PROVE  LeftAlone(q)
    <3>1. Current(q) \in Datasets /\ row'[Current(q)] \in {released[Current(q)], Claimed(released, p, Current(q))}
      BY <1>6, <2>1, <2>10
    <3>2. Current(q) \in ToSet(batch) => Current(q) \in Due(released)
      BY <2>2
    <3>3. CASE Current(q) \in ToSet(batch)
      <4>1. row'[Current(q)] = Claimed(released, p, Current(q))  BY <2>1, <3>1, <3>3
      <4>2. released[Current(q)] \in Rows  BY <1>2, <3>1
      <4>3. row'[Current(q)].owner = p  BY <4>1, <4>2 DEF Claimed, Rows
      <4> QED BY <1>6, <2>10, <3>2, <3>3, <4>3 DEF LeftAlone
    <3>4. CASE Current(q) \notin ToSet(batch)
      <4>1. row'[Current(q)] = released[Current(q)]  BY <2>1, <3>1, <3>4
      <4> QED BY <1>6, <2>10, <4>1 DEF LeftAlone
    <3> QED BY <3>3, <3>4
  <2>11. faults' \in Nat
    BY <1>5
  <2> QED BY <2>7, <2>8, <2>9, <2>10, <2>11, ClaimingKeeps
<1> QED BY <1>1, <1>7, <1>8

\* execute keeps the invariant: it begins with what is left of a live lease.
LEMMA ExecuteKeeps ==
  ASSUME HeartbeatInvariant, NEW p \in Processes, execute(p)
  PROVE  HeartbeatInvariant'
<1>1. In(p, "begin") /\ row' = row /\ faults' = faults
  BY DEF execute
<1>2. proc[p] \in Cycles /\ proc[p].pc = "begin" /\ faults' \in Nat /\ row' \in [Datasets -> Rows]
  BY <1>1 DEF In, HeartbeatInvariant, DispatchTypes
<1>3. Current(p) \in Datasets /\ proc[p].batch # <<>>
  BY <1>2, CurrentIsADataset DEF HeartbeatInvariant, Holding, WorksOnAClaim
<1>4. row[Current(p)].lease \in Nat /\ Heartbeat \in Nat
  BY <1>1, <1>2, <1>3, SettingsAssumption DEF Rows
<1>5. CASE lease_is_current(p, Current(p))
  <2>1. PICK v : v = [proc[p] EXCEPT !.pc = "execute", !.beat = Heartbeat, !.late = 0, !.lost = FALSE,
                                     !.granted = row[Current(p)].lease]
    OBVIOUS
  <2>2. proc' = [proc EXCEPT ![p] = v]
    BY <1>5, <2>1 DEF execute
  <2>3. /\ v \in Cycles /\ v.pc = "execute" /\ v.batch = proc[p].batch /\ v.beat = Heartbeat
        /\ v.late = 0 /\ v.granted = row[Current(p)].lease
    <3>1. Heartbeat \in 0..Heartbeat  BY <1>4
    <3> QED BY <1>2, <1>4, <2>1, <3>1 DEF Cycles, Positions
  <2>4. Head(v.batch) = Current(p)
    BY <2>3 DEF Current
  <2>5. /\ v.granted > 0
        /\ row'[Head(v.batch)].state = "RUNNING"
        /\ row'[Head(v.batch)].owner = p
        /\ row'[Head(v.batch)].lease = v.granted
    BY <1>1, <1>5, <2>3, <2>4 DEF lease_is_current
  <2> QED BY <1>1, <1>2, <1>3, <2>2, <2>3, <2>5, RowsUnchanged, OneProcessSteps
<1>6. CASE ~lease_is_current(p, Current(p))
  <2>1. PICK v : v = [proc[p] EXCEPT !.pc = "reconcile", !.outcome = "retry"]  OBVIOUS
  <2>2. proc' = [proc EXCEPT ![p] = v]
    BY <1>6, <2>1 DEF execute
  <2>3. v \in Cycles /\ v.pc = "reconcile" /\ v.batch = proc[p].batch /\ v.outcome = "retry"
    BY <1>2, <2>1 DEF Cycles, Positions
  <2> QED BY <1>1, <1>2, <1>3, <2>2, <2>3, RowsUnchanged, OneProcessSteps
<1> QED BY <1>5, <1>6

\* The heartbeat keeps the invariant: a renewal grants a whole lease and touches only a row
\* the process owns.
LEMMA BeatKeeps ==
  ASSUME HeartbeatInvariant, NEW p \in Processes, Beat(p)
  PROVE  HeartbeatInvariant'
<1>1. Beating(p) /\ In(p, "execute") /\ proc[p].pc = "execute"
  BY DEF Beat, Beating, In
<1>2. proc[p] \in Cycles /\ row \in [Datasets -> Rows] /\ faults' \in Nat
  BY FaultTypes DEF Beat, HeartbeatInvariant, DispatchTypes
<1>3. Current(p) \in Datasets /\ proc[p].batch # <<>>
  BY <1>1, CurrentIsADataset DEF HeartbeatInvariant, Holding, WorksOnAClaim
<1>4. PICK c : c = proc[p]  OBVIOUS
<1>5. c \in Cycles /\ c.pc = "execute" /\ c.batch # <<>>
  BY <1>1, <1>2, <1>3, <1>4
<1>6. CASE lease_is_current(p, Current(p)) /\ renew_lease(p, Current(p))
  <2>1. Heartbeat \in Nat /\ LeaseDuration \in Nat /\ Heartbeat < LeaseDuration
    BY SettingsAssumption
  <2>2. PICK v : v = [c EXCEPT !.beat = Heartbeat, !.late = 0, !.granted = LeaseDuration]  OBVIOUS
  <2>3. proc' = [proc EXCEPT ![p] = v]
    BY <1>4, <1>6, <2>2 DEF renew_lease
  <2>4. /\ v \in Cycles /\ v.pc = "execute" /\ v.batch = c.batch
        /\ v.beat = Heartbeat /\ v.late = 0 /\ v.granted = LeaseDuration
    <3>1. Heartbeat \in 0..Heartbeat  BY <2>1
    <3> QED BY <1>5, <2>1, <2>2, <3>1 DEF Cycles
  <2>5. PICK d : d = Current(p)  OBVIOUS
  <2>6. PICK r : r = [row[d] EXCEPT !.lease = LeaseDuration]  OBVIOUS
  <2>7. d \in Datasets /\ row[d] \in Rows /\ row[d].state = "RUNNING" /\ row[d].owner = p
    BY <1>2, <1>3, <1>6, <2>5 DEF lease_is_current
  <2>8. r \in Rows /\ r.state = "RUNNING" /\ r.owner = p /\ r.lease = LeaseDuration
    BY <2>1, <2>6, <2>7 DEF Rows
  <2>9. row' = [row EXCEPT ![d] = r]
    BY <1>6, <2>5, <2>6 DEF renew_lease
  <2>10. row' \in [Datasets -> Rows] /\ row'[d] = r
    BY <1>2, <2>7, <2>8, <2>9
  <2>11. Head(v.batch) = d
    BY <1>4, <2>4, <2>5 DEF Current
  <2>12. /\ v.granted > 0
         /\ row'[Head(v.batch)].state = "RUNNING"
         /\ row'[Head(v.batch)].owner = p
         /\ row'[Head(v.batch)].lease = v.granted
    BY <2>1, <2>4, <2>8, <2>10, <2>11
  <2>13. ASSUME NEW q \in Processes \ {p}, Beating(q)
         PROVE  LeftAlone(q)
    <3>1. Current(q) \in Datasets
      BY <2>13, BeatingIsCurrent
    <3>2. CASE Current(q) = d
      BY <2>7, <2>8, <2>10, <2>13, <3>2 DEF LeftAlone, lease_is_current
    <3>3. CASE Current(q) # d
      BY <1>2, <2>9, <3>1, <3>3 DEF LeftAlone
    <3> QED BY <3>2, <3>3
  <2> QED BY <1>2, <1>5, <2>3, <2>4, <2>10, <2>12, <2>13, OneProcessSteps
<1>7. CASE Loses(p)
  <2>1. PICK v : v = [c EXCEPT !.lost = TRUE]  OBVIOUS
  <2>2. proc' = [proc EXCEPT ![p] = v] /\ row' = row
    BY <1>4, <1>7, <2>1 DEF Loses
  <2>3. v \in Cycles /\ v.pc = "execute" /\ v.batch = c.batch /\ v.lost
    BY <1>5, <2>1 DEF Cycles
  <2> QED BY <1>2, <1>5, <2>2, <2>3, RowsUnchanged, OneProcessSteps
<1> QED BY <1>6, <1>7 DEF Beat

\* The end of an execution keeps the invariant.
LEMMA ExecutionEndsKeeps ==
  ASSUME HeartbeatInvariant, NEW p \in Processes, ExecutionEnds(p)
  PROVE  HeartbeatInvariant'
<1>1. PICK result \in {"success", "retry", "block"} :
        proc' = [proc EXCEPT ![p] = [@ EXCEPT !.pc = "reconcile", !.beat = 0, !.late = 0, !.granted = 0,
                                              !.lost = FALSE, !.outcome = IF proc[p].lost THEN "retry" ELSE result]]
  BY DEF ExecutionEnds
<1>2. proc[p].pc = "execute" /\ row' = row /\ faults' = faults
  BY DEF ExecutionEnds, In
<1>3. proc[p] \in Cycles /\ row' \in [Datasets -> Rows] /\ faults' \in Nat
  BY <1>2 DEF HeartbeatInvariant, DispatchTypes
<1>4. PICK c : c = proc[p]  OBVIOUS
<1>5. c \in Cycles /\ c.batch # <<>>
  BY <1>2, <1>3, <1>4 DEF HeartbeatInvariant, WorksOnAClaim, Holding
<1>6. PICK outcome : outcome = IF proc[p].lost THEN "retry" ELSE result  OBVIOUS
<1>7. outcome \in {"success", "retry", "block"}
  BY <1>6
<1>8. PICK v : v = [c EXCEPT !.pc = "reconcile", !.beat = 0, !.late = 0, !.granted = 0, !.lost = FALSE,
                            !.outcome = outcome]
  OBVIOUS
<1>9. proc' = [proc EXCEPT ![p] = v]
  BY <1>1, <1>4, <1>6, <1>8
<1>10. v \in Cycles /\ v.pc = "reconcile" /\ v.batch = c.batch /\ v.outcome = outcome
  <2>1. 0 \in 0..Heartbeat  BY SettingsAssumption
  <2> QED BY <1>5, <1>7, <1>8, <2>1 DEF Cycles, Positions
<1> QED BY <1>2, <1>3, <1>5, <1>7, <1>9, <1>10, RowsUnchanged, OneProcessSteps

\* The row of a settled claim is a row.
LEMMA SettledIsARow ==
  ASSUME NEW r \in Rows, NEW state \in WorkStates
  PROVE  Settled(r, state) \in Rows
BY DEF Settled, Rows

\* Every result reconciliation may write is a row, and it differs from the old one only
\* under a current lease of the process.
LEMMA ResultsAreRows ==
  ASSUME HeartbeatInvariant, NEW p \in Processes, proc[p].pc = "reconcile",
         NEW d \in Datasets, NEW r \in Results(p, d)
  PROVE  r \in Rows /\ (r = row[d] \/ lease_is_current(p, d)) /\ (r = row[d] \/ r.state # "RUNNING")
<1>1. row[d] \in Rows /\ proc[p].outcome \in {"success", "retry", "block"}
  BY DEF HeartbeatInvariant, DispatchTypes, Cycles, WorksOnAClaim
<1>2. CASE ~lease_is_current(p, d)
  BY <1>1, <1>2 DEF Results
<1>3. CASE lease_is_current(p, d)
  <2>1. "SUCCEEDED" \in WorkStates /\ "BLOCKED" \in WorkStates /\ "RETRY_WAIT" \in WorkStates
    BY DEF WorkStates
  <2>2. /\ Settled(row[d], "SUCCEEDED") \in Rows
        /\ Settled(row[d], "BLOCKED") \in Rows
        /\ Settled(row[d], "RETRY_WAIT") \in Rows
    BY <1>1, <2>1, SettledIsARow
  <2>3. ASSUME NEW w \in retry_delay
        PROVE  [Settled(row[d], "RETRY_WAIT") EXCEPT !.wait = w] \in Rows
    <3>1. w \in Nat
      BY SettingsAssumption DEF retry_delay
    <3> QED BY <2>2, <3>1 DEF Rows
  <2>a. /\ Settled(row[d], "SUCCEEDED").state # "RUNNING"
        /\ Settled(row[d], "BLOCKED").state # "RUNNING"
        /\ \A w \in retry_delay : [Settled(row[d], "RETRY_WAIT") EXCEPT !.wait = w].state # "RUNNING"
    BY <1>1, <2>2 DEF Settled, Rows
  <2>4. \A x \in retry_work(row[d]) : x \in Rows /\ x.state # "RUNNING"
    BY <2>2, <2>3, <2>a DEF retry_work
  <2>5. Results(p, d) \in {{Settled(row[d], "SUCCEEDED")}, retry_work(row[d]), {Settled(row[d], "BLOCKED")}}
    BY <1>1, <1>3 DEF Results
  <2> QED BY <1>3, <2>2, <2>a, <2>4, <2>5
<1> QED BY <1>2, <1>3

\* Reconciliation keeps the invariant: it is fenced by the lease, so that the row of
\* another process stays as it is.
LEMMA ReconcileKeeps ==
  ASSUME HeartbeatInvariant, NEW p \in Processes, reconcile(p)
  PROVE  HeartbeatInvariant'
<1>1. proc[p].pc = "reconcile" /\ proc' = [proc EXCEPT ![p] = NextClaim(p)]
  BY DEF reconcile, In
<1>2. proc[p] \in Cycles /\ row \in [Datasets -> Rows] /\ faults' \in Nat
  BY FaultTypes DEF reconcile, HeartbeatInvariant, DispatchTypes
<1>3. Current(p) \in Datasets /\ Tail(proc[p].batch) \in Seq(Datasets)
  BY <1>1, CurrentIsADataset DEF HeartbeatInvariant, Holding
<1>4. PICK d : d = Current(p)  OBVIOUS
<1>5. d \in Datasets /\ row[d] \in Rows
  BY <1>2, <1>3, <1>4
<1>6. \E r \in Rows : row' = [row EXCEPT ![d] = r]
                     /\ (r = row[d] \/ lease_is_current(p, d)) /\ (r = row[d] \/ r.state # "RUNNING")
  <2>1. CASE \E r \in Results(p, d) : row' = [row EXCEPT ![d] = r]
    BY <1>1, <1>5, <2>1, ResultsAreRows
  <2>2. CASE row' = row
    <3>1. row' = [row EXCEPT ![d] = row[d]]  BY <1>2, <1>5, <2>2
    <3> QED BY <1>5, <3>1
  <2>3. CASE lease_is_current(p, d) /\ row' = [row EXCEPT ![d] = Settled(@, "BLOCKED")]
    <3>1. Settled(row[d], "BLOCKED") \in Rows /\ Settled(row[d], "BLOCKED").state # "RUNNING"
      BY <1>5, SettledIsARow DEF WorkStates, Settled, Rows
    <3> QED BY <2>3, <3>1
  <2> QED BY <1>4, <2>1, <2>2, <2>3 DEF reconcile
<1>7. PICK r \in Rows : row' = [row EXCEPT ![d] = r]
                     /\ (r = row[d] \/ lease_is_current(p, d)) /\ (r = row[d] \/ r.state # "RUNNING")
  BY <1>6
<1>8. row' \in [Datasets -> Rows]
  BY <1>2, <1>5, <1>7
<1>9. ASSUME NEW q \in Processes \ {p}, Beating(q)
      PROVE  LeftAlone(q)
  <2>1. Current(q) \in Datasets
    BY <1>9, BeatingIsCurrent
  <2>2. CASE Current(q) = d
    BY <1>2, <1>5, <1>7, <1>9, <2>1, <2>2 DEF lease_is_current, LeftAlone
  <2>3. CASE Current(q) # d
    BY <1>2, <1>7, <2>1, <2>3 DEF LeftAlone
  <2> QED BY <2>2, <2>3
<1>10. PICK c : c = proc[p]  OBVIOUS
<1>11. PICK rest : rest = Tail(proc[p].batch)  OBVIOUS
<1>12. PICK pc : pc = IF rest # <<>> THEN "begin"
                      ELSE IF proc[p].size < BatchSize \/ proc[p].drains = MaxDrains THEN "sweep" ELSE "claim"
  OBVIOUS
<1>13. pc \in Positions /\ (pc \in Holding => rest # <<>>) /\ pc # "reconcile" /\ pc # "execute"
  BY <1>12 DEF Positions, Holding
<1>14. PICK v : v = [c EXCEPT !.batch = rest, !.outcome = "none", !.pc = pc]  OBVIOUS
<1>15. NextClaim(p) = v
  BY <1>10, <1>11, <1>12, <1>14 DEF NextClaim
<1>16. c \in Cycles /\ rest \in Seq(Datasets)
  BY <1>2, <1>3, <1>10, <1>11
<1>17. v \in Cycles /\ v.pc = pc /\ v.batch = rest
  BY <1>13, <1>14, <1>16 DEF Cycles
<1>18. proc' = [proc EXCEPT ![p] = v]
  BY <1>1, <1>15
<1> QED BY <1>2, <1>8, <1>9, <1>13, <1>17, <1>18, OneProcessSteps

\* Time keeps the invariant: what is left of the lease and the time since it was granted
\* change together, whether the renewal is still to come or overdue.
LEMMA TickKeeps ==
  ASSUME HeartbeatInvariant, Tick
  PROVE  HeartbeatInvariant'
<1>1. /\ row' = [d \in Datasets |-> [row[d] EXCEPT !.lease = Down(@), !.wait = Down(@)]]
      /\ proc' = [p \in Processes |->
           [proc[p] EXCEPT !.beat = Down(@), !.late = IF Beating(p) /\ proc[p].beat = 0 THEN @ + 1 ELSE @]]
  BY DEF Tick
<1>2. faults' \in Nat
  BY FaultTypes DEF Tick, HeartbeatInvariant, DispatchTypes
<1>3. \A n \in Nat : Down(n) \in Nat
  BY DEF Down
<1>4. ASSUME NEW d \in Datasets
      PROVE  row'[d] \in Rows /\ row'[d].state = row[d].state /\ row'[d].owner = row[d].owner
             /\ row'[d].lease = Down(row[d].lease)
  <2>1. PICK r : r = row[d]  OBVIOUS
  <2>2. r \in Rows  BY <2>1 DEF HeartbeatInvariant, DispatchTypes
  <2>3. PICK l : l = Down(r.lease)  OBVIOUS
  <2>4. PICK w : w = Down(r.wait)  OBVIOUS
  <2>5. l \in Nat /\ w \in Nat  BY <1>3, <2>2, <2>3, <2>4 DEF Rows
  <2>6. row'[d] = [r EXCEPT !.lease = l, !.wait = w]  BY <1>1, <2>1, <2>2, <2>3, <2>4 DEF Rows
  <2>7. row'[d] \in Rows /\ row'[d].state = r.state /\ row'[d].owner = r.owner /\ row'[d].lease = l
    BY <2>2, <2>5, <2>6 DEF Rows
  <2> QED BY <2>1, <2>3, <2>7
<1>5. row' \in [Datasets -> Rows]
  BY <1>1, <1>4
<1>6. ASSUME NEW p \in Processes
      PROVE  /\ proc'[p] \in Cycles
             /\ proc'[p].pc = proc[p].pc /\ proc'[p].batch = proc[p].batch
             /\ proc'[p].outcome = proc[p].outcome
             /\ proc'[p].lost = proc[p].lost /\ proc'[p].granted = proc[p].granted
             /\ proc'[p].beat = Down(proc[p].beat)
             /\ Beating(p) => proc'[p].late = IF proc[p].beat = 0 THEN proc[p].late + 1 ELSE proc[p].late
  <2>1. PICK c : c = proc[p]  OBVIOUS
  <2>2. c \in Cycles  BY <2>1 DEF HeartbeatInvariant, DispatchTypes
  <2>3. PICK b : b = Down(c.beat)  OBVIOUS
  <2>4. c.beat \in 0..Heartbeat /\ c.late \in Nat  BY <2>2 DEF Cycles
  <2>5. b \in 0..Heartbeat  BY <2>3, <2>4, SettingsAssumption DEF Down
  <2>6. PICK l : l = IF Beating(p) /\ c.beat = 0 THEN c.late + 1 ELSE c.late  OBVIOUS
  <2>7. l \in Nat  BY <2>4, <2>6
  <2>8. proc'[p] = [c EXCEPT !.beat = b, !.late = l]
    <3>1. proc'[p] = [proc[p] EXCEPT !.beat = Down(proc[p].beat),
                        !.late = IF Beating(p) /\ proc[p].beat = 0 THEN proc[p].late + 1 ELSE proc[p].late]
      BY <1>1
    <3> QED BY <2>1, <2>3, <2>6, <3>1
  <2>9. proc'[p] \in Cycles  BY <2>2, <2>5, <2>7, <2>8 DEF Cycles
  <2>10. /\ proc'[p].pc = c.pc /\ proc'[p].batch = c.batch /\ proc'[p].outcome = c.outcome
         /\ proc'[p].lost = c.lost /\ proc'[p].granted = c.granted /\ proc'[p].beat = b /\ proc'[p].late = l
    BY <2>2, <2>8 DEF Cycles
  <2> QED BY <2>1, <2>3, <2>6, <2>9, <2>10
<1>7. proc' \in [Processes -> Cycles]
  BY <1>1, <1>6
<1>8. DispatchTypes'
  BY <1>2, <1>5, <1>7 DEF DispatchTypes
<1>9. WorksOnAClaim'
  BY <1>6 DEF HeartbeatInvariant, WorksOnAClaim
<1>10. ASSUME NEW p \in Processes, Beating(p)'
       PROVE  /\ InTime(p)' => /\ row'[Current(p)'].state = "RUNNING"
                               /\ row'[Current(p)'].owner = p
                               /\ row'[Current(p)'].lease = proc'[p].granted - Elapsed(p)'
              /\ ~InTime(p)' => ~lease_is_current(p, Current(p))'
  <2>1. Current(p)' = Current(p) /\ Beating(p) /\ proc'[p].granted = proc[p].granted
    BY <1>6, <1>10 DEF Current, Beating, In
  <2>2. Current(p) \in Datasets /\ Elapsed(p) \in Nat /\ proc[p].granted \in Nat
    BY <2>1, BeatingIsCurrent, ElapsedIsANumber
  <2>3. Elapsed(p)' = Elapsed(p) + 1
    <3>1. proc[p].beat \in Nat /\ proc[p].late \in Nat /\ Heartbeat \in Nat
      BY SettingsAssumption DEF HeartbeatInvariant, DispatchTypes, Cycles
    <3>2. /\ proc'[p].beat = Down(proc[p].beat)
          /\ proc'[p].late = IF proc[p].beat = 0 THEN proc[p].late + 1 ELSE proc[p].late
      BY <1>6, <2>1
    <3> QED BY <3>1, <3>2 DEF Elapsed, Down
  <2>4. /\ row'[Current(p)].state = row[Current(p)].state
        /\ row'[Current(p)].owner = row[Current(p)].owner
        /\ row'[Current(p)].lease = Down(row[Current(p)].lease)
        /\ row[Current(p)].lease \in Nat
    BY <1>4, <2>2 DEF HeartbeatInvariant, DispatchTypes, Rows
  <2>5. InTime(p)' <=> proc[p].granted > Elapsed(p) + 1
    BY <2>1, <2>3 DEF InTime
  <2>6. lease_is_current(p, Current(p))' <=>
          row[Current(p)].state = "RUNNING" /\ row[Current(p)].owner = p /\ row[Current(p)].lease > 1
    BY <2>1, <2>4 DEF lease_is_current, Down
  <2>7. CASE InTime(p)
    <3>1. /\ row[Current(p)].state = "RUNNING" /\ row[Current(p)].owner = p
          /\ row[Current(p)].lease = proc[p].granted - Elapsed(p)
          /\ proc[p].granted > Elapsed(p)
      BY <2>1, <2>7 DEF HeartbeatInvariant, BeatsInTime, InTime
    <3>2. Down(row[Current(p)].lease) = proc[p].granted - (Elapsed(p) + 1)
      BY <2>2, <3>1 DEF Down
    <3>3. row[Current(p)].lease > 1 <=> proc[p].granted > Elapsed(p) + 1
      BY <2>2, <3>1
    <3> QED BY <2>1, <2>3, <2>4, <2>5, <2>6, <3>1, <3>2, <3>3
  <2>8. CASE ~InTime(p)
    <3>1. ~lease_is_current(p, Current(p)) /\ ~(proc[p].granted > Elapsed(p))
      BY <2>1, <2>8 DEF HeartbeatInvariant, BeatsInTime, InTime
    <3>2. ~(proc[p].granted > Elapsed(p) + 1)
      BY <2>2, <3>1
    <3>3. ~lease_is_current(p, Current(p))'
      BY <2>4, <2>6, <3>1 DEF lease_is_current
    <3> QED BY <2>5, <3>2, <3>3
  <2> QED BY <2>7, <2>8
<1>11. BeatsInTime'
  BY <1>10 DEF BeatsInTime
<1> QED BY <1>8, <1>9, <1>11 DEF HeartbeatInvariant

-----------------------------------------------------------------------------

\* The invariant of the dispatcher: a process works on a claim of its own batch, and while
\* its heartbeat reports no loss its lease has left what was granted less the time since.
THEOREM DispatchSafety == DispatchSpec => []HeartbeatInvariant
<1>1. DispatchInit => HeartbeatInvariant
  <2> SUFFICES ASSUME DispatchInit PROVE HeartbeatInvariant  OBVIOUS
  <2>1. NewRow \in Rows
    BY DEF NewRow, Rows, WorkStates
  <2>2. <<>> \in Seq(Datasets)  OBVIOUS
  <2>3. IdleProcess \in Cycles
    BY <2>2, SettingsAssumption DEF IdleProcess, Cycles, Positions
  <2>4. IdleProcess.pc = "plan"
    BY DEF IdleProcess
  <2>5. \A p \in Processes : proc[p].pc = "plan"
    BY <2>4 DEF DispatchInit
  <2>6. DispatchTypes
    BY <2>1, <2>3 DEF DispatchInit, DispatchTypes
  <2>7. WorksOnAClaim /\ BeatsInTime
    BY <2>5 DEF WorksOnAClaim, BeatsInTime, Beating, In, Holding
  <2> QED BY <2>6, <2>7 DEF HeartbeatInvariant
<1>2. HeartbeatInvariant /\ [DispatchNext]_dispatchVars => HeartbeatInvariant'
  <2> SUFFICES ASSUME HeartbeatInvariant, [DispatchNext]_dispatchVars PROVE HeartbeatInvariant'
    OBVIOUS
  <2>1. CASE Tick  BY <2>1, TickKeeps
  <2>2. ASSUME NEW p \in Processes, CycleStep(p) \/ Crash(p) PROVE HeartbeatInvariant'
    BY <2>2, PlanKeeps, ClaimKeeps, ExecuteKeeps, BeatKeeps, ExecutionEndsKeeps, ReconcileKeeps,
       SweepKeeps, CrashKeeps DEF CycleStep
  <2>3. CASE UNCHANGED dispatchVars
    BY <2>3 DEF dispatchVars, HeartbeatInvariant, DispatchTypes, WorksOnAClaim, BeatsInTime, Beating, In,
                Current, InTime, Elapsed, lease_is_current
  <2> QED BY <2>1, <2>2, <2>3 DEF DispatchNext
<1> QED BY <1>1, <1>2, PTL DEF DispatchSpec

\* The heartbeat (LeaseHeartbeat): a running claim whose heartbeat reports no loss has lost
\* its lease exactly when the time since its last renewal, or since it began, has used up
\* what was granted then, whatever the other processes claim, release, reconcile or leave
\* behind and however late the renewal is.
THEOREM HeartbeatKeepsLeaseHolds == DispatchSpec => []HeartbeatKeepsLease
<1>1. HeartbeatInvariant => HeartbeatKeepsLease
  BY BeatingIsCurrent DEF HeartbeatKeepsLease
<1> QED BY <1>1, DispatchSafety, PTL

\* The heartbeats of a claim that is kept on schedule: it began, or was last renewed, with
\* more of its lease than the heartbeat and what the renewal is late by now.
OnSchedule(p) == Beating(p) /\ proc[p].granted > Heartbeat + proc[p].late

\* A claim on schedule has its lease, and it is the only one: another process that runs the
\* work of the same dataset and does not know that it lost it has outlived its own lease.
ScheduledRunnersExclude ==
  \A p \in Processes : OnSchedule(p) =>
    /\ lease_is_current(p, Current(p))
    /\ \A q \in Processes : Beating(q) /\ Current(q) = Current(p) /\ q # p => ~InTime(q)

\* Mutual exclusion of the runners, from the owner column of the claimed row: the settings'
\* rule that a heartbeat is shorter than a lease is enough while renewals come less late
\* than the difference.
THEOREM RunnersExclude == DispatchSpec => []ScheduledRunnersExclude
<1>1. HeartbeatInvariant => ScheduledRunnersExclude
  <2> SUFFICES ASSUME HeartbeatInvariant, NEW p \in Processes, OnSchedule(p)
               PROVE  /\ lease_is_current(p, Current(p))
                      /\ \A q \in Processes : Beating(q) /\ Current(q) = Current(p) /\ q # p => ~InTime(q)
    BY DEF ScheduledRunnersExclude
  <2>1. Beating(p) /\ proc[p].granted > Heartbeat + proc[p].late
    BY DEF OnSchedule
  <2>2. InTime(p)
    <3>1. proc[p].beat \in Nat /\ proc[p].late \in Nat /\ proc[p].granted \in Nat /\ Heartbeat \in Nat
      BY SettingsAssumption DEF HeartbeatInvariant, DispatchTypes, Cycles
    <3> QED BY <2>1, <3>1 DEF InTime, Elapsed
  <2>3. lease_is_current(p, Current(p))
    BY <2>1, <2>2, BeatingIsCurrent
  <2>4. ASSUME NEW q \in Processes, Beating(q), Current(q) = Current(p), q # p
        PROVE  ~InTime(q)
    BY <2>3, <2>4, BeatingIsCurrent DEF lease_is_current
  <2> QED BY <2>3, <2>4
<1> QED BY <1>1, DispatchSafety, PTL

=============================================================================
