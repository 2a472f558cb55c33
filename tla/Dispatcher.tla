------------------------------ MODULE Dispatcher ------------------------------
(***************************************************************************)
(* Reconciler processes in time (reconciler/service.py, reconciler/cli.py, *)
(* the lease heartbeat of reconciler/workers.py).  A cycle plans, drains   *)
(* claimed batches one claim after another, sweeps and sleeps.  A lease is *)
(* set when a batch is claimed and renewed by a heartbeat that only runs   *)
(* while its own claim executes.                                           *)
(*                                                                         *)
(* Each dataset has one row of work here; what the work does to the lane   *)
(* is DatasetLanes' subject.  Durations are counted down, so that time may *)
(* go on for ever.  A process holds at most one batch, hence its name is   *)
(* as good as the token of a claim.                                        *)
(***************************************************************************)
EXTENDS Integers, SequencesExt

CONSTANTS
  Processes,       \* reconcilers
  Datasets,
  Nobody,          \* no owner
  BatchSize,       \* settings.claim_batch_size
  MaxDrains,       \* settings.max_drain_batches
  LeaseDuration,   \* settings.lease_duration
  Heartbeat,       \* settings.lease_heartbeat_interval
  MaxRetryDelay,   \* settings.retry_max_delay
  MaxAttempts,     \* settings.max_attempts; attempt_count is counted up to it
  MaxFaults        \* bound: crashes, stalls, late or failed renewals, failed reconciliations

ASSUME SettingsAssumption ==
  /\ Nobody \notin Processes
  /\ IsFiniteSet(Datasets)
  /\ BatchSize \in Nat \ {0} /\ MaxDrains \in Nat \ {0} /\ MaxAttempts \in Nat \ {0}
  /\ Heartbeat \in Nat \ {0} /\ LeaseDuration \in Nat /\ Heartbeat < LeaseDuration
  /\ MaxRetryDelay \in Nat /\ MaxFaults \in Nat

VARIABLES
  row,     \* dataset_work: state, owner, time left of the lease and of the delay, attempts
  proc,    \* where each process is in its cycle
  faults   \* bound used

dispatchVars == <<row, proc, faults>>

NewRow == [state |-> "PENDING", owner |-> Nobody, lease |-> 0, wait |-> 0, attempts |-> 0]

\* pc of run_once; batch of claims left, how many batch slots were filled, batches
\* drained; heartbeat countdown, how long the renewal is overdue, the heartbeat's lost
\* flag, and the lease left at the start or at the last renewal.
IdleProcess ==
  [pc |-> "plan", batch |-> <<>>, size |-> 0, drains |-> 0, beat |-> 0, late |-> 0,
   lost |-> FALSE, granted |-> 0, outcome |-> "none"]

DispatchInit ==
  /\ row = [d \in Datasets |-> NewRow]
  /\ proc = [p \in Processes |-> IdleProcess]
  /\ faults = 0

In(p, pc)  == proc[p].pc = pc
Current(p) == Head(proc[p].batch)

Fault == faults < MaxFaults /\ faults' = faults + 1

lease_is_current(p, d) == row[d].state = "RUNNING" /\ row[d].owner = p /\ row[d].lease > 0

-----------------------------------------------------------------------------
(* One cycle.                                                              *)

\* plan_and_enqueue_snapshots: an exception ends the cycle, a configuration error
\* the process; a stale plan counts as planned.
Plan(p) ==
  /\ In(p, "plan")
  /\ \E next \in {"claim", "sleep", "exited"} : proc' = [proc EXCEPT ![p] = [IdleProcess EXCEPT !.pc = next]]
  /\ UNCHANGED <<row, faults>>

\* Mutant: a lease is taken a moment before it runs out.
release_early(r) ==
  [d \in Datasets |-> IF r[d].state = "RUNNING" /\ r[d].lease <= 1
                      THEN [r[d] EXCEPT !.state = "RETRY_WAIT", !.owner = Nobody, !.wait = 0] ELSE r[d]]

\* Mutant: expired leases are left to their owners.
release_nothing(r) == r

release_expired_leases(r) ==
  [d \in Datasets |-> IF r[d].state = "RUNNING" /\ r[d].lease = 0
                      THEN [r[d] EXCEPT !.state = "RETRY_WAIT", !.owner = Nobody, !.wait = 0] ELSE r[d]]

Due(r) == {d \in Datasets : r[d].state \in {"PENDING", "RETRY_WAIT"} /\ r[d].wait = 0}

Claimed(r, p, d) ==
  [r[d] EXCEPT !.state = "RUNNING", !.owner = p, !.lease = LeaseDuration, !.wait = 0,
               !.attempts = IF @ < MaxAttempts THEN @ + 1 ELSE @]

claim_due_work(p) ==
  LET released == release_expired_leases(row)
      size == Min({BatchSize, Cardinality(Due(released))}) IN
  /\ In(p, "claim")
  /\ IF size = 0
     THEN row' = released /\ proc' = [proc EXCEPT ![p].pc = "sweep"]
     ELSE \E batch \in SetToAllKPermutations(Due(released)) :
            /\ Len(batch) = size
            /\ row' = [d \in Datasets |-> IF d \in ToSet(batch) THEN Claimed(released, p, d) ELSE released[d]]
            /\ proc' = [proc EXCEPT ![p] = [@ EXCEPT !.pc = "begin", !.batch = batch, !.size = size,
                                                     !.drains = proc[p].drains + 1]]
  /\ UNCHANGED faults

\* execute: the context is loaded only for a live lease, then the heartbeat starts.
execute(p) ==
  /\ In(p, "begin")
  /\ proc' = [proc EXCEPT ![p] =
       IF lease_is_current(p, Current(p))
       THEN [@ EXCEPT !.pc = "execute", !.beat = Heartbeat, !.late = 0, !.lost = FALSE,
                      !.granted = row[Current(p)].lease]
       ELSE [@ EXCEPT !.pc = "reconcile", !.outcome = "retry"]]
  /\ UNCHANGED <<row, faults>>

Beating(p) == In(p, "execute") /\ ~proc[p].lost

renew_lease(p, d) ==
  /\ row' = [row EXCEPT ![d].lease = LeaseDuration]
  /\ proc' = [proc EXCEPT ![p] = [@ EXCEPT !.beat = Heartbeat, !.late = 0, !.granted = LeaseDuration]]

Loses(p) == proc' = [proc EXCEPT ![p].lost = TRUE] /\ UNCHANGED row

\* LeaseHeartbeat.run: a refused or failed renewal ends it.  The renewal is a transaction
\* of its own thread: it may come long after it is due (Tick).
Beat(p) ==
  /\ Beating(p) /\ proc[p].beat = 0
  /\ \/ lease_is_current(p, Current(p)) /\ renew_lease(p, Current(p)) /\ UNCHANGED faults
     \/ ~lease_is_current(p, Current(p)) /\ Loses(p) /\ UNCHANGED faults
     \/ Fault /\ Loses(p)

\* The runner returns and the heartbeat is stopped; a lost lease, or a heartbeat that does
\* not stop, turns the result into a retry.
ExecutionEnds(p) ==
  /\ In(p, "execute")
  /\ \E result \in {"success", "retry", "block"} :
       proc' = [proc EXCEPT ![p] = [@ EXCEPT !.pc = "reconcile", !.beat = 0, !.late = 0, !.granted = 0,
                                             !.lost = FALSE, !.outcome = IF proc[p].lost THEN "retry" ELSE result]]
  /\ UNCHANGED <<row, faults>>

Settled(r, state) == [r EXCEPT !.state = state, !.owner = Nobody, !.lease = 0]

\* Jittered from nothing to the capped exponential delay.
retry_delay == 0..MaxRetryDelay

retry_work(r) ==
  IF r.attempts >= MaxAttempts THEN {Settled(r, "BLOCKED")}
  ELSE {[Settled(r, "RETRY_WAIT") EXCEPT !.wait = w] : w \in retry_delay}

\* Fenced: a result without a current lease changes nothing.
Results(p, d) ==
  IF ~lease_is_current(p, d) THEN {row[d]}
  ELSE CASE proc[p].outcome = "success" -> {Settled(row[d], "SUCCEEDED")}
         [] proc[p].outcome = "retry"   -> retry_work(row[d])
         [] proc[p].outcome = "block"   -> {Settled(row[d], "BLOCKED")}

NextClaim(p) ==
  LET rest == Tail(proc[p].batch) IN
  [proc[p] EXCEPT !.batch = rest, !.outcome = "none",
     !.pc = IF rest # <<>> THEN "begin"
            ELSE IF proc[p].size < BatchSize \/ proc[p].drains = MaxDrains THEN "sweep" ELSE "claim"]

\* A reconciliation that raises leaves the row to its lease; one that finds the
\* state diverged blocks it.
reconcile(p) ==
  LET d == Current(p) IN
  /\ In(p, "reconcile")
  /\ \/ \E r \in Results(p, d) : row' = [row EXCEPT ![d] = r] /\ UNCHANGED faults
     \/ Fault /\ UNCHANGED row
     \/ Fault /\ lease_is_current(p, d) /\ row' = [row EXCEPT ![d] = Settled(@, "BLOCKED")]
  /\ proc' = [proc EXCEPT ![p] = NextClaim(p)]

\* The retention sweep, the retention gate and the status end the cycle, failed or not.
Sweep(p) ==
  /\ proc[p].pc \in {"sweep", "sleep"}
  /\ proc' = [proc EXCEPT ![p] = IF In(p, "sleep") THEN IdleProcess ELSE [IdleProcess EXCEPT !.pc = "sleep"]]
  /\ UNCHANGED <<row, faults>>

Crash(p) ==
  /\ ~In(p, "exited")
  /\ Fault
  /\ proc' = [proc EXCEPT ![p] = IdleProcess]
  /\ UNCHANGED row

-----------------------------------------------------------------------------

Down(n) == IF n > 0 THEN n - 1 ELSE 0

\* Between a claim, its execution and its result a process only computes.
Busy == \E p \in Processes : proc[p].pc \in {"begin", "reconcile"}

\* A renewal that is due and has not come.
Overdue == \E p \in Processes : Beating(p) /\ proc[p].beat = 0

\* Time passes for everyone.  A process that is stalled while it computes and a renewal
\* that is late are faults.
Tick ==
  /\ \/ \E d \in Datasets : row[d].lease > 0 \/ row[d].wait > 0
     \/ \E p \in Processes : Beating(p)
  /\ IF Busy \/ Overdue THEN Fault ELSE UNCHANGED faults
  /\ row' = [d \in Datasets |-> [row[d] EXCEPT !.lease = Down(@), !.wait = Down(@)]]
  /\ proc' = [p \in Processes |->
       [proc[p] EXCEPT !.beat = Down(@), !.late = IF Beating(p) /\ proc[p].beat = 0 THEN @ + 1 ELSE @]]

CycleStep(p) ==
  \/ Plan(p) \/ claim_due_work(p) \/ execute(p) \/ Beat(p) \/ ExecutionEnds(p) \/ reconcile(p) \/ Sweep(p)

DispatchNext == Tick \/ \E p \in Processes : CycleStep(p) \/ Crash(p)

\* run_loop never stops cycling; time passes; a runner's work ends, and not because
\* its heartbeat keeps the process busy.
DispatchSpec ==
  /\ DispatchInit /\ [][DispatchNext]_dispatchVars
  /\ WF_dispatchVars(Tick)
  /\ \A p \in Processes : WF_dispatchVars(CycleStep(p)) /\ WF_dispatchVars(ExecutionEnds(p))

-----------------------------------------------------------------------------

Done == \A d \in Datasets : row[d].state \in {"SUCCEEDED", "BLOCKED"}

\* Time since the lease was last seen: since execution began or since the last renewal.
Elapsed(p) == (Heartbeat - proc[p].beat) + proc[p].late

InTime(p) == proc[p].granted > Elapsed(p)

\* The heartbeat (LeaseHeartbeat): as long as it reports no loss, a running claim has lost
\* its lease exactly when the time since its last renewal, or since it began, has used up
\* what was granted then: nothing another process claims, releases, reconciles or leaves
\* behind takes it earlier, and nothing gives it back.  So a claim that began with more
\* than one heartbeat left keeps its lease while its renewals are less than
\* LeaseDuration - Heartbeat late, and one that began with less may run without it.
HeartbeatKeepsLease ==
  \A p \in Processes : Beating(p) => (lease_is_current(p, Current(p)) <=> InTime(p))

\* As long as planning keeps succeeding somewhere, every piece of work is settled, past
\* crashes, lost leases and stale claims of a batch.  (run_once plans before it claims:
\* without that, nothing is claimed.)
WorkSettles == ([]<>(\E p \in Processes : In(p, "claim"))) => <>[]Done

=============================================================================
