------------------------------ MODULE ScanJobs ------------------------------
(***************************************************************************)
(* The life of a discovery job: startScan inserts it, an in-process worker *)
(* (runScanJob) sweeps the hosts of the scope with bounded concurrency,    *)
(* retries the known devices the sweep missed and writes the final status, *)
(* while the reconciler fails jobs it takes for orphaned and the operator  *)
(* deletes them.  A restart of the API kills every worker.                 *)
(*                                                                         *)
(* Time is two events per job: the worker's deadline passes (45 minutes,   *)
(* or 10 seconds per host up to 4 hours), and started_at becomes older     *)
(* than the reconciler's 45 minutes.  Neither implies the other.           *)
(***************************************************************************)
EXTENDS Naturals, FiniteSets

CONSTANTS
  Jobs,          \* discovery jobs
  Hosts,         \* the addresses in their scope
  Known,         \* the addresses that are devices of the inventory already
  Concurrency,   \* hosts probed at once
  MaxCrashes,    \* bound: restarts of the API
  MaxFaults      \* bound: database writes that fail

ASSUME ScanAssumption ==
  /\ IsFiniteSet(Jobs) /\ IsFiniteSet(Hosts) /\ Known \subseteq Hosts
  /\ Concurrency \in Nat \ {0} /\ MaxCrashes \in Nat /\ MaxFaults \in Nat

VARIABLES
  status,      \* discovery_jobs.status; "none" before, "deleted" after
  scanned,     \* discovery_jobs.scanned_count
  found,       \* discovery_jobs.found_count
  rows,        \* discovery_results: per job, <<host, disposition>>
  old,         \* the jobs started longer ago than the reconciler's maxAge
  pc,          \* per job, where its startScan call or its worker is
  host,        \* per job and host, how far the per-host function is
  known,       \* per job, the known addresses runScanJob loaded
  seen,        \* per job, runScanJob's seenAlive
  missed,      \* per job, the known devices still to be retried
  expired,     \* the jobs whose worker's context is done
  up,          \* the API process is running
  crashes,     \* restarts so far (a bound, not state of the program)
  faults       \* failed writes so far (a bound, not state of the program)

table == <<status, scanned, found, rows>>
worker == <<pc, host, known, seen, missed, expired>>
service == <<up, crashes, faults>>
vars == <<table, old, worker, service>>

InFlight == {"pending", "running"}
Dispositions == {"seen", "known_recovered", "known_unreachable"}

Row(j) == status[j] \notin {"none", "deleted"}   \* the job's row exists
Busy(j) == {h \in Hosts : host[j][h] \in {"probing", "record", "bump"}}
Todo(j) == {h \in Hosts : host[j][h] = "todo"}
Waiting(j) == {h \in Hosts : host[j][h] = "next"}
At(j, h, step) == host' = [host EXCEPT ![j] = [host[j] EXCEPT ![h] = step]]

Init ==
  /\ status = [j \in Jobs |-> "none"]
  /\ scanned = [j \in Jobs |-> 0] /\ found = [j \in Jobs |-> 0]
  /\ rows = [j \in Jobs |-> {}]
  /\ old = {}
  /\ pc = [j \in Jobs |-> "none"]
  /\ host = [j \in Jobs |-> [h \in Hosts |-> "todo"]]
  /\ known = [j \in Jobs |-> {}] /\ seen = [j \in Jobs |-> {}] /\ missed = [j \in Jobs |-> {}]
  /\ expired = {}
  /\ up = TRUE /\ crashes = 0 /\ faults = 0

Fault == faults < MaxFaults /\ faults' = faults + 1

-----------------------------------------------------------------------------
(* startScan, and rerunDiscoveryJob, which ends the same way.              *)

startScan(j) ==
  /\ up /\ status[j] = "none"
  /\ status' = [status EXCEPT ![j] = "pending"]
  /\ pc' = [pc EXCEPT ![j] = "created"]
  /\ UNCHANGED <<scanned, found, rows, old, host, known, seen, missed, expired, service>>

(* The job is marked running, started_at set, and the worker launched; the
   update matches no row if the job has been deleted already. *)
LaunchWorker(j) ==
  /\ pc[j] = "created"
  /\ status' = [status EXCEPT ![j] = IF Row(j) THEN "running" ELSE @]
  /\ old' = old \ {j}
  /\ pc' = [pc EXCEPT ![j] = "load"]
  /\ UNCHANGED <<scanned, found, rows, host, known, seen, missed, expired, service>>

(* runScanJob loads the devices of the inventory that are in its scope; the
   query fails, and leaves none, once the context is done. *)
LoadKnown(j) ==
  /\ pc[j] = "load"
  /\ pc' = [pc EXCEPT ![j] = "sweep"]
  /\ known' = [known EXCEPT ![j] = IF j \in expired THEN {} ELSE Known]
  /\ UNCHANGED <<table, old, host, seen, missed, expired, service>>

-----------------------------------------------------------------------------
(* scan.Scope and the per-host function.                                   *)

(* Scope checks the context, and takes no other host once it is done; *)
NextHost(j, h) ==
  /\ pc[j] = "sweep" /\ j \notin expired
  /\ Waiting(j) = {} /\ host[j][h] = "todo"
  /\ At(j, h, "next")
  /\ UNCHANGED <<table, old, pc, known, seen, missed, expired, service>>

(* then it waits for a slot, however long that takes. *)
StartHost(j, h) ==
  /\ pc[j] = "sweep"
  /\ host[j][h] = "next" /\ Cardinality(Busy(j)) < Concurrency
  /\ At(j, h, "probing")
  /\ UNCHANGED <<table, old, pc, known, seen, missed, expired, service>>

(* discovery.Run, Apply and the follow-ups end; a live host is noted under
   seenMu. *)
ProbeHost(j, h, alive) ==
  /\ pc[j] # "none" /\ host[j][h] = "probing"
  /\ At(j, h, IF alive THEN "record" ELSE "bump")
  /\ seen' = [seen EXCEPT ![j] = IF alive THEN @ \cup {h} ELSE @]
  /\ UNCHANGED <<table, old, pc, known, missed, expired, service>>

(* A discovery_results row; the foreign key refuses one of a deleted job. *)
Insert(j, h, disposition) ==
  rows' = [rows EXCEPT ![j] = IF Row(j) THEN @ \cup {<<h, disposition>>} ELSE @]

recordResult(j, h) ==
  /\ pc[j] # "none" /\ host[j][h] = "record"
  /\ Insert(j, h, "seen")
  /\ At(j, h, "bump")
  /\ UNCHANGED <<status, scanned, found, old, pc, known, seen, missed, expired, service>>

bumpScanned(j, h) ==
  /\ pc[j] # "none" /\ host[j][h] = "bump"
  /\ scanned' = [scanned EXCEPT ![j] = IF Row(j) THEN @ + 1 ELSE @]
  /\ At(j, h, "done")
  /\ UNCHANGED <<status, found, rows, old, pc, known, seen, missed, expired, service>>

(* Mutant: the sweep does not wait for the hosts still in flight. *)
ScopeDoneNoWait(j) ==
  /\ pc[j] = "sweep" /\ Waiting(j) = {} /\ (Todo(j) = {} \/ j \in expired)
  /\ pc' = [pc EXCEPT ![j] = "retry"]
  /\ missed' = [missed EXCEPT ![j] = known[j] \ seen[j]]
  /\ UNCHANGED <<table, old, host, known, seen, expired, service>>
(* Every host handed out has come back. *)
ScopeDone(j) ==
  /\ pc[j] = "sweep"
  /\ Busy(j) = {} /\ Waiting(j) = {} /\ (Todo(j) = {} \/ j \in expired)
  /\ pc' = [pc EXCEPT ![j] = "retry"]
  /\ missed' = [missed EXCEPT ![j] = known[j] \ seen[j]]
  /\ UNCHANGED <<table, old, host, known, seen, expired, service>>

-----------------------------------------------------------------------------
(* The known-device retry and the end of runScanJob.                       *)

(* Up to three probes of one missed device, and the row that says how they
   went; a context that is done ends the pass before the next device. *)
retryMissedKnown(j, h, disposition) ==
  /\ pc[j] = "retry" /\ j \notin expired /\ h \in missed[j]
  /\ Insert(j, h, disposition)
  /\ missed' = [missed EXCEPT ![j] = @ \ {h}]
  /\ UNCHANGED <<status, scanned, found, old, pc, host, known, seen, expired, service>>

(* The pass is over, and ctx.Err decides the verdict. *)
VerdictIgnoringDeadline(j) ==                    \* mutant: a cut-off scan counts as completed
  /\ pc[j] = "retry" /\ (missed[j] = {} \/ j \in expired)
  /\ pc' = [pc EXCEPT ![j] = "completed"]
  /\ UNCHANGED <<table, old, host, known, seen, missed, expired, service>>
Verdict(j) ==
  /\ pc[j] = "retry"
  /\ \/ j \in expired /\ pc' = [pc EXCEPT ![j] = "failed"]
     \/ j \notin expired /\ missed[j] = {} /\ pc' = [pc EXCEPT ![j] = "completed"]
  /\ UNCHANGED <<table, old, host, known, seen, missed, expired, service>>

(* found_count is counted from the rows, and the final status is written
   whatever the status is by now. *)
Present(j) == {r \in rows[j] : r[2] # "known_unreachable"}
FoundFromCounters(j) ==                          \* mutant: found_count from seenAlive
  /\ pc[j] \in {"completed", "failed"}
  /\ IF Row(j)
     THEN /\ status' = [status EXCEPT ![j] = pc[j]]
          /\ found' = [found EXCEPT ![j] = Cardinality(seen[j])]
          /\ scanned' = [scanned EXCEPT ![j] = Cardinality(Hosts)]
     ELSE UNCHANGED <<status, found, scanned>>
  /\ pc' = [pc EXCEPT ![j] = "none"]
  /\ UNCHANGED <<rows, old, host, known, seen, missed, expired, service>>
UpdateDiscoveryJobStatus(j) ==
  /\ pc[j] \in {"completed", "failed"}
  /\ IF Row(j)
     THEN /\ status' = [status EXCEPT ![j] = pc[j]]
          /\ found' = [found EXCEPT ![j] = Cardinality(Present(j))]
          /\ scanned' = [scanned EXCEPT ![j] = Cardinality(Hosts)]
     ELSE UNCHANGED <<status, found, scanned>>
  /\ pc' = [pc EXCEPT ![j] = "none"]
  /\ UNCHANGED <<rows, old, host, known, seen, missed, expired, service>>

-----------------------------------------------------------------------------
(* Time, the reconciler and the operator.                                  *)

DeadlinePasses(j) ==
  /\ pc[j] \notin {"none", "created"} /\ j \notin expired
  /\ expired' = expired \cup {j}
  /\ UNCHANGED <<table, old, pc, host, known, seen, missed, service>>

(* startScan itself takes far less than maxAge. *)
GrowsOld(j) ==
  /\ status[j] \in InFlight /\ pc[j] # "created" /\ j \notin old
  /\ old' = old \cup {j}
  /\ UNCHANGED <<table, worker, service>>

(* FailStaleScanJobs on the jobs in stale. *)
Reconcile(stale) ==
  /\ status' = [j \in Jobs |-> IF j \in stale THEN "failed" ELSE status[j]]

(* The watchdog tick. *)
WatchdogPendingOnly ==                           \* mutant: only 'pending' jobs are looked at
  /\ up /\ \E j \in old : status[j] = "pending"
  /\ Reconcile({j \in old : status[j] = "pending"})
  /\ UNCHANGED <<scanned, found, rows, old, worker, up, crashes, faults>>
StartScanReconciler ==
  /\ up /\ \E j \in old : status[j] \in InFlight
  /\ Reconcile({j \in old : status[j] \in InFlight})
  /\ UNCHANGED <<scanned, found, rows, old, worker, up, crashes, faults>>

deleteDiscoveryJob(j) ==
  /\ up /\ Row(j)
  /\ status' = [status EXCEPT ![j] = "deleted"]
  /\ rows' = [rows EXCEPT ![j] = {}]
  /\ UNCHANGED <<scanned, found, old, worker, service>>

Crash ==
  /\ up /\ crashes < MaxCrashes /\ crashes' = crashes + 1
  /\ up' = FALSE
  /\ pc' = [j \in Jobs |-> "none"]
  /\ UNCHANGED <<table, old, host, known, seen, missed, expired, faults>>

(* On boot, before the API serves, every job in flight is failed. *)
BootOldOnly ==                                   \* mutant: the boot pass keeps the age limit
  /\ ~up /\ up' = TRUE
  /\ Reconcile({j \in old : status[j] \in InFlight})
  /\ UNCHANGED <<scanned, found, rows, old, worker, crashes, faults>>
Boot ==
  /\ ~up /\ up' = TRUE
  /\ Reconcile({j \in Jobs : status[j] \in InFlight})
  /\ UNCHANGED <<scanned, found, rows, old, worker, crashes, faults>>

-----------------------------------------------------------------------------
(* Writes that fail.  Their errors are ignored or only logged.             *)

LaunchUnmarked(j) ==
  /\ Fault /\ pc[j] = "created"
  /\ pc' = [pc EXCEPT ![j] = "load"]
  /\ UNCHANGED <<table, old, host, known, seen, missed, expired, up, crashes>>

(* The inventory cannot be read: the retry will find nothing missing. *)
KnownUnread(j) ==
  /\ Fault /\ pc[j] = "load"
  /\ pc' = [pc EXCEPT ![j] = "sweep"]
  /\ UNCHANGED <<table, old, host, known, seen, missed, expired, up, crashes>>

ResultLost(j, h) ==
  /\ Fault /\ pc[j] # "none"
  /\ \/ host[j][h] = "record" /\ At(j, h, "bump") /\ UNCHANGED missed
     \/ host[j][h] = "bump" /\ At(j, h, "done") /\ UNCHANGED missed
     \/ /\ pc[j] = "retry" /\ j \notin expired /\ h \in missed[j]
        /\ missed' = [missed EXCEPT ![j] = @ \ {h}] /\ UNCHANGED host
  /\ UNCHANGED <<table, old, pc, known, seen, expired, up, crashes>>

FinalStatusLost(j) ==
  /\ Fault /\ pc[j] \in {"completed", "failed"}
  /\ pc' = [pc EXCEPT ![j] = "none"]
  /\ UNCHANGED <<table, old, host, known, seen, missed, expired, up, crashes>>

BootReconcileFails ==
  /\ Fault /\ ~up /\ up' = TRUE
  /\ UNCHANGED <<table, old, worker, crashes>>

-----------------------------------------------------------------------------
Work(j) == \/ LaunchWorker(j) \/ LoadKnown(j) \/ ScopeDone(j)
           \/ Verdict(j) \/ UpdateDiscoveryJobStatus(j)
           \/ \E h \in Hosts : \/ NextHost(j, h) \/ StartHost(j, h)
                               \/ recordResult(j, h) \/ bumpScanned(j, h)
                               \/ \E alive \in BOOLEAN : ProbeHost(j, h, alive)
                               \/ \E d \in {"known_recovered", "known_unreachable"} :
                                    retryMissedKnown(j, h, d)

Environment == \/ \E j \in Jobs : \/ startScan(j) \/ DeadlinePasses(j) \/ GrowsOld(j)
                                  \/ deleteDiscoveryJob(j)
               \/ StartScanReconciler \/ Crash \/ Boot

LostWrites == \/ \E j \in Jobs : \/ LaunchUnmarked(j) \/ KnownUnread(j) \/ FinalStatusLost(j)
                                 \/ \E h \in Hosts : ResultLost(j, h)
              \/ BootReconcileFails

Next == (\E j \in Jobs : Work(j)) \/ Environment

(* Every write succeeds. *)
Spec == Init /\ [][Next]_vars

(* Any write may fail; a worker keeps going, a dead API is restarted, and the
   clock and the watchdog go on.  Nothing obliges anyone to start a scan. *)
Fairness ==
  /\ \A j \in Jobs : WF_vars(Work(j)) /\ WF_vars(DeadlinePasses(j)) /\ WF_vars(GrowsOld(j))
  /\ WF_vars(StartScanReconciler) /\ WF_vars(Boot \/ BootReconcileFails)

LossySpec == Init /\ [][Next \/ LostWrites]_vars /\ Fairness

-----------------------------------------------------------------------------
(* Properties.                                                             *)

(* Every variable has its type; scanned_count never passes the host count,
   although concurrent host workers bump it and the worker overwrites it. *)
TypeOK ==
  /\ status \in [Jobs -> {"none", "pending", "running", "completed", "failed", "deleted"}]
  /\ scanned \in [Jobs -> 0..Cardinality(Hosts)] /\ found \in [Jobs -> 0..Cardinality(Hosts)]
  /\ rows \in [Jobs -> SUBSET (Hosts \X Dispositions)]
  /\ old \subseteq Jobs /\ expired \subseteq Jobs
  /\ pc \in [Jobs -> {"none", "created", "load", "sweep", "retry", "completed", "failed"}]
  /\ host \in [Jobs -> [Hosts -> {"todo", "next", "probing", "record", "bump", "done"}]]
  /\ known \in [Jobs -> SUBSET Known] /\ seen \in [Jobs -> SUBSET Hosts]
  /\ missed \in [Jobs -> SUBSET Known]
  /\ up \in BOOLEAN /\ crashes \in 0..MaxCrashes /\ faults \in 0..MaxFaults

(* Every read and write of the database has succeeded so far. *)
Sound == faults = 0

(* A known device never silently vanishes from a completed scan: each has a
   row, seen by the sweep, recovered by the retry or recorded as missed, even
   when the deadline cut the sweep or the retry short. *)
KnownAccountedFor ==
  \A j \in Jobs : Sound /\ status[j] = "completed" =>
    \A h \in Known : \E d \in Dispositions : <<h, d>> \in rows[j]

(* A host has one disposition per scan: the sweep's concurrent host workers
   and the retry pass never both write a row for it. *)
OneRowPerHost ==
  \A j \in Jobs : \A r1, r2 \in rows[j] : r1[1] = r2[1] => r1 = r2

(* The counters of a completed job agree with its rows and read 100%. *)
CountersMatchRows ==
  \A j \in Jobs : status[j] = "completed" =>
    found[j] = Cardinality(Present(j)) /\ scanned[j] = Cardinality(Hosts)

(* What the jobs page shows of a scan, its rows and its counters, is one story. *)
RowsMatchJob == OneRowPerHost /\ CountersMatchRows

(* While the API is up, a job that reads pending or running has a startScan
   call or a worker behind it: a crash leaves no orphan after the boot pass. *)
RunningHasWorker ==
  \A j \in Jobs : Sound /\ up /\ status[j] \in InFlight => pc[j] # "none"

(* Every job in flight eventually ends, whichever writes fail and whether or
   not its worker survives: the watchdog catches what the worker could not
   write. *)
JobsSettle ==
  \A j \in Jobs : status[j] \in InFlight ~> status[j] \notin InFlight
=============================================================================
