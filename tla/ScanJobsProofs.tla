--------------------------- MODULE ScanJobsProofs ---------------------------
(***************************************************************************)
(* What is proved of the discovery jobs, for any number of jobs, hosts and *)
(* known devices, any concurrency, any restarts and any writes that fail:  *)
(* rows and counters tell one story, no known device vanishes from a       *)
(* completed scan, and no job in flight is an orphan.                      *)
(***************************************************************************)
EXTENDS ScanJobs, FiniteSetTheorems, TLAPS

Steps == {"todo", "next", "probing", "record", "bump", "done"}

ScanTypeOK ==
  /\ status \in [Jobs -> {"none", "pending", "running", "completed", "failed", "deleted"}]
  /\ scanned \in [Jobs -> Nat] /\ found \in [Jobs -> Nat]
  /\ rows \in [Jobs -> SUBSET (Hosts \X Dispositions)]
  /\ pc \in [Jobs -> {"none", "created", "load", "sweep", "retry", "completed", "failed"}]
  /\ host \in [Jobs -> [Hosts -> Steps]]
  /\ known \in [Jobs -> SUBSET Known] /\ seen \in [Jobs -> SUBSET Hosts]
  /\ missed \in [Jobs -> SUBSET Hosts]
  /\ old \subseteq Jobs /\ expired \subseteq Jobs
  /\ up \in BOOLEAN /\ faults \in Nat

(* ---- the inductive invariant, job by job ------------------------------ *)
Swept(j) == pc[j] \in {"retry", "completed", "failed"}

\* Nothing has happened to a job before its worker sweeps, and a job that has
\* not been inserted has no worker.
FreshInv(j) ==
  /\ status[j] = "none" => pc[j] = "none"
  /\ status[j] = "none" \/ pc[j] \in {"created", "load"} =>
       /\ rows[j] = {} /\ seen[j] = {} /\ missed[j] = {}
       /\ \A h \in Hosts : host[j][h] = "todo"

\* The sweep writes rows of hosts in seenAlive, the retry of hosts that are
\* not, each once: a host of `missed' has none yet.  The retry begins when no
\* host is in flight, so that seenAlive no longer grows.
RowsInv(j) ==
  /\ \A h \in Hosts : host[j][h] = "record" => h \in seen[j]
  /\ \A h \in Hosts : <<h, "seen">> \in rows[j] => h \in seen[j]
  /\ \A h \in Hosts, d \in Dispositions : <<h, d>> \in rows[j] /\ d # "seen" =>
       /\ h \notin seen[j] /\ h \notin missed[j]
       /\ \A e \in Dispositions : <<h, e>> \in rows[j] => e = d
       /\ pc[j] # "sweep"
  /\ pc[j] = "sweep" => missed[j] = {}
  /\ Swept(j) => /\ \A h \in Hosts : host[j][h] \in {"todo", "done"}
                 /\ missed[j] \cap seen[j] = {}

\* A completed job has no worker any more, and its counters agree with its rows.
FinalInv(j) ==
  status[j] = "completed" =>
    /\ pc[j] = "none"
    /\ found[j] = Cardinality(Present(j)) /\ scanned[j] = Cardinality(Hosts)

HasRow(j, h) == \E d \in Dispositions : <<h, d>> \in rows[j]

\* A live host that was recorded has its row.
SeenRecorded(j) == \A h \in seen[j] : host[j][h] = "record" \/ HasRow(j, h)
\* The inventory was loaded unless the deadline came first.
KnownLoaded(j) == pc[j] \in {"sweep", "retry"} /\ j \notin expired => known[j] = Known
\* After the sweep a known device has its row or is still to be retried.
RetryCovers(j) == pc[j] = "retry" => \A h \in known[j] : h \in missed[j] \/ HasRow(j, h)
\* Once the verdict is "completed" each has its row.
AllAccounted(j) ==
  pc[j] = "completed" \/ status[j] = "completed" => \A h \in Known : HasRow(j, h)

\* All of it while no write has failed and the job has not been deleted.
KnownInv(j) ==
  Sound /\ Row(j) => SeenRecorded(j) /\ KnownLoaded(j) /\ RetryCovers(j) /\ AllAccounted(j)

\* A job in flight has its worker, or the API is down.
OrphanInv(j) == Sound /\ up /\ status[j] \in InFlight => pc[j] # "none"

JobInv(j) == FreshInv(j) /\ RowsInv(j) /\ FinalInv(j) /\ KnownInv(j) /\ OrphanInv(j)

ScanInv == ScanTypeOK /\ \A j \in Jobs : JobInv(j)
-----------------------------------------------------------------------------
\* The rows of a job are finitely many.
LEMMA PresentCounted ==
  ASSUME ScanTypeOK, NEW j \in Jobs
  PROVE  Cardinality(Present(j)) \in Nat /\ Cardinality(Hosts) \in Nat
<1>1. IsFiniteSet(Dispositions)
  <2>1. IsFiniteSet({"seen"})
    BY FS_Singleton
  <2>2. IsFiniteSet({"seen"} \cup {"known_recovered"})
    BY <2>1, FS_AddElement
  <2>3. IsFiniteSet({"seen"} \cup {"known_recovered"} \cup {"known_unreachable"})
    BY <2>2, FS_AddElement
  <2>4. Dispositions = {"seen"} \cup {"known_recovered"} \cup {"known_unreachable"}
    BY DEF Dispositions
  <2>5. QED
    BY <2>3, <2>4
<1>2. IsFiniteSet(Hosts \X Dispositions)
  BY <1>1, ScanAssumption, FS_Product
<1>3. Present(j) \subseteq Hosts \X Dispositions
  BY DEF Present, ScanTypeOK
<1>4. IsFiniteSet(Present(j))
  BY <1>2, <1>3, FS_Subset
<1>5. QED
  BY <1>4, ScanAssumption, FS_CardinalityType

\* Nothing the invariant of job i speaks of has changed.
Same(i) ==
  /\ status'[i] = status[i] /\ scanned'[i] = scanned[i] /\ found'[i] = found[i]
  /\ rows'[i] = rows[i] /\ pc'[i] = pc[i] /\ host'[i] = host[i] /\ known'[i] = known[i]
  /\ seen'[i] = seen[i] /\ missed'[i] = missed[i] /\ (i \in expired' <=> i \in expired)

\* A job nobody touches keeps its invariant.
LEMMA SameKeeps ==
  ASSUME NEW i \in Jobs, JobInv(i), Same(i), Sound' => Sound, up' => up
  PROVE  JobInv(i)'
<1>1. Present(i)' = Present(i)
  BY DEF Same, Present
<1>2. FreshInv(i)' /\ FinalInv(i)'
  BY <1>1 DEF Same, JobInv, FreshInv, FinalInv
<1>3. RowsInv(i)'
  BY DEF Same, JobInv, RowsInv, Swept
<1>4. KnownInv(i)'
  BY DEF Same, JobInv, KnownInv, SeenRecorded, KnownLoaded, RetryCovers, AllAccounted, HasRow, Row
<1>5. OrphanInv(i)'
  BY DEF Same, JobInv, OrphanInv
<1>6. QED
  BY <1>2, <1>3, <1>4, <1>5 DEF JobInv

\* Every step keeps the types, the steps whose write fails included.
LEMMA ScanTypeStep ==
  ASSUME ScanTypeOK, [Next \/ LostWrites]_vars
  PROVE  ScanTypeOK'
<1>1. ASSUME NEW j \in Jobs, LaunchWorker(j) PROVE ScanTypeOK'
  BY <1>1 DEF LaunchWorker, ScanTypeOK, table, worker, service
<1>2. ASSUME NEW j \in Jobs, LoadKnown(j) PROVE ScanTypeOK'
  BY <1>2 DEF LoadKnown, ScanTypeOK, table, worker, service
<1>3. ASSUME NEW j \in Jobs, ScopeDone(j) PROVE ScanTypeOK'
  BY <1>3, ScanAssumption DEF ScopeDone, ScanTypeOK, table, worker, service
<1>4. ASSUME NEW j \in Jobs, Verdict(j) PROVE ScanTypeOK'
  BY <1>4 DEF Verdict, ScanTypeOK, table, worker, service
<1>5. ASSUME NEW j \in Jobs, UpdateDiscoveryJobStatus(j) PROVE ScanTypeOK'
  BY <1>5, PresentCounted DEF UpdateDiscoveryJobStatus, ScanTypeOK, table, worker, service
<1>6. ASSUME NEW j \in Jobs, NEW h \in Hosts, NextHost(j, h) PROVE ScanTypeOK'
  <2>1. [host[j] EXCEPT ![h] = "next"] \in [Hosts -> Steps]
    BY DEF ScanTypeOK, Steps
  <2>2. host' \in [Jobs -> [Hosts -> Steps]]
    BY <1>6, <2>1 DEF NextHost, At, ScanTypeOK
  <2>3. QED
    BY <1>6, <2>2 DEF NextHost, ScanTypeOK, table, worker, service
<1>7. ASSUME NEW j \in Jobs, NEW h \in Hosts, StartHost(j, h) PROVE ScanTypeOK'
  <2>1. [host[j] EXCEPT ![h] = "probing"] \in [Hosts -> Steps]
    BY DEF ScanTypeOK, Steps
  <2>2. host' \in [Jobs -> [Hosts -> Steps]]
    BY <1>7, <2>1 DEF StartHost, At, ScanTypeOK
  <2>3. QED
    BY <1>7, <2>2 DEF StartHost, ScanTypeOK, table, worker, service
<1>8. ASSUME NEW j \in Jobs, NEW h \in Hosts, NEW alive \in BOOLEAN, ProbeHost(j, h, alive)
      PROVE  ScanTypeOK'
  <2>1. [host[j] EXCEPT ![h] = IF alive THEN "record" ELSE "bump"] \in [Hosts -> Steps]
    BY DEF ScanTypeOK, Steps
  <2>2. host' \in [Jobs -> [Hosts -> Steps]]
    BY <1>8, <2>1 DEF ProbeHost, At, ScanTypeOK
  <2>3. QED
    BY <1>8, <2>2 DEF ProbeHost, ScanTypeOK, table, worker, service
<1>9. ASSUME NEW j \in Jobs, NEW h \in Hosts, recordResult(j, h) PROVE ScanTypeOK'
  <2>1. [host[j] EXCEPT ![h] = "bump"] \in [Hosts -> Steps]
    BY DEF ScanTypeOK, Steps
  <2>2. host' \in [Jobs -> [Hosts -> Steps]]
    BY <1>9, <2>1 DEF recordResult, At, ScanTypeOK
  <2>3. rows' \in [Jobs -> SUBSET (Hosts \X Dispositions)]
    BY <1>9 DEF recordResult, Insert, Dispositions, ScanTypeOK
  <2>4. QED
    BY <1>9, <2>2, <2>3 DEF recordResult, ScanTypeOK, service
<1>10. ASSUME NEW j \in Jobs, NEW h \in Hosts, bumpScanned(j, h) PROVE ScanTypeOK'
  <2>1. [host[j] EXCEPT ![h] = "done"] \in [Hosts -> Steps]
    BY DEF ScanTypeOK, Steps
  <2>2. host' \in [Jobs -> [Hosts -> Steps]]
    BY <1>10, <2>1 DEF bumpScanned, At, ScanTypeOK
  <2>3. scanned' \in [Jobs -> Nat]
    BY <1>10 DEF bumpScanned, ScanTypeOK
  <2>4. QED
    BY <1>10, <2>2, <2>3 DEF bumpScanned, ScanTypeOK, service
<1>11. ASSUME NEW j \in Jobs, NEW h \in Hosts, NEW d \in {"known_recovered", "known_unreachable"}, retryMissedKnown(j, h, d)
      PROVE  ScanTypeOK'
  BY <1>11 DEF retryMissedKnown, Insert, Dispositions, ScanTypeOK, table, worker, service
<1>12. ASSUME NEW j \in Jobs, startScan(j) PROVE ScanTypeOK'
  BY <1>12 DEF startScan, ScanTypeOK, table, worker, service
<1>13. ASSUME NEW j \in Jobs, DeadlinePasses(j) PROVE ScanTypeOK'
  BY <1>13 DEF DeadlinePasses, ScanTypeOK, table, worker, service
<1>14. ASSUME NEW j \in Jobs, GrowsOld(j) PROVE ScanTypeOK'
  BY <1>14 DEF GrowsOld, ScanTypeOK, table, worker, service
<1>15. ASSUME NEW j \in Jobs, deleteDiscoveryJob(j) PROVE ScanTypeOK'
  BY <1>15 DEF deleteDiscoveryJob, ScanTypeOK, table, worker, service
<1>16. ASSUME StartScanReconciler PROVE ScanTypeOK'
  BY <1>16 DEF StartScanReconciler, Reconcile, ScanTypeOK, table, worker, service
<1>17. ASSUME Crash PROVE ScanTypeOK'
  BY <1>17 DEF Crash, ScanTypeOK, table, worker, service
<1>18. ASSUME Boot PROVE ScanTypeOK'
  BY <1>18 DEF Boot, Reconcile, ScanTypeOK, table, worker, service
<1>19. ASSUME NEW j \in Jobs, LaunchUnmarked(j) PROVE ScanTypeOK'
  BY <1>19 DEF LaunchUnmarked, ScanTypeOK, table, worker, service, Fault
<1>20. ASSUME NEW j \in Jobs, KnownUnread(j) PROVE ScanTypeOK'
  BY <1>20 DEF KnownUnread, ScanTypeOK, table, worker, service, Fault
<1>21. ASSUME NEW j \in Jobs, FinalStatusLost(j) PROVE ScanTypeOK'
  BY <1>21 DEF FinalStatusLost, ScanTypeOK, table, worker, service, Fault
<1>22. ASSUME NEW j \in Jobs, NEW h \in Hosts, ResultLost(j, h) PROVE ScanTypeOK'
  <2>1. \A s \in Steps : [host[j] EXCEPT ![h] = s] \in [Hosts -> Steps]
    BY DEF ScanTypeOK
  <2>2. host' = host \/ \E s \in Steps : host' = [host EXCEPT ![j] = [host[j] EXCEPT ![h] = s]]
    BY <1>22 DEF ResultLost, At, Steps
  <2>3. host' \in [Jobs -> [Hosts -> Steps]]
    BY <2>1, <2>2 DEF ScanTypeOK
  <2>4. missed' \in [Jobs -> SUBSET Hosts]
    BY <1>22 DEF ResultLost, ScanTypeOK
  <2>5. QED
    BY <1>22, <2>3, <2>4 DEF ResultLost, Fault, ScanTypeOK, table
<1>23. ASSUME BootReconcileFails PROVE ScanTypeOK'
  BY <1>23 DEF BootReconcileFails, Fault, ScanTypeOK, table, worker, service
<1>24. CASE UNCHANGED vars
  BY <1>24 DEF vars, ScanTypeOK, table, worker, service
<1>25. QED
  BY <1>1, <1>2, <1>3, <1>4, <1>5, <1>6, <1>7, <1>8, <1>9, <1>10, <1>11, <1>12, <1>13,
     <1>14, <1>15, <1>16, <1>17, <1>18, <1>19, <1>20, <1>21, <1>22, <1>23, <1>24 DEF
     Next, Work, Environment, LostWrites

\* Every step keeps the invariant of every job.
LEMMA ScanStep ==
  ASSUME ScanTypeOK, \A j \in Jobs : JobInv(j), [Next \/ LostWrites]_vars
  PROVE  \A i \in Jobs : JobInv(i)'
<1>1. ASSUME NEW j \in Jobs, LaunchWorker(j) PROVE \A i \in Jobs : JobInv(i)'
  <2>1. /\ pc[j] = "created"
        /\ status'[j] = (IF Row(j) THEN "running" ELSE status[j])
        /\ pc'[j] = "load"
        /\ scanned'[j] = scanned[j] /\ found'[j] = found[j] /\ rows'[j] = rows[j]
        /\ host'[j] = host[j] /\ known'[j] = known[j] /\ seen'[j] = seen[j]
        /\ missed'[j] = missed[j]
    BY <1>1 DEF LaunchWorker, ScanTypeOK, table, worker, service
  <2>2. Sound' = Sound /\ up' = up /\ UNCHANGED expired
    BY <1>1 DEF LaunchWorker, Sound, worker, service
  <2>3. \A i \in Jobs : i # j => Same(i)
    BY <1>1, <2>2 DEF LaunchWorker, Same, ScanTypeOK, table, worker, service
  <2>4. FreshInv(j)'
    BY <2>1, <2>2 DEF JobInv, FreshInv
  <2>5. RowsInv(j)'
    BY <2>1, <2>2 DEF JobInv, FreshInv, RowsInv, Swept
  <2>6. FinalInv(j)'
    BY <2>1, <2>2 DEF JobInv, FinalInv, Present
  <2>7. KnownInv(j)'
    <3> SUFFICES ASSUME Sound', Row(j)'
                 PROVE  SeenRecorded(j)' /\ KnownLoaded(j)' /\ RetryCovers(j)' /\ AllAccounted(j)'
      BY DEF KnownInv
    <3>1. SeenRecorded(j) /\ KnownLoaded(j) /\ RetryCovers(j) /\ AllAccounted(j)
      BY <2>1, <2>2 DEF JobInv, KnownInv, Row
    <3>2. \A g \in Hosts : HasRow(j, g) => HasRow(j, g)'
      BY <2>1 DEF HasRow
    <3>3. SeenRecorded(j)'
      BY <2>1, <2>2, <3>1, <3>2 DEF JobInv, SeenRecorded, ScanTypeOK, FreshInv
    <3>4. KnownLoaded(j)'
      BY <2>1, <2>2, <3>1, <3>2 DEF JobInv, KnownLoaded
    <3>5. RetryCovers(j)'
      BY <2>1, <2>2, <3>1, <3>2, ScanAssumption DEF JobInv, RetryCovers, SeenRecorded, RowsInv, ScanTypeOK, Busy
    <3>6. AllAccounted(j)'
      BY <2>1, <2>2, <3>1, <3>2, ScanAssumption DEF JobInv, AllAccounted, KnownLoaded, RetryCovers, FinalInv, Row, ScanTypeOK
    <3>7. QED
      BY <3>3, <3>4, <3>5, <3>6
  <2>8. OrphanInv(j)'
    BY <2>1, <2>2 DEF JobInv, FreshInv, OrphanInv, Row, InFlight
  <2>9. JobInv(j)'
    BY <2>4, <2>5, <2>6, <2>7, <2>8 DEF JobInv
  <2>10. QED
    BY <2>2, <2>3, <2>9, SameKeeps
<1>2. ASSUME NEW j \in Jobs, LoadKnown(j) PROVE \A i \in Jobs : JobInv(i)'
  <2>1. /\ pc[j] = "load"
        /\ pc'[j] = "sweep"
        /\ known'[j] = (IF j \in expired THEN {} ELSE Known)
        /\ status'[j] = status[j] /\ scanned'[j] = scanned[j] /\ found'[j] = found[j]
        /\ rows'[j] = rows[j] /\ host'[j] = host[j] /\ seen'[j] = seen[j]
        /\ missed'[j] = missed[j]
    BY <1>2 DEF LoadKnown, ScanTypeOK, table, worker, service
  <2>2. Sound' = Sound /\ up' = up /\ UNCHANGED expired
    BY <1>2 DEF LoadKnown, Sound, worker, service
  <2>3. \A i \in Jobs : i # j => Same(i)
    BY <1>2, <2>2 DEF LoadKnown, Same, ScanTypeOK, table, worker, service
  <2>4. FreshInv(j)'
    BY <2>1, <2>2 DEF JobInv, FreshInv
  <2>5. RowsInv(j)'
    BY <2>1, <2>2 DEF JobInv, FreshInv, RowsInv, Swept
  <2>6. FinalInv(j)'
    BY <2>1, <2>2 DEF JobInv, FinalInv, Present
  <2>7. KnownInv(j)'
    <3> SUFFICES ASSUME Sound', Row(j)'
                 PROVE  SeenRecorded(j)' /\ KnownLoaded(j)' /\ RetryCovers(j)' /\ AllAccounted(j)'
      BY DEF KnownInv
    <3>1. SeenRecorded(j) /\ KnownLoaded(j) /\ RetryCovers(j) /\ AllAccounted(j)
      BY <2>1, <2>2 DEF JobInv, KnownInv, Row
    <3>2. \A g \in Hosts : HasRow(j, g) => HasRow(j, g)'
      BY <2>1 DEF HasRow
    <3>3. SeenRecorded(j)'
      BY <2>1, <2>2, <3>1, <3>2 DEF JobInv, SeenRecorded, ScanTypeOK, FreshInv
    <3>4. KnownLoaded(j)'
      BY <2>1, <2>2, <3>1, <3>2 DEF JobInv, KnownLoaded
    <3>5. RetryCovers(j)'
      BY <2>1, <2>2, <3>1, <3>2, ScanAssumption DEF JobInv, RetryCovers, SeenRecorded, RowsInv, ScanTypeOK, Busy
    <3>6. AllAccounted(j)'
      BY <2>1, <2>2, <3>1, <3>2, ScanAssumption DEF JobInv, AllAccounted, KnownLoaded, RetryCovers, FinalInv, Row, ScanTypeOK
    <3>7. QED
      BY <3>3, <3>4, <3>5, <3>6
  <2>8. OrphanInv(j)'
    BY <2>1, <2>2 DEF JobInv, FreshInv, OrphanInv, Row, InFlight
  <2>9. JobInv(j)'
    BY <2>4, <2>5, <2>6, <2>7, <2>8 DEF JobInv
  <2>10. QED
    BY <2>2, <2>3, <2>9, SameKeeps
<1>3. ASSUME NEW j \in Jobs, ScopeDone(j) PROVE \A i \in Jobs : JobInv(i)'
  <2>1. /\ pc[j] = "sweep"
        /\ Busy(j) = {}
        /\ Waiting(j) = {}
        /\ pc'[j] = "retry"
        /\ missed'[j] = known[j] \ seen[j]
        /\ status'[j] = status[j] /\ scanned'[j] = scanned[j] /\ found'[j] = found[j]
        /\ rows'[j] = rows[j] /\ host'[j] = host[j] /\ known'[j] = known[j]
        /\ seen'[j] = seen[j]
    BY <1>3 DEF ScopeDone, ScanTypeOK, table, worker, service
  <2>2. Sound' = Sound /\ up' = up /\ UNCHANGED expired
    BY <1>3 DEF ScopeDone, Sound, worker, service
  <2>3. \A i \in Jobs : i # j => Same(i)
    BY <1>3, <2>2 DEF ScopeDone, Same, ScanTypeOK, table, worker, service
  <2>4. FreshInv(j)'
    BY <2>1, <2>2 DEF JobInv, FreshInv
  <2>5. RowsInv(j)'
    <3>1. \A h \in Hosts : host[j][h] \in {"todo", "done"}
      BY <2>1 DEF Busy, Waiting, ScanTypeOK, Steps
    <3>2. QED
      BY <2>1, <3>1 DEF JobInv, RowsInv, Swept
  <2>6. FinalInv(j)'
    BY <2>1, <2>2 DEF JobInv, FinalInv, Present
  <2>7. KnownInv(j)'
    <3> SUFFICES ASSUME Sound', Row(j)'
                 PROVE  SeenRecorded(j)' /\ KnownLoaded(j)' /\ RetryCovers(j)' /\ AllAccounted(j)'
      BY DEF KnownInv
    <3>1. SeenRecorded(j) /\ KnownLoaded(j) /\ RetryCovers(j) /\ AllAccounted(j)
      BY <2>1, <2>2 DEF JobInv, KnownInv, Row
    <3>2. \A g \in Hosts : HasRow(j, g) => HasRow(j, g)'
      BY <2>1 DEF HasRow
    <3>3. SeenRecorded(j)'
      BY <2>1, <2>2, <3>1, <3>2 DEF JobInv, SeenRecorded, ScanTypeOK, FreshInv
    <3>4. KnownLoaded(j)'
      BY <2>1, <2>2, <3>1, <3>2 DEF JobInv, KnownLoaded
    <3>5. RetryCovers(j)'
      BY <2>1, <2>2, <3>1, <3>2, ScanAssumption DEF JobInv, RetryCovers, SeenRecorded, RowsInv, ScanTypeOK, Busy
    <3>6. AllAccounted(j)'
      BY <2>1, <2>2, <3>1, <3>2, ScanAssumption DEF JobInv, AllAccounted, KnownLoaded, RetryCovers, FinalInv, Row, ScanTypeOK
    <3>7. QED
      BY <3>3, <3>4, <3>5, <3>6
  <2>8. OrphanInv(j)'
    BY <2>1, <2>2 DEF JobInv, FreshInv, OrphanInv, Row, InFlight
  <2>9. JobInv(j)'
    BY <2>4, <2>5, <2>6, <2>7, <2>8 DEF JobInv
  <2>10. QED
    BY <2>2, <2>3, <2>9, SameKeeps
<1>4. ASSUME NEW j \in Jobs, Verdict(j) PROVE \A i \in Jobs : JobInv(i)'
  <2>1. /\ pc[j] = "retry"
        /\ \/ pc'[j] = "failed"
           \/ pc'[j] = "completed" /\ j \notin expired /\ missed[j] = {}
        /\ status'[j] = status[j] /\ scanned'[j] = scanned[j] /\ found'[j] = found[j]
        /\ rows'[j] = rows[j] /\ host'[j] = host[j] /\ known'[j] = known[j]
        /\ seen'[j] = seen[j] /\ missed'[j] = missed[j]
    BY <1>4 DEF Verdict, ScanTypeOK, table, worker, service
  <2>2. Sound' = Sound /\ up' = up /\ UNCHANGED expired
    BY <1>4 DEF Verdict, Sound, worker, service
  <2>3. \A i \in Jobs : i # j => Same(i)
    BY <1>4, <2>2 DEF Verdict, Same, ScanTypeOK, table, worker, service
  <2>4. FreshInv(j)'
    BY <2>1, <2>2 DEF JobInv, FreshInv
  <2>5. RowsInv(j)'
    BY <2>1, <2>2 DEF JobInv, FreshInv, RowsInv, Swept
  <2>6. FinalInv(j)'
    BY <2>1, <2>2 DEF JobInv, FinalInv, Present
  <2>7. KnownInv(j)'
    <3> SUFFICES ASSUME Sound', Row(j)'
                 PROVE  SeenRecorded(j)' /\ KnownLoaded(j)' /\ RetryCovers(j)' /\ AllAccounted(j)'
      BY DEF KnownInv
    <3>1. SeenRecorded(j) /\ KnownLoaded(j) /\ RetryCovers(j) /\ AllAccounted(j)
      BY <2>1, <2>2 DEF JobInv, KnownInv, Row
    <3>2. \A g \in Hosts : HasRow(j, g) => HasRow(j, g)'
      BY <2>1 DEF HasRow
    <3>3. SeenRecorded(j)'
      BY <2>1, <2>2, <3>1, <3>2 DEF JobInv, SeenRecorded, ScanTypeOK, FreshInv
    <3>4. KnownLoaded(j)'
      BY <2>1, <2>2, <3>1, <3>2 DEF JobInv, KnownLoaded
    <3>5. RetryCovers(j)'
      BY <2>1, <2>2, <3>1, <3>2, ScanAssumption DEF JobInv, RetryCovers, SeenRecorded, RowsInv, ScanTypeOK, Busy
    <3>6. AllAccounted(j)'
      BY <2>1, <2>2, <3>1, <3>2, ScanAssumption DEF JobInv, AllAccounted, KnownLoaded, RetryCovers, FinalInv, Row, ScanTypeOK
    <3>7. QED
      BY <3>3, <3>4, <3>5, <3>6
  <2>8. OrphanInv(j)'
    BY <2>1, <2>2 DEF JobInv, FreshInv, OrphanInv, Row, InFlight
  <2>9. JobInv(j)'
    BY <2>4, <2>5, <2>6, <2>7, <2>8 DEF JobInv
  <2>10. QED
    BY <2>2, <2>3, <2>9, SameKeeps
<1>5. ASSUME NEW j \in Jobs, UpdateDiscoveryJobStatus(j) PROVE \A i \in Jobs : JobInv(i)'
  <2>1. /\ pc[j] \in {"completed", "failed"}
        /\ status'[j] = (IF Row(j) THEN pc[j] ELSE status[j])
        /\ scanned'[j] = (IF Row(j) THEN Cardinality(Hosts) ELSE scanned[j])
        /\ found'[j] = (IF Row(j) THEN Cardinality(Present(j)) ELSE found[j])
        /\ pc'[j] = "none"
        /\ rows'[j] = rows[j] /\ host'[j] = host[j] /\ known'[j] = known[j]
        /\ seen'[j] = seen[j] /\ missed'[j] = missed[j]
    BY <1>5 DEF UpdateDiscoveryJobStatus, ScanTypeOK, table, worker, service
  <2>2. Sound' = Sound /\ up' = up /\ UNCHANGED expired
    BY <1>5 DEF UpdateDiscoveryJobStatus, Sound, worker, service
  <2>3. \A i \in Jobs : i # j => Same(i)
    BY <1>5, <2>2 DEF UpdateDiscoveryJobStatus, Same, ScanTypeOK, table, worker, service
  <2>4. FreshInv(j)'
    BY <2>1, <2>2 DEF JobInv, FreshInv
  <2>5. RowsInv(j)'
    BY <2>1, <2>2 DEF JobInv, FreshInv, RowsInv, Swept
  <2>6. FinalInv(j)'
    BY <2>1, <2>2 DEF JobInv, FinalInv, Present
  <2>7. KnownInv(j)'
    <3> SUFFICES ASSUME Sound', Row(j)'
                 PROVE  SeenRecorded(j)' /\ KnownLoaded(j)' /\ RetryCovers(j)' /\ AllAccounted(j)'
      BY DEF KnownInv
    <3>1. SeenRecorded(j) /\ KnownLoaded(j) /\ RetryCovers(j) /\ AllAccounted(j)
      BY <2>1, <2>2 DEF JobInv, KnownInv, Row
    <3>2. \A g \in Hosts : HasRow(j, g) => HasRow(j, g)'
      BY <2>1 DEF HasRow
    <3>3. SeenRecorded(j)'
      BY <2>1, <2>2, <3>1, <3>2 DEF JobInv, SeenRecorded, ScanTypeOK, FreshInv
    <3>4. KnownLoaded(j)'
      BY <2>1, <2>2, <3>1, <3>2 DEF JobInv, KnownLoaded
    <3>5. RetryCovers(j)'
      BY <2>1, <2>2, <3>1, <3>2, ScanAssumption DEF JobInv, RetryCovers, SeenRecorded, RowsInv, ScanTypeOK, Busy
    <3>6. AllAccounted(j)'
      BY <2>1, <2>2, <3>1, <3>2, ScanAssumption DEF JobInv, AllAccounted, KnownLoaded, RetryCovers, FinalInv, Row, ScanTypeOK
    <3>7. QED
      BY <3>3, <3>4, <3>5, <3>6
  <2>8. OrphanInv(j)'
    BY <2>1, <2>2 DEF JobInv, FreshInv, OrphanInv, Row, InFlight
  <2>9. JobInv(j)'
    BY <2>4, <2>5, <2>6, <2>7, <2>8 DEF JobInv
  <2>10. QED
    BY <2>2, <2>3, <2>9, SameKeeps
<1>6. ASSUME NEW j \in Jobs, NEW h \in Hosts, NextHost(j, h)
      PROVE  \A i \in Jobs : JobInv(i)'
  <2>1. /\ pc[j] = "sweep"
        /\ host[j][h] = "todo"
        /\ host'[j] = [host[j] EXCEPT ![h] = "next"]
        /\ status'[j] = status[j] /\ scanned'[j] = scanned[j] /\ found'[j] = found[j]
        /\ rows'[j] = rows[j] /\ pc'[j] = pc[j] /\ known'[j] = known[j]
        /\ seen'[j] = seen[j] /\ missed'[j] = missed[j]
    BY <1>6 DEF NextHost, ScanTypeOK, table, worker, service, At
  <2>2. Sound' = Sound /\ up' = up /\ UNCHANGED expired
    BY <1>6 DEF NextHost, Sound, worker, service
  <2>3. \A i \in Jobs : i # j => Same(i)
    BY <1>6, <2>2 DEF NextHost, Same, ScanTypeOK, table, worker, service, At
  <2>4. FreshInv(j)'
    BY <2>1, <2>2 DEF JobInv, FreshInv
  <2>5. RowsInv(j)'
    BY <2>1, <2>2 DEF JobInv, FreshInv, RowsInv, Swept
  <2>6. FinalInv(j)'
    BY <2>1, <2>2 DEF JobInv, FinalInv, Present
  <2>7. KnownInv(j)'
    <3> SUFFICES ASSUME Sound', Row(j)'
                 PROVE  SeenRecorded(j)' /\ KnownLoaded(j)' /\ RetryCovers(j)' /\ AllAccounted(j)'
      BY DEF KnownInv
    <3>1. SeenRecorded(j) /\ KnownLoaded(j) /\ RetryCovers(j) /\ AllAccounted(j)
      BY <2>1, <2>2 DEF JobInv, KnownInv, Row
    <3>2. \A g \in Hosts : HasRow(j, g) => HasRow(j, g)'
      BY <2>1 DEF HasRow
    <3>3. SeenRecorded(j)'
      BY <2>1, <2>2, <3>1, <3>2 DEF JobInv, SeenRecorded, ScanTypeOK, FreshInv
    <3>4. KnownLoaded(j)'
      BY <2>1, <2>2, <3>1, <3>2 DEF JobInv, KnownLoaded
    <3>5. RetryCovers(j)'
      BY <2>1, <2>2, <3>1, <3>2, ScanAssumption DEF JobInv, RetryCovers, SeenRecorded, RowsInv, ScanTypeOK, Busy
    <3>6. AllAccounted(j)'
      BY <2>1, <2>2, <3>1, <3>2, ScanAssumption DEF JobInv, AllAccounted, KnownLoaded, RetryCovers, FinalInv, Row, ScanTypeOK
    <3>7. QED
      BY <3>3, <3>4, <3>5, <3>6
  <2>8. OrphanInv(j)'
    BY <2>1, <2>2 DEF JobInv, FreshInv, OrphanInv, Row, InFlight
  <2>9. JobInv(j)'
    BY <2>4, <2>5, <2>6, <2>7, <2>8 DEF JobInv
  <2>10. QED
    BY <2>2, <2>3, <2>9, SameKeeps
<1>7. ASSUME NEW j \in Jobs, NEW h \in Hosts, StartHost(j, h)
      PROVE  \A i \in Jobs : JobInv(i)'
  <2>1. /\ pc[j] = "sweep"
        /\ host[j][h] = "next"
        /\ host'[j] = [host[j] EXCEPT ![h] = "probing"]
        /\ status'[j] = status[j] /\ scanned'[j] = scanned[j] /\ found'[j] = found[j]
        /\ rows'[j] = rows[j] /\ pc'[j] = pc[j] /\ known'[j] = known[j]
        /\ seen'[j] = seen[j] /\ missed'[j] = missed[j]
    BY <1>7 DEF StartHost, ScanTypeOK, table, worker, service, At
  <2>2. Sound' = Sound /\ up' = up /\ UNCHANGED expired
    BY <1>7 DEF StartHost, Sound, worker, service
  <2>3. \A i \in Jobs : i # j => Same(i)
    BY <1>7, <2>2 DEF StartHost, Same, ScanTypeOK, table, worker, service, At
  <2>4. FreshInv(j)'
    BY <2>1, <2>2 DEF JobInv, FreshInv
  <2>5. RowsInv(j)'
    BY <2>1, <2>2 DEF JobInv, FreshInv, RowsInv, Swept
  <2>6. FinalInv(j)'
    BY <2>1, <2>2 DEF JobInv, FinalInv, Present
  <2>7. KnownInv(j)'
    <3> SUFFICES ASSUME Sound', Row(j)'
                 PROVE  SeenRecorded(j)' /\ KnownLoaded(j)' /\ RetryCovers(j)' /\ AllAccounted(j)'
      BY DEF KnownInv
    <3>1. SeenRecorded(j) /\ KnownLoaded(j) /\ RetryCovers(j) /\ AllAccounted(j)
      BY <2>1, <2>2 DEF JobInv, KnownInv, Row
    <3>2. \A g \in Hosts : HasRow(j, g) => HasRow(j, g)'
      BY <2>1 DEF HasRow
    <3>3. SeenRecorded(j)'
      BY <2>1, <2>2, <3>1, <3>2 DEF JobInv, SeenRecorded, ScanTypeOK, FreshInv
    <3>4. KnownLoaded(j)'
      BY <2>1, <2>2, <3>1, <3>2 DEF JobInv, KnownLoaded
    <3>5. RetryCovers(j)'
      BY <2>1, <2>2, <3>1, <3>2, ScanAssumption DEF JobInv, RetryCovers, SeenRecorded, RowsInv, ScanTypeOK, Busy
    <3>6. AllAccounted(j)'
      BY <2>1, <2>2, <3>1, <3>2, ScanAssumption DEF JobInv, AllAccounted, KnownLoaded, RetryCovers, FinalInv, Row, ScanTypeOK
    <3>7. QED
      BY <3>3, <3>4, <3>5, <3>6
  <2>8. OrphanInv(j)'
    BY <2>1, <2>2 DEF JobInv, FreshInv, OrphanInv, Row, InFlight
  <2>9. JobInv(j)'
    BY <2>4, <2>5, <2>6, <2>7, <2>8 DEF JobInv
  <2>10. QED
    BY <2>2, <2>3, <2>9, SameKeeps
<1>8. ASSUME NEW j \in Jobs, NEW h \in Hosts, NEW alive \in BOOLEAN, ProbeHost(j, h, alive)
      PROVE  \A i \in Jobs : JobInv(i)'
  <2>1. /\ pc[j] # "none"
        /\ host[j][h] = "probing"
        /\ host'[j] = [host[j] EXCEPT ![h] = IF alive THEN "record" ELSE "bump"]
        /\ seen'[j] = (IF alive THEN seen[j] \cup {h} ELSE seen[j])
        /\ status'[j] = status[j] /\ scanned'[j] = scanned[j] /\ found'[j] = found[j]
        /\ rows'[j] = rows[j] /\ pc'[j] = pc[j] /\ known'[j] = known[j]
        /\ missed'[j] = missed[j]
    BY <1>8 DEF ProbeHost, ScanTypeOK, table, worker, service, At
  <2>2. Sound' = Sound /\ up' = up /\ UNCHANGED expired
    BY <1>8 DEF ProbeHost, Sound, worker, service
  <2>3. \A i \in Jobs : i # j => Same(i)
    BY <1>8, <2>2 DEF ProbeHost, Same, ScanTypeOK, table, worker, service, At
  <2>4. FreshInv(j)'
    BY <2>1, <2>2 DEF JobInv, FreshInv
  <2>5. RowsInv(j)'
    <3>1. pc[j] = "sweep"
      <4>1. ~Swept(j)
        BY <2>1 DEF JobInv, RowsInv
      <4>2. pc[j] \notin {"created", "load"}
        BY <2>1 DEF JobInv, FreshInv
      <4>3. QED
        BY <2>1, <4>1, <4>2 DEF Swept, ScanTypeOK
    <3>2. \A g \in Hosts : host'[j][g] = "record" => g \in seen'[j]
      BY <2>1 DEF JobInv, RowsInv, ScanTypeOK
    <3>3. QED
      BY <2>1, <3>1, <3>2 DEF JobInv, RowsInv, Swept
  <2>6. FinalInv(j)'
    BY <2>1, <2>2 DEF JobInv, FinalInv, Present
  <2>7. KnownInv(j)'
    <3> SUFFICES ASSUME Sound', Row(j)'
                 PROVE  SeenRecorded(j)' /\ KnownLoaded(j)' /\ RetryCovers(j)' /\ AllAccounted(j)'
      BY DEF KnownInv
    <3>1. SeenRecorded(j) /\ KnownLoaded(j) /\ RetryCovers(j) /\ AllAccounted(j)
      BY <2>1, <2>2 DEF JobInv, KnownInv, Row
    <3>2. \A g \in Hosts : HasRow(j, g) => HasRow(j, g)'
      BY <2>1 DEF HasRow
    <3>3. SeenRecorded(j)'
      BY <2>1, <2>2, <3>1, <3>2 DEF JobInv, SeenRecorded, ScanTypeOK, FreshInv
    <3>4. KnownLoaded(j)'
      BY <2>1, <2>2, <3>1, <3>2 DEF JobInv, KnownLoaded
    <3>5. RetryCovers(j)'
      BY <2>1, <2>2, <3>1, <3>2, ScanAssumption DEF JobInv, RetryCovers, SeenRecorded, RowsInv, ScanTypeOK, Busy
    <3>6. AllAccounted(j)'
      BY <2>1, <2>2, <3>1, <3>2, ScanAssumption DEF JobInv, AllAccounted, KnownLoaded, RetryCovers, FinalInv, Row, ScanTypeOK
    <3>7. QED
      BY <3>3, <3>4, <3>5, <3>6
  <2>8. OrphanInv(j)'
    BY <2>1, <2>2 DEF JobInv, FreshInv, OrphanInv, Row, InFlight
  <2>9. JobInv(j)'
    BY <2>4, <2>5, <2>6, <2>7, <2>8 DEF JobInv
  <2>10. QED
    BY <2>2, <2>3, <2>9, SameKeeps
<1>9. ASSUME NEW j \in Jobs, NEW h \in Hosts, recordResult(j, h)
      PROVE  \A i \in Jobs : JobInv(i)'
  <2>1. /\ pc[j] # "none"
        /\ host[j][h] = "record"
        /\ rows'[j] = (IF Row(j) THEN rows[j] \cup {<<h, "seen">>} ELSE rows[j])
        /\ host'[j] = [host[j] EXCEPT ![h] = "bump"]
        /\ status'[j] = status[j] /\ scanned'[j] = scanned[j] /\ found'[j] = found[j]
        /\ pc'[j] = pc[j] /\ known'[j] = known[j] /\ seen'[j] = seen[j]
        /\ missed'[j] = missed[j]
    BY <1>9 DEF recordResult, ScanTypeOK, table, worker, service, At, Insert
  <2>2. Sound' = Sound /\ up' = up /\ UNCHANGED expired
    BY <1>9 DEF recordResult, Sound, worker, service
  <2>3. \A i \in Jobs : i # j => Same(i)
    BY <1>9, <2>2 DEF recordResult, Same, ScanTypeOK, table, worker, service, At, Insert
  <2>4. FreshInv(j)'
    BY <2>1, <2>2 DEF JobInv, FreshInv
  <2>5. RowsInv(j)'
    BY <2>1, <2>2 DEF JobInv, FreshInv, RowsInv, Swept
  <2>6. FinalInv(j)'
    BY <2>1, <2>2 DEF JobInv, FinalInv, Present
  <2>7. KnownInv(j)'
    <3> SUFFICES ASSUME Sound', Row(j)'
                 PROVE  SeenRecorded(j)' /\ KnownLoaded(j)' /\ RetryCovers(j)' /\ AllAccounted(j)'
      BY DEF KnownInv
    <3>1. SeenRecorded(j) /\ KnownLoaded(j) /\ RetryCovers(j) /\ AllAccounted(j)
      BY <2>1, <2>2 DEF JobInv, KnownInv, Row
    <3>2. \A g \in Hosts : HasRow(j, g) => HasRow(j, g)'
      BY <2>1 DEF HasRow
    <3>r. Row(j) /\ HasRow(j, h)'
      BY <2>1 DEF Row, HasRow, Dispositions
    <3>3. SeenRecorded(j)'
      BY <2>1, <2>2, <3>1, <3>2, <3>r DEF JobInv, SeenRecorded, ScanTypeOK, FreshInv
    <3>4. KnownLoaded(j)'
      BY <2>1, <2>2, <3>1, <3>2, <3>r DEF JobInv, KnownLoaded
    <3>5. RetryCovers(j)'
      BY <2>1, <2>2, <3>1, <3>2, <3>r, ScanAssumption DEF JobInv, RetryCovers, SeenRecorded, RowsInv, ScanTypeOK, Busy
    <3>6. AllAccounted(j)'
      BY <2>1, <2>2, <3>1, <3>2, <3>r, ScanAssumption DEF JobInv, AllAccounted, KnownLoaded, RetryCovers, FinalInv, Row, ScanTypeOK
    <3>7. QED
      BY <3>3, <3>4, <3>5, <3>6
  <2>8. OrphanInv(j)'
    BY <2>1, <2>2 DEF JobInv, FreshInv, OrphanInv, Row, InFlight
  <2>9. JobInv(j)'
    BY <2>4, <2>5, <2>6, <2>7, <2>8 DEF JobInv
  <2>10. QED
    BY <2>2, <2>3, <2>9, SameKeeps
<1>10. ASSUME NEW j \in Jobs, NEW h \in Hosts, bumpScanned(j, h)
      PROVE  \A i \in Jobs : JobInv(i)'
  <2>1. /\ pc[j] # "none"
        /\ host[j][h] = "bump"
        /\ scanned'[j] = (IF Row(j) THEN scanned[j] + 1 ELSE scanned[j])
        /\ host'[j] = [host[j] EXCEPT ![h] = "done"]
        /\ status'[j] = status[j] /\ found'[j] = found[j] /\ rows'[j] = rows[j]
        /\ pc'[j] = pc[j] /\ known'[j] = known[j] /\ seen'[j] = seen[j]
        /\ missed'[j] = missed[j]
    BY <1>10 DEF bumpScanned, ScanTypeOK, table, worker, service, At
  <2>2. Sound' = Sound /\ up' = up /\ UNCHANGED expired
    BY <1>10 DEF bumpScanned, Sound, worker, service
  <2>3. \A i \in Jobs : i # j => Same(i)
    BY <1>10, <2>2 DEF bumpScanned, Same, ScanTypeOK, table, worker, service, At
  <2>4. FreshInv(j)'
    BY <2>1, <2>2 DEF JobInv, FreshInv
  <2>5. RowsInv(j)'
    BY <2>1, <2>2 DEF JobInv, FreshInv, RowsInv, Swept
  <2>6. FinalInv(j)'
    BY <2>1, <2>2 DEF JobInv, FinalInv, Present
  <2>7. KnownInv(j)'
    <3> SUFFICES ASSUME Sound', Row(j)'
                 PROVE  SeenRecorded(j)' /\ KnownLoaded(j)' /\ RetryCovers(j)' /\ AllAccounted(j)'
      BY DEF KnownInv
    <3>1. SeenRecorded(j) /\ KnownLoaded(j) /\ RetryCovers(j) /\ AllAccounted(j)
      BY <2>1, <2>2 DEF JobInv, KnownInv, Row
    <3>2. \A g \in Hosts : HasRow(j, g) => HasRow(j, g)'
      BY <2>1 DEF HasRow
    <3>3. SeenRecorded(j)'
      BY <2>1, <2>2, <3>1, <3>2 DEF JobInv, SeenRecorded, ScanTypeOK, FreshInv
    <3>4. KnownLoaded(j)'
      BY <2>1, <2>2, <3>1, <3>2 DEF JobInv, KnownLoaded
    <3>5. RetryCovers(j)'
      BY <2>1, <2>2, <3>1, <3>2, ScanAssumption DEF JobInv, RetryCovers, SeenRecorded, RowsInv, ScanTypeOK, Busy
    <3>6. AllAccounted(j)'
      BY <2>1, <2>2, <3>1, <3>2, ScanAssumption DEF JobInv, AllAccounted, KnownLoaded, RetryCovers, FinalInv, Row, ScanTypeOK
    <3>7. QED
      BY <3>3, <3>4, <3>5, <3>6
  <2>8. OrphanInv(j)'
    BY <2>1, <2>2 DEF JobInv, FreshInv, OrphanInv, Row, InFlight
  <2>9. JobInv(j)'
    BY <2>4, <2>5, <2>6, <2>7, <2>8 DEF JobInv
  <2>10. QED
    BY <2>2, <2>3, <2>9, SameKeeps
<1>11. ASSUME NEW j \in Jobs, NEW h \in Hosts, NEW d \in {"known_recovered", "known_unreachable"}, retryMissedKnown(j, h, d)
      PROVE  \A i \in Jobs : JobInv(i)'
  <2>1. /\ pc[j] = "retry"
        /\ h \in missed[j]
        /\ rows'[j] = (IF Row(j) THEN rows[j] \cup {<<h, d>>} ELSE rows[j])
        /\ missed'[j] = missed[j] \ {h}
        /\ status'[j] = status[j] /\ scanned'[j] = scanned[j] /\ found'[j] = found[j]
        /\ pc'[j] = pc[j] /\ host'[j] = host[j] /\ known'[j] = known[j]
        /\ seen'[j] = seen[j]
    BY <1>11 DEF retryMissedKnown, ScanTypeOK, table, worker, service, Insert
  <2>2. Sound' = Sound /\ up' = up /\ UNCHANGED expired
    BY <1>11 DEF retryMissedKnown, Sound, worker, service
  <2>3. \A i \in Jobs : i # j => Same(i)
    BY <1>11, <2>2 DEF retryMissedKnown, Same, ScanTypeOK, table, worker, service, Insert
  <2>4. FreshInv(j)'
    BY <2>1, <2>2 DEF JobInv, FreshInv
  <2>5. RowsInv(j)'
    BY <2>1, <2>2 DEF JobInv, FreshInv, RowsInv, Swept
  <2>6. FinalInv(j)'
    BY <2>1, <2>2 DEF JobInv, FinalInv, Present
  <2>7. KnownInv(j)'
    <3> SUFFICES ASSUME Sound', Row(j)'
                 PROVE  SeenRecorded(j)' /\ KnownLoaded(j)' /\ RetryCovers(j)' /\ AllAccounted(j)'
      BY DEF KnownInv
    <3>1. SeenRecorded(j) /\ KnownLoaded(j) /\ RetryCovers(j) /\ AllAccounted(j)
      BY <2>1, <2>2 DEF JobInv, KnownInv, Row
    <3>2. \A g \in Hosts : HasRow(j, g) => HasRow(j, g)'
      BY <2>1 DEF HasRow
    <3>r. Row(j) /\ HasRow(j, h)'
      BY <2>1 DEF Row, HasRow, Dispositions
    <3>3. SeenRecorded(j)'
      BY <2>1, <2>2, <3>1, <3>2, <3>r DEF JobInv, SeenRecorded, ScanTypeOK, FreshInv
    <3>4. KnownLoaded(j)'
      BY <2>1, <2>2, <3>1, <3>2, <3>r DEF JobInv, KnownLoaded
    <3>5. RetryCovers(j)'
      BY <2>1, <2>2, <3>1, <3>2, <3>r, ScanAssumption DEF JobInv, RetryCovers, SeenRecorded, RowsInv, ScanTypeOK, Busy
    <3>6. AllAccounted(j)'
      BY <2>1, <2>2, <3>1, <3>2, <3>r, ScanAssumption DEF JobInv, AllAccounted, KnownLoaded, RetryCovers, FinalInv, Row, ScanTypeOK
    <3>7. QED
      BY <3>3, <3>4, <3>5, <3>6
  <2>8. OrphanInv(j)'
    BY <2>1, <2>2 DEF JobInv, FreshInv, OrphanInv, Row, InFlight
  <2>9. JobInv(j)'
    BY <2>4, <2>5, <2>6, <2>7, <2>8 DEF JobInv
  <2>10. QED
    BY <2>2, <2>3, <2>9, SameKeeps
<1>12. ASSUME NEW j \in Jobs, startScan(j) PROVE \A i \in Jobs : JobInv(i)'
  <2>1. /\ status[j] = "none"
        /\ up
        /\ status'[j] = "pending"
        /\ pc'[j] = "created"
        /\ scanned'[j] = scanned[j] /\ found'[j] = found[j] /\ rows'[j] = rows[j]
        /\ host'[j] = host[j] /\ known'[j] = known[j] /\ seen'[j] = seen[j]
        /\ missed'[j] = missed[j]
    BY <1>12 DEF startScan, ScanTypeOK, table, worker, service
  <2>2. Sound' = Sound /\ up' = up /\ UNCHANGED expired
    BY <1>12 DEF startScan, Sound, worker, service
  <2>3. \A i \in Jobs : i # j => Same(i)
    BY <1>12, <2>2 DEF startScan, Same, ScanTypeOK, table, worker, service
  <2>4. FreshInv(j)'
    BY <2>1, <2>2 DEF JobInv, FreshInv
  <2>5. RowsInv(j)'
    BY <2>1, <2>2 DEF JobInv, FreshInv, RowsInv, Swept
  <2>6. FinalInv(j)'
    BY <2>1, <2>2 DEF JobInv, FinalInv, Present
  <2>7. KnownInv(j)'
    BY <2>1, <2>2 DEF JobInv, FreshInv, KnownInv, SeenRecorded, KnownLoaded, RetryCovers, AllAccounted
  <2>8. OrphanInv(j)'
    BY <2>1, <2>2 DEF JobInv, FreshInv, OrphanInv, Row, InFlight
  <2>9. JobInv(j)'
    BY <2>4, <2>5, <2>6, <2>7, <2>8 DEF JobInv
  <2>10. QED
    BY <2>2, <2>3, <2>9, SameKeeps
<1>13. ASSUME NEW j \in Jobs, DeadlinePasses(j) PROVE \A i \in Jobs : JobInv(i)'
  <2>1. /\ pc[j] # "none"
        /\ status'[j] = status[j] /\ scanned'[j] = scanned[j] /\ found'[j] = found[j]
        /\ rows'[j] = rows[j] /\ pc'[j] = pc[j] /\ host'[j] = host[j]
        /\ known'[j] = known[j] /\ seen'[j] = seen[j] /\ missed'[j] = missed[j]
    BY <1>13 DEF DeadlinePasses, ScanTypeOK, table, worker, service
  <2>2. Sound' = Sound /\ up' = up /\ expired' = expired \cup {j}
    BY <1>13 DEF DeadlinePasses, Sound, worker, service
  <2>3. \A i \in Jobs : i # j => Same(i)
    BY <1>13, <2>2 DEF DeadlinePasses, Same, ScanTypeOK, table, worker, service
  <2>4. FreshInv(j)'
    BY <2>1, <2>2 DEF JobInv, FreshInv
  <2>5. RowsInv(j)'
    BY <2>1, <2>2 DEF JobInv, FreshInv, RowsInv, Swept
  <2>6. FinalInv(j)'
    BY <2>1, <2>2 DEF JobInv, FinalInv, Present
  <2>7. KnownInv(j)'
    <3> SUFFICES ASSUME Sound', Row(j)'
                 PROVE  SeenRecorded(j)' /\ KnownLoaded(j)' /\ RetryCovers(j)' /\ AllAccounted(j)'
      BY DEF KnownInv
    <3>1. SeenRecorded(j) /\ KnownLoaded(j) /\ RetryCovers(j) /\ AllAccounted(j)
      BY <2>1, <2>2 DEF JobInv, KnownInv, Row
    <3>2. \A g \in Hosts : HasRow(j, g) => HasRow(j, g)'
      BY <2>1 DEF HasRow
    <3>3. SeenRecorded(j)'
      BY <2>1, <2>2, <3>1, <3>2 DEF JobInv, SeenRecorded, ScanTypeOK, FreshInv
    <3>4. KnownLoaded(j)'
      BY <2>1, <2>2, <3>1, <3>2 DEF JobInv, KnownLoaded
    <3>5. RetryCovers(j)'
      BY <2>1, <2>2, <3>1, <3>2, ScanAssumption DEF JobInv, RetryCovers, SeenRecorded, RowsInv, ScanTypeOK, Busy
    <3>6. AllAccounted(j)'
      BY <2>1, <2>2, <3>1, <3>2, ScanAssumption DEF JobInv, AllAccounted, KnownLoaded, RetryCovers, FinalInv, Row, ScanTypeOK
    <3>7. QED
      BY <3>3, <3>4, <3>5, <3>6
  <2>8. OrphanInv(j)'
    BY <2>1, <2>2 DEF JobInv, FreshInv, OrphanInv, Row, InFlight
  <2>9. JobInv(j)'
    BY <2>4, <2>5, <2>6, <2>7, <2>8 DEF JobInv
  <2>10. QED
    BY <2>2, <2>3, <2>9, SameKeeps
<1>14. ASSUME NEW j \in Jobs, GrowsOld(j) PROVE \A i \in Jobs : JobInv(i)'
  <2>1. /\ TRUE
        /\ status'[j] = status[j] /\ scanned'[j] = scanned[j] /\ found'[j] = found[j]
        /\ rows'[j] = rows[j] /\ pc'[j] = pc[j] /\ host'[j] = host[j]
        /\ known'[j] = known[j] /\ seen'[j] = seen[j] /\ missed'[j] = missed[j]
    BY <1>14 DEF GrowsOld, ScanTypeOK, table, worker, service
  <2>2. Sound' = Sound /\ up' = up /\ UNCHANGED expired
    BY <1>14 DEF GrowsOld, Sound, worker, service
  <2>3. \A i \in Jobs : i # j => Same(i)
    BY <1>14, <2>2 DEF GrowsOld, Same, ScanTypeOK, table, worker, service
  <2>4. FreshInv(j)'
    BY <2>1, <2>2 DEF JobInv, FreshInv
  <2>5. RowsInv(j)'
    BY <2>1, <2>2 DEF JobInv, FreshInv, RowsInv, Swept
  <2>6. FinalInv(j)'
    BY <2>1, <2>2 DEF JobInv, FinalInv, Present
  <2>7. KnownInv(j)'
    <3> SUFFICES ASSUME Sound', Row(j)'
                 PROVE  SeenRecorded(j)' /\ KnownLoaded(j)' /\ RetryCovers(j)' /\ AllAccounted(j)'
      BY DEF KnownInv
    <3>1. SeenRecorded(j) /\ KnownLoaded(j) /\ RetryCovers(j) /\ AllAccounted(j)
      BY <2>1, <2>2 DEF JobInv, KnownInv, Row
    <3>2. \A g \in Hosts : HasRow(j, g) => HasRow(j, g)'
      BY <2>1 DEF HasRow
    <3>3. SeenRecorded(j)'
      BY <2>1, <2>2, <3>1, <3>2 DEF JobInv, SeenRecorded, ScanTypeOK, FreshInv
    <3>4. KnownLoaded(j)'
      BY <2>1, <2>2, <3>1, <3>2 DEF JobInv, KnownLoaded
    <3>5. RetryCovers(j)'
      BY <2>1, <2>2, <3>1, <3>2, ScanAssumption DEF JobInv, RetryCovers, SeenRecorded, RowsInv, ScanTypeOK, Busy
    <3>6. AllAccounted(j)'
      BY <2>1, <2>2, <3>1, <3>2, ScanAssumption DEF JobInv, AllAccounted, KnownLoaded, RetryCovers, FinalInv, Row, ScanTypeOK
    <3>7. QED
      BY <3>3, <3>4, <3>5, <3>6
  <2>8. OrphanInv(j)'
    BY <2>1, <2>2 DEF JobInv, FreshInv, OrphanInv, Row, InFlight
  <2>9. JobInv(j)'
    BY <2>4, <2>5, <2>6, <2>7, <2>8 DEF JobInv
  <2>10. QED
    BY <2>2, <2>3, <2>9, SameKeeps
<1>15. ASSUME NEW j \in Jobs, deleteDiscoveryJob(j) PROVE \A i \in Jobs : JobInv(i)'
  <2>1. /\ Row(j)
        /\ status'[j] = "deleted"
        /\ rows'[j] = {}
        /\ scanned'[j] = scanned[j] /\ found'[j] = found[j] /\ pc'[j] = pc[j]
        /\ host'[j] = host[j] /\ known'[j] = known[j] /\ seen'[j] = seen[j]
        /\ missed'[j] = missed[j]
    BY <1>15 DEF deleteDiscoveryJob, ScanTypeOK, table, worker, service
  <2>2. Sound' = Sound /\ up' = up /\ UNCHANGED expired
    BY <1>15 DEF deleteDiscoveryJob, Sound, worker, service
  <2>3. \A i \in Jobs : i # j => Same(i)
    BY <1>15, <2>2 DEF deleteDiscoveryJob, Same, ScanTypeOK, table, worker, service
  <2>4. FreshInv(j)'
    BY <2>1, <2>2 DEF JobInv, FreshInv
  <2>5. RowsInv(j)'
    BY <2>1, <2>2 DEF JobInv, FreshInv, RowsInv, Swept
  <2>6. FinalInv(j)'
    BY <2>1, <2>2 DEF JobInv, FinalInv, Present
  <2>7. KnownInv(j)'
    BY <2>1 DEF KnownInv, Row
  <2>8. OrphanInv(j)'
    BY <2>1, <2>2 DEF JobInv, FreshInv, OrphanInv, Row, InFlight
  <2>9. JobInv(j)'
    BY <2>4, <2>5, <2>6, <2>7, <2>8 DEF JobInv
  <2>10. QED
    BY <2>2, <2>3, <2>9, SameKeeps
<1>16. ASSUME StartScanReconciler PROVE \A i \in Jobs : JobInv(i)'
  <2>1. /\ \A i \in Jobs : \/ status'[i] = status[i]
                           \/ status'[i] = "failed" /\ status[i] \in InFlight
        /\ UNCHANGED <<scanned, found, rows, pc, host, known, seen, missed, expired, faults>>
    BY <1>16 DEF StartScanReconciler, Reconcile, worker
  <2>2. SUFFICES ASSUME NEW i \in Jobs PROVE JobInv(i)'
    OBVIOUS
  <2>3. FreshInv(i)' /\ RowsInv(i)' /\ FinalInv(i)'
    <3>1. FreshInv(i)'
      BY <2>1 DEF JobInv, FreshInv, InFlight
    <3>2. RowsInv(i)'
      BY <2>1 DEF JobInv, RowsInv, Swept
    <3>3. FinalInv(i)'
      BY <2>1 DEF JobInv, FinalInv, Present
    <3>4. QED
      BY <3>1, <3>2, <3>3
  <2>4. KnownInv(i)'
    BY <2>1 DEF JobInv, KnownInv, SeenRecorded, KnownLoaded, RetryCovers, AllAccounted, HasRow, Row, Sound, InFlight
  <2>5. OrphanInv(i)'
    <3>1. up' = up
      BY <1>16 DEF StartScanReconciler
    <3>2. QED
      BY <2>1, <3>1 DEF JobInv, OrphanInv, Sound, InFlight
  <2>6. QED
    BY <2>3, <2>4, <2>5 DEF JobInv
<1>17. ASSUME Crash PROVE \A i \in Jobs : JobInv(i)'
  <2>1. /\ \A i \in Jobs : pc'[i] = "none"
        /\ UNCHANGED <<status, scanned, found, rows, host, known, seen, missed, expired, faults>>
        /\ ~up'
    BY <1>17 DEF Crash, table
  <2>2. SUFFICES ASSUME NEW i \in Jobs PROVE JobInv(i)'
    OBVIOUS
  <2>3. FreshInv(i)' /\ RowsInv(i)' /\ FinalInv(i)' /\ OrphanInv(i)'
    BY <2>1 DEF JobInv, FreshInv, RowsInv, FinalInv, OrphanInv, Swept, Present
  <2>4. KnownInv(i)'
    BY <2>1 DEF JobInv, KnownInv, SeenRecorded, KnownLoaded, RetryCovers, AllAccounted, HasRow, Row, Sound
  <2>5. QED
    BY <2>3, <2>4 DEF JobInv
<1>18. ASSUME Boot PROVE \A i \in Jobs : JobInv(i)'
  <2>1. /\ \A i \in Jobs : \/ status'[i] = status[i]
                           \/ status'[i] = "failed" /\ status[i] \in InFlight
        /\ UNCHANGED <<scanned, found, rows, pc, host, known, seen, missed, expired, faults>>
    BY <1>18 DEF Boot, Reconcile, worker
  <2>2. SUFFICES ASSUME NEW i \in Jobs PROVE JobInv(i)'
    OBVIOUS
  <2>3. FreshInv(i)' /\ RowsInv(i)' /\ FinalInv(i)'
    <3>1. FreshInv(i)'
      BY <2>1 DEF JobInv, FreshInv, InFlight
    <3>2. RowsInv(i)'
      BY <2>1 DEF JobInv, RowsInv, Swept
    <3>3. FinalInv(i)'
      BY <2>1 DEF JobInv, FinalInv, Present
    <3>4. QED
      BY <3>1, <3>2, <3>3
  <2>4. KnownInv(i)'
    BY <2>1 DEF JobInv, KnownInv, SeenRecorded, KnownLoaded, RetryCovers, AllAccounted, HasRow, Row, Sound, InFlight
  <2>5. OrphanInv(i)'
    <3>1. status'[i] \notin InFlight
      BY <1>18 DEF Boot, Reconcile, InFlight
    <3>2. QED
      BY <3>1 DEF OrphanInv
  <2>6. QED
    BY <2>3, <2>4, <2>5 DEF JobInv
<1>19. ASSUME NEW j \in Jobs, LaunchUnmarked(j) PROVE \A i \in Jobs : JobInv(i)'
  <2>1. /\ pc[j] = "created"
        /\ pc'[j] = "load"
        /\ status'[j] = status[j] /\ scanned'[j] = scanned[j] /\ found'[j] = found[j]
        /\ rows'[j] = rows[j] /\ host'[j] = host[j] /\ known'[j] = known[j]
        /\ seen'[j] = seen[j] /\ missed'[j] = missed[j]
    BY <1>19 DEF LaunchUnmarked, ScanTypeOK, table, worker, service
  <2>2. ~Sound' /\ up' = up /\ UNCHANGED expired
    BY <1>19 DEF LaunchUnmarked, Sound, worker, service, Fault, ScanTypeOK
  <2>3. \A i \in Jobs : i # j => Same(i)
    BY <1>19, <2>2 DEF LaunchUnmarked, Same, ScanTypeOK, table, worker, service
  <2>4. FreshInv(j)'
    BY <2>1, <2>2 DEF JobInv, FreshInv
  <2>5. RowsInv(j)'
    BY <2>1, <2>2 DEF JobInv, FreshInv, RowsInv, Swept
  <2>6. FinalInv(j)'
    BY <2>1, <2>2 DEF JobInv, FinalInv, Present
  <2>7. KnownInv(j)'
    BY <2>2 DEF KnownInv
  <2>8. OrphanInv(j)'
    BY <2>2 DEF OrphanInv
  <2>9. JobInv(j)'
    BY <2>4, <2>5, <2>6, <2>7, <2>8 DEF JobInv
  <2>10. QED
    BY <2>2, <2>3, <2>9, SameKeeps
<1>20. ASSUME NEW j \in Jobs, KnownUnread(j) PROVE \A i \in Jobs : JobInv(i)'
  <2>1. /\ pc[j] = "load"
        /\ pc'[j] = "sweep"
        /\ status'[j] = status[j] /\ scanned'[j] = scanned[j] /\ found'[j] = found[j]
        /\ rows'[j] = rows[j] /\ host'[j] = host[j] /\ known'[j] = known[j]
        /\ seen'[j] = seen[j] /\ missed'[j] = missed[j]
    BY <1>20 DEF KnownUnread, ScanTypeOK, table, worker, service
  <2>2. ~Sound' /\ up' = up /\ UNCHANGED expired
    BY <1>20 DEF KnownUnread, Sound, worker, service, Fault, ScanTypeOK
  <2>3. \A i \in Jobs : i # j => Same(i)
    BY <1>20, <2>2 DEF KnownUnread, Same, ScanTypeOK, table, worker, service
  <2>4. FreshInv(j)'
    BY <2>1, <2>2 DEF JobInv, FreshInv
  <2>5. RowsInv(j)'
    BY <2>1, <2>2 DEF JobInv, FreshInv, RowsInv, Swept
  <2>6. FinalInv(j)'
    BY <2>1, <2>2 DEF JobInv, FinalInv, Present
  <2>7. KnownInv(j)'
    BY <2>2 DEF KnownInv
  <2>8. OrphanInv(j)'
    BY <2>2 DEF OrphanInv
  <2>9. JobInv(j)'
    BY <2>4, <2>5, <2>6, <2>7, <2>8 DEF JobInv
  <2>10. QED
    BY <2>2, <2>3, <2>9, SameKeeps
<1>21. ASSUME NEW j \in Jobs, FinalStatusLost(j) PROVE \A i \in Jobs : JobInv(i)'
  <2>1. /\ pc[j] \in {"completed", "failed"}
        /\ pc'[j] = "none"
        /\ status'[j] = status[j] /\ scanned'[j] = scanned[j] /\ found'[j] = found[j]
        /\ rows'[j] = rows[j] /\ host'[j] = host[j] /\ known'[j] = known[j]
        /\ seen'[j] = seen[j] /\ missed'[j] = missed[j]
    BY <1>21 DEF FinalStatusLost, ScanTypeOK, table, worker, service
  <2>2. ~Sound' /\ up' = up /\ UNCHANGED expired
    BY <1>21 DEF FinalStatusLost, Sound, worker, service, Fault, ScanTypeOK
  <2>3. \A i \in Jobs : i # j => Same(i)
    BY <1>21, <2>2 DEF FinalStatusLost, Same, ScanTypeOK, table, worker, service
  <2>4. FreshInv(j)'
    BY <2>1, <2>2 DEF JobInv, FreshInv
  <2>5. RowsInv(j)'
    BY <2>1, <2>2 DEF JobInv, FreshInv, RowsInv, Swept
  <2>6. FinalInv(j)'
    BY <2>1, <2>2 DEF JobInv, FinalInv, Present
  <2>7. KnownInv(j)'
    BY <2>2 DEF KnownInv
  <2>8. OrphanInv(j)'
    BY <2>2 DEF OrphanInv
  <2>9. JobInv(j)'
    BY <2>4, <2>5, <2>6, <2>7, <2>8 DEF JobInv
  <2>10. QED
    BY <2>2, <2>3, <2>9, SameKeeps
<1>22. ASSUME NEW j \in Jobs, NEW h \in Hosts, ResultLost(j, h)
      PROVE  \A i \in Jobs : JobInv(i)'
  <2>1. /\ pc[j] # "none" /\ status'[j] = status[j] /\ scanned'[j] = scanned[j] /\ found'[j] = found[j]
        /\ rows'[j] = rows[j] /\ pc'[j] = pc[j] /\ known'[j] = known[j] /\ seen'[j] = seen[j]
        /\ \/ /\ host[j][h] \in {"record", "bump"} /\ missed'[j] = missed[j]
              /\ \E s \in {"bump", "done"} : host'[j] = [host[j] EXCEPT ![h] = s]
           \/ host'[j] = host[j] /\ missed'[j] = missed[j] \ {h} /\ pc[j] = "retry"
    BY <1>22 DEF ResultLost, At, ScanTypeOK, table
  <2>2. ~Sound' /\ up' = up /\ UNCHANGED expired
    BY <1>22 DEF ResultLost, Fault, Sound, ScanTypeOK
  <2>3. \A i \in Jobs : i # j => Same(i)
    BY <1>22, <2>2 DEF ResultLost, At, Same, ScanTypeOK, table
  <2>4. FreshInv(j)'
    BY <2>1 DEF JobInv, FreshInv, ScanTypeOK
  <2>5. RowsInv(j)'
    <3>1. CASE host'[j] = host[j] /\ missed'[j] = missed[j] \ {h}
      BY <2>1, <3>1 DEF JobInv, RowsInv, Swept
    <3>2. CASE /\ host[j][h] \in {"record", "bump"} /\ missed'[j] = missed[j]
               /\ \E s \in {"bump", "done"} : host'[j] = [host[j] EXCEPT ![h] = s]
      <4>1. ~Swept(j)
        BY <3>2 DEF JobInv, RowsInv
      <4>2. \A g \in Hosts : host'[j][g] = "record" => host[j][g] = "record"
        BY <3>2 DEF ScanTypeOK
      <4>3. QED
        BY <2>1, <3>2, <4>1, <4>2 DEF JobInv, RowsInv, Swept
    <3>3. QED
      BY <2>1, <3>1, <3>2
  <2>6. FinalInv(j)'
    BY <2>1 DEF JobInv, FinalInv, Present
  <2>7. KnownInv(j)' /\ OrphanInv(j)'
    BY <2>2 DEF KnownInv, OrphanInv
  <2>8. JobInv(j)'
    BY <2>4, <2>5, <2>6, <2>7 DEF JobInv
  <2>9. QED
    BY <2>2, <2>3, <2>8, SameKeeps
<1>23. ASSUME BootReconcileFails PROVE \A i \in Jobs : JobInv(i)'
  <2>1. /\ UNCHANGED <<status, scanned, found, rows, pc, host, known, seen, missed, expired>>
        /\ ~Sound'
    BY <1>23 DEF BootReconcileFails, Fault, Sound, ScanTypeOK, table, worker
  <2>2. SUFFICES ASSUME NEW i \in Jobs PROVE JobInv(i)'
    OBVIOUS
  <2>3. FreshInv(i)' /\ RowsInv(i)' /\ FinalInv(i)'
    BY <2>1 DEF JobInv, FreshInv, RowsInv, FinalInv, Swept, Present
  <2>4. QED
    BY <2>1, <2>3 DEF JobInv, KnownInv, OrphanInv
<1>24. CASE UNCHANGED vars
  <2>1. (Sound' = Sound) /\ up' = up /\ \A i \in Jobs : Same(i)
    BY <1>24 DEF vars, table, worker, service, Sound, Same
  <2>2. QED
    BY <2>1, SameKeeps
<1>25. QED
  BY <1>1, <1>2, <1>3, <1>4, <1>5, <1>6, <1>7, <1>8, <1>9, <1>10, <1>11, <1>12, <1>13,
     <1>14, <1>15, <1>16, <1>17, <1>18, <1>19, <1>20, <1>21, <1>22, <1>23, <1>24 DEF
     Next, Work, Environment, LostWrites

\* The invariant holds whichever writes fail.
LEMMA ScanInvariant == LossySpec => []ScanInv
<1>1. Init => ScanInv
  <2> SUFFICES ASSUME Init PROVE ScanInv
    OBVIOUS
  <2>1. ScanTypeOK
    BY DEF Init, ScanTypeOK, Steps
  <2>2. \A j \in Jobs : FreshInv(j) /\ RowsInv(j) /\ FinalInv(j)
    BY DEF Init, FreshInv, RowsInv, FinalInv, Swept
  <2>3. \A j \in Jobs : KnownInv(j) /\ OrphanInv(j)
    BY DEF Init, KnownInv, OrphanInv, Row, InFlight
  <2>4. QED
    BY <2>1, <2>2, <2>3 DEF ScanInv, JobInv
<1>2. ScanInv /\ [Next \/ LostWrites]_vars => ScanInv'
  <2> SUFFICES ASSUME ScanInv, [Next \/ LostWrites]_vars PROVE ScanInv'
    OBVIOUS
  <2>1. ScanTypeOK'
    BY ScanTypeStep DEF ScanInv
  <2>2. \A i \in Jobs : JobInv(i)'
    BY ScanStep DEF ScanInv
  <2>3. QED
    BY <2>1, <2>2 DEF ScanInv
<1>3. QED
  BY <1>1, <1>2, PTL DEF LossySpec

\* Whatever the concurrent host workers, the retry pass, the reconciler, the
\* operator and failed writes do, a host has one row per scan, and a completed
\* job's counters agree with its rows (recordResult, retryMissedKnown,
\* UpdateDiscoveryJobStatus).
THEOREM OneStory == LossySpec => []RowsMatchJob
<1>1. ScanInv => RowsMatchJob
  <2> SUFFICES ASSUME ScanInv PROVE RowsMatchJob
    OBVIOUS
  <2>1. OneRowPerHost
    <3> SUFFICES ASSUME NEW j \in Jobs, NEW r1 \in rows[j], NEW r2 \in rows[j], r1[1] = r2[1]
                 PROVE  r1 = r2
      BY DEF OneRowPerHost
    <3>1. r1 \in Hosts \X Dispositions /\ r2 \in Hosts \X Dispositions
      BY DEF ScanInv, ScanTypeOK
    <3>2. PICK h \in Hosts, d1 \in Dispositions, d2 \in Dispositions :
            r1 = <<h, d1>> /\ r2 = <<h, d2>>
      BY <3>1
    <3>3. d1 = d2
      <4>1. CASE d1 # "seen"
        BY <3>2, <4>1 DEF ScanInv, JobInv, RowsInv
      <4>2. CASE d2 # "seen"
        BY <3>2, <4>2 DEF ScanInv, JobInv, RowsInv
      <4>3. QED
        BY <4>1, <4>2
    <3>4. QED
      BY <3>2, <3>3
  <2>2. CountersMatchRows
    BY DEF ScanInv, JobInv, FinalInv, CountersMatchRows
  <2>3. QED
    BY <2>1, <2>2 DEF RowsMatchJob
<1>2. QED
  BY <1>1, ScanInvariant, PTL

\* A known device never vanishes from a completed scan, however the deadline
\* cuts the sweep or the retry (runScanJob, retryMissedKnown).
THEOREM KnownKept == LossySpec => []KnownAccountedFor
<1>1. ScanInv => KnownAccountedFor
  BY DEF ScanInv, JobInv, KnownInv, AllAccounted, Row, HasRow, KnownAccountedFor
<1>2. QED
  BY <1>1, ScanInvariant, PTL

\* A job that reads pending or running has its startScan call or its worker
\* behind it: the boot pass leaves no orphan of a crash (ReconcileScanJobs).
THEOREM NoOrphan == LossySpec => []RunningHasWorker
<1>1. ScanInv => RunningHasWorker
  BY DEF ScanInv, JobInv, OrphanInv, RunningHasWorker
<1>2. QED
  BY <1>1, ScanInvariant, PTL
=============================================================================
