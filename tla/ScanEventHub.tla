---------------------------- MODULE ScanEventHub ----------------------------
(***************************************************************************)
(* The live play-by-play of a discovery scan: the in-memory hub that       *)
(* buffers each job's events and fans them out to subscriber channels, the *)
(* SSE handler that bridges a channel to a browser, and the browser, which *)
(* reconnects when its stream is cut and closes it on job_completed.       *)
(*                                                                         *)
(* publish and subscribe run under the hub's mutex and are one action      *)
(* each; the handler reads the job's status before it subscribes.  An      *)
(* event is its sequence number; its text, address and stage are left out, *)
(* except for job_completed.                                               *)
(***************************************************************************)
EXTENDS Naturals, Sequences, FiniteSets

CONSTANTS
  Jobs,          \* discovery jobs
  Clients,       \* browsers showing the live board
  Watches,       \* the job each browser shows
  scanBufCap,    \* replay buffer length
  scanSubDepth,  \* subscriber channel depth
  maxHubJobs,    \* jobs the hub keeps
  MaxEvents,     \* bound: events of one job before job_completed
  MaxRestarts    \* bound: restarts of the API

ASSUME HubAssumption ==
  /\ IsFiniteSet(Jobs) /\ IsFiniteSet(Clients) /\ Watches \in [Clients -> Jobs]
  /\ scanBufCap \in Nat \ {0} /\ scanSubDepth \in Nat \ {0} /\ maxHubJobs \in Nat \ {0}
  /\ MaxEvents \in Nat /\ MaxRestarts \in Nat

VARIABLES
  status,    \* discovery_jobs.status: "none", "running" or "ended"
  workers,   \* the jobs whose runScanJob goroutine is alive
  seq,       \* scanEventHub.seq
  hub,       \* scanEventHub.jobs: the jobs that have a stream
  buf,       \* per job, its stream's replay buffer
  subs,      \* per job, its stream's subscribers
  client,    \* per browser: "connect", "subscribe", "live", "done" or "left"
  chan,      \* per browser, the events waiting in its channel
  open,      \* per browser, whether its channel is open
  got,       \* per browser, what this connection has delivered
  log,       \* history: per job, every event it published since the API started
  evicted,   \* history: the jobs whose stream publish has evicted
  final,     \* history: per job, the number of its job_completed event, or 0
  restarts   \* restarts so far (a bound, not state of the program)

browser == <<client, chan, open, got>>
stream == <<seq, hub, buf, subs, evicted>>
vars == <<status, workers, stream, browser, log, final, restarts>>

Init ==
  /\ status = [j \in Jobs |-> "none"] /\ workers = {}
  /\ seq = 0 /\ hub = {}
  /\ buf = [j \in Jobs |-> <<>>]
  /\ subs = [j \in Jobs |-> {}]
  /\ client = [c \in Clients |-> "connect"]
  /\ chan = [c \in Clients |-> <<>>]
  /\ open = [c \in Clients |-> FALSE]
  /\ got = [c \in Clients |-> <<>>]
  /\ evicted = {}
  /\ log = [j \in Jobs |-> <<>>]
  /\ final = [j \in Jobs |-> 0]
  /\ restarts = 0

-----------------------------------------------------------------------------
(* The hub.                                                                *)

(* The last scanBufCap events. *)
Trimmed(s) == IF Len(s) > scanBufCap THEN SubSeq(s, Len(s) - scanBufCap + 1, Len(s)) ELSE s

(* A non-blocking send to every subscriber; one whose channel is full is
   dropped and its channel closed. *)
FanOutSkippingLaggards(j, ev) ==                 \* mutant: a full channel just loses the event
  /\ chan' = [c \in Clients |-> IF c \in subs[j] /\ Len(chan[c]) < scanSubDepth
                                THEN Append(chan[c], ev) ELSE chan[c]]
  /\ UNCHANGED <<open, subs>>
FanOutNoClose(j, ev) ==                          \* mutant: a dropped channel is not closed
  LET lagging == {c \in subs[j] : Len(chan[c]) >= scanSubDepth}
  IN  /\ chan' = [c \in Clients |-> IF c \in subs[j] \ lagging THEN Append(chan[c], ev)
                                    ELSE chan[c]]
      /\ subs' = [subs EXCEPT ![j] = @ \ lagging]
      /\ UNCHANGED open
FanOut(j, ev) ==
  LET lagging == {c \in subs[j] : Len(chan[c]) >= scanSubDepth}
  IN  /\ chan' = [c \in Clients |-> IF c \in subs[j] \ lagging THEN Append(chan[c], ev)
                                    ELSE chan[c]]
      /\ open' = [c \in Clients |-> open[c] /\ c \notin lagging]
      /\ subs' = [subs EXCEPT ![j] = @ \ lagging]

(* A new stream takes the place of an arbitrary one when the hub is full. *)
Evicts(gone) == IF Cardinality(hub) >= maxHubJobs THEN Cardinality(gone) = 1 ELSE gone = {}

(* publish.  An evicted stream's buffer and subscriber set are forgotten: the
   channels stay open, and nobody will send on them again. *)
publish(j) ==
  LET ev == seq + 1
  IN  /\ seq' = ev
      /\ log' = [log EXCEPT ![j] = Append(@, ev)]
      /\ \/ /\ j \in hub
            /\ buf' = [buf EXCEPT ![j] = Trimmed(Append(@, ev))]
            /\ FanOut(j, ev)
            /\ UNCHANGED <<hub, evicted>>
         \/ /\ j \notin hub
            /\ \E gone \in SUBSET hub :
                 /\ Evicts(gone)
                 /\ hub' = (hub \ gone) \cup {j}
                 /\ buf' = [k \in Jobs |-> IF k \in gone THEN <<>>
                                           ELSE IF k = j THEN <<ev>> ELSE buf[k]]
                 /\ subs' = [k \in Jobs |-> IF k \in gone THEN {} ELSE subs[k]]
                 /\ evicted' = evicted \cup gone
            /\ UNCHANGED <<chan, open>>

(* subscribe: the snapshot and the channel are taken under one lock.  The
   handler sends the whole snapshot before it reads the channel. *)
subscribe(c) ==
  LET j == Watches[c]
  IN  /\ client[c] = "subscribe"
      /\ hub' = hub \cup {j}
      /\ subs' = [subs EXCEPT ![j] = @ \cup {c}]
      /\ client' = [client EXCEPT ![c] = "live"]
      /\ chan' = [chan EXCEPT ![c] = <<>>]
      /\ open' = [open EXCEPT ![c] = TRUE]
      /\ got' = [got EXCEPT ![c] = buf[j]]
      /\ UNCHANGED <<status, workers, seq, buf, evicted, log, final, restarts>>

(* The handler returns and unsubscribes. *)
Unsubscribed(c) == [subs EXCEPT ![Watches[c]] = @ \ {c}]
Return(c, next) ==
  /\ client' = [client EXCEPT ![c] = next]
  /\ subs' = Unsubscribed(c)
  /\ chan' = [chan EXCEPT ![c] = <<>>]
  /\ open' = [open EXCEPT ![c] = FALSE]

-----------------------------------------------------------------------------
(* The scan worker, as the hub sees it.                                    *)

startScan(j) ==
  /\ status[j] = "none"
  /\ status' = [status EXCEPT ![j] = "running"]
  /\ workers' = workers \cup {j}
  /\ UNCHANGED <<stream, browser, log, final, restarts>>

(* A host's worker reports progress. *)
publishScanEvent(j) ==
  /\ j \in workers /\ status[j] = "running" /\ Len(log[j]) < MaxEvents
  /\ publish(j)
  /\ UNCHANGED <<status, workers, client, got, final, restarts>>

(* The end of runScanJob: the final status, and only then job_completed. *)
UpdateDiscoveryJobStatus(j) ==
  /\ j \in workers /\ status[j] = "running"
  /\ status' = [status EXCEPT ![j] = "ended"]
  /\ UNCHANGED <<workers, stream, browser, log, final, restarts>>

PublishJobCompleted(j) ==
  /\ j \in workers /\ status[j] = "ended"
  /\ publish(j)
  /\ final' = [final EXCEPT ![j] = seq + 1]
  /\ workers' = workers \ {j}
  /\ UNCHANGED <<status, client, got, restarts>>

-----------------------------------------------------------------------------
(* streamScanEvents and the browser at its other end.                      *)

Completed(c) == final[Watches[c]] # 0 /\ \E i \in DOMAIN got[c] : got[c][i] = final[Watches[c]]

(* GetDiscoveryJob: a job that has ended is replayed from its persisted history
   with a terminal marker, on which the browser closes the stream. *)
GetDiscoveryJob(c) ==
  /\ client[c] = "connect" /\ status[Watches[c]] # "none"
  /\ client' = [client EXCEPT ![c] = IF status[Watches[c]] = "ended" THEN "done"
                                     ELSE "subscribe"]
  /\ got' = [got EXCEPT ![c] = <<>>]
  /\ UNCHANGED <<status, workers, stream, chan, open, log, final, restarts>>

(* The next event of the channel, closed or not; job_completed ends it. *)
Receive(c) ==
  /\ client[c] = "live" /\ chan[c] # <<>>
  /\ got' = [got EXCEPT ![c] = Append(@, Head(chan[c]))]
  /\ IF Head(chan[c]) = final[Watches[c]]
     THEN Return(c, "done")
     ELSE /\ chan' = [chan EXCEPT ![c] = Tail(@)]
          /\ UNCHANGED <<client, subs, open>>
  /\ UNCHANGED <<status, workers, seq, hub, buf, evicted, log, final, restarts>>

(* The channel is closed and drained: the handler returns, the browser
   reconnects. *)
Dropped(c) ==
  /\ client[c] = "live" /\ chan[c] = <<>> /\ ~open[c]
  /\ Return(c, "connect")
  /\ UNCHANGED <<status, workers, seq, hub, buf, evicted, got, log, final, restarts>>

(* The browser finds job_completed in what it was sent and closes its side. *)
CloseEventSource(c) ==
  /\ client[c] = "live" /\ Completed(c)
  /\ Return(c, "done")
  /\ UNCHANGED <<status, workers, seq, hub, buf, evicted, got, log, final, restarts>>

(* The operator leaves the page. *)
Leave(c) ==
  /\ client[c] \in {"connect", "subscribe", "live"}
  /\ Return(c, "left")
  /\ UNCHANGED <<status, workers, seq, hub, buf, evicted, got, log, final, restarts>>

(* The API restarts: the hub is gone with the workers, the boot reconciler fails
   their jobs, and the browsers reconnect. *)
Restart ==
  /\ restarts < MaxRestarts
  /\ restarts' = restarts + 1
  /\ seq' = 0 /\ hub' = {} /\ evicted' = {}
  /\ buf' = [j \in Jobs |-> <<>>] /\ subs' = [j \in Jobs |-> {}]
  /\ log' = [j \in Jobs |-> <<>>] /\ final' = [j \in Jobs |-> 0]
  /\ workers' = {}
  /\ status' = [j \in Jobs |-> IF status[j] = "running" THEN "ended" ELSE status[j]]
  /\ client' = [c \in Clients |-> IF client[c] \in {"done", "left"} THEN client[c] ELSE "connect"]
  /\ chan' = [c \in Clients |-> <<>>] /\ open' = [c \in Clients |-> FALSE]
  /\ got' = [c \in Clients |-> <<>>]

-----------------------------------------------------------------------------
Scan == \E j \in Jobs : \/ startScan(j) \/ publishScanEvent(j)
                        \/ UpdateDiscoveryJobStatus(j) \/ PublishJobCompleted(j)

Browse == \E c \in Clients : \/ GetDiscoveryJob(c) \/ subscribe(c) \/ Receive(c)
                             \/ Dropped(c) \/ CloseEventSource(c) \/ Leave(c)

Next == Scan \/ Browse \/ Restart

Spec == Init /\ [][Next]_vars

(* A scan that has started comes to its end, and a browser and its handler keep
   reading; nobody need start a scan, leave a page or restart the API. *)
Fairness ==
  /\ \A j \in Jobs : WF_vars(UpdateDiscoveryJobStatus(j)) /\ WF_vars(PublishJobCompleted(j))
  /\ \A c \in Clients : /\ WF_vars(GetDiscoveryJob(c)) /\ WF_vars(subscribe(c))
                         /\ WF_vars(Receive(c)) /\ WF_vars(Dropped(c))
                         /\ WF_vars(CloseEventSource(c))

FairSpec == Spec /\ Fairness

-----------------------------------------------------------------------------
(* Properties.                                                             *)

(* Every variable has its type: replay buffers and subscriber channels stay
   within scanBufCap and scanSubDepth, and a stream exists only in the hub. *)
TypeOK ==
  /\ status \in [Jobs -> {"none", "running", "ended"}] /\ workers \subseteq Jobs
  /\ seq \in Nat /\ hub \subseteq Jobs /\ evicted \subseteq Jobs
  /\ buf \in [Jobs -> Seq(1..seq)] /\ \A j \in Jobs : Len(buf[j]) <= scanBufCap
  /\ subs \in [Jobs -> SUBSET Clients]
  /\ client \in [Clients -> {"connect", "subscribe", "live", "done", "left"}]
  /\ chan \in [Clients -> Seq(1..seq)] /\ \A c \in Clients : Len(chan[c]) <= scanSubDepth
  /\ open \in [Clients -> BOOLEAN]
  /\ got \in [Clients -> Seq(1..seq)]
  /\ log \in [Jobs -> Seq(1..seq)] /\ final \in [Jobs -> 0..seq]
  /\ restarts \in 0..MaxRestarts

(* subscribe takes the snapshot and the channel under one lock "so there is no
   gap or duplicate between them": what a connection has delivered and what
   waits in its channel is one contiguous run of the job's events, and it runs
   up to the newest event while the browser is still subscribed. *)
NoGapNoDuplicate ==
  \A c \in Clients : client[c] = "live" =>
    LET evs == got[c] \o chan[c]
        all == log[Watches[c]]
    IN  \E i \in 1..(Len(all) + 1) :
          \E k \in (i - 1)..Len(all) :
            /\ evs = SubSeq(all, i, k)
            /\ c \in subs[Watches[c]] => k = Len(all)

(* Nobody waits on a channel nobody sends on: while a job's worker runs, a live
   stream of it is still subscribed, or its channel has been closed so that
   the browser will reconnect; only publish's eviction of the whole stream
   leaves one behind. *)
NobodyStranded ==
  \A c \in Clients : client[c] = "live" /\ Watches[c] \in workers =>
                        c \in subs[Watches[c]] \/ ~open[c] \/ Watches[c] \in evicted

Watching(c) == status[Watches[c]] = "ended" /\ client[c] \in {"connect", "subscribe", "live"}
Released(c) == client[c] \in {"done", "left"}

(* Once a job has ended, every browser that watches it is told so, or its
   stream is cut and it asks again, unless publish has evicted the job's
   stream, and with it the subscribers or the events they came for. *)
ReleasedUnlessEvicted == \A c \in Clients : Watching(c) ~> Released(c) \/ Watches[c] \in evicted
=============================================================================
