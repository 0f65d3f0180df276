------------------------------ MODULE Notifier ------------------------------
(***************************************************************************)
(* Outgoing messages: notification channels and the dispatcher that sends  *)
(* open alerts to them (notifications.go, notify.go).  A target is sealed  *)
(* under the key loaded when its channel was made, and rotating the key    *)
(* does not re-seal it.  The dispatcher works on what it read at the start *)
(* of its pass, sends first and logs afterwards, so the log can miss a     *)
(* message that went out.  A day has DayLen minutes.                       *)
(***************************************************************************)
EXTENDS Naturals, FiniteSets

CONSTANTS Channels, Alerts,
          Severity,     \* severity of each alert
          MinSeverity,  \* min_severity of each channel
          QuietStart, QuietEnd,  \* quiet window of every channel, in minutes
          DayLen,       \* minutes of a day
          MaxFault      \* bound: failed statements, crashes and failed sends

ASSUME NotifierAssumption ==
  /\ DayLen \in Nat \ {0} /\ QuietStart \in 0 .. DayLen /\ QuietEnd \in 0 .. DayLen
  /\ MaxFault \in Nat

Locked == 0

VARIABLES loaded,     \* the cipher's key, or Locked
          channel,    \* table notification_channels
          alert,      \* table alerts, as ListNotifiableAlerts sees it
          logged,     \* notification_log rows with status 'sent'
          pass,       \* the dispatcher
          minute,
          delivered,  \* ghost: messages that reached the channel, per pair
          excused,    \* ghost: how often the log could not tell of one
          faults

notifyVars == <<loaded, channel, alert, logged, pass, minute,
                delivered, excused, faults>>

Pairs     == Channels \X Alerts
NoChannel == [exists |-> FALSE, enabled |-> FALSE, key |-> Locked]
Waiting   == [at |-> "timer"]

(* ---- the rules of notify.go ------------------------------------------- *)
sevRank(s) == CASE s = "critical" -> 2 [] s = "warning" -> 1 [] OTHER -> 0

InQuietHours(s, e, now) ==
  /\ s # e
  /\ IF s < e THEN now >= s /\ now < e ELSE now >= s \/ now < e

\* Mutant: an alert of exactly the channel's minimum severity is not sent.
ShouldNotify_Strict(sev, min, quiet) ==
  sevRank(sev) > sevRank(min) /\ (quiet => sev = "critical")

ShouldNotify(sev, min, quiet) ==
  sevRank(sev) >= sevRank(min) /\ (quiet => sev = "critical")

(* ---- statements ------------------------------------------------------- *)
\* Unresolved and opened within the last day.
ListNotifiableAlerts == {a \in Alerts : alert[a].open /\ alert[a].recent}
CreateNotificationChannel(c) ==
  [channel EXCEPT ![c] = [exists |-> TRUE, enabled |-> TRUE, key |-> loaded]]
SetNotificationChannelEnabled(c) == [channel EXCEPT ![c].enabled = ~@]
DeleteNotificationChannel(c) == [channel EXCEPT ![c] = NoChannel]
ListNotificationChannels == {c \in Channels : channel[c].exists}
ListSentNotificationPairs == logged

Opens(c) == channel[c].exists /\ channel[c].key = loaded
-----------------------------------------------------------------------------
(* The dispatcher.                                                         *)

\* dispatchNotifications reads channels, alerts and the pairs already sent;
\* when that last read fails it goes on as if nothing had been sent.
PassReads(sent) ==
  /\ pass = Waiting /\ loaded # Locked
  /\ pass' = [at |-> "loop",
              todo |-> {p \in Pairs :
                          /\ p[1] \in ListNotificationChannels /\ channel[p[1]].enabled /\ Opens(p[1])
                          /\ p[2] \in ListNotifiableAlerts /\ p \notin sent
                          /\ ShouldNotify(Severity[p[2]], MinSeverity[p[1]],
                                          InQuietHours(QuietStart, QuietEnd, minute))}]
  /\ UNCHANGED <<loaded, channel, alert, logged, minute, delivered>>

dispatchNotifications == PassReads(ListSentNotificationPairs) /\ UNCHANGED <<excused, faults>>
PairsUnread ==
  /\ faults < MaxFault /\ faults' = faults + 1
  /\ PassReads({})
  /\ excused' = [p \in Pairs |-> IF p \in logged THEN excused[p] + 1 ELSE excused[p]]

\* notify.Send; the order within a pass does not matter, every pair is due.
Send(p) ==
  /\ pass.at = "loop" /\ p \in pass.todo
  /\ delivered' = [delivered EXCEPT ![p] = @ + 1]
  /\ pass' = [at |-> "log", todo |-> pass.todo, pair |-> p]
  /\ UNCHANGED <<loaded, channel, alert, logged, minute, excused, faults>>

\* A failed send is logged as such and tried again by the next pass.
SendFails(p) ==
  /\ pass.at = "loop" /\ p \in pass.todo /\ faults < MaxFault
  /\ faults' = faults + 1
  /\ pass' = [pass EXCEPT !.todo = @ \ {p}]
  /\ UNCHANGED <<loaded, channel, alert, logged, minute, delivered, excused>>

Logged(p) == pass' = [at |-> "loop", todo |-> pass.todo \ {p}]

\* Mutant: a delivery is logged against its channel only, without the alert.
InsertNotificationLog_NoAlert ==
  /\ pass.at = "log" /\ channel[pass.pair[1]].exists
  /\ UNCHANGED logged /\ Logged(pass.pair)
  /\ UNCHANGED <<loaded, channel, alert, minute, delivered, excused, faults>>

\* ON CONFLICT DO NOTHING: the pair is in the log once.
InsertNotificationLog ==
  /\ pass.at = "log" /\ channel[pass.pair[1]].exists
  /\ logged' = logged \cup {pass.pair} /\ Logged(pass.pair)
  /\ UNCHANGED <<loaded, channel, alert, minute, delivered, excused, faults>>

\* The insert fails (its channel may be gone): only a warning is written.
LogFails ==
  /\ pass.at = "log"
  /\ IF channel[pass.pair[1]].exists THEN faults < MaxFault /\ faults' = faults + 1
                                     ELSE UNCHANGED faults
  /\ excused' = [excused EXCEPT ![pass.pair] = @ + 1] /\ Logged(pass.pair)
  /\ UNCHANGED <<loaded, channel, alert, logged, minute, delivered>>

PassEnds ==
  /\ pass.at = "loop" /\ pass.todo = {} /\ pass' = Waiting
  /\ UNCHANGED <<loaded, channel, alert, logged, minute, delivered, excused, faults>>

\* The process restarts with the key of its environment, or locked.
NotifierCrash(k) ==
  /\ faults < MaxFault /\ faults' = faults + 1
  /\ loaded' = k /\ pass' = Waiting
  /\ excused' = IF pass.at = "log" THEN [excused EXCEPT ![pass.pair] = @ + 1] ELSE excused
  /\ UNCHANGED <<channel, alert, logged, minute, delivered>>
-----------------------------------------------------------------------------
(* Operators, the alerting engine, the clock.                              *)

\* A new channel has an id nothing was ever sent to.
createNotificationChannel(c) ==
  /\ loaded # Locked /\ ~channel[c].exists /\ \A a \in Alerts : delivered[<<c, a>>] = 0
  /\ channel' = CreateNotificationChannel(c)
  /\ UNCHANGED <<loaded, alert, logged, pass, minute, delivered, excused, faults>>

setNotificationChannelEnabled(c) ==
  /\ channel[c].exists
  /\ channel' = SetNotificationChannelEnabled(c)
  /\ UNCHANGED <<loaded, alert, logged, pass, minute, delivered, excused, faults>>

\* The channel's log rows go with it.
deleteNotificationChannel(c) ==
  /\ channel[c].exists
  /\ channel' = DeleteNotificationChannel(c)
  /\ logged' = {p \in logged : p[1] # c}
  /\ UNCHANGED <<loaded, alert, pass, minute, delivered, excused, faults>>

\* Unlock or rotation: another key is loaded.
KeyChanges(k) ==
  /\ k # loaded /\ k # Locked /\ loaded' = k
  /\ UNCHANGED <<channel, alert, logged, pass, minute, delivered, excused, faults>>

AlertOpens(a) ==
  /\ ~alert[a].seen
  /\ alert' = [alert EXCEPT ![a] = [seen |-> TRUE, open |-> TRUE, recent |-> TRUE]]
  /\ UNCHANGED <<loaded, channel, logged, pass, minute, delivered, excused, faults>>

AlertResolves(a) ==
  /\ alert[a].open /\ alert' = [alert EXCEPT ![a].open = FALSE]
  /\ UNCHANGED <<loaded, channel, logged, pass, minute, delivered, excused, faults>>

AlertAges(a) ==
  /\ alert[a].open /\ alert[a].recent /\ alert' = [alert EXCEPT ![a].recent = FALSE]
  /\ UNCHANGED <<loaded, channel, logged, pass, minute, delivered, excused, faults>>

\* A pass takes no time on this clock, whose minutes are as long as needed.
Tick ==
  /\ pass = Waiting
  /\ minute' = (minute + 1) % DayLen
  /\ UNCHANGED <<loaded, channel, alert, logged, pass, delivered, excused, faults>>
-----------------------------------------------------------------------------
NotifierInit ==
  /\ loaded \in {Locked, 1}
  /\ channel = [c \in Channels |-> NoChannel]
  /\ alert = [a \in Alerts |-> [seen |-> FALSE, open |-> FALSE, recent |-> FALSE]]
  /\ logged = {} /\ pass = Waiting
  /\ minute = 0
  /\ delivered = [p \in Pairs |-> 0] /\ excused = [p \in Pairs |-> 0]
  /\ faults = 0

Dispatch == \/ dispatchNotifications \/ PairsUnread \/ InsertNotificationLog \/ LogFails \/ PassEnds
            \/ \E p \in Pairs : Send(p) \/ SendFails(p)

NotifierNext ==
  \/ Dispatch
  \/ \E k \in {Locked, 1, 2} : NotifierCrash(k) \/ KeyChanges(k)
  \/ \E c \in Channels : \/ createNotificationChannel(c) \/ setNotificationChannelEnabled(c)
                         \/ deleteNotificationChannel(c)
  \/ \E a \in Alerts : AlertOpens(a) \/ AlertResolves(a) \/ AlertAges(a)
  \/ Tick

\* The ticker starts passes much faster than quiet hours or a day go by, and
\* a pass runs to its end.
NotifierFairness ==
  /\ SF_notifyVars(Tick)
  /\ \A m \in 0 .. DayLen - 1 : SF_notifyVars(minute = m /\ dispatchNotifications)
  /\ WF_notifyVars(\E p \in Pairs : Send(p))
  /\ WF_notifyVars(InsertNotificationLog) /\ WF_notifyVars(LogFails) /\ WF_notifyVars(PassEnds)

NotifierSpec == NotifierInit /\ [][NotifierNext]_notifyVars /\ NotifierFairness
-----------------------------------------------------------------------------
\* The log keeps an alert from being sent twice to a channel: a pair is
\* delivered once, and once more for each time the log could not tell of it
\* (an insert that failed after the send, a crash between the two, a pass
\* that could not read the log).
OncePerPairUnlessUnlogged == \A p \in Pairs : delivered[p] <= 1 + excused[p]

\* Channel p[1] is due alert p[2], now or after its quiet hours.
Eligible(p) ==
  /\ loaded # Locked /\ Opens(p[1]) /\ channel[p[1]].enabled
  /\ p[2] \in ListNotifiableAlerts
  /\ sevRank(Severity[p[2]]) >= sevRank(MinSeverity[p[1]])

\* dispatchNotifications reaches everyone it should: an alert that stays open
\* and recent is delivered to every enabled channel of its severity whose
\* target the loaded key opens, quiet hours notwithstanding.
LastingAlertDelivered ==
  \A p \in Pairs : Eligible(p) ~> (delivered[p] > 0 \/ ~Eligible(p))
=============================================================================
