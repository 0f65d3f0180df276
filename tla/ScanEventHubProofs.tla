------------------------- MODULE ScanEventHubProofs -------------------------
(***************************************************************************)
(* What is proved of the live scan events, for any number of jobs and      *)
(* browsers, any buffer, channel and hub size and any restarts: a          *)
(* connection delivers one contiguous run of its job's events, and nobody  *)
(* waits on a channel that only an eviction can have orphaned.             *)
(***************************************************************************)
EXTENDS ScanEventHub, SequenceTheorems, TLAPS

HubTypeOK ==
  /\ seq \in Nat /\ hub \subseteq Jobs /\ evicted \subseteq Jobs
  /\ buf \in [Jobs -> Seq(Nat)] /\ log \in [Jobs -> Seq(Nat)]
  /\ subs \in [Jobs -> SUBSET Clients]
  /\ client \in [Clients -> {"connect", "subscribe", "live", "done", "left"}]
  /\ chan \in [Clients -> Seq(Nat)] /\ got \in [Clients -> Seq(Nat)]
  /\ open \in [Clients -> BOOLEAN]

\* evs is a contiguous run of all, up to its end if `newest'.
IsRun(evs, all, newest) ==
  \E i \in 1..(Len(all) + 1) : \E k \in (i - 1)..Len(all) :
    evs = SubSeq(all, i, k) /\ (newest => k = Len(all))

\* A job without a stream has neither buffer nor subscribers, and a stream's
\* subscribers show its job.
SubsInv ==
  /\ \A j \in Jobs : j \notin hub => subs[j] = {} /\ buf[j] = <<>>
  /\ \A j \in Jobs, c \in Clients : c \in subs[j] => Watches[c] = j

\* A replay buffer holds the newest events of its job.
BufInv == \A j \in Jobs : IsRun(buf[j], log[j], TRUE)

RunInv ==
  \A c \in Clients : client[c] = "live" =>
    IsRun(got[c] \o chan[c], log[Watches[c]], c \in subs[Watches[c]])

\* NobodyStranded, whether or not the worker still runs.
LiveInv ==
  \A c \in Clients : client[c] = "live" =>
    c \in subs[Watches[c]] \/ ~open[c] \/ Watches[c] \in evicted

HubInv == HubTypeOK /\ SubsInv /\ BufInv /\ RunInv /\ LiveInv
-----------------------------------------------------------------------------
(* Runs of a sequence.                                                     *)

\* The empty run ends anywhere.
LEMMA EmptyRun ==
  ASSUME NEW all \in Seq(Nat)
  PROVE  IsRun(<<>>, all, TRUE)
<1>1. Len(all) \in Nat
  BY LenProperties
<1>2. SubSeq(all, Len(all) + 1, Len(all)) = <<>>
  BY <1>1, SubSeqEmpty
<1>3. Len(all) + 1 \in 1..(Len(all) + 1) /\ Len(all) \in (Len(all) + 1 - 1)..Len(all)
  BY <1>1
<1>4. QED
  BY <1>2, <1>3 DEF IsRun

\* A run is a sequence, and its elements are those of the whole from i on.
LEMMA RunElements ==
  ASSUME NEW all \in Seq(Nat), NEW i \in 1..(Len(all) + 1), NEW k \in (i - 1)..Len(all)
  PROVE  /\ SubSeq(all, i, k) \in Seq(Nat)
         /\ Len(SubSeq(all, i, k)) = k - i + 1
         /\ \A n \in 1 .. k - i + 1 : SubSeq(all, i, k)[n] = all[i + n - 1]
<1>1. Len(all) \in Nat /\ i \in Int /\ k \in Int
  BY LenProperties
<1>2. \A n \in i .. k : all[n] \in Nat
  <2> SUFFICES ASSUME NEW n \in i .. k PROVE all[n] \in Nat
    OBVIOUS
  <2>1. n \in 1 .. Len(all)
    BY <1>1
  <2>2. QED
    BY <2>1, ElementOfSeq
<1>3. /\ SubSeq(all, i, k) \in Seq(Nat)
      /\ Len(SubSeq(all, i, k)) = IF i <= k THEN k - i + 1 ELSE 0
      /\ \A n \in 1 .. k - i + 1 : SubSeq(all, i, k)[n] = all[i + n - 1]
  BY <1>1, <1>2, SubSeqProperties
<1>4. QED
  BY <1>1, <1>3

\* What was a run stays one when the whole grows.
LEMMA RunKept ==
  ASSUME NEW all \in Seq(Nat), NEW e \in Nat, NEW evs, NEW newest, IsRun(evs, all, newest)
  PROVE  IsRun(evs, Append(all, e), FALSE)
<1>0. PICK i \in 1..(Len(all) + 1) : \E k \in (i - 1)..Len(all) : evs = SubSeq(all, i, k)
  BY DEF IsRun
<1>1. PICK k \in (i - 1)..Len(all) : evs = SubSeq(all, i, k)
  BY <1>0
<1>2. /\ Append(all, e) \in Seq(Nat) /\ Len(Append(all, e)) = Len(all) + 1
      /\ \A n \in 1..Len(all) : Append(all, e)[n] = all[n]
  BY AppendProperties
<1>3. Len(all) \in Nat
  BY LenProperties
<1>4. i \in 1..(Len(Append(all, e)) + 1) /\ k \in (i - 1)..Len(Append(all, e))
  BY <1>2, <1>3
<1>5. SubSeq(Append(all, e), i, k) = SubSeq(all, i, k)
  <2> DEFINE s == SubSeq(all, i, k)
             t == SubSeq(Append(all, e), i, k)
  <2>1. /\ s \in Seq(Nat) /\ Len(s) = k - i + 1
        /\ \A n \in 1 .. k - i + 1 : s[n] = all[i + n - 1]
    BY RunElements
  <2>2. /\ t \in Seq(Nat) /\ Len(t) = k - i + 1
        /\ \A n \in 1 .. k - i + 1 : t[n] = Append(all, e)[i + n - 1]
    BY <1>2, <1>4, RunElements
  <2> HIDE DEF s, t
  <2>3. \A n \in 1 .. Len(s) : s[n] = t[n]
    <3> SUFFICES ASSUME NEW n \in 1 .. Len(s) PROVE s[n] = t[n]
      OBVIOUS
    <3>1. n \in 1 .. k - i + 1 /\ i + n - 1 \in 1 .. Len(all)
      BY <1>3, <2>1
    <3>2. QED
      BY <1>2, <2>1, <2>2, <3>1
  <2>4. s = t
    BY <2>1, <2>2, <2>3, SeqEqual
  <2>5. QED
    BY <2>4 DEF s, t
<1>6. QED
  BY <1>1, <1>4, <1>5 DEF IsRun

\* A run up to the end grows with the whole.
LEMMA RunGrows ==
  ASSUME NEW all \in Seq(Nat), NEW e \in Nat, NEW evs \in Seq(Nat), IsRun(evs, all, TRUE)
  PROVE  IsRun(Append(evs, e), Append(all, e), TRUE)
<1>1. PICK i \in 1..(Len(all) + 1) : evs = SubSeq(all, i, Len(all)) /\ Len(all) \in (i - 1)..Len(all)
  BY DEF IsRun
<1>2. /\ Append(all, e) \in Seq(Nat) /\ Len(Append(all, e)) = Len(all) + 1
      /\ \A n \in 1..Len(all) : Append(all, e)[n] = all[n]
      /\ Append(all, e)[Len(all) + 1] = e
  BY AppendProperties
<1>3. /\ Append(evs, e) \in Seq(Nat) /\ Len(Append(evs, e)) = Len(evs) + 1
      /\ \A n \in 1..Len(evs) : Append(evs, e)[n] = evs[n]
      /\ Append(evs, e)[Len(evs) + 1] = e
  BY AppendProperties
<1>4. Len(all) \in Nat
  BY LenProperties
<1>5. /\ Len(evs) = Len(all) - i + 1
      /\ \A n \in 1 .. Len(all) - i + 1 : evs[n] = all[i + n - 1]
  BY <1>1, RunElements
<1>6. i \in 1..(Len(Append(all, e)) + 1) /\ Len(Append(all, e)) \in (i - 1)..Len(Append(all, e))
  BY <1>2, <1>4
<1> DEFINE s == Append(evs, e)
           t == SubSeq(Append(all, e), i, Len(Append(all, e)))
<1>7. /\ t \in Seq(Nat) /\ Len(t) = Len(Append(all, e)) - i + 1
      /\ \A n \in 1 .. Len(Append(all, e)) - i + 1 : t[n] = Append(all, e)[i + n - 1]
  BY <1>2, <1>6, RunElements
<1>8. s \in Seq(Nat) /\ Len(s) = Len(evs) + 1
  BY <1>3
<1> HIDE DEF s, t
<1>9. \A n \in 1 .. Len(s) : s[n] = t[n]
  <2> SUFFICES ASSUME NEW n \in 1 .. Len(s) PROVE s[n] = t[n]
    OBVIOUS
  <2>1. n \in 1 .. Len(Append(all, e)) - i + 1
    BY <1>2, <1>4, <1>5, <1>8
  <2>2. CASE n = Len(evs) + 1
    <3>1. i + n - 1 = Len(all) + 1
      BY <1>4, <1>5, <2>2
    <3>2. QED
      BY <1>2, <1>3, <1>7, <2>1, <2>2, <3>1 DEF s
  <2>3. CASE n # Len(evs) + 1
    <3>0. Len(evs) \in Nat /\ n \in Nat /\ n >= 1 /\ n <= Len(evs) + 1
      BY <1>1, <1>4, <1>5, <1>8
    <3>a. n <= Len(evs)
      BY <2>3, <3>0
    <3>b. Len(evs) = Len(all) - i + 1 /\ i \in Nat /\ i >= 1
      BY <1>4, <1>5
    <3>1. n \in 1..Len(evs) /\ i + n - 1 \in 1..Len(all) /\ n \in 1 .. Len(all) - i + 1
      BY <1>4, <3>0, <3>a, <3>b
    <3>2. QED
      BY <1>2, <1>3, <1>5, <1>7, <2>1, <3>1 DEF s
  <2>4. QED
    BY <2>2, <2>3
<1>10. s = t
  <2>1. Len(s) = Len(t)
    BY <1>2, <1>4, <1>5, <1>7, <1>8
  <2>2. QED
    BY <1>7, <1>8, <1>9, <2>1, SeqEqual
<1>11. QED
  BY <1>6, <1>10 DEF s, t, IsRun

\* The last scanBufCap events of a run up to the end are one.
LEMMA RunTrimmed ==
  ASSUME NEW all \in Seq(Nat), NEW evs \in Seq(Nat), IsRun(evs, all, TRUE)
  PROVE  IsRun(Trimmed(evs), all, TRUE) /\ Trimmed(evs) \in Seq(Nat)
<1>1. CASE ~(Len(evs) > scanBufCap)
  BY <1>1 DEF Trimmed
<1>2. CASE Len(evs) > scanBufCap
  <2>1. PICK i \in 1..(Len(all) + 1) : evs = SubSeq(all, i, Len(all)) /\ Len(all) \in (i - 1)..Len(all)
    BY DEF IsRun
  <2>2. Len(all) \in Nat /\ Len(evs) \in Nat /\ scanBufCap \in Nat \ {0}
    BY LenProperties, HubAssumption
  <2>3. /\ Len(evs) = Len(all) - i + 1
        /\ \A n \in 1 .. Len(all) - i + 1 : evs[n] = all[i + n - 1]
    BY <2>1, RunElements
  <2> DEFINE m == Len(evs) - scanBufCap + 1
             h == Len(all) - scanBufCap + 1
             s == SubSeq(evs, m, Len(evs))
             t == SubSeq(all, h, Len(all))
  <2>4. m \in 1..(Len(evs) + 1) /\ Len(evs) \in (m - 1)..Len(evs)
    BY <1>2, <2>2
  <2>5. h \in 1..(Len(all) + 1) /\ Len(all) \in (h - 1)..Len(all)
    BY <1>2, <2>2, <2>3
  <2>6. /\ s \in Seq(Nat) /\ Len(s) = Len(evs) - m + 1
        /\ \A n \in 1 .. Len(evs) - m + 1 : s[n] = evs[m + n - 1]
    BY <2>4, RunElements
  <2>7. /\ t \in Seq(Nat) /\ Len(t) = Len(all) - h + 1
        /\ \A n \in 1 .. Len(all) - h + 1 : t[n] = all[h + n - 1]
    BY <2>5, RunElements
  <2> HIDE DEF s, t
  <2>8. Len(s) = scanBufCap /\ Len(t) = scanBufCap
    BY <2>2, <2>6, <2>7
  <2>9. \A n \in 1 .. Len(s) : s[n] = t[n]
    <3> SUFFICES ASSUME NEW n \in 1 .. Len(s) PROVE s[n] = t[n]
      OBVIOUS
    <3>1. /\ n \in 1 .. Len(evs) - m + 1 /\ n \in 1 .. Len(all) - h + 1
          /\ m + n - 1 \in 1 .. Len(all) - i + 1 /\ i + (m + n - 1) - 1 = h + n - 1
      BY <1>2, <2>2, <2>3, <2>8
    <3>2. s[n] = evs[m + n - 1] /\ t[n] = all[h + n - 1]
      BY <2>6, <2>7, <3>1
    <3> HIDE DEF m, h
    <3>3. QED
      BY <2>3, <3>1, <3>2
  <2>10. s = t
    BY <2>6, <2>7, <2>8, <2>9, SeqEqual
  <2>11. Trimmed(evs) = s
    BY <1>2 DEF Trimmed, s
  <2>12. QED
    BY <2>5, <2>6, <2>10, <2>11 DEF t, IsRun
<1>3. QED
  BY <1>1, <1>2

\* Receiving moves the channel's first event behind what was delivered.
LEMMA ReceiveKeeps ==
  ASSUME NEW s \in Seq(Nat), NEW t \in Seq(Nat), t # <<>>
  PROVE  Append(s, Head(t)) \o Tail(t) = s \o t /\ Append(s, Head(t)) \in Seq(Nat) /\ Tail(t) \in Seq(Nat)
<1>1. /\ Head(t) \in Nat /\ Tail(t) \in Seq(Nat) /\ Len(Tail(t)) = Len(t) - 1
      /\ \A i \in 1 .. Len(Tail(t)) : Tail(t)[i] = t[i + 1]
      /\ Head(t) = t[1] /\ Len(t) \in Nat \ {0} /\ Len(s) \in Nat
  BY HeadTailProperties, LenProperties, EmptySeq
<1>2. /\ Append(s, Head(t)) \in Seq(Nat) /\ Len(Append(s, Head(t))) = Len(s) + 1
      /\ \A i \in 1..Len(s) : Append(s, Head(t))[i] = s[i]
      /\ Append(s, Head(t))[Len(s) + 1] = t[1]
  BY <1>1, AppendProperties
<1> DEFINE a == Append(s, Head(t))
           x == a \o Tail(t)
           y == s \o t
<1> HIDE DEF a
<1>3. /\ x \in Seq(Nat) /\ Len(x) = Len(a) + Len(Tail(t))
      /\ \A i \in 1 .. Len(a) + Len(Tail(t)) : x[i] = IF i <= Len(a) THEN a[i] ELSE Tail(t)[i - Len(a)]
  BY <1>1, <1>2, ConcatProperties DEF a
<1>4. /\ y \in Seq(Nat) /\ Len(y) = Len(s) + Len(t)
      /\ \A i \in 1 .. Len(s) + Len(t) : y[i] = IF i <= Len(s) THEN s[i] ELSE t[i - Len(s)]
  BY ConcatProperties
<1>5. Len(a) = Len(s) + 1 /\ (\A i \in 1..Len(s) : a[i] = s[i]) /\ a[Len(s) + 1] = t[1]
  BY <1>2 DEF a
<1> HIDE DEF x, y
<1>6. \A i \in 1 .. Len(x) : x[i] = y[i]
  <2> SUFFICES ASSUME NEW i \in 1 .. Len(x) PROVE x[i] = y[i]
    OBVIOUS
  <2>1. i \in 1 .. Len(a) + Len(Tail(t)) /\ i \in 1 .. Len(s) + Len(t)
    BY <1>1, <1>3, <1>5
  <2>x. x[i] = IF i <= Len(a) THEN a[i] ELSE Tail(t)[i - Len(a)]
    BY <1>3, <2>1
  <2>y. y[i] = IF i <= Len(s) THEN s[i] ELSE t[i - Len(s)]
    BY <1>4, <2>1
  <2>2. CASE i <= Len(s)
    <3>1. i \in 1 .. Len(s) /\ i <= Len(a)
      BY <1>1, <1>5, <2>1, <2>2
    <3>2. QED
      BY <1>5, <2>x, <2>y, <2>2, <3>1
  <2>3. CASE i = Len(s) + 1
    <3>1. i <= Len(a) /\ ~(i <= Len(s)) /\ i - Len(s) = 1
      BY <1>1, <1>5, <2>3
    <3>2. QED
      BY <1>5, <2>x, <2>y, <2>3, <3>1
  <2>4. CASE i > Len(s) + 1
    <3>0. ~(i <= Len(a)) /\ ~(i <= Len(s))
      BY <1>1, <1>5, <2>1, <2>4
    <3>1. x[i] = Tail(t)[i - Len(a)] /\ y[i] = t[i - Len(s)]
      BY <2>x, <2>y, <3>0
    <3>2. i - Len(a) \in 1 .. Len(Tail(t)) /\ (i - Len(a)) + 1 = i - Len(s)
      BY <1>1, <1>5, <2>1, <2>4
    <3>3. QED
      BY <1>1, <3>1, <3>2
  <2>5. QED
    BY <1>1, <2>1, <2>2, <2>3, <2>4
<1>7. x = y
  <2>1. Len(x) = Len(y)
    BY <1>1, <1>3, <1>4, <1>5
  <2>2. QED
    BY <1>3, <1>4, <1>6, <2>1, SeqEqual
<1>8. QED
  BY <1>1, <1>2, <1>7 DEF x, y, a

\* A send puts the event behind everything delivered and waiting.
LEMMA SendAppends ==
  ASSUME NEW s \in Seq(Nat), NEW t \in Seq(Nat), NEW e \in Nat
  PROVE  s \o Append(t, e) = Append(s \o t, e)
<1>1. <<e>> \in Seq(Nat)
  OBVIOUS
<1>2. Append(t, e) = t \o <<e>>
  BY AppendIsConcat
<1>3. s \o t \in Seq(Nat)
  BY ConcatProperties
<1>4. Append(s \o t, e) = (s \o t) \o <<e>>
  BY <1>3, AppendIsConcat
<1>5. QED
  BY <1>1, <1>2, <1>4, ConcatAssociative
-----------------------------------------------------------------------------
(* The hub and its browsers.                                               *)

\* publish, on a stream the hub has: the buffer, and every channel with room,
\* grow by the event; the others are closed.
LEMMA PublishOnStream ==
  ASSUME HubInv, NEW j \in Jobs, j \in hub, seq' = seq + 1,
         log' = [log EXCEPT ![j] = Append(@, seq + 1)],
         buf' = [buf EXCEPT ![j] = Trimmed(Append(@, seq + 1))],
         FanOut(j, seq + 1), UNCHANGED <<hub, evicted, client, got>>
  PROVE  HubInv'
<1> DEFINE ev == seq + 1
           lagging == {c \in subs[j] : Len(chan[c]) >= scanSubDepth}
<1>1. ev \in Nat /\ log[j] \in Seq(Nat) /\ buf[j] \in Seq(Nat)
  BY DEF HubInv, HubTypeOK
<1>2. /\ log'[j] = Append(log[j], ev) /\ \A k \in Jobs : k # j => log'[k] = log[k]
      /\ buf'[j] = Trimmed(Append(buf[j], ev)) /\ \A k \in Jobs : k # j => buf'[k] = buf[k]
  BY DEF HubInv, HubTypeOK
<1>3. /\ \A c \in Clients : chan'[c] = IF c \in subs[j] \ lagging THEN Append(chan[c], ev) ELSE chan[c]
      /\ \A c \in Clients : open'[c] = (open[c] /\ c \notin lagging)
      /\ subs'[j] = subs[j] \ lagging /\ \A k \in Jobs : k # j => subs'[k] = subs[k]
  BY DEF FanOut, HubInv, HubTypeOK
<1>4. IsRun(Append(buf[j], ev), Append(log[j], ev), TRUE) /\ Append(buf[j], ev) \in Seq(Nat)
      /\ Append(log[j], ev) \in Seq(Nat)
  BY <1>1, RunGrows, AppendProperties DEF HubInv, BufInv
<1>5. IsRun(buf'[j], log'[j], TRUE) /\ buf'[j] \in Seq(Nat)
  BY <1>2, <1>4, RunTrimmed
<1> HIDE DEF ev, lagging
<1>6. HubTypeOK'
  <2>1. buf' \in [Jobs -> Seq(Nat)] /\ log' \in [Jobs -> Seq(Nat)]
    BY <1>2, <1>4, <1>5 DEF HubInv, HubTypeOK
  <2>2. \A c \in Clients : chan[c] \in Seq(Nat) /\ Append(chan[c], ev) \in Seq(Nat)
    BY <1>1, AppendProperties DEF HubInv, HubTypeOK
  <2>3. DOMAIN chan' = Clients /\ DOMAIN open' = Clients
        /\ chan' = [c \in Clients |-> chan'[c]] /\ open' = [c \in Clients |-> open'[c]]
    BY DEF FanOut
  <2>4. chan' \in [Clients -> Seq(Nat)] /\ open' \in [Clients -> BOOLEAN]
    <3>1. \A c \in Clients : chan'[c] \in Seq(Nat)
      BY <1>3, <2>2
    <3>2. \A c \in Clients : open'[c] \in BOOLEAN
      BY <1>3
    <3>3. QED
      BY <2>3, <3>1, <3>2
  <2>5. subs' \in [Jobs -> SUBSET Clients]
    BY DEF FanOut, HubInv, HubTypeOK
  <2>6. seq' \in Nat /\ UNCHANGED <<hub, evicted, client, got>>
    BY <1>1 DEF ev
  <2>7. QED
    BY <2>1, <2>4, <2>5, <2>6 DEF HubInv, HubTypeOK
<1>7. SubsInv'
  BY <1>2, <1>3 DEF HubInv, SubsInv
<1>8. BufInv'
  BY <1>2, <1>5 DEF HubInv, BufInv
<1>9. RunInv'
  <2> SUFFICES ASSUME NEW c \in Clients, client'[c] = "live"
               PROVE  IsRun(got'[c] \o chan'[c], log'[Watches[c]], c \in subs'[Watches[c]])
    BY DEF RunInv
  <2>0. Watches[c] \in Jobs /\ client[c] = "live" /\ got'[c] = got[c]
    BY HubAssumption
  <2>1. IsRun(got[c] \o chan[c], log[Watches[c]], c \in subs[Watches[c]])
    BY <2>0 DEF HubInv, RunInv
  <2>2. got[c] \in Seq(Nat) /\ chan[c] \in Seq(Nat) /\ got[c] \o chan[c] \in Seq(Nat)
    BY ConcatProperties DEF HubInv, HubTypeOK
  <2>3. CASE Watches[c] # j
    <3>1. c \notin subs[j]
      BY <2>3 DEF HubInv, SubsInv
    <3>2. chan'[c] = chan[c] /\ log'[Watches[c]] = log[Watches[c]] /\ subs'[Watches[c]] = subs[Watches[c]]
      BY <1>2, <1>3, <2>0, <2>3, <3>1
    <3>3. QED
      BY <2>0, <2>1, <3>2
  <2>4. CASE Watches[c] = j /\ c \in subs[j] \ lagging
    <3>1. chan'[c] = Append(chan[c], ev) /\ log'[j] = Append(log[j], ev)
      BY <1>2, <1>3, <2>4
    <3>2. got[c] \o chan'[c] = Append(got[c] \o chan[c], ev)
      <4>1. got[c] \o Append(chan[c], ev) = Append(got[c] \o chan[c], ev)
        BY <1>1, <2>2, SendAppends
      <4>2. QED
        BY <3>1, <4>1
    <3>3. IsRun(got[c] \o chan[c], log[j], TRUE)
      BY <2>1, <2>4 DEF IsRun
    <3>4. IsRun(Append(got[c] \o chan[c], ev), Append(log[j], ev), TRUE)
      BY <1>1, <2>2, <3>3, RunGrows
    <3>5. IsRun(got'[c] \o chan'[c], log'[Watches[c]], TRUE)
      BY <2>0, <2>4, <3>1, <3>2, <3>4
    <3>6. QED
      BY <3>5 DEF IsRun
  <2>5. CASE Watches[c] = j /\ c \notin subs[j] \ lagging
    <3>1. chan'[c] = chan[c] /\ c \notin subs'[j] /\ log'[j] = Append(log[j], ev)
      BY <1>2, <1>3, <2>5
    <3>2. IsRun(got[c] \o chan[c], Append(log[j], ev), FALSE)
      BY <1>1, <2>1, <2>5, RunKept
    <3>3. IsRun(got'[c] \o chan'[c], log'[Watches[c]], FALSE)
      BY <2>0, <2>5, <3>1, <3>2
    <3>4. QED
      BY <2>5, <3>1, <3>3 DEF IsRun
  <2>6. QED
    BY <2>3, <2>4, <2>5
<1>10. LiveInv'
  <2> SUFFICES ASSUME NEW c \in Clients, client'[c] = "live"
               PROVE  c \in subs'[Watches[c]] \/ ~open'[c] \/ Watches[c] \in evicted'
    BY DEF LiveInv
  <2>1. Watches[c] \in Jobs /\ client[c] = "live" /\ evicted' = evicted
    BY HubAssumption
  <2>2. c \in subs[Watches[c]] \/ ~open[c] \/ Watches[c] \in evicted
    BY <2>1 DEF HubInv, LiveInv
  <2>3. QED
    BY <1>3, <2>1, <2>2
<1>11. QED
  BY <1>6, <1>7, <1>8, <1>9, <1>10 DEF HubInv

\* publish, on a job the hub has no stream of: nobody is subscribed to it,
\* and the streams that make room lose their subscribers.
LEMMA PublishNewStream ==
  ASSUME HubInv, NEW j \in Jobs, j \notin hub, NEW gone \in SUBSET hub, seq' = seq + 1,
         log' = [log EXCEPT ![j] = Append(@, seq + 1)],
         hub' = (hub \ gone) \cup {j},
         buf' = [k \in Jobs |-> IF k \in gone THEN <<>> ELSE IF k = j THEN <<seq + 1>> ELSE buf[k]],
         subs' = [k \in Jobs |-> IF k \in gone THEN {} ELSE subs[k]],
         evicted' = evicted \cup gone, UNCHANGED <<chan, open, client, got>>
  PROVE  HubInv'
<1> DEFINE ev == seq + 1
<1>1. ev \in Nat /\ log[j] \in Seq(Nat) /\ <<ev>> \in Seq(Nat) /\ gone \subseteq Jobs /\ j \notin gone
  BY DEF HubInv, HubTypeOK
<1>2. /\ log'[j] = Append(log[j], ev) /\ \A k \in Jobs : k # j => log'[k] = log[k]
      /\ Append(log[j], ev) \in Seq(Nat)
  BY <1>1, AppendProperties DEF HubInv, HubTypeOK
<1>3. IsRun(<<ev>>, Append(log[j], ev), TRUE)
  <2>0. <<>> \in Seq(Nat)
    BY EmptySeq
  <2>1. IsRun(<<>>, log[j], TRUE) /\ <<>> \in Seq(Nat)
    BY <1>1, <2>0, EmptyRun
  <2>2. IsRun(Append(<<>>, ev), Append(log[j], ev), TRUE)
    BY <1>1, <2>1, RunGrows
  <2>3. Append(<<>>, ev) = <<ev>>
    OBVIOUS
  <2>4. QED
    BY <2>2, <2>3
<1>4. subs[j] = {} /\ subs'[j] = {} /\ \A k \in Jobs : subs'[k] = subs[k] \/ (subs'[k] = {} /\ k \in gone)
  BY <1>1 DEF HubInv, SubsInv
<1>5. HubTypeOK'
  <2>1. buf' \in [Jobs -> Seq(Nat)] /\ log' \in [Jobs -> Seq(Nat)]
    BY <1>1, <1>2, EmptySeq DEF HubInv, HubTypeOK
  <2>2. QED
    BY <1>1, <2>1 DEF HubInv, HubTypeOK
<1>6. SubsInv'
  BY <1>1, <1>4 DEF HubInv, SubsInv
<1>7. BufInv'
  <2> SUFFICES ASSUME NEW k \in Jobs PROVE IsRun(buf'[k], log'[k], TRUE)
    BY DEF BufInv
  <2>1. CASE k = j
    BY <1>1, <1>2, <1>3, <2>1
  <2>2. CASE k \in gone
    <3>1. buf'[k] = <<>> /\ log'[k] \in Seq(Nat)
      BY <1>5, <2>2 DEF HubTypeOK
    <3>2. QED
      BY <3>1, EmptyRun
  <2>3. CASE k # j /\ k \notin gone
    BY <1>2, <2>3 DEF HubInv, BufInv
  <2>4. QED
    BY <2>1, <2>2, <2>3
<1> HIDE DEF ev
<1>8. RunInv'
  <2> SUFFICES ASSUME NEW c \in Clients, client'[c] = "live"
               PROVE  IsRun(got'[c] \o chan'[c], log'[Watches[c]], c \in subs'[Watches[c]])
    BY DEF RunInv
  <2>1. Watches[c] \in Jobs /\ client[c] = "live" /\ got'[c] = got[c] /\ chan'[c] = chan[c]
    BY HubAssumption
  <2>2. IsRun(got[c] \o chan[c], log[Watches[c]], c \in subs[Watches[c]])
    BY <2>1 DEF HubInv, RunInv
  <2>3. CASE Watches[c] = j
    <3>1. IsRun(got[c] \o chan[c], Append(log[j], ev), FALSE)
      BY <1>1, <2>2, <2>3, RunKept
    <3>2. c \notin subs'[Watches[c]]
      BY <1>4, <2>3
    <3>3. QED
      BY <1>2, <2>1, <2>3, <3>1, <3>2 DEF IsRun
  <2>4. CASE Watches[c] # j
    <3>1. log'[Watches[c]] = log[Watches[c]] /\ (c \in subs'[Watches[c]] => c \in subs[Watches[c]])
      BY <1>2, <1>4, <2>1, <2>4
    <3>2. QED
      BY <2>1, <2>2, <3>1 DEF IsRun
  <2>5. QED
    BY <2>3, <2>4
<1>9. LiveInv'
  BY <1>4, HubAssumption DEF HubInv, LiveInv
<1>10. QED
  BY <1>5, <1>6, <1>7, <1>8, <1>9 DEF HubInv

\* publish keeps the invariant.
LEMMA PublishStep ==
  ASSUME HubInv, NEW j \in Jobs, publish(j), UNCHANGED <<client, got>>
  PROVE  HubInv'
<1>1. CASE j \in hub
  BY <1>1, PublishOnStream DEF publish
<1>2. CASE j \notin hub
  <2>1. PICK gone \in SUBSET hub :
          /\ hub' = (hub \ gone) \cup {j}
          /\ buf' = [k \in Jobs |-> IF k \in gone THEN <<>>
                                    ELSE IF k = j THEN <<seq + 1>> ELSE buf[k]]
          /\ subs' = [k \in Jobs |-> IF k \in gone THEN {} ELSE subs[k]]
          /\ evicted' = evicted \cup gone
    BY <1>2 DEF publish
  <2>2. /\ seq' = seq + 1 /\ log' = [log EXCEPT ![j] = Append(@, seq + 1)]
        /\ UNCHANGED <<chan, open, client, got>>
    BY <1>2 DEF publish
  <2>3. QED
    BY <1>2, <2>1, <2>2, PublishNewStream
<1>3. QED
  BY <1>1, <1>2

\* A handler that returns takes its browser off the stream.
LEMMA ReturnStep ==
  ASSUME HubInv, NEW c \in Clients, NEW next \in {"connect", "done", "left"}, Return(c, next),
         UNCHANGED <<seq, hub, buf, evicted, log>>,
         got' \in [Clients -> Seq(Nat)], \A d \in Clients : d # c => got'[d] = got[d]
  PROVE  HubInv'
<1>1. /\ client'[c] = next /\ \A d \in Clients : d # c => client'[d] = client[d]
      /\ \A d \in Clients : d # c => chan'[d] = chan[d] /\ open'[d] = open[d]
  BY DEF Return, HubInv, HubTypeOK
<1>2. \A j \in Jobs, d \in Clients : d # c => (d \in subs'[j] <=> d \in subs[j])
  BY HubAssumption DEF Return, Unsubscribed, HubInv, HubTypeOK
<1>3. \A j \in Jobs : subs'[j] \subseteq subs[j]
  BY HubAssumption DEF Return, Unsubscribed, HubInv, HubTypeOK
<1>4. HubTypeOK'
  <2>1. chan' \in [Clients -> Seq(Nat)]
    BY EmptySeq DEF Return, HubInv, HubTypeOK
  <2>2. QED
    BY <2>1, HubAssumption DEF Return, Unsubscribed, HubInv, HubTypeOK
<1>5. SubsInv' /\ BufInv'
  BY <1>3 DEF HubInv, SubsInv, BufInv
<1>6. RunInv'
  <2> SUFFICES ASSUME NEW d \in Clients, client'[d] = "live"
               PROVE  IsRun(got'[d] \o chan'[d], log'[Watches[d]], d \in subs'[Watches[d]])
    BY DEF RunInv
  <2>1. d # c /\ client[d] = "live" /\ got'[d] = got[d] /\ chan'[d] = chan[d] /\ log' = log
    BY <1>1
  <2>2. Watches[d] \in Jobs /\ (d \in subs'[Watches[d]] <=> d \in subs[Watches[d]])
    BY <1>2, <2>1, HubAssumption
  <2>3. QED
    BY <2>1, <2>2 DEF HubInv, RunInv, IsRun
<1>7. LiveInv'
  BY <1>1, <1>2, HubAssumption DEF HubInv, LiveInv
<1>8. QED
  BY <1>4, <1>5, <1>6, <1>7 DEF HubInv

\* Every step of the hub, the workers and the browsers keeps the invariant.
LEMMA HubStep ==
  ASSUME HubInv, [Next]_vars
  PROVE  HubInv'
<1>1. ASSUME NEW j \in Jobs, startScan(j) PROVE HubInv'
  BY <1>1 DEF startScan, stream, browser, HubInv, HubTypeOK, SubsInv, BufInv, RunInv, LiveInv
<1>2. ASSUME NEW j \in Jobs, publishScanEvent(j) PROVE HubInv'
  BY <1>2, PublishStep DEF publishScanEvent
<1>3. ASSUME NEW j \in Jobs, UpdateDiscoveryJobStatus(j) PROVE HubInv'
  BY <1>3 DEF UpdateDiscoveryJobStatus, stream, browser, HubInv, HubTypeOK, SubsInv, BufInv, RunInv, LiveInv
<1>4. ASSUME NEW j \in Jobs, PublishJobCompleted(j) PROVE HubInv'
  BY <1>4, PublishStep DEF PublishJobCompleted
<1>5. ASSUME NEW c \in Clients, GetDiscoveryJob(c) PROVE HubInv'
  <2>1. /\ client'[c] \in {"done", "subscribe"} /\ \A d \in Clients : d # c => client'[d] = client[d] /\ got'[d] = got[d]
        /\ UNCHANGED <<seq, hub, buf, subs, evicted, chan, open, log>>
    BY <1>5 DEF GetDiscoveryJob, stream, HubInv, HubTypeOK
  <2>2. HubTypeOK'
    <3>1. got' \in [Clients -> Seq(Nat)]
      BY <1>5, EmptySeq DEF GetDiscoveryJob, HubInv, HubTypeOK
    <3>2. QED
      BY <1>5, <2>1, <3>1 DEF GetDiscoveryJob, HubInv, HubTypeOK
  <2>3. SubsInv' /\ BufInv' /\ LiveInv'
    BY <2>1 DEF HubInv, SubsInv, BufInv, LiveInv
  <2>4. RunInv'
    BY <2>1 DEF HubInv, RunInv
  <2>5. QED
    BY <2>2, <2>3, <2>4 DEF HubInv
<1>6. ASSUME NEW c \in Clients, subscribe(c) PROVE HubInv'
  <2> DEFINE j == Watches[c]
  <2>1. j \in Jobs
    BY HubAssumption
  <2>2. /\ client'[c] = "live" /\ chan'[c] = <<>> /\ got'[c] = buf[j]
        /\ \A d \in Clients : d # c => /\ client'[d] = client[d] /\ chan'[d] = chan[d]
                                       /\ got'[d] = got[d] /\ open'[d] = open[d]
        /\ UNCHANGED <<seq, buf, evicted, log>> /\ hub' = hub \cup {j}
    BY <1>6 DEF subscribe, HubInv, HubTypeOK
  <2>3. /\ subs'[j] = subs[j] \cup {c} /\ \A k \in Jobs : k # j => subs'[k] = subs[k]
    BY <1>6, <2>1 DEF subscribe, HubInv, HubTypeOK
  <2>4. HubTypeOK'
    <3>1. chan' \in [Clients -> Seq(Nat)] /\ got' \in [Clients -> Seq(Nat)]
      BY <1>6, <2>1, EmptySeq DEF subscribe, HubInv, HubTypeOK
    <3>2. subs' \in [Jobs -> SUBSET Clients]
      BY <1>6, <2>1 DEF subscribe, HubInv, HubTypeOK
    <3>3. QED
      BY <1>6, <2>1, <2>2, <3>1, <3>2 DEF subscribe, HubInv, HubTypeOK
  <2>5. SubsInv'
    BY <2>1, <2>2, <2>3 DEF HubInv, SubsInv
  <2>6. BufInv'
    BY <2>2 DEF HubInv, BufInv
  <2>7. LiveInv'
    BY <2>1, <2>2, <2>3, HubAssumption DEF HubInv, LiveInv
  <2> HIDE DEF j
  <2>8. RunInv'
    <3> SUFFICES ASSUME NEW d \in Clients, client'[d] = "live"
                 PROVE  IsRun(got'[d] \o chan'[d], log'[Watches[d]], d \in subs'[Watches[d]])
      BY DEF RunInv
    <3>1. CASE d = c
      <4>1. buf[j] \in Seq(Nat) /\ IsRun(buf[j], log[j], TRUE)
        BY <2>1 DEF HubInv, HubTypeOK, BufInv
      <4>2. got'[d] \o chan'[d] = buf[j]
        BY <2>2, <3>1, <4>1, ConcatEmptySeq
      <4>3. QED
        BY <2>2, <3>1, <4>1, <4>2 DEF IsRun, j
    <3>2. CASE d # c
      <4>1. client[d] = "live" /\ got'[d] = got[d] /\ chan'[d] = chan[d] /\ log' = log
        BY <2>2, <3>2
      <4>2. Watches[d] \in Jobs /\ (d \in subs'[Watches[d]] <=> d \in subs[Watches[d]])
        BY <2>3, <3>2, HubAssumption
      <4>3. QED
        BY <4>1, <4>2 DEF HubInv, RunInv, IsRun
    <3>3. QED
      BY <3>1, <3>2
  <2>9. QED
    BY <2>4, <2>5, <2>6, <2>7, <2>8 DEF HubInv
<1>7. ASSUME NEW c \in Clients, Receive(c) PROVE HubInv'
  <2>1. /\ client[c] = "live" /\ chan[c] # <<>> /\ chan[c] \in Seq(Nat) /\ got[c] \in Seq(Nat)
        /\ got'[c] = Append(got[c], Head(chan[c])) /\ \A d \in Clients : d # c => got'[d] = got[d]
        /\ UNCHANGED <<seq, hub, buf, evicted, log>>
    BY <1>7 DEF Receive, HubInv, HubTypeOK
  <2>2. /\ Append(got[c], Head(chan[c])) \o Tail(chan[c]) = got[c] \o chan[c]
        /\ Append(got[c], Head(chan[c])) \in Seq(Nat) /\ Tail(chan[c]) \in Seq(Nat)
    BY <2>1, ReceiveKeeps
  <2>3. got' \in [Clients -> Seq(Nat)]
    BY <1>7, <2>2 DEF Receive, HubInv, HubTypeOK
  <2>4. CASE Return(c, "done")
    BY <2>1, <2>3, <2>4, ReturnStep
  <2>5. CASE chan' = [chan EXCEPT ![c] = Tail(@)] /\ UNCHANGED <<client, subs, open>>
    <3>1. /\ chan' \in [Clients -> Seq(Nat)] /\ chan'[c] = Tail(chan[c])
          /\ \A d \in Clients : d # c => chan'[d] = chan[d]
      BY <2>2, <2>5 DEF HubInv, HubTypeOK
    <3>2. HubTypeOK' /\ SubsInv' /\ BufInv' /\ LiveInv'
      BY <2>1, <2>3, <2>5, <3>1 DEF HubInv, HubTypeOK, SubsInv, BufInv, LiveInv
    <3>3. \A d \in Clients : got'[d] \o chan'[d] = got[d] \o chan[d]
      BY <2>1, <2>2, <3>1
    <3>4. RunInv'
      BY <2>1, <2>5, <3>3 DEF HubInv, RunInv
    <3>5. QED
      BY <3>2, <3>4 DEF HubInv
  <2>6. QED
    BY <1>7, <2>4, <2>5 DEF Receive
<1>8. ASSUME NEW c \in Clients, Dropped(c) PROVE HubInv'
  <2>1. got' = got /\ got \in [Clients -> Seq(Nat)]
    BY <1>8 DEF Dropped, HubInv, HubTypeOK
  <2>2. QED
    BY <1>8, <2>1, ReturnStep DEF Dropped
<1>9. ASSUME NEW c \in Clients, CloseEventSource(c) PROVE HubInv'
  <2>1. got' = got /\ got \in [Clients -> Seq(Nat)]
    BY <1>9 DEF CloseEventSource, HubInv, HubTypeOK
  <2>2. QED
    BY <1>9, <2>1, ReturnStep DEF CloseEventSource
<1>10. ASSUME NEW c \in Clients, Leave(c) PROVE HubInv'
  <2>1. got' = got /\ got \in [Clients -> Seq(Nat)]
    BY <1>10 DEF Leave, HubInv, HubTypeOK
  <2>2. QED
    BY <1>10, <2>1, ReturnStep DEF Leave
<1>11. ASSUME Restart PROVE HubInv'
  <2>1. \A c \in Clients : client'[c] \in {"connect", "done", "left"}
    BY <1>11 DEF Restart, HubInv, HubTypeOK
  <2>2. HubTypeOK'
    BY <1>11, EmptySeq DEF Restart, HubInv, HubTypeOK
  <2>3. SubsInv' /\ RunInv' /\ LiveInv'
    BY <1>11, <2>1 DEF Restart, SubsInv, RunInv, LiveInv
  <2>4. BufInv'
    <3>1. \A j \in Jobs : buf'[j] = <<>> /\ log'[j] = <<>>
      BY <1>11 DEF Restart
    <3>2. IsRun(<<>>, <<>>, TRUE)
      BY EmptyRun, EmptySeq
    <3>3. QED
      BY <3>1, <3>2 DEF BufInv
  <2>5. QED
    BY <2>2, <2>3, <2>4 DEF HubInv
<1>12. CASE UNCHANGED vars
  BY <1>12 DEF vars, stream, browser, HubInv, HubTypeOK, SubsInv, BufInv, RunInv, LiveInv
<1>13. QED
  BY <1>1, <1>2, <1>3, <1>4, <1>5, <1>6, <1>7, <1>8, <1>9, <1>10, <1>11, <1>12 DEF Next,
     Scan, Browse

\* The invariant holds in every reachable state.
LEMMA HubInvariant == Spec => []HubInv
<1>1. Init => HubInv
  <2> SUFFICES ASSUME Init PROVE HubInv
    OBVIOUS
  <2>1. HubTypeOK
    BY EmptySeq DEF Init, HubTypeOK
  <2>2. SubsInv /\ RunInv /\ LiveInv
    BY DEF Init, SubsInv, RunInv, LiveInv
  <2>3. BufInv
    <3>1. IsRun(<<>>, <<>>, TRUE)
      BY EmptyRun, EmptySeq
    <3>2. QED
      BY <3>1 DEF Init, BufInv
  <2>4. QED
    BY <2>1, <2>2, <2>3 DEF HubInv
<1>2. HubInv /\ [Next]_vars => HubInv'
  BY HubStep
<1>3. QED
  BY <1>1, <1>2, PTL DEF Spec

\* What a connection has delivered and what waits in its channel is one
\* contiguous run of the job's events, up to the newest while the browser is
\* subscribed (publish, subscribe, streamScanEvents).
THEOREM NoGap == Spec => []NoGapNoDuplicate
<1>1. HubInv => NoGapNoDuplicate
  BY DEF HubInv, RunInv, IsRun, NoGapNoDuplicate
<1>2. QED
  BY <1>1, HubInvariant, PTL

\* While a job's worker runs, a live stream of it is subscribed or closed,
\* unless publish evicted the stream (publish, unsubscribe).
THEOREM Stranded == Spec => []NobodyStranded
<1>1. HubInv => NobodyStranded
  BY DEF HubInv, LiveInv, NobodyStranded
<1>2. QED
  BY <1>1, HubInvariant, PTL
=============================================================================
