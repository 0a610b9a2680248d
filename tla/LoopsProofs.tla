------------------------------ MODULE LoopsProofs ------------------------------
(***************************************************************************)
(* Proofs about what the dashboard does by the clock: heartbeats, for any    *)
(* set of them, any periods and any pattern of pings, failed statements and  *)
(* restarts; scheduled reports, for any schedules, edits and failures; and   *)
(* maintenance windows, for any windows and any length of day and week.      *)
(***************************************************************************)
EXTENDS Loops, SequenceTheorems, TLAPS

-----------------------------------------------------------------------------
(* Heartbeats. *)

EventNames == {"heartbeat_missed", "heartbeat_ok"}

(* A beat is up only because it was pinged, so that its next silence is     *)
(* reported: without this a beat that has recovered could go late unheard.  *)
UpWasPinged == \A h \in Beats : status[h] = "up" => ping[h] # NoPing

BeatsInv == TypeOK /\ UpWasPinged /\ EventsTellStatus

(* What EventsTellStatus says of one beat with status st and events e.      *)
Alternates(e) == \A i \in 1..(Len(e) - 1) : e[i] # e[i + 1]

Final(e) == IF e = <<>> THEN "none" ELSE e[Len(e)]

Agrees(st, e) ==
  /\ st = "new" => e = <<>>
  /\ st = "up" => Final(e) # "heartbeat_missed"
  /\ st = "late" => Final(e) # "heartbeat_ok"

LEMMA TellsEach ==
  /\ EventsTellStatus
       <=> \A h \in Beats : Alternates(events[h]) /\ Agrees(status[h], events[h])
  /\ EventsTellStatus'
       <=> \A h \in Beats : Alternates(events'[h]) /\ Agrees(status'[h], events'[h])
BY DEF EventsTellStatus, LastEvent, Alternates, Agrees, Final

(* A new event that differs from the last one keeps the alternation.        *)
LEMMA AppendAlternates ==
  ASSUME NEW e \in Seq(EventNames), NEW event \in EventNames,
         Alternates(e), Final(e) # event
  PROVE  /\ Append(e, event) \in Seq(EventNames)
         /\ Alternates(Append(e, event))
         /\ Final(Append(e, event)) = event
         /\ Append(e, event) # <<>>
<1> DEFINE f == Append(e, event)
<1>1. /\ f \in Seq(EventNames) /\ Len(f) = Len(e) + 1 /\ Len(e) \in Nat
      /\ \A i \in 1..Len(e) : f[i] = e[i]
      /\ f[Len(f)] = event
  BY AppendProperties, LenProperties
<1>2. f # <<>>
  <2>1. Len(<<>>) = 0
    OBVIOUS
  <2>2. QED
    BY <1>1, <2>1
<1>3. ASSUME NEW i \in 1..(Len(f) - 1) PROVE f[i] # f[i + 1]
  <2>1. CASE i < Len(e)
    <3>1. i \in 1..(Len(e) - 1) /\ i \in 1..Len(e) /\ i + 1 \in 1..Len(e)
      BY <1>1, <2>1
    <3>2. f[i] = e[i] /\ f[i + 1] = e[i + 1] /\ e[i] # e[i + 1]
      BY <1>1, <3>1 DEF Alternates
    <3>3. QED
      BY <3>2
  <2>2. CASE i = Len(e)
    <3>1. e # <<>>
      <4>1. Len(<<>>) = 0
        OBVIOUS
      <4>2. QED
        BY <2>2, <4>1
    <3>2. f[i] = e[Len(e)] /\ f[i + 1] = event
      BY <1>1, <2>2
    <3>3. QED
      BY <3>1, <3>2 DEF Final
  <2>3. QED
    BY <1>1, <2>1, <2>2
<1>4. Alternates(f)
  BY <1>3 DEF Alternates
<1>5. Final(f) = event
  BY <1>1, <1>2 DEF Final
<1> HIDE DEF f
<1>6. QED
  BY <1>1, <1>2, <1>4, <1>5 DEF f

-----------------------------------------------------------------------------
LEMMA InitBeats == Init => BeatsInv
<1> SUFFICES ASSUME Init PROVE BeatsInv
  OBVIOUS
<1>1. <<>> \in Seq(EventNames) /\ Len(<<>>) = 0
  OBVIOUS
<1>2. TypeOK
  BY <1>1, BeatAssumption DEF Init, TypeOK, NoPing, EventNames
<1>3. UpWasPinged
  BY DEF Init, UpWasPinged
<1>4. EventsTellStatus
  <2>1. ASSUME NEW h \in Beats
        PROVE  events[h] = <<>> /\ status[h] = "none"
    BY DEF Init
  <2>2. Alternates(<<>>)
    <3>1. Len(<<>>) - 1 = -1 /\ 1..(-1) = {}
      BY <1>1
    <3>2. QED
      BY <3>1 DEF Alternates
  <2>3. QED
    BY <2>1, <2>2, TellsEach DEF Agrees
<1>5. QED
  BY <1>2, <1>3, <1>4 DEF BeatsInv

(* Requests, the clock and the loop's own control leave every event alone.  *)
LEMMA QuietStep ==
  ASSUME BeatsInv,
         \/ Tick \/ BeginRun \/ Restart
         \/ \E h \in Beats : createHeartbeat(h) \/ deleteHeartbeat(h) \/ heartbeatPing(h)
         \/ UNCHANGED vars
  PROVE  BeatsInv'
<1> USE BeatAssumption DEF BeatsInv
<1>1. TypeOK'
  <2>1. CASE Tick
    BY <2>1 DEF Tick, TypeOK, rowVars
  <2>2. CASE BeginRun \/ Restart
    BY <2>2 DEF BeginRun, Restart, TypeOK, rowVars
  <2>3. CASE \E h \in Beats : createHeartbeat(h) \/ deleteHeartbeat(h)
    <3>1. now \in 0..MaxTime /\ NoPing \in -1..MaxTime
      BY DEF TypeOK, NoPing
    <3>2. /\ status' \in [Beats -> {"none", "new", "up", "late"}]
          /\ created' \in [Beats -> 0..MaxTime]
          /\ ping' \in [Beats -> -1..MaxTime]
      BY <2>3, <3>1 DEF createHeartbeat, deleteHeartbeat, TypeOK
    <3>3. UNCHANGED <<now, events, pc, faults>>
      BY <2>3 DEF createHeartbeat, deleteHeartbeat
    <3>4. QED
      BY <3>2, <3>3 DEF TypeOK
  <2>4. CASE \E h \in Beats : heartbeatPing(h)
    <3>1. now \in -1..MaxTime
      BY DEF TypeOK
    <3>2. QED
      BY <2>4, <3>1 DEF heartbeatPing, TypeOK
  <2>5. CASE UNCHANGED vars
    BY <2>5 DEF vars, rowVars, TypeOK
  <2>6. QED
    BY <2>1, <2>2, <2>3, <2>4, <2>5
<1>2. UpWasPinged'
  <2>1. now # NoPing
    BY DEF TypeOK, NoPing
  <2>2. QED
    BY <2>1 DEF UpWasPinged, TypeOK, Tick, BeginRun, Restart, createHeartbeat,
                deleteHeartbeat, heartbeatPing, vars, rowVars
<1>3. \A h \in Beats : events'[h] = events[h]
                       /\ \/ status'[h] = status[h]
                          \/ status'[h] = "none"
                          \/ status'[h] = "new" /\ events[h] = <<>>
  BY DEF TypeOK, Tick, BeginRun, Restart, createHeartbeat, deleteHeartbeat,
         heartbeatPing, vars, rowVars
<1>4. EventsTellStatus'
  BY <1>3, TellsEach DEF Agrees
<1>5. QED
  BY <1>1, <1>2, <1>4

-----------------------------------------------------------------------------
(* The statements of the loop *)

(* What SetStatus does to one beat, for a status with a row. *)
LEMMA SetStatusType ==
  ASSUME TypeOK, NEW changed, NEW reported,
         NEW st \in {"up", "late"}, NEW event \in EventNames,
         SetStatus(changed, st, reported, event)
  PROVE  /\ status' \in [Beats -> {"none", "new", "up", "late"}]
         /\ events' \in [Beats -> Seq(EventNames)]
<1>1. ASSUME NEW h \in Beats PROVE Append(events[h], event) \in Seq(EventNames)
  BY AppendProperties DEF TypeOK, EventNames
<1>2. QED
  BY <1>1 DEF SetStatus, TypeOK, EventNames

(* A silent beat goes late.  It is reported unless it was never pinged, in  *)
(* which case it was new and had no events.                                 *)
LEMMA MarkLateStep ==
  ASSUME BeatsInv, MarkLate, UNCHANGED ping
  PROVE  /\ status' \in [Beats -> {"none", "new", "up", "late"}]
         /\ events' \in [Beats -> Seq(EventNames)]
         /\ UpWasPinged' /\ EventsTellStatus'
<1> USE DEF BeatsInv
<1> DEFINE changed == {h \in Beats : status[h] \in {"new", "up"} /\ Silent(h)}
           reported == {h \in changed : ping[h] # NoPing}
<1>1. SetStatus(changed, "late", reported, "heartbeat_missed")
  BY DEF MarkLate
<1>2. ASSUME NEW h \in Beats
      PROVE  /\ status'[h] = IF h \in changed THEN "late" ELSE status[h]
             /\ events'[h] = IF h \in reported
                             THEN Append(events[h], "heartbeat_missed") ELSE events[h]
             /\ events[h] \in Seq(EventNames)
  BY <1>1 DEF SetStatus, TypeOK, EventNames
<1>3. ASSUME NEW h \in Beats
      PROVE  Alternates(events'[h]) /\ Agrees(status'[h], events'[h])
  <2>1. Alternates(events[h]) /\ Agrees(status[h], events[h])
    BY TellsEach
  <2>2. CASE h \in reported
    <3>1. Final(events[h]) # "heartbeat_missed"
      BY <2>1, <2>2 DEF Agrees, Final
    <3>2. /\ Alternates(events'[h]) /\ Final(events'[h]) = "heartbeat_missed"
          /\ status'[h] = "late"
      BY <1>2, <2>1, <2>2, <3>1, AppendAlternates DEF EventNames
    <3>3. QED
      BY <3>2 DEF Agrees
  <2>3. CASE h \in changed /\ h \notin reported
    <3>1. events[h] = <<>> /\ status'[h] = "late" /\ events'[h] = events[h]
      BY <1>2, <2>1, <2>3 DEF Agrees, UpWasPinged
    <3>2. QED
      BY <2>1, <3>1 DEF Agrees, Final
  <2>4. CASE h \notin changed
    BY <1>2, <2>1, <2>4
  <2>5. QED
    BY <2>2, <2>3, <2>4
<1>4. EventsTellStatus'
  BY <1>3, TellsEach
<1>5. UpWasPinged'
  BY <1>2 DEF UpWasPinged
<1>6. QED
  BY <1>1, <1>4, <1>5, SetStatusType DEF EventNames

(* A late beat that recovers is reported. *)
LEMMA MarkRecoveredStep ==
  ASSUME BeatsInv, MarkRecovered, UNCHANGED ping
  PROVE  /\ status' \in [Beats -> {"none", "new", "up", "late"}]
         /\ events' \in [Beats -> Seq(EventNames)]
         /\ UpWasPinged' /\ EventsTellStatus'
<1> USE DEF BeatsInv
<1> DEFINE changed == {h \in Beats : status[h] = "late" /\ Recent(h)}
<1>1. SetStatus(changed, "up", changed, "heartbeat_ok")
  BY DEF MarkRecovered
<1>2. ASSUME NEW h \in Beats
      PROVE  /\ status'[h] = IF h \in changed THEN "up" ELSE status[h]
             /\ events'[h] = IF h \in changed
                             THEN Append(events[h], "heartbeat_ok") ELSE events[h]
             /\ events[h] \in Seq(EventNames)
  BY <1>1 DEF SetStatus, TypeOK, EventNames
<1>3. ASSUME NEW h \in Beats
      PROVE  Alternates(events'[h]) /\ Agrees(status'[h], events'[h])
  <2>1. Alternates(events[h]) /\ Agrees(status[h], events[h])
    BY TellsEach
  <2>2. CASE h \in changed
    <3>1. Final(events[h]) # "heartbeat_ok"
      BY <2>1, <2>2 DEF Agrees
    <3>2. /\ Alternates(events'[h]) /\ Final(events'[h]) = "heartbeat_ok"
          /\ status'[h] = "up"
      BY <1>2, <2>1, <2>2, <3>1, AppendAlternates DEF EventNames
    <3>3. QED
      BY <3>2 DEF Agrees
  <2>3. CASE h \notin changed
    BY <1>2, <2>1, <2>3
  <2>4. QED
    BY <2>2, <2>3
<1>4. EventsTellStatus'
  BY <1>3, TellsEach
<1>5. UpWasPinged'
  BY <1>2 DEF UpWasPinged, Recent
<1>6. QED
  BY <1>1, <1>4, <1>5, SetStatusType DEF EventNames

(* The first ping of a beat is not reported. *)
LEMMA MarkFirstStep ==
  ASSUME BeatsInv, MarkFirst, UNCHANGED ping
  PROVE  /\ status' \in [Beats -> {"none", "new", "up", "late"}]
         /\ events' \in [Beats -> Seq(EventNames)]
         /\ UpWasPinged' /\ EventsTellStatus'
<1> USE DEF BeatsInv
<1> DEFINE changed == {h \in Beats : status[h] = "new" /\ Recent(h)}
<1>1. SetStatus(changed, "up", {}, "heartbeat_ok")
  BY DEF MarkFirst
<1>2. ASSUME NEW h \in Beats
      PROVE  /\ status'[h] = IF h \in changed THEN "up" ELSE status[h]
             /\ events'[h] = events[h]
  BY <1>1 DEF SetStatus, TypeOK
<1>3. EventsTellStatus'
  BY <1>2, TellsEach DEF Agrees, Final
<1>4. UpWasPinged'
  BY <1>2 DEF UpWasPinged, Recent
<1>5. QED
  BY <1>1, <1>3, <1>4, SetStatusType DEF EventNames

LEMMA LoopStep == ASSUME BeatsInv, Statement \/ StatementFails PROVE BeatsInv'
<1>1. /\ UNCHANGED <<now, created, ping>>
      /\ pc' \in {"wait", "recovered", "first"}
      /\ faults' \in 0..MaxFaults
      /\ MarkLate \/ MarkRecovered \/ MarkFirst \/ UNCHANGED <<status, events>>
  BY BeatAssumption DEF BeatsInv, TypeOK, Statement, StatementFails
<1>2. /\ status' \in [Beats -> {"none", "new", "up", "late"}]
      /\ events' \in [Beats -> Seq(EventNames)]
      /\ UpWasPinged' /\ EventsTellStatus'
  <2>1. CASE UNCHANGED <<status, events>>
    BY <1>1, <2>1 DEF BeatsInv, TypeOK, UpWasPinged, EventsTellStatus, LastEvent, EventNames
  <2>2. QED
    BY <1>1, <2>1, MarkLateStep, MarkRecoveredStep, MarkFirstStep
<1>3. TypeOK'
  BY <1>1, <1>2 DEF BeatsInv, TypeOK, EventNames
<1>4. QED
  BY <1>2, <1>3 DEF BeatsInv

-----------------------------------------------------------------------------
(* The strengthened invariant holds in every reachable state. *)
THEOREM BeatsInvariant == Spec => []BeatsInv
<1>1. BeatsInv /\ [Next]_vars => BeatsInv'
  BY QuietStep, LoopStep DEF Next
<1>2. QED
  BY <1>1, InitBeats, PTL DEF Spec

(* The table of heartbeats and the loop's position are well typed. *)
THEOREM BeatsTypeCorrect == Spec => []TypeOK
BY BeatsInvariant, PTL DEF BeatsInv

(* Misses and recoveries alternate and the last one agrees with the status, *)
(* for any number of beats, pings, failed statements and restarts of the    *)
(* heartbeat loop.                                                          *)
THEOREM EventsAreFaithful == Spec => []EventsTellStatus
BY BeatsInvariant, PTL DEF BeatsInv

-----------------------------------------------------------------------------
(* The clock.  Days and hours, and minutes of a day, are quotients and         *)
(* remainders of it by a length that is not known.                           *)

LEMMA DivMod ==
  ASSUME NEW t \in Int, NEW d \in Nat \ {0}
  PROVE  /\ t \div d \in Int /\ t % d \in 0..(d - 1)
         /\ t = d * (t \div d) + (t % d)
OBVIOUS

LEMMA TimesMonotone ==
  ASSUME NEW d \in Nat \ {0}, NEW a \in Int, NEW b \in Int, a <= b
  PROVE  d * a <= d * b /\ d * (a + 1) = d * a + d
OBVIOUS

(* There is one way to write a time as a day and a time of the day. *)
LEMMA DivModUnique ==
  ASSUME NEW d \in Nat \ {0}, NEW a \in Int, NEW b \in Int,
         NEW r \in 0..(d - 1), NEW s \in 0..(d - 1), d * a + r = d * b + s
  PROVE  a = b /\ r = s
<1>1. CASE a < b
  <2>1. a + 1 <= b
    BY <1>1
  <2>2. d * (a + 1) <= d * b /\ d * (a + 1) = d * a + d
    BY <2>1, TimesMonotone
  <2>3. QED
    BY <2>2
<1>2. CASE b < a
  <2>1. b + 1 <= a
    BY <1>2
  <2>2. d * (b + 1) <= d * a /\ d * (b + 1) = d * b + d
    BY <2>1, TimesMonotone
  <2>3. QED
    BY <2>2
<1>3. QED
  BY <1>1, <1>2

LEMMA DivMonotone ==
  ASSUME NEW d \in Nat \ {0}, NEW a \in Int, NEW b \in Int, a <= b
  PROVE  a \div d <= b \div d
<1> DEFINE p == a \div d
           q == b \div d
<1>1. /\ p \in Int /\ d * p <= a
      /\ q \in Int /\ b < d * q + d
  BY DivMod
<1> HIDE DEF p, q
<1>2. CASE q < p
  <2>1. d * (q + 1) <= d * p /\ d * (q + 1) = d * q + d
    BY <1>1, <1>2, TimesMonotone
  <2>2. QED
    BY <1>1, <2>1
<1>3. QED
  BY <1>1, <1>2 DEF p, q

LEMMA TimeOf ==
  ASSUME NEW d \in Nat \ {0}, NEW a \in Int, NEW v \in 0..(d - 1)
  PROVE  (d * a + v) \div d = a /\ (d * a + v) % d = v
<1> DEFINE t == d * a + v
<1>1. t \in Int
  OBVIOUS
<1>2. t \div d \in Int /\ t % d \in 0..(d - 1) /\ t = d * (t \div d) + (t % d)
  BY <1>1, DivMod
<1>3. d * (t \div d) + (t % d) = d * a + v
  BY <1>2
<1> HIDE DEF t
<1>4. t \div d = a /\ t % d = v
  BY <1>2, <1>3, DivModUnique
<1>5. QED
  BY <1>4 DEF t

-----------------------------------------------------------------------------
(* Maintenance windows. *)

(* Covers with a window whose end is its start taken as its first minute.      *)
CoversShort(w, t) ==
  \E s \in (t - MinutesPerDay + 1)..t :
    /\ Minute(s) = w.start /\ DayName(s) \in w.days
    /\ t - s <= (w.end - w.start) % MinutesPerDay

(* How long a window lasts after its first minute. *)
LEMMA WindowLength ==
  ASSUME NEW w \in Window
  PROVE  /\ w.start \in 0..(MinutesPerDay - 1) /\ w.end \in 0..(MinutesPerDay - 1)
         /\ w.start <= w.end => (w.end - w.start) % MinutesPerDay = w.end - w.start
         /\ w.end < w.start
              => (w.end - w.start) % MinutesPerDay = w.end - w.start + MinutesPerDay
<1> DEFINE D == MinutesPerDay
           a == w.start
           b == w.end
<1>1. D \in Nat \ {0}
  BY WindowAssumption
<1>2. a \in 0..(D - 1) /\ b \in 0..(D - 1)
  BY DEF Window
<1> HIDE DEF D, a, b
<1>3. ASSUME a <= b PROVE (b - a) % D = b - a
  <2>1. b - a \in 0..(D - 1) /\ D * 0 + (b - a) = b - a
    BY <1>1, <1>2, <1>3
  <2>2. QED
    BY <1>1, <2>1, TimeOf
<1>4. ASSUME b < a PROVE (b - a) % D = b - a + D
  <2>1. b - a + D \in 0..(D - 1) /\ D * (-1) + (b - a + D) = b - a
    BY <1>1, <1>2, <1>4
  <2>2. -1 \in Int
    OBVIOUS
  <2>3. (D * (-1) + (b - a + D)) % D = b - a + D
    BY <1>1, <2>1, <2>2, TimeOf
  <2>4. QED
    BY <2>1, <2>3
<1>5. QED
  BY <1>2, <1>3, <1>4 DEF D, a, b

(* The last time before t with a given time of the day is on t's day, or on    *)
(* the day before.                                                          *)
LEMMA LastTime ==
  ASSUME NEW d \in Nat \ {0}, NEW t \in Int, NEW v \in 0..(d - 1)
  PROVE  /\ t - d + 1 \in Int
         /\ v <= t % d =>
              /\ t - ((t % d) - v) \in (t - d + 1)..t
              /\ (t - ((t % d) - v)) % d = v /\ (t - ((t % d) - v)) \div d = t \div d
         /\ t % d < v =>
              /\ t - ((t % d) - v + d) \in (t - d + 1)..t
              /\ (t - ((t % d) - v + d)) % d = v
              /\ (t - ((t % d) - v + d)) \div d = (t \div d) - 1
         /\ \A s \in (t - d + 1)..t :
              s % d = v => s = IF v <= t % d THEN t - ((t % d) - v) ELSE t - ((t % d) - v + d)
<1> DEFINE q == t \div d
           m == t % d
<1>1. q \in Int /\ m \in 0..(d - 1) /\ t = d * q + m
  BY DivMod
<1> HIDE DEF q, m
<1>2. d * (q - 1) = d * q - d /\ q - 1 \in Int
  BY <1>1
<1>3. ASSUME v <= m
      PROVE  /\ t - (m - v) \in (t - d + 1)..t
             /\ (t - (m - v)) % d = v /\ (t - (m - v)) \div d = q
  <2>1. t - (m - v) = d * q + v
    BY <1>1
  <2>2. (d * q + v) % d = v /\ (d * q + v) \div d = q
    BY <1>1, TimeOf
  <2>3. t - (m - v) \in (t - d + 1)..t
    BY <1>1, <1>3
  <2>4. QED
    BY <2>1, <2>2, <2>3
<1>4. ASSUME m < v
      PROVE  /\ t - (m - v + d) \in (t - d + 1)..t
             /\ (t - (m - v + d)) % d = v /\ (t - (m - v + d)) \div d = q - 1
  <2>1. t - (m - v + d) = d * (q - 1) + v
    BY <1>1, <1>2
  <2>2. (d * (q - 1) + v) % d = v /\ (d * (q - 1) + v) \div d = q - 1
    BY <1>2, TimeOf
  <2>3. t - (m - v + d) \in (t - d + 1)..t
    BY <1>1, <1>4
  <2>4. QED
    BY <2>1, <2>2, <2>3
<1>5. ASSUME NEW s \in (t - d + 1)..t, s % d = v
      PROVE  s = IF v <= m THEN t - (m - v) ELSE t - (m - v + d)
  <2> DEFINE p == s \div d
  <2>1. s \in Int /\ p \in Int /\ s = d * p + v
    BY <1>5, DivMod
  <2> HIDE DEF p
  <2>2. t - d + 1 <= s /\ s <= t
    OBVIOUS
  <2>3. p = q \/ p = q - 1
    <3>1. CASE q < p
      <4>1. q + 1 <= p
        BY <1>1, <2>1, <3>1
      <4>2. d * (q + 1) <= d * p /\ d * (q + 1) = d * q + d
        BY <1>1, <2>1, <4>1, TimesMonotone
      <4>3. QED
        BY <1>1, <2>1, <2>2, <4>2
    <3>2. CASE p < q - 1
      <4>1. p + 1 <= q - 1
        BY <1>1, <2>1, <3>2
      <4>2. d * (p + 1) <= d * (q - 1) /\ d * (p + 1) = d * p + d
        BY <1>2, <2>1, <4>1, TimesMonotone
      <4>3. QED
        BY <1>1, <1>2, <2>1, <2>2, <4>2
    <3>3. QED
      BY <1>1, <2>1, <3>1, <3>2
  <2>4. CASE p = q
    <3>1. s = t - (m - v) /\ v <= m
      BY <1>1, <2>1, <2>2, <2>4
    <3>2. QED
      BY <3>1
  <2>5. CASE p = q - 1
    <3>1. s = t - (m - v + d)
      BY <1>1, <1>2, <2>1, <2>5
    <3>2. m < v
      BY <1>1, <2>2, <3>1
    <3>3. QED
      BY <1>1, <3>1, <3>2
  <2>6. QED
    BY <2>3, <2>4, <2>5
<1>6. QED
  BY <1>3, <1>4, <1>5 DEF q, m

(* The minutes that the code matches are those of a window that began.        *)
LEMMA MatchIsShort ==
  ASSUME NEW w \in Window, NEW t \in Int
  PROVE  maintenanceMatches(w, t) <=> CoversShort(w, t)
<1> DEFINE D == MinutesPerDay
           a == w.start
           b == w.end
           m == t % D
           length == (b - a) % D
           begin == IF a <= m THEN t - (m - a) ELSE t - (m - a + D)
<1>1. D \in Nat \ {0}
  BY WindowAssumption
<1>2. /\ a \in 0..(D - 1) /\ b \in 0..(D - 1)
      /\ a <= b => length = b - a
      /\ b < a => length = b - a + D
  BY WindowLength
<1>3. m \in 0..(D - 1)
  BY <1>1, DivMod
<1>4. /\ a <= m => /\ t - (m - a) \in (t - D + 1)..t
                   /\ (t - (m - a)) % D = a /\ (t - (m - a)) \div D = t \div D
      /\ m < a => /\ t - (m - a + D) \in (t - D + 1)..t
                  /\ (t - (m - a + D)) % D = a
                  /\ (t - (m - a + D)) \div D = (t \div D) - 1
      /\ \A s \in (t - D + 1)..t : s % D = a => s = begin
  BY <1>1, <1>2, LastTime
<1>5. CoversShort(w, t) <=> begin \in (t - D + 1)..t /\ begin % D = a
                       /\ DayName(begin) \in w.days /\ t - begin <= length
  <2> HIDE DEF begin, length
  <2>1. CoversShort(w, t) <=> \E s \in (t - D + 1)..t :
                           s % D = a /\ DayName(s) \in w.days /\ t - s <= length
    BY DEF CoversShort, Minute, length
  <2>2. QED
    BY <1>4, <2>1
<1>6. (t - D) \div D = (t \div D) - 1
  <2> DEFINE q == t \div D
  <2>1. q \in Int /\ t = D * q + m /\ q - 1 \in Int
    BY <1>1, DivMod
  <2> HIDE DEF q, m, D
  <2>2. t - D = D * (q - 1) + m
    BY <1>1, <1>3, <2>1
  <2>3. (D * (q - 1) + m) \div D = q - 1
    BY <1>1, <1>3, <2>1, TimeOf
  <2>4. QED
    BY <2>2, <2>3 DEF q
<1>7. maintenanceMatches(w, t)
        <=> /\ IF a <= b THEN m \in a..b ELSE m >= a \/ m <= b
            /\ DayName(NightOf(w, t)) \in w.days
  BY DEF maintenanceMatches, Minute
<1>8. NightOf(w, t) = IF b < a /\ m <= b THEN t - D ELSE t
  BY <1>1, <1>2 DEF NightOf, Minute
<1>9. DayName(t) = (t \div D) % WeekDays /\ DayName(t - D) = ((t \div D) - 1) % WeekDays
      /\ DayName(begin) = (begin \div D) % WeekDays
  BY <1>6 DEF DayName
<1> HIDE DEF D, a, b, m, length, begin
<1>10. CASE a <= m
  <2>1. /\ begin = t - (m - a) /\ begin \in (t - D + 1)..t /\ begin % D = a
        /\ begin \div D = t \div D
    BY <1>4, <1>10 DEF begin
  <2>2. DayName(begin) = DayName(t) /\ t - begin = m - a
    <3>1. t - begin = m - a
      BY <1>2, <1>3, <2>1
    <3>2. QED
      BY <1>9, <2>1, <3>1
  <2>3. CASE a <= b
    <3>1. NightOf(w, t) = t /\ (m \in a..b <=> m - a <= length)
      BY <1>2, <1>3, <1>8, <1>10, <2>3
    <3>2. QED
      BY <1>5, <1>7, <2>1, <2>2, <2>3, <3>1
  <2>4. CASE b < a
    <3>1. m >= a /\ m - a <= length /\ ~(a <= b) /\ ~(m <= b)
      BY <1>1, <1>2, <1>3, <1>10, <2>4
    <3>2. NightOf(w, t) = t
      BY <1>8, <3>1
    <3>3. QED
      BY <1>5, <1>7, <2>1, <2>2, <3>1, <3>2
  <2>5. QED
    BY <1>2, <2>3, <2>4
<1>11. CASE m < a
  <2>1. /\ begin = t - (m - a + D) /\ begin \in (t - D + 1)..t /\ begin % D = a
        /\ begin \div D = (t \div D) - 1
    <3>1. ~(a <= m)
      BY <1>2, <1>3, <1>11
    <3>2. QED
      BY <1>4, <1>11, <3>1 DEF begin
  <2>2. t - begin = m - a + D
    BY <1>1, <1>2, <1>3, <2>1
  <2>3. CASE a <= b
    <3>1. m \notin a..b /\ ~(m - a + D <= length)
      BY <1>1, <1>2, <1>3, <1>11, <2>3
    <3>2. QED
      BY <1>5, <1>7, <2>2, <2>3, <3>1
  <2>4. CASE b < a
    <3>1. ~(a <= b) /\ ~(m >= a) /\ (m <= b <=> m - a + D <= length)
      BY <1>1, <1>2, <1>3, <1>11, <2>4
    <3>2. CASE m <= b
      <4>1. NightOf(w, t) = t - D
        BY <1>8, <2>4, <3>2
      <4>2. DayName(begin) = DayName(t - D)
        BY <1>9, <2>1
      <4>3. QED
        BY <1>5, <1>7, <2>1, <2>2, <3>1, <3>2, <4>1, <4>2
    <3>3. CASE ~(m <= b)
      BY <1>5, <1>7, <2>2, <3>1, <3>3
    <3>4. QED
      BY <3>2, <3>3
  <2>5. QED
    BY <1>2, <2>3, <2>4
<1>12. QED
  BY <1>2, <1>3, <1>10, <1>11

(* A window that is not AllRound lasts less than a day, and one that is at least *)
(* its first minute.                                                        *)
LEMMA MatchIsCover ==
  ASSUME NEW w \in Window, NEW t \in Int
  PROVE  /\ maintenanceMatches(w, t) => Covers(w, t)
         /\ ~AllRound(w) => (Covers(w, t) => maintenanceMatches(w, t))
<1> DEFINE D == MinutesPerDay
           short == (w.end - w.start) % D
<1>1. D \in Nat \ {0}
  BY WindowAssumption
<1>2. /\ w.start \in 0..(D - 1) /\ w.end \in 0..(D - 1)
      /\ w.start <= w.end => short = w.end - w.start
      /\ w.end < w.start => short = w.end - w.start + D
  BY WindowLength
<1> HIDE DEF short
<1>3. /\ Lasts(w) \in Int /\ short <= Lasts(w)
      /\ ~AllRound(w) => Lasts(w) = short /\ short < D
  BY <1>1, <1>2 DEF Lasts, AllRound
<1>4. ASSUME CoversShort(w, t) PROVE Covers(w, t)
  <2>1. PICK s \in (t - D + 1)..t :
          Minute(s) = w.start /\ DayName(s) \in w.days /\ t - s <= short
    BY <1>4 DEF CoversShort, short
  <2>2. s \in (t - D)..t /\ t - s <= Lasts(w)
    BY <1>1, <1>2, <1>3, <2>1
  <2>3. QED
    BY <2>1, <2>2 DEF Covers
<1>5. ASSUME ~AllRound(w), Covers(w, t) PROVE CoversShort(w, t)
  <2>1. PICK s \in (t - D)..t :
          Minute(s) = w.start /\ DayName(s) \in w.days /\ t - s <= Lasts(w)
    BY <1>5 DEF Covers
  <2>2. t - s <= short /\ s \in (t - D + 1)..t
    BY <1>1, <1>2, <1>3, <1>5, <2>1
  <2>3. QED
    BY <2>1, <2>2 DEF CoversShort, short
<1>6. QED
  BY <1>4, <1>5, MatchIsShort

WindowsTyped == minutes \in Nat /\ windows \subseteq Window /\ pending \in Int

LEMMA WindowsStep ==
  ASSUME WindowsTyped, WindowsNext \/ UNCHANGED windowVars
  PROVE  WindowsTyped'
<1>1. -1 \in Int /\ \A t \in Nat : t \in Int /\ t + 1 \in Nat
  OBVIOUS
<1>2. CASE minutePasses
  BY <1>1, <1>2 DEF minutePasses, WindowsTyped
<1>3. ASSUME NEW w \in Window, createMaintenance(w) \/ deleteMaintenance(w)
      PROVE  WindowsTyped'
  BY <1>3 DEF createMaintenance, deleteMaintenance, WindowsTyped
<1>4. CASE happens
  BY <1>1, <1>4 DEF happens, WindowsTyped
<1>5. CASE deliverNextAlertEvent
  BY <1>1, <1>5 DEF deliverNextAlertEvent, WindowsTyped, None
<1>6. CASE UNCHANGED windowVars
  BY <1>6 DEF windowVars, WindowsTyped
<1>7. QED
  BY <1>2, <1>3, <1>4, <1>5, <1>6 DEF WindowsNext

(* What a step of the delivery does with an event. *)
Silenced ==
  pending # None /\ pending' = None =>
    \/ told' = "silenced" /\ \E w \in windows : Covers(w, pending)
    \/ told' = "sent" /\ \A w \in windows : Covers(w, pending) => AllRound(w)
    \/ told' = "sent unasked"

LEMMA SilencedStep ==
  ASSUME WindowsTyped, WindowsNext
  PROVE  Silenced
<1>1. CASE deliverNextAlertEvent
  <2>1. /\ inMaintenance => \E w \in windows : Covers(w, pending)
        /\ ~inMaintenance => \A w \in windows : Covers(w, pending) => AllRound(w)
    BY MatchIsCover DEF inMaintenance, WindowsTyped
  <2>2. told' = (IF inMaintenance THEN "silenced" ELSE "sent") \/ told' = "sent unasked"
    BY <1>1 DEF deliverNextAlertEvent
  <2>3. QED
    BY <2>1, <2>2 DEF Silenced
<1>2. CASE \/ minutePasses \/ happens
           \/ \E w \in Window : createMaintenance(w) \/ deleteMaintenance(w)
  <2>1. pending' = pending \/ (pending = None /\ pending' = minutes)
    BY <1>2 DEF minutePasses, happens, createMaintenance, deleteMaintenance
  <2>2. QED
    BY <2>1 DEF Silenced
<1>3. QED
  BY <1>1, <1>2 DEF WindowsNext

-----------------------------------------------------------------------------
(* Scheduled reports. *)

ReportRow == [at : Schedule, enabled : BOOLEAN, last : Nat \cup {Never}]

History ==
  [count : [Days -> Nat], slips : [Days -> Nat], served : SUBSET Days,
   carried : SUBSET Days, owed : SUBSET Days, misread : SUBSET Days]

LoopRecord ==
  [pc : {"wait", "select", "send", "record"}, hour : Nat, day : Days,
   due : SUBSET Reports, now : SUBSET Reports]

ReportsTyped ==
  /\ hours \in 0..MaxHours
  /\ reports \in [Reports -> ReportRow]
  /\ loop \in LoopRecord
  /\ sent \in [Reports -> History]

(* Where the loop is with its lists. *)
LoopShape ==
  /\ loop.pc \in {"wait", "select"} => loop.due = {} /\ loop.now = {}
  /\ loop.pc = "send" => loop.now = {}
  /\ \A r, q \in loop.now : r = q

(* What is known of a report r, the last time recorded for it and its history,  *)
(* when the loop is at l and it is today.  A mail of today that is not          *)
(* accounted for by a record, or by a slip, is the one on its way; a report     *)
(* that is due has no such mail.                                             *)
Accounted(r, last, s, l, today) ==
  /\ \A d \in Days : s.count[d] <= 1 + s.slips[d] /\ (d > today => s.count[d] = 0)
  /\ s.count[today] > s.slips[today] => (last # Never /\ Day(last) >= today) \/ r \in l.now
  /\ r \in l.due => r \notin l.now /\ s.count[today] <= s.slips[today]
  /\ r \in l.now => l.day \in s.served
  /\ last # Never => Day(last) <= today /\ Day(last) \in s.served \cup s.carried
  /\ \A d \in s.owed : d \in s.served \cup s.carried \cup s.misread \/ (d = l.day /\ r \in l.due)

AllAccounted ==
  \A r \in Reports : Accounted(r, reports[r].last, sent[r], loop, Day(hours))

ReportsInv == ReportsTyped /\ LoopShape /\ AllAccounted

LEMMA DayFacts ==
  /\ MaxHours \in Nat /\ HoursPerDay \in Nat \ {0}
  /\ Day(MaxHours) \in Nat /\ Day(0) = 0 /\ 0 \in Days
  /\ \A t \in Nat : Day(t) \in Nat /\ Day(t) <= Day(t + 1)
  /\ \A t \in 0..MaxHours : Day(t) \in Days
<1> DEFINE D == HoursPerDay
<1>1. MaxHours \in Nat /\ D \in Nat \ {0}
  BY ReportAssumption
<1> HIDE DEF D
<1>2. (D * 0 + 0) \div D = 0 /\ D * 0 + 0 = 0
  <2>1. 0 \in Int /\ 0 \in 0..(D - 1) /\ D * 0 + 0 = 0
    BY <1>1
  <2>2. QED
    BY <1>1, <2>1, TimeOf
<1>3. 0 \div D = 0
  BY <1>2
<1>4. ASSUME NEW t \in Nat
      PROVE  t \div D \in Nat /\ t \div D <= (t + 1) \div D
  <2>1. t \in Int /\ t + 1 \in Int /\ 0 \in Int /\ 0 <= t /\ t <= t + 1
    OBVIOUS
  <2>2. 0 \div D <= t \div D /\ t \div D <= (t + 1) \div D
    BY <1>1, <2>1, DivMonotone
  <2>3. t \div D \in Int
    BY <1>1, <2>1, DivMod
  <2>4. QED
    BY <1>3, <2>2, <2>3
<1>5. ASSUME NEW t \in 0..MaxHours PROVE t \div D \in 0..(MaxHours \div D)
  <2>1. t \in Nat /\ t \in Int /\ MaxHours \in Int /\ t <= MaxHours
    BY <1>1
  <2>2. t \div D <= MaxHours \div D
    BY <1>1, <2>1, DivMonotone
  <2>3. t \div D \in Nat /\ MaxHours \div D \in Nat
    BY <1>1, <1>4, <2>1
  <2>4. QED
    BY <2>2, <2>3
<1>6. MaxHours \div D \in Nat
  BY <1>1, <1>4
<1>7. QED
  BY <1>1, <1>3, <1>4, <1>5, <1>6 DEF D, Day, Days

LEMMA Today == ASSUME ReportsTyped PROVE hours \in Nat /\ Day(hours) \in Days /\ Day(hours) \in Nat
<1>1. hours \in Nat /\ hours \in 0..MaxHours
  BY DayFacts DEF ReportsTyped
<1>2. QED
  BY <1>1, DayFacts

LEMMA HistoryFields ==
  ASSUME NEW s \in History
  PROVE  /\ s = [count |-> s.count, slips |-> s.slips, served |-> s.served,
                 carried |-> s.carried, owed |-> s.owed, misread |-> s.misread]
         /\ s.count \in [Days -> Nat] /\ s.slips \in [Days -> Nat]
         /\ s.served \in SUBSET Days /\ s.carried \in SUBSET Days /\ s.owed \in SUBSET Days
         /\ s.misread \in SUBSET Days
BY DEF History

LEMMA RunFields ==
  ASSUME NEW l \in LoopRecord
  PROVE  /\ l = [pc |-> l.pc, hour |-> l.hour, day |-> l.day, due |-> l.due, now |-> l.now]
         /\ l.pc \in {"wait", "select", "send", "record"} /\ l.hour \in Nat /\ l.day \in Days
         /\ l.due \in SUBSET Reports /\ l.now \in SUBSET Reports
BY DEF LoopRecord

-----------------------------------------------------------------------------
(* What the steps do to the account of one report. *)

LEMMA SamePlace ==
  ASSUME NEW r, NEW last, NEW s, NEW l, NEW today, Accounted(r, last, s, l, today),
         NEW l2, l2.day = l.day, r \in l2.due <=> r \in l.due, r \in l2.now <=> r \in l.now
  PROVE  Accounted(r, last, s, l2, today)
BY DEF Accounted

LEMMA OffTheLists ==
  ASSUME NEW r, NEW last, NEW s, NEW l, NEW today, Accounted(r, last, s, l, today),
         r \notin l.due, r \notin l.now, NEW l2, r \notin l2.due, r \notin l2.now
  PROVE  Accounted(r, last, s, l2, today)
BY DEF Accounted

LEMMA LaterAccounted ==
  ASSUME NEW r, NEW last \in Nat \cup {Never}, NEW s \in History, NEW l,
         NEW today \in Days, Accounted(r, last, s, l, today),
         NEW later \in Days, today <= later
  PROVE  Accounted(r, last, s, l, later)
<1>1. Days \subseteq Nat
  BY DayFacts DEF Days
<1>2. last # Never => Day(last) \in Nat
  BY DayFacts
<1>3. CASE later = today
  BY <1>3
<1>4. CASE today < later
  <2>1. s.count[later] = 0 /\ s.slips[later] \in Nat
    BY <1>4, HistoryFields DEF Accounted
  <2>2. \A d \in Days : d > later => d > today
    BY <1>1, <1>4
  <2>3. /\ \A d \in Days : s.count[d] <= 1 + s.slips[d] /\ (d > later => s.count[d] = 0)
        /\ ~(s.count[later] > s.slips[later]) /\ s.count[later] <= s.slips[later]
    BY <2>1, <2>2 DEF Accounted
  <2>4. last # Never => Day(last) <= later
    BY <1>1, <1>2, <1>4 DEF Accounted
  <2>5. QED
    BY <2>3, <2>4 DEF Accounted
<1>5. QED
  BY <1>1, <1>3, <1>4

(* The listing: a report that is asked for is due, or has gone out today. *)
LEMMA SelectAccounted ==
  ASSUME NEW r, NEW last \in Nat \cup {Never}, NEW s \in History, NEW l,
         NEW today \in Days, Accounted(r, last, s, l, today), r \notin l.due, r \notin l.now,
         NEW s2, s2.count = s.count, s2.slips = s.slips, s2.served = s.served,
         s2.carried = s.carried,
         NEW l2, l2.day = today, r \notin l2.now,
         r \in l2.due => last = Never \/ Day(last) < today,
         \/ s2.owed = s.owed /\ s2.misread = s.misread
         \/ /\ s2.owed = s.owed \cup {today} /\ s2.misread = s.misread
            /\ r \notin l2.due => ~(last = Never \/ Day(last) < today)
         \/ s2.owed = s.owed \cup {today} /\ s2.misread = s.misread \cup {today}
  PROVE  Accounted(r, last, s2, l2, today)
<1>1. today \in Nat /\ (last # Never => Day(last) \in Nat)
  BY DayFacts DEF Days
<1>2. s.count[today] \in Nat /\ s.slips[today] \in Nat
  BY HistoryFields
<1>3. \A d \in s.owed : d \in s.served \cup s.carried \cup s.misread
  BY DEF Accounted
<1>4. r \in l2.due => s.count[today] <= s.slips[today]
  <2>1. r \in l2.due => ~(last # Never /\ Day(last) >= today)
    BY <1>1
  <2>2. ~(s.count[today] > s.slips[today]) \/ (last # Never /\ Day(last) >= today)
    BY DEF Accounted
  <2>3. QED
    BY <1>2, <2>1, <2>2
<1>5. \A d \in s2.owed :
        d \in s.served \cup s.carried \cup s2.misread \/ (d = today /\ r \in l2.due)
  <2>1. CASE s2.owed = s.owed /\ s2.misread = s.misread
    BY <1>3, <2>1
  <2>2. CASE s2.owed = s.owed \cup {today} /\ s2.misread = s.misread /\ r \in l2.due
    BY <1>3, <2>2
  <2>3. CASE /\ s2.owed = s.owed \cup {today} /\ s2.misread = s.misread
             /\ last # Never /\ ~(Day(last) < today)
    <3>1. Day(last) = today
      BY <1>1, <2>3 DEF Accounted
    <3>2. today \in s.served \cup s.carried
      BY <2>3, <3>1 DEF Accounted
    <3>3. QED
      BY <1>3, <2>3, <3>2
  <2>4. CASE s2.owed = s.owed \cup {today} /\ s2.misread = s.misread \cup {today}
    BY <1>3, <2>4
  <2>5. QED
    BY <2>1, <2>2, <2>3, <2>4
<1>6. QED
  BY <1>4, <1>5 DEF Accounted

(* The mail: the report is off the list and is on its way. *)
LEMMA MailAccounted ==
  ASSUME NEW r, NEW last \in Nat \cup {Never}, NEW s \in History, NEW l,
         NEW today \in Days, Accounted(r, last, s, l, today), r \in l.due,
         NEW s2, s2.count = [s.count EXCEPT ![today] = @ + 1], s2.slips = s.slips,
         s2.served = s.served \cup {l.day}, s2.carried = s.carried, s2.owed = s.owed,
         s2.misread = s.misread,
         NEW l2, l2.day = l.day, r \notin l2.due, r \in l2.now
  PROVE  Accounted(r, last, s2, l2, today)
<1>1. /\ s.count \in [Days -> Nat] /\ s.slips \in [Days -> Nat] /\ today \in Nat
      /\ s.count[today] <= s.slips[today]
  BY HistoryFields, DayFacts DEF Accounted, Days
<1>2. s2.count[today] = s.count[today] + 1 /\ \A d \in Days : d # today => s2.count[d] = s.count[d]
  BY <1>1
<1>3. s2.count[today] <= 1 + s2.slips[today]
  BY <1>1, <1>2
<1>4. \A d \in Days : s2.count[d] <= 1 + s2.slips[d] /\ (d > today => s2.count[d] = 0)
  <2>1. ASSUME NEW d \in Days PROVE s2.count[d] <= 1 + s2.slips[d] /\ (d > today => s2.count[d] = 0)
    <3>1. CASE d = today
      BY <1>1, <1>3, <3>1
    <3>2. CASE d # today
      BY <1>2, <3>2 DEF Accounted
    <3>3. QED
      BY <3>1, <3>2
  <2>2. QED
    BY <2>1
<1>5. QED
  BY <1>4 DEF Accounted

(* The record: it may be of another day than the listing. *)
LEMMA RecordAccounted ==
  ASSUME NEW r, NEW last, NEW s \in History, NEW l, NEW hour \in Nat,
         Accounted(r, last, s, l, Day(hour)), r \in l.now,
         NEW s2, s2.count = s.count, s2.slips = s.slips, s2.served = s.served, s2.owed = s.owed,
         s2.misread = s.misread,
         \/ s2.carried = s.carried /\ l.day = Day(hour)
         \/ s2.carried = s.carried \cup {Day(hour)},
         NEW l2, l2.day = l.day, r \in l2.due <=> r \in l.due, r \notin l2.now
  PROVE  Accounted(r, hour, s2, l2, Day(hour))
<1>1. Day(hour) \in Nat /\ hour # Never
  BY DayFacts DEF Never
<1>2. r \notin l.due /\ l.day \in s.served
  BY DEF Accounted
<1>3. Day(hour) \in s2.served \cup s2.carried
  BY <1>2
<1>4. Day(hour) >= Day(hour) /\ Day(hour) <= Day(hour)
  BY <1>1
<1>5. \A d \in s2.owed : d \in s2.served \cup s2.carried \cup s2.misread
  BY <1>2 DEF Accounted
<1>6. \A d \in Days : s2.count[d] <= 1 + s2.slips[d] /\ (d > Day(hour) => s2.count[d] = 0)
  BY DEF Accounted
<1>7. QED
  BY <1>1, <1>2, <1>3, <1>4, <1>5, <1>6 DEF Accounted

(* The mail that is not recorded. *)
LEMMA SlipAccounted ==
  ASSUME NEW r, NEW last, NEW s \in History, NEW l,
         NEW today \in Days, Accounted(r, last, s, l, today), r \in l.now,
         NEW s2, s2.count = s.count, s2.slips = [s.slips EXCEPT ![today] = @ + 1],
         s2.served = s.served, s2.carried = s.carried, s2.owed = s.owed,
         s2.misread = s.misread,
         NEW l2, r \notin l2.due, r \notin l2.now
  PROVE  Accounted(r, last, s2, l2, today)
<1>1. s.count \in [Days -> Nat] /\ s.slips \in [Days -> Nat] /\ r \notin l.due
  BY HistoryFields DEF Accounted
<1>2. /\ s2.slips[today] = s.slips[today] + 1
      /\ \A d \in Days : d # today => s2.slips[d] = s.slips[d]
  BY <1>1
<1>3. \A d \in Days : s2.count[d] <= 1 + s2.slips[d] /\ (d > today => s2.count[d] = 0)
  <2>1. ASSUME NEW d \in Days PROVE s2.count[d] <= 1 + s2.slips[d] /\ (d > today => s2.count[d] = 0)
    <3>1. s.count[d] <= 1 + s.slips[d] /\ (d > today => s.count[d] = 0)
      BY DEF Accounted
    <3>2. s2.slips[d] = s.slips[d] \/ s2.slips[d] = s.slips[d] + 1
      BY <1>2
    <3>3. s.count[d] \in Nat /\ s.slips[d] \in Nat
      BY <1>1
    <3>4. QED
      BY <3>1, <3>2, <3>3
  <2>2. QED
    BY <2>1
<1>4. ~(s2.count[today] > s2.slips[today])
  <2>1. s.count[today] <= 1 + s.slips[today] /\ s.count[today] \in Nat /\ s.slips[today] \in Nat
    BY <1>1 DEF Accounted
  <2>2. QED
    BY <1>2, <2>1
<1>5. QED
  BY <1>1, <1>3, <1>4 DEF Accounted

(* A report that is given up is not owed for this listing. *)
LEMMA DropAccounted ==
  ASSUME NEW r, NEW last, NEW s, NEW l, NEW today, Accounted(r, last, s, l, today),
         r \notin l.now,
         NEW s2, s2.count = s.count, s2.slips = s.slips, s2.served = s.served,
         s2.carried = s.carried, s2.misread = s.misread,
         s2.owed = IF r \in l.due THEN s.owed \ {l.day} ELSE s.owed,
         NEW l2, r \notin l2.due, r \notin l2.now
  PROVE  Accounted(r, last, s2, l2, today)
BY DEF Accounted

-----------------------------------------------------------------------------
(* The steps. *)

LEMMA ReportsStart ==
  ASSUME NEW at \in Schedule, ReportsInit(at)
  PROVE  ReportsInv
<1>1. /\ 0 \in Days /\ Day(0) = 0 /\ 0 \in 0..MaxHours /\ Day(hours) = 0
  BY DayFacts DEF ReportsInit
<1> DEFINE zero == [d \in Days |-> 0]
           s == [count |-> zero, slips |-> zero, served |-> {}, carried |-> {}, owed |-> {},
                misread |-> {}]
<1>2. zero \in [Days -> Nat] /\ \A d \in Days : zero[d] = 0
  OBVIOUS
<1>3. s \in History /\ s.count = zero /\ s.slips = zero /\ s.owed = {}
  BY <1>2 DEF History
<1>4. /\ loop = Wait /\ Wait.due = {} /\ Wait.now = {} /\ Wait \in LoopRecord
  BY <1>1 DEF ReportsInit, Wait, LoopRecord
<1>5. /\ reports \in [Reports -> ReportRow] /\ \A r \in Reports : reports[r].last = Never
  <2>1. [at |-> at, enabled |-> TRUE, last |-> Never] \in ReportRow
    BY DEF ReportRow
  <2>2. QED
    BY <2>1 DEF ReportsInit
<1> HIDE DEF s, zero
<1>6. sent = [r \in Reports |-> s]
  BY DEF ReportsInit, s, zero
<1>7. ReportsTyped
  BY <1>1, <1>3, <1>4, <1>5, <1>6 DEF ReportsTyped, ReportsInit
<1>8. LoopShape
  BY <1>4 DEF LoopShape
<1>9. AllAccounted
  <2>1. ASSUME NEW r \in Reports PROVE Accounted(r, Never, s, Wait, 0)
    <3>1. \A d \in Days : s.count[d] <= 1 + s.slips[d] /\ (d > 0 => s.count[d] = 0)
      BY <1>2, <1>3
    <3>2. ~(s.count[0] > s.slips[0])
      BY <1>1, <1>2, <1>3
    <3>3. QED
      BY <1>3, <1>4, <3>1, <3>2 DEF Accounted
  <2>2. QED
    BY <1>1, <1>4, <1>5, <1>6, <2>1 DEF AllAccounted
<1>10. QED
  BY <1>7, <1>8, <1>9 DEF ReportsInv

LEMMA HourStep == ASSUME ReportsInv, hourPasses PROVE ReportsInv'
<1>1. /\ hours < MaxHours /\ hours' = hours + 1
      /\ UNCHANGED <<reports, loop, sent>>
  BY DEF hourPasses
<1>2. hours \in Nat /\ Day(hours) \in Days /\ hours' \in 0..MaxHours
  BY <1>1, Today, DayFacts DEF ReportsInv, ReportsTyped
<1>3. Day(hours') \in Days /\ Day(hours) <= Day(hours')
  BY <1>1, <1>2, DayFacts
<1>4. ReportsTyped' /\ LoopShape'
  BY <1>1, <1>2 DEF ReportsInv, ReportsTyped, LoopShape
<1>5. ASSUME NEW r \in Reports
      PROVE  Accounted(r, reports[r].last, sent[r], loop, Day(hours'))
  <2>1. reports[r].last \in Nat \cup {Never} /\ sent[r] \in History
    <3>1. reports[r] \in ReportRow /\ sent[r] \in History
      BY DEF ReportsInv, ReportsTyped
    <3>2. QED
      BY <3>1 DEF ReportRow
  <2>2. Accounted(r, reports[r].last, sent[r], loop, Day(hours))
    BY DEF ReportsInv, AllAccounted
  <2>3. QED
    BY <1>2, <1>3, <2>1, <2>2, LaterAccounted
<1>6. QED
  BY <1>1, <1>4, <1>5 DEF ReportsInv, AllAccounted

LEMMA RequestStep ==
  ASSUME ReportsInv, NEW r \in Reports, NEW at \in Schedule, NEW on \in BOOLEAN,
         updateReport(r, at, on) \/ unsubscribe(r)
  PROVE  ReportsInv'
<1>1. UNCHANGED <<hours, loop, sent>>
  BY DEF updateReport, unsubscribe
<1>2. ASSUME NEW q \in Reports
      PROVE  reports'[q] \in ReportRow /\ reports'[q].last = reports[q].last
  <2>1. reports \in [Reports -> ReportRow] /\ reports[q] \in ReportRow /\ reports[r] \in ReportRow
    BY DEF ReportsInv, ReportsTyped
  <2>2. /\ [reports[r] EXCEPT !.at = at, !.enabled = on] \in ReportRow
        /\ [reports[r] EXCEPT !.at = at, !.enabled = on].last = reports[r].last
        /\ [reports[r] EXCEPT !.enabled = FALSE] \in ReportRow
        /\ [reports[r] EXCEPT !.enabled = FALSE].last = reports[r].last
    BY <2>1 DEF ReportRow
  <2>3. \/ reports' = [reports EXCEPT ![r] = [reports[r] EXCEPT !.at = at, !.enabled = on]]
        \/ reports' = [reports EXCEPT ![r] = [reports[r] EXCEPT !.enabled = FALSE]]
    BY <2>1 DEF updateReport, unsubscribe
  <2>4. QED
    BY <2>1, <2>2, <2>3
<1>3. reports' \in [Reports -> ReportRow]
  <2>1. reports' = [q \in Reports |-> reports'[q]]
    BY DEF ReportsInv, ReportsTyped, updateReport, unsubscribe
  <2>2. QED
    BY <1>2, <2>1
<1>4. QED
  BY <1>1, <1>2, <1>3 DEF ReportsInv, ReportsTyped, LoopShape, AllAccounted

LEMMA BeginRunStep == ASSUME ReportsInv, beginRun \/ endRun PROVE ReportsInv'
<1>1. /\ UNCHANGED <<hours, reports, sent>>
      /\ loop.due = {} /\ loop.now = {}
  BY DEF beginRun, endRun, ReportsInv, LoopShape
<1>2. /\ loop' \in LoopRecord /\ loop'.due = {} /\ loop'.now = {}
      /\ loop'.pc \in {"wait", "select"}
  <2>1. 0 \in Days /\ Hour(hours) \in Nat
    <3>1. hours \in Int /\ HoursPerDay \in Nat \ {0}
      BY Today, DayFacts DEF ReportsInv
    <3>2. hours % HoursPerDay \in 0..(HoursPerDay - 1)
      BY <3>1, DivMod
    <3>3. QED
      BY <3>1, <3>2, DayFacts DEF Hour
  <2>2. CASE beginRun
    <3>1. loop' = [pc |-> "select", hour |-> Hour(hours), day |-> 0, due |-> {}, now |-> {}]
      BY <2>2 DEF beginRun, Wait
    <3>2. QED
      BY <2>1, <3>1 DEF LoopRecord
  <2>3. CASE endRun
    <3>1. loop' = [pc |-> "wait", hour |-> 0, day |-> 0, due |-> {}, now |-> {}]
      BY <2>3 DEF endRun, Wait
    <3>2. QED
      BY <2>1, <3>1 DEF LoopRecord
  <2>4. QED
    BY <2>2, <2>3
<1>3. ReportsTyped' /\ LoopShape'
  BY <1>1, <1>2 DEF ReportsInv, ReportsTyped, LoopShape
<1>4. ASSUME NEW r \in Reports
      PROVE  Accounted(r, reports[r].last, sent[r], loop', Day(hours))
  BY <1>1, <1>2, OffTheLists DEF ReportsInv, AllAccounted
<1>5. QED
  BY <1>1, <1>3, <1>4 DEF ReportsInv, AllAccounted

(* A day that is not Padded is read as it is written. *)
LEMMA ReadAsWritten ==
  ASSUME NEW s \in Schedule, NEW t, Names(s, t), ~Padded(s)
  PROVE  OnDay(s, t)
<1>1. CASE s.frequency = "monthly"
  <2>1. s.day \in Nat /\ s.form \in Forms
    <3>1. s.form \in Forms /\ s.day \in Dates
      BY <1>1 DEF Schedule
    <3>2. Dates \subseteq 1..31
      BY ReportAssumption
    <3>3. s.day \in 1..31
      BY <3>1, <3>2
    <3>4. QED
      BY <3>1, <3>3
  <2>2. s.form = "plain" \/ (s.form = "zero" /\ s.day < 10)
    BY <2>1 DEF Padded, Forms
  <2>3. PaddedDay(s) = s.day
    BY <2>1, <2>2 DEF PaddedDay
  <2>4. QED
    BY <1>1, <2>3 DEF Names, OnDay
<1>2. QED
  BY <1>1 DEF Names, OnDay

LEMMA SelectStep == ASSUME ReportsInv, selectDue PROVE ReportsInv'
<1> DEFINE due == {r \in Reports : /\ reports[r].enabled /\ reports[r].at.hour = loop.hour
                                   /\ NotSentToday(reports[r]) /\ OnDay(reports[r].at, hours)}
           asked == {r \in Reports : /\ reports[r].enabled /\ reports[r].at.hour = Hour(hours)
                                     /\ Hour(hours) = loop.hour /\ Names(reports[r].at, hours)}
           misread == {r \in asked : Padded(reports[r].at)}
           owed(r) == IF r \in asked THEN sent[r].owed \cup {Day(hours)} ELSE sent[r].owed
           missed(r) == IF r \in misread THEN sent[r].misread \cup {Day(hours)} ELSE sent[r].misread
<1>1. /\ loop.pc = "select"
      /\ loop' = [loop EXCEPT !.pc = "send", !.day = Day(hours), !.due = due]
      /\ sent' = [r \in Reports |-> [sent[r] EXCEPT !.owed = owed(r), !.misread = missed(r)]]
      /\ UNCHANGED <<hours, reports>>
  BY DEF selectDue
<1>2. /\ \A r \in due : r \in Reports /\ NotSentToday(reports[r])
      /\ \A r \in asked \ misread : r \notin due => ~NotSentToday(reports[r])
      /\ misread \subseteq asked
  <2>1. ASSUME NEW r \in asked, r \notin misread, r \notin due PROVE ~NotSentToday(reports[r])
    <3>1. reports[r].at \in Schedule
      BY DEF ReportsInv, ReportsTyped, ReportRow
    <3>2. OnDay(reports[r].at, hours)
      BY <2>1, <3>1, ReadAsWritten
    <3>3. QED
      BY <2>1, <3>2
  <2>2. QED
    BY <2>1
<1> HIDE DEF due, asked, owed, misread, missed
<1>3. Day(hours) \in Days /\ loop.due = {} /\ loop.now = {} /\ due \subseteq Reports
  BY <1>1, <1>2, Today DEF ReportsInv, LoopShape
<1>4. /\ loop' \in LoopRecord /\ loop'.day = Day(hours) /\ loop'.due = due
      /\ loop'.now = {} /\ loop'.pc = "send"
  BY <1>1, <1>3 DEF ReportsInv, ReportsTyped, LoopRecord
<1>5. ASSUME NEW r \in Reports
      PROVE  /\ sent'[r] \in History
             /\ sent'[r].count = sent[r].count /\ sent'[r].slips = sent[r].slips
             /\ sent'[r].served = sent[r].served /\ sent'[r].carried = sent[r].carried
             /\ sent'[r].owed = owed(r) /\ sent'[r].misread = missed(r)
  <2>1. sent[r] \in History
    BY DEF ReportsInv, ReportsTyped
  <2>2. owed(r) \in SUBSET Days /\ missed(r) \in SUBSET Days
    BY <1>3, <2>1, HistoryFields DEF owed, missed
  <2>3. sent'[r] = [sent[r] EXCEPT !.owed = owed(r), !.misread = missed(r)]
    BY <1>1
  <2>4. QED
    BY <2>1, <2>2, <2>3 DEF History
<1>6. ReportsTyped' /\ LoopShape'
  <2>1. sent' \in [Reports -> History]
    <3>1. sent' = [r \in Reports |-> sent'[r]]
      BY <1>1
    <3>2. QED
      BY <1>5, <3>1
  <2>2. QED
    BY <1>1, <1>4, <2>1 DEF ReportsInv, ReportsTyped, LoopShape
<1>7. ASSUME NEW r \in Reports
      PROVE  Accounted(r, reports[r].last, sent'[r], loop', Day(hours))
  <2>1. reports[r].last \in Nat \cup {Never} /\ sent[r] \in History
    <3>1. reports[r] \in ReportRow /\ sent[r] \in History
      BY DEF ReportsInv, ReportsTyped
    <3>2. QED
      BY <3>1 DEF ReportRow
  <2>2. Accounted(r, reports[r].last, sent[r], loop, Day(hours))
    BY DEF ReportsInv, AllAccounted
  <2>3. r \in loop'.due => reports[r].last = Never \/ Day(reports[r].last) < Day(hours)
    BY <1>2, <1>4 DEF NotSentToday
  <2>4. \/ sent'[r].owed = sent[r].owed /\ sent'[r].misread = sent[r].misread
        \/ /\ sent'[r].owed = sent[r].owed \cup {Day(hours)}
           /\ sent'[r].misread = sent[r].misread
           /\ r \notin loop'.due
                => ~(reports[r].last = Never \/ Day(reports[r].last) < Day(hours))
        \/ /\ sent'[r].owed = sent[r].owed \cup {Day(hours)}
           /\ sent'[r].misread = sent[r].misread \cup {Day(hours)}
    BY <1>2, <1>4, <1>5 DEF owed, missed, NotSentToday
  <2>5. r \notin loop.due /\ r \notin loop.now /\ r \notin loop'.now
    BY <1>3, <1>4
  <2>6. QED
    BY <1>3, <1>4, <1>5, <2>1, <2>2, <2>3, <2>4, <2>5, SelectAccounted
<1>8. QED
  BY <1>1, <1>6, <1>7 DEF ReportsInv, AllAccounted

(* A report before the step: what the lemmas on its account ask for. *)
LEMMA BeforeStep ==
  ASSUME ReportsInv, NEW r \in Reports
  PROVE  /\ reports[r] \in ReportRow /\ reports[r].last \in Nat \cup {Never}
         /\ sent[r] \in History /\ Day(hours) \in Days /\ hours \in Nat
         /\ Accounted(r, reports[r].last, sent[r], loop, Day(hours))
<1>1. reports[r] \in ReportRow /\ sent[r] \in History
  BY DEF ReportsInv, ReportsTyped
<1>2. reports[r].last \in Nat \cup {Never}
  BY <1>1 DEF ReportRow
<1>3. QED
  BY <1>1, <1>2, Today DEF ReportsInv, AllAccounted

LEMMA SendStep ==
  ASSUME ReportsInv, NEW r \in Reports, sendReportEmail(r)
  PROVE  ReportsInv'
<1> DEFINE T == Day(hours)
           counts == [sent[r].count EXCEPT ![T] = @ + 1]
           s2 == [sent[r] EXCEPT !.count = counts, !.served = sent[r].served \cup {loop.day}]
<1>1. /\ loop.pc = "send" /\ r \in loop.due
      /\ loop' = [loop EXCEPT !.pc = "record", !.due = loop.due \ {r}, !.now = {r}]
      /\ UNCHANGED <<hours, reports>>
  BY DEF sendReportEmail
<1>2. loop.now = {} /\ loop \in LoopRecord
  BY <1>1 DEF ReportsInv, LoopShape, ReportsTyped
<1>3. /\ loop' \in LoopRecord /\ loop'.day = loop.day /\ loop'.due = loop.due \ {r}
      /\ loop'.now = {r} /\ loop'.pc = "record"
  BY <1>1, <1>2 DEF LoopRecord
<1>4. sent[r] \in History /\ T \in Days
  BY BeforeStep
<1>5. counts \in [Days -> Nat] /\ loop.day \in Days
  <2>1. sent[r].count \in [Days -> Nat] /\ sent[r].count[T] + 1 \in Nat
    BY <1>4, HistoryFields
  <2> HIDE DEF T
  <2>2. QED
    BY <1>2, <1>4, <2>1, RunFields
<1>6. sent' = [sent EXCEPT ![r] = s2]
  <2>1. sent \in [Reports -> History]
    BY DEF ReportsInv, ReportsTyped
  <2>2. QED
    BY <1>4, <2>1 DEF sendReportEmail, Mailed, History
<1> HIDE DEF counts, T
<1>7. /\ s2 \in History /\ s2.count = counts /\ s2.slips = sent[r].slips
      /\ s2.served = sent[r].served \cup {loop.day} /\ s2.misread = sent[r].misread /\ s2.carried = sent[r].carried
      /\ s2.owed = sent[r].owed
  BY <1>4, <1>5 DEF History
<1> HIDE DEF s2
<1>8. sent' \in [Reports -> History] /\ sent'[r] = s2
      /\ \A q \in Reports : q # r => sent'[q] = sent[q]
  BY <1>6, <1>7 DEF ReportsInv, ReportsTyped
<1>9. ReportsTyped' /\ LoopShape'
  BY <1>1, <1>3, <1>8 DEF ReportsInv, ReportsTyped, LoopShape
<1>10. Accounted(r, reports[r].last, sent'[r], loop', T)
  <2>1. /\ reports[r].last \in Nat \cup {Never}
        /\ Accounted(r, reports[r].last, sent[r], loop, T)
    BY BeforeStep DEF T
  <2>2. s2.count = [sent[r].count EXCEPT ![T] = @ + 1]
    BY <1>7 DEF counts
  <2>3. r \notin loop'.due /\ r \in loop'.now
    BY <1>3
  <2>4. Accounted(r, reports[r].last, s2, loop', T)
    BY <1>1, <1>3, <1>4, <1>7, <2>1, <2>2, <2>3, MailAccounted
  <2>5. QED
    BY <1>8, <2>4
<1>11. ASSUME NEW q \in Reports, q # r
       PROVE  Accounted(q, reports[q].last, sent'[q], loop', T)
  <2>1. Accounted(q, reports[q].last, sent[q], loop, T)
    BY BeforeStep DEF T
  <2>2. /\ q \in loop'.due <=> q \in loop.due
        /\ q \in loop'.now <=> q \in loop.now
    BY <1>2, <1>3, <1>11
  <2>3. Accounted(q, reports[q].last, sent[q], loop', T)
    BY <1>3, <2>1, <2>2, SamePlace
  <2>4. QED
    BY <1>8, <1>11, <2>3
<1>12. AllAccounted'
  BY <1>1, <1>10, <1>11 DEF AllAccounted, T
<1>13. QED
  BY <1>9, <1>12 DEF ReportsInv

LEMMA RecordStep == ASSUME ReportsInv, record PROVE ReportsInv'
<1>1. PICK r \in loop.now :
        /\ reports' = [reports EXCEPT ![r].last = hours]
        /\ sent' = IF loop.day = Day(hours) THEN sent
                   ELSE [sent EXCEPT ![r].carried = sent[r].carried \cup {Day(hours)}]
  BY DEF record
<1>2. /\ loop' = [loop EXCEPT !.pc = "send", !.now = {}]
      /\ UNCHANGED hours
  BY DEF record
<1>3. /\ loop \in LoopRecord /\ \A q \in loop.now : q = r
  BY DEF ReportsInv, LoopShape, ReportsTyped
<1>4. r \in Reports
  BY <1>3, RunFields
<1>5. /\ loop' \in LoopRecord /\ loop'.day = loop.day /\ loop'.due = loop.due
      /\ loop'.now = {} /\ loop'.pc = "send"
  BY <1>2, <1>3 DEF LoopRecord
<1>6. /\ reports[r] \in ReportRow /\ sent[r] \in History /\ Day(hours) \in Days
      /\ hours \in Nat
  BY <1>4, BeforeStep
<1>7. /\ reports' \in [Reports -> ReportRow] /\ reports'[r].last = hours
      /\ \A q \in Reports : q # r => reports'[q] = reports[q]
  <2> DEFINE row == [reports[r] EXCEPT !.last = hours]
  <2>1. row \in ReportRow /\ row.last = hours
    BY <1>6 DEF ReportRow
  <2>2. reports' = [reports EXCEPT ![r] = row]
    BY <1>1
  <2> HIDE DEF row
  <2>3. QED
    BY <1>4, <2>1, <2>2 DEF ReportsInv, ReportsTyped
<1> DEFINE s2 == [sent[r] EXCEPT !.carried = sent[r].carried \cup {Day(hours)}]
<1>8. /\ s2 \in History /\ s2.count = sent[r].count /\ s2.slips = sent[r].slips
      /\ s2.served = sent[r].served /\ s2.carried = sent[r].carried \cup {Day(hours)}
      /\ s2.owed = sent[r].owed /\ s2.misread = sent[r].misread
  BY <1>6 DEF History
<1>9. sent' = IF loop.day = Day(hours) THEN sent ELSE [sent EXCEPT ![r] = s2]
  BY <1>1
<1> HIDE DEF s2
<1>10. /\ sent' \in [Reports -> History]
       /\ \A q \in Reports : q # r => sent'[q] = sent[q]
       /\ (loop.day = Day(hours) /\ sent'[r] = sent[r]) \/ sent'[r] = s2
  BY <1>4, <1>8, <1>9 DEF ReportsInv, ReportsTyped
<1>11. ReportsTyped' /\ LoopShape'
  BY <1>2, <1>5, <1>7, <1>10 DEF ReportsInv, ReportsTyped, LoopShape
<1>12. Accounted(r, hours, sent'[r], loop', Day(hours))
  <2>1. /\ sent'[r].count = sent[r].count /\ sent'[r].slips = sent[r].slips
        /\ sent'[r].served = sent[r].served /\ sent'[r].owed = sent[r].owed
        /\ sent'[r].misread = sent[r].misread
        /\ \/ sent'[r].carried = sent[r].carried /\ loop.day = Day(hours)
           \/ sent'[r].carried = sent[r].carried \cup {Day(hours)}
    BY <1>8, <1>10
  <2>2. Accounted(r, reports[r].last, sent[r], loop, Day(hours))
    BY <1>4, BeforeStep
  <2>3. r \notin loop'.now /\ (r \in loop'.due <=> r \in loop.due)
    BY <1>5
  <2>4. QED
    BY <1>1, <1>5, <1>6, <2>1, <2>2, <2>3, RecordAccounted
<1>13. ASSUME NEW q \in Reports, q # r
       PROVE  Accounted(q, reports[q].last, sent[q], loop', Day(hours))
  <2>1. Accounted(q, reports[q].last, sent[q], loop, Day(hours))
    BY BeforeStep
  <2>2. (q \in loop'.due <=> q \in loop.due) /\ (q \in loop'.now <=> q \in loop.now)
    BY <1>3, <1>5, <1>13
  <2>3. QED
    BY <1>5, <2>1, <2>2, SamePlace
<1>14. AllAccounted'
  BY <1>2, <1>7, <1>10, <1>12, <1>13 DEF AllAccounted
<1>15. QED
  BY <1>11, <1>14 DEF ReportsInv

(* The rest of a run is given up, and nothing is on its way. *)
LEMMA RunEndsStep == ASSUME ReportsInv, runEnds PROVE ReportsInv'
<1> DEFINE owed(q) == IF q \in loop.due THEN sent[q].owed \ {loop.day} ELSE sent[q].owed
<1>1. /\ loop' = Wait /\ UNCHANGED <<hours, reports>>
      /\ sent' = [q \in Reports |-> [sent[q] EXCEPT !.owed = owed(q)]]
      /\ loop.now = {}
  BY DEF runEnds, ReportsInv, LoopShape
<1>2. Wait \in LoopRecord /\ Wait.due = {} /\ Wait.now = {}
  BY DayFacts DEF Wait, LoopRecord
<1>3. ASSUME NEW q \in Reports
      PROVE  /\ sent'[q] \in History
             /\ sent'[q].count = sent[q].count /\ sent'[q].slips = sent[q].slips
             /\ sent'[q].served = sent[q].served /\ sent'[q].misread = sent[q].misread /\ sent'[q].carried = sent[q].carried
             /\ sent'[q].owed = owed(q)
  <2>1. sent[q] \in History
    BY BeforeStep
  <2>2. owed(q) \in SUBSET Days
    BY <2>1, HistoryFields
  <2> HIDE DEF owed
  <2>3. sent'[q] = [sent[q] EXCEPT !.owed = owed(q)]
    BY <1>1
  <2>4. QED
    BY <2>1, <2>2, <2>3 DEF History
<1>4. sent' \in [Reports -> History]
  <2>1. sent' = [q \in Reports |-> sent'[q]]
    BY <1>1
  <2>2. QED
    BY <1>3, <2>1
<1>5. ReportsTyped' /\ LoopShape'
  BY <1>1, <1>2, <1>4 DEF ReportsInv, ReportsTyped, LoopShape
<1>6. ASSUME NEW q \in Reports
      PROVE  Accounted(q, reports[q].last, sent'[q], loop', Day(hours))
  <2>1. Accounted(q, reports[q].last, sent[q], loop, Day(hours))
    BY BeforeStep
  <2>2. q \notin loop.now /\ q \notin loop'.due /\ q \notin loop'.now
    BY <1>1, <1>2
  <2>3. QED
    BY <1>3, <2>1, <2>2, DropAccounted
<1>7. QED
  BY <1>1, <1>5, <1>6 DEF ReportsInv, AllAccounted

LEMMA SendFailsStep ==
  ASSUME ReportsInv, NEW r \in Reports, sendFails(r)
  PROVE  ReportsInv'
<1> DEFINE s2 == [sent[r] EXCEPT !.owed = sent[r].owed \ {loop.day}]
<1>1. /\ loop.pc = "send" /\ r \in loop.due
      /\ loop' = [loop EXCEPT !.due = loop.due \ {r}]
      /\ sent' = [sent EXCEPT ![r] = s2]
      /\ UNCHANGED <<hours, reports>>
  BY DEF sendFails
<1>2. loop.now = {} /\ loop \in LoopRecord
  BY <1>1 DEF ReportsInv, LoopShape, ReportsTyped
<1>3. /\ loop' \in LoopRecord /\ loop'.day = loop.day /\ loop'.due = loop.due \ {r}
      /\ loop'.now = {} /\ loop'.pc = "send"
  BY <1>1, <1>2 DEF LoopRecord
<1>4. /\ s2 \in History /\ s2.count = sent[r].count /\ s2.slips = sent[r].slips
      /\ s2.served = sent[r].served /\ s2.carried = sent[r].carried
      /\ s2.owed = sent[r].owed \ {loop.day} /\ s2.misread = sent[r].misread
  <2>1. sent[r] \in History
    BY BeforeStep
  <2>2. QED
    BY <2>1 DEF History
<1> HIDE DEF s2
<1>5. sent' \in [Reports -> History] /\ sent'[r] = s2
      /\ \A q \in Reports : q # r => sent'[q] = sent[q]
  BY <1>1, <1>4 DEF ReportsInv, ReportsTyped
<1>6. ReportsTyped' /\ LoopShape'
  BY <1>1, <1>3, <1>5 DEF ReportsInv, ReportsTyped, LoopShape
<1>7. Accounted(r, reports[r].last, sent'[r], loop', Day(hours))
  <2>1. Accounted(r, reports[r].last, sent[r], loop, Day(hours))
    BY BeforeStep
  <2>2. r \notin loop.now /\ r \notin loop'.due /\ r \notin loop'.now
    BY <1>2, <1>3
  <2>3. s2.owed = IF r \in loop.due THEN sent[r].owed \ {loop.day} ELSE sent[r].owed
    BY <1>1, <1>4
  <2>4. Accounted(r, reports[r].last, s2, loop', Day(hours))
    BY <1>4, <2>1, <2>2, <2>3, DropAccounted
  <2>5. QED
    BY <1>5, <2>4
<1>8. ASSUME NEW q \in Reports, q # r
      PROVE  Accounted(q, reports[q].last, sent'[q], loop', Day(hours))
  <2>1. Accounted(q, reports[q].last, sent[q], loop, Day(hours))
    BY BeforeStep
  <2>2. (q \in loop'.due <=> q \in loop.due) /\ (q \in loop'.now <=> q \in loop.now)
    BY <1>2, <1>3, <1>8
  <2>3. Accounted(q, reports[q].last, sent[q], loop', Day(hours))
    BY <1>3, <2>1, <2>2, SamePlace
  <2>4. QED
    BY <1>5, <1>8, <2>3
<1>9. AllAccounted'
  BY <1>1, <1>7, <1>8 DEF AllAccounted
<1>10. QED
  BY <1>6, <1>9 DEF ReportsInv

(* The record fails: the mail counts as a slip. *)
LEMMA RecordFailsStep == ASSUME ReportsInv, recordFails PROVE ReportsInv'
<1>1. PICK r \in loop.now : sent' = [sent EXCEPT ![r].slips[Day(hours)] = @ + 1]
  BY DEF recordFails, Slip
<1>2. /\ loop' = [loop EXCEPT !.pc = "send", !.now = {}]
      /\ UNCHANGED <<hours, reports>>
  BY DEF recordFails
<1>3. /\ loop \in LoopRecord /\ \A q \in loop.now : q = r
  BY DEF ReportsInv, LoopShape, ReportsTyped
<1>4. /\ loop' \in LoopRecord /\ loop'.day = loop.day /\ loop'.due = loop.due
      /\ loop'.now = {} /\ loop'.pc = "send"
  BY <1>2, <1>3 DEF LoopRecord
<1>5. r \in Reports
  BY <1>3, RunFields
<1>6. /\ sent[r] \in History /\ Day(hours) \in Days
      /\ Accounted(r, reports[r].last, sent[r], loop, Day(hours))
  BY <1>5, BeforeStep
<1> DEFINE T == Day(hours)
           slipped == [sent[r].slips EXCEPT ![T] = @ + 1]
           s2 == [sent[r] EXCEPT !.slips = slipped]
<1>7. slipped \in [Days -> Nat]
  <2>1. sent[r].slips \in [Days -> Nat] /\ sent[r].slips[T] + 1 \in Nat
    BY <1>6, HistoryFields
  <2> HIDE DEF T
  <2>2. QED
    BY <2>1
<1>8. sent' = [sent EXCEPT ![r] = s2]
  BY <1>1, <1>5, <1>6 DEF ReportsInv, ReportsTyped, History
<1> HIDE DEF slipped, T
<1>9. /\ s2 \in History /\ s2.count = sent[r].count /\ s2.slips = slipped
      /\ s2.served = sent[r].served /\ s2.carried = sent[r].carried /\ s2.owed = sent[r].owed
      /\ s2.misread = sent[r].misread
  BY <1>6, <1>7 DEF History
<1> HIDE DEF s2
<1>10. sent' \in [Reports -> History] /\ sent'[r] = s2
       /\ \A q \in Reports : q # r => sent'[q] = sent[q]
  BY <1>5, <1>8, <1>9 DEF ReportsInv, ReportsTyped
<1>11. ReportsTyped' /\ LoopShape'
  BY <1>2, <1>4, <1>10 DEF ReportsInv, ReportsTyped, LoopShape
<1>12. Accounted(r, reports[r].last, sent'[r], loop', Day(hours))
  <2>1. s2.slips = [sent[r].slips EXCEPT ![Day(hours)] = @ + 1]
    BY <1>9 DEF slipped, T
  <2>2. r \notin loop'.due /\ r \notin loop'.now
    BY <1>4, <1>6 DEF Accounted
  <2>3. Accounted(r, reports[r].last, s2, loop', Day(hours))
    BY <1>6, <1>9, <2>1, <2>2, SlipAccounted
  <2>4. QED
    BY <1>10, <2>3
<1>13. ASSUME NEW q \in Reports, q # r
       PROVE  Accounted(q, reports[q].last, sent'[q], loop', Day(hours))
  <2>1. Accounted(q, reports[q].last, sent[q], loop, Day(hours))
    BY BeforeStep
  <2>2. (q \in loop'.due <=> q \in loop.due) /\ (q \in loop'.now <=> q \in loop.now)
    BY <1>3, <1>4, <1>13
  <2>3. Accounted(q, reports[q].last, sent[q], loop', Day(hours))
    BY <1>4, <2>1, <2>2, SamePlace
  <2>4. QED
    BY <1>10, <1>13, <2>3
<1>14. AllAccounted'
  BY <1>2, <1>12, <1>13 DEF AllAccounted
<1>15. QED
  BY <1>11, <1>14 DEF ReportsInv

(* The dashboard dies between a mail and its record: a slip, and the rest of   *)
(* the run is given up.                                                      *)
LEMMA DiesStep == ASSUME ReportsInv, diesAfterMail PROVE ReportsInv'
<1> DEFINE T == Day(hours)
           slipped(q) == [sent[q].slips EXCEPT ![T] = @ + 1]
           owed(q) == IF q \in loop.due THEN sent[q].owed \ {loop.day} ELSE sent[q].owed
           slips2(r, q) == IF q = r THEN slipped(q) ELSE sent[q].slips
           s2(r, q) == [sent[q] EXCEPT !.slips = slips2(r, q), !.owed = owed(q)]
<1>1. /\ loop' = Wait /\ UNCHANGED <<hours, reports>>
      /\ Wait \in LoopRecord /\ Wait.due = {} /\ Wait.now = {}
  BY DayFacts DEF diesAfterMail, Wait, LoopRecord
<1>2. ASSUME NEW q \in Reports
      PROVE  /\ sent[q] \in History /\ T \in Days
             /\ slipped(q) \in [Days -> Nat] /\ owed(q) \in SUBSET Days
  <2>1. sent[q] \in History /\ T \in Days
    BY BeforeStep
  <2>2. /\ sent[q].slips \in [Days -> Nat] /\ sent[q].slips[T] + 1 \in Nat
        /\ sent[q].owed \in SUBSET Days
    BY <2>1, HistoryFields
  <2> HIDE DEF T
  <2>3. QED
    BY <2>1, <2>2
<1>3. PICK r \in loop.now :
        sent' = [q \in Reports |-> [sent[q] EXCEPT
                   !.slips[T] = IF q = r THEN @ + 1 ELSE @,
                   !.owed = IF q \in loop.due THEN @ \ {loop.day} ELSE @]]
  BY DEF diesAfterMail
<1>4. r \in Reports /\ \A q \in loop.now : q = r
  BY RunFields DEF ReportsInv, LoopShape, ReportsTyped
<1>5. ASSUME NEW q \in Reports PROVE sent'[q] = s2(r, q)
  <2>1. sent'[q] = [sent[q] EXCEPT
                     !.slips = [sent[q].slips EXCEPT ![T] = IF q = r THEN @ + 1 ELSE @],
                     !.owed = owed(q)]
    BY <1>2, <1>3 DEF History
  <2>2. [sent[q].slips EXCEPT ![T] = IF q = r THEN @ + 1 ELSE @] = slips2(r, q)
    <3>1. CASE q = r
      BY <3>1
    <3>2. CASE q # r
      <4>1. sent[q].slips \in [Days -> Nat]
        BY <1>2, HistoryFields
      <4> HIDE DEF T
      <4>2. QED
        BY <3>2, <4>1
    <3>3. QED
      BY <3>1, <3>2
  <2>3. QED
    BY <2>1, <2>2
<1> HIDE DEF slipped, owed, T
<1>6. ASSUME NEW q \in Reports
      PROVE  /\ sent'[q] \in History
             /\ sent'[q].count = sent[q].count /\ sent'[q].slips = slips2(r, q)
             /\ sent'[q].served = sent[q].served /\ sent'[q].misread = sent[q].misread /\ sent'[q].carried = sent[q].carried
             /\ sent'[q].owed = owed(q)
  <2>1. slips2(r, q) \in [Days -> Nat]
    <3>1. sent[q].slips \in [Days -> Nat]
      BY <1>2, HistoryFields
    <3>2. QED
      BY <1>2, <3>1
  <2> HIDE DEF slips2
  <2>2. sent'[q] = [sent[q] EXCEPT !.slips = slips2(r, q), !.owed = owed(q)]
    BY <1>5
  <2>3. QED
    BY <1>2, <2>1, <2>2 DEF History
<1>7. sent' \in [Reports -> History]
  <2>1. sent' = [q \in Reports |-> sent'[q]]
    BY <1>3
  <2>2. QED
    BY <1>6, <2>1
<1>8. ReportsTyped' /\ LoopShape'
  BY <1>1, <1>7 DEF ReportsInv, ReportsTyped, LoopShape
<1>9. ASSUME NEW q \in Reports
      PROVE  Accounted(q, reports[q].last, sent'[q], loop', Day(hours))
  <2>1. Accounted(q, reports[q].last, sent[q], loop, Day(hours))
    BY BeforeStep
  <2>2. q \notin loop'.due /\ q \notin loop'.now
    BY <1>1
  <2>3. CASE q = r
    <3>1. q \in loop.now /\ q \notin loop.due
      BY <1>3, <2>1, <2>3 DEF Accounted
    <3>2. /\ sent'[q].slips = [sent[q].slips EXCEPT ![Day(hours)] = @ + 1]
          /\ sent'[q].owed = sent[q].owed
      BY <1>6, <2>3, <3>1 DEF slipped, owed, T
    <3>3. sent[q] \in History /\ Day(hours) \in Days
      BY <1>2 DEF T
    <3>4. QED
      BY <1>6, <2>1, <2>2, <3>1, <3>2, <3>3, SlipAccounted
  <2>4. CASE q # r
    <3>1. /\ sent'[q].slips = sent[q].slips
          /\ sent'[q].owed = IF q \in loop.due THEN sent[q].owed \ {loop.day} ELSE sent[q].owed
      BY <1>6, <2>4 DEF owed
    <3>2. q \notin loop.now
      BY <1>4, <2>4
    <3>3. QED
      BY <1>6, <2>1, <2>2, <3>1, <3>2, DropAccounted
  <2>5. QED
    BY <2>3, <2>4
<1>10. QED
  BY <1>1, <1>8, <1>9 DEF ReportsInv, AllAccounted

LEMMA ReportsStep ==
  ASSUME ReportsInv, ReportsNext \/ UNCHANGED reportVars
  PROVE  ReportsInv'
<1>1. CASE UNCHANGED reportVars
  BY <1>1 DEF reportVars, ReportsInv, ReportsTyped, LoopShape, AllAccounted
<1>2. ASSUME NEW r \in Reports, unsubscribe(r) PROVE ReportsInv'
  <2>1. [frequency |-> "daily", day |-> 0, form |-> "plain", hour |-> 0] \in Schedule
    BY ReportAssumption DEF Schedule, Forms
  <2>2. QED
    BY <1>2, <2>1, RequestStep
<1>3. QED
  BY <1>1, <1>2, HourStep, RequestStep, SendStep, SendFailsStep, BeginRunStep, SelectStep,
     RecordStep, RecordFailsStep, RunEndsStep, DiesStep
  DEF ReportsNext

-----------------------------------------------------------------------------
(* The loops together. *)
LoopsInv == BeatsInv /\ ReportsInv /\ WindowsTyped

LEMMA LoopsStart == LoopsInit => LoopsInv
<1> SUFFICES ASSUME LoopsInit PROVE LoopsInv
  OBVIOUS
<1>1. BeatsInv
  BY InitBeats DEF LoopsInit
<1>2. [frequency |-> "daily", day |-> 0, form |-> "plain", hour |-> 0] \in Schedule
  BY ReportAssumption DEF Schedule, Forms
<1>3. ReportsInv
  BY <1>2, ReportsStart DEF LoopsInit
<1>4. WindowsTyped
  BY DEF LoopsInit, WindowsInit, WindowsTyped, None
<1>5. QED
  BY <1>1, <1>3, <1>4 DEF LoopsInv

LEMMA LoopsStep == LoopsInv /\ [LoopsNext]_loopVars => LoopsInv'
<1> SUFFICES ASSUME LoopsInv, [LoopsNext]_loopVars PROVE LoopsInv'
  OBVIOUS
<1>1. /\ Next \/ UNCHANGED vars
      /\ ReportsNext \/ UNCHANGED reportVars
      /\ WindowsNext \/ UNCHANGED windowVars
  BY DEF LoopsNext, Beating, loopVars
<1>2. BeatsInv'
  BY <1>1, QuietStep, LoopStep DEF LoopsInv, Next
<1>3. QED
  BY <1>1, <1>2, ReportsStep, WindowsStep DEF LoopsInv

(* The strengthened invariant of all three loops. *)
THEOREM LoopsInvariant == LoopsSpec => []LoopsInv
BY LoopsStart, LoopsStep, PTL DEF LoopsSpec

(* Misses and recoveries of heartbeats alternate beside the other loops too.    *)
THEOREM LoopsEventsAreFaithful == LoopsSpec => []EventsTellStatus
BY LoopsInvariant, PTL DEF LoopsInv, BeatsInv

(* No report is mailed twice on a day but for a mail that was not recorded; and  *)
(* a day that a schedule names, on which a run has looked in its hour and       *)
(* nothing failed, has its mail when the run has ended, unless the mail of the   *)
(* day before was recorded on it or the day of the schedule is Padded, with a   *)
(* sign or a zero too many.  This holds for any number of reports, any           *)
(* schedules and edits, hours of a day, calendars and failures.                *)
THEOREM ReportsAreOnTime == LoopsSpec => []ReportsOnTime
<1>1. LoopsInv => ReportsOnTime
  <2> SUFFICES ASSUME LoopsInv PROVE ReportsOnTime
    OBVIOUS
  <2>1. ASSUME NEW r \in Reports
        PROVE  /\ \A d \in Days : sent[r].count[d] <= 1 + sent[r].slips[d]
               /\ loop.pc = "wait" => sent[r].owed \subseteq
                    sent[r].served \cup sent[r].carried \cup sent[r].misread
    <3>1. Accounted(r, reports[r].last, sent[r], loop, Day(hours))
      BY DEF LoopsInv, ReportsInv, AllAccounted
    <3>2. loop.pc = "wait" => loop.due = {}
      BY DEF LoopsInv, ReportsInv, LoopShape
    <3>3. QED
      BY <3>1, <3>2 DEF Accounted
  <2>2. QED
    BY <2>1 DEF ReportsOnTime
<1>2. QED
  BY <1>1, LoopsInvariant, PTL

(* An event is kept quiet only if it happened within a window that had begun on  *)
(* one of its days, and let out only if it happened in none, but for windows    *)
(* whose end is their start and windows that could not be read; for any         *)
(* lengths of the day and the week, and any number of windows made and deleted   *)
(* meanwhile.                                                                *)
THEOREM AlertsAreSilenced == LoopsSpec => AlertsSilenced
<1>1. LoopsInv /\ [LoopsNext]_loopVars => [Silenced]_windowVars
  BY SilencedStep DEF LoopsInv, LoopsNext, Beating, loopVars
<1>2. LoopsSpec => [][Silenced]_windowVars
  BY <1>1, LoopsInvariant, PTL DEF LoopsSpec
<1>3. QED
  BY <1>2 DEF Silenced, AlertsSilenced
=============================================================================
