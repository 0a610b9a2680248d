---------------------------- MODULE ReportMails ----------------------------
(***************************************************************************)
(* reportLoop of the dashboard (backend/cmd/dashboard/feature_handlers.go):  *)
(* every few minutes it lists the reports whose day and hour it is and that  *)
(* have not gone out today, mails them one by one and records each after    *)
(* its mail.  Users edit the schedules meanwhile.  A report is a row that    *)
(* stays: deleting one does what disabling it does.  The day is that of      *)
(* UTC for the database too.  The day of a month is a text: Atoi says whether *)
(* it may be stored, the query compares its first two characters.            *)
(***************************************************************************)
EXTENDS Integers

CONSTANTS
  Reports,      \* rows of notif_reports
  HoursPerDay,  \* 24 in the code
  DaysPerWeek,  \* 7 in the code
  Dates,        \* days of a month that reports name
  DateOf,       \* the date of every day, in months that may be shorter
  MaxHours,     \* bound: the clock
  MaxRequests,  \* bound: requests of users
  MaxSlips      \* bound: mails that go out and are not recorded

ASSUME ReportAssumption ==
  /\ HoursPerDay \in Nat \ {0} /\ DaysPerWeek \in Nat \ {0}
  /\ Dates \subseteq 1..31
  /\ MaxHours \in Nat /\ MaxRequests \in Nat /\ MaxSlips \in Nat
  /\ DateOf \in [0..(MaxHours \div HoursPerDay) -> 1..31]

VARIABLES
  hours,     \* the clock
  reports,   \* [at, enabled, last]: last is last_sent_at, Never for NULL
  loop,      \* reportLoop: [pc, hour, day, due, now]
  sent,      \* [count, slips, served, carried, owed, misread], see below (history)
  requests, slips

reportVars == <<hours, reports, loop, sent, requests, slips>>

Never == -1
Day(t) == t \div HoursPerDay
Hour(t) == t % HoursPerDay
Weekday(t) == Day(t) % DaysPerWeek
Days == 0..Day(MaxHours)

Wait == [pc |-> "wait", hour |-> 0, day |-> 0, due |-> {}, now |-> {}]

-----------------------------------------------------------------------------
(* How a day of the month is written: its digits, a zero before them, or more    *)
(* zeros or a plus sign before them.  Atoi takes them all.                    *)
Forms == {"plain", "zero", "other"}

Schedule ==
  {s \in [frequency : {"daily", "weekly", "monthly"}, day : Dates \cup 0..(DaysPerWeek - 1),
          form : Forms, hour : 0..(HoursPerDay - 1)] :
     \/ s.frequency = "daily" /\ s.day = 0 /\ s.form = "plain"
     \/ s.frequency = "weekly" /\ s.day \in 0..(DaysPerWeek - 1) /\ s.form = "plain"
     \/ s.frequency = "monthly" /\ s.day \in Dates}

(* The date that lpad(day, 2, '0') spells.  A text of more than two characters is  *)
(* cut after the second: "028" is the 2nd, "007" and "+5" are no date.          *)
PaddedDay(s) ==
  CASE s.form = "plain" \/ (s.form = "zero" /\ s.day < 10) -> s.day
    [] s.form = "zero" /\ s.day >= 10 -> s.day \div 10
    [] OTHER -> 0

OnDay(s, t) ==
  \/ s.frequency = "daily"
  \/ s.frequency = "weekly" /\ s.day = Weekday(t)
  \/ s.frequency = "monthly" /\ PaddedDay(s) = DateOf[Day(t)]

(* What a valid schedule says: the number that Atoi has found in its day counts. *)
Names(s, t) ==
  \/ s.frequency = "daily"
  \/ s.frequency = "weekly" /\ s.day = Weekday(t)
  \/ s.frequency = "monthly" /\ s.day = DateOf[Day(t)]

(* A day of the month in more than two characters, or with a sign. *)
Padded(s) == s.form = "other" \/ (s.form = "zero" /\ s.day >= 10)

(* sent: count is the number of mails on a day, slips how many of them were    *)
(* not recorded, served the days for whose listing a mail went out, carried    *)
(* the days on which a mail was recorded that a run of another day had         *)
(* listed, owed the days on which a run looked in the hour of the report, its  *)
(* schedule names the day and nothing failed, misread those of them on which   *)
(* this day was Padded.                                                      *)
ReportsInit(at) ==
  /\ hours = 0 /\ requests = 0 /\ slips = 0
  /\ reports = [r \in Reports |-> [at |-> at, enabled |-> TRUE, last |-> Never]]
  /\ loop = Wait
  /\ sent = [r \in Reports |-> [count |-> [d \in Days |-> 0], slips |-> [d \in Days |-> 0],
                                served |-> {}, carried |-> {}, owed |-> {}, misread |-> {}]]

(* Any valid schedule can come of the one that is stored and the fields sent.  *)
updateReport(r, at, enabled) ==
  /\ requests < MaxRequests /\ requests' = requests + 1
  /\ reports' = [reports EXCEPT ![r].at = at, ![r].enabled = enabled]
  /\ UNCHANGED <<hours, loop, sent, slips>>

unsubscribe(r) ==
  /\ requests < MaxRequests /\ requests' = requests + 1
  /\ reports' = [reports EXCEPT ![r].enabled = FALSE]
  /\ UNCHANGED <<hours, loop, sent, slips>>

(* The hour is taken before the query asks the database for the date. *)
beginRun ==
  /\ loop.pc = "wait"
  /\ loop' = [Wait EXCEPT !.pc = "select", !.hour = Hour(hours)]
  /\ UNCHANGED <<hours, requests, slips, reports, sent>>

(* Mutant: a day must have passed since the last mail. *)
ADayAgo(row) == row.last = Never \/ row.last < hours - HoursPerDay

NotSentToday(row) == row.last = Never \/ Day(row.last) < Day(hours)

selectDue ==
  LET due == {r \in Reports : /\ reports[r].enabled /\ reports[r].at.hour = loop.hour
                              /\ NotSentToday(reports[r]) /\ OnDay(reports[r].at, hours)}
      asked == {r \in Reports : /\ reports[r].enabled /\ reports[r].at.hour = Hour(hours)
                                /\ Hour(hours) = loop.hour /\ Names(reports[r].at, hours)}
      misread == {r \in asked : Padded(reports[r].at)}
  IN /\ loop.pc = "select"
     /\ loop' = [loop EXCEPT !.pc = "send", !.day = Day(hours), !.due = due]
     /\ sent' = [r \in Reports |-> [sent[r] EXCEPT
                   !.owed = IF r \in asked THEN @ \cup {Day(hours)} ELSE @,
                   !.misread = IF r \in misread THEN @ \cup {Day(hours)} ELSE @]]
     /\ UNCHANGED <<hours, requests, slips, reports>>

Mailed(r) ==
  [sent EXCEPT ![r].count[Day(hours)] = @ + 1, ![r].served = @ \cup {loop.day}]

(* The mail is handed to the provider. *)
sendReportEmail(r) ==
  /\ loop.pc = "send" /\ r \in loop.due
  /\ loop' = [loop EXCEPT !.pc = "record", !.due = @ \ {r}, !.now = {r}]
  /\ sent' = Mailed(r)
  /\ UNCHANGED <<hours, requests, slips, reports>>

record ==
  /\ loop.pc = "record"
  /\ \E r \in loop.now :
       /\ reports' = [reports EXCEPT ![r].last = hours]
       /\ sent' = IF loop.day = Day(hours) THEN sent
                  ELSE [sent EXCEPT ![r].carried = @ \cup {Day(hours)}]
  /\ loop' = [loop EXCEPT !.pc = "send", !.now = {}]
  /\ UNCHANGED <<hours, requests, slips>>

endRun ==
  /\ loop.pc = "send" /\ loop.due = {}
  /\ loop' = Wait
  /\ UNCHANGED <<hours, requests, slips, reports, sent>>

Slip(r) ==
  /\ slips < MaxSlips /\ slips' = slips + 1
  /\ sent' = [sent EXCEPT ![r].slips[Day(hours)] = @ + 1]

(* The report cannot be built or mailed; the run goes on with the next one.    *)
sendFails(r) ==
  /\ loop.pc = "send" /\ r \in loop.due
  /\ loop' = [loop EXCEPT !.due = @ \ {r}]
  /\ sent' = [sent EXCEPT ![r].owed = @ \ {loop.day}]
  /\ UNCHANGED <<hours, requests, slips, reports>>

(* The error of the UPDATE is ignored.  A mail whose answer is lost is taken   *)
(* for a failure and is not recorded either.                                 *)
recordFails ==
  /\ loop.pc = "record"
  /\ \E r \in loop.now : Slip(r)
  /\ loop' = [loop EXCEPT !.pc = "send", !.now = {}]
  /\ UNCHANGED <<hours, requests, reports>>

(* The query fails, or the dashboard dies before or between two mails and is   *)
(* started again.                                                            *)
runEnds ==
  /\ loop.pc \in {"select", "send"}
  /\ loop' = Wait
  /\ sent' = [r \in Reports |-> [sent[r] EXCEPT
                !.owed = IF r \in loop.due THEN @ \ {loop.day} ELSE @]]
  /\ UNCHANGED <<hours, requests, slips, reports>>

(* It dies after a mail and before its record. *)
diesAfterMail ==
  /\ loop.pc = "record"
  /\ loop' = Wait
  /\ \E r \in loop.now :
       /\ slips < MaxSlips /\ slips' = slips + 1
       /\ sent' = [q \in Reports |-> [sent[q] EXCEPT
                     !.slips[Day(hours)] = IF q = r THEN @ + 1 ELSE @,
                     !.owed = IF q \in loop.due THEN @ \ {loop.day} ELSE @]]
  /\ UNCHANGED <<hours, requests, reports>>

hourPasses ==
  /\ hours < MaxHours /\ hours' = hours + 1
  /\ UNCHANGED <<requests, slips, reports, loop, sent>>

ReportsNext ==
  \/ hourPasses
  \/ \E r \in Reports, at \in Schedule, on \in BOOLEAN : updateReport(r, at, on)
  \/ \E r \in Reports : unsubscribe(r) \/ sendReportEmail(r) \/ sendFails(r)
  \/ beginRun \/ selectDue \/ record \/ endRun
  \/ recordFails \/ runEnds \/ diesAfterMail

(* No report goes out twice on a day, whatever is edited and retried, unless a *)
(* mail was not recorded; and once a run has looked in its hour on a day that  *)
(* its schedule names and nothing failed, it has gone out for this day, unless *)
(* the day before's was recorded after midnight or its day is Padded.          *)
ReportsOnTime ==
  \A r \in Reports :
    /\ \A d \in Days : sent[r].count[d] <= 1 + sent[r].slips[d]
    /\ loop.pc = "wait" =>
         sent[r].owed \subseteq sent[r].served \cup sent[r].carried \cup sent[r].misread
=============================================================================
