-------------------------------- MODULE Page --------------------------------
(***************************************************************************)
(* What the pages of the dashboard have in common: the handler of a click  *)
(* sends a request with apiFetch (frontend/src/lib/auth.ts), gives the     *)
(* browser back at every await and goes on when the answer is there, while *)
(* handlers of other clicks run in between and the user may reload.        *)
(*                                                                         *)
(* A section is a part of a page whose handlers share state; no handler    *)
(* touches the state of two sections, so a behaviour has one open.  Every  *)
(* section has rows in tables of the dashboard's database, and a copy of   *)
(* them in its React state.  One user edits.  Row ids are never reused.    *)
(***************************************************************************)
EXTENDS Integers, FiniteSets

CONSTANTS
  MaxOpen,   \* bound: handlers under way at once
  MaxMade,   \* bound: rows made in a behaviour
  MaxClicks  \* bound: clicks that send a request, and reloads

ASSUME PageAssumption == MaxOpen \in Nat \ {0} /\ MaxMade \in Nat /\ MaxClicks \in Nat

VARIABLES
  section,  \* the section that is open
  db,       \* its tables: [rows, made, ...]
  ui,       \* its React state: [rows, busy, ...]
  calls,    \* the handlers under way
  hist      \* [lost, raced, clicks]: a connection broke, or handlers that disturb
            \* each other were under way together, since the page was loaded, and
            \* the clicks so far (history)

pageVars == <<section, db, ui, calls, hist>>

Calls == 1..MaxOpen

NoCall == [op |-> "none", stage |-> 0, at |-> "none", arg |-> 0, to |-> FALSE,
           got |-> {}]

Row(kind, id, on) == [kind |-> kind, id |-> id, on |-> on, of |-> 0]
NewId == db.made + 1
WithRow(r) == [db EXCEPT !.rows = @ \cup {r}, !.made = @ + 1]
Without(rows, kind, id) == {r \in rows : r.kind # kind \/ r.id # id}
OfKind(rows, kind) == {r \in rows : r.kind = kind}
Exists(kind, id) == \E r \in db.rows : r.kind = kind /\ r.id = id
SetOn(rows, kind, id, on) ==
  {IF r.kind = kind /\ r.id = id THEN [r EXCEPT !.on = on] ELSE r : r \in rows}

(* The handlers that fetch a list again after they have changed it. *)
Refetching == {"sendInvite", "saveFunnel", "addMonitor", "addHeartbeat",
               "addMaintenance", "loadKeys", "createKey", "testProvider",
               "testRule", "testReport", "clearLogs", "savePublic", "regenPublic",
               "push", "occurrences", "load"}

-----------------------------------------------------------------------------
(* Up to its first await: the request of handler op leaves the browser. *)
Start(op, arg, to, newui, clicks) ==
  /\ \E n \in Calls : calls[n].at = "none"
  /\ hist.clicks + clicks <= MaxClicks
  /\ LET n == CHOOSE i \in Calls : /\ calls[i].at = "none"
                                   /\ \A j \in 1..(i - 1) : calls[j].at # "none"
         open == {i \in Calls : calls[i].at # "none"}
     IN /\ calls' = [calls EXCEPT ![n] = [op |-> op, stage |-> 1, at |-> "sent",
                                          arg |-> arg, to |-> to, got |-> {}]]
        /\ hist' = [hist EXCEPT !.clicks = @ + clicks,
                                !.raced = @ \/ \E i \in open :
                                  \/ {op, calls[i].op} \cap Refetching # {}
                                  \/ arg # 0 /\ calls[i].arg = arg]
  /\ ui' = newui
  /\ UNCHANGED <<section, db>>

SendTo(op, arg, to, newui) == Start(op, arg, to, newui, 1)
Send(op, arg, newui) == Start(op, arg, FALSE, newui, 1)

(* The request of call n is at the server. *)
Asked(n, op, stage) ==
  calls[n].op = op /\ calls[n].stage = stage /\ calls[n].at \in {"sent", "left"}

(* The server has done its work.  The page may be gone, or the answer lost. *)
Reply(n, newdb, got) ==
  /\ db' = newdb
  /\ \/ /\ calls[n].at = "sent"
        /\ calls' = [calls EXCEPT ![n].at = "ok", ![n].got = got]
        /\ UNCHANGED hist
     \/ /\ calls[n].at = "sent"
        /\ calls' = [calls EXCEPT ![n].at = "failed"]
        /\ hist' = [hist EXCEPT !.lost = TRUE]
     \/ /\ calls[n].at = "left"
        /\ calls' = [calls EXCEPT ![n] = NoCall]
        /\ UNCHANGED hist
  /\ UNCHANGED <<section, ui>>

(* A handler of the server between two statements keeps what it knows here. *)
Within(n, got) ==
  /\ calls' = [calls EXCEPT ![n].got = {got}]
  /\ UNCHANGED <<section, ui, hist>>

(* The server refuses: a status that is not 2xx, apiFetch throws. *)
Refuse(n) ==
  /\ calls' = [calls EXCEPT ![n] = IF @.at = "left" THEN NoCall
                                   ELSE [@ EXCEPT !.at = "failed"]]
  /\ UNCHANGED <<section, db, ui, hist>>

(* The request is lost on its way, or the server fails before it has done a *)
(* thing.                                                                   *)
Lose(n) ==
  /\ calls[n].at \in {"sent", "left"}
  /\ calls' = [calls EXCEPT ![n] = IF @.at = "left" THEN NoCall
                                   ELSE [@ EXCEPT !.at = "failed"]]
  /\ hist' = [hist EXCEPT !.lost = TRUE]
  /\ UNCHANGED <<section, db, ui>>

Answered(n, op, stage) ==
  calls[n].op = op /\ calls[n].stage = stage /\ calls[n].at = "ok"

Thrown(n, op) == calls[n].op = op /\ calls[n].at = "failed"

(* Behind an await: the handler goes on to its next request, or ends. *)
Await(n, newui) ==
  /\ calls' = [calls EXCEPT ![n].stage = @ + 1, ![n].at = "sent", ![n].got = {}]
  /\ ui' = newui
  /\ UNCHANGED <<section, db, hist>>

Finish(n, newui) ==
  /\ calls' = [calls EXCEPT ![n] = NoCall]
  /\ ui' = newui
  /\ UNCHANGED <<section, db, hist>>

(* Two shapes that many handlers have: ask, fetch the list again, show it;   *)
(* and delete one row, drop it from the list.                               *)
ThenShowList(n, op) ==
  \/ Answered(n, op, 1) /\ Await(n, ui)
  \/ Answered(n, op, 2) /\ Finish(n, [ui EXCEPT !.rows = calls[n].got])
  \/ Thrown(n, op) /\ Finish(n, ui)

ThenDropRow(n, op, kind) ==
  \/ /\ Answered(n, op, 1)
     /\ Finish(n, [ui EXCEPT !.rows = Without(@, kind, calls[n].arg)])
  \/ Thrown(n, op) /\ Finish(n, ui)

(* And what the server does for them. *)
Insert(n, op, kind) ==
  LET r == Row(kind, NewId, TRUE)
  IN Asked(n, op, 1) /\ (Reply(n, WithRow(r), {r}) \/ Refuse(n))

List(n, op, rows) == Asked(n, op, 2) /\ Reply(n, db, rows)

Delete(n, op, kind) ==
  /\ Asked(n, op, 1)
  /\ IF Exists(kind, calls[n].arg)
     THEN Reply(n, [db EXCEPT !.rows = Without(@, kind, calls[n].arg)], {})
     ELSE Refuse(n)

Update(n, op, kind) ==
  /\ Asked(n, op, 1)
  /\ IF Exists(kind, calls[n].arg)
     THEN Reply(n, [db EXCEPT !.rows = SetOn(@, kind, calls[n].arg, calls[n].to)], {})
     ELSE Refuse(n)

(* The page is loaded anew.  Requests that have left the browser may still  *)
(* be served, for nobody.                                                   *)
Load(newui, lost) ==
  /\ ui' = newui
  /\ calls' = [n \in Calls |-> IF calls[n].at \in {"sent", "left"}
                               THEN [calls[n] EXCEPT !.at = "left"] ELSE NoCall]
  /\ hist.clicks < MaxClicks
  /\ hist' = [hist EXCEPT !.clicks = @ + 1, !.lost = lost,
              !.raced = \E n \in Calls : calls[n].at \in {"sent", "left"}]
  /\ UNCHANGED <<section, db>>

Open(s, newdb, newui) ==
  /\ section = s /\ db = newdb /\ ui = newui
  /\ calls = [n \in Calls |-> NoCall]
  /\ hist = [lost |-> FALSE, raced |-> FALSE, clicks |-> 0]

Quiet == \A n \in Calls : calls[n].at = "none"
Undisturbed == Quiet /\ ~hist.lost /\ ~hist.raced

=============================================================================
