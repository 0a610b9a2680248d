---------------------------- MODULE TrackerQueue ----------------------------
(***************************************************************************)
(* How the tracker (tracker/track.js) gets its payloads to the service: a   *)
(* beacon, or a fetch whose failure puts the payload into a queue in        *)
(* localStorage, which the next page that loads the tracker sends again.    *)
(*                                                                         *)
(* All tabs of a browser share the queue.  A task of a tab, the reading of  *)
(* the queue and the writing of it included, is one step: the event loop    *)
(* does not interrupt it, and localStorage is taken to be one store for     *)
(* all tabs.  An exception inside send() goes the way of a fetch that fails *)
(* before it has left.                                                      *)
(***************************************************************************)
EXTENDS Integers, Sequences

CONSTANTS
  Tabs,      \* tabs of one browser
  MaxViews,  \* bound: pageviews and events in a behaviour
  MaxTries,  \* MAX_TRIES, 5 in the code
  QueueCap   \* the queue keeps the last so many, 20 in the code

ASSUME TrackerAssumption ==
  MaxViews \in Nat /\ MaxTries \in Nat \ {0} /\ QueueCap \in Nat \ {0}

VARIABLES
  opted,    \* _wst_optout is 1
  queue,    \* _wst_queue
  open,     \* the tabs that have loaded the tracker
  flights,  \* requests: [payload, tab, via, at]
  rows,     \* what the service has stored: [view, id]
  made,     \* payloads made so far
  times,    \* how often each was sent (history)
  gone      \* why the tracker has given each up (history)

queueVars == <<opted, queue, open, flights, rows, made, times, gone>>

Views == 1..MaxViews
Payload == [view : Views, id : Nat, tries : 0..MaxTries]

(* via: "fetch" has a promise in its tab; "beacon" and "nobody" (a fetch      *)
(* whose tab is closed) have nobody who learns what became of them.          *)
Flight == [payload : Payload, tab : Tabs, via : {"fetch", "beacon", "nobody"},
           at : {"out", "kept", "refused", "broken"}]

Fly(payload, tab, via) == [payload |-> payload, tab |-> tab, via |-> via, at |-> "out"]

QueueInit ==
  /\ opted = FALSE /\ queue = <<>> /\ open = {} /\ flights = {} /\ rows = {}
  /\ made = 0 /\ times = [v \in Views |-> 0] /\ gone = [v \in Views |-> "no"]

(* Mutant: slice(0, 20). *)
FirstOf(q) == IF Len(q) > QueueCap THEN SubSeq(q, 1, QueueCap) ELSE q

(* slice(-20) *)
LastOf(q) == IF Len(q) > QueueCap THEN SubSeq(q, Len(q) - QueueCap + 1, Len(q)) ELSE q

(* Mutant: the retry gets an id of its own. *)
RetriedAnew(p) == [p EXCEPT !.tries = @ + 1, !.id = @ + MaxViews]

Retried(p) == [p EXCEPT !.tries = @ + 1]

(* _tries > MAX_TRIES, after it was counted up. *)
GivenUp(p) == p.tries >= MaxTries

(* The payload that slice(-20) cuts off, if any. *)
CutOff(q) == IF Len(q) > QueueCap THEN {q[1].view} ELSE {}

enqueue(p) ==
  IF GivenUp(p)
  THEN /\ gone' = [gone EXCEPT ![p.view] = "tries"]
       /\ UNCHANGED queue
  ELSE LET q == Append(queue, Retried(p))
       IN /\ queue' = LastOf(q)
          /\ gone' = [v \in Views |-> IF v \in CutOff(q) THEN "cap" ELSE gone[v]]

(* A page makes a pageview or an event: randomId, then send.  Who has opted  *)
(* out sends nothing.                                                       *)
pageviewOrEvent(t, via) ==
  /\ t \in open /\ made < MaxViews /\ via \in {"fetch", "beacon"}
  /\ made' = made + 1
  /\ IF opted
     THEN gone' = [gone EXCEPT ![made'] = "optout"] /\ UNCHANGED <<flights, times>>
     ELSE /\ flights' = flights \cup
               {Fly([view |-> made', id |-> made', tries |-> 0], t, via)}
          /\ times' = [times EXCEPT ![made'] = 1]
          /\ UNCHANGED gone
  /\ UNCHANGED <<opted, queue, open, rows>>

(* Mutant: the queue is not emptied. *)
NotEmptied(q) == q

(* setItem(QUEUE, '[]') before anything is sent. *)
Emptied(q) == <<>>

Queued == {queue[i] : i \in 1..Len(queue)}

(* A tab loads the tracker: everything queued is sent again, opted out or not *)
(* the queue is emptied.                                                     *)
flushQueue(t, via) ==
  /\ t \notin open
  /\ open' = open \cup {t}
  /\ queue' = Emptied(queue)
  /\ IF opted
     THEN /\ gone' = [v \in Views |-> IF \E p \in Queued : p.view = v THEN "optout" ELSE gone[v]]
          /\ UNCHANGED <<flights, times>>
     ELSE /\ flights' = flights \cup {Fly(p, t, via[p.view]) : p \in Queued}
          /\ times' = [v \in Views |-> IF \E p \in Queued : p.view = v
                                       THEN times[v] + 1 ELSE times[v]]
          /\ UNCHANGED gone
  /\ UNCHANGED <<opted, rows, made>>

(* The tab is closed or goes to another page.  Its requests go on (keepalive). *)
closeTab(t) ==
  /\ t \in open
  /\ open' = open \ {t}
  /\ flights' = {IF f.tab = t /\ f.via = "fetch" THEN [f EXCEPT !.via = "nobody"] ELSE f :
                   f \in flights}
  /\ UNCHANGED <<opted, queue, rows, made, times, gone>>

setOptout(v) ==
  /\ opted' = v
  /\ UNCHANGED <<queue, open, flights, rows, made, times, gone>>

-----------------------------------------------------------------------------
(* The service stores a payload once per id, and answers; or refuses, its     *)
(* buffer full or its database away; or the connection breaks on the way there *)
(* or back.                                                                  *)
Turn(f, at) == flights' = (flights \ {f}) \cup {[f EXCEPT !.at = at]}

store(f) ==
  /\ f.at = "out"
  /\ rows' = rows \cup {[view |-> f.payload.view, id |-> f.payload.id]}
  /\ Turn(f, "kept")
  /\ UNCHANGED <<opted, queue, open, made, times, gone>>

refuse(f) ==
  /\ f.at = "out"
  /\ Turn(f, "refused")
  /\ UNCHANGED <<opted, queue, open, rows, made, times, gone>>

breakConnection(f) ==
  /\ f.at \in {"out", "kept"}
  /\ Turn(f, "broken")
  /\ UNCHANGED <<opted, queue, open, rows, made, times, gone>>

(* then(res): nothing to do when it is ok. *)
answered(f) ==
  /\ f.at = "kept"
  /\ flights' = flights \ {f}
  /\ UNCHANGED <<opted, queue, open, rows, made, times, gone>>

(* then(!res.ok), or the rejected promise; a beacon has neither. *)
failed(f) ==
  /\ f.at \in {"refused", "broken"}
  /\ flights' = flights \ {f}
  /\ IF f.via = "fetch" THEN enqueue(f.payload)
     ELSE gone' = [gone EXCEPT ![f.payload.view] = "unheard"] /\ UNCHANGED queue
  /\ UNCHANGED <<opted, open, rows, made, times>>

QueueNext ==
  \/ \E t \in Tabs, via \in {"fetch", "beacon"} : pageviewOrEvent(t, via)
  \/ \E t \in Tabs, via \in [Views -> {"fetch", "beacon"}] : flushQueue(t, via)
  \/ \E t \in Tabs : closeTab(t)
  \/ \E v \in BOOLEAN : setOptout(v)
  \/ \E f \in flights : store(f) \/ refuse(f) \/ breakConnection(f) \/ answered(f) \/ failed(f)

QueueSpec == QueueInit /\ [][QueueNext]_queueVars

-----------------------------------------------------------------------------
(* The type invariant of the queue, the requests and the history. *)
QueueTypeOK ==
  /\ opted \in BOOLEAN
  /\ queue \in Seq(Payload) /\ Len(queue) <= QueueCap
  /\ open \subseteq Tabs
  /\ flights \subseteq Flight
  /\ rows \subseteq [view : Views, id : Nat]
  /\ made \in 0..MaxViews
  /\ times \in [Views -> Nat]
  /\ gone \in [Views -> {"no", "optout", "cap", "tries", "unheard"}]

(* However often a payload is sent, by whichever tab and with whatever answers *)
(* lost, the service stores one row for it: the retries carry the id that the  *)
(* payload got when it was made.                                              *)
OneRow == \A r, s \in rows : r.view = s.view => r = s

(* A payload is sent at most MAX_TRIES + 1 times, by all tabs together: it is  *)
(* never in the queue and on its way at once, nor twice in either.            *)
SentAtMost == \A v \in Views : times[v] <= MaxTries + 1

Waiting(v) == \E i \in 1..Len(queue) : queue[i].view = v
Flying(v) == \E f \in flights : f.payload.view = v
Stored(v) == \E r \in rows : r.view = v

(* A payload that was made is stored, or waits in the queue, or is on its way, *)
(* or was given up for one of the reasons the code has: the visitor has opted  *)
(* out, the queue was full, it was sent MAX_TRIES + 1 times, or nobody was     *)
(* there to hear that it failed.                                              *)
KeptOrGivenUp ==
  \A v \in 1..made :
    /\ Stored(v) \/ Waiting(v) \/ Flying(v) \/ gone[v] # "no"
    /\ gone[v] = "tries" => times[v] = MaxTries + 1

=============================================================================
