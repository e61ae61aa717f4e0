------------------------------- MODULE SitIn -------------------------------
(***************************************************************************)
(* Prospects sitting in on a live class: the request, its answer, the      *)
(* guest's entry, and the job that puts guests out once their time is up.  *)
(***************************************************************************)
EXTENDS Integers, FiniteSets

CONSTANTS
  Requests,  \* rows of DemoSessionRequest
  Calls,
  Window,    \* maxMinutes
  NoRequest

VARIABLES
  use, now, class, room, \* see LiveClass
  req,    \* the requests
  due,    \* the job's list, not yet worked off
  visit   \* the calls in flight

Op == {"approve", "reject", "cancelRequest", "enter"}
ReqStatus == {"PENDING", "APPROVED", "REJECTED", "CANCELLED"}

(* Columns of time: 0 is null. *)
Request == [st : ReqStatus \cup {"none"}, k : DOMAIN class, online : BOOLEAN,
            joined : Nat, exp : Nat, cut : BOOLEAN]
CallState == [pc : Op \cup {"idle", "admit"}, q : Requests \cup {NoRequest},
              exp : Nat]
Idle == [pc |-> "idle", q |-> NoRequest, exp |-> 0]

TypeOK ==
  /\ req \in [Requests -> Request]
  /\ due \subseteq Requests
  /\ visit \in [Calls -> CallState]

Init ==
  /\ req = [q \in Requests |->
              [st |-> "none", k |-> CHOOSE k \in DOMAIN class : TRUE,
               online |-> FALSE, joined |-> 0, exp |-> 0, cut |-> FALSE]]
  /\ due = {}
  /\ visit = [c \in Calls |-> Idle]

Free(c, op) ==
  /\ op \in use.ops
  /\ c \in use.calls /\ visit[c].pc = "idle"
At(c, pc) == visit[c].pc = pc
Ended(c) == visit' = [visit EXCEPT ![c] = Idle]
Over(k) == class[k].st \in {"COMPLETED", "CANCELLED"}

Create(q, k, online) ==
  /\ "request" \in use.ops /\ req[q].st = "none"
  /\ class[k].st \in {"SCHEDULED", "LIVE"}
  /\ req' = [req EXCEPT ![q].st = "PENDING", ![q].k = k, ![q].online = online]
  /\ UNCHANGED <<now, class, room, due, visit>>

Needs == [approve |-> {"PENDING"}, reject |-> {"PENDING"},
          cancelRequest |-> {"PENDING", "APPROVED"}, enter |-> {"APPROVED"}]

\* Mutant: a guest may enter whatever the time.
InTimeEver(q) == TRUE

(* The guest's window has not run out. *)
InTime(q) == req[q].exp = 0 \/ req[q].exp > now

(* Approving needs the class to be ahead, entering needs it to be live.    *)
ReadRequest(c, q, op) ==
  LET r == req[q] IN
  /\ Free(c, op) /\ r.st \in Needs[op]
  /\ op = "approve" => ~Over(r.k)
  /\ op = "enter" => r.online /\ InTime(q) /\ class[r.k].st = "LIVE"
  /\ visit' = [visit EXCEPT ![c] = [pc |-> op, q |-> q, exp |-> r.exp]]
  /\ UNCHANGED <<now, class, room, req, due>>

Answer(c) ==
  LET q == visit[c].q IN
  /\ \/ At(c, "approve") /\ req' = [req EXCEPT ![q].st = "APPROVED"]
     \/ At(c, "reject") /\ req' = [req EXCEPT ![q].st = "REJECTED"]
  /\ Ended(c)
  /\ UNCHANGED <<now, class, room, due>>

Cancel(c) ==
  LET q == visit[c].q IN
  /\ At(c, "cancelRequest")
  /\ req' = [req EXCEPT ![q].st = "CANCELLED", ![q].exp = now]
  /\ Ended(c)
  /\ UNCHANGED <<now, class, room, due>>

(* Entering: the first entry, as read, sets the clock. *)
StartClock(c) ==
  LET v == visit[c] IN
  /\ At(c, "enter")
  /\ req' = IF v.exp # 0 THEN req
            ELSE [req EXCEPT ![v.q].joined = now, ![v.q].exp = now + Window]
  /\ visit' = [visit EXCEPT ![c].pc = "admit"]
  /\ UNCHANGED <<now, class, room, due>>

(* The token, and with it the guest in the room. *)
Admit(c) ==
  LET q == visit[c].q IN
  /\ At(c, "admit")
  /\ room' = [room EXCEPT ![req[q].k] = @ \cup {q}]
  /\ Ended(c)
  /\ UNCHANGED <<now, class, req, due>>

-----------------------------------------------------------------------------
(* cutExpiredDemoGuests, every minute.                                     *)

\* Mutant: the guests that are not due.
DueEarly(q) == req[q].st = "APPROVED" /\ req[q].exp > now

(* The guests to put out. *)
Due(q) == /\ req[q].st = "APPROVED" /\ req[q].joined # 0 /\ ~req[q].cut
          /\ req[q].exp <= now

ListDue ==
  /\ due = {}
  /\ {q \in Requests : Due(q)} # {}
  /\ due' = {q \in Requests : Due(q)}
  /\ UNCHANGED <<now, class, room, req, visit>>

CutGuest(q) ==
  /\ q \in due
  /\ room' = [room EXCEPT ![req[q].k] = @ \ {q}]
  /\ req' = [req EXCEPT ![q].cut = TRUE]
  /\ due' = due \ {q}
  /\ UNCHANGED <<now, class, visit>>

Proceed(c) == Answer(c) \/ Cancel(c) \/ StartClock(c) \/ Admit(c)

JobStep == ListDue \/ \E q \in Requests : CutGuest(q)

Next ==
  \/ \E c \in Calls :
       Proceed(c) \/ \E q \in Requests, op \in DOMAIN Needs : ReadRequest(c, q, op)
  \/ \E q \in Requests, k \in use.classes, online \in BOOLEAN :
       Create(q, k, online)
  \/ JobStep
=============================================================================
