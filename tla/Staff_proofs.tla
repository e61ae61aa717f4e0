---------------------------- MODULE Staff_proofs ----------------------------
(***************************************************************************)
(* Proofs about the leave and the attendance of module Staff and the way   *)
(* out of module Exit, for any requests, days off, sessions, resignations  *)
(* and calls in flight: balances are those of the requests, the day's      *)
(* hours those of its sessions, and nobody leaves by an exit before both   *)
(* sides signed one clearance.                                             *)
(***************************************************************************)
EXTENDS Staff, FiniteSetTheorems, WellFoundedInduction, TLAPS

(* What a call of the leave endpoints carries at each of its statements.   *)
TakingShape(v) ==
  /\ v.op = "none" <=> v.pc = "idle"
  /\ v.op \notin {"setStatus", "switchType"}
  /\ v.op = "apply" =>
       /\ v.pc \in {"create", "reserve"} /\ v.r \in Reqs
       /\ v.type \in Leaves!Types /\ v.days \in Sizes
  /\ v.op \in {"approve", "reject"} =>
       /\ v.pc \in {"write", "move"} /\ v.r \in Reqs
       /\ v.type \in Leaves!Types /\ v.days \in Sizes
  /\ v.op \in {"accrueMonthly", "confirm"} =>
       v.pc \in {"activate", "balance", "increment", "insert"} /\ v.type = "CASUAL"
  /\ v.op = "submitCompOff" =>
       v.pc = "submit" /\ v.r \in CompReqs /\ v.date \in Dates
  /\ v.op = "approveCompOff" =>
       /\ v.pc \in {"stamp", "credit", "balance", "increment", "insert"}
       /\ v.r \in CompReqs /\ v.date \in Dates /\ v.type = "COMPENSATORY"
  /\ v.op = "rejectCompOff" => v.pc = "stamp" /\ v.r \in CompReqs

TakingInv ==
  \A c \in Calls :
    TakingShape(taking[c]) /\ (taking[c].pc # "idle" => c \in duty.calls)

Applies(c) == taking[c].op = "apply"
Answers(c) == taking[c].op \in {"approve", "reject"}

(* What was asked for stands and has a balance; a call that applies or     *)
(* answers still knows what the request says, and only one call applies.   *)
RequestInv ==
  /\ \A t \in Leaves!Types :
       ~bal[t].has => bal[t].total = 0 /\ bal[t].used = 0 /\ bal[t].pending = 0
  /\ \A r \in Reqs : req[r].st # "none" =>
       /\ req[r].type \in Leaves!Types /\ req[r].days \in Sizes
       /\ req[r].type = "CASUAL" => bal["CASUAL"].has
  /\ \A c \in Calls :
       /\ taking[c].pc = "create" =>
            /\ req[taking[c].r].st = "none"
            /\ taking[c].type = "CASUAL" => bal["CASUAL"].has
       /\ taking[c].pc = "reserve" \/ Answers(c) =>
            /\ req[taking[c].r].st # "none"
            /\ req[taking[c].r].type = taking[c].type
            /\ req[taking[c].r].days = taking[c].days
       /\ taking[c].pc = "reserve" => taking[c].type = "CASUAL"
       /\ taking[c].pc = "move" => taking[c].type # "LOSS_OF_PAY"
  /\ \A c, d \in Calls :
       Applies(c) /\ Applies(d) /\ taking[c].r = taking[d].r => c = d

(* A row that was found to be there still is. *)
FoundInv == \A c \in Calls : taking[c].pc = "increment" => bal[taking[c].type].has

(* Each request is answered by one call at a time, and once. *)
OneAnswer == duty.oneAnswer /\ Offered \subseteq {"PENDING"}

AnswerInv == OneAnswer =>
  /\ \A c, d \in Calls : Answers(c) /\ Answers(d) /\ taking[c].r = taking[d].r => c = d
  /\ \A c \in Calls :
       /\ taking[c].pc = "write" => req[taking[c].r].st = "PENDING"
       /\ taking[c].pc = "move" => req[taking[c].r].st = Leaves!Answer(taking[c].op)

DaysIn(q, R) == Leaves!Net(R, [r \in Reqs |-> q[r].days])
Casual(R) == {r \in R : req[r].type = "CASUAL"}

(* The requests whose days the balance does not hold yet, and those whose  *)
(* days it still holds, or not yet as used.                                *)
Unreserved == {r \in Reqs : \E c \in Calls : taking[c].pc = "reserve" /\ taking[c].r = r}
Moving == Casual({r \in Reqs : \E c \in Calls : taking[c].pc = "move" /\ taking[c].r = r})
Waiting == Casual({r \in Reqs : req[r].st = "PENDING"})
Granted == Casual({r \in Reqs : req[r].st = "APPROVED"})

(* The casual balance, but for the moves still to be made. *)
BalanceInv == OneAnswer =>
  /\ bal["CASUAL"].pending + DaysIn(req, Unreserved) = DaysIn(req, Waiting \cup Moving)
  /\ bal["CASUAL"].used + DaysIn(req, Moving \cap Granted) = DaysIn(req, Granted)

(* A call alone finds at its writes the balance its check has seen. *)
RoomInv == Leaves!Serial =>
  \A c \in Calls : Applies(c) /\ taking[c].type = "CASUAL" =>
    LET b == bal["CASUAL"] IN
    b.has /\ taking[c].days <= b.total - b.used - b.pending

CreditInv == Leaves!CreditsInBalance

Standing(k) == comp[k].st \in {"PENDING", "APPROVED"}
Crediting(c) == /\ taking[c].op = "approveCompOff"
                /\ taking[c].pc \in {"credit", "balance", "increment", "insert"}
(* Granted requests whose day is in the balance. *)
Credited == {k \in CompReqs : /\ comp[k].st = "APPROVED"
                              /\ \A c \in Calls : Crediting(c) => taking[c].r # k}

(* By one call at a time, a day off has one standing request, and is       *)
(* credited once that is approved and its call is through.                 *)
CompInv ==
  /\ \A k \in CompReqs : comp[k].st # "none" => comp[k].date \in Dates
  /\ \A c \in Calls : taking[c].pc = "stamp" => comp[taking[c].r].st # "none"
  /\ Leaves!Serial =>
       /\ \A j, k \in CompReqs :
            Standing(j) /\ Standing(k) /\ comp[j].date = comp[k].date => j = k
       /\ \A c \in Calls :
            /\ taking[c].pc = "submit" =>
                 comp[taking[c].r].st = "none" /\ ~Leaves!AskedFor(taking[c].date)
            /\ taking[c].pc = "stamp" => comp[taking[c].r].st = "PENDING"
            /\ Crediting(c) => comp[taking[c].r].st = "APPROVED"
            /\ taking[c].op = "approveCompOff" => comp[taking[c].r].date = taking[c].date
            /\ taking[c].pc = "insert" => ~bal[taking[c].type].has
  /\ "COMPENSATORY" \in duty.types /\ "switchType" \notin duty.ops => compType
  /\ Leaves!Serial /\ "COMPENSATORY" \in duty.types /\ "switchType" \notin duty.ops =>
       \A d \in Dates :
         credited[d] = IF \E k \in Credited : comp[k].date = d THEN 1 ELSE 0

LeaveInv ==
  /\ duty \in Duties /\ Leaves!TypeOK
  /\ TakingInv /\ RequestInv /\ FoundInv /\ AnswerInv /\ BalanceInv /\ RoomInv
  /\ CreditInv /\ CompInv

-----------------------------------------------------------------------------
(* Sums.                                                                   *)

Units(S, n) == UNION {{x} \X (1 .. n[x]) : x \in S}

LEMMA SameCardinality == \A S : Leaves!Cardinality(S) = Cardinality(S)
BY Zenon DEF Leaves!Cardinality, Cardinality

LEMMA AmountOfUnits ==
  ASSUME NEW S, NEW n
  PROVE  Leaves!Amount(S, n) = Cardinality(Units(S, n))
BY SameCardinality, Zenon DEF Units, Leaves!Amount

LEMMA UnitsFinite ==
  ASSUME NEW S, IsFiniteSet(S), NEW n, \A x \in S : n[x] \in Int
  PROVE  IsFiniteSet(Units(S, n)) /\ Leaves!Amount(S, n) \in Nat
<1> DEFINE row == [x \in S |-> {x} \X (1 .. n[x])]
           T == {{x} \X (1 .. n[x]) : x \in S}
<1>1. row \in Surjection(S, T)
  BY DEF Surjection
<1>2. IsFiniteSet(T)
  BY <1>1, FS_Surjection
<1>3. \A x \in S : IsFiniteSet({x} \X (1 .. n[x]))
  <2> TAKE x \in S
  <2>1. IsFiniteSet({x})
    BY FS_Singleton
  <2>2. n[x] \in Int
    OBVIOUS
  <2>3. IsFiniteSet(1 .. n[x])
    BY <2>2, FS_Interval
  <2>4. QED
    BY <2>1, <2>3, FS_Product
<1>4. IsFiniteSet(Units(S, n))
  BY <1>2, <1>3, FS_UNION DEF Units
<1>5. QED
  BY <1>4, FS_CardinalityType, AmountOfUnits

LEMMA AmountGains ==
  ASSUME NEW S, IsFiniteSet(S), NEW n, \A x \in S : n[x] \in Int,
         NEW y, y \notin S, n[y] \in Int
  PROVE  Leaves!Amount(S \cup {y}, n)
           = Leaves!Amount(S, n) + (IF n[y] > 0 THEN n[y] ELSE 0)
<1> DEFINE one == {y}
           all == 1 .. n[y]
           new == one \X all
           gain == IF n[y] > 0 THEN n[y] ELSE 0
<1>1. Units(S \cup {y}, n) = Units(S, n) \cup new
  BY DEF Units
<1>2. Units(S, n) \cap new = {}
  BY DEF Units
<1>3. IsFiniteSet(one) /\ Cardinality(one) = 1
  BY FS_Singleton
<1>4. IsFiniteSet(all) /\ Cardinality(all) = gain /\ gain \in Nat
  <2>1. /\ IsFiniteSet(1 .. n[y])
        /\ Cardinality(1 .. n[y]) = IF 1 > n[y] THEN 0 ELSE n[y] - 1 + 1
    BY FS_Interval
  <2>2. (IF 1 > n[y] THEN 0 ELSE n[y] - 1 + 1) = gain /\ gain \in Nat
    OBVIOUS
  <2>3. QED
    BY <2>1, <2>2
<1> HIDE DEF one, all, gain
<1>5. IsFiniteSet(new) /\ Cardinality(new) = gain
  BY <1>3, <1>4, FS_Product
<1>6. IsFiniteSet(Units(S, n)) /\ Cardinality(Units(S, n)) \in Nat
  BY UnitsFinite, FS_CardinalityType
<1>7. Cardinality({}) = 0
  BY FS_EmptySet
<1> HIDE DEF new
<1>8. Cardinality(Units(S, n) \cup new) = Cardinality(Units(S, n)) + gain
  <2>1. Cardinality(Units(S, n) \cup new)
          = Cardinality(Units(S, n)) + Cardinality(new) - Cardinality(Units(S, n) \cap new)
    BY <1>5, <1>6, FS_Union
  <2>2. Cardinality(Units(S, n) \cap new) = 0
    BY <1>2, <1>7
  <2>3. gain \in Int /\ Cardinality(Units(S, n)) \in Int
    BY <1>4, <1>6
  <2>4. QED
    BY <2>1, <2>2, <2>3, <1>5
<1>9. QED
  BY <1>1, <1>8, AmountOfUnits DEF gain

LEMMA AmountAdd ==
  ASSUME NEW S, IsFiniteSet(S), NEW n, \A x \in S : n[x] \in Nat,
         NEW y, y \notin S, n[y] \in Nat
  PROVE  Leaves!Amount(S \cup {y}, n) = Leaves!Amount(S, n) + n[y]
BY AmountGains

LEMMA AmountSame ==
  ASSUME NEW S, NEW n, NEW m, \A x \in S : n[x] = m[x]
  PROVE  Leaves!Amount(S, n) = Leaves!Amount(S, m)
<1>1. {{x} \X (1 .. n[x]) : x \in S} = {{x} \X (1 .. m[x]) : x \in S}
  OBVIOUS
<1>2. QED
  BY <1>1, AmountOfUnits DEF Units

LEMMA AmountRemove ==
  ASSUME NEW S, IsFiniteSet(S), NEW n, \A x \in S : n[x] \in Nat, NEW y \in S
  PROVE  Leaves!Amount(S, n) = Leaves!Amount(S \ {y}, n) + n[y]
<1>1. IsFiniteSet(S \ {y}) /\ S = (S \ {y}) \cup {y}
  BY FS_RemoveElement
<1>2. QED
  BY <1>1, AmountAdd

LEMMA AmountRaised ==
  ASSUME NEW S, IsFiniteSet(S), NEW n \in [S -> Nat], NEW y \in S
  PROVE  Leaves!Amount(S, [n EXCEPT ![y] = @ + 1]) = Leaves!Amount(S, n) + 1
<1> DEFINE m == [n EXCEPT ![y] = @ + 1]
<1>1. m \in [S -> Nat] /\ m[y] = n[y] + 1
  OBVIOUS
<1>2. Leaves!Amount(S \ {y}, m) = Leaves!Amount(S \ {y}, n)
  BY AmountSame
<1>3. IsFiniteSet(S \ {y})
  BY FS_RemoveElement
<1>4. Leaves!Amount(S \ {y}, n) \in Nat
  BY <1>3, UnitsFinite
<1>5. Leaves!Amount(S, n) = Leaves!Amount(S \ {y}, n) + n[y]
  BY AmountRemove
<1> HIDE DEF m
<1>6. Leaves!Amount(S, m) = Leaves!Amount(S \ {y}, m) + m[y]
  BY <1>1, AmountRemove
<1>7. QED
  BY <1>1, <1>2, <1>4, <1>5, <1>6 DEF m

-----------------------------------------------------------------------------
(* The leave: types, and what calls carry.                                 *)

LEMMA DutyTyped ==
  ASSUME duty \in Duties
  PROVE  /\ duty.types \subseteq Leaves!Types /\ duty.sizes \subseteq Sizes
         /\ duty.calls \subseteq Calls /\ Sizes \subseteq Int
         /\ Yearly \in Nat /\ MaxTotal \in Nat
BY DutiesShape, Bounds

LEMMA LeaveIdle == Leaves!Idle \in Leaves!CallState /\ TakingShape(Leaves!Idle)
BY DEF Leaves!Idle, Leaves!CallState, TakingShape

(* One call goes on to its next statement. *)
LEMMA TakingMoves ==
  ASSUME taking \in [Calls -> Leaves!CallState], TakingInv, duty' = duty,
         NEW c \in Calls, NEW v \in Leaves!CallState, TakingShape(v),
         v.pc # "idle" => c \in duty.calls,
         taking' = [taking EXCEPT ![c] = v]
  PROVE  taking' \in [Calls -> Leaves!CallState] /\ TakingInv'
<1>1. taking' \in [Calls -> Leaves!CallState]
  OBVIOUS
<1>2. \A k \in Calls : taking'[k] = IF k = c THEN v ELSE taking[k]
  OBVIOUS
<1>3. TakingInv'
  BY <1>2 DEF TakingInv, TakingShape
<1>4. QED
  BY <1>1, <1>3

(* The statements that only move a call on. *)
LEMMA GoesTyped ==
  ASSUME Leaves!TypeOK, TakingInv, duty' = duty, NEW c \in Calls,
         NEW pc, [taking[c] EXCEPT !.pc = pc] \in Leaves!CallState,
         TakingShape([taking[c] EXCEPT !.pc = pc]), taking[c].pc # "idle",
         Leaves!Goes(c, pc)
  PROVE  taking' \in [Calls -> Leaves!CallState] /\ TakingInv'
<1> DEFINE v == [taking[c] EXCEPT !.pc = pc]
<1>1. taking' = [taking EXCEPT ![c] = v]
  BY DEF Leaves!Goes, Leaves!TypeOK
<1>2. c \in duty.calls
  BY DEF TakingInv
<1>3. taking \in [Calls -> Leaves!CallState]
  BY DEF Leaves!TypeOK
<1> HIDE DEF v
<1>4. QED
  BY <1>1, <1>2, <1>3, TakingMoves DEF v

LEMMA EndedTyped ==
  ASSUME Leaves!TypeOK, TakingInv, duty' = duty, NEW c \in Calls, Leaves!Ended(c)
  PROVE  taking' \in [Calls -> Leaves!CallState] /\ TakingInv'
<1>1. Leaves!Idle.pc = "idle"
  BY DEF Leaves!Idle
<1>2. QED
  BY <1>1, LeaveIdle, TakingMoves DEF Leaves!Ended, Leaves!TypeOK

LEMMA RowTyped ==
  ASSUME NEW b \in Leaves!LeaveBalance
  PROVE  /\ \A n \in Int : [b EXCEPT !.pending = n] \in Leaves!LeaveBalance
         /\ \A n, u \in Int :
              [b EXCEPT !.pending = n, !.used = u] \in Leaves!LeaveBalance
<1>1. ASSUME NEW n \in Int
      PROVE  [b EXCEPT !.pending = n] \in Leaves!LeaveBalance
  BY DEF Leaves!LeaveBalance
<1>2. ASSUME NEW n \in Int, NEW u \in Int
      PROVE  [b EXCEPT !.pending = n, !.used = u] \in Leaves!LeaveBalance
  BY DEF Leaves!LeaveBalance
<1>3. QED
  BY <1>1, <1>2

LEMMA RowFields ==
  ASSUME NEW b \in Leaves!LeaveBalance
  PROVE  b.pending \in Int /\ b.used \in Int /\ b.total \in Nat /\ b.has \in BOOLEAN
BY DEF Leaves!LeaveBalance

(* Each step of the leave keeps the types. *)
LEMMA LeaveTyped ==
  ASSUME duty \in Duties, duty' = duty, Leaves!TypeOK, TakingInv, RequestInv,
         CompInv, Leaves!Next
  PROVE  Leaves!TypeOK' /\ TakingInv'
<1> DEFINE Tables == /\ standing' \in Leaves!EmployeeStatus
                    /\ bal' \in [Leaves!Types -> Leaves!LeaveBalance]
                    /\ req' \in [Reqs -> Leaves!LeaveRequest]
                    /\ comp' \in [CompReqs -> Leaves!CompOffRequest]
                    /\ compType' \in BOOLEAN
                    /\ credited' \in [Dates -> Nat]
           Calling == taking' \in [Calls -> Leaves!CallState] /\ TakingInv'
<1>1. PICK c \in Calls :
        \/ \E r \in Reqs, t \in duty.types, d \in duty.sizes : Leaves!CheckBalance(c, r, t, d)
        \/ Leaves!CreateRequest(c) \/ Leaves!ReservePending(c)
        \/ \E op \in {"approve", "reject"} :
             \/ \E r \in Reqs : Leaves!ReadRequest(c, op, r)
             \/ Leaves!WriteStatus(c, op) \/ Leaves!MoveBalance(c, op)
        \/ Leaves!Accrue(c) \/ Leaves!ReadBalance(c) \/ Leaves!IncrementTotal(c)
        \/ Leaves!InsertBalance(c) \/ Leaves!InsertRefused(c)
        \/ Leaves!ReadEmployee(c) \/ Leaves!Confirm(c) \/ Leaves!SetStatus(c)
        \/ Leaves!SwitchCompType(c)
        \/ \E k \in CompReqs, d \in Dates : Leaves!StartSubmit(c, k, d)
        \/ Leaves!Submit(c) \/ Leaves!FindCompType(c)
        \/ \E op \in {"approveCompOff", "rejectCompOff"} :
             \/ \E k \in CompReqs : Leaves!ReadCompOff(c, op, k)
             \/ Leaves!StampCompOff(c, op)
  BY DEF Leaves!Next
<1>2. /\ taking[c] \in Leaves!CallState /\ TakingShape(taking[c])
      /\ taking[c].pc # "idle" => c \in duty.calls
  BY DEF Leaves!TypeOK, TakingInv
<1>3. Tables /\ Calling => Leaves!TypeOK' /\ TakingInv'
  BY DEF Leaves!TypeOK
<1>4. UNCHANGED <<standing, bal, req, comp, compType, credited>> => Tables
  BY DEF Leaves!TypeOK
<1>5. UNCHANGED taking => Calling
  BY DEF Leaves!TypeOK, TakingInv
<1>6. \A v \in Leaves!CallState :
        /\ TakingShape(v) /\ (v.pc # "idle" => c \in duty.calls)
        /\ taking' = [taking EXCEPT ![c] = v]
        => Calling
  BY TakingMoves DEF Leaves!TypeOK
<1> HIDE DEF Calling
<1>7. ASSUME NEW r \in Reqs, NEW t \in duty.types, NEW d \in duty.sizes,
             Leaves!CheckBalance(c, r, t, d)
      PROVE  Leaves!TypeOK' /\ TakingInv'
  <2> DEFINE v == [Leaves!Idle EXCEPT !.pc = "create", !.op = "apply",
                                      !.r = r, !.type = t, !.days = d]
  <2>1. v \in Leaves!CallState /\ TakingShape(v)
    BY <1>7, DutyTyped DEF Leaves!Idle, Leaves!CallState, TakingShape, Leaves!Op
  <2>2. c \in duty.calls /\ taking' = [taking EXCEPT ![c] = v]
    BY <1>7 DEF Leaves!CheckBalance, Leaves!Free
  <2>3. Tables
    BY <1>7, <1>4 DEF Leaves!CheckBalance
  <2> HIDE DEF v, Tables
  <2>4. QED
    BY <2>1, <2>2, <2>3, <1>3, <1>6
<1>8. CASE Leaves!CreateRequest(c)
  <2>1. taking[c].op = "apply" /\ taking[c].pc = "create"
    BY <1>8 DEF Leaves!CreateRequest, Leaves!At
  <2>2. [st |-> "PENDING", type |-> taking[c].type, days |-> taking[c].days]
          \in Leaves!LeaveRequest
    BY <1>2, <2>1 DEF Leaves!LeaveRequest, Leaves!CallState
  <2>3. Tables
    BY <1>8, <2>2 DEF Leaves!TypeOK, Leaves!CreateRequest
  <2>4. Calling
    <3>1. CASE Leaves!Ended(c)
      BY <3>1, EndedTyped DEF Calling
    <3>2. CASE taking[c].type = "CASUAL" /\ Leaves!Goes(c, "reserve")
      <4>1. /\ [taking[c] EXCEPT !.pc = "reserve"] \in Leaves!CallState
            /\ TakingShape([taking[c] EXCEPT !.pc = "reserve"])
        BY <1>2, <2>1 DEF Leaves!CallState, TakingShape
      <4>2. QED
        BY <3>2, <4>1, <2>1, GoesTyped DEF Calling
    <3>3. QED
      BY <1>8, <3>1, <3>2 DEF Leaves!CreateRequest
  <2>5. QED
    BY <2>3, <2>4, <1>3
<1>9. CASE Leaves!ReservePending(c)
  <2>1. taking[c].days \in Int
    BY <1>2, DutyTyped DEF Leaves!CallState
  <2>2. bal' \in [Leaves!Types -> Leaves!LeaveBalance]
    <3> DEFINE t == taking[c].type
               n == bal[t].pending + taking[c].days
               b == [bal[t] EXCEPT !.pending = n]
    <3>1. t \in Leaves!Types
      BY <1>9, <1>2 DEF Leaves!ReservePending, Leaves!At, TakingShape
    <3>2. bal[t] \in Leaves!LeaveBalance
      BY <3>1 DEF Leaves!TypeOK
    <3>3. n \in Int
      BY <3>2, <2>1, RowFields
    <3>4. bal' = [bal EXCEPT ![t] = b]
      BY <1>9, <3>1 DEF Leaves!ReservePending, Leaves!TypeOK
    <3> HIDE DEF t, n
    <3>5. b \in Leaves!LeaveBalance
      BY <3>2, <3>3, RowTyped, Zenon
    <3> HIDE DEF b
    <3>6. QED
      BY <3>4, <3>5 DEF Leaves!TypeOK
  <2>3. Tables
    BY <1>9, <2>2 DEF Leaves!ReservePending, Leaves!TypeOK
  <2>4. Calling
    BY <1>9, EndedTyped DEF Leaves!ReservePending, Calling
  <2>5. QED
    BY <2>3, <2>4, <1>3
<1>10. ASSUME NEW op \in {"approve", "reject"}, NEW r \in Reqs,
              Leaves!ReadRequest(c, op, r)
       PROVE  Leaves!TypeOK' /\ TakingInv'
  <2> DEFINE v == [Leaves!Idle EXCEPT !.pc = "write", !.op = op, !.r = r,
                                      !.type = req[r].type, !.days = req[r].days]
  <2>1. req[r].st # "none"
    BY <1>10, Bounds DEF Leaves!ReadRequest
  <2>2. req[r].type \in Leaves!Types /\ req[r].days \in Sizes
    BY <2>1 DEF RequestInv
  <2>3. v \in Leaves!CallState /\ TakingShape(v)
    BY <2>2 DEF Leaves!Idle, Leaves!CallState, TakingShape, Leaves!Op
  <2>4. c \in duty.calls /\ taking' = [taking EXCEPT ![c] = v]
    BY <1>10 DEF Leaves!ReadRequest, Leaves!Free
  <2>5. Tables
    BY <1>10, <1>4 DEF Leaves!ReadRequest
  <2> HIDE DEF v, Tables
  <2>6. QED
    BY <2>3, <2>4, <2>5, <1>3, <1>6
<1>11. ASSUME NEW op \in {"approve", "reject"}, Leaves!WriteStatus(c, op)
       PROVE  Leaves!TypeOK' /\ TakingInv'
  <2>1. taking[c].op = op /\ taking[c].pc = "write" /\ Leaves!Answer(op) \in Leaves!Answered
    BY <1>11 DEF Leaves!WriteStatus, Leaves!At, Leaves!Answer, Leaves!Answered
  <2>2. Tables
    BY <1>11, <2>1 DEF Leaves!TypeOK, Leaves!WriteStatus, Leaves!LeaveRequest
  <2>3. CASE Leaves!Ended(c)
    BY <2>2, <2>3, <1>3, EndedTyped DEF Calling
  <2>4. CASE Leaves!Goes(c, "move")
    <3>1. /\ [taking[c] EXCEPT !.pc = "move"] \in Leaves!CallState
          /\ TakingShape([taking[c] EXCEPT !.pc = "move"])
      BY <1>2, <2>1 DEF Leaves!CallState, TakingShape
    <3>2. QED
      BY <2>1, <2>2, <2>4, <3>1, <1>3, GoesTyped DEF Calling
  <2>5. QED
    BY <1>11, <2>3, <2>4 DEF Leaves!WriteStatus
<1>12. ASSUME NEW op \in {"approve", "reject"}, Leaves!MoveBalance(c, op)
       PROVE  Leaves!TypeOK' /\ TakingInv'
  <2>1. taking[c].days \in Int
    BY <1>2, DutyTyped DEF Leaves!CallState
  <2>2. \A b \in Leaves!LeaveBalance :
          Leaves!Moved(b, op, taking[c].days) \in Leaves!LeaveBalance
    <3> TAKE b \in Leaves!LeaveBalance
    <3> DEFINE n == b.pending - taking[c].days
               u == b.used + (IF op = "approve" THEN taking[c].days ELSE 0)
    <3>1. n \in Int
      BY <2>1, RowFields
    <3>2. u \in Int
      BY <2>1, RowFields
    <3>3. Leaves!Moved(b, op, taking[c].days) = [b EXCEPT !.pending = n, !.used = u]
      BY DEF Leaves!Moved
    <3> HIDE DEF n, u
    <3>4. [b EXCEPT !.pending = n, !.used = u] \in Leaves!LeaveBalance
      BY <3>1, <3>2, RowTyped, Zenon
    <3>5. QED
      BY <3>3, <3>4, Zenon
  <2>3. bal' \in [Leaves!Types -> Leaves!LeaveBalance]
    BY <1>12, <2>2 DEF Leaves!MoveBalance, Leaves!TypeOK
  <2>4. Tables
    BY <1>12, <2>3 DEF Leaves!MoveBalance, Leaves!TypeOK
  <2>5. QED
    BY <1>12, <2>4, <1>3, EndedTyped DEF Leaves!MoveBalance, Calling
<1>13. CASE Leaves!Accrue(c)
  <2> DEFINE v == [Leaves!Idle EXCEPT !.pc = "balance", !.op = "accrueMonthly",
                                      !.type = "CASUAL"]
  <2>1. v \in Leaves!CallState /\ TakingShape(v)
    BY DEF Leaves!Idle, Leaves!CallState, TakingShape, Leaves!Op, Leaves!Types
  <2>2. c \in duty.calls
    BY <1>13 DEF Leaves!Accrue, Leaves!Free
  <2>3. Tables
    BY <1>13 DEF Leaves!Accrue, Leaves!TypeOK, Leaves!EmployeeStatus
  <2>4. UNCHANGED taking \/ taking' = [taking EXCEPT ![c] = v]
    BY <1>13 DEF Leaves!Accrue
  <2> HIDE DEF v, Tables
  <2>5. QED
    BY <2>1, <2>2, <2>3, <2>4, <1>3, <1>5, <1>6
<1>14. CASE Leaves!ReadBalance(c)
  <2>1. taking[c].pc = "balance"
    BY <1>14 DEF Leaves!ReadBalance
  <2>2. \A pc \in {"increment", "insert"} :
          /\ [taking[c] EXCEPT !.pc = pc] \in Leaves!CallState
          /\ TakingShape([taking[c] EXCEPT !.pc = pc])
    BY <1>2, <2>1 DEF Leaves!CallState, TakingShape, Leaves!Op
  <2>3. Tables
    BY <1>14, <1>4 DEF Leaves!ReadBalance
  <2>4. Leaves!Goes(c, "increment") \/ Leaves!Goes(c, "insert")
    BY <1>14 DEF Leaves!ReadBalance
  <2>5. Calling
    BY <2>1, <2>2, <2>4, GoesTyped DEF Calling
  <2> HIDE DEF Tables
  <2>6. QED
    BY <2>3, <2>5, <1>3
<1>15. CASE Leaves!IncrementTotal(c)
  <2>1. \A t \in Nat : Leaves!TotalWritten(c, t) \in Nat
    BY DutyTyped DEF Leaves!TotalWritten
  <2>2. bal' \in [Leaves!Types -> Leaves!LeaveBalance]
    BY <1>15, <2>1 DEF Leaves!IncrementTotal, Leaves!TypeOK, Leaves!LeaveBalance
  <2>3. credited' \in [Dates -> Nat]
    BY <1>15 DEF Leaves!IncrementTotal, Leaves!Credit, Leaves!TypeOK
  <2>4. Tables
    BY <1>15, <2>2, <2>3 DEF Leaves!IncrementTotal, Leaves!TypeOK
  <2>5. QED
    BY <1>15, <2>4, <1>3, EndedTyped DEF Leaves!IncrementTotal, Calling
<1>16. CASE Leaves!InsertBalance(c)
  <2>1. Leaves!TotalWritten(c, 0) \in Nat
    BY DutyTyped DEF Leaves!TotalWritten
  <2>2. bal' \in [Leaves!Types -> Leaves!LeaveBalance]
    <3>1. [has |-> TRUE, total |-> Leaves!TotalWritten(c, 0), used |-> 0, pending |-> 0]
            \in Leaves!LeaveBalance
      BY <2>1 DEF Leaves!LeaveBalance
    <3>2. QED
      BY <1>16, <3>1 DEF Leaves!InsertBalance, Leaves!TypeOK
  <2>3. credited' \in [Dates -> Nat]
    BY <1>16 DEF Leaves!InsertBalance, Leaves!Credit, Leaves!TypeOK
  <2>4. Tables
    BY <1>16, <2>2, <2>3 DEF Leaves!InsertBalance, Leaves!TypeOK
  <2>5. QED
    BY <1>16, <2>4, <1>3, EndedTyped DEF Leaves!InsertBalance, Calling
<1>17. CASE Leaves!InsertRefused(c)
  BY <1>17, <1>3, <1>4, EndedTyped DEF Leaves!InsertRefused, Calling
<1>18. CASE Leaves!ReadEmployee(c)
  <2> DEFINE v == [Leaves!Idle EXCEPT !.pc = "activate", !.op = "confirm", !.type = "CASUAL"]
  <2>1. v \in Leaves!CallState /\ TakingShape(v)
    BY DEF Leaves!Idle, Leaves!CallState, TakingShape, Leaves!Op, Leaves!Types
  <2>2. c \in duty.calls /\ taking' = [taking EXCEPT ![c] = v]
    BY <1>18 DEF Leaves!ReadEmployee, Leaves!Free
  <2>3. Tables
    BY <1>18, <1>4 DEF Leaves!ReadEmployee
  <2> HIDE DEF v, Tables
  <2>4. QED
    BY <2>1, <2>2, <2>3, <1>3, <1>6
<1>19. CASE Leaves!Confirm(c)
  <2>1. taking[c].op = "confirm" /\ taking[c].pc = "activate" /\ Leaves!Goes(c, "balance")
    BY <1>19 DEF Leaves!Confirm, Leaves!At
  <2>2. /\ [taking[c] EXCEPT !.pc = "balance"] \in Leaves!CallState
        /\ TakingShape([taking[c] EXCEPT !.pc = "balance"])
    BY <1>2, <2>1 DEF Leaves!CallState, TakingShape
  <2>3. Tables
    BY <1>19 DEF Leaves!Confirm, Leaves!TypeOK, Leaves!EmployeeStatus
  <2>4. Calling
    BY <2>1, <2>2, GoesTyped DEF Calling
  <2> HIDE DEF Tables
  <2>5. QED
    BY <2>3, <2>4, <1>3
<1>20. CASE Leaves!SetStatus(c)
  BY <1>20, <1>3, <1>5 DEF Leaves!SetStatus, Leaves!TypeOK, Leaves!EmployeeStatus
<1>21. CASE Leaves!SwitchCompType(c)
  BY <1>21, <1>3, <1>5 DEF Leaves!SwitchCompType, Leaves!TypeOK
<1>22. ASSUME NEW k \in CompReqs, NEW d \in Dates, Leaves!StartSubmit(c, k, d)
       PROVE  Leaves!TypeOK' /\ TakingInv'
  <2> DEFINE v == [Leaves!Idle EXCEPT !.pc = "submit", !.op = "submitCompOff",
                                      !.r = k, !.date = d]
  <2>1. v \in Leaves!CallState /\ TakingShape(v)
    BY DEF Leaves!Idle, Leaves!CallState, TakingShape, Leaves!Op, Leaves!Types
  <2>2. c \in duty.calls /\ taking' = [taking EXCEPT ![c] = v]
    BY <1>22 DEF Leaves!StartSubmit, Leaves!Free
  <2>3. Tables
    BY <1>22, <1>4 DEF Leaves!StartSubmit
  <2> HIDE DEF v, Tables
  <2>4. QED
    BY <2>1, <2>2, <2>3, <1>3, <1>6
<1>23. CASE Leaves!Submit(c)
  <2>1. [st |-> "PENDING", date |-> taking[c].date] \in Leaves!CompOffRequest
    BY <1>2 DEF Leaves!CallState, Leaves!CompOffRequest
  <2>2. Tables
    BY <1>23, <2>1 DEF Leaves!Submit, Leaves!TypeOK
  <2>3. QED
    BY <1>23, <2>2, <1>3, EndedTyped DEF Leaves!Submit, Calling
<1>24. CASE Leaves!FindCompType(c)
  <2>1. taking[c].op = "approveCompOff" /\ taking[c].pc = "credit"
    BY <1>24 DEF Leaves!FindCompType, Leaves!At
  <2>2. /\ [taking[c] EXCEPT !.pc = "balance"] \in Leaves!CallState
        /\ TakingShape([taking[c] EXCEPT !.pc = "balance"])
    BY <1>2, <2>1 DEF Leaves!CallState, TakingShape
  <2>3. Tables
    BY <1>24, <1>4 DEF Leaves!FindCompType
  <2>4. Leaves!Goes(c, "balance") \/ Leaves!Ended(c)
    BY <1>24 DEF Leaves!FindCompType
  <2>5. Calling
    BY <2>1, <2>2, <2>4, GoesTyped, EndedTyped DEF Calling
  <2> HIDE DEF Tables
  <2>6. QED
    BY <2>3, <2>5, <1>3
<1>25. ASSUME NEW op \in {"approveCompOff", "rejectCompOff"}, NEW k \in CompReqs,
              comp[k].date \in Dates, Leaves!ReadCompOff(c, op, k)
       PROVE  Leaves!TypeOK' /\ TakingInv'
  <2> DEFINE v == [Leaves!Idle EXCEPT !.pc = "stamp", !.op = op, !.r = k,
                     !.type = IF op = "approveCompOff" THEN "COMPENSATORY" ELSE "none",
                     !.date = comp[k].date]
  <2>1. v \in Leaves!CallState /\ TakingShape(v)
    BY <1>25 DEF Leaves!Idle, Leaves!CallState, TakingShape, Leaves!Op, Leaves!Types
  <2>2. c \in duty.calls /\ taking' = [taking EXCEPT ![c] = v]
    BY <1>25 DEF Leaves!ReadCompOff, Leaves!Free
  <2>3. Tables
    BY <1>25, <1>4 DEF Leaves!ReadCompOff
  <2> HIDE DEF v, Tables
  <2>4. QED
    BY <2>1, <2>2, <2>3, <1>3, <1>6
<1>26. ASSUME NEW op \in {"approveCompOff", "rejectCompOff"}, Leaves!StampCompOff(c, op)
       PROVE  Leaves!TypeOK' /\ TakingInv'
  <2>1. taking[c].op = op /\ taking[c].pc = "stamp" /\ Leaves!Answer(op) \in Leaves!Answered
    BY <1>26 DEF Leaves!StampCompOff, Leaves!At, Leaves!Answer, Leaves!Answered
  <2>2. Tables
    BY <1>26, <2>1 DEF Leaves!TypeOK, Leaves!StampCompOff, Leaves!CompOffRequest
  <2>3. CASE Leaves!Ended(c)
    BY <2>2, <2>3, <1>3, EndedTyped DEF Calling
  <2>4. CASE op = "approveCompOff" /\ Leaves!Goes(c, "credit")
    <3>1. /\ [taking[c] EXCEPT !.pc = "credit"] \in Leaves!CallState
          /\ TakingShape([taking[c] EXCEPT !.pc = "credit"])
      BY <1>2, <2>1, <2>4 DEF Leaves!CallState, TakingShape
    <3>2. QED
      BY <2>1, <2>2, <2>4, <3>1, <1>3, GoesTyped DEF Calling
  <2>5. QED
    BY <1>26, <2>3, <2>4 DEF Leaves!StampCompOff
<1> HIDE DEF Tables
<1>27. QED
  BY <1>1, <1>7, <1>8, <1>9, <1>10, <1>11, <1>12, <1>13, <1>14, <1>15, <1>16, <1>17,
     <1>18, <1>19, <1>20, <1>21, <1>22, <1>23, <1>24, <1>25, <1>26
     DEF CompInv, Leaves!ReadCompOff, Leaves!Answerable

(* One more request, or one less, counts its days; those that did not      *)
(* change count the days they had.                                         *)
LEMMA DaysTyped ==
  ASSUME NEW q \in [Reqs -> Leaves!LeaveRequest]
  PROVE  /\ [r \in Reqs |-> q[r].days] \in [Reqs -> Int]
         /\ \A r \in Reqs : q[r].days \in Int
<1>1. Sizes \cup {0} \subseteq Int
  BY Bounds
<1>2. \A r \in Reqs : q[r].days \in Sizes \cup {0}
  BY DEF Leaves!LeaveRequest
<1>3. QED
  BY <1>1, <1>2

LEMMA DaysOneMore ==
  ASSUME NEW q \in [Reqs -> Leaves!LeaveRequest],
         NEW R \in SUBSET Reqs, NEW r \in Reqs, r \notin R
  PROVE  DaysIn(q, R \cup {r}) = DaysIn(q, R) + q[r].days
<1> DEFINE n == [x \in Reqs |-> q[x].days]
           m == [x \in DOMAIN n |-> -n[x]]
<1>1. n \in [Reqs -> Int] /\ n[r] = q[r].days
  BY DaysTyped
<1> HIDE DEF n
<1>2. m \in [Reqs -> Int] /\ m[r] = -n[r]
  BY <1>1
<1>3. IsFiniteSet(R)
  BY Finite, FS_Subset
<1> HIDE DEF m
<1>4. /\ Leaves!Amount(R \cup {r}, n) = Leaves!Amount(R, n) + (IF n[r] > 0 THEN n[r] ELSE 0)
      /\ Leaves!Amount(R \cup {r}, m) = Leaves!Amount(R, m) + (IF m[r] > 0 THEN m[r] ELSE 0)
  BY <1>1, <1>2, <1>3, AmountGains
<1>5. Leaves!Amount(R, n) \in Nat /\ Leaves!Amount(R, m) \in Nat
  BY <1>1, <1>2, <1>3, UnitsFinite
<1>6. Leaves!Amount(R \cup {r}, n) - Leaves!Amount(R \cup {r}, m)
        = (Leaves!Amount(R, n) - Leaves!Amount(R, m)) + n[r]
  BY <1>1, <1>2, <1>4, <1>5
<1>7. QED
  BY <1>1, <1>6 DEF DaysIn, Leaves!Net, m, n

LEMMA DaysOneLess ==
  ASSUME NEW q \in [Reqs -> Leaves!LeaveRequest], NEW R \in SUBSET Reqs, NEW r \in R
  PROVE  DaysIn(q, R) = DaysIn(q, R \ {r}) + q[r].days
<1>1. R \ {r} \in SUBSET Reqs /\ r \in Reqs /\ (R \ {r}) \cup {r} = R
  OBVIOUS
<1>2. QED
  BY <1>1, DaysOneMore

LEMMA DaysKept ==
  ASSUME NEW q, NEW p, NEW R \in SUBSET Reqs, \A r \in R : p[r].days = q[r].days
  PROVE  DaysIn(p, R) = DaysIn(q, R)
<1> DEFINE n == [x \in Reqs |-> q[x].days]
           m == [x \in Reqs |-> p[x].days]
           nn == [x \in DOMAIN n |-> -n[x]]
           mm == [x \in DOMAIN m |-> -m[x]]
<1>1. \A r \in R : n[r] = m[r] /\ nn[r] = mm[r]
  OBVIOUS
<1> HIDE DEF n, m, nn, mm
<1>2. Leaves!Amount(R, n) = Leaves!Amount(R, m) /\ Leaves!Amount(R, nn) = Leaves!Amount(R, mm)
  BY <1>1, AmountSame
<1>3. QED
  BY <1>2 DEF DaysIn, Leaves!Net, n, m, nn, mm

LEMMA DaysNumber ==
  ASSUME NEW q \in [Reqs -> Leaves!LeaveRequest], NEW R \in SUBSET Reqs
  PROVE  DaysIn(q, R) \in Int
<1> DEFINE n == [r \in Reqs |-> q[r].days]
           m == [x \in DOMAIN n |-> -n[x]]
<1>1. n \in [Reqs -> Int]
  BY DaysTyped
<1> HIDE DEF n
<1>2. m \in [Reqs -> Int]
  BY <1>1
<1>3. IsFiniteSet(R)
  BY Finite, FS_Subset
<1> HIDE DEF m
<1>4. Leaves!Amount(R, n) \in Nat /\ Leaves!Amount(R, m) \in Nat
  BY <1>1, <1>2, <1>3, UnitsFinite
<1>5. QED
  BY <1>4 DEF DaysIn, Leaves!Net, n, m

LEMMA CasualTyped ==
  ASSUME Leaves!TypeOK
  PROVE  /\ bal["CASUAL"].pending \in Int /\ bal["CASUAL"].used \in Int
         /\ bal["CASUAL"].total \in Nat
BY RowFields DEF Leaves!TypeOK, Leaves!Types

LEMMA SetsTyped ==
  /\ Unreserved \in SUBSET Reqs /\ Waiting \cup Moving \in SUBSET Reqs
  /\ Moving \cap Granted \in SUBSET Reqs /\ Granted \in SUBSET Reqs
BY DEF Unreserved, Moving, Waiting, Granted, Casual

LEMMA CheckBalanceKeeps ==
  ASSUME duty \in Duties, duty' = duty, Leaves!TypeOK, TakingInv, RequestInv, AnswerInv,
         BalanceInv, RoomInv,
         NEW c \in Calls, NEW r \in Reqs, NEW t \in duty.types, NEW d \in duty.sizes,
         Leaves!CheckBalance(c, r, t, d)
  PROVE  RequestInv' /\ AnswerInv' /\ BalanceInv' /\ RoomInv'
<1> DEFINE v == [Leaves!Idle EXCEPT !.pc = "create", !.op = "apply",
                                    !.r = r, !.type = t, !.days = d]
<1>1. /\ v.pc = "create" /\ v.op = "apply" /\ v.r = r /\ v.type = t /\ v.days = d
  BY DEF Leaves!Idle
<1> HIDE DEF v
<1>2. \A k \in Calls : taking'[k] = IF k = c THEN v ELSE taking[k]
  BY DEF Leaves!CheckBalance, Leaves!TypeOK, v
<1>3. /\ taking[c].pc = "idle" /\ taking[c].op = "none" /\ req[r].st = "none"
      /\ bal' = bal /\ req' = req
      /\ \A k \in Calls : taking[k].pc # "idle" => taking[k].r # r
  BY DEF Leaves!CheckBalance, Leaves!Free, TakingInv, TakingShape, Leaves!InUse
<1>4. t = "CASUAL" => /\ bal["CASUAL"].has
                      /\ ~(bal["CASUAL"].total - bal["CASUAL"].used - bal["CASUAL"].pending < d)
  BY DEF Leaves!CheckBalance, Leaves!Lacks
<1>5. RequestInv'
  BY <1>1, <1>2, <1>3, <1>4 DEF RequestInv, Applies, Answers, TakingInv, TakingShape
<1>6. AnswerInv'
  BY <1>1, <1>2, <1>3 DEF AnswerInv, OneAnswer, Answers
<1>7. BalanceInv'
  <2>1. Unreserved' = Unreserved /\ Moving' = Moving
    BY <1>1, <1>2, <1>3 DEF Unreserved, Moving, Casual
  <2>2. Waiting' = Waiting /\ Granted' = Granted
    BY <1>3 DEF Waiting, Granted, Casual
  <2>3. QED
    BY <2>1, <2>2, <1>3 DEF BalanceInv, OneAnswer
<1>8. RoomInv'
  <2>1. bal["CASUAL"].pending \in Int /\ bal["CASUAL"].used \in Int /\ bal["CASUAL"].total \in Nat
    BY CasualTyped
  <2>2. d \in Int
    BY DutyTyped
  <2>3. t = "CASUAL" =>
          d <= bal["CASUAL"].total - bal["CASUAL"].used - bal["CASUAL"].pending
    BY <1>4, <2>1, <2>2
  <2>4. QED
    BY <1>1, <1>2, <1>3, <1>4, <2>3 DEF RoomInv, Applies, Leaves!Serial
<1>9. QED
  BY <1>5, <1>6, <1>7, <1>8

LEMMA CreateRequestKeeps ==
  ASSUME duty \in Duties, duty' = duty, Leaves!TypeOK, Leaves!TypeOK', TakingInv, RequestInv,
         AnswerInv, BalanceInv, RoomInv, NEW c \in Calls, Leaves!CreateRequest(c)
  PROVE  RequestInv' /\ AnswerInv' /\ BalanceInv' /\ RoomInv'
<1> DEFINE r == taking[c].r
           t == taking[c].type
           d == taking[c].days
           row == [st |-> "PENDING", type |-> t, days |-> d]
<1>1. /\ taking[c].op = "apply" /\ taking[c].pc = "create" /\ bal' = bal
      /\ req[r].st = "none" /\ r \in Reqs /\ t \in Leaves!Types /\ d \in Sizes
      /\ t = "CASUAL" => bal["CASUAL"].has
  BY DEF Leaves!CreateRequest, Leaves!At, TakingInv, TakingShape, RequestInv
<1>2. \A x \in Reqs : req'[x] = IF x = r THEN row ELSE req[x]
  BY <1>1 DEF Leaves!CreateRequest, Leaves!TypeOK
<1>3. \A k \in Calls :
        /\ k # c => taking'[k] = taking[k]
        /\ t = "CASUAL" => taking'[c] = [taking[c] EXCEPT !.pc = "reserve"]
        /\ t # "CASUAL" => taking'[c] = Leaves!Idle
  BY DEF Leaves!CreateRequest, Leaves!Goes, Leaves!Ended, Leaves!TypeOK
<1>4. /\ t = "CASUAL" => /\ taking'[c].pc = "reserve" /\ taking'[c].op = "apply"
                         /\ taking'[c].r = r /\ taking'[c].type = t /\ taking'[c].days = d
      /\ t # "CASUAL" => taking'[c].pc = "idle" /\ taking'[c].op = "none"
  BY <1>1, <1>3 DEF Leaves!Idle, Leaves!TypeOK, Leaves!CallState
<1>5. row.st = "PENDING" /\ row.type = t /\ row.days = d
  OBVIOUS
<1>6. \A k \in Calls :
        /\ taking[k].pc = "reserve" \/ Answers(k) => taking[k].r # r /\ taking[k].r \in Reqs
        /\ taking[k].pc \in {"create", "reserve"} /\ k # c => taking[k].r # r
        /\ taking[k].pc \in {"create", "reserve"} => Applies(k) /\ taking[k].r \in Reqs
        /\ taking[k].pc \in {"write", "move"} => Answers(k)
  BY <1>1 DEF RequestInv, Answers, Applies, TakingInv, TakingShape, Leaves!TypeOK,
              Leaves!CallState, Leaves!Op
<1> HIDE DEF r, t, d, row
<1>7. RequestInv'
  <2>1. \A x \in Leaves!Types :
          ~bal'[x].has => bal'[x].total = 0 /\ bal'[x].used = 0 /\ bal'[x].pending = 0
    BY <1>1 DEF RequestInv
  <2>2. \A x \in Reqs : req'[x].st # "none" =>
          /\ req'[x].type \in Leaves!Types /\ req'[x].days \in Sizes
          /\ req'[x].type = "CASUAL" => bal'["CASUAL"].has
    BY <1>1, <1>2, <1>5 DEF RequestInv
  <2>3. \A k \in Calls :
          /\ taking'[k].pc = "create" =>
               /\ req'[taking'[k].r].st = "none"
               /\ taking'[k].type = "CASUAL" => bal'["CASUAL"].has
          /\ taking'[k].pc = "reserve" \/ taking'[k].op \in {"approve", "reject"} =>
               /\ req'[taking'[k].r].st # "none"
               /\ req'[taking'[k].r].type = taking'[k].type
               /\ req'[taking'[k].r].days = taking'[k].days
          /\ taking'[k].pc = "reserve" => taking'[k].type = "CASUAL"
          /\ taking'[k].pc = "move" => taking'[k].type # "LOSS_OF_PAY"
    <3> TAKE k \in Calls
    <3>1. CASE k = c
      BY <3>1, <1>1, <1>2, <1>4, <1>5
    <3>2. CASE k # c
      BY <3>2, <1>1, <1>2, <1>3, <1>6 DEF RequestInv, Answers
    <3>3. QED
      BY <3>1, <3>2
  <2>4. \A j, k \in Calls :
          taking'[j].op = "apply" /\ taking'[k].op = "apply" /\ taking'[j].r = taking'[k].r
            => j = k
    BY <1>1, <1>3, <1>4 DEF RequestInv, Applies, r
  <2>5. QED
    BY <2>1, <2>2, <2>3, <2>4 DEF RequestInv, Answers, Applies
<1>8. AnswerInv'
  <2>1. \A k \in Calls : taking'[k].op \in {"approve", "reject"} => k # c
    BY <1>4
  <2>2. \A k \in Calls : taking'[k].pc \in {"write", "move"} => k # c /\ Answers(k)
    BY <1>3, <1>4, <1>6
  <2>3. QED
    BY <2>1, <2>2, <1>2, <1>3, <1>6 DEF AnswerInv, OneAnswer, Answers
<1>9. BalanceInv'
  <2>1. Moving' = Moving
    <3>1. \A k \in Calls : taking'[k].pc = "move" <=> taking[k].pc = "move"
      BY <1>1, <1>3, <1>4
    <3>2. \A k \in Calls : taking[k].pc = "move" => k # c /\ taking[k].r # r
      BY <1>1, <1>6
    <3>3. \A x \in Reqs : x # r => req'[x] = req[x]
      BY <1>2
    <3>4. QED
      BY <3>1, <3>2, <3>3, <1>3 DEF Moving, Casual
  <2>2. Granted' = Granted
    BY <1>1, <1>2, <1>5 DEF Granted, Casual
  <2>3. r \notin Unreserved /\ r \notin Moving /\ r \notin Waiting /\ r \notin Granted
    BY <1>1, <1>6 DEF Unreserved, Moving, Waiting, Granted, Casual
  <2>4. \A R \in SUBSET Reqs : r \notin R => DaysIn(req', R) = DaysIn(req, R)
    BY <1>2, DaysKept
  <2>5. req' \in [Reqs -> Leaves!LeaveRequest]
    BY DEF Leaves!TypeOK
  <2>6. CASE t # "CASUAL"
    <3>1. Unreserved' = Unreserved
      BY <2>6, <1>1, <1>3, <1>4 DEF Unreserved
    <3>2. Waiting' = Waiting
      BY <2>6, <1>1, <1>2, <1>5 DEF Waiting, Casual
    <3>3. QED
      BY <1>1, <2>1, <2>2, <2>3, <2>4, <3>1, <3>2, SetsTyped DEF BalanceInv, OneAnswer
  <2>7. CASE t = "CASUAL"
    <3>1. Unreserved' = Unreserved \cup {r}
      BY <2>7, <1>1, <1>3, <1>4 DEF Unreserved
    <3>2. Waiting' = Waiting \cup {r}
      BY <2>7, <1>1, <1>2, <1>5 DEF Waiting, Casual
    <3>3. DaysIn(req', Unreserved \cup {r}) = DaysIn(req, Unreserved) + req'[r].days
      BY <1>1, <2>3, <2>4, <2>5, SetsTyped, DaysOneMore
    <3>4. DaysIn(req', (Waiting \cup Moving) \cup {r})
            = DaysIn(req, Waiting \cup Moving) + req'[r].days
      BY <1>1, <2>3, <2>4, <2>5, SetsTyped, DaysOneMore
    <3>5. Waiting' \cup Moving' = (Waiting \cup Moving) \cup {r}
      BY <2>1, <3>2
    <3>6. /\ DaysIn(req', Moving \cap Granted) = DaysIn(req, Moving \cap Granted)
          /\ DaysIn(req', Granted) = DaysIn(req, Granted)
      BY <2>3, <2>4, SetsTyped
    <3>7. /\ DaysIn(req, Unreserved) \in Int /\ DaysIn(req, Waiting \cup Moving) \in Int
          /\ req'[r].days \in Int
      <4>1. req \in [Reqs -> Leaves!LeaveRequest]
        BY DEF Leaves!TypeOK
      <4>2. req'[r].days \in Int
        BY <1>1, <2>5, DaysTyped
      <4>3. QED
        BY <4>1, <4>2, SetsTyped, DaysNumber
    <3>8. /\ DaysIn(req', Unreserved') = DaysIn(req, Unreserved) + req'[r].days
          /\ DaysIn(req', Waiting' \cup Moving') = DaysIn(req, Waiting \cup Moving) + req'[r].days
          /\ DaysIn(req', Moving' \cap Granted') = DaysIn(req, Moving \cap Granted)
          /\ DaysIn(req', Granted') = DaysIn(req, Granted)
      BY <2>1, <2>2, <3>1, <3>3, <3>4, <3>5, <3>6
    <3>9. /\ OneAnswer' <=> OneAnswer
          /\ bal'["CASUAL"].pending = bal["CASUAL"].pending
          /\ bal'["CASUAL"].used = bal["CASUAL"].used
      BY <1>1 DEF OneAnswer
    <3>10. QED
      BY <3>7, <3>8, <3>9, CasualTyped DEF BalanceInv
  <2>8. QED
    BY <2>6, <2>7
<1>10. RoomInv'
  BY <1>1, <1>3, <1>4 DEF RoomInv, Applies, Leaves!Serial, t, d
<1>11. QED
  BY <1>7, <1>8, <1>9, <1>10

(* One call at a time: whoever is in a call is alone. *)
LEMMA TakingAlone ==
  ASSUME duty \in Duties, TakingInv, Leaves!Serial, NEW c \in duty.calls
  PROVE  \A k \in Calls : taking[k].pc # "idle" => k = c
<1>1. IsFiniteSet(duty.calls)
  BY DutyTyped, Finite, FS_Subset
<1>2. Cardinality(duty.calls) = 1
  BY SameCardinality, Zenon DEF Leaves!Serial
<1>3. PICK x : duty.calls = {x}
  BY <1>1, <1>2, FS_Singleton
<1>4. QED
  BY <1>3 DEF TakingInv

LEMMA RoomIfAlone ==
  ASSUME duty \in Duties, duty' = duty, TakingInv', NEW c \in duty.calls,
         taking'[c].op # "apply"
  PROVE  RoomInv'
<1>1. SUFFICES ASSUME Leaves!Serial', NEW k \in Calls, taking'[k].op = "apply"
               PROVE  FALSE
  BY DEF RoomInv, Applies
<1>2. IsFiniteSet(duty.calls)
  BY DutyTyped, Finite, FS_Subset
<1>3. Cardinality(duty.calls) = 1
  BY <1>1, SameCardinality, Zenon DEF Leaves!Serial
<1>4. PICK x : duty.calls = {x}
  BY <1>2, <1>3, FS_Singleton
<1>5. k \in duty.calls
  BY <1>1 DEF TakingInv, TakingShape
<1>6. QED
  BY <1>1, <1>4, <1>5

(* A step of a call that neither applies nor answers leaves the requests   *)
(* and what the casual balance holds of them.                              *)
LEMMA Aside ==
  ASSUME duty \in Duties, duty' = duty, Leaves!TypeOK, Leaves!TypeOK', TakingInv, TakingInv',
         RequestInv, AnswerInv, BalanceInv, req' = req,
         NEW c \in duty.calls, \A k \in Calls : k # c => taking'[k] = taking[k],
         taking[c].op \notin {"apply", "approve", "reject"},
         taking'[c].op \notin {"apply", "approve", "reject"},
         bal["CASUAL"].has => bal'["CASUAL"].has,
         bal'["CASUAL"].pending = bal["CASUAL"].pending,
         bal'["CASUAL"].used = bal["CASUAL"].used,
         \A t \in Leaves!Types :
           ~bal'[t].has => bal'[t].total = 0 /\ bal'[t].used = 0 /\ bal'[t].pending = 0
  PROVE  RequestInv' /\ AnswerInv' /\ BalanceInv' /\ RoomInv'
<1>1. c \in Calls
  BY DutyTyped
<1>2. /\ taking[c].pc \notin {"create", "reserve", "write", "move"}
      /\ taking'[c].pc \notin {"create", "reserve", "write", "move"}
  <2>1. \A v \in Leaves!CallState :
          TakingShape(v) /\ v.op \notin {"apply", "approve", "reject"}
            => v.pc \notin {"create", "reserve", "write", "move"}
    BY DEF TakingShape, Leaves!CallState, Leaves!Op
  <2>2. /\ taking[c] \in Leaves!CallState /\ TakingShape(taking[c])
        /\ taking'[c] \in Leaves!CallState /\ TakingShape(taking'[c])
    BY <1>1 DEF Leaves!TypeOK, TakingInv, TakingShape
  <2>3. QED
    BY <2>1, <2>2
<1>3. RequestInv'
  BY <1>1, <1>2 DEF RequestInv, Applies, Answers
<1>4. AnswerInv'
  BY <1>1, <1>2 DEF AnswerInv, OneAnswer, Answers
<1>5. Unreserved' = Unreserved /\ Moving' = Moving
  BY <1>1, <1>2 DEF Unreserved, Moving, Casual
<1>6. Waiting' = Waiting /\ Granted' = Granted
  BY DEF Waiting, Granted, Casual
<1>7. BalanceInv'
  BY <1>5, <1>6 DEF BalanceInv, OneAnswer
<1>8. RoomInv'
  BY RoomIfAlone
<1>9. QED
  BY <1>3, <1>4, <1>7, <1>8

LEMMA ReservePendingKeeps ==
  ASSUME duty \in Duties, duty' = duty, Leaves!TypeOK, Leaves!TypeOK', TakingInv, TakingInv',
         RequestInv, AnswerInv, BalanceInv, RoomInv, NEW c \in Calls,
         Leaves!ReservePending(c)
  PROVE  RequestInv' /\ AnswerInv' /\ BalanceInv' /\ RoomInv'
<1> DEFINE r == taking[c].r
           d == taking[c].days
<1>1. /\ taking[c].op = "apply" /\ taking[c].pc = "reserve" /\ req' = req
      /\ taking[c].type = "CASUAL" /\ r \in Reqs /\ c \in duty.calls
      /\ req[r].type = "CASUAL" /\ req[r].days = d /\ bal["CASUAL"].has
  BY DEF Leaves!ReservePending, Leaves!At, TakingInv, TakingShape, RequestInv
<1>2. /\ \A t \in Leaves!Types :
           /\ bal'[t].has <=> bal[t].has
           /\ bal'[t].total = bal[t].total /\ bal'[t].used = bal[t].used
           /\ t # "CASUAL" => bal'[t].pending = bal[t].pending
      /\ bal'["CASUAL"].pending = bal["CASUAL"].pending + d
      /\ "CASUAL" \in Leaves!Types
  BY <1>1 DEF Leaves!ReservePending, Leaves!TypeOK, Leaves!LeaveBalance, Leaves!Types
<1>3. \A k \in Calls : taking'[k] = IF k = c THEN Leaves!Idle ELSE taking[k]
  BY DEF Leaves!ReservePending, Leaves!Ended, Leaves!TypeOK
<1>4. Leaves!Idle.pc = "idle" /\ Leaves!Idle.op = "none"
  BY DEF Leaves!Idle
<1> HIDE DEF r, d
<1>5. RequestInv'
  BY <1>1, <1>2, <1>3, <1>4 DEF RequestInv, Applies, Answers
<1>6. AnswerInv'
  BY <1>1, <1>3, <1>4 DEF AnswerInv, OneAnswer, Answers
<1>7. BalanceInv'
  <2>1. Moving' = Moving
    BY <1>1, <1>3, <1>4 DEF Moving, Casual
  <2>2. Waiting' = Waiting /\ Granted' = Granted
    BY <1>1 DEF Waiting, Granted, Casual
  <2>3. \A k \in Calls : taking[k].pc = "reserve" /\ taking[k].r = r => k = c
    BY <1>1 DEF RequestInv, Applies, TakingInv, TakingShape, r, Leaves!TypeOK,
                Leaves!CallState, Leaves!Op
  <2>4. Unreserved' = Unreserved \ {r} /\ r \in Unreserved
    BY <1>1, <1>3, <1>4, <2>3 DEF Unreserved, r
  <2>5. DaysIn(req, Unreserved) = DaysIn(req, Unreserved \ {r}) + d
    BY <1>1, <2>4, SetsTyped, DaysOneLess DEF Leaves!TypeOK
  <2>6. req \in [Reqs -> Leaves!LeaveRequest]
    BY DEF Leaves!TypeOK
  <2>7. d \in Int
    BY <1>1, <2>6, DaysTyped
  <2>8. DaysIn(req, Unreserved \ {r}) \in Int
    BY <2>6, SetsTyped, DaysNumber
  <2>9. /\ OneAnswer' <=> OneAnswer
        /\ bal'["CASUAL"].pending = bal["CASUAL"].pending + d
        /\ bal'["CASUAL"].used = bal["CASUAL"].used
        /\ DaysIn(req', Unreserved') = DaysIn(req, Unreserved \ {r})
        /\ DaysIn(req', Waiting' \cup Moving') = DaysIn(req, Waiting \cup Moving)
        /\ DaysIn(req', Moving' \cap Granted') = DaysIn(req, Moving \cap Granted)
        /\ DaysIn(req', Granted') = DaysIn(req, Granted)
    BY <1>1, <1>2, <2>1, <2>2, <2>4 DEF OneAnswer
  <2>10. QED
    BY <2>5, <2>7, <2>8, <2>9, CasualTyped DEF BalanceInv
<1>8. RoomInv'
  BY <1>1, <1>3, <1>4, RoomIfAlone
<1>9. QED
  BY <1>5, <1>6, <1>7, <1>8

LEMMA ReadRequestKeeps ==
  ASSUME duty \in Duties, duty' = duty, Leaves!TypeOK, Leaves!TypeOK', TakingInv, TakingInv',
         RequestInv, AnswerInv, BalanceInv, RoomInv, NEW c \in Calls,
         NEW op \in {"approve", "reject"}, NEW r \in Reqs, Leaves!ReadRequest(c, op, r)
  PROVE  RequestInv' /\ AnswerInv' /\ BalanceInv' /\ RoomInv'
<1> DEFINE v == [Leaves!Idle EXCEPT !.pc = "write", !.op = op, !.r = r,
                                    !.type = req[r].type, !.days = req[r].days]
<1>1. /\ v.pc = "write" /\ v.op = op /\ v.r = r /\ v.type = req[r].type
      /\ v.days = req[r].days
  BY DEF Leaves!Idle
<1> HIDE DEF v
<1>2. \A k \in Calls : taking'[k] = IF k = c THEN v ELSE taking[k]
  BY DEF Leaves!ReadRequest, Leaves!TypeOK, v
<1>3. /\ taking[c].pc = "idle" /\ taking[c].op = "none" /\ c \in duty.calls
      /\ bal' = bal /\ req' = req /\ req[r].st # "none"
  BY Bounds DEF Leaves!ReadRequest, Leaves!Free, TakingInv, TakingShape
<1>4. RequestInv'
  BY <1>1, <1>2, <1>3 DEF RequestInv, Applies, Answers
<1>5. AnswerInv'
  <2>1. OneAnswer => /\ req[r].st = "PENDING"
                     /\ \A k \in Calls : Answers(k) => taking[k].r # r
    BY DEF Leaves!ReadRequest, OneAnswer, Answers
  <2>2. QED
    BY <1>1, <1>2, <1>3, <2>1 DEF AnswerInv, OneAnswer, Answers
<1>6. BalanceInv'
  <2>1. Unreserved' = Unreserved /\ Moving' = Moving
    BY <1>1, <1>2, <1>3 DEF Unreserved, Moving, Casual
  <2>2. Waiting' = Waiting /\ Granted' = Granted
    BY <1>3 DEF Waiting, Granted, Casual
  <2>3. QED
    BY <2>1, <2>2, <1>3 DEF BalanceInv, OneAnswer
<1>7. RoomInv'
  BY <1>1, <1>2, <1>3, RoomIfAlone
<1>8. QED
  BY <1>4, <1>5, <1>6, <1>7

LEMMA WriteStatusKeeps ==
  ASSUME duty \in Duties, duty' = duty, Leaves!TypeOK, Leaves!TypeOK', TakingInv, TakingInv',
         RequestInv, AnswerInv, BalanceInv, RoomInv, NEW c \in Calls,
         NEW op \in {"approve", "reject"}, Leaves!WriteStatus(c, op)
  PROVE  RequestInv' /\ AnswerInv' /\ BalanceInv' /\ RoomInv'
<1> DEFINE r == taking[c].r
           answer == Leaves!Answer(op)
<1>1. /\ taking[c].op = op /\ taking[c].pc = "write" /\ bal' = bal
      /\ r \in Reqs /\ c \in duty.calls /\ req[r].st # "none"
      /\ taking[c].type = req[r].type /\ taking[c].days = req[r].days
  BY DEF Leaves!WriteStatus, Leaves!At, TakingInv, TakingShape, RequestInv, Answers
<1>2. answer \in {"APPROVED", "REJECTED"} /\ (answer = "APPROVED" <=> op = "approve")
  BY DEF Leaves!Answer
<1>3. \A x \in Reqs : /\ req'[x].type = req[x].type /\ req'[x].days = req[x].days
                      /\ req'[x].st = IF x = r THEN answer ELSE req[x].st
  BY <1>1 DEF Leaves!WriteStatus, Leaves!TypeOK, Leaves!LeaveRequest
<1>4. \A k \in Calls :
        /\ k # c => taking'[k] = taking[k]
        /\ req[r].type = "LOSS_OF_PAY" => taking'[c] = Leaves!Idle
        /\ req[r].type # "LOSS_OF_PAY" => taking'[c] = [taking[c] EXCEPT !.pc = "move"]
  BY <1>1 DEF Leaves!WriteStatus, Leaves!Goes, Leaves!Ended, Leaves!TypeOK
<1>5. /\ req[r].type = "LOSS_OF_PAY" => taking'[c].pc = "idle" /\ taking'[c].op = "none"
      /\ req[r].type # "LOSS_OF_PAY" =>
           /\ taking'[c].pc = "move" /\ taking'[c].op = op /\ taking'[c].r = r
           /\ taking'[c].type = req[r].type /\ taking'[c].days = req[r].days
  BY <1>1, <1>4 DEF Leaves!Idle, Leaves!TypeOK, Leaves!CallState
<1>6. \A k \in Calls : /\ taking[k].pc \in {"write", "move"} => Answers(k)
                       /\ taking[k].pc \in {"create", "reserve"} => Applies(k)
                       /\ Answers(k) \/ Applies(k) => taking[k].r \in Reqs
  BY DEF Answers, Applies, TakingInv, TakingShape, Leaves!TypeOK, Leaves!CallState, Leaves!Op
<1>7. OneAnswer => /\ \A k \in Calls : Answers(k) /\ taking[k].r = r => k = c
                   /\ req[r].st = "PENDING"
  BY <1>1 DEF AnswerInv, Answers
<1> HIDE DEF r, answer
<1>8. RequestInv'
  <2>1. \A x \in Reqs : req'[x].st # "none" <=> req[x].st # "none"
    BY <1>1, <1>2, <1>3
  <2>2. \A k \in Calls :
          /\ taking'[k].pc = "create" =>
               /\ req'[taking'[k].r].st = "none"
               /\ taking'[k].type = "CASUAL" => bal'["CASUAL"].has
          /\ taking'[k].pc = "reserve" \/ taking'[k].op \in {"approve", "reject"} =>
               /\ req'[taking'[k].r].st # "none"
               /\ req'[taking'[k].r].type = taking'[k].type
               /\ req'[taking'[k].r].days = taking'[k].days
          /\ taking'[k].pc = "reserve" => taking'[k].type = "CASUAL"
          /\ taking'[k].pc = "move" => taking'[k].type # "LOSS_OF_PAY"
    <3> TAKE k \in Calls
    <3>1. CASE k = c
      BY <3>1, <1>1, <1>3, <1>5, <2>1
    <3>2. CASE k # c
      BY <3>2, <1>1, <1>3, <1>4, <1>6, <2>1 DEF RequestInv, Answers
    <3>3. QED
      BY <3>1, <3>2
  <2>3. \A j, k \in Calls :
          taking'[j].op = "apply" /\ taking'[k].op = "apply" /\ taking'[j].r = taking'[k].r
            => j = k
    BY <1>1, <1>4, <1>5 DEF RequestInv, Applies
  <2>4. QED
    BY <1>1, <1>3, <2>1, <2>2, <2>3 DEF RequestInv, Answers, Applies
<1>9. AnswerInv'
  <2>1. \A k \in Calls : taking'[k].op \in {"approve", "reject"} =>
          Answers(k) /\ taking'[k].r = taking[k].r
    BY <1>1, <1>4, <1>5 DEF Answers, r
  <2>2. \A k \in Calls : taking'[k].pc = "write" => k # c
    BY <1>5
  <2>3. \A k \in Calls : taking'[k].pc = "move" =>
          \/ k = c /\ taking'[k].op = op /\ taking'[k].r = r
          \/ k # c /\ taking[k].pc = "move"
    BY <1>4, <1>5
  <2>4. OneAnswer => \A k \in Calls :
          /\ taking'[k].pc = "write" => req'[taking'[k].r].st = "PENDING"
          /\ taking'[k].pc = "move" => req'[taking'[k].r].st = Leaves!Answer(taking'[k].op)
    BY <1>1, <1>3, <1>4, <1>6, <1>7, <2>2, <2>3 DEF AnswerInv, answer
  <2>5. QED
    BY <2>1, <2>4 DEF AnswerInv, OneAnswer, Answers
<1>10. BalanceInv'
  <2>1. Unreserved' = Unreserved
    BY <1>1, <1>4, <1>5 DEF Unreserved
  <2>2. \A R \in SUBSET Reqs : DaysIn(req', R) = DaysIn(req, R)
    BY <1>3, DaysKept
  <2>3. SUFFICES ASSUME OneAnswer
                 PROVE  /\ bal["CASUAL"].pending + DaysIn(req, Unreserved)
                             = DaysIn(req, Waiting' \cup Moving')
                        /\ bal["CASUAL"].used + DaysIn(req, Moving' \cap Granted')
                             = DaysIn(req, Granted')
    <3>1. /\ Waiting' \in SUBSET Reqs /\ Moving' \in SUBSET Reqs /\ Granted' \in SUBSET Reqs
      BY DEF Waiting, Moving, Granted, Casual
    <3>2. /\ DaysIn(req', Unreserved') = DaysIn(req, Unreserved)
          /\ DaysIn(req', Waiting' \cup Moving') = DaysIn(req, Waiting' \cup Moving')
          /\ DaysIn(req', Moving' \cap Granted') = DaysIn(req, Moving' \cap Granted')
          /\ DaysIn(req', Granted') = DaysIn(req, Granted')
      BY <2>1, <2>2, <3>1, SetsTyped
    <3>3. (OneAnswer' <=> OneAnswer) /\ bal' = bal
      BY <1>1 DEF OneAnswer
    <3>4. QED
      BY <2>3, <3>2, <3>3 DEF BalanceInv
  <2>4. CASE req[r].type # "CASUAL"
    <3>1. Waiting' = Waiting /\ Granted' = Granted
      BY <2>4, <1>1, <1>3 DEF Waiting, Granted, Casual
    <3>2. \A x \in Reqs : x # r =>
            ((\E k \in Calls : taking'[k].pc = "move" /\ taking'[k].r = x)
             <=> (\E k \in Calls : taking[k].pc = "move" /\ taking[k].r = x))
      BY <1>1, <1>4, <1>5 DEF r
    <3>3. Moving' = Moving
      BY <3>2, <2>4, <1>1, <1>3 DEF Moving, Casual
    <3>4. QED
      BY <2>3, <3>1, <3>3 DEF BalanceInv
  <2>5. CASE req[r].type = "CASUAL"
    <3>1. r \in Waiting /\ r \notin Moving /\ r \notin Granted
      BY <2>3, <2>5, <1>1, <1>6, <1>7 DEF Waiting, Moving, Granted, Casual
    <3>2. Moving' = Moving \cup {r}
      BY <2>5, <1>1, <1>3, <1>4, <1>5 DEF Moving, Casual, r
    <3>3. Waiting' = Waiting \ {r}
      BY <1>2, <1>3 DEF Waiting, Casual
    <3>4. Waiting' \cup Moving' = Waiting \cup Moving
      BY <3>1, <3>2, <3>3
    <3>5. CASE op = "reject"
      <4>1. Granted' = Granted
        BY <3>1, <3>5, <1>2, <1>3 DEF Granted, Casual
      <4>2. Moving' \cap Granted' = Moving \cap Granted
        BY <4>1, <3>1, <3>2
      <4>3. QED
        BY <2>3, <3>4, <4>1, <4>2 DEF BalanceInv
    <3>6. CASE op = "approve"
      <4>1. Granted' = Granted \cup {r}
        BY <2>5, <3>6, <1>1, <1>2, <1>3 DEF Granted, Casual
      <4>2. Moving' \cap Granted' = (Moving \cap Granted) \cup {r}
        BY <4>1, <3>1, <3>2
      <4>3. req \in [Reqs -> Leaves!LeaveRequest]
        BY DEF Leaves!TypeOK
      <4>4. /\ DaysIn(req, Granted') = DaysIn(req, Granted) + req[r].days
            /\ DaysIn(req, Moving' \cap Granted') = DaysIn(req, Moving \cap Granted) + req[r].days
        BY <4>1, <4>2, <4>3, <3>1, <1>1, SetsTyped, DaysOneMore
      <4>5. /\ DaysIn(req, Granted) \in Int /\ DaysIn(req, Moving \cap Granted) \in Int
        BY <4>3, SetsTyped, DaysNumber
      <4>6. req[r].days \in Int
        BY <4>3, <1>1, DaysTyped
      <4>7. /\ bal["CASUAL"].pending + DaysIn(req, Unreserved) = DaysIn(req, Waiting \cup Moving)
            /\ bal["CASUAL"].used + DaysIn(req, Moving \cap Granted) = DaysIn(req, Granted)
        BY <2>3 DEF BalanceInv
      <4>8. bal["CASUAL"].used + DaysIn(req, Moving' \cap Granted') = DaysIn(req, Granted')
        BY <4>4, <4>5, <4>6, <4>7, CasualTyped
      <4>9. QED
        BY <3>4, <4>7, <4>8
    <3>7. QED
      BY <3>5, <3>6
  <2>6. QED
    BY <2>4, <2>5
<1>11. RoomInv'
  BY <1>1, <1>4, <1>5, RoomIfAlone
<1>12. QED
  BY <1>8, <1>9, <1>10, <1>11

LEMMA MoveBalanceKeeps ==
  ASSUME duty \in Duties, duty' = duty, Leaves!TypeOK, Leaves!TypeOK', TakingInv, TakingInv',
         RequestInv, AnswerInv, BalanceInv, RoomInv, NEW c \in Calls,
         NEW op \in {"approve", "reject"}, Leaves!MoveBalance(c, op)
  PROVE  RequestInv' /\ AnswerInv' /\ BalanceInv' /\ RoomInv'
<1> DEFINE r == taking[c].r
           t == taking[c].type
           d == taking[c].days
           gain == IF op = "approve" THEN d ELSE 0
<1>1. /\ taking[c].op = op /\ taking[c].pc = "move" /\ req' = req
      /\ r \in Reqs /\ c \in duty.calls /\ req[r].st # "none" /\ t \in Leaves!Types
      /\ t = req[r].type /\ d = req[r].days /\ d \in Int
      /\ t = "CASUAL" => bal["CASUAL"].has
  BY DutyTyped DEF Leaves!MoveBalance, Leaves!At, TakingInv, TakingShape, RequestInv, Answers
<1>2. \A x \in Leaves!Types : bal[x] \in Leaves!LeaveBalance
  BY DEF Leaves!TypeOK
<1>3. bal' = [bal EXCEPT ![t] = IF bal[t].has THEN Leaves!Moved(bal[t], op, d) ELSE bal[t]]
  BY <1>1 DEF Leaves!MoveBalance, Leaves!TypeOK
<1>4. bal[t].has => /\ bal'[t].has /\ bal'[t].total = bal[t].total
                    /\ bal'[t].pending = bal[t].pending - d
                    /\ bal'[t].used = bal[t].used + gain
  BY <1>1, <1>2, <1>3 DEF Leaves!Moved, Leaves!LeaveBalance, Leaves!TypeOK
<1>5. /\ \A x \in Leaves!Types : x # t \/ ~bal[t].has => bal'[x] = bal[x]
      /\ "CASUAL" \in Leaves!Types
  BY <1>1, <1>3 DEF Leaves!TypeOK, Leaves!Types
<1>6. \A k \in Calls : taking'[k] = IF k = c THEN Leaves!Idle ELSE taking[k]
  BY DEF Leaves!MoveBalance, Leaves!Ended, Leaves!TypeOK
<1>7. Leaves!Idle.pc = "idle" /\ Leaves!Idle.op = "none"
  BY DEF Leaves!Idle
<1>8. OneAnswer => /\ \A k \in Calls : Answers(k) /\ taking[k].r = r => k = c
                   /\ req[r].st = Leaves!Answer(op)
  BY <1>1 DEF AnswerInv, Answers
<1> HIDE DEF r, t, d, gain
<1>9. \A x \in Leaves!Types : bal'[x].has <=> bal[x].has
  BY <1>4, <1>5
<1>10. RequestInv'
  <2>1. \A x \in Leaves!Types :
          ~bal'[x].has => bal'[x].total = 0 /\ bal'[x].used = 0 /\ bal'[x].pending = 0
    BY <1>1, <1>5, <1>9 DEF RequestInv
  <2>2. bal'["CASUAL"].has <=> bal["CASUAL"].has
    BY <1>5, <1>9
  <2>3. QED
    BY <1>1, <1>6, <1>7, <2>1, <2>2 DEF RequestInv, Applies, Answers
<1>11. AnswerInv'
  BY <1>1, <1>6, <1>7 DEF AnswerInv, OneAnswer, Answers
<1>12. BalanceInv'
  <2>1. Unreserved' = Unreserved
    BY <1>1, <1>6, <1>7 DEF Unreserved
  <2>2. Waiting' = Waiting /\ Granted' = Granted
    BY <1>1 DEF Waiting, Granted, Casual
  <2>3. SUFFICES ASSUME OneAnswer
                 PROVE  /\ bal'["CASUAL"].pending + DaysIn(req, Unreserved)
                             = DaysIn(req, Waiting \cup Moving')
                        /\ bal'["CASUAL"].used + DaysIn(req, Moving' \cap Granted)
                             = DaysIn(req, Granted)
    BY <2>1, <2>2, <1>1 DEF BalanceInv, OneAnswer
  <2>4. \A x \in Reqs :
          ((\E k \in Calls : taking'[k].pc = "move" /\ taking'[k].r = x)
           <=> x # r /\ \E k \in Calls : taking[k].pc = "move" /\ taking[k].r = x)
    <3>1. \A k \in Calls : taking[k].pc = "move" /\ taking[k].r = r => k = c
      BY <2>3, <1>8 DEF TakingInv, TakingShape, Answers, Leaves!TypeOK,
                        Leaves!CallState, Leaves!Op
    <3>2. QED
      BY <3>1, <1>6, <1>7, <1>1 DEF r
  <2>5. Moving' = Moving \ {r}
    BY <2>4, <1>1 DEF Moving, Casual
  <2>6. CASE t # "CASUAL"
    <3>1. r \notin Moving
      BY <2>6, <1>1 DEF Moving, Casual
    <3>2. Moving' = Moving /\ bal'["CASUAL"] = bal["CASUAL"]
      BY <2>5, <2>6, <3>1, <1>5
    <3>3. QED
      BY <2>3, <3>2 DEF BalanceInv
  <2>7. CASE t = "CASUAL"
    <3>1. r \in Moving /\ r \notin Waiting
      BY <2>3, <2>7, <1>1, <1>8 DEF Moving, Waiting, Casual, r, Leaves!Answer
    <3>2. Waiting \cup Moving' = (Waiting \cup Moving) \ {r}
      BY <2>5, <3>1
    <3>3. req \in [Reqs -> Leaves!LeaveRequest]
      BY DEF Leaves!TypeOK
    <3>4. /\ DaysIn(req, Waiting \cup Moving) = DaysIn(req, Waiting \cup Moving') + d
          /\ DaysIn(req, Waiting \cup Moving') \in Int /\ DaysIn(req, Unreserved) \in Int
      BY <3>1, <3>2, <3>3, <1>1, SetsTyped, DaysOneLess, DaysNumber
    <3>5. /\ bal["CASUAL"].pending + DaysIn(req, Unreserved) = DaysIn(req, Waiting \cup Moving)
          /\ bal["CASUAL"].used + DaysIn(req, Moving \cap Granted) = DaysIn(req, Granted)
      BY <2>3 DEF BalanceInv
    <3>6. /\ bal'["CASUAL"].pending = bal["CASUAL"].pending - d
          /\ bal'["CASUAL"].used = bal["CASUAL"].used + gain
      BY <2>7, <1>1, <1>4
    <3>7. bal'["CASUAL"].pending + DaysIn(req, Unreserved) = DaysIn(req, Waiting \cup Moving')
      BY <3>4, <3>5, <3>6, <1>1, CasualTyped
    <3>8. CASE op = "reject"
      <4>1. r \notin Granted /\ gain = 0
        BY <2>3, <3>8, <1>8 DEF Granted, Casual, Leaves!Answer, gain
      <4>2. Moving' \cap Granted = Moving \cap Granted
        BY <4>1, <2>5
      <4>3. bal'["CASUAL"].used = bal["CASUAL"].used
        BY <3>6, <4>1, CasualTyped
      <4>4. QED
        BY <3>5, <3>7, <4>2, <4>3
    <3>9. CASE op = "approve"
      <4>1. r \in Granted /\ gain = d
        <5>1. req[r].st = "APPROVED"
          BY <2>3, <3>9, <1>8 DEF Leaves!Answer
        <5>2. QED
          BY <5>1, <2>7, <3>9, <1>1 DEF Granted, Casual, gain
      <4>2. Moving' \cap Granted = (Moving \cap Granted) \ {r} /\ r \in Moving \cap Granted
        BY <4>1, <2>5, <3>1
      <4>3. /\ DaysIn(req, Moving \cap Granted) = DaysIn(req, Moving' \cap Granted) + d
            /\ DaysIn(req, Moving' \cap Granted) \in Int /\ DaysIn(req, Granted) \in Int
        BY <4>2, <3>3, <1>1, SetsTyped, DaysOneLess, DaysNumber
      <4>4. bal'["CASUAL"].used + DaysIn(req, Moving' \cap Granted) = DaysIn(req, Granted)
        BY <3>5, <3>6, <4>1, <4>3, <1>1, CasualTyped
      <4>5. QED
        BY <3>7, <4>4
    <3>10. QED
      BY <3>8, <3>9
  <2>8. QED
    BY <2>6, <2>7
<1>13. RoomInv'
  BY <1>1, <1>6, <1>7, RoomIfAlone
<1>14. QED
  BY <1>10, <1>11, <1>12, <1>13

(* Looking a balance row up, raising it or inserting it, and the steps     *)
(* around it, move no casual days reserved or used.                        *)
LEMMA OtherStepsKeep ==
  ASSUME duty \in Duties, duty' = duty, Leaves!TypeOK, Leaves!TypeOK', TakingInv, TakingInv',
         RequestInv, FoundInv, AnswerInv, BalanceInv, RoomInv, NEW c \in Calls,
         \/ Leaves!Accrue(c) \/ Leaves!ReadBalance(c) \/ Leaves!IncrementTotal(c)
         \/ Leaves!InsertBalance(c) \/ Leaves!InsertRefused(c)
         \/ Leaves!ReadEmployee(c) \/ Leaves!Confirm(c) \/ Leaves!SetStatus(c)
         \/ Leaves!SwitchCompType(c)
         \/ \E k \in CompReqs, d \in Dates : Leaves!StartSubmit(c, k, d)
         \/ Leaves!Submit(c) \/ Leaves!FindCompType(c)
         \/ \E op \in {"approveCompOff", "rejectCompOff"} :
              \/ \E k \in CompReqs : Leaves!ReadCompOff(c, op, k)
              \/ Leaves!StampCompOff(c, op)
  PROVE  RequestInv' /\ AnswerInv' /\ BalanceInv' /\ RoomInv' /\ FoundInv'
<1> DEFINE Kept == RequestInv' /\ AnswerInv' /\ BalanceInv' /\ RoomInv' /\ FoundInv'
           t == taking[c].type
<1>1. /\ taking[c] \in Leaves!CallState /\ TakingShape(taking[c])
      /\ taking[c].pc # "idle" => c \in duty.calls
  BY DEF Leaves!TypeOK, TakingInv
<1>2. CASE UNCHANGED <<taking, bal, req>>
  <2>1. RequestInv' /\ AnswerInv' /\ RoomInv' /\ FoundInv'
    BY <1>2 DEF RequestInv, AnswerInv, RoomInv, FoundInv, OneAnswer, Applies, Answers, Leaves!Serial
  <2>2. BalanceInv'
    BY <1>2 DEF BalanceInv, OneAnswer, Unreserved, Moving, Waiting, Granted, Casual
  <2>3. QED
    BY <2>1, <2>2
<1>3. ASSUME UNCHANGED <<bal, req>>, c \in duty.calls,
             \A k \in Calls : k # c => taking'[k] = taking[k],
             taking[c].op \notin {"apply", "approve", "reject"},
             taking'[c].op \notin {"apply", "approve", "reject"},
             taking'[c].pc = "increment" => bal[taking'[c].type].has
      PROVE  Kept
  <2>1. RequestInv' /\ AnswerInv' /\ BalanceInv' /\ RoomInv'
    BY <1>3, Aside DEF RequestInv
  <2>2. FoundInv'
    BY <1>3 DEF FoundInv
  <2>3. QED
    BY <2>1, <2>2
<1>4. \A k \in Calls : Leaves!Ended(c) =>
        taking'[k] = IF k = c THEN Leaves!Idle ELSE taking[k]
  BY DEF Leaves!Ended, Leaves!TypeOK
<1>5. Leaves!Idle.pc = "idle" /\ Leaves!Idle.op = "none"
  BY DEF Leaves!Idle
<1>6. \A pc : Leaves!Goes(c, pc) =>
        /\ \A k \in Calls : k # c => taking'[k] = taking[k]
        /\ taking'[c].pc = pc /\ taking'[c].op = taking[c].op /\ taking'[c].type = taking[c].type
  BY DEF Leaves!Goes, Leaves!TypeOK, Leaves!CallState
<1>7. CASE Leaves!Accrue(c)
  <2>1. CASE UNCHANGED taking
    BY <1>2, <1>7, <2>1 DEF Leaves!Accrue
  <2>2. CASE taking' # taking
    <3>1. /\ taking[c].op = "none" /\ c \in duty.calls
          /\ taking'[c].op = "accrueMonthly" /\ taking'[c].pc = "balance"
          /\ \A k \in Calls : k # c => taking'[k] = taking[k]
      BY <1>1, <1>7, <2>2 DEF Leaves!Accrue, Leaves!Free, TakingShape, Leaves!Idle, Leaves!TypeOK
    <3>2. QED
      BY <1>3, <1>7, <3>1 DEF Leaves!Accrue
  <2>3. QED
    BY <2>1, <2>2
<1>8. CASE Leaves!ReadBalance(c)
  <2>1. taking[c].pc = "balance" /\ taking[c].op \notin {"apply", "approve", "reject"}
    BY <1>1, <1>8 DEF Leaves!ReadBalance, TakingShape
  <2>2. \/ Leaves!Goes(c, "increment") /\ bal[t].has
        \/ Leaves!Goes(c, "insert")
    BY <1>8 DEF Leaves!ReadBalance
  <2>3. QED
    BY <1>1, <1>3, <1>6, <1>8, <2>1, <2>2 DEF Leaves!ReadBalance
<1>9. ASSUME Leaves!IncrementTotal(c) \/ Leaves!InsertBalance(c)
      PROVE  Kept
  <2>1. /\ taking[c].pc \in {"increment", "insert"} /\ Leaves!Ended(c) /\ req' = req
        /\ taking[c].op \notin {"apply", "approve", "reject"} /\ c \in duty.calls
        /\ t \in Leaves!Types
    BY <1>1, <1>9 DEF Leaves!IncrementTotal, Leaves!InsertBalance, TakingShape, Leaves!Types,
                      Leaves!CallState, Leaves!Op
  <2>2. bal[t] \in Leaves!LeaveBalance
    BY <2>1 DEF Leaves!TypeOK
  <2>3. /\ bal'[t].has /\ bal'[t].pending = bal[t].pending /\ bal'[t].used = bal[t].used
        /\ \A x \in Leaves!Types : x # t => bal'[x] = bal[x]
    <3>1. CASE Leaves!IncrementTotal(c)
      <4>1. bal[t].has
        BY <3>1 DEF Leaves!IncrementTotal, FoundInv
      <4>2. QED
        BY <3>1, <2>1, <2>2, <4>1 DEF Leaves!IncrementTotal, Leaves!TypeOK, Leaves!LeaveBalance
    <3>2. CASE Leaves!InsertBalance(c)
      BY <3>2, <2>1 DEF Leaves!InsertBalance, Leaves!TypeOK, RequestInv
    <3>3. QED
      BY <1>9, <3>1, <3>2
  <2>4. /\ \A x \in Leaves!Types : bal[x].has => bal'[x].has
        /\ \A x \in Leaves!Types : bal'[x].pending = bal[x].pending /\ bal'[x].used = bal[x].used
        /\ \A x \in Leaves!Types :
             ~bal'[x].has => bal'[x].total = 0 /\ bal'[x].used = 0 /\ bal'[x].pending = 0
        /\ "CASUAL" \in Leaves!Types
    BY <2>3 DEF RequestInv, Leaves!Types
  <2>5. RequestInv' /\ AnswerInv' /\ BalanceInv' /\ RoomInv'
    BY <2>1, <2>4, <1>4, <1>5, Aside
  <2>6. FoundInv'
    <3>1. \A k \in Calls : taking[k].pc = "increment" => taking[k].type \in Leaves!Types
      BY DEF TakingInv, TakingShape, Leaves!TypeOK, Leaves!CallState, Leaves!Op, Leaves!Types
    <3>2. QED
      BY <2>1, <2>4, <3>1, <1>4, <1>5 DEF FoundInv
  <2>7. QED
    BY <2>5, <2>6
<1>10. CASE Leaves!InsertRefused(c)
  <2>1. taking[c].op \notin {"apply", "approve", "reject"} /\ c \in duty.calls
    BY <1>1, <1>10 DEF Leaves!InsertRefused, TakingShape
  <2>2. QED
    BY <2>1, <1>3, <1>4, <1>5, <1>10 DEF Leaves!InsertRefused
<1>11. CASE Leaves!ReadEmployee(c)
  <2>1. /\ taking[c].op = "none" /\ c \in duty.calls
        /\ taking'[c].op = "confirm" /\ taking'[c].pc = "activate"
        /\ \A k \in Calls : k # c => taking'[k] = taking[k]
    BY <1>1, <1>11 DEF Leaves!ReadEmployee, Leaves!Free, TakingShape, Leaves!Idle, Leaves!TypeOK
  <2>2. QED
    BY <1>3, <1>11, <2>1 DEF Leaves!ReadEmployee
<1>12. CASE Leaves!Confirm(c)
  <2>1. taking[c].op = "confirm" /\ c \in duty.calls /\ Leaves!Goes(c, "balance")
    BY <1>1, <1>12 DEF Leaves!Confirm, Leaves!At
  <2>2. QED
    BY <1>3, <1>6, <1>12, <2>1 DEF Leaves!Confirm
<1>13. CASE Leaves!SetStatus(c) \/ Leaves!SwitchCompType(c)
  BY <1>2, <1>13 DEF Leaves!SetStatus, Leaves!SwitchCompType
<1>14. ASSUME NEW k \in CompReqs, NEW d \in Dates, Leaves!StartSubmit(c, k, d)
       PROVE  Kept
  <2>1. /\ taking[c].op = "none" /\ c \in duty.calls
        /\ taking'[c].op = "submitCompOff" /\ taking'[c].pc = "submit"
        /\ \A x \in Calls : x # c => taking'[x] = taking[x]
    BY <1>1, <1>14 DEF Leaves!StartSubmit, Leaves!Free, TakingShape, Leaves!Idle, Leaves!TypeOK
  <2>2. QED
    BY <1>3, <1>14, <2>1 DEF Leaves!StartSubmit
<1>15. CASE Leaves!Submit(c)
  <2>1. taking[c].op = "submitCompOff" /\ c \in duty.calls
    BY <1>1, <1>15 DEF Leaves!Submit, Leaves!At
  <2>2. QED
    BY <2>1, <1>3, <1>4, <1>5, <1>15 DEF Leaves!Submit
<1>16. CASE Leaves!FindCompType(c)
  <2>1. taking[c].op = "approveCompOff" /\ c \in duty.calls
    BY <1>1, <1>16 DEF Leaves!FindCompType, Leaves!At
  <2>2. Leaves!Goes(c, "balance") \/ Leaves!Ended(c)
    BY <1>16 DEF Leaves!FindCompType
  <2>3. QED
    BY <2>1, <2>2, <1>3, <1>4, <1>5, <1>6, <1>16 DEF Leaves!FindCompType
<1>17. ASSUME NEW op \in {"approveCompOff", "rejectCompOff"}, NEW k \in CompReqs,
              Leaves!ReadCompOff(c, op, k)
       PROVE  Kept
  <2>1. /\ taking[c].op = "none" /\ c \in duty.calls
        /\ taking'[c].op = op /\ taking'[c].pc = "stamp"
        /\ \A x \in Calls : x # c => taking'[x] = taking[x]
    BY <1>1, <1>17 DEF Leaves!ReadCompOff, Leaves!Free, TakingShape, Leaves!Idle, Leaves!TypeOK
  <2>2. QED
    BY <1>3, <1>17, <2>1 DEF Leaves!ReadCompOff
<1>18. ASSUME NEW op \in {"approveCompOff", "rejectCompOff"}, Leaves!StampCompOff(c, op)
       PROVE  Kept
  <2>1. taking[c].op = op /\ c \in duty.calls
    BY <1>1, <1>18 DEF Leaves!StampCompOff, Leaves!At
  <2>2. Leaves!Goes(c, "credit") \/ Leaves!Ended(c)
    BY <1>18 DEF Leaves!StampCompOff
  <2>3. QED
    BY <2>1, <2>2, <1>3, <1>4, <1>5, <1>6, <1>18 DEF Leaves!StampCompOff
<1>19. QED
  BY <1>7, <1>8, <1>9, <1>10, <1>11, <1>12, <1>13, <1>14, <1>15, <1>16, <1>17, <1>18

(* A step of a request's call leaves what the balances hold in total, and  *)
(* the compensatory days.                                                  *)
LEMMA RequestStepsAside ==
  ASSUME Leaves!TypeOK, TakingInv, duty' = duty, NEW c \in Calls,
         \/ \E r \in Reqs, t \in duty.types, d \in duty.sizes : Leaves!CheckBalance(c, r, t, d)
         \/ Leaves!CreateRequest(c) \/ Leaves!ReservePending(c)
         \/ \E op \in {"approve", "reject"} :
              \/ \E r \in Reqs : Leaves!ReadRequest(c, op, r)
              \/ Leaves!WriteStatus(c, op) \/ Leaves!MoveBalance(c, op)
  PROVE  /\ UNCHANGED <<comp, compType, credited>> /\ c \in duty.calls
         /\ \A t \in Leaves!Types :
              (bal'[t].has <=> bal[t].has) /\ bal'[t].total = bal[t].total
         /\ \A k \in Calls : k # c => taking'[k] = taking[k]
         /\ taking[c].op \in {"none", "apply", "approve", "reject"}
         /\ taking'[c].op \in {"none", "apply", "approve", "reject"}
         /\ taking'[c].pc \notin {"increment", "insert"}
<1>1. /\ taking[c] \in Leaves!CallState /\ TakingShape(taking[c])
      /\ taking[c].pc # "idle" => c \in duty.calls
  BY DEF Leaves!TypeOK, TakingInv
<1>2. bal' = bal => \A t \in Leaves!Types :
                      (bal'[t].has <=> bal[t].has) /\ bal'[t].total = bal[t].total
  OBVIOUS
<1>3. Leaves!Idle.pc = "idle" /\ Leaves!Idle.op = "none"
  BY DEF Leaves!Idle
<1>4. \A k \in Calls : Leaves!Ended(c) =>
        taking'[k] = IF k = c THEN Leaves!Idle ELSE taking[k]
  BY DEF Leaves!Ended, Leaves!TypeOK
<1>5. \A pc : Leaves!Goes(c, pc) =>
        /\ \A k \in Calls : k # c => taking'[k] = taking[k]
        /\ taking'[c].pc = pc /\ taking'[c].op = taking[c].op
  BY DEF Leaves!Goes, Leaves!TypeOK, Leaves!CallState
<1>6. \A t \in Leaves!Types : bal[t] \in Leaves!LeaveBalance
  BY DEF Leaves!TypeOK
<1>7. ASSUME NEW r \in Reqs, NEW t \in duty.types, NEW d \in duty.sizes,
             Leaves!CheckBalance(c, r, t, d)
      PROVE  /\ UNCHANGED <<comp, compType, credited, bal>> /\ c \in duty.calls
             /\ \A k \in Calls : k # c => taking'[k] = taking[k]
             /\ taking[c].op = "none" /\ taking'[c].op = "apply" /\ taking'[c].pc = "create"
  BY <1>1, <1>7 DEF Leaves!CheckBalance, Leaves!Free, TakingShape, Leaves!Idle, Leaves!TypeOK
<1>8. CASE Leaves!CreateRequest(c)
  BY <1>1, <1>2, <1>3, <1>4, <1>5, <1>8 DEF Leaves!CreateRequest, Leaves!At, TakingShape
<1>9. CASE Leaves!ReservePending(c)
  <2>1. \A t \in Leaves!Types :
          (bal'[t].has <=> bal[t].has) /\ bal'[t].total = bal[t].total
    BY <1>6, <1>9 DEF Leaves!ReservePending, Leaves!TypeOK, Leaves!LeaveBalance
  <2>2. QED
    BY <1>1, <1>3, <1>4, <1>9, <2>1 DEF Leaves!ReservePending, Leaves!At, TakingShape
<1>10. ASSUME NEW op \in {"approve", "reject"}, NEW r \in Reqs, Leaves!ReadRequest(c, op, r)
       PROVE  /\ UNCHANGED <<comp, compType, credited, bal>> /\ c \in duty.calls
              /\ \A k \in Calls : k # c => taking'[k] = taking[k]
              /\ taking[c].op = "none" /\ taking'[c].op = op /\ taking'[c].pc = "write"
  BY <1>1, <1>10 DEF Leaves!ReadRequest, Leaves!Free, TakingShape, Leaves!Idle, Leaves!TypeOK
<1>11. ASSUME NEW op \in {"approve", "reject"}, Leaves!WriteStatus(c, op)
       PROVE  /\ UNCHANGED <<comp, compType, credited, bal>> /\ c \in duty.calls
              /\ \A k \in Calls : k # c => taking'[k] = taking[k]
              /\ taking[c].op = op /\ taking'[c].op \in {op, "none"}
              /\ taking'[c].pc \in {"move", "idle"}
  BY <1>1, <1>3, <1>4, <1>5, <1>11 DEF Leaves!WriteStatus, Leaves!At
<1>12. ASSUME NEW op \in {"approve", "reject"}, Leaves!MoveBalance(c, op)
       PROVE  /\ UNCHANGED <<comp, compType, credited>> /\ c \in duty.calls
              /\ \A t \in Leaves!Types :
                   (bal'[t].has <=> bal[t].has) /\ bal'[t].total = bal[t].total
              /\ \A k \in Calls : k # c => taking'[k] = taking[k]
              /\ taking[c].op = op /\ taking'[c].op = "none" /\ taking'[c].pc = "idle"
  <2>1. \A b \in Leaves!LeaveBalance, d \in Sizes \cup {0} :
          /\ Leaves!Moved(b, op, d).has <=> b.has
          /\ Leaves!Moved(b, op, d).total = b.total
    BY DEF Leaves!Moved, Leaves!LeaveBalance
  <2>2. taking[c].days \in Sizes \cup {0}
    BY <1>1 DEF Leaves!CallState
  <2>3. \A t \in Leaves!Types :
          bal'[t] \in {bal[t], Leaves!Moved(bal[t], op, taking[c].days)}
    BY <1>12 DEF Leaves!MoveBalance, Leaves!TypeOK
  <2>4. QED
    BY <1>1, <1>3, <1>4, <1>6, <1>12, <2>1, <2>2, <2>3 DEF Leaves!MoveBalance, Leaves!At
<1>13. QED
  BY <1>2, <1>7, <1>8, <1>9, <1>10, <1>11, <1>12

LEMMA RequestStepsFind ==
  ASSUME Leaves!TypeOK, TakingInv, FoundInv, duty' = duty, NEW c \in Calls,
         \/ \E r \in Reqs, t \in duty.types, d \in duty.sizes : Leaves!CheckBalance(c, r, t, d)
         \/ Leaves!CreateRequest(c) \/ Leaves!ReservePending(c)
         \/ \E op \in {"approve", "reject"} :
              \/ \E r \in Reqs : Leaves!ReadRequest(c, op, r)
              \/ Leaves!WriteStatus(c, op) \/ Leaves!MoveBalance(c, op)
  PROVE  FoundInv'
<1>1. /\ \A t \in Leaves!Types : bal'[t].has <=> bal[t].has
      /\ \A k \in Calls : k # c => taking'[k] = taking[k]
      /\ taking'[c].pc \notin {"increment", "insert"}
  BY RequestStepsAside
<1>2. \A k \in Calls : taking[k].pc = "increment" => taking[k].type \in Leaves!Types
  BY DEF TakingInv, TakingShape, Leaves!TypeOK, Leaves!CallState, Leaves!Op, Leaves!Types
<1>3. QED
  BY <1>1, <1>2 DEF FoundInv

(* A step that is not about comp off leaves the credits as they are. *)
LEMMA CompAside ==
  ASSUME duty \in Duties, duty' = duty, Leaves!TypeOK, Leaves!TypeOK', TakingInv, TakingInv',
         CreditInv, CompInv, UNCHANGED <<comp, credited>>,
         compType' = compType \/ "switchType" \in duty.ops,
         bal'["COMPENSATORY"].total = bal["COMPENSATORY"].total,
         NEW c \in duty.calls, \A k \in Calls : k # c => taking'[k] = taking[k],
         taking[c].op \notin {"submitCompOff", "approveCompOff", "rejectCompOff"},
         taking'[c].op \notin {"submitCompOff", "approveCompOff", "rejectCompOff"},
         taking'[c].pc = "insert" => ~bal'[taking'[c].type].has
  PROVE  CreditInv' /\ CompInv'
<1>1. c \in Calls
  BY DutyTyped
<1>2. /\ taking[c].pc \notin {"submit", "stamp"} /\ taking'[c].pc \notin {"submit", "stamp"}
  <2>1. \A v \in Leaves!CallState :
          TakingShape(v) /\ v.op \notin {"submitCompOff", "approveCompOff", "rejectCompOff"}
            => v.pc \notin {"submit", "stamp"}
    BY DEF TakingShape, Leaves!CallState, Leaves!Op
  <2>2. /\ taking[c] \in Leaves!CallState /\ TakingShape(taking[c])
        /\ taking'[c] \in Leaves!CallState /\ TakingShape(taking'[c])
    BY <1>1 DEF Leaves!TypeOK, TakingInv, TakingShape
  <2>3. QED
    BY <2>1, <2>2
<1>3. CreditInv'
  BY DEF CreditInv, Leaves!CreditsInBalance
<1>4. ~Crediting(c) /\ ~Crediting(c)'
  BY DEF Crediting
<1>5. \A k \in Calls : Crediting(k)' <=> Crediting(k)
  BY <1>4 DEF Crediting
<1>6. Credited' = Credited
  BY <1>1, <1>4 DEF Credited, Crediting
<1>7. \A d : Leaves!AskedFor(d)' <=> Leaves!AskedFor(d)
  BY DEF Leaves!AskedFor
<1>8. ASSUME Leaves!Serial
      PROVE  \A k \in Calls :
            /\ taking'[k].pc = "submit" =>
                 comp[taking'[k].r].st = "none" /\ ~Leaves!AskedFor(taking'[k].date)
            /\ taking'[k].pc = "stamp" => comp[taking'[k].r].st = "PENDING"
            /\ Crediting(k)' => comp[taking'[k].r].st = "APPROVED"
            /\ taking'[k].op = "approveCompOff" => comp[taking'[k].r].date = taking'[k].date
            /\ taking'[k].pc = "insert" => ~bal'[taking'[k].type].has
  <2>1. \A k \in Calls : k # c => taking[k].pc = "idle"
    BY <1>8, TakingAlone
  <2>2. \A k \in Calls : k # c => taking'[k].pc = "idle" /\ taking'[k].op = "none"
    BY <2>1 DEF TakingInv, TakingShape
  <2>3. QED
    BY <1>1, <1>2, <1>4, <2>2 DEF Crediting
<1>9. Leaves!Serial' <=> Leaves!Serial
  BY DEF Leaves!Serial
<1>10. \A k \in CompReqs : Standing(k)' <=> Standing(k)
  BY DEF Standing
<1>11. CompInv'
  <2>1. \A k \in CompReqs : comp'[k].st # "none" => comp'[k].date \in Dates
    BY DEF CompInv
  <2>2. "COMPENSATORY" \in duty.types /\ "switchType" \notin duty.ops => compType'
    BY DEF CompInv
  <2>3. Leaves!Serial => \A j, k \in CompReqs :
            Standing(j)' /\ Standing(k)' /\ comp'[j].date = comp'[k].date => j = k
    BY <1>10 DEF CompInv
  <2>4. Leaves!Serial /\ "COMPENSATORY" \in duty.types /\ "switchType" \notin duty.ops =>
       \A d \in Dates :
         credited'[d] = IF \E k \in Credited' : comp'[k].date = d THEN 1 ELSE 0
    BY <1>6 DEF CompInv
  <2>5. \A k \in Calls : taking'[k].pc = "stamp" => comp'[taking'[k].r].st # "none"
    BY <1>1, <1>2 DEF CompInv
  <2>6. QED
    BY <1>7, <1>8, <1>9, <2>1, <2>2, <2>3, <2>4, <2>5 DEF CompInv, Leaves!AskedFor
<1>12. QED
  BY <1>3, <1>11

(* By one call at a time, what CompInv says of calls is said of one call.  *)
LEMMA CompAlone ==
  ASSUME duty \in Duties, duty' = duty, Leaves!TypeOK, TakingInv, TakingInv',
         NEW c \in duty.calls, \A k \in Calls : k # c => taking'[k] = taking[k],
         CompInv, compType' = compType,
         \A k \in CompReqs : comp[k].st # "none" => comp'[k].st # "none",
         \A k \in CompReqs : comp'[k].st # "none" => comp'[k].date \in Dates,
         taking'[c].pc = "stamp" => comp'[taking'[c].r].st # "none",
         Leaves!Serial =>
           /\ \A j, k \in CompReqs :
                Standing(j)' /\ Standing(k)' /\ comp'[j].date = comp'[k].date => j = k
           /\ taking'[c].pc = "submit" =>
                comp'[taking'[c].r].st = "none" /\ ~Leaves!AskedFor(taking[c].date)'
           /\ taking'[c].pc = "stamp" => comp'[taking'[c].r].st = "PENDING"
           /\ Crediting(c)' => comp'[taking'[c].r].st = "APPROVED"
           /\ taking'[c].op = "approveCompOff" => comp'[taking'[c].r].date = taking'[c].date
           /\ taking'[c].pc = "insert" => ~bal'[taking'[c].type].has,
         Leaves!Serial /\ "COMPENSATORY" \in duty.types /\ "switchType" \notin duty.ops =>
           \A d \in Dates :
             credited'[d] = IF \E k \in CompReqs : /\ comp'[k].st = "APPROVED"
                                                   /\ Crediting(c)' => taking'[c].r # k
                                                   /\ comp'[k].date = d
                            THEN 1 ELSE 0
  PROVE  CompInv'
<1>1. c \in Calls
  BY DutyTyped
<1>2. Leaves!Serial' <=> Leaves!Serial
  BY DEF Leaves!Serial
<1>3. Leaves!Serial => \A k \in Calls : k # c => taking'[k].pc = "idle" /\ taking'[k].op = "none"
  <2>1. Leaves!Serial => \A k \in Calls : k # c => taking[k].pc = "idle"
    BY TakingAlone
  <2>2. QED
    BY <2>1 DEF TakingInv, TakingShape
<1>4. Leaves!Serial => \A k \in Calls :
         /\ taking'[k].pc = "submit" =>
              comp'[taking'[k].r].st = "none" /\ ~Leaves!AskedFor(taking[k].date)'
         /\ taking'[k].pc = "stamp" => comp'[taking'[k].r].st = "PENDING"
         /\ Crediting(k)' => comp'[taking'[k].r].st = "APPROVED"
         /\ taking'[k].op = "approveCompOff" => comp'[taking'[k].r].date = taking'[k].date
         /\ taking'[k].pc = "insert" => ~bal'[taking'[k].type].has
  BY <1>3 DEF Crediting
<1>5. Leaves!Serial => Credited' = {k \in CompReqs : /\ comp'[k].st = "APPROVED"
                                                     /\ Crediting(c)' => taking'[c].r # k}
  <2>1. Leaves!Serial => \A k \in Calls : k # c => ~Crediting(k)'
    BY <1>3 DEF Crediting
  <2>2. QED
    BY <1>1, <2>1 DEF Credited
<1>6. "COMPENSATORY" \in duty.types /\ "switchType" \notin duty.ops => compType'
  BY DEF CompInv
<1>7. Leaves!Serial /\ "COMPENSATORY" \in duty.types /\ "switchType" \notin duty.ops =>
        \A d \in Dates :
          credited'[d] = IF \E k \in Credited' : comp'[k].date = d THEN 1 ELSE 0
  BY <1>5
<1>8. \A k \in Calls : taking'[k].pc = "stamp" => comp'[taking'[k].r].st # "none"
  <2>1. \A k \in Calls : taking[k].pc = "stamp" => taking[k].r \in CompReqs
    BY DEF TakingInv, TakingShape, Leaves!TypeOK, Leaves!CallState, Leaves!Op
  <2>2. QED
    BY <1>1, <2>1 DEF CompInv
<1>9. QED
  BY <1>2, <1>4, <1>6, <1>7, <1>8 DEF CompInv

(* ... and CompInv says this of one call. *)
LEMMA CompOfOne ==
  ASSUME duty \in Duties, TakingInv, CompInv, NEW c \in duty.calls, Leaves!Serial,
         "COMPENSATORY" \in duty.types, "switchType" \notin duty.ops
  PROVE  \A d \in Dates :
           credited[d] = IF \E k \in CompReqs : /\ comp[k].st = "APPROVED"
                                                /\ Crediting(c) => taking[c].r # k
                                                /\ comp[k].date = d
                         THEN 1 ELSE 0
<1>1. c \in Calls
  BY DutyTyped
<1>2. \A k \in Calls : k # c => ~Crediting(k)
  BY TakingAlone DEF Crediting
<1>3. Credited = {k \in CompReqs : comp[k].st = "APPROVED" /\ (Crediting(c) => taking[c].r # k)}
  BY <1>1, <1>2 DEF Credited
<1>4. QED
  BY <1>3 DEF CompInv

LEMMA StartSubmitKeeps ==
  ASSUME duty \in Duties, duty' = duty, Leaves!TypeOK, TakingInv, TakingInv',
         CreditInv, CompInv, NEW c \in Calls, NEW k \in CompReqs, NEW d \in Dates,
         Leaves!StartSubmit(c, k, d)
  PROVE  CreditInv' /\ CompInv'
<1>1. /\ c \in duty.calls /\ taking[c].pc = "idle" /\ comp[k].st = "none"
      /\ ~Leaves!AskedFor(d)
      /\ UNCHANGED <<bal, comp, compType, credited>>
  BY DEF Leaves!StartSubmit, Leaves!Free
<1>2. /\ taking'[c].op = "submitCompOff" /\ taking'[c].pc = "submit"
      /\ taking'[c].r = k /\ taking'[c].date = d
      /\ \A x \in Calls : x # c => taking'[x] = taking[x]
  BY DEF Leaves!StartSubmit, Leaves!Idle, Leaves!TypeOK
<1>3. ~Crediting(c) /\ ~Crediting(c)'
  BY <1>1, <1>2 DEF Crediting
<1>4. CreditInv'
  BY <1>1 DEF CreditInv, Leaves!CreditsInBalance
<1>5. ~Leaves!AskedFor(d)'
  BY <1>1 DEF Leaves!AskedFor
<1>6. \A x \in CompReqs : comp'[x].st # "none" => comp'[x].date \in Dates
  BY <1>1 DEF CompInv
<1>7. Leaves!Serial => \A i, j \in CompReqs :
        Standing(i)' /\ Standing(j)' /\ comp'[i].date = comp'[j].date => i = j
  BY <1>1 DEF CompInv, Standing
<1>8. Leaves!Serial /\ "COMPENSATORY" \in duty.types /\ "switchType" \notin duty.ops =>
        \A x \in Dates :
          credited'[x] = IF \E j \in CompReqs : /\ comp'[j].st = "APPROVED"
                                                /\ Crediting(c)' => taking'[c].r # j
                                                /\ comp'[j].date = x
                         THEN 1 ELSE 0
  BY <1>1, <1>3, CompOfOne
<1>9. ~Leaves!AskedFor(taking[c].date)' /\ comp'[taking'[c].r].st = "none"
  BY <1>1, <1>2, <1>5 DEF Leaves!AskedFor
<1>10. CompInv'
  BY <1>1, <1>2, <1>3, <1>6, <1>7, <1>8, <1>9, CompAlone
<1>11. QED
  BY <1>4, <1>10

LEMMA SubmitKeeps ==
  ASSUME duty \in Duties, duty' = duty, Leaves!TypeOK, TakingInv, TakingInv',
         CreditInv, CompInv, NEW c \in Calls, Leaves!Submit(c)
  PROVE  CreditInv' /\ CompInv'
<1> DEFINE r == taking[c].r
           d == taking[c].date
<1>1. /\ taking[c].op = "submitCompOff" /\ taking[c].pc = "submit" /\ c \in duty.calls
      /\ r \in CompReqs /\ d \in Dates /\ UNCHANGED <<bal, compType, credited>>
  BY DEF Leaves!Submit, Leaves!At, TakingInv, TakingShape
<1>2. /\ taking'[c].op = "none" /\ taking'[c].pc = "idle"
      /\ \A x \in Calls : x # c => taking'[x] = taking[x]
  BY DEF Leaves!Submit, Leaves!Ended, Leaves!Idle, Leaves!TypeOK
<1>3. /\ comp'[r].st = "PENDING" /\ comp'[r].date = d
      /\ \A x \in CompReqs : x # r => comp'[x] = comp[x]
  BY <1>1 DEF Leaves!Submit, Leaves!TypeOK
<1>4. Leaves!Serial => comp[r].st = "none" /\ ~Leaves!AskedFor(d)
  BY <1>1 DEF CompInv
<1> HIDE DEF r, d
<1>5. ~Crediting(c) /\ ~Crediting(c)'
  BY <1>1, <1>2 DEF Crediting
<1>6. CreditInv'
  BY <1>1 DEF CreditInv, Leaves!CreditsInBalance
<1>7. \A x \in CompReqs : comp'[x].st # "none" => comp'[x].date \in Dates
  BY <1>1, <1>3 DEF CompInv
<1>8. Leaves!Serial => \A i, j \in CompReqs :
        Standing(i)' /\ Standing(j)' /\ comp'[i].date = comp'[j].date => i = j
  BY <1>3, <1>4 DEF CompInv, Standing, Leaves!AskedFor
<1>9. Leaves!Serial /\ "COMPENSATORY" \in duty.types /\ "switchType" \notin duty.ops =>
        \A x \in Dates :
          credited'[x] = IF \E j \in CompReqs : /\ comp'[j].st = "APPROVED"
                                                /\ Crediting(c)' => taking'[c].r # j
                                                /\ comp'[j].date = x
                         THEN 1 ELSE 0
  <2>1. Leaves!Serial => \A j \in CompReqs :
          /\ comp'[j].st = "APPROVED" <=> comp[j].st = "APPROVED"
          /\ comp[j].st = "APPROVED" => comp'[j].date = comp[j].date
    BY <1>3, <1>4
  <2>2. QED
    BY <1>1, <1>5, <2>1, CompOfOne
<1>10. CompInv'
  BY <1>1, <1>2, <1>3, <1>5, <1>7, <1>8, <1>9, CompAlone
<1>11. QED
  BY <1>6, <1>10

LEMMA ReadCompOffKeeps ==
  ASSUME duty \in Duties, duty' = duty, Leaves!TypeOK, TakingInv, TakingInv',
         CreditInv, CompInv, NEW c \in Calls, NEW k \in CompReqs,
         NEW op \in {"approveCompOff", "rejectCompOff"}, Leaves!ReadCompOff(c, op, k)
  PROVE  CreditInv' /\ CompInv'
<1>1. /\ c \in duty.calls /\ taking[c].pc = "idle" /\ comp[k].st = "PENDING"
      /\ UNCHANGED <<bal, comp, compType, credited>>
  BY DEF Leaves!ReadCompOff, Leaves!Free, Leaves!Answerable
<1>2. /\ taking'[c].op = op /\ taking'[c].pc = "stamp"
      /\ taking'[c].r = k /\ taking'[c].date = comp[k].date
      /\ \A x \in Calls : x # c => taking'[x] = taking[x]
  BY DEF Leaves!ReadCompOff, Leaves!Idle, Leaves!TypeOK
<1>3. ~Crediting(c) /\ ~Crediting(c)'
  BY <1>1, <1>2 DEF Crediting
<1>4. CreditInv'
  BY <1>1 DEF CreditInv, Leaves!CreditsInBalance
<1>5. \A x \in CompReqs : comp'[x].st # "none" => comp'[x].date \in Dates
  BY <1>1 DEF CompInv
<1>6. Leaves!Serial => \A i, j \in CompReqs :
        Standing(i)' /\ Standing(j)' /\ comp'[i].date = comp'[j].date => i = j
  BY <1>1 DEF CompInv, Standing
<1>7. Leaves!Serial /\ "COMPENSATORY" \in duty.types /\ "switchType" \notin duty.ops =>
        \A x \in Dates :
          credited'[x] = IF \E j \in CompReqs : /\ comp'[j].st = "APPROVED"
                                                /\ Crediting(c)' => taking'[c].r # j
                                                /\ comp'[j].date = x
                         THEN 1 ELSE 0
  BY <1>1, <1>3, CompOfOne
<1>8. CompInv'
  BY <1>1, <1>2, <1>3, <1>5, <1>6, <1>7, CompAlone
<1>9. QED
  BY <1>4, <1>8

LEMMA StampCompOffKeeps ==
  ASSUME duty \in Duties, duty' = duty, Leaves!TypeOK, TakingInv, TakingInv',
         CreditInv, CompInv, NEW c \in Calls,
         NEW op \in {"approveCompOff", "rejectCompOff"}, Leaves!StampCompOff(c, op)
  PROVE  CreditInv' /\ CompInv'
<1> DEFINE r == taking[c].r
<1>1. /\ taking[c].op = op /\ taking[c].pc = "stamp" /\ c \in duty.calls
      /\ r \in CompReqs /\ UNCHANGED <<bal, compType, credited>>
      /\ op = "approveCompOff" => taking[c].date \in Dates
  BY DEF Leaves!StampCompOff, Leaves!At, TakingInv, TakingShape
<1>2. /\ comp'[r].st = Leaves!Answer(op) /\ comp'[r].date = comp[r].date
      /\ \A x \in CompReqs : x # r => comp'[x] = comp[x]
  BY <1>1 DEF Leaves!StampCompOff, Leaves!TypeOK, Leaves!CompOffRequest
<1>3. \A x \in Calls : x # c => taking'[x] = taking[x]
  BY DEF Leaves!StampCompOff, Leaves!Goes, Leaves!Ended, Leaves!TypeOK
<1>4. op = "approveCompOff" =>
        /\ taking'[c].op = op /\ taking'[c].pc = "credit"
        /\ taking'[c].r = r /\ taking'[c].date = taking[c].date
  BY <1>1 DEF Leaves!StampCompOff, Leaves!Goes, Leaves!TypeOK, Leaves!CallState
<1>5. op # "approveCompOff" => taking'[c].op = "none" /\ taking'[c].pc = "idle"
  BY DEF Leaves!StampCompOff, Leaves!Ended, Leaves!Idle, Leaves!TypeOK
<1>6. Leaves!Serial =>
        comp[r].st = "PENDING" /\ (op = "approveCompOff" => comp[r].date = taking[c].date)
  BY <1>1 DEF CompInv
<1> HIDE DEF r
<1>7. ~Crediting(c) /\ (Crediting(c)' <=> op = "approveCompOff")
  BY <1>1, <1>4, <1>5 DEF Crediting
<1>8. CreditInv'
  BY <1>1 DEF CreditInv, Leaves!CreditsInBalance
<1>9. \A x \in CompReqs : comp'[x].st # "none" => comp'[x].date \in Dates
  BY <1>1, <1>2 DEF CompInv, r
<1>10. Leaves!Serial => \A i, j \in CompReqs :
         Standing(i)' /\ Standing(j)' /\ comp'[i].date = comp'[j].date => i = j
  <2>1. Leaves!Serial => \A x \in CompReqs :
          (Standing(x)' => Standing(x)) /\ comp'[x].date = comp[x].date
    BY <1>2, <1>6 DEF Standing
  <2>2. QED
    BY <2>1 DEF CompInv
<1>11. Leaves!Serial /\ "COMPENSATORY" \in duty.types /\ "switchType" \notin duty.ops =>
         \A x \in Dates :
           credited'[x] = IF \E j \in CompReqs : /\ comp'[j].st = "APPROVED"
                                                 /\ Crediting(c)' => taking'[c].r # j
                                                 /\ comp'[j].date = x
                          THEN 1 ELSE 0
  <2>1. Leaves!Serial => \A j \in CompReqs :
          /\ comp'[j].st = "APPROVED" /\ (Crediting(c)' => taking'[c].r # j)
             <=> comp[j].st = "APPROVED"
          /\ comp'[j].date = comp[j].date
    BY <1>2, <1>4, <1>6, <1>7 DEF Leaves!Answer
  <2>2. QED
    BY <1>1, <1>7, <2>1, CompOfOne
<1>12. \A x \in CompReqs : comp[x].st # "none" => comp'[x].st # "none"
  BY <1>2 DEF Leaves!Answer
<1>13. /\ taking'[c].pc \notin {"submit", "stamp", "insert"}
       /\ Crediting(c)' => comp'[taking'[c].r].st = "APPROVED"
       /\ Leaves!Serial /\ taking'[c].op = "approveCompOff"
            => comp'[taking'[c].r].date = taking'[c].date
  BY <1>2, <1>4, <1>5, <1>6, <1>7 DEF Leaves!Answer
<1>14. CompInv'
  BY <1>1, <1>3, <1>9, <1>10, <1>11, <1>12, <1>13, CompAlone
<1>15. QED
  BY <1>8, <1>14

(* The statements of an approval after the request is stamped. *)
LEMMA CreditStepsKeep ==
  ASSUME duty \in Duties, duty' = duty, Leaves!TypeOK, TakingInv, TakingInv', RequestInv,
         CreditInv, CompInv, NEW c \in Calls, taking[c].op = "approveCompOff",
         \/ Leaves!FindCompType(c) \/ Leaves!ReadBalance(c) \/ Leaves!IncrementTotal(c)
         \/ Leaves!InsertBalance(c) \/ Leaves!InsertRefused(c)
  PROVE  CreditInv' /\ CompInv'
<1> DEFINE r == taking[c].r
           d == taking[c].date
           t == "COMPENSATORY"
<1>1. /\ taking[c].pc \in {"credit", "balance", "increment", "insert"}
      /\ c \in duty.calls /\ r \in CompReqs /\ d \in Dates /\ taking[c].type = t
      /\ UNCHANGED <<comp, compType>>
  BY DEF Leaves!FindCompType, Leaves!ReadBalance, Leaves!IncrementTotal, Leaves!InsertBalance,
         Leaves!InsertRefused, Leaves!At, TakingInv, TakingShape
<1>2. Crediting(c)
  BY <1>1 DEF Crediting
<1>3. \A x \in Calls : x # c => taking'[x] = taking[x]
  BY DEF Leaves!FindCompType, Leaves!ReadBalance, Leaves!IncrementTotal, Leaves!InsertBalance,
         Leaves!InsertRefused, Leaves!Goes, Leaves!Ended, Leaves!TypeOK
<1>4. \A pc : Leaves!Goes(c, pc) =>
        /\ taking'[c].pc = pc /\ taking'[c].op = "approveCompOff"
        /\ taking'[c].r = r /\ taking'[c].type = t /\ taking'[c].date = d
  BY <1>1 DEF Leaves!Goes, Leaves!TypeOK, Leaves!CallState
<1>5. Leaves!Ended(c) => taking'[c].op = "none" /\ taking'[c].pc = "idle"
  BY DEF Leaves!Ended, Leaves!Idle, Leaves!TypeOK
<1>6. Leaves!Serial => comp[r].st = "APPROVED" /\ comp[r].date = d
  BY <1>1, <1>2 DEF CompInv
<1>7. t \in Leaves!Types /\ bal[t] \in Leaves!LeaveBalance /\ credited \in [Dates -> Nat]
  BY DEF Leaves!Types, Leaves!TypeOK
<1> HIDE DEF r, d, t
<1>8. /\ \A x \in CompReqs : comp[x].st # "none" => comp'[x].st # "none"
      /\ \A x \in CompReqs : comp'[x].st # "none" => comp'[x].date \in Dates
      /\ Leaves!Serial => \A i, j \in CompReqs :
           Standing(i)' /\ Standing(j)' /\ comp'[i].date = comp'[j].date => i = j
  BY <1>1 DEF CompInv, Standing
<1>9. ASSUME NEW pc \in {"balance", "increment", "insert"}, Leaves!Goes(c, pc),
             UNCHANGED <<bal, credited>>, pc = "insert" => ~bal[t].has
      PROVE  CreditInv' /\ CompInv'
  <2>1. CreditInv'
    BY <1>9 DEF CreditInv, Leaves!CreditsInBalance
  <2>2. /\ taking'[c].pc = pc /\ taking'[c].op = "approveCompOff"
        /\ taking'[c].r = r /\ taking'[c].type = t /\ taking'[c].date = d
    BY <1>4, <1>9
  <2>3. Crediting(c)'
    BY <2>2 DEF Crediting
  <2>4. Leaves!Serial /\ "COMPENSATORY" \in duty.types /\ "switchType" \notin duty.ops =>
          \A x \in Dates :
            credited'[x] = IF \E j \in CompReqs : /\ comp'[j].st = "APPROVED"
                                                  /\ Crediting(c)' => taking'[c].r # j
                                                  /\ comp'[j].date = x
                           THEN 1 ELSE 0
    BY <1>1, <1>2, <1>9, <2>2, <2>3, CompOfOne DEF r
  <2>5. /\ taking'[c].pc \notin {"submit", "stamp"}
        /\ Leaves!Serial => comp'[taking'[c].r].st = "APPROVED"
                            /\ comp'[taking'[c].r].date = taking'[c].date
        /\ taking'[c].pc = "insert" => ~bal'[taking'[c].type].has
    BY <1>1, <1>6, <1>9, <2>2
  <2>6. CompInv'
    BY <1>1, <1>3, <1>8, <2>4, <2>5, CompAlone
  <2>7. QED
    BY <2>1, <2>6
<1>10. ASSUME Leaves!Ended(c), CreditInv',
              Leaves!Serial /\ "COMPENSATORY" \in duty.types /\ "switchType" \notin duty.ops
                => credited' = [credited EXCEPT ![d] = @ + 1]
       PROVE  CreditInv' /\ CompInv'
  <2>1. ~Crediting(c)'
    BY <1>5, <1>10 DEF Crediting
  <2>2. ASSUME Leaves!Serial, "COMPENSATORY" \in duty.types, "switchType" \notin duty.ops,
               NEW x \in Dates
        PROVE  credited'[x] = IF \E j \in CompReqs : /\ comp'[j].st = "APPROVED"
                                                      /\ comp'[j].date = x
                              THEN 1 ELSE 0
    <3>1. credited[x] = IF \E j \in CompReqs : comp[j].st = "APPROVED" /\ r # j
                                                /\ comp[j].date = x
                        THEN 1 ELSE 0
      BY <1>1, <1>2, <2>2, CompOfOne DEF r
    <3>2. \A j \in CompReqs : comp[j].st = "APPROVED" /\ comp[j].date = d => j = r
      BY <1>1, <1>6, <2>2 DEF CompInv, Standing
    <3>3. CASE x = d
      <4>1. credited[d] = 0
        BY <3>1, <3>2, <3>3
      <4>2. credited'[d] = 1
        BY <4>1, <1>1, <1>7, <1>10, <2>2
      <4>3. QED
        BY <3>3, <4>2, <1>1, <1>6, <2>2
    <3>4. CASE x # d
      <4>1. credited'[x] = credited[x]
        BY <3>4, <1>7, <1>10, <2>2
      <4>2. QED
        BY <3>1, <3>4, <4>1, <1>1, <1>6, <2>2
    <3>5. QED
      BY <3>3, <3>4
  <2>3. /\ taking'[c].op = "none" /\ taking'[c].pc = "idle"
    BY <1>5, <1>10
  <2>4. CompInv'
    BY <1>1, <1>3, <1>8, <2>1, <2>2, <2>3, CompAlone
  <2>5. QED
    BY <1>10, <2>4
<1>11. CASE Leaves!FindCompType(c)
  <2>1. CASE compType
    BY <2>1, <1>9, <1>11 DEF Leaves!FindCompType
  <2>2. CASE ~compType
    <3>1. Leaves!Ended(c) /\ UNCHANGED <<bal, credited>>
      BY <2>2, <1>11 DEF Leaves!FindCompType
    <3>2. CreditInv'
      BY <3>1 DEF CreditInv, Leaves!CreditsInBalance
    <3>3. ~("COMPENSATORY" \in duty.types /\ "switchType" \notin duty.ops)
      BY <2>2 DEF CompInv
    <3>4. QED
      BY <3>1, <3>2, <3>3, <1>10
  <2>3. QED
    BY <2>1, <2>2
<1>12. CASE Leaves!ReadBalance(c)
  BY <1>1, <1>9, <1>12 DEF Leaves!ReadBalance
<1>13. CASE Leaves!IncrementTotal(c) \/ Leaves!InsertBalance(c)
  <2>1. Leaves!Ended(c) /\ credited' = [credited EXCEPT ![d] = @ + 1]
    BY <1>13 DEF Leaves!IncrementTotal, Leaves!InsertBalance, Leaves!Credit, Leaves!IsCredit, d
  <2>2. \A n : Leaves!TotalWritten(c, n) = n + 1
    BY DEF Leaves!TotalWritten
  <2>3. bal'[t].total = bal[t].total + 1
    <3>1. CASE Leaves!IncrementTotal(c)
      BY <3>1, <2>2, <1>1, <1>7 DEF Leaves!IncrementTotal, Leaves!TypeOK, Leaves!LeaveBalance
    <3>2. CASE Leaves!InsertBalance(c)
      <4>1. bal[t].total = 0
        BY <3>2, <1>1, <1>7 DEF Leaves!InsertBalance, RequestInv
      <4>2. bal'[t].total = Leaves!TotalWritten(c, 0)
        BY <3>2, <1>1, <1>7 DEF Leaves!InsertBalance, Leaves!TypeOK
      <4>3. QED
        BY <2>2, <4>1, <4>2
    <3>3. QED
      BY <1>13, <3>1, <3>2
  <2>4. Leaves!Amount(Dates, credited') = Leaves!Amount(Dates, credited) + 1
    BY <2>1, <1>1, <1>7, Finite, AmountRaised
  <2>5. CreditInv'
    BY <2>3, <2>4 DEF CreditInv, Leaves!CreditsInBalance, t
  <2>6. QED
    BY <2>1, <2>5, <1>10
<1>14. CASE Leaves!InsertRefused(c)
  <2>1. Leaves!Ended(c) /\ UNCHANGED <<bal, credited>> /\ taking[c].pc = "insert" /\ bal[t].has
    BY <1>1, <1>14 DEF Leaves!InsertRefused
  <2>2. CreditInv'
    BY <2>1 DEF CreditInv, Leaves!CreditsInBalance
  <2>3. ~Leaves!Serial
    BY <2>1, <1>1 DEF CompInv
  <2>4. QED
    BY <2>1, <2>2, <2>3, <1>10
<1>15. QED
  BY <1>11, <1>12, <1>13, <1>14

(* The accrual, the confirmation and HR's switches credit nothing. *)
LEMMA CasualStepsAside ==
  ASSUME duty \in Duties, duty' = duty, Leaves!TypeOK, Leaves!TypeOK', TakingInv, TakingInv',
         CreditInv, CompInv, NEW c \in Calls, taking[c].op # "approveCompOff",
         \/ Leaves!Accrue(c) \/ Leaves!ReadBalance(c) \/ Leaves!IncrementTotal(c)
         \/ Leaves!InsertBalance(c) \/ Leaves!InsertRefused(c)
         \/ Leaves!ReadEmployee(c) \/ Leaves!Confirm(c) \/ Leaves!SetStatus(c)
         \/ Leaves!SwitchCompType(c)
  PROVE  CreditInv' /\ CompInv'
<1>1. /\ taking[c] \in Leaves!CallState /\ TakingShape(taking[c])
      /\ taking[c].pc # "idle" => c \in duty.calls
  BY DEF Leaves!TypeOK, TakingInv
<1>2. Leaves!Ended(c) =>
        /\ \A k \in Calls : k # c => taking'[k] = taking[k]
        /\ taking'[c].op = "none" /\ taking'[c].pc = "idle"
  BY DEF Leaves!Ended, Leaves!Idle, Leaves!TypeOK
<1>3. \A pc : Leaves!Goes(c, pc) =>
        /\ \A k \in Calls : k # c => taking'[k] = taking[k]
        /\ taking'[c].pc = pc /\ taking'[c].op = taking[c].op /\ taking'[c].type = taking[c].type
  BY DEF Leaves!Goes, Leaves!TypeOK, Leaves!CallState
<1>4. CASE /\ Leaves!Accrue(c) \/ Leaves!ReadEmployee(c)
           /\ taking' # taking
  <2>1. /\ c \in duty.calls /\ taking[c].op = "none"
        /\ taking'[c].op \in {"accrueMonthly", "confirm"}
        /\ taking'[c].pc \in {"balance", "activate"}
        /\ \A k \in Calls : k # c => taking'[k] = taking[k]
        /\ UNCHANGED <<bal, comp, compType, credited>>
    <3>1. CASE Leaves!Accrue(c)
      <4>1. c \in duty.calls /\ taking[c].op = "none" /\ UNCHANGED <<bal, comp, compType, credited>>
        BY <1>1, <3>1 DEF Leaves!Accrue, Leaves!Free, TakingShape
      <4>2. /\ taking'[c].op = "accrueMonthly" /\ taking'[c].pc = "balance"
            /\ \A k \in Calls : k # c => taking'[k] = taking[k]
        BY <1>4, <3>1 DEF Leaves!Accrue, Leaves!Idle, Leaves!TypeOK
      <4>3. QED
        BY <4>1, <4>2
    <3>2. CASE Leaves!ReadEmployee(c)
      <4>1. c \in duty.calls /\ taking[c].op = "none" /\ UNCHANGED <<bal, comp, compType, credited>>
        BY <1>1, <3>2 DEF Leaves!ReadEmployee, Leaves!Free, TakingShape
      <4>2. /\ taking'[c].op = "confirm" /\ taking'[c].pc = "activate"
            /\ \A k \in Calls : k # c => taking'[k] = taking[k]
        BY <3>2 DEF Leaves!ReadEmployee, Leaves!Idle, Leaves!TypeOK
      <4>3. QED
        BY <4>1, <4>2
    <3>3. QED
      BY <1>4, <3>1, <3>2
  <2>2. QED
    BY <2>1, CompAside
<1>5. CASE /\ Leaves!Accrue(c) \/ Leaves!SetStatus(c) \/ Leaves!SwitchCompType(c)
           /\ taking' = taking
  <2>1. /\ c \in duty.calls /\ taking[c].op = "none" /\ taking[c].pc = "idle"
        /\ UNCHANGED <<bal, comp, credited>>
        /\ compType' = compType \/ "switchType" \in duty.ops
    BY <1>1, <1>5 DEF Leaves!Accrue, Leaves!SetStatus, Leaves!SwitchCompType, Leaves!Free,
                      TakingShape
  <2>2. QED
    BY <2>1, <1>5, CompAside
<1>6. CASE Leaves!Confirm(c)
  <2>1. /\ taking[c].op = "confirm" /\ c \in duty.calls /\ Leaves!Goes(c, "balance")
        /\ UNCHANGED <<bal, comp, compType, credited>>
    BY <1>1, <1>6 DEF Leaves!Confirm, Leaves!At
  <2>2. QED
    BY <2>1, <1>3, CompAside
<1>7. CASE \/ Leaves!ReadBalance(c) \/ Leaves!IncrementTotal(c)
           \/ Leaves!InsertBalance(c) \/ Leaves!InsertRefused(c)
  <2>1. /\ taking[c].op \in {"accrueMonthly", "confirm"} /\ taking[c].type = "CASUAL"
        /\ c \in duty.calls /\ UNCHANGED <<comp, compType>>
    BY <1>1, <1>7 DEF Leaves!ReadBalance, Leaves!IncrementTotal, Leaves!InsertBalance,
                      Leaves!InsertRefused, TakingShape, Leaves!CallState, Leaves!Op
  <2>2. bal'["COMPENSATORY"] = bal["COMPENSATORY"] /\ credited' = credited
    BY <1>7, <2>1 DEF Leaves!ReadBalance, Leaves!IncrementTotal, Leaves!InsertBalance,
                      Leaves!InsertRefused, Leaves!Credit, Leaves!IsCredit, Leaves!TypeOK,
                      Leaves!Types
  <2>3. \/ Leaves!Ended(c) \/ Leaves!Goes(c, "increment")
        \/ Leaves!Goes(c, "insert") /\ ~bal[taking[c].type].has /\ bal' = bal
    BY <1>7 DEF Leaves!ReadBalance, Leaves!IncrementTotal, Leaves!InsertBalance,
                Leaves!InsertRefused
  <2>4. QED
    BY <2>1, <2>2, <2>3, <1>2, <1>3, CompAside
<1>8. Leaves!ReadEmployee(c) => taking' # taking
  <2>1. Leaves!ReadEmployee(c) => taking'[c].pc = "activate" /\ taking[c].pc = "idle"
    BY DEF Leaves!ReadEmployee, Leaves!Free, Leaves!Idle, Leaves!TypeOK
  <2>2. QED
    BY <2>1
<1>9. Leaves!SetStatus(c) \/ Leaves!SwitchCompType(c) => taking' = taking
  BY DEF Leaves!SetStatus, Leaves!SwitchCompType
<1>10. QED
  BY <1>4, <1>5, <1>6, <1>7, <1>8, <1>9

(* Every step of the leave keeps the invariant. *)
LEMMA LeaveStep ==
  ASSUME LeaveInv, duty' = duty, Leaves!Next
  PROVE  LeaveInv'
<1>1. PICK c \in Calls :
        \/ \E r \in Reqs, t \in duty.types, d \in duty.sizes : Leaves!CheckBalance(c, r, t, d)
        \/ Leaves!CreateRequest(c) \/ Leaves!ReservePending(c)
        \/ \E op \in {"approve", "reject"} :
             \/ \E r \in Reqs : Leaves!ReadRequest(c, op, r)
             \/ Leaves!WriteStatus(c, op) \/ Leaves!MoveBalance(c, op)
        \/ Leaves!Accrue(c) \/ Leaves!ReadBalance(c) \/ Leaves!IncrementTotal(c)
        \/ Leaves!InsertBalance(c) \/ Leaves!InsertRefused(c)
        \/ Leaves!ReadEmployee(c) \/ Leaves!Confirm(c) \/ Leaves!SetStatus(c)
        \/ Leaves!SwitchCompType(c)
        \/ \E k \in CompReqs, d \in Dates : Leaves!StartSubmit(c, k, d)
        \/ Leaves!Submit(c) \/ Leaves!FindCompType(c)
        \/ \E op \in {"approveCompOff", "rejectCompOff"} :
             \/ \E k \in CompReqs : Leaves!ReadCompOff(c, op, k)
             \/ Leaves!StampCompOff(c, op)
  BY DEF Leaves!Next
<1>2. /\ duty \in Duties /\ Leaves!TypeOK /\ TakingInv /\ RequestInv /\ FoundInv
      /\ AnswerInv /\ BalanceInv /\ RoomInv /\ CreditInv /\ CompInv
  BY DEF LeaveInv
<1>3. Leaves!TypeOK' /\ TakingInv'
  BY <1>2, LeaveTyped
<1>4. CASE \/ \E r \in Reqs, t \in duty.types, d \in duty.sizes : Leaves!CheckBalance(c, r, t, d)
           \/ Leaves!CreateRequest(c) \/ Leaves!ReservePending(c)
           \/ \E op \in {"approve", "reject"} :
                \/ \E r \in Reqs : Leaves!ReadRequest(c, op, r)
                \/ Leaves!WriteStatus(c, op) \/ Leaves!MoveBalance(c, op)
  <2>1. RequestInv' /\ AnswerInv' /\ BalanceInv' /\ RoomInv'
    BY <1>2, <1>3, <1>4, CheckBalanceKeeps, CreateRequestKeeps, ReservePendingKeeps,
       ReadRequestKeeps, WriteStatusKeeps, MoveBalanceKeeps
  <2>2. FoundInv'
    BY <1>2, <1>4, RequestStepsFind
  <2>3. CreditInv' /\ CompInv'
    <3>1. /\ UNCHANGED <<comp, compType, credited>> /\ c \in duty.calls
          /\ bal'["COMPENSATORY"].total = bal["COMPENSATORY"].total
          /\ \A k \in Calls : k # c => taking'[k] = taking[k]
          /\ taking[c].op \in {"none", "apply", "approve", "reject"}
          /\ taking'[c].op \in {"none", "apply", "approve", "reject"}
          /\ taking'[c].pc \notin {"increment", "insert"}
      BY <1>2, <1>4, RequestStepsAside DEF Leaves!Types
    <3>2. QED
      BY <1>2, <1>3, <3>1, CompAside
  <2>4. QED
    BY <1>2, <1>3, <2>1, <2>2, <2>3 DEF LeaveInv
<1>5. CASE \/ Leaves!Accrue(c) \/ Leaves!ReadBalance(c) \/ Leaves!IncrementTotal(c)
           \/ Leaves!InsertBalance(c) \/ Leaves!InsertRefused(c)
           \/ Leaves!ReadEmployee(c) \/ Leaves!Confirm(c) \/ Leaves!SetStatus(c)
           \/ Leaves!SwitchCompType(c)
  <2>1. RequestInv' /\ AnswerInv' /\ BalanceInv' /\ RoomInv' /\ FoundInv'
    BY <1>2, <1>3, <1>5, OtherStepsKeep
  <2>2. CASE taking[c].op # "approveCompOff"
    <3>1. CreditInv' /\ CompInv'
      BY <1>2, <1>3, <1>5, <2>2, CasualStepsAside
    <3>2. QED
      BY <1>2, <1>3, <2>1, <3>1 DEF LeaveInv
  <2>3. CASE taking[c].op = "approveCompOff"
    <3>1. /\ taking[c].pc # "idle" /\ ~Leaves!At(c, "confirm", "activate")
      BY <1>2, <2>3 DEF TakingInv, TakingShape, Leaves!At
    <3>2. \/ Leaves!ReadBalance(c) \/ Leaves!IncrementTotal(c)
          \/ Leaves!InsertBalance(c) \/ Leaves!InsertRefused(c)
      BY <1>5, <3>1 DEF Leaves!Accrue, Leaves!ReadEmployee, Leaves!Confirm, Leaves!SetStatus,
                        Leaves!SwitchCompType, Leaves!Free
    <3>3. CreditInv' /\ CompInv'
      BY <1>2, <1>3, <2>3, <3>2, CreditStepsKeep
    <3>4. QED
      BY <1>2, <1>3, <2>1, <3>3 DEF LeaveInv
  <2>4. QED
    BY <2>2, <2>3
<1>6. CASE \/ \E k \in CompReqs, d \in Dates : Leaves!StartSubmit(c, k, d)
           \/ Leaves!Submit(c) \/ Leaves!FindCompType(c)
           \/ \E op \in {"approveCompOff", "rejectCompOff"} :
                \/ \E k \in CompReqs : Leaves!ReadCompOff(c, op, k)
                \/ Leaves!StampCompOff(c, op)
  <2>1. RequestInv' /\ AnswerInv' /\ BalanceInv' /\ RoomInv' /\ FoundInv'
    BY <1>2, <1>3, <1>6, OtherStepsKeep
  <2>2. CASE Leaves!FindCompType(c)
    <3>1. taking[c].op = "approveCompOff"
      BY <2>2 DEF Leaves!FindCompType, Leaves!At
    <3>2. CreditInv' /\ CompInv'
      BY <1>2, <1>3, <2>2, <3>1, CreditStepsKeep
    <3>3. QED
      BY <1>2, <1>3, <2>1, <3>2 DEF LeaveInv
  <2>3. CASE ~Leaves!FindCompType(c)
    <3>1. CreditInv' /\ CompInv'
      BY <1>2, <1>3, <1>6, <2>3, StartSubmitKeeps, SubmitKeeps, ReadCompOffKeeps,
         StampCompOffKeeps
    <3>2. QED
      BY <1>2, <1>3, <2>1, <3>1 DEF LeaveInv
  <2>4. QED
    BY <2>2, <2>3
<1>7. QED
  BY <1>1, <1>4, <1>5, <1>6

LEMMA LeaveStutters ==
  ASSUME LeaveInv, UNCHANGED <<duty, leave>>
  PROVE  LeaveInv'
<1>1. UNCHANGED <<duty, taking, standing, bal, req, comp, compType, credited>>
  BY DEF leave
<1>2. duty' \in Duties /\ Leaves!TypeOK' /\ TakingInv'
  BY <1>1 DEF LeaveInv, Leaves!TypeOK, TakingInv
<1>3. RequestInv' /\ FoundInv' /\ AnswerInv' /\ RoomInv' /\ CreditInv'
  BY <1>1 DEF LeaveInv, RequestInv, FoundInv, AnswerInv, RoomInv, CreditInv, OneAnswer,
              Applies, Answers, Leaves!Serial, Leaves!CreditsInBalance
<1>4. BalanceInv'
  BY <1>1 DEF LeaveInv, BalanceInv, OneAnswer, Unreserved, Moving, Waiting, Granted, Casual
<1>5. CompInv'
  <2>1. /\ \A k \in CompReqs : Standing(k)' <=> Standing(k)
        /\ \A k \in Calls : Crediting(k)' <=> Crediting(k)
        /\ \A k \in Calls : Leaves!AskedFor(taking[k].date)' <=> Leaves!AskedFor(taking[k].date)
        /\ Leaves!Serial' <=> Leaves!Serial
    BY <1>1 DEF Standing, Crediting, Leaves!AskedFor, Leaves!Serial
  <2>2. Credited' = Credited
    BY <1>1, <2>1 DEF Credited
  <2>3. QED
    BY <1>1, <2>1, <2>2 DEF LeaveInv, CompInv
<1>6. QED
  BY <1>2, <1>3, <1>4, <1>5 DEF LeaveInv

LEMMA NothingAmounts ==
  /\ \A S, n : (\A x \in S : n[x] = 0) => Leaves!Amount(S, n) = 0
  /\ \A q : DaysIn(q, {}) = 0
<1>1. ASSUME NEW S, NEW n, \A x \in S : n[x] = 0
      PROVE  Leaves!Amount(S, n) = 0
  <2>1. \A x \in S : {x} \X (1 .. n[x]) = {}
    BY <1>1
  <2>2. Units(S, n) = {}
    BY <2>1 DEF Units
  <2>3. QED
    BY <2>2, AmountOfUnits, FS_EmptySet
<1>2. ASSUME NEW q PROVE DaysIn(q, {}) = 0
  BY <1>1 DEF DaysIn, Leaves!Net
<1>3. QED
  BY <1>1, <1>2

LEMMA LeaveStarts ==
  ASSUME duty \in Duties, Leaves!Init
  PROVE  LeaveInv
<1>1. /\ req = [r \in Reqs |-> [st |-> "none", type |-> "none", days |-> 0]]
      /\ comp = [k \in CompReqs |-> [st |-> "none", date |-> NoDate]]
      /\ compType = ("COMPENSATORY" \in duty.types)
      /\ credited = [d \in Dates |-> 0]
      /\ taking = [c \in Calls |-> Leaves!Idle]
      /\ standing \in Leaves!EmployeeStatus
  BY DEF Leaves!Init, Leaves!EmployeeStatus
<1>2. /\ bal \in [Leaves!Types -> Leaves!LeaveBalance]
      /\ bal["CASUAL"].used = 0 /\ bal["CASUAL"].pending = 0
      /\ bal["COMPENSATORY"].total = 0
      /\ \A t \in Leaves!Types :
           ~bal[t].has => bal[t].total = 0 /\ bal[t].used = 0 /\ bal[t].pending = 0
  <2>1. CASE bal = [t \in Leaves!Types |-> [has |-> FALSE, total |-> 0, used |-> 0,
                                            pending |-> 0]]
    BY <2>1 DEF Leaves!Types, Leaves!LeaveBalance
  <2>2. ASSUME NEW n \in Nat,
               bal = [t \in Leaves!Types |->
                        [has |-> t = "CASUAL" /\ n > 0,
                         total |-> IF t = "CASUAL" THEN n ELSE 0,
                         used |-> 0, pending |-> 0]]
        PROVE  /\ bal \in [Leaves!Types -> Leaves!LeaveBalance]
               /\ bal["CASUAL"].used = 0 /\ bal["CASUAL"].pending = 0
               /\ bal["COMPENSATORY"].total = 0
               /\ \A t \in Leaves!Types :
                    ~bal[t].has => bal[t].total = 0 /\ bal[t].used = 0 /\ bal[t].pending = 0
    <3>1. \A t \in Leaves!Types :
            /\ bal[t] = [has |-> t = "CASUAL" /\ n > 0,
                         total |-> IF t = "CASUAL" THEN n ELSE 0,
                         used |-> 0, pending |-> 0]
            /\ bal[t].has <=> t = "CASUAL" /\ n > 0
            /\ bal[t].total = (IF t = "CASUAL" THEN n ELSE 0)
            /\ bal[t].used = 0 /\ bal[t].pending = 0
      BY <2>2
    <3>2. bal \in [Leaves!Types -> Leaves!LeaveBalance]
      BY <2>2 DEF Leaves!LeaveBalance
    <3>3. QED
      BY <3>1, <3>2 DEF Leaves!Types
  <2>3. 0 .. (IF "CASUAL" \in duty.types THEN Yearly ELSE 0) \subseteq Nat
    BY DutyTyped
  <2>4. QED
    BY <2>1, <2>2, <2>3 DEF Leaves!Init
<1>3. /\ \A r \in Reqs : req[r].st = "none"
      /\ \A k \in CompReqs : comp[k].st = "none"
      /\ \A c \in Calls : taking[c] = Leaves!Idle
  BY <1>1
<1>4. Leaves!Idle.pc = "idle" /\ Leaves!Idle.op = "none"
  BY DEF Leaves!Idle
<1>5. Leaves!TypeOK
  <2>1. /\ req \in [Reqs -> Leaves!LeaveRequest] /\ comp \in [CompReqs -> Leaves!CompOffRequest]
        /\ compType \in BOOLEAN /\ credited \in [Dates -> Nat]
    BY <1>1 DEF Leaves!LeaveRequest, Leaves!CompOffRequest
  <2>2. taking \in [Calls -> Leaves!CallState]
    BY <1>1, LeaveIdle
  <2>3. QED
    BY <1>1, <1>2, <2>1, <2>2 DEF Leaves!TypeOK
<1>6. TakingInv
  BY <1>3, <1>4, LeaveIdle DEF TakingInv
<1>7. RequestInv /\ FoundInv /\ AnswerInv /\ RoomInv
  BY <1>2, <1>3, <1>4 DEF RequestInv, FoundInv, AnswerInv, RoomInv, Applies, Answers
<1>8. BalanceInv
  <2>1. /\ Unreserved = {} /\ Moving = {} /\ Waiting = {} /\ Granted = {}
    BY <1>3, <1>4 DEF Unreserved, Moving, Waiting, Granted, Casual
  <2>2. Waiting \cup Moving = {} /\ Moving \cap Granted = {}
    BY <2>1
  <2>3. QED
    BY <1>2, <2>1, <2>2, NothingAmounts DEF BalanceInv
<1>9. CreditInv
  BY <1>1, <1>2, NothingAmounts DEF CreditInv, Leaves!CreditsInBalance
<1>10. CompInv
  <2>1. \A k \in CompReqs : ~Standing(k)
    BY <1>3 DEF Standing
  <2>2. Credited = {}
    BY <1>3 DEF Credited
  <2>3. QED
    BY <1>1, <1>3, <1>4, <2>1, <2>2 DEF CompInv, Crediting
<1>11. QED
  BY <1>5, <1>6, <1>7, <1>8, <1>9, <1>10 DEF LeaveInv

(* The reservation of an application, alone, finds the room that its check *)
(* has seen.                                                               *)
LEMMA ReservingFindsRoom ==
  ASSUME LeaveInv, duty' = duty, Leaves!Next
  PROVE  Leaves!NeverOverdrawn
<1>1. /\ duty \in Duties /\ Leaves!TypeOK /\ TakingInv /\ RequestInv /\ RoomInv
  BY DEF LeaveInv
<1>2. /\ \A t \in Leaves!Types : bal[t] \in Leaves!LeaveBalance
      /\ "CASUAL" \in Leaves!Types
  BY <1>1 DEF Leaves!TypeOK, Leaves!Types
<1>3. SUFFICES ASSUME Leaves!Serial, NEW a \in Calls, Leaves!At(a, "apply", "reserve"),
                      bal'["CASUAL"].pending > bal["CASUAL"].pending
               PROVE  bal'["CASUAL"].used + bal'["CASUAL"].pending <= bal'["CASUAL"].total
  BY DEF Leaves!NeverOverdrawn
<1>4. /\ Applies(a) /\ taking[a].pc = "reserve" /\ a \in duty.calls
      /\ taking[a].type = "CASUAL" /\ taking[a].days \in Int
  <2>1. taking[a] \in Leaves!CallState
    BY <1>1 DEF Leaves!TypeOK
  <2>2. QED
    BY <1>1, <1>3, <2>1, DutyTyped
       DEF Leaves!At, Applies, RequestInv, TakingInv, Leaves!CallState
<1>5. bal' # bal
  BY <1>2, <1>3, RowFields
<1>6. PICK c \in Calls :
        \/ Leaves!ReservePending(c)
        \/ \E op \in {"approve", "reject"} : Leaves!MoveBalance(c, op)
        \/ Leaves!IncrementTotal(c) \/ Leaves!InsertBalance(c)
  BY <1>5 DEF Leaves!Next, Leaves!CheckBalance, Leaves!CreateRequest, Leaves!ReadRequest,
         Leaves!WriteStatus, Leaves!Accrue, Leaves!ReadBalance, Leaves!InsertRefused,
         Leaves!ReadEmployee, Leaves!Confirm, Leaves!SetStatus, Leaves!SwitchCompType,
         Leaves!StartSubmit, Leaves!Submit, Leaves!FindCompType, Leaves!ReadCompOff,
         Leaves!StampCompOff
<1>7. c = a
  <2>1. taking[c].pc # "idle"
    BY <1>6 DEF Leaves!ReservePending, Leaves!MoveBalance, Leaves!IncrementTotal,
                Leaves!InsertBalance, Leaves!At
  <2>2. QED
    BY <1>1, <1>3, <1>4, <2>1, TakingAlone
<1>8. Leaves!ReservePending(a)
  BY <1>4, <1>6, <1>7 DEF Leaves!MoveBalance, Leaves!IncrementTotal, Leaves!InsertBalance, Leaves!At
<1>9. taking[a].days <= bal["CASUAL"].total - bal["CASUAL"].used - bal["CASUAL"].pending
  BY <1>1, <1>3, <1>4 DEF RoomInv
<1>10. /\ bal'["CASUAL"].pending = bal["CASUAL"].pending + taking[a].days
       /\ bal'["CASUAL"].used = bal["CASUAL"].used
       /\ bal'["CASUAL"].total = bal["CASUAL"].total
  BY <1>1, <1>2, <1>4, <1>8 DEF Leaves!ReservePending, Leaves!TypeOK, Leaves!LeaveBalance
<1>11. QED
  BY <1>1, <1>4, <1>9, <1>10, CasualTyped

LEMMA LeaveAgreesThen ==
  ASSUME LeaveInv
  PROVE  LeaveAgrees
<1>1. Leaves!BalanceMatches
  <2>1. SUFFICES ASSUME Leaves!Quiet, OneAnswer
                 PROVE  /\ bal["CASUAL"].pending = Leaves!DaysOf("CASUAL", "PENDING")
                        /\ bal["CASUAL"].used = Leaves!DaysOf("CASUAL", "APPROVED")
    BY DEF Leaves!BalanceMatches, OneAnswer
  <2>2. Unreserved = {} /\ Moving = {}
    BY <2>1 DEF Leaves!Quiet, Unreserved, Moving, Casual
  <2>3. Waiting \cup Moving = Waiting /\ Moving \cap Granted = {}
    BY <2>2
  <2>4. /\ bal["CASUAL"].pending + DaysIn(req, Unreserved) = DaysIn(req, Waiting)
        /\ bal["CASUAL"].used + DaysIn(req, {}) = DaysIn(req, Granted)
    BY <2>1, <2>3 DEF LeaveInv, BalanceInv
  <2>5. /\ bal["CASUAL"].pending = DaysIn(req, Waiting)
        /\ bal["CASUAL"].used = DaysIn(req, Granted)
    BY <2>2, <2>4, NothingAmounts, CasualTyped DEF LeaveInv
  <2>6. /\ Waiting = {r \in Reqs : req[r].st = "PENDING" /\ req[r].type = "CASUAL"}
        /\ Granted = {r \in Reqs : req[r].st = "APPROVED" /\ req[r].type = "CASUAL"}
    BY DEF Waiting, Granted, Casual
  <2>7. QED
    BY <2>5, <2>6 DEF Leaves!DaysOf, DaysIn
<1>2. Leaves!CreditsInBalance
  BY DEF LeaveInv, CreditInv
<1>3. Leaves!CreditedOnce
  <2>1. SUFFICES ASSUME Leaves!Quiet, Leaves!Serial, "COMPENSATORY" \in duty.types,
                        "switchType" \notin duty.ops, NEW d \in Dates
                 PROVE  /\ credited[d] <= 1
                        /\ credited[d] = Leaves!Cardinality({k \in CompReqs :
                             comp[k].st = "APPROVED" /\ comp[k].date = d})
    BY DEF Leaves!CreditedOnce
  <2> DEFINE K == {k \in CompReqs : comp[k].st = "APPROVED" /\ comp[k].date = d}
  <2>2. \A c \in Calls : ~Crediting(c)
    BY <2>1 DEF Leaves!Quiet, Crediting
  <2>3. credited[d] = IF K # {} THEN 1 ELSE 0
    <3>1. Credited = {k \in CompReqs : comp[k].st = "APPROVED"}
      BY <2>2 DEF Credited
    <3>2. credited[d] = IF \E k \in Credited : comp[k].date = d THEN 1 ELSE 0
      BY <2>1 DEF LeaveInv, CompInv
    <3>3. QED
      BY <3>1, <3>2
  <2>4. \A j, k \in K : j = k
    BY <2>1 DEF LeaveInv, CompInv, Standing
  <2>5. CASE K = {}
    BY <2>3, <2>5, FS_EmptySet, SameCardinality
  <2>6. CASE K # {}
    <3>1. PICK k : K = {k}
      BY <2>4, <2>6
    <3>2. Cardinality(K) = 1
      BY <3>1, FS_Singleton
    <3> HIDE DEF K
    <3>3. Leaves!Cardinality(K) = 1
      BY <3>2, SameCardinality
    <3>4. QED
      BY <2>3, <2>6, <3>3 DEF K
  <2>7. QED
    BY <2>5, <2>6
<1>4. QED
  BY <1>1, <1>2, <1>3 DEF LeaveAgrees

(* The parts of a behaviour that are not the leave never touch it. *)
LEMMA StaffStep ==
  ASSUME [StaffNext]_staff
  PROVE  duty' = duty /\ (Leaves!Next \/ UNCHANGED leave)
<1>1. CASE StaffNext
  BY <1>1 DEF StaffNext, KeepJoining, KeepPapers, KeepLeave, KeepDay, KeepExit, Crash
<1>2. CASE UNCHANGED staff
  BY <1>2 DEF staff
<1>3. QED
  BY <1>1, <1>2

LEMMA LeaveInvariant == StaffSpec => []LeaveInv
<1>1. StaffInit => LeaveInv
  BY LeaveStarts DEF StaffInit
<1>2. LeaveInv /\ [StaffNext]_staff => LeaveInv'
  BY StaffStep, LeaveStep, LeaveStutters
<1>3. QED
  BY <1>1, <1>2, PTL DEF StaffSpec

(* Leave: once the calls are over, the casual days reserved and used are   *)
(* those of the requests waiting and approved, whatever applications,      *)
(* answers, accruals and confirmations ran at once; every compensatory day *)
(* was credited, and by one call at a time once for each approval.         *)
THEOREM BalancesAgree == StaffSpec => []LeaveAgrees
<1>1. LeaveInv => LeaveAgrees
  BY LeaveAgreesThen
<1>2. QED
  BY <1>1, LeaveInvariant, PTL

(* Leave: by one call at a time no application reserves casual days the    *)
(* balance has not left, whatever the lengths of the requests before it    *)
(* (the first half of NoStep).                                             *)
THEOREM NeverMoreThanLeft == StaffSpec => [][Leaves!NeverOverdrawn]_leave
<1>1. LeaveInv /\ [StaffNext]_staff => [Leaves!NeverOverdrawn]_leave
  BY StaffStep, ReservingFindsRoom
<1>2. QED
  BY <1>1, LeaveInvariant, PTL DEF StaffSpec

-----------------------------------------------------------------------------
(* The day's attendance: what calls carry, corrections, work from home and *)
(* hours.                                                                  *)

ClockingShape(v) ==
  /\ v.op = "none" <=> v.pc = "idle"
  /\ v.op # "applyRegularization"
  /\ v.op = "checkIn" => v.pc \in {"write", "session"}
  /\ v.op = "checkOut" => v.pc \in {"find", "close", "total"}
  /\ v.op \in {"approveWfh", "regularize"} => v.pc = "write"
  /\ v.op = "approveRegularization" =>
       v.pc \in {"look", "write", "stamp"} /\ v.r \in Requests
  /\ v.op = "rejectRegularization" => v.pc = "stamp" /\ v.r \in Requests

ClockingInv ==
  \A c \in Calls :
    /\ ClockingShape(clocking[c])
    /\ clocking[c].pc # "idle" => c \in duty.calls /\ clocking[c].op \in duty.ops
    /\ clocking[c].pc = "close" => clocking[c].open \in DOMAIN sessions

DayTyped == Days!TypeOK /\ sessions \in Seq(Days!AttendanceSession)

Stamping(c) == clocking[c].op = "approveRegularization" /\ clocking[c].pc = "stamp"

(* What is corrected is approved, or a call is about to say so; nobody     *)
(* rejects what was corrected.                                             *)
CorrectionInv ==
  /\ \A c \in Calls :
       clocking[c].op \in {"approveRegularization", "rejectRegularization"}
         => request[clocking[c].r].st # "none"
  /\ Days!Serial \/ "rejectRegularization" \notin duty.ops =>
       /\ \A r \in Requests : request[r].st = "APPROVED" => r \in applied
       /\ \A r \in applied : \/ request[r].st = "APPROVED"
                             \/ \E c \in Calls : Stamping(c) /\ clocking[c].r = r
       /\ \A c \in Calls : Stamping(c) => clocking[c].r \in applied
       /\ \A c \in Calls :
            clocking[c].op = "rejectRegularization" => clocking[c].r \notin applied

WfhInv ==
  Days!Serial => /\ day.wfh # "none" => day.away
                 /\ \A c \in duty.calls : clocking[c].op = "approveWfh" => day.away

Held(s) == Leaves!Amount(DOMAIN s, [n \in DOMAIN s |-> s[n].hours])

(* One call at a time: what it has read is still so, and the day's hours   *)
(* lack only those of the session it has closed.                           *)
HoursOf(v) ==
  /\ IF v.pc = "total"
     THEN v.seen.hours + Days!AtLeastNone(v.at - v.seen.in) = Held(sessions)
     ELSE day.hours = Held(sessions)
  /\ IF Days!CheckedIn /\ v.pc \notin {"session", "total"}
     THEN \E n \in DOMAIN sessions : Days!OpenOnes = {n} ELSE Days!OpenOnes = {}
  /\ v.pc = "session" => Days!CheckedIn
  /\ v.pc \in {"find", "close"} => Days!CheckedIn /\ v.seen = day
  /\ v.op = "checkIn" /\ v.pc = "write" => ~Days!CheckedIn /\ v.seen = day
  /\ v.pc = "close" => Days!OpenOnes = {v.open}

HoursInv ==
  Days!Serial /\ duty.ops \subseteq Days!DayOps =>
    /\ \A n \in Days!OpenOnes : sessions[n].hours = 0
    /\ \A c \in duty.calls : HoursOf(clocking[c])

DayInv ==
  duty \in Duties /\ DayTyped /\ ClockingInv /\ CorrectionInv /\ WfhInv /\ HoursInv

(* A set of numbers has a smallest, and a bounded one a largest. *)
LEMMA SmallestOf ==
  ASSUME NEW S \in SUBSET Nat, S # {}
  PROVE  \E x \in S : \A y \in S : x <= y
<1> DEFINE less == OpToRel(<, Nat)
<1>1. \A x, y \in Nat : <<y, x>> \in less <=> y < x
  BY DEF OpToRel
<1>2. IsWellFoundedOn(less, Nat)
  BY NatLessThanWellFounded
<1> HIDE DEF less
<1>3. PICK x \in S : \A y \in S : ~(<<y, x>> \in less)
  BY <1>2, WFMin
<1>4. ASSUME NEW y \in S PROVE x <= y
  <2>1. x \in Nat /\ y \in Nat
    OBVIOUS
  <2>2. ~(y < x)
    BY <1>1, <1>3, <2>1
  <2>3. QED
    BY <2>1, <2>2
<1>5. QED
  BY <1>4

LEMMA LargestOf ==
  ASSUME NEW n \in Nat, NEW S \in SUBSET (0 .. n), S # {}
  PROVE  \E x \in S : \A y \in S : x >= y
<1> DEFINE T == {n - x : x \in S}
<1>1. T \in SUBSET Nat /\ T # {}
  <2>1. \A x \in S : n - x \in Nat
    OBVIOUS
  <2>2. QED
    BY <2>1
<1>2. PICK m \in T : \A y \in T : m <= y
  BY <1>1, SmallestOf
<1>3. PICK x \in S : m = n - x
  BY <1>2
<1>4. \A y \in S : n - y \in T
  OBVIOUS
<1>5. \A y \in S : n - x <= n - y
  BY <1>2, <1>3, <1>4
<1>6. QED
  BY <1>5

(* The session checkOut finds is open, and there is none when it finds 0.  *)
LEMMA LatestIsOpen ==
  ASSUME NEW S, sessions \in Seq(S)
  PROVE  /\ Days!LatestOpen \in 0 .. Len(sessions)
         /\ Days!LatestOpen = 0 => Days!OpenOnes = {}
         /\ Days!LatestOpen # 0 => Days!LatestOpen \in Days!OpenOnes
<1> DEFINE I == {i \in 1 .. Len(sessions) : ~sessions[i].done}
<1>1. Days!LatestOpen = IF I # {} THEN Days!Max(I) ELSE 0
  BY DEF Days!LatestOpen, Days!SelectLastInSeq
<1>2. Days!Max(I) = CHOOSE x \in I : \A y \in I : x >= y
  BY DEF Days!Max
<1>3. Len(sessions) \in Nat /\ DOMAIN sessions = 1 .. Len(sessions)
  OBVIOUS
<1>4. ASSUME I # {} PROVE Days!Max(I) \in I
  <2>1. I \in SUBSET (0 .. Len(sessions))
    BY <1>3
  <2> HIDE DEF I
  <2>2. \E x \in I : \A y \in I : x >= y
    BY <1>3, <1>4, <2>1, LargestOf
  <2>3. QED
    BY <1>2, <2>2
<1>5. I = Days!OpenOnes
  BY <1>3 DEF Days!OpenOnes
<1>6. QED
  BY <1>1, <1>3, <1>4, <1>5

-----------------------------------------------------------------------------
(* The day: types, and what calls carry. *)

LEMMA DayDuty ==
  ASSUME duty \in Duties
  PROVE  /\ duty.calls \subseteq Calls /\ duty.until \in 0 .. EndOfDay
         /\ EndOfDay \in Nat /\ MaxSessions \in Nat
         /\ TypedHours \subseteq 0 .. EndOfDay
BY DutiesShape, Bounds

LEMMA DayIdle == Days!Idle \in Days!CallState /\ ClockingShape(Days!Idle)
<1>1. 0 \in 0 .. EndOfDay /\ 0 \in 0 .. MaxSessions
  BY Bounds
<1>2. Days!NoDay \in Days!DayRow
  BY DEF Days!NoDay, Days!DayRow, Days!None, Days!DayStatus
<1>3. Days!Idle \in Days!CallState
  BY <1>1, <1>2 DEF Days!Idle, Days!CallState, Days!Time
<1>4. ClockingShape(Days!Idle)
  BY DEF Days!Idle, ClockingShape
<1>5. QED
  BY <1>3, <1>4

(* A call goes on to its next statement. *)
LEMMA ClockingMoves ==
  ASSUME clocking \in [Calls -> Days!CallState], ClockingInv, duty' = duty,
         NEW c \in Calls, NEW v \in Days!CallState, ClockingShape(v),
         v.pc # "idle" => c \in duty.calls /\ v.op \in duty.ops,
         v.pc = "close" => v.open \in DOMAIN sessions',
         DOMAIN sessions \subseteq DOMAIN sessions',
         clocking' = [clocking EXCEPT ![c] = v]
  PROVE  clocking' \in [Calls -> Days!CallState] /\ ClockingInv'
<1>1. clocking' \in [Calls -> Days!CallState]
  OBVIOUS
<1>2. \A k \in Calls : clocking'[k] = IF k = c THEN v ELSE clocking[k]
  OBVIOUS
<1>3. ClockingInv'
  BY <1>2 DEF ClockingInv, ClockingShape
<1>4. QED
  BY <1>1, <1>3

LEMMA ClockingEnds ==
  ASSUME clocking \in [Calls -> Days!CallState], ClockingInv, duty' = duty,
         NEW c \in Calls, DOMAIN sessions \subseteq DOMAIN sessions', Days!Ended(c)
  PROVE  clocking' \in [Calls -> Days!CallState] /\ ClockingInv'
<1>1. Days!Idle.pc = "idle"
  BY DEF Days!Idle
<1>2. QED
  BY <1>1, DayIdle, ClockingMoves DEF Days!Ended

LEMMA ClockingGoes ==
  ASSUME clocking \in [Calls -> Days!CallState], ClockingInv, duty' = duty,
         NEW c \in Calls, DOMAIN sessions \subseteq DOMAIN sessions',
         NEW pc \in {"session", "total", "stamp"}, clocking[c].pc # "idle",
         ClockingShape([clocking[c] EXCEPT !.pc = pc]), Days!Goes(c, pc)
  PROVE  clocking' \in [Calls -> Days!CallState] /\ ClockingInv'
<1> DEFINE v == [clocking[c] EXCEPT !.pc = pc]
<1>1. v \in Days!CallState /\ v.pc = pc /\ v.op = clocking[c].op
  BY DEF Days!CallState
<1>2. clocking' = [clocking EXCEPT ![c] = v]
  BY DEF Days!Goes
<1>3. c \in duty.calls /\ clocking[c].op \in duty.ops
  BY DEF ClockingInv
<1> HIDE DEF v
<1>4. QED
  BY <1>1, <1>2, <1>3, ClockingMoves DEF v

LEMMA ClockingReads ==
  ASSUME clocking \in [Calls -> Days!CallState], ClockingInv, duty' = duty,
         day \in Days!DayRow, now \in Days!Time,
         NEW c \in duty.calls, c \in Calls, DOMAIN sessions \subseteq DOMAIN sessions',
         NEW op \in duty.ops \cap Days!Op, NEW pc \in {"write", "find"},
         pc = "write" => op \in {"checkIn", "approveWfh", "regularize"},
         pc = "find" => op = "checkOut",
         Days!Reads(c, op, pc)
  PROVE  /\ clocking' \in [Calls -> Days!CallState] /\ ClockingInv'
         /\ clocking'[c].op = op /\ clocking'[c].pc = pc
         /\ clocking'[c].seen = day /\ clocking'[c].at = now
         /\ \A k \in Calls : k # c => clocking'[k] = clocking[k]
<1> DEFINE v == [Days!Idle EXCEPT !.pc = pc, !.op = op, !.seen = day, !.at = now]
<1>1. /\ v \in Days!CallState /\ v.pc = pc /\ v.op = op /\ v.seen = day /\ v.at = now
  BY DayIdle DEF Days!CallState, Days!Idle
<1>2. ClockingShape(v)
  BY <1>1 DEF ClockingShape
<1>3. clocking' = [clocking EXCEPT ![c] = v]
  BY DEF Days!Reads
<1> HIDE DEF v
<1>4. clocking' \in [Calls -> Days!CallState] /\ ClockingInv'
  BY <1>1, <1>2, <1>3, ClockingMoves
<1>5. QED
  BY <1>1, <1>3, <1>4

LEMMA RowEdited ==
  ASSUME NEW d \in Days!DayRow
  PROVE  /\ d.row \in BOOLEAN /\ d.hours \in Nat /\ d.away \in BOOLEAN
         /\ d.in \in Days!Time \cup {Days!None} /\ d.out \in Days!Time \cup {Days!None}
         /\ \A t \in Days!Time, away \in BOOLEAN : Days!Arrived(d, t, away) \in Days!DayRow
         /\ \A t \in Days!Time, n \in Nat, st \in Days!DayStatus :
              [d EXCEPT !.out = t, !.hours = n, !.st = st] \in Days!DayRow
         /\ \A a \in {"APPROVED", "REJECTED"} : [d EXCEPT !.wfh = a] \in Days!DayRow
         /\ \A in, out \in Days!Time \cup {Days!None}, st \in Days!DayStatus :
              Days!Corrected(d, in, out, st) \in Days!DayRow
         /\ \A in, out \in Days!Time \cup {Days!None} :
              [d EXCEPT !.in = in, !.out = out] \in Days!DayRow
<1> DEFINE Moment == Days!Time \cup {Days!None}
<1>1. /\ d.row \in BOOLEAN /\ d.hours \in Nat /\ d.away \in BOOLEAN
      /\ d.in \in Moment /\ d.out \in Moment
  BY DEF Days!DayRow
<1>2. Days!Time \subseteq Moment /\ Days!None \in Moment
  OBVIOUS
<1>3. \A t \in Days!Time, away \in BOOLEAN : Days!Arrived(d, t, away) \in Days!DayRow
  <2> TAKE t \in Days!Time, away \in BOOLEAN
  <2> DEFINE wfh == IF away THEN "PENDING" ELSE "none"
  <2>1. wfh \in {"none", "PENDING", "APPROVED", "REJECTED"}
    OBVIOUS
  <2>2. Days!Arrived(d, t, away)
          = [d EXCEPT !.row = TRUE, !.in = t, !.out = Days!None, !.st = "PRESENT",
                      !.away = away, !.wfh = wfh]
    BY DEF Days!Arrived
  <2> HIDE DEF wfh
  <2>3. QED
    BY <2>1, <2>2 DEF Days!DayRow, Days!DayStatus
<1>4. \A t \in Days!Time, n \in Nat, st \in Days!DayStatus :
        [d EXCEPT !.out = t, !.hours = n, !.st = st] \in Days!DayRow
  BY DEF Days!DayRow
<1>5. \A a \in {"APPROVED", "REJECTED"} : [d EXCEPT !.wfh = a] \in Days!DayRow
  BY DEF Days!DayRow
<1>6. \A in, out \in Moment, st \in Days!DayStatus :
        Days!Corrected(d, in, out, st) \in Days!DayRow
  <2> TAKE in, out \in Moment, st \in Days!DayStatus
  <2> DEFINE i == IF in = Days!None THEN d.in ELSE in
             o == IF out = Days!None THEN d.out ELSE out
  <2>1. i \in Moment /\ o \in Moment
    BY <1>1
  <2>2. Days!Corrected(d, in, out, st)
          = [d EXCEPT !.row = TRUE, !.in = i, !.out = o, !.st = st]
    BY DEF Days!Corrected
  <2> HIDE DEF i, o
  <2>3. QED
    BY <2>1, <2>2 DEF Days!DayRow
<1>7. \A in, out \in Moment : [d EXCEPT !.in = in, !.out = out] \in Days!DayRow
  BY DEF Days!DayRow
<1>8. QED
  BY <1>1, <1>3, <1>4, <1>5, <1>6, <1>7

LEMMA TotalTyped ==
  ASSUME NEW c \in Calls, clocking[c] \in Days!CallState, EndOfDay \in Nat
  PROVE  /\ Days!AtLeastNone(Days!Worked(c)) \in Nat /\ Days!Total(c) \in Nat
         /\ clocking[c].at \in Days!Time /\ clocking[c].at # Days!None
<1>1. /\ clocking[c].at \in Int /\ clocking[c].at >= 0 /\ clocking[c].seen.in \in Int
      /\ clocking[c].seen.hours \in Nat /\ clocking[c].at \in Days!Time
  BY DEF Days!CallState, Days!DayRow, Days!Time, Days!None
<1>2. Days!Worked(c) \in Int
  BY <1>1 DEF Days!Worked
<1>3. Days!AtLeastNone(Days!Worked(c)) \in Nat
  BY <1>2 DEF Days!AtLeastNone
<1>4. QED
  BY <1>1, <1>3 DEF Days!Total, Days!None

(* Each step of the day keeps the types. *)
LEMMA DayTypedStep ==
  ASSUME duty \in Duties, duty' = duty, DayTyped, ClockingInv, Days!Next
  PROVE  DayTyped' /\ ClockingInv'
<1> DEFINE Tables == /\ now' \in Days!Time /\ day' \in Days!DayRow
                    /\ sessions' \in Seq(Days!AttendanceSession)
                    /\ Len(sessions') <= MaxSessions
                    /\ request' \in [Requests -> Days!AttendanceRegularization]
                    /\ applied' \subseteq Requests
           Calling == clocking' \in [Calls -> Days!CallState] /\ ClockingInv'
<1>1. /\ now \in Days!Time /\ day \in Days!DayRow
      /\ sessions \in Seq(Days!AttendanceSession) /\ Len(sessions) <= MaxSessions
      /\ request \in [Requests -> Days!AttendanceRegularization] /\ applied \subseteq Requests
      /\ clocking \in [Calls -> Days!CallState]
  BY DEF DayTyped, Days!TypeOK
<1>2. Tables /\ Calling => DayTyped' /\ ClockingInv'
  BY DEF DayTyped, Days!TypeOK
<1>3. UNCHANGED <<now, day, sessions, request, applied>> => Tables
  BY <1>1
<1>4. UNCHANGED <<clocking, sessions>> => Calling
  BY <1>1 DEF ClockingInv
<1>5. \A c \in Calls : Days!Ended(c) /\ DOMAIN sessions \subseteq DOMAIN sessions' => Calling
  BY <1>1, ClockingEnds
<1>6. \A c \in Calls :
        /\ clocking[c] \in Days!CallState /\ ClockingShape(clocking[c])
        /\ clocking[c].pc # "idle" => c \in duty.calls /\ clocking[c].op \in duty.ops
  BY <1>1 DEF ClockingInv
<1>7. EndOfDay \in Nat /\ MaxSessions \in Nat
  BY DayDuty
<1>8. \A c \in Calls : Days!Total(c) \in Nat /\ clocking[c].at \in Days!Time
                       /\ Days!AtLeastNone(Days!Worked(c)) \in Nat
  BY <1>6, <1>7, TotalTyped
<1> HIDE DEF Calling
<1>9. CASE Days!Tick
  <2>1. now' \in Days!Time
    BY <1>1, <1>9, DayDuty DEF Days!Tick, Days!Time
  <2>2. Tables
    BY <1>1, <1>9, <2>1 DEF Days!Tick
  <2>3. QED
    BY <1>2, <1>4, <1>9, <2>2 DEF Days!Tick
<1>10. ASSUME NEW c \in Calls,
              \/ Days!StartCheckIn(c) \/ Days!StartCheckOut(c)
              \/ Days!StartApproveWfh(c) \/ Days!StartRegularize(c)
       PROVE  Tables /\ Calling
  <2>1. UNCHANGED <<now, day, sessions, request, applied>> /\ c \in duty.calls
    BY <1>10 DEF Days!StartCheckIn, Days!StartCheckOut, Days!StartApproveWfh,
                 Days!StartRegularize, Days!Free
  <2>2. PICK op \in {"checkIn", "checkOut", "approveWfh", "regularize"} :
          op \in duty.ops /\ Days!Reads(c, op, IF op = "checkOut" THEN "find" ELSE "write")
    BY <1>10 DEF Days!StartCheckIn, Days!StartCheckOut, Days!StartApproveWfh,
                 Days!StartRegularize, Days!Free
  <2>3. op \in Days!Op
    BY DEF Days!Op, Days!DayOps, Days!RequestOps
  <2>4. Calling
    BY <1>1, <2>1, <2>2, <2>3, ClockingReads DEF Calling
  <2>5. QED
    BY <1>3, <2>1, <2>4
<1>11. ASSUME NEW c \in Calls, Days!WriteCheckIn(c)
       PROVE  Tables /\ Calling
  <2>1. clocking[c].op = "checkIn" /\ clocking[c].pc = "write"
    BY <1>11 DEF Days!WriteCheckIn, Days!At
  <2>2. day' \in Days!DayRow
    BY <1>1, <1>8, <1>11, RowEdited DEF Days!WriteCheckIn
  <2>3. ClockingShape([clocking[c] EXCEPT !.pc = "session"])
    BY <1>6, <2>1 DEF ClockingShape, Days!CallState
  <2>4. sessions' = sessions /\ (Days!Ended(c) \/ Days!Goes(c, "session"))
    BY <1>11 DEF Days!WriteCheckIn
  <2>5. Calling
    BY <1>1, <1>5, <2>1, <2>3, <2>4, ClockingGoes DEF Calling
  <2>6. QED
    BY <1>1, <1>11, <2>2, <2>5 DEF Days!WriteCheckIn
<1>12. ASSUME NEW c \in Calls, Days!OpenSession(c)
       PROVE  Tables /\ Calling
  <2> DEFINE s == [in |-> clocking[c].at, done |-> FALSE, hours |-> 0]
  <2>1. s \in Days!AttendanceSession
    BY <1>8 DEF Days!AttendanceSession
  <2>2. sessions' = Append(sessions, s) /\ Len(sessions) < MaxSessions
    BY <1>12 DEF Days!OpenSession
  <2> HIDE DEF s
  <2>3. /\ sessions' \in Seq(Days!AttendanceSession) /\ Len(sessions') = Len(sessions) + 1
        /\ DOMAIN sessions \subseteq DOMAIN sessions'
    BY <1>1, <2>1, <2>2
  <2>4. Len(sessions') <= MaxSessions
    BY <1>1, <1>7, <2>2, <2>3
  <2>5. QED
    BY <1>1, <1>5, <1>12, <2>3, <2>4 DEF Days!OpenSession
<1>13. ASSUME NEW c \in Calls, Days!FindSession(c)
       PROVE  Tables /\ Calling
  <2> DEFINE pc == IF Days!LatestOpen = 0 THEN "total" ELSE "close"
             v == [clocking[c] EXCEPT !.open = Days!LatestOpen, !.pc = pc]
  <2>1. clocking[c].op = "checkOut" /\ clocking[c].pc = "find" /\ sessions' = sessions
    BY <1>13 DEF Days!FindSession, Days!At
  <2>2. /\ Days!LatestOpen \in 0 .. MaxSessions
        /\ Days!LatestOpen # 0 => Days!LatestOpen \in DOMAIN sessions
    <3>1. /\ Days!LatestOpen \in 0 .. Len(sessions)
          /\ Days!LatestOpen # 0 => Days!LatestOpen \in Days!OpenOnes
      BY <1>1, LatestIsOpen
    <3>2. Len(sessions) \in Nat
      BY <1>1
    <3>3. QED
      BY <1>1, <1>7, <3>1, <3>2 DEF Days!OpenOnes
  <2>3. clocking' = [clocking EXCEPT ![c] = v]
    BY <1>1, <1>13 DEF Days!FindSession
  <2>4. /\ v \in Days!CallState /\ v.pc = pc /\ v.op = "checkOut" /\ v.open = Days!LatestOpen
        /\ pc \in {"total", "close"}
    BY <1>6, <2>1, <2>2 DEF Days!CallState
  <2>5. pc = "close" => Days!LatestOpen \in DOMAIN sessions
    BY <2>2
  <2> HIDE DEF v, pc
  <2>6. ClockingShape(v)
    BY <2>4 DEF ClockingShape
  <2>7. Calling
    BY <1>1, <1>6, <2>1, <2>3, <2>4, <2>5, <2>6, ClockingMoves DEF Calling
  <2>8. QED
    BY <1>3, <1>13, <2>7 DEF Days!FindSession
<1>14. ASSUME NEW c \in Calls, Days!CloseSession(c)
       PROVE  Tables /\ Calling
  <2>1. /\ clocking[c].op = "checkOut" /\ clocking[c].pc = "close"
        /\ clocking[c].open \in DOMAIN sessions
    BY <1>14 DEF Days!CloseSession, Days!At, ClockingInv
  <2> DEFINE n == clocking[c].open
             w == Days!AtLeastNone(Days!Worked(c))
             s == [[sessions[n] EXCEPT !.done = TRUE] EXCEPT !.hours = w]
  <2>2. sessions' = [sessions EXCEPT ![n] = s]
    BY <1>1, <1>14, <2>1 DEF Days!CloseSession
  <2>3. sessions[n] \in Days!AttendanceSession /\ w \in Nat
    BY <1>1, <1>8, <2>1
  <2> HIDE DEF w
  <2>4. s \in Days!AttendanceSession
    BY <2>3 DEF Days!AttendanceSession
  <2> HIDE DEF s
  <2>5. /\ sessions' \in Seq(Days!AttendanceSession) /\ Len(sessions') = Len(sessions)
        /\ DOMAIN sessions' = DOMAIN sessions
    BY <1>1, <2>1, <2>2, <2>4
  <2>6. ClockingShape([clocking[c] EXCEPT !.pc = "total"])
    BY <1>6, <2>1 DEF ClockingShape, Days!CallState
  <2>7. Calling
    BY <1>1, <1>14, <2>1, <2>5, <2>6, ClockingGoes DEF Calling, Days!CloseSession
  <2>8. QED
    BY <1>1, <1>14, <2>5, <2>7 DEF Days!CloseSession
<1>15. ASSUME NEW c \in Calls, Days!WriteCheckOut(c)
       PROVE  Tables /\ Calling
  <2>1. day' \in Days!DayRow
    <3> DEFINE st == IF Days!Total(c) >= Full THEN "PRESENT"
                     ELSE IF Days!Total(c) >= Half THEN "HALF_DAY" ELSE "ABSENT"
    <3>1. st \in Days!DayStatus
      BY DEF Days!DayStatus
    <3>2. day' = [day EXCEPT !.out = clocking[c].at, !.hours = Days!Total(c), !.st = st]
      BY <1>15 DEF Days!WriteCheckOut
    <3> HIDE DEF st
    <3>3. QED
      BY <1>1, <1>8, <3>1, <3>2, RowEdited
  <2>2. QED
    BY <1>1, <1>5, <1>15, <2>1 DEF Days!WriteCheckOut
<1>16. ASSUME NEW c \in Calls, Days!WriteWfh(c)
       PROVE  Tables /\ Calling
  <2>1. day' \in Days!DayRow
    BY <1>1, <1>16, RowEdited DEF Days!WriteWfh, Days!WithAnswer
  <2>2. QED
    BY <1>1, <1>5, <1>16, <2>1 DEF Days!WriteWfh
<1>17. ASSUME NEW c \in Calls, Days!WriteRegularize(c)
       PROVE  Tables /\ Calling
  <2>1. day' \in Days!DayRow
    <3>1. TypedHours \cup {Days!None} \subseteq Days!Time \cup {Days!None}
      BY DayDuty DEF Days!Time
    <3>2. CASE day' = day
      BY <1>1, <3>2
    <3>3. ASSUME NEW in \in TypedHours \cup {Days!None}, NEW out \in TypedHours \cup {Days!None},
                 day' = Days!Corrected(day, in, out, "PRESENT")
          PROVE  day' \in Days!DayRow
      <4>1. /\ in \in Days!Time \cup {Days!None} /\ out \in Days!Time \cup {Days!None}
            /\ "PRESENT" \in Days!DayStatus
        BY <3>1 DEF Days!DayStatus
      <4>2. Days!Corrected(day, in, out, "PRESENT") \in Days!DayRow
        BY <1>1, <4>1, RowEdited
      <4>3. QED
        BY <3>3, <4>2
    <3>4. QED
      BY <1>17, <3>2, <3>3 DEF Days!WriteRegularize
  <2>2. QED
    BY <1>1, <1>5, <1>17, <2>1 DEF Days!WriteRegularize
<1>18. ASSUME NEW c \in Calls, NEW r \in Requests, Days!Apply(c, r)
       PROVE  Tables /\ Calling
  <2>1. request' \in [Requests -> Days!AttendanceRegularization]
    <3>1. TypedHours \cup {Days!None} \subseteq Days!Time \cup {Days!None}
      BY DayDuty DEF Days!Time
    <3>2. PICK in, out \in TypedHours \cup {Days!None} :
            request' = [request EXCEPT ![r].st = "PENDING", ![r].in = in, ![r].out = out]
      BY <1>18 DEF Days!Apply
    <3> DEFINE q == [[[request[r] EXCEPT !.st = "PENDING"] EXCEPT !.in = in] EXCEPT !.out = out]
    <3>3. request' = [request EXCEPT ![r] = q]
      BY <1>1, <3>2
    <3>4. q \in Days!AttendanceRegularization
      BY <1>1, <3>1 DEF Days!AttendanceRegularization
    <3> HIDE DEF q
    <3>5. QED
      BY <1>1, <3>3, <3>4
  <2>2. QED
    BY <1>1, <1>4, <1>18, <2>1 DEF Days!Apply
<1>19. ASSUME NEW c \in Calls, NEW op \in {"approveRegularization", "rejectRegularization"},
              NEW r \in Requests, Days!ReadRequest(c, op, r)
       PROVE  Tables /\ Calling
  <2> DEFINE v == [Days!Idle EXCEPT !.op = op, !.r = r,
                     !.pc = IF op = "approveRegularization" THEN "look" ELSE "stamp"]
  <2>1. /\ v \in Days!CallState /\ v.op = op /\ v.r = r
        /\ v.pc = IF op = "approveRegularization" THEN "look" ELSE "stamp"
    BY DayIdle DEF Days!CallState, Days!Idle, Days!Op, Days!RequestOps
  <2>2. ClockingShape(v)
    BY <2>1 DEF ClockingShape
  <2>3. /\ clocking' = [clocking EXCEPT ![c] = v] /\ c \in duty.calls /\ op \in duty.ops
        /\ sessions' = sessions
    BY <1>19 DEF Days!ReadRequest, Days!Free
  <2> HIDE DEF v
  <2>4. Calling
    BY <1>1, <2>1, <2>2, <2>3, ClockingMoves DEF Calling
  <2>5. QED
    BY <1>3, <1>19, <2>4 DEF Days!ReadRequest
<1>20. ASSUME NEW c \in Calls, Days!FindDay(c)
       PROVE  Tables /\ Calling
  <2> DEFINE v == [clocking[c] EXCEPT !.seen = day, !.pc = "write"]
  <2>1. /\ clocking[c].op = "approveRegularization" /\ clocking[c].pc = "look"
        /\ clocking[c].r \in Requests
    BY <1>6, <1>20 DEF Days!FindDay, Days!At, ClockingShape
  <2>2. /\ v \in Days!CallState /\ v.op = "approveRegularization" /\ v.pc = "write"
        /\ v.r = clocking[c].r
    BY <1>1, <1>6, <2>1 DEF Days!CallState
  <2>3. ClockingShape(v)
    BY <2>1, <2>2 DEF ClockingShape
  <2>4. clocking' = [clocking EXCEPT ![c] = v] /\ sessions' = sessions
    BY <1>1, <1>20 DEF Days!FindDay
  <2> HIDE DEF v
  <2>5. Calling
    BY <1>1, <1>6, <2>1, <2>2, <2>3, <2>4, ClockingMoves DEF Calling
  <2>6. QED
    BY <1>3, <1>20, <2>5 DEF Days!FindDay
<1>21. ASSUME NEW c \in Calls, Days!WriteCorrection(c)
       PROVE  Tables /\ Calling
  <2>1. /\ clocking[c].op = "approveRegularization" /\ clocking[c].pc = "write"
        /\ clocking[c].r \in Requests
    BY <1>6, <1>21 DEF Days!WriteCorrection, Days!At, ClockingShape
  <2> DEFINE q == request[clocking[c].r]
             s == clocking[c].seen
  <2>2. /\ q.in \in Days!Time \cup {Days!None} /\ q.out \in Days!Time \cup {Days!None}
        /\ s \in Days!DayRow
    BY <1>1, <1>6, <2>1 DEF Days!AttendanceRegularization, Days!CallState
  <2>3. s.in \in Days!Time \cup {Days!None} /\ s.out \in Days!Time \cup {Days!None}
    BY <2>2, RowEdited
  <2>4. [day EXCEPT !.in = s.in, !.out = s.out] \in Days!DayRow
    BY <1>1, <2>3, RowEdited
  <2>5. \/ UNCHANGED <<day, applied>> /\ Days!Ended(c)
        \/ /\ q.for \in Days!DayStatus
           /\ day' = Days!Corrected([day EXCEPT !.in = s.in, !.out = s.out], q.in, q.out, q.for)
           /\ applied' = applied \cup {clocking[c].r} /\ Days!Goes(c, "stamp")
    BY <1>21 DEF Days!WriteCorrection, Days!InEnum
  <2> HIDE DEF q, s
  <2>6. day' \in Days!DayRow
    <3> DEFINE d == [day EXCEPT !.in = s.in, !.out = s.out]
    <3>1. \/ day' = day
          \/ q.for \in Days!DayStatus /\ day' = Days!Corrected(d, q.in, q.out, q.for)
      BY <2>5
    <3>2. d \in Days!DayRow
      BY <2>4
    <3> HIDE DEF d
    <3>3. ASSUME q.for \in Days!DayStatus
          PROVE  Days!Corrected(d, q.in, q.out, q.for) \in Days!DayRow
      <4>1. \A in, out \in Days!Time \cup {Days!None}, st \in Days!DayStatus :
              Days!Corrected(d, in, out, st) \in Days!DayRow
        BY <3>2, RowEdited
      <4>2. QED
        BY <2>2, <3>3, <4>1
    <3>4. QED
      BY <1>1, <3>1, <3>3
  <2>7. applied' \subseteq Requests
    BY <1>1, <2>1, <2>5
  <2>8. ClockingShape([clocking[c] EXCEPT !.pc = "stamp"])
    BY <1>6, <2>1 DEF ClockingShape, Days!CallState
  <2>9. Calling
    BY <1>1, <1>5, <1>21, <2>1, <2>5, <2>8, ClockingGoes DEF Calling, Days!WriteCorrection
  <2>10. QED
    BY <1>1, <1>21, <2>6, <2>7, <2>9 DEF Days!WriteCorrection
<1>22. ASSUME NEW c \in Calls, NEW op \in {"approveRegularization", "rejectRegularization"},
              Days!Stamp(c, op)
       PROVE  Tables /\ Calling
  <2>1. request' \in [Requests -> Days!AttendanceRegularization]
    BY <1>1, <1>22 DEF Days!Stamp, Days!AnswerOf, Days!AttendanceRegularization
  <2>2. QED
    BY <1>1, <1>5, <1>22, <2>1 DEF Days!Stamp
<1> HIDE DEF Tables
<1>23. QED
  BY <1>2, <1>9, <1>10, <1>11, <1>12, <1>13, <1>14, <1>15, <1>16, <1>17, <1>18, <1>19, <1>20,
     <1>21, <1>22 DEF Days!Next

(* Who moves, and what the others keep. *)
LEMMA ClockingAfter ==
  ASSUME clocking \in [Calls -> Days!CallState], NEW c \in Calls
  PROVE  /\ Days!Ended(c) =>
              /\ \A k \in Calls : k # c => clocking'[k] = clocking[k]
              /\ clocking'[c].op = "none" /\ clocking'[c].pc = "idle"
         /\ \A pc : Days!Goes(c, pc) =>
              /\ \A k \in Calls : k # c => clocking'[k] = clocking[k]
              /\ clocking'[c].op = clocking[c].op /\ clocking'[c].pc = pc
              /\ clocking'[c].r = clocking[c].r /\ clocking'[c].seen = clocking[c].seen
              /\ clocking'[c].at = clocking[c].at
         /\ \A op, pc : Days!Reads(c, op, pc) =>
              /\ \A k \in Calls : k # c => clocking'[k] = clocking[k]
              /\ clocking'[c].op = op /\ clocking'[c].pc = pc
              /\ clocking'[c].seen = day /\ clocking'[c].at = now
<1>1. Days!Ended(c) =>
        /\ \A k \in Calls : k # c => clocking'[k] = clocking[k]
        /\ clocking'[c].op = "none" /\ clocking'[c].pc = "idle"
  BY DEF Days!Ended, Days!Idle
<1>2. \A pc : Days!Goes(c, pc) =>
        /\ \A k \in Calls : k # c => clocking'[k] = clocking[k]
        /\ clocking'[c].op = clocking[c].op /\ clocking'[c].pc = pc
        /\ clocking'[c].r = clocking[c].r /\ clocking'[c].seen = clocking[c].seen
        /\ clocking'[c].at = clocking[c].at
  BY DEF Days!Goes, Days!CallState
<1>3. \A op, pc : Days!Reads(c, op, pc) =>
        /\ \A k \in Calls : k # c => clocking'[k] = clocking[k]
        /\ clocking'[c].op = op /\ clocking'[c].pc = pc
        /\ clocking'[c].seen = day /\ clocking'[c].at = now
  BY DEF Days!Reads, Days!Idle
<1>4. QED
  BY <1>1, <1>2, <1>3

LEMMA OneCall ==
  ASSUME duty \in Duties, Days!Serial
  PROVE  \E x \in Calls : duty.calls = {x}
<1>1. IsFiniteSet(duty.calls)
  BY DayDuty, Finite, FS_Subset
<1>2. \A S : Days!Cardinality(S) = Cardinality(S)
  BY Zenon DEF Days!Cardinality, Cardinality
<1>3. Cardinality(duty.calls) = 1
  BY <1>2 DEF Days!Serial
<1>4. PICK x : duty.calls = {x}
  BY <1>1, <1>3, FS_Singleton
<1>5. QED
  BY <1>4, DayDuty

LEMMA CorrectionAside ==
  ASSUME duty' = duty, CorrectionInv, UNCHANGED <<request, applied>>, NEW c \in Calls,
         \A k \in Calls : k # c => clocking'[k] = clocking[k],
         clocking[c].op \notin {"approveRegularization", "rejectRegularization"},
         clocking'[c].op \notin {"approveRegularization", "rejectRegularization"}
  PROVE  CorrectionInv'
<1>1. Days!Serial' <=> Days!Serial
  BY DEF Days!Serial
<1>2. \A k \in Calls : Stamping(k)' <=> Stamping(k)
  BY DEF Stamping
<1>3. \A k \in Calls : Stamping(k) => k # c
  BY DEF Stamping
<1>4. \A k \in Calls :
        clocking'[k].op \in {"approveRegularization", "rejectRegularization"}
          => clocking'[k] = clocking[k]
  OBVIOUS
<1>5. \A r \in applied : request[r].st = "APPROVED"
                         \/ (\E k \in Calls : Stamping(k) /\ clocking[k].r = r)
        => \/ request'[r].st = "APPROVED"
           \/ \E k \in Calls : Stamping(k)' /\ clocking'[k].r = r
  BY <1>2, <1>3
<1>6. QED
  BY <1>1, <1>2, <1>3, <1>4, <1>5 DEF CorrectionInv

(* Each step keeps what is corrected approved. *)
LEMMA CorrectionStep ==
  ASSUME duty \in Duties, duty' = duty, DayTyped, ClockingInv, CorrectionInv, Days!Next
  PROVE  CorrectionInv'
<1>1. /\ clocking \in [Calls -> Days!CallState]
      /\ request \in [Requests -> Days!AttendanceRegularization] /\ applied \subseteq Requests
  BY DEF DayTyped, Days!TypeOK
<1>2. \A c \in Calls :
        /\ ClockingShape(clocking[c])
        /\ clocking[c].pc # "idle" => c \in duty.calls /\ clocking[c].op \in duty.ops
  BY DEF ClockingInv
<1>3. Days!Serial' <=> Days!Serial
  BY DEF Days!Serial
<1>4. CASE Days!Tick
  BY <1>3, <1>4 DEF Days!Tick, CorrectionInv, Stamping
<1>5. ASSUME NEW c \in Calls,
             \/ Days!StartCheckIn(c) \/ Days!WriteCheckIn(c) \/ Days!OpenSession(c)
             \/ Days!StartCheckOut(c) \/ Days!CloseSession(c) \/ Days!WriteCheckOut(c)
             \/ Days!StartApproveWfh(c) \/ Days!WriteWfh(c)
             \/ Days!StartRegularize(c) \/ Days!WriteRegularize(c)
      PROVE  CorrectionInv'
  <2>1. /\ UNCHANGED <<request, applied>>
        /\ clocking[c].op \notin {"approveRegularization", "rejectRegularization"}
    BY <1>2, <1>5 DEF Days!StartCheckIn, Days!WriteCheckIn, Days!OpenSession,
         Days!StartCheckOut, Days!CloseSession, Days!WriteCheckOut, Days!StartApproveWfh,
         Days!WriteWfh, Days!StartRegularize, Days!WriteRegularize, Days!Free, Days!At,
         ClockingShape
  <2>2. \/ Days!Ended(c)
        \/ \E pc : Days!Goes(c, pc)
        \/ \E op \in Days!DayOps \cup {"regularize"} : \E pc : Days!Reads(c, op, pc)
    BY <1>5 DEF Days!StartCheckIn, Days!WriteCheckIn, Days!OpenSession, Days!StartCheckOut,
         Days!CloseSession, Days!WriteCheckOut, Days!StartApproveWfh, Days!WriteWfh,
         Days!StartRegularize, Days!WriteRegularize, Days!DayOps
  <2>3. /\ \A k \in Calls : k # c => clocking'[k] = clocking[k]
        /\ clocking'[c].op \notin {"approveRegularization", "rejectRegularization"}
    BY <1>1, <2>1, <2>2, ClockingAfter DEF Days!DayOps
  <2>4. QED
    BY <2>1, <2>3, CorrectionAside
<1>6. ASSUME NEW c \in Calls, Days!FindSession(c)
      PROVE  CorrectionInv'
  <2>1. /\ UNCHANGED <<request, applied>> /\ clocking[c].op = "checkOut"
        /\ clocking'[c].op = "checkOut"
        /\ \A k \in Calls : k # c => clocking'[k] = clocking[k]
    BY <1>1, <1>6 DEF Days!FindSession, Days!At, Days!CallState
  <2>2. QED
    BY <2>1, CorrectionAside
<1>7. ASSUME NEW c \in Calls, NEW r \in Requests, Days!Apply(c, r)
      PROVE  CorrectionInv'
  <2>1. /\ request[r].st = "none" /\ request'[r].st = "PENDING"
        /\ \A x \in Requests : x # r => request'[x] = request[x]
        /\ UNCHANGED <<applied, clocking>>
    BY <1>1, <1>7 DEF Days!Apply, Days!AttendanceRegularization
  <2>2. \A k \in Calls :
          clocking[k].op \in {"approveRegularization", "rejectRegularization"}
            => clocking[k].r # r /\ clocking[k].r \in Requests
    BY <1>2, <2>1 DEF CorrectionInv, ClockingShape
  <2>3. QED
    BY <1>1, <1>3, <2>1, <2>2 DEF CorrectionInv, Stamping
<1>8. ASSUME NEW c \in Calls, NEW op \in {"approveRegularization", "rejectRegularization"},
             NEW r \in Requests, Days!ReadRequest(c, op, r)
      PROVE  CorrectionInv'
  <2>1. /\ clocking[c].pc = "idle" /\ clocking[c].op = "none" /\ c \in duty.calls
        /\ op \in duty.ops /\ request[r].st = "PENDING" /\ UNCHANGED <<request, applied>>
    BY <1>2, <1>8 DEF Days!ReadRequest, Days!Free, Days!MayAnswer, ClockingShape
  <2>2. /\ clocking'[c].op = op /\ clocking'[c].r = r
        /\ clocking'[c].pc = IF op = "approveRegularization" THEN "look" ELSE "stamp"
        /\ \A k \in Calls : k # c => clocking'[k] = clocking[k]
    BY <1>1, <1>8 DEF Days!ReadRequest, Days!Idle
  <2>3. ~Stamping(c) /\ ~Stamping(c)'
    BY <2>1, <2>2 DEF Stamping
  <2>4. \A k \in Calls : (Stamping(k)' <=> Stamping(k)) /\ (Stamping(k) => k # c)
    BY <2>2, <2>3 DEF Stamping
  <2>5. CASE op = "approveRegularization"
    BY <1>3, <2>1, <2>2, <2>4, <2>5 DEF CorrectionInv
  <2>6. CASE op = "rejectRegularization"
    <3>1. Days!Serial => \A k \in Calls : ~Stamping(k)
      <4>1. Days!Serial => \A k \in Calls : clocking[k].pc # "idle" => k = c
        BY <1>2, <2>1, OneCall
      <4>2. QED
        BY <4>1, <2>3 DEF Stamping
    <3>2. Days!Serial => r \notin applied
      BY <2>1, <3>1 DEF CorrectionInv
    <3>3. QED
      BY <1>3, <2>1, <2>2, <2>4, <2>6, <3>2 DEF CorrectionInv
  <2>7. QED
    BY <2>5, <2>6
<1>9. ASSUME NEW c \in Calls, Days!FindDay(c)
      PROVE  CorrectionInv'
  <2>1. /\ clocking[c].op = "approveRegularization" /\ clocking[c].pc = "look"
        /\ UNCHANGED <<request, applied>>
    BY <1>9 DEF Days!FindDay, Days!At
  <2>2. /\ clocking'[c].op = "approveRegularization" /\ clocking'[c].pc = "write"
        /\ clocking'[c].r = clocking[c].r
        /\ \A k \in Calls : k # c => clocking'[k] = clocking[k]
    BY <1>1, <1>9, <2>1 DEF Days!FindDay, Days!CallState
  <2>3. \A k \in Calls : (Stamping(k)' <=> Stamping(k)) /\ (Stamping(k) => k # c)
    BY <2>1, <2>2 DEF Stamping
  <2>4. QED
    BY <1>3, <2>1, <2>2, <2>3 DEF CorrectionInv
<1>10. ASSUME NEW c \in Calls, Days!WriteCorrection(c)
       PROVE  CorrectionInv'
  <2>1. /\ clocking[c].op = "approveRegularization" /\ clocking[c].pc = "write"
        /\ clocking[c].r \in Requests /\ request' = request /\ c \in duty.calls
    BY <1>2, <1>10 DEF Days!WriteCorrection, Days!At, ClockingShape
  <2>2. CASE Days!Ended(c) /\ applied' = applied
    <3>1. /\ clocking'[c].op = "none" /\ clocking'[c].pc = "idle"
          /\ \A k \in Calls : k # c => clocking'[k] = clocking[k]
      BY <1>1, <2>2, ClockingAfter
    <3>2. \A k \in Calls : (Stamping(k)' <=> Stamping(k)) /\ (Stamping(k) => k # c)
      BY <2>1, <3>1 DEF Stamping
    <3>3. QED
      BY <1>3, <2>1, <2>2, <3>1, <3>2 DEF CorrectionInv
  <2>3. CASE Days!Goes(c, "stamp") /\ applied' = applied \cup {clocking[c].r}
    <3>1. /\ clocking'[c].op = "approveRegularization" /\ clocking'[c].pc = "stamp"
          /\ clocking'[c].r = clocking[c].r
          /\ \A k \in Calls : k # c => clocking'[k] = clocking[k]
      BY <1>1, <2>1, <2>3, ClockingAfter
    <3>2. Stamping(c)' /\ ~Stamping(c) /\ \A k \in Calls : k # c => (Stamping(k)' <=> Stamping(k))
      BY <2>1, <3>1 DEF Stamping
    <3>3. Days!Serial \/ "rejectRegularization" \notin duty.ops =>
            \A k \in Calls : clocking[k].op = "rejectRegularization" => FALSE
      <4>1. Days!Serial => \A k \in Calls : clocking[k].pc # "idle" => k = c
        BY <1>2, <2>1, OneCall
      <4>2. \A k \in Calls : clocking[k].op = "rejectRegularization" =>
              clocking[k].pc # "idle" /\ clocking[k].op \in duty.ops
        BY <1>2 DEF ClockingShape
      <4>3. QED
        BY <2>1, <4>1, <4>2
    <3>4. QED
      BY <1>3, <2>1, <2>3, <3>1, <3>2, <3>3 DEF CorrectionInv
  <2>4. QED
    BY <1>10, <2>2, <2>3 DEF Days!WriteCorrection
<1>11. ASSUME NEW c \in Calls, NEW op \in {"approveRegularization", "rejectRegularization"},
              Days!Stamp(c, op)
       PROVE  CorrectionInv'
  <2> DEFINE r == clocking[c].r
  <2>1. /\ clocking[c].op = op /\ clocking[c].pc = "stamp" /\ r \in Requests
        /\ applied' = applied
    BY <1>2, <1>11 DEF Days!Stamp, Days!At, ClockingShape
  <2>2. /\ request'[r].st = Days!AnswerOf(op)
        /\ \A x \in Requests : x # r => request'[x] = request[x]
    BY <1>1, <1>11, <2>1 DEF Days!Stamp, Days!AttendanceRegularization
  <2>3. /\ clocking'[c].op = "none" /\ clocking'[c].pc = "idle"
        /\ \A k \in Calls : k # c => clocking'[k] = clocking[k]
    BY <1>1, <1>11, ClockingAfter DEF Days!Stamp
  <2>4. \A k \in Calls :
          clocking[k].op \in {"approveRegularization", "rejectRegularization"}
            => clocking[k].r \in Requests
    BY <1>2 DEF ClockingShape
  <2>5. ~Stamping(c)' /\ \A k \in Calls : k # c => (Stamping(k)' <=> Stamping(k))
    BY <2>3 DEF Stamping
  <2>6. Stamping(c) <=> op = "approveRegularization"
    BY <2>1 DEF Stamping
  <2> HIDE DEF r
  <2>7. \A k \in Calls :
          clocking'[k].op \in {"approveRegularization", "rejectRegularization"}
            => request'[clocking'[k].r].st # "none"
    BY <2>2, <2>3, <2>4 DEF CorrectionInv, Days!AnswerOf
  <2>8. ASSUME Days!Serial \/ "rejectRegularization" \notin duty.ops
        PROVE  /\ \A x \in Requests : request'[x].st = "APPROVED" => x \in applied
               /\ \A x \in applied : \/ request'[x].st = "APPROVED"
                                     \/ \E k \in Calls : Stamping(k)' /\ clocking'[k].r = x
    <3>1. CASE op = "approveRegularization"
      <4>1. request'[r].st = "APPROVED" /\ r \in applied
        BY <2>1, <2>2, <2>6, <2>8, <3>1 DEF CorrectionInv, Days!AnswerOf, r
      <4>2. QED
        BY <1>1, <2>2, <2>3, <2>5, <2>8, <4>1 DEF CorrectionInv, r
    <3>2. CASE op = "rejectRegularization"
      <4>1. request'[r].st = "REJECTED" /\ r \notin applied /\ ~Stamping(c)
        BY <2>1, <2>2, <2>6, <2>8, <3>2 DEF CorrectionInv, Days!AnswerOf, r
      <4>2. QED
        BY <1>1, <2>2, <2>3, <2>5, <2>8, <4>1 DEF CorrectionInv
    <3>3. QED
      BY <3>1, <3>2
  <2>9. QED
    BY <1>3, <2>1, <2>3, <2>5, <2>7, <2>8 DEF CorrectionInv
<1>12. QED
  BY <1>4, <1>5, <1>6, <1>7, <1>8, <1>9, <1>10, <1>11 DEF Days!Next

(* Each step keeps the work-from-home answer of a day away from the office. *)
LEMMA WfhStep ==
  ASSUME duty \in Duties, duty' = duty, DayTyped, ClockingInv, WfhInv, Days!Next
  PROVE  WfhInv'
<1>1. /\ clocking \in [Calls -> Days!CallState] /\ day \in Days!DayRow
      /\ duty.calls \subseteq Calls
  BY DayDuty DEF DayTyped, Days!TypeOK
<1>2. \A c \in Calls : ClockingShape(clocking[c])
                       /\ (clocking[c].pc # "idle" => c \in duty.calls)
  BY DEF ClockingInv
<1>3. SUFFICES ASSUME Days!Serial
               PROVE  /\ day'.wfh # "none" => day'.away
                      /\ \A c \in duty.calls : clocking'[c].op = "approveWfh" => day'.away
  BY DEF WfhInv, Days!Serial
<1>4. /\ day.wfh # "none" => day.away
      /\ \A c \in duty.calls : clocking[c].op = "approveWfh" => day.away
  BY <1>3 DEF WfhInv
<1>5. PICK one \in Calls : duty.calls = {one}
  BY <1>3, OneCall
<1>6. ASSUME day' = day \/ (day'.wfh = day.wfh /\ day'.away = day.away),
             \A c \in duty.calls : clocking'[c].op = "approveWfh" =>
               day.away \/ clocking[c].op = "approveWfh"
      PROVE  /\ day'.wfh # "none" => day'.away
             /\ \A c \in duty.calls : clocking'[c].op = "approveWfh" => day'.away
  BY <1>4, <1>6
<1>7. CASE Days!Tick
  BY <1>6, <1>7 DEF Days!Tick
<1>8. ASSUME NEW c \in Calls, Days!WriteCheckIn(c)
      PROVE  /\ day'.wfh # "none" => day'.away
             /\ \A k \in duty.calls : clocking'[k].op = "approveWfh" => day'.away
  <2>1. clocking[c].op = "checkIn" /\ c \in duty.calls
    BY <1>2, <1>8 DEF Days!WriteCheckIn, Days!At
  <2>2. CASE Days!Ended(c) /\ UNCHANGED day
    BY <1>1, <1>6, <2>2, ClockingAfter
  <2>3. ASSUME NEW away \in BOOLEAN, day' = Days!Arrived(day, clocking[c].at, away),
               Days!Goes(c, "session")
        PROVE  /\ day'.wfh # "none" => day'.away
               /\ \A k \in duty.calls : clocking'[k].op = "approveWfh" => day'.away
    <3>1. clocking'[c].op = "checkIn"
      BY <1>1, <2>1, <2>3, ClockingAfter
    <3>2. day'.wfh = (IF away THEN "PENDING" ELSE "none") /\ day'.away = away
      BY <1>1, <2>3 DEF Days!Arrived, Days!DayRow
    <3>3. QED
      BY <1>5, <2>1, <3>1, <3>2
  <2>4. QED
    BY <1>8, <2>2, <2>3 DEF Days!WriteCheckIn
<1>9. ASSUME NEW c \in Calls, Days!StartApproveWfh(c)
      PROVE  /\ day'.wfh # "none" => day'.away
             /\ \A k \in duty.calls : clocking'[k].op = "approveWfh" => day'.away
  BY <1>6, <1>9 DEF Days!StartApproveWfh
<1>10. ASSUME NEW c \in Calls, Days!WriteWfh(c)
       PROVE  /\ day'.wfh # "none" => day'.away
              /\ \A k \in duty.calls : clocking'[k].op = "approveWfh" => day'.away
  <2>1. clocking[c].op = "approveWfh" /\ c \in duty.calls
    BY <1>2, <1>10 DEF Days!WriteWfh, Days!At
  <2>2. day.away
    BY <1>4, <2>1
  <2>3. day'.away = day.away
    BY <1>1, <1>10 DEF Days!WriteWfh, Days!WithAnswer, Days!DayRow
  <2>4. QED
    BY <2>2, <2>3
<1>11. ASSUME NEW c \in Calls, Days!WriteCheckOut(c)
       PROVE  /\ day'.wfh # "none" => day'.away
              /\ \A k \in duty.calls : clocking'[k].op = "approveWfh" => day'.away
  <2>1. day'.wfh = day.wfh /\ day'.away = day.away
    BY <1>1, <1>11 DEF Days!WriteCheckOut, Days!DayRow
  <2>2. \A k \in duty.calls : clocking'[k].op = "approveWfh" => clocking[k].op = "approveWfh"
    BY <1>1, <1>11, ClockingAfter DEF Days!WriteCheckOut
  <2>3. QED
    BY <1>6, <2>1, <2>2
<1>12. ASSUME NEW c \in Calls,
              Days!WriteRegularize(c) \/ Days!WriteCorrection(c)
       PROVE  /\ day'.wfh # "none" => day'.away
              /\ \A k \in duty.calls : clocking'[k].op = "approveWfh" => day'.away
  <2>1. \A d, in, out, st : d \in Days!DayRow =>
          /\ Days!Corrected(d, in, out, st).wfh = d.wfh
          /\ Days!Corrected(d, in, out, st).away = d.away
    BY DEF Days!Corrected, Days!DayRow
  <2>2. day' = day \/ (day'.wfh = day.wfh /\ day'.away = day.away)
    <3>1. CASE Days!WriteRegularize(c)
      BY <1>1, <2>1, <3>1 DEF Days!WriteRegularize
    <3>2. CASE Days!WriteCorrection(c)
      <4> DEFINE s == clocking[c].seen
                 d == [day EXCEPT !.in = s.in, !.out = s.out]
      <4>1. d \in Days!DayRow /\ d.wfh = day.wfh /\ d.away = day.away
        <5>1. s \in Days!DayRow
          BY <1>1 DEF Days!CallState
        <5>2. s.in \in Days!Time \cup {Days!None} /\ s.out \in Days!Time \cup {Days!None}
          BY <5>1, RowEdited
        <5> HIDE DEF s
        <5>3. QED
          BY <1>1, <5>2 DEF Days!DayRow
      <4>2. \/ day' = day
            \/ \E in, out, st : day' = Days!Corrected(d, in, out, st)
        BY <3>2 DEF Days!WriteCorrection
      <4> HIDE DEF d
      <4>3. QED
        BY <2>1, <4>1, <4>2
    <3>3. QED
      BY <1>12, <3>1, <3>2
  <2>3. \A k \in duty.calls : clocking'[k].op = "approveWfh" => clocking[k].op = "approveWfh"
    <3>1. Days!Ended(c) \/ Days!Goes(c, "stamp")
      BY <1>12 DEF Days!WriteRegularize, Days!WriteCorrection
    <3>2. QED
      BY <1>1, <3>1, ClockingAfter
  <2>4. QED
    BY <1>6, <2>2, <2>3
<1>13. ASSUME NEW c \in Calls,
              \/ Days!StartCheckIn(c) \/ Days!OpenSession(c) \/ Days!StartCheckOut(c)
              \/ Days!FindSession(c) \/ Days!CloseSession(c) \/ Days!StartRegularize(c)
              \/ Days!FindDay(c)
              \/ \E r \in Requests : Days!Apply(c, r)
              \/ \E op \in {"approveRegularization", "rejectRegularization"} :
                   (\E r \in Requests : Days!ReadRequest(c, op, r)) \/ Days!Stamp(c, op)
       PROVE  /\ day'.wfh # "none" => day'.away
              /\ \A k \in duty.calls : clocking'[k].op = "approveWfh" => day'.away
  <2>1. day' = day
    BY <1>13 DEF Days!StartCheckIn, Days!OpenSession, Days!StartCheckOut, Days!FindSession,
         Days!CloseSession, Days!StartRegularize, Days!FindDay, Days!Apply, Days!ReadRequest,
         Days!Stamp
  <2>2. \A k \in Calls : clocking'[k].op = "approveWfh" => clocking[k].op = "approveWfh"
    <3>1. CASE Days!Ended(c) \/ Days!Goes(c, "total") \/ UNCHANGED clocking
      BY <1>1, <3>1, ClockingAfter
    <3>2. CASE \E op \in {"checkIn", "checkOut", "regularize"} : \E pc : Days!Reads(c, op, pc)
      BY <1>1, <3>2, ClockingAfter
    <3>3. CASE Days!FindSession(c) \/ Days!FindDay(c)
      BY <1>1, <3>3 DEF Days!FindSession, Days!FindDay, Days!CallState
    <3>4. ASSUME NEW op \in {"approveRegularization", "rejectRegularization"},
                 NEW r \in Requests, Days!ReadRequest(c, op, r)
          PROVE  \A k \in Calls : clocking'[k].op = "approveWfh" => clocking[k].op = "approveWfh"
      BY <1>1, <3>4 DEF Days!ReadRequest, Days!Idle
    <3>5. QED
      BY <1>13, <3>1, <3>2, <3>3, <3>4 DEF Days!StartCheckIn, Days!OpenSession,
         Days!StartCheckOut, Days!CloseSession, Days!StartRegularize, Days!Apply, Days!Stamp
  <2>3. QED
    BY <1>1, <1>6, <2>1, <2>2
<1>14. QED
  BY <1>7, <1>8, <1>9, <1>10, <1>11, <1>12, <1>13 DEF Days!Next

(* The hours of the sessions, when one is opened and when one is closed. *)
LEMMA HeldTyped ==
  ASSUME NEW s \in Seq(Days!AttendanceSession)
  PROVE  /\ DOMAIN s = 1 .. Len(s) /\ Len(s) \in Nat /\ IsFiniteSet(DOMAIN s)
         /\ \A n \in DOMAIN s : s[n].hours \in Nat /\ s[n].done \in BOOLEAN
         /\ Held(s) \in Nat
<1>1. DOMAIN s = 1 .. Len(s) /\ Len(s) \in Nat
  OBVIOUS
<1>2. IsFiniteSet(DOMAIN s)
  BY <1>1, FS_Interval
<1>3. \A n \in DOMAIN s : s[n].hours \in Nat /\ s[n].done \in BOOLEAN
  <2>1. \A n \in DOMAIN s : s[n] \in Days!AttendanceSession
    BY <1>1
  <2>2. QED
    BY <2>1 DEF Days!AttendanceSession
<1> DEFINE h == [n \in DOMAIN s |-> s[n].hours]
<1>4. \A n \in DOMAIN s : h[n] \in Nat
  BY <1>3
<1> HIDE DEF h
<1>5. Leaves!Amount(DOMAIN s, h) \in Nat
  BY <1>2, <1>4, UnitsFinite
<1>6. QED
  BY <1>1, <1>2, <1>3, <1>5 DEF Held, h

LEMMA HeldOpened ==
  ASSUME NEW s \in Seq(Days!AttendanceSession), NEW a \in Days!AttendanceSession, a.hours = 0
  PROVE  Held(Append(s, a)) = Held(s)
<1> DEFINE t == Append(s, a)
           last == Len(s) + 1
           h == [n \in DOMAIN s |-> s[n].hours]
           g == [n \in DOMAIN t |-> t[n].hours]
<1>1. /\ DOMAIN s = 1 .. Len(s) /\ Len(s) \in Nat /\ DOMAIN t = DOMAIN s \cup {last}
      /\ last \notin DOMAIN s /\ t[last] = a /\ \A n \in DOMAIN s : t[n] = s[n]
  OBVIOUS
<1>2. IsFiniteSet(DOMAIN s) /\ \A n \in DOMAIN s : s[n].hours \in Nat
  BY HeldTyped
<1>3. /\ \A n \in DOMAIN s : g[n] = h[n] /\ g[n] \in Nat
      /\ g[last] = 0 /\ g[last] \in Nat
  BY <1>1, <1>2
<1> HIDE DEF g, h, last, t
<1> DEFINE S == DOMAIN s
<1>4. Leaves!Amount(S \cup {last}, g) = Leaves!Amount(S, g) + g[last]
  <2>1. IsFiniteSet(S) /\ (\A n \in S : g[n] \in Nat) /\ last \notin S
    BY <1>1, <1>2, <1>3
  <2> HIDE DEF S
  <2>2. QED
    BY <1>3, <2>1, AmountAdd
<1>5. Leaves!Amount(DOMAIN s, g) = Leaves!Amount(DOMAIN s, h)
  BY <1>3, AmountSame
<1>6. Leaves!Amount(DOMAIN s, h) \in Nat
  BY HeldTyped DEF Held, h
<1>7. Held(t) = Leaves!Amount(DOMAIN t, g) /\ Held(s) = Leaves!Amount(DOMAIN s, h)
  BY DEF Held, g, h
<1>8. Held(t) = Held(s)
  BY <1>1, <1>3, <1>4, <1>5, <1>6, <1>7
<1>9. QED
  BY <1>8 DEF t

LEMMA HeldClosed ==
  ASSUME NEW s \in Seq(Days!AttendanceSession), NEW x \in DOMAIN s, s[x].hours = 0,
         NEW a \in Days!AttendanceSession
  PROVE  Held([s EXCEPT ![x] = a]) = Held(s) + a.hours
<1> DEFINE t == [s EXCEPT ![x] = a]
           w == a.hours
           h == [n \in DOMAIN s |-> s[n].hours]
           g == [n \in DOMAIN t |-> t[n].hours]
           rest == DOMAIN s \ {x}
<1>1. IsFiniteSet(DOMAIN s) /\ \A n \in DOMAIN s : s[n].hours \in Nat
  BY HeldTyped
<1>2. /\ DOMAIN t = DOMAIN s /\ t[x] = a /\ \A n \in rest : t[n] = s[n]
      /\ w \in Nat
  BY DEF Days!AttendanceSession
<1>3. /\ \A n \in rest : g[n] = h[n]
      /\ \A n \in DOMAIN s : g[n] \in Nat /\ h[n] \in Nat
      /\ g[x] = w /\ h[x] = 0
  BY <1>1, <1>2
<1> HIDE DEF g, h, t
<1>4. /\ Leaves!Amount(DOMAIN s, g) = Leaves!Amount(rest, g) + g[x]
      /\ Leaves!Amount(DOMAIN s, h) = Leaves!Amount(rest, h) + h[x]
  BY <1>1, <1>3, AmountRemove
<1>5. Leaves!Amount(rest, g) = Leaves!Amount(rest, h)
  BY <1>3, AmountSame
<1>6. IsFiniteSet(rest)
  BY <1>1, FS_RemoveElement
<1>7. Leaves!Amount(rest, h) \in Nat
  BY <1>3, <1>6, UnitsFinite
<1>8. Held(t) = Leaves!Amount(DOMAIN t, g) /\ Held(s) = Leaves!Amount(DOMAIN s, h)
  BY DEF Held, g, h
<1>9. Held(t) = Held(s) + w
  BY <1>2, <1>3, <1>4, <1>5, <1>7, <1>8
<1>10. QED
  BY <1>9 DEF t

(* Each step keeps the hours of a day of one call at a time. *)
LEMMA HoursStep ==
  ASSUME duty \in Duties, duty' = duty, DayTyped, ClockingInv, HoursInv, Days!Next
  PROVE  HoursInv'
<1>1. /\ clocking \in [Calls -> Days!CallState] /\ day \in Days!DayRow
      /\ sessions \in Seq(Days!AttendanceSession) /\ now \in Days!Time
  BY DEF DayTyped, Days!TypeOK
<1>2. EndOfDay \in Nat /\ \A k \in Calls : clocking[k] \in Days!CallState
  BY <1>1, DayDuty
<1>3. SUFFICES ASSUME Days!Serial, duty.ops \subseteq Days!DayOps
               PROVE  /\ \A n \in Days!OpenOnes' : sessions'[n].hours = 0
                      /\ \A k \in duty.calls : HoursOf(clocking[k])'
  BY DEF HoursInv, Days!Serial
<1>4. PICK c \in Calls : duty.calls = {c}
  BY <1>3, OneCall
<1> DEFINE Goal == /\ \A n \in Days!OpenOnes' : sessions'[n].hours = 0
                   /\ HoursOf(clocking[c])'
<1>5. SUFFICES Goal
  BY <1>4
<1>6. /\ \A n \in Days!OpenOnes : sessions[n].hours = 0
      /\ HoursOf(clocking[c])
  BY <1>3, <1>4 DEF HoursInv
<1>7. /\ \A k \in Calls : clocking[k].pc # "idle" => k = c /\ clocking[k].op \in Days!DayOps
      /\ \A k \in Calls : \A op : Days!Free(k, op) => k = c /\ op \in Days!DayOps
      /\ \A k \in Calls : ClockingShape(clocking[k])
  BY <1>3, <1>4 DEF ClockingInv, Days!Free
<1>8. ASSUME UNCHANGED sessions
      PROVE  Days!OpenOnes' = Days!OpenOnes /\ (\A n \in Days!OpenOnes' : sessions'[n].hours = 0)
             /\ Held(sessions)' = Held(sessions)
  BY <1>6, <1>8 DEF Days!OpenOnes
<1>9. ASSUME UNCHANGED day
      PROVE  Days!CheckedIn' <=> Days!CheckedIn
  BY <1>9 DEF Days!CheckedIn
<1>10. /\ clocking[c].pc = "idle" <=> clocking[c].op = "none"
       /\ clocking[c].op = "checkIn" => clocking[c].pc \in {"write", "session"}
       /\ clocking[c].op = "checkOut" => clocking[c].pc \in {"find", "close", "total"}
  BY <1>7 DEF ClockingShape
<1>11. CASE Days!Tick
  BY <1>6, <1>8, <1>9, <1>11 DEF Days!Tick, HoursOf
<1>12. ASSUME NEW k \in Calls, Days!StartCheckIn(k)
       PROVE  Goal
  <2>1. /\ k = c /\ clocking[c].pc = "idle" /\ ~Days!CheckedIn /\ UNCHANGED <<sessions, day>>
    BY <1>7, <1>12 DEF Days!StartCheckIn, Days!Free, Days!MayCheckIn
  <2>2. /\ clocking'[c].op = "checkIn" /\ clocking'[c].pc = "write" /\ clocking'[c].seen = day
    BY <1>1, <1>12, <2>1, ClockingAfter DEF Days!StartCheckIn
  <2>3. QED
    BY <1>6, <1>8, <1>9, <2>1, <2>2 DEF HoursOf
<1>13. ASSUME NEW k \in Calls, Days!WriteCheckIn(k)
       PROVE  Goal
  <2>1. /\ k = c /\ clocking[c].op = "checkIn" /\ clocking[c].pc = "write"
        /\ UNCHANGED sessions
    BY <1>7, <1>13 DEF Days!WriteCheckIn, Days!At
  <2>2. clocking[c].seen = day /\ ~Days!CheckedIn
    BY <1>6, <2>1 DEF HoursOf
  <2>3. PICK away \in BOOLEAN : day' = Days!Arrived(day, clocking[c].at, away)
    BY <1>13, <2>1, <2>2 DEF Days!WriteCheckIn
  <2>4. Days!Goes(c, "session")
    BY <1>13, <2>1, <2>2 DEF Days!WriteCheckIn
  <2>5. /\ clocking'[c].op = "checkIn" /\ clocking'[c].pc = "session"
    BY <1>1, <2>1, <2>4, ClockingAfter
  <2>6. day'.hours = day.hours /\ Days!CheckedIn'
    <3>1. day'.hours = day.hours /\ day'.in = clocking[c].at /\ day'.out = Days!None
      BY <1>1, <2>3 DEF Days!Arrived, Days!DayRow
    <3>2. clocking[c].at # Days!None
      BY <1>2, TotalTyped
    <3>3. QED
      BY <3>1, <3>2 DEF Days!CheckedIn
  <2>7. QED
    BY <1>6, <1>8, <2>1, <2>2, <2>5, <2>6 DEF HoursOf
<1>14. ASSUME NEW k \in Calls, Days!OpenSession(k)
       PROVE  Goal
  <2> DEFINE a == [in |-> clocking[c].at, done |-> FALSE, hours |-> 0]
             last == Len(sessions) + 1
  <2>1. /\ k = c /\ clocking[c].op = "checkIn" /\ clocking[c].pc = "session" /\ UNCHANGED day
    BY <1>7, <1>14 DEF Days!OpenSession, Days!At
  <2>2. sessions' = Append(sessions, a)
    BY <1>14, <2>1 DEF Days!OpenSession
  <2>3. a \in Days!AttendanceSession /\ a.hours = 0 /\ ~a.done
    BY <1>2, TotalTyped DEF Days!AttendanceSession
  <2>4. Days!CheckedIn /\ Days!OpenOnes = {} /\ day.hours = Held(sessions)
    BY <1>6, <2>1 DEF HoursOf
  <2>5. /\ clocking'[c].op = "none" /\ clocking'[c].pc = "idle"
    BY <1>1, <1>14, <2>1, ClockingAfter DEF Days!OpenSession
  <2> HIDE DEF a
  <2>6. Held(sessions)' = Held(sessions)
    BY <1>1, <2>2, <2>3, HeldOpened
  <2>7. /\ last \in DOMAIN sessions' /\ DOMAIN sessions' = DOMAIN sessions \cup {last}
        /\ sessions'[last] = a /\ \A n \in DOMAIN sessions : sessions'[n] = sessions[n]
    BY <1>1, <2>2
  <2>8. Days!OpenOnes' = {last}
    BY <2>3, <2>4, <2>7 DEF Days!OpenOnes
  <2>9. QED
    BY <1>9, <2>1, <2>3, <2>4, <2>5, <2>6, <2>7, <2>8 DEF HoursOf
<1>15. ASSUME NEW k \in Calls, Days!StartCheckOut(k)
       PROVE  Goal
  <2>1. /\ k = c /\ clocking[c].pc = "idle" /\ Days!CheckedIn /\ UNCHANGED <<sessions, day>>
    BY <1>7, <1>15 DEF Days!StartCheckOut, Days!Free
  <2>2. /\ clocking'[c].op = "checkOut" /\ clocking'[c].pc = "find" /\ clocking'[c].seen = day
    BY <1>1, <1>15, <2>1, ClockingAfter DEF Days!StartCheckOut
  <2>3. QED
    BY <1>6, <1>8, <1>9, <2>1, <2>2 DEF HoursOf
<1>16. ASSUME NEW k \in Calls, Days!FindSession(k)
       PROVE  Goal
  <2>1. /\ k = c /\ clocking[c].op = "checkOut" /\ clocking[c].pc = "find"
        /\ UNCHANGED <<sessions, day>>
    BY <1>7, <1>16 DEF Days!FindSession, Days!At
  <2>2. PICK n \in DOMAIN sessions : Days!OpenOnes = {n}
    BY <1>6, <2>1 DEF HoursOf
  <2>3. Days!LatestOpen # 0 /\ Days!LatestOpen = n
    BY <1>1, <2>2, LatestIsOpen
  <2>4. /\ clocking'[c].op = "checkOut" /\ clocking'[c].pc = "close"
        /\ clocking'[c].seen = clocking[c].seen /\ clocking'[c].open = n
    BY <1>1, <1>16, <2>1, <2>3 DEF Days!FindSession, Days!CallState
  <2>5. QED
    BY <1>6, <1>8, <1>9, <2>1, <2>2, <2>4 DEF HoursOf
<1>17. ASSUME NEW k \in Calls, Days!CloseSession(k)
       PROVE  Goal
  <2> DEFINE n == clocking[c].open
             w == Days!AtLeastNone(clocking[c].at - clocking[c].seen.in)
             s == [[sessions[n] EXCEPT !.done = TRUE] EXCEPT !.hours = w]
  <2>1. /\ k = c /\ clocking[c].op = "checkOut" /\ clocking[c].pc = "close" /\ UNCHANGED day
    BY <1>7, <1>17 DEF Days!CloseSession, Days!At
  <2>2. /\ day.hours = Held(sessions) /\ clocking[c].seen = day /\ Days!CheckedIn
        /\ Days!OpenOnes = {n}
    BY <1>6, <2>1 DEF HoursOf
  <2>3. n \in DOMAIN sessions /\ sessions[n].hours = 0
    BY <1>6, <2>2 DEF Days!OpenOnes
  <2>4. w \in Nat /\ w = Days!AtLeastNone(Days!Worked(c))
    BY <1>2, TotalTyped DEF Days!Worked
  <2>5. sessions' = [sessions EXCEPT ![n] = s]
    BY <1>1, <1>17, <2>1, <2>3 DEF Days!CloseSession, Days!Worked
  <2>6. sessions[n] \in Days!AttendanceSession
    BY <1>1, <2>3
  <2>7. /\ clocking'[c].pc = "total" /\ clocking'[c].op = "checkOut"
        /\ clocking'[c].seen = day /\ clocking'[c].at = clocking[c].at
    BY <1>1, <1>17, <2>1, <2>2, ClockingAfter DEF Days!CloseSession
  <2>8. Days!AtLeastNone(clocking'[c].at - clocking'[c].seen.in) = w
    BY <2>2, <2>7
  <2> HIDE DEF w
  <2>9. s \in Days!AttendanceSession /\ s.hours = w /\ s.done
    BY <2>4, <2>6 DEF Days!AttendanceSession
  <2> HIDE DEF s
  <2>10. Held(sessions)' = Held(sessions) + w
    BY <1>1, <2>3, <2>5, <2>9, HeldClosed
  <2>11. /\ DOMAIN sessions' = DOMAIN sessions /\ sessions'[n] = s
         /\ \A x \in DOMAIN sessions : x # n => sessions'[x] = sessions[x]
    BY <1>1, <2>3, <2>5
  <2> HIDE DEF n
  <2>12. Days!OpenOnes' = {}
    BY <2>2, <2>9, <2>11 DEF Days!OpenOnes
  <2>13. QED
    BY <1>9, <2>1, <2>2, <2>7, <2>8, <2>10, <2>12 DEF HoursOf
<1>18. ASSUME NEW k \in Calls, Days!WriteCheckOut(k)
       PROVE  Goal
  <2>1. /\ k = c /\ clocking[c].op = "checkOut" /\ clocking[c].pc = "total"
        /\ UNCHANGED sessions
    BY <1>7, <1>18 DEF Days!WriteCheckOut, Days!At
  <2>2. Days!Total(c) = Held(sessions) /\ Days!OpenOnes = {}
    BY <1>6, <2>1 DEF HoursOf, Days!Total, Days!Worked
  <2>3. day'.hours = Days!Total(c) /\ day'.out = clocking[c].at
    BY <1>1, <1>18, <2>1 DEF Days!WriteCheckOut, Days!DayRow
  <2>4. ~Days!CheckedIn'
    BY <1>2, <2>3, TotalTyped DEF Days!CheckedIn
  <2>5. /\ clocking'[c].op = "none" /\ clocking'[c].pc = "idle"
    BY <1>1, <1>18, <2>1, ClockingAfter DEF Days!WriteCheckOut
  <2>6. QED
    BY <1>8, <2>1, <2>2, <2>3, <2>4, <2>5 DEF HoursOf
<1>19. ASSUME NEW k \in Calls, Days!StartApproveWfh(k)
       PROVE  Goal
  <2>1. /\ k = c /\ clocking[c].pc = "idle" /\ UNCHANGED <<sessions, day>>
    BY <1>7, <1>19 DEF Days!StartApproveWfh, Days!Free
  <2>2. /\ clocking'[c].op = "approveWfh" /\ clocking'[c].pc = "write"
    BY <1>1, <1>19, <2>1, ClockingAfter DEF Days!StartApproveWfh
  <2>3. QED
    BY <1>6, <1>8, <1>9, <2>1, <2>2 DEF HoursOf
<1>20. ASSUME NEW k \in Calls, Days!WriteWfh(k)
       PROVE  Goal
  <2>1. /\ k = c /\ clocking[c].op = "approveWfh" /\ clocking[c].pc = "write"
        /\ UNCHANGED sessions
    BY <1>7, <1>20 DEF Days!WriteWfh, Days!At
  <2>2. /\ day'.hours = day.hours /\ (Days!CheckedIn' <=> Days!CheckedIn)
    BY <1>1, <1>20 DEF Days!WriteWfh, Days!WithAnswer, Days!DayRow, Days!CheckedIn
  <2>3. /\ clocking'[c].op = "none" /\ clocking'[c].pc = "idle"
    BY <1>1, <1>20, <2>1, ClockingAfter DEF Days!WriteWfh
  <2>4. QED
    BY <1>6, <1>8, <2>1, <2>2, <2>3 DEF HoursOf
<1>21. \A k \in Calls : \A op \in {"approveRegularization", "rejectRegularization"} :
         /\ ~Days!StartRegularize(k) /\ ~Days!WriteRegularize(k) /\ ~Days!FindDay(k)
         /\ ~Days!WriteCorrection(k) /\ ~Days!Stamp(k, op)
         /\ \A r \in Requests : ~Days!Apply(k, r) /\ ~Days!ReadRequest(k, op, r)
  <2> TAKE k \in Calls
  <2> TAKE op \in {"approveRegularization", "rejectRegularization"}
  <2>1. \A x \in {"applyRegularization", "approveRegularization", "rejectRegularization",
                  "regularize"} :
          /\ ~Days!Free(k, x)
          /\ \A pc \in {"write", "look", "stamp"} : ~Days!At(k, x, pc)
    BY <1>7 DEF Days!At, Days!DayOps
  <2>2. /\ ~Days!StartRegularize(k) /\ ~Days!WriteRegularize(k) /\ ~Days!FindDay(k)
        /\ ~Days!WriteCorrection(k) /\ ~Days!Stamp(k, op)
    BY <2>1 DEF Days!StartRegularize, Days!WriteRegularize, Days!FindDay,
         Days!WriteCorrection, Days!Stamp
  <2>3. \A r \in Requests : ~Days!Apply(k, r) /\ ~Days!ReadRequest(k, op, r)
    BY <2>1 DEF Days!Apply, Days!ReadRequest
  <2>4. QED
    BY <2>2, <2>3
<1> HIDE DEF Goal
<1>22. QED
  BY <1>11, <1>12, <1>13, <1>14, <1>15, <1>16, <1>17, <1>18, <1>19, <1>20, <1>21 DEF Days!Next

LEMMA DayStutters ==
  ASSUME DayInv, UNCHANGED <<duty, attendance>>
  PROVE  DayInv'
<1>1. UNCHANGED <<duty, clocking, now, day, sessions, request, applied>>
  BY DEF attendance
<1>2. duty' \in Duties /\ DayTyped' /\ ClockingInv'
  BY <1>1 DEF DayInv, DayTyped, Days!TypeOK, ClockingInv
<1>3. CorrectionInv' /\ WfhInv'
  BY <1>1 DEF DayInv, CorrectionInv, WfhInv, Stamping, Days!Serial
<1>4. HoursInv'
  <2>1. /\ Days!OpenOnes' = Days!OpenOnes /\ (Days!CheckedIn' <=> Days!CheckedIn)
        /\ (Days!Serial' <=> Days!Serial)
    BY <1>1 DEF Days!OpenOnes, Days!CheckedIn, Days!Serial
  <2>2. \A c \in duty.calls : HoursOf(clocking[c]) => HoursOf(clocking[c])'
    BY <1>1, <2>1 DEF HoursOf
  <2>3. QED
    BY <1>1, <2>1, <2>2 DEF DayInv, HoursInv
<1>5. QED
  BY <1>2, <1>3, <1>4 DEF DayInv

LEMMA DayStarts ==
  ASSUME duty \in Duties, Days!Init
  PROVE  DayInv
<1>1. /\ now = 0 /\ day = Days!NoDay /\ sessions = <<>> /\ applied = {}
      /\ clocking = [c \in Calls |-> Days!Idle]
      /\ request \in [Requests -> {[st |-> "none", in |-> Days!None, out |-> Days!None,
                                    for |-> s] : s \in Asked}]
  BY DEF Days!Init
<1>2. /\ \A c \in Calls : clocking[c] = Days!Idle
      /\ Days!Idle.pc = "idle" /\ Days!Idle.op = "none"
      /\ duty.calls \subseteq Calls
  BY <1>1, DayDuty DEF Days!Idle
<1>3. \A r \in Requests : request[r] \in Days!AttendanceRegularization
                          /\ request[r].st = "none"
  BY <1>1 DEF Days!AttendanceRegularization
<1>4. DayTyped
  <2>1. day \in Days!DayRow
    BY <1>1 DEF Days!NoDay, Days!DayRow, Days!None, Days!DayStatus
  <2>2. request \in [Requests -> Days!AttendanceRegularization]
    BY <1>1, <1>3
  <2>3. clocking \in [Calls -> Days!CallState]
    BY <1>1, DayIdle
  <2>4. now \in Days!Time /\ Len(sessions) <= MaxSessions
    BY <1>1, DayDuty DEF Days!Time
  <2>5. sessions \in Seq(Days!AttendanceSession) /\ DOMAIN sessions = {}
    BY <1>1
  <2>6. QED
    BY <1>1, <2>1, <2>2, <2>3, <2>4, <2>5 DEF DayTyped, Days!TypeOK
<1>5. ClockingInv
  BY <1>2, DayIdle DEF ClockingInv
<1>6. CorrectionInv
  BY <1>1, <1>2, <1>3 DEF CorrectionInv, Stamping
<1>7. WfhInv
  BY <1>1, <1>2 DEF WfhInv, Days!NoDay
<1>8. HoursInv
  <2>1. DOMAIN sessions = {}
    BY <1>1
  <2>2. Days!OpenOnes = {} /\ ~Days!CheckedIn /\ day.hours = 0
    BY <1>1, <2>1 DEF Days!OpenOnes, Days!CheckedIn, Days!NoDay
  <2>3. Held(sessions) = 0
    BY <2>1, NothingAmounts DEF Held
  <2>4. QED
    BY <1>2, <2>2, <2>3 DEF HoursInv, HoursOf
<1>9. QED
  BY <1>4, <1>5, <1>6, <1>7, <1>8 DEF DayInv

LEMMA DayMoves ==
  ASSUME DayInv, [StaffNext]_staff
  PROVE  DayInv'
<1>1. duty' = duty /\ (Days!Next \/ UNCHANGED attendance)
  <2>1. CASE StaffNext
    BY <2>1 DEF StaffNext, KeepJoining, KeepPapers, KeepLeave, KeepDay, KeepExit, Crash
  <2>2. CASE UNCHANGED staff
    BY <2>2 DEF staff
  <2>3. QED
    BY <2>1, <2>2
<1>2. CASE Days!Next
  <2>1. duty' \in Duties /\ DayTyped' /\ ClockingInv'
    BY <1>1, <1>2, DayTypedStep DEF DayInv
  <2>2. CorrectionInv' /\ WfhInv' /\ HoursInv'
    BY <1>1, <1>2, CorrectionStep, WfhStep, HoursStep DEF DayInv
  <2>3. QED
    BY <2>1, <2>2 DEF DayInv
<1>3. CASE UNCHANGED attendance
  BY <1>1, <1>3, DayStutters
<1>4. QED
  BY <1>1, <1>2, <1>3

LEMMA DayAgreesThen ==
  ASSUME DayInv
  PROVE  DayAgrees
<1>1. \A S : Days!Cardinality(S) = Cardinality(S)
  BY Zenon DEF Days!Cardinality, Cardinality
<1>2. Days!SessionsMatchDay
  <2>1. SUFFICES ASSUME Days!Quiet, Days!Serial, duty.ops \subseteq Days!DayOps
                 PROVE  /\ day.hours = Cardinality(UNION {{n} \X (1 .. sessions[n].hours) :
                                                            n \in DOMAIN sessions})
                        /\ Cardinality(Days!OpenOnes) = IF Days!CheckedIn THEN 1 ELSE 0
    BY <1>1 DEF Days!SessionsMatchDay
  <2>2. PICK c \in Calls : duty.calls = {c}
    BY <2>1, OneCall DEF DayInv
  <2>3. clocking[c].pc = "idle" /\ HoursOf(clocking[c])
    BY <2>1, <2>2 DEF Days!Quiet, DayInv, HoursInv
  <2>4. Held(sessions) = Cardinality(UNION {{n} \X (1 .. sessions[n].hours) :
                                              n \in DOMAIN sessions})
    <3> DEFINE h == [n \in DOMAIN sessions |-> sessions[n].hours]
    <3>1. Held(sessions) = Cardinality(Units(DOMAIN sessions, h))
      BY AmountOfUnits DEF Held
    <3>2. {{n} \X (1 .. h[n]) : n \in DOMAIN sessions}
            = {{n} \X (1 .. sessions[n].hours) : n \in DOMAIN sessions}
      OBVIOUS
    <3>3. QED
      BY <3>1, <3>2 DEF Units
  <2>5. day.hours = Held(sessions)
    BY <2>3 DEF HoursOf
  <2>6. Cardinality(Days!OpenOnes) = IF Days!CheckedIn THEN 1 ELSE 0
    <3>1. CASE Days!CheckedIn
      <4>1. PICK n \in DOMAIN sessions : Days!OpenOnes = {n}
        BY <2>3, <3>1 DEF HoursOf
      <4>2. QED
        BY <3>1, <4>1, FS_Singleton
    <3>2. CASE ~Days!CheckedIn
      BY <2>3, <3>2, FS_EmptySet DEF HoursOf
    <3>3. QED
      BY <3>1, <3>2
  <2>7. QED
    BY <2>4, <2>5, <2>6
<1>3. Days!WfhOnlyAway
  BY DEF DayInv, WfhInv, Days!WfhOnlyAway
<1>4. Days!CorrectedIffApproved
  <2>1. SUFFICES ASSUME Days!Quiet, Days!Serial \/ "rejectRegularization" \notin duty.ops,
                        NEW r \in Requests
                 PROVE  r \in applied <=> request[r].st = "APPROVED"
    BY DEF Days!CorrectedIffApproved
  <2>2. \A k \in Calls : ~Stamping(k)
    BY <2>1 DEF Days!Quiet, Stamping
  <2>3. QED
    BY <2>1, <2>2 DEF DayInv, CorrectionInv
<1>5. QED
  BY <1>2, <1>3, <1>4 DEF DayAgrees

LEMMA DayInvariant == StaffSpec => []DayInv
<1>1. StaffInit => DayInv
  BY DayStarts DEF StaffInit
<1>2. DayInv /\ [StaffNext]_staff => DayInv'
  BY DayMoves
<1>3. QED
  BY <1>1, <1>2, PTL DEF StaffSpec

(* Attendance: by one call at a time the hours of the day are those of its *)
(* closed sessions and one session is open while the employee is checked   *)
(* in; the work-from-home answer is of a day away; and what was corrected  *)
(* is what was approved, by several calls too while nobody rejects.        *)
THEOREM DayIsOne == StaffSpec => []DayAgrees
<1>1. DayInv => DayAgrees
  BY DayAgreesThen
<1>2. QED
  BY <1>1, DayInvariant, PTL

(* Leave and attendance: each keeps its types, over every step of the      *)
(* office (the parts of StaffTypeOK that are theirs).  Hours and the days  *)
(* credited are never negative; the days used and reserved may be, of a    *)
(* leave that ends before it starts (apply of leave.controller.ts).        *)
THEOREM LeaveAndDayTyped == StaffSpec => [](Leaves!TypeOK /\ Days!TypeOK)
<1>1. LeaveInv => Leaves!TypeOK
  BY DEF LeaveInv
<1>2. DayInv => Days!TypeOK
  BY DEF DayInv, DayTyped
<1>3. QED
  BY <1>1, <1>2, LeaveInvariant, DayInvariant, PTL

-----------------------------------------------------------------------------
(* The way out: module Exit by itself, for any resignations and any number  *)
(* of calls in flight.                                                      *)

(* A call about to write carries a status of the table it writes. *)
CallInv ==
  \A c \in Calls :
    /\ call[c].pc = "approve" => call[c].st \in Active /\ call[c].row \in Rows
    /\ call[c].pc \in {"sign", "complete"} =>
         call[c].st \in ClearStatus /\ call[c].row \in Rows
    /\ call[c].pc \in {"create", "insert"} => call[c].row \in Rows

(* A signature that stands was given; a call that is to complete an exit   *)
(* has read the other side's; the employee is let go after its own.        *)
SignedInv ==
  /\ \A k \in Rows, s \in Side :
       clear[k].side[s] = "APPROVED" => s \in cleared[k]
  /\ \A c \in Calls :
       /\ call[c].pc = "sign" /\ call[c].st = "COMPLETED" =>
            Other(call[c].side) \in cleared[call[c].row]
       /\ call[c].pc = "complete" => cleared[call[c].row] = Side

-----------------------------------------------------------------------------
(* A row of which only these columns change keeps its type. *)

LEMMA SidesType ==
  ASSUME NEW S, NEW v \in S, NEW f \in [Side -> S], NEW s \in Side
  PROVE  [f EXCEPT ![s] = v] \in [Side -> S]
OBVIOUS

LEMMA IdleType == Idle \in CallState
BY MaxDayNat DEF Idle, CallState, Side, Day

LEMMA CallTyped ==
  ASSUME NEW f \in [Calls -> CallState], NEW c \in Calls, NEW v \in CallState
  PROVE  [f EXCEPT ![c] = v] \in [Calls -> CallState]
OBVIOUS

LEMMA SignedType ==
  ASSUME NEW k \in Rows, NEW s \in Side
  PROVE  SignedStatus(k, s) \in ClearStatus
BY DEF SignedStatus, ClearStatus

LEMMA OtherSide ==
  ASSUME NEW s \in Side
  PROVE  Other(s) \in Side /\ Side = {s, Other(s)}
BY DEF Other, Side

LEMMA DaysType ==
  ASSUME TypeOK, NEW k \in Rows, NEW s \in Side, NEW d \in Day
  PROVE  AgreedDate(k, s, d) \in Day /\ LastDay(k, s, d) \in Day
<1>1. resig[k].date[Other(s)] \in Day /\ resig[k].final \in Day
  BY OtherSide DEF TypeOK, Resignation
<1>2. clear[k].date[Other(s)] \in Day /\ 0 \in Day
  BY OtherSide, MaxDayNat DEF TypeOK, Clearance, Day
<1>3. \A a, b \in Day : Later(a, b) \in Day
  BY DEF Later
<1>4. AgreedDate(k, s, d) \in Day
  BY <1>1, <1>3 DEF AgreedDate
<1>5. LastDay(k, s, d) \in Day
  <2> DEFINE theirs == IF clear[k].side[Other(s)] = "APPROVED"
                         THEN clear[k].date[Other(s)] ELSE 0
             else == IF d > 0 THEN d ELSE resig[k].final
  <2>1. theirs \in Day /\ else \in Day /\ Later(d, theirs) \in Day
    BY <1>1, <1>2, <1>3
  <2>2. s = "hr" \/ s = "manager"
    BY DEF Side
  <2>3. LastDay(k, s, d) \in {theirs, else, Later(d, theirs)}
    BY <2>2 DEF LastDay
  <2>4. QED
    BY <2>1, <2>3
<1>6. QED
  BY <1>4, <1>5

(* Every row and every call keeps its type, and a call that is to write an *)
(* answer carries a status its table has.                                  *)
THEOREM ExitTyped == Spec => [](TypeOK /\ CallInv)
<1>1. Init => TypeOK /\ CallInv
  BY MaxDayNat, IdleType
     DEF Init, TypeOK, CallInv, Idle, EmpStatus, Resignation, Clearance,
         Unanswered, Undated, Answer, Day, Side
<1>2. TypeOK /\ CallInv /\ [Next]_vars => (TypeOK /\ CallInv)'
  <2> SUFFICES ASSUME TypeOK, CallInv, [Next]_vars PROVE (TypeOK /\ CallInv)'
    OBVIOUS
  <2> USE DEF TypeOK
  <2>0. ASSUME UNCHANGED use, NEW c \in Calls,
               NEW v \in CallState, call' = [call EXCEPT ![c] = v],
               v.pc = "approve" => v.st \in Active /\ v.row \in Rows,
               v.pc \in {"sign", "complete"} =>
                 v.st \in ClearStatus /\ v.row \in Rows,
               v.pc \in {"create", "insert"} => v.row \in Rows
        PROVE  CallInv' /\ call' \in [Calls -> CallState]
    BY <2>0 DEF CallInv
  <2>00. ASSUME NEW c \in Calls, call' = [call EXCEPT ![c] = Idle],
                UNCHANGED use
         PROVE  CallInv' /\ call' \in [Calls -> CallState]
    BY <2>00, <2>0, IdleType DEF Idle
  <2>1. ASSUME UNCHANGED use, NEW c \in Calls, FindActive(c)
        PROVE (TypeOK /\ CallInv)'
    <3>1. PICK k \in Rows :
            call' = [call EXCEPT ![c] = [Idle EXCEPT !.pc = "create",
                                                     !.row = k]]
      BY <2>1 DEF FindActive
    <3>2. [Idle EXCEPT !.pc = "create", !.row = k] \in CallState
      BY <3>1, IdleType DEF CallState
    <3>3. QED
      BY <2>0, <2>1, <3>1, <3>2 DEF FindActive, Idle
  <2>2. ASSUME UNCHANGED use, NEW c \in Calls, CreateResignation(c)
        PROVE (TypeOK /\ CallInv)'
    <3>1. PICK m \in BOOLEAN :
            resig' = [resig EXCEPT ![call[c].row].st = "PENDING",
                                   ![call[c].row].managed = m]
      BY <2>2 DEF CreateResignation
    <3>2. call[c].row \in Rows
      BY <2>2 DEF CreateResignation, At, CallInv
    <3>3. [resig[call[c].row] EXCEPT !.st = "PENDING", !.managed = m]
            \in Resignation
      BY <3>2 DEF Resignation, Active
    <3>4. resig' \in [Rows -> Resignation]
      BY <3>1, <3>2, <3>3
    <3>5. QED
      BY <2>00, <2>2, <3>4 DEF CreateResignation, Ended
  <2>3. ASSUME UNCHANGED use, NEW c \in Calls, NEW k \in Rows, NEW s \in Side,
               NEW d \in use.dates, ReadAnswers(c, k, s, d)
        PROVE (TypeOK /\ CallInv)'
    <3>1. d \in Day
      BY UsesShape
    <3>2. AgreedDate(k, s, d) \in Day /\ 0 \in Day
      BY <3>1, DaysType, MaxDayNat DEF Day
    <3> DEFINE both == resig[k].side[Other(s)] = "APPROVED"
               v == [pc |-> "approve", row |-> k, side |-> s, date |-> d,
                     final |-> IF both THEN AgreedDate(k, s, d) ELSE 0,
                     st |-> IF both THEN "BOTH_APPROVED"
                            ELSE IF s = "hr" THEN "HR_APPROVED"
                                             ELSE "MANAGER_APPROVED"]
    <3>3. call' = [call EXCEPT ![c] = v]
      BY <2>3 DEF ReadAnswers
    <3>4. v \in CallState /\ v.pc = "approve" /\ v.st \in Active /\ v.row = k
      BY <3>1, <3>2 DEF CallState, Active
    <3>5. QED
      BY <2>0, <2>3, <3>3, <3>4 DEF ReadAnswers
  <2>4. ASSUME UNCHANGED use, NEW c \in Calls, Approve(c)
        PROVE (TypeOK /\ CallInv)'
    <3> DEFINE v == call[c]
    <3>1. /\ v.row \in Rows /\ v.side \in Side /\ v.st \in Active
          /\ v.date \in Day /\ v.final \in Day
      BY <2>4 DEF Approve, At, CallInv, CallState
    <3>2. PICK n \in Day :
            resig' = [resig EXCEPT
              ![v.row].side[v.side] = "APPROVED",
              ![v.row].date[v.side] = v.date,
              ![v.row].st = v.st, ![v.row].final = n]
      <4>1. resig[v.row].final \in Day
        BY <3>1 DEF Resignation
      <4>2. QED
        BY <2>4, <3>1, <4>1 DEF Approve, Resignation
    <3>3. /\ resig[v.row] \in Resignation
          /\ [resig[v.row].side EXCEPT ![v.side] = "APPROVED"] \in
                [Side -> Answer]
          /\ [resig[v.row].date EXCEPT ![v.side] = v.date] \in [Side -> Day]
      BY <3>1, SidesType DEF Resignation, Answer
    <3>4. resig' \in [Rows -> Resignation]
      BY <3>1, <3>2, <3>3 DEF Resignation
    <3>5. QED
      BY <2>00, <2>4, <3>4 DEF Approve, Ended
  <2>5. ASSUME UNCHANGED use, NEW c \in Calls, NEW k \in Rows, NEW s \in Side,
               Reject(c, k, s)
        PROVE (TypeOK /\ CallInv)'
    <3>1. /\ resig[k] \in Resignation
          /\ [resig[k].side EXCEPT ![s] = "REJECTED"] \in [Side -> Answer]
      BY SidesType DEF Resignation, Answer
    <3>2. resig' \in [Rows -> Resignation]
      BY <2>5, <3>1 DEF Reject, Resignation
    <3>3. [Idle EXCEPT !.pc = "activate"] \in CallState
      BY IdleType DEF CallState
    <3>4. QED
      BY <2>0, <2>5, <3>2, <3>3 DEF Reject, Idle
  <2>6. ASSUME UNCHANGED use, NEW c \in Calls, Reactivate(c)
        PROVE (TypeOK /\ CallInv)'
    BY <2>00, <2>6 DEF Reactivate, Ended, EmpStatus
  <2>7. ASSUME UNCHANGED use, NEW c \in Calls, NEW k \in Rows,
               StartClearance(c, k)
        PROVE (TypeOK /\ CallInv)'
    <3>1. [Idle EXCEPT !.pc = "insert", !.row = k] \in CallState
      BY IdleType DEF CallState
    <3>2. QED
      BY <2>0, <2>7, <3>1 DEF StartClearance, Idle
  <2>8. ASSUME UNCHANGED use, NEW c \in Calls, InsertClearance(c)
        PROVE (TypeOK /\ CallInv)'
    <3>1. call[c].row \in Rows
      BY <2>8 DEF InsertClearance, At, CallInv
    <3>2. clear' \in [Rows -> Clearance]
      BY <2>8, <3>1 DEF InsertClearance, Clearance, ClearStatus
    <3>3. QED
      BY <2>00, <2>8, <3>2 DEF InsertClearance, Ended
  <2>9. ASSUME UNCHANGED use, NEW c \in Calls, NEW k \in Rows, NEW s \in Side,
               NEW d \in use.dates \cup {0}, ReadClearance(c, k, s, d)
        PROVE (TypeOK /\ CallInv)'
    <3>1. d \in Day
      BY UsesShape, MaxDayNat DEF Day
    <3>2. LastDay(k, s, d) \in Day
      BY <3>1, DaysType
    <3>3. SignedStatus(k, s) \in ClearStatus
      BY SignedType
    <3>4. [pc |-> "sign", row |-> k, side |-> s, date |-> d,
           final |-> LastDay(k, s, d), st |-> SignedStatus(k, s)] \in CallState
      BY <3>1, <3>2, <3>3 DEF CallState
    <3>5. QED
      BY <2>0, <2>9, <3>3, <3>4 DEF ReadClearance
  <2>10. ASSUME UNCHANGED use, NEW c \in Calls, Sign(c)
         PROVE (TypeOK /\ CallInv)'
    <3> DEFINE v == call[c]
    <3>1. /\ v.row \in Rows /\ v.side \in Side /\ v.st \in ClearStatus
          /\ v.date \in Day /\ v \in CallState
      BY <2>10 DEF Sign, At, CallInv, CallState
    <3>2. PICK n \in Day :
            clear' = [clear EXCEPT
              ![v.row].side[v.side] = "APPROVED", ![v.row].st = v.st,
              ![v.row].date[v.side] = n]
      <4>1. clear[v.row].date[v.side] \in Day
        BY <3>1 DEF Clearance
      <4>2. QED
        BY <2>10, <3>1, <4>1 DEF Sign, Clearance
    <3>3. /\ clear[v.row] \in Clearance
          /\ [clear[v.row].side EXCEPT ![v.side] = "APPROVED"] \in
                [Side -> Answer]
          /\ [clear[v.row].date EXCEPT ![v.side] = n] \in [Side -> Day]
      BY <3>1, SidesType DEF Clearance, Answer
    <3>4. clear' \in [Rows -> Clearance]
      BY <3>1, <3>2, <3>3 DEF Clearance
    <3>5. cleared' \in [Rows -> SUBSET Side]
      BY <2>10, <3>1 DEF Sign
    <3>6. [v EXCEPT !.pc = "complete"] \in CallState
      BY <3>1 DEF CallState
    <3>7. CallInv' /\ call' \in [Calls -> CallState]
      BY <2>0, <2>00, <2>10, <3>1, <3>6 DEF Sign, CallState
    <3>8. QED
      BY <2>10, <3>4, <3>5, <3>7 DEF Sign
  <2>11. ASSUME UNCHANGED use, NEW c \in Calls, CompleteExit(c)
         PROVE (TypeOK /\ CallInv)'
    <3>1. call[c].final \in Day
      BY DEF CallState
    <3>2. QED
      BY <2>00, <2>11, <3>1 DEF CompleteExit, Ended, EmpStatus
  <2>12. ASSUME UNCHANGED use, NEW c \in Calls, NEW k \in Rows, NEW s \in Side,
                NEW d \in use.dates \cup {0}, RejectExit(c, k, s, d)
         PROVE (TypeOK /\ CallInv)'
    <3>1. d \in Day
      BY UsesShape, MaxDayNat DEF Day
    <3>2. PICK n \in Day :
            clear' = [clear EXCEPT ![k].side[s] = "REJECTED",
                                   ![k].st = "REJECTED", ![k].date[s] = n]
      <4>1. clear[k].date[s] \in Day
        BY DEF Clearance
      <4>2. QED
        BY <2>12, <3>1, <4>1 DEF RejectExit, Clearance
    <3>3. /\ clear[k] \in Clearance
          /\ [clear[k].side EXCEPT ![s] = "REJECTED"] \in [Side -> Answer]
          /\ [clear[k].date EXCEPT ![s] = n] \in [Side -> Day]
      BY SidesType DEF Clearance, Answer
    <3>4. clear' \in [Rows -> Clearance]
      BY <3>2, <3>3 DEF Clearance, ClearStatus
    <3>5. QED
      BY <2>12, <3>4 DEF RejectExit, CallInv
  <2>13. ASSUME UNCHANGED use, NEW c \in Calls, SetStatus(c) \/ Remove(c)
         PROVE (TypeOK /\ CallInv)'
    BY <2>13, TypedStatus DEF SetStatus, Remove, EmpStatus, CallInv
  <2>14. CASE UNCHANGED vars
    BY <2>14 DEF vars, CallInv
  <2>15. QED
    BY <2>1, <2>2, <2>3, <2>4, <2>5, <2>6, <2>7, <2>8, <2>9, <2>10, <2>11,
       <2>12, <2>13, <2>14 DEF Next, Answering
<1>3. QED
  BY <1>1, <1>2, PTL DEF Spec

-----------------------------------------------------------------------------
(* The signatures: only Sign adds one to the history, only Sign and the    *)
(* rejections of a clearance change a side's answer, and a call writes the *)
(* status it worked out from an answer that was there.                     *)

LEMMA SignedStep ==
  ASSUME TypeOK, CallInv, SignedInv, [Next]_vars
  PROVE  SignedInv'
<1> USE DEF SignedInv
<1>1. ASSUME NEW c \in Calls, Sign(c) PROVE SignedInv'
  <2> DEFINE v == call[c]
  <2>1. v \in CallState /\ v.row \in Rows /\ v.side \in Side /\ v.pc = "sign"
    BY <1>1 DEF Sign, At, CallInv, TypeOK, CallState
  <2>2. cleared' = [cleared EXCEPT ![v.row] = @ \cup {v.side}]
    BY <1>1 DEF Sign
  <2>3. \A k \in Rows : /\ cleared[k] \subseteq cleared'[k]
                        /\ cleared[k] = Side => cleared'[k] = Side
    BY <2>1, <2>2 DEF TypeOK
  <2>4. /\ clear'[v.row].side = [clear[v.row].side EXCEPT ![v.side] = "APPROVED"]
        /\ \A k \in Rows \ {v.row} : clear'[k] = clear[k]
    <3>1. /\ clear \in [Rows -> Clearance] /\ clear[v.row].side \in [Side -> Answer]
          /\ clear[v.row] \in Clearance
      BY <2>1 DEF TypeOK, Clearance
    <3>2. PICK n \in Day :
            clear' = [clear EXCEPT
              ![v.row].side[v.side] = "APPROVED", ![v.row].st = v.st,
              ![v.row].date[v.side] = n]
      <4>1. clear[v.row].date[v.side] \in Day /\ v.date \in Day
        BY <2>1, <3>1 DEF Clearance, CallState
      <4>2. QED
        BY <1>1, <4>1 DEF Sign
    <3>3. QED
      BY <2>1, <3>1, <3>2 DEF Clearance
  <2>5. ASSUME NEW k \in Rows, NEW s \in Side, clear'[k].side[s] = "APPROVED"
        PROVE  s \in cleared'[k]
    BY <2>1, <2>2, <2>3, <2>4, <2>5 DEF TypeOK, Clearance
  <2>6. ASSUME v.st = "COMPLETED" PROVE cleared'[v.row] = Side
    BY <2>1, <2>2, <2>6, OtherSide DEF TypeOK
  <2>7. /\ call'[c] = IF v.st = "COMPLETED"
                        THEN [v EXCEPT !.pc = "complete"] ELSE Idle
        /\ \A d \in Calls \ {c} : call'[d] = call[d]
    BY <1>1 DEF Sign, TypeOK
  <2>8. ASSUME NEW d \in Calls
        PROVE  /\ call'[d].pc = "sign" /\ call'[d].st = "COMPLETED" =>
                    Other(call'[d].side) \in cleared'[call'[d].row]
               /\ call'[d].pc = "complete" => cleared'[call'[d].row] = Side
    <3>1. CASE d = c
      BY <2>1, <2>6, <2>7, <3>1 DEF Idle, CallState
    <3>2. CASE d # c
      BY <2>3, <2>7, <3>2 DEF CallInv
    <3>3. QED
      BY <3>1, <3>2
  <2>9. QED
    BY <2>5, <2>8
<1>2. ASSUME NEW c \in Calls, NEW k \in Rows, NEW s \in Side,
             NEW d \in use.dates \cup {0}, ReadClearance(c, k, s, d)
      PROVE  SignedInv'
  <2>1. SignedStatus(k, s) = "COMPLETED" => Other(s) \in cleared[k]
    BY OtherSide DEF SignedStatus
  <2>2. /\ call'[c].pc = "sign" /\ call'[c].row = k /\ call'[c].side = s
        /\ call'[c].st = SignedStatus(k, s)
        /\ \A e \in Calls \ {c} : call'[e] = call[e]
        /\ UNCHANGED <<clear, cleared>>
    BY <1>2 DEF ReadClearance, TypeOK
  <2>3. QED
    BY <2>1, <2>2
<1>3. ASSUME NEW c \in Calls, NEW k \in Rows, NEW s \in Side,
             NEW d \in use.dates \cup {0}, RejectExit(c, k, s, d)
      PROVE  SignedInv'
  <2>1. /\ clear'[k].side = [clear[k].side EXCEPT ![s] = "REJECTED"]
        /\ \A e \in Rows \ {k} : clear'[e] = clear[e]
        /\ UNCHANGED <<cleared, call>>
    BY <1>3 DEF RejectExit, TypeOK, Clearance
  <2>2. \A e \in Rows, t \in Side :
          clear'[e].side[t] = "APPROVED" => clear[e].side[t] = "APPROVED"
    <3>1. clear[k].side \in [Side -> Answer]
      BY DEF TypeOK, Clearance
    <3>2. \A t \in Side :
            clear'[k].side[t] = "APPROVED" => clear[k].side[t] = "APPROVED"
      BY <2>1, <3>1
    <3>3. QED
      BY <2>1, <3>2
  <2>3. QED
    BY <2>1, <2>2
<1>4. ASSUME NEW c \in Calls, InsertClearance(c) PROVE SignedInv'
  <2>1. /\ \A k \in Rows : clear'[k].side = clear[k].side
        /\ call'[c] = Idle /\ \A e \in Calls \ {c} : call'[e] = call[e]
        /\ UNCHANGED cleared
    BY <1>4 DEF InsertClearance, Ended, TypeOK, Clearance
  <2>2. QED
    BY <2>1 DEF Idle
<1>5. ASSUME NEW c \in Calls, UNCHANGED <<clear, cleared>>,
             call'[c].pc \notin {"sign", "complete"},
             \A e \in Calls \ {c} : call'[e] = call[e]
      PROVE  SignedInv'
  BY <1>5
<1>6. ASSUME NEW c \in Calls, FindActive(c) PROVE SignedInv'
  BY <1>5, <1>6 DEF FindActive, TypeOK, Idle
<1>7. ASSUME NEW c \in Calls,
             \/ CreateResignation(c) \/ Approve(c) \/ Reactivate(c)
             \/ CompleteExit(c)
      PROVE  SignedInv'
  BY <1>5, <1>7 DEF CreateResignation, Approve, Reactivate, CompleteExit, Ended,
                    TypeOK, Idle
<1>8. ASSUME NEW c \in Calls, NEW k \in Rows, NEW s \in Side,
             Reject(c, k, s)
      PROVE  SignedInv'
  <2>1. call'[c].pc = "activate" /\ \A e \in Calls \ {c} : call'[e] = call[e]
    BY <1>8 DEF Reject, TypeOK, Idle
  <2>2. QED
    BY <1>5, <1>8, <2>1 DEF Reject
<1>8a. ASSUME NEW c \in Calls, NEW k \in Rows, NEW s \in Side,
              NEW d \in use.dates, ReadAnswers(c, k, s, d)
       PROVE  SignedInv'
  <2>1. call'[c].pc = "approve" /\ \A e \in Calls \ {c} : call'[e] = call[e]
    BY <1>8a DEF ReadAnswers, TypeOK
  <2>2. QED
    BY <1>5, <1>8a, <2>1 DEF ReadAnswers
<1>9. ASSUME NEW c \in Calls, SetStatus(c) \/ Remove(c) PROVE SignedInv'
  BY <1>9 DEF SetStatus, Remove
<1>10. CASE UNCHANGED vars
  BY <1>10 DEF vars
<1>11. ASSUME NEW c \in Calls, NEW k \in Rows, Answering(c, k)
       PROVE  SignedInv'
  <2>1. PICK s \in Side :
          \/ \E d \in use.dates : ReadAnswers(c, k, s, d)
          \/ Reject(c, k, s)
          \/ \E d \in use.dates \cup {0} :
               ReadClearance(c, k, s, d) \/ RejectExit(c, k, s, d)
    BY <1>11 DEF Answering
  <2>2. QED
    BY <1>2, <1>3, <1>8, <1>8a, <2>1
<1>12. ASSUME NEW c \in Calls, NEW k \in Rows, StartClearance(c, k)
       PROVE  SignedInv'
  BY <1>5, <1>12 DEF StartClearance, TypeOK, Idle
<1>13. QED
  BY <1>1, <1>4, <1>6, <1>7, <1>8, <1>9, <1>10, <1>11, <1>12 DEF Next

(* However answers, rejections and clearances overlap, an employee becomes *)
(* RESIGNED only in CompleteExit, after both the manager and HR signed the *)
(* same clearance (managerClearExit, hrClearExit), or in SetStatus, when   *)
(* HR types it into the employee form (update of employee.controller.ts);  *)
(* the exit date changes in CompleteExit alone.                            *)
THEOREM ResignedCleared == Spec => LeavesCleared
<1>1. Init => SignedInv
  BY DEF Init, SignedInv, Unanswered, Idle
<1>2. TypeOK /\ CallInv /\ SignedInv /\ [Next]_vars =>
        [LET Signed == \E k \in Rows : cleared[k] = Side IN
         /\ (emp # "RESIGNED" /\ emp' = "RESIGNED") =>
              Signed \/ \E c \in Calls : SetStatus(c)
         /\ exitDate' # exitDate => Signed]_vars
  <2> SUFFICES ASSUME TypeOK, CallInv, SignedInv, [Next]_vars,
                      \/ /\ emp # "RESIGNED" /\ emp' = "RESIGNED"
                         /\ ~\E c \in Calls : SetStatus(c)
                      \/ exitDate' # exitDate
               PROVE  \E k \in Rows : cleared[k] = Side
    OBVIOUS
  <2>1. PICK c \in Calls : CompleteExit(c)
    <3>1. ASSUME NEW c \in Calls, NEW k \in Rows,
                 Answering(c, k) \/ StartClearance(c, k)
          PROVE  emp' = emp /\ exitDate' = exitDate
      <4>1. ASSUME NEW s \in Side, NEW d, ReadAnswers(c, k, s, d)
            PROVE  emp' = emp /\ exitDate' = exitDate
        BY <4>1 DEF ReadAnswers
      <4>2. ASSUME NEW s \in Side, NEW d,
                   ReadClearance(c, k, s, d) \/ RejectExit(c, k, s, d)
            PROVE  emp' = emp /\ exitDate' = exitDate
        BY <4>2 DEF ReadClearance, RejectExit
      <4>3. ASSUME NEW s \in Side, Reject(c, k, s)
            PROVE  emp' = emp /\ exitDate' = exitDate
        BY <4>3 DEF Reject
      <4>4. QED
        BY <3>1, <4>1, <4>2, <4>3 DEF Answering, StartClearance
    <3>2. \A c \in Calls :
            FindActive(c) \/ CreateResignation(c) \/ Approve(c)
              \/ InsertClearance(c) \/ Sign(c)
              => emp' = emp /\ exitDate' = exitDate
      BY DEF FindActive, CreateResignation, Approve, InsertClearance, Sign
    <3>3. \A c \in Calls : Reactivate(c) \/ Remove(c) =>
            emp' # "RESIGNED" /\ exitDate' = exitDate
      BY DEF Reactivate, Remove
    <3>3a. \A c \in Calls : SetStatus(c) => exitDate' = exitDate
      BY DEF SetStatus
    <3>4. CASE Next
      BY <3>1, <3>2, <3>3, <3>3a, <3>4 DEF Next
    <3>5. CASE UNCHANGED vars
      BY <3>5 DEF vars
    <3>6. QED
      BY <3>4, <3>5
  <2>2. call[c].row \in Rows /\ cleared[call[c].row] = Side
    BY <2>1 DEF CompleteExit, At, CallInv, SignedInv
  <2>3. QED
    BY <2>2
<1>3. QED
  BY <1>1, <1>2, ExitTyped, SignedStep, PTL DEF Spec, LeavesCleared

-----------------------------------------------------------------------------
(* One call at a time, an answer is written to the row as it was read.     *)

AsRead(c) ==
  LET v == call[c] IN
  /\ v.pc = "create" => resig[v.row].st = "none"
  /\ v.pc = "approve" =>
       /\ v.st = "BOTH_APPROVED" <=> resig[v.row].side[Other(v.side)] = "APPROVED"
       /\ v.st = "BOTH_APPROVED" =>
            /\ v.final = Later(v.date, resig[v.row].date[Other(v.side)])
            /\ v.final # 0
  /\ v.pc = "sign" =>
       (v.st = "COMPLETED" <=> clear[v.row].side[Other(v.side)] = "APPROVED")

AloneInv ==
  use.serial =>
    /\ \A c, d \in Calls : call[c].pc # "idle" /\ call[d].pc # "idle" => c = d
    /\ \A c \in Calls : AsRead(c)

(* The three columns of one resignation agree, and those of one clearance. *)
ResigAgrees(r) ==
  /\ r.st = "BOTH_APPROVED" <=> \A s \in Side : r.side[s] = "APPROVED"
  /\ r.st = "BOTH_APPROVED" => r.final = Later(r.date["hr"], r.date["manager"])
ClearAgrees(r) == r.st = "COMPLETED" <=> \A s \in Side : r.side[s] = "APPROVED"

LEMMA AgreeByRow ==
  AnswersAgree <=>
    (use.serial => \A k \in Rows : ResigAgrees(resig[k]) /\ ClearAgrees(clear[k]))
BY DEF AnswersAgree, ResigAgrees, ClearAgrees

LEMMA LaterAny ==
  ASSUME NEW a \in Day, NEW b \in Day
  PROVE  Later(a, b) = Later(b, a) /\ (a # 0 => Later(a, b) # 0)
BY MaxDayNat DEF Later, Day

(* What the step of a call does with the calls, one at a time. *)
LEMMA OnlyOneMoves ==
  ASSUME TypeOK, AloneInv, use.serial, UNCHANGED use, NEW c \in Calls,
         \/ \A d \in Calls : call[d].pc = "idle"
         \/ call[c].pc # "idle",
         \A d \in Calls \ {c} : call'[d] = call[d],
         AsRead(c)'
  PROVE  AloneInv'
<1>1. \A d \in Calls \ {c} : call'[d].pc = "idle"
  BY DEF AloneInv
<1>2. \A d \in Calls \ {c} : AsRead(d)'
  BY <1>1 DEF AsRead
<1>3. QED
  BY <1>1, <1>2 DEF AloneInv

LEMMA AnswersStep ==
  ASSUME TypeOK, CallInv, AloneInv, AnswersAgree, [Next]_vars
  PROVE  AloneInv' /\ AnswersAgree'
<1> SUFFICES ASSUME use.serial, UNCHANGED use PROVE AloneInv' /\ AnswersAgree'
  BY DEF Next, vars, AloneInv, AnswersAgree
<1>0. /\ \A k \in Rows : ResigAgrees(resig[k]) /\ ClearAgrees(clear[k])
      /\ \A k \in Rows : resig[k] \in Resignation /\ clear[k] \in Clearance
      /\ \A c \in Calls : AsRead(c) /\ call[c] \in CallState
      /\ resig \in [Rows -> Resignation] /\ clear \in [Rows -> Clearance]
      /\ call \in [Calls -> CallState]
  BY AgreeByRow DEF AloneInv, TypeOK
(* Enough for a step that touches at most one row of one table. *)
<1>1. ASSUME \A k \in Rows : resig'[k] = resig[k] \/ ResigAgrees(resig'[k]),
             \A k \in Rows : clear'[k] = clear[k] \/ ClearAgrees(clear'[k])
      PROVE  AnswersAgree'
  BY <1>0, <1>1 DEF AnswersAgree, ResigAgrees, ClearAgrees
<1>2. ASSUME NEW c \in Calls, call'[c].pc \notin {"create", "approve", "sign"},
             \A d \in Calls : call[d].pc = "idle" \/ call[c].pc # "idle",
             \A d \in Calls \ {c} : call'[d] = call[d]
      PROVE  AloneInv'
  <2>1. AsRead(c)'
    BY <1>2 DEF AsRead
  <2>2. QED
    BY <1>2, <2>1, OnlyOneMoves
<1>3. ASSUME NEW c \in Calls, Ended(c), call[c].pc # "idle" PROVE AloneInv'
  BY <1>0, <1>2, <1>3 DEF Ended, Idle
<1>4. ASSUME NEW c \in Calls, CreateResignation(c) PROVE AloneInv' /\ AnswersAgree'
  <2>1. /\ call[c].pc = "create" /\ call[c].row \in Rows
        /\ resig[call[c].row].st = "none" /\ Ended(c)
        /\ UNCHANGED clear
    BY <1>0, <1>4 DEF CreateResignation, At, CallInv, AsRead
  <2>2. PICK m \in BOOLEAN :
          resig' = [resig EXCEPT ![call[c].row].st = "PENDING",
                                 ![call[c].row].managed = m]
    BY <1>4 DEF CreateResignation
  <2>3. /\ resig'[call[c].row].st = "PENDING"
        /\ resig'[call[c].row].side = resig[call[c].row].side
        /\ \A k \in Rows \ {call[c].row} : resig'[k] = resig[k]
    BY <1>0, <2>1, <2>2 DEF Resignation
  <2>4. ResigAgrees(resig'[call[c].row])
    BY <1>0, <2>1, <2>3 DEF ResigAgrees
  <2>5. QED
    BY <1>1, <1>3, <2>1, <2>3, <2>4
<1>5. ASSUME NEW c \in Calls, Approve(c) PROVE AloneInv' /\ AnswersAgree'
  <2> DEFINE v == call[c]
             old == resig[v.row]
             new == resig'[v.row]
  <2>1. /\ v.pc = "approve" /\ v.row \in Rows /\ v.side \in Side /\ Ended(c)
        /\ v.date \in Day /\ v.final \in Day
        /\ UNCHANGED clear
    BY <1>0, <1>5 DEF Approve, At, CallInv, CallState
  <2>2. PICK n \in Day :
          /\ n = IF v.final = 0 THEN old.final ELSE v.final
          /\ resig' = [resig EXCEPT
               ![v.row].side[v.side] = "APPROVED", ![v.row].date[v.side] = v.date,
               ![v.row].st = v.st, ![v.row].final = n]
    <3>1. old \in Resignation /\ old.final \in Day
      BY <1>0, <2>1 DEF Resignation
    <3>2. QED
      BY <1>0, <1>5, <2>1, <3>1 DEF Approve, Resignation
  <2>3. /\ new.st = v.st /\ new.final = n
        /\ new.side = [old.side EXCEPT ![v.side] = "APPROVED"]
        /\ new.date = [old.date EXCEPT ![v.side] = v.date]
        /\ \A k \in Rows \ {v.row} : resig'[k] = resig[k]
        /\ old.side \in [Side -> Answer] /\ old.date \in [Side -> Day]
    <3>1. /\ old \in Resignation
          /\ old.side \in [Side -> Answer] /\ old.date \in [Side -> Day]
      BY <1>0, <2>1 DEF Resignation
    <3>2. new = [old EXCEPT !.side = [old.side EXCEPT ![v.side] = "APPROVED"],
                            !.date = [old.date EXCEPT ![v.side] = v.date],
                            !.st = v.st, !.final = n]
      BY <1>0, <2>1, <2>2
    <3>3. \A k \in Rows \ {v.row} : resig'[k] = resig[k]
      BY <1>0, <2>1, <2>2
    <3>4. QED
      BY <3>1, <3>2, <3>3 DEF Resignation
  <2>4. /\ v.st = "BOTH_APPROVED" <=> old.side[Other(v.side)] = "APPROVED"
        /\ v.st = "BOTH_APPROVED" =>
             v.final = Later(v.date, old.date[Other(v.side)]) /\ v.final # 0
    BY <1>0, <2>1 DEF AsRead
  <2>5. Other(v.side) \in Side \ {v.side} /\ \A s \in Side : s = v.side \/ s = Other(v.side)
    BY <2>1 DEF Other, Side
  <2>6. new.st = "BOTH_APPROVED" <=> \A s \in Side : new.side[s] = "APPROVED"
    BY <2>3, <2>4, <2>5
  <2>7. new.st = "BOTH_APPROVED" => new.final = Later(new.date["hr"], new.date["manager"])
    <3>1. SUFFICES ASSUME new.st = "BOTH_APPROVED"
                   PROVE  new.final = Later(new.date["hr"], new.date["manager"])
      OBVIOUS
    <3>2. new.final = Later(new.date[v.side], new.date[Other(v.side)])
      <4>1. /\ new.date[v.side] = v.date
            /\ new.date[Other(v.side)] = old.date[Other(v.side)]
        BY <2>1, <2>3, <2>5
      <4>2. v.st = "BOTH_APPROVED" /\ new.final = v.final
        BY <2>2, <2>3, <2>4, <3>1
      <4>3. QED
        BY <2>4, <4>1, <4>2
    <3>3. \/ v.side = "hr" /\ Other(v.side) = "manager"
          \/ v.side = "manager" /\ Other(v.side) = "hr"
      BY <2>1 DEF Other, Side
    <3>4. new.date["hr"] \in Day /\ new.date["manager"] \in Day
      BY <2>1, <2>3 DEF Side
    <3>5. QED
      BY <3>2, <3>3, <3>4, LaterAny
  <2>8. ResigAgrees(new)
    BY <2>6, <2>7 DEF ResigAgrees
  <2>9. QED
    BY <1>1, <1>3, <2>1, <2>3, <2>8
<1>6. ASSUME NEW c \in Calls, NEW k \in Rows, NEW s \in Side, Reject(c, k, s)
      PROVE  AloneInv' /\ AnswersAgree'
  <2>1. /\ \A d \in Calls : call[d].pc = "idle"
        /\ call'[c].pc = "activate" /\ \A d \in Calls \ {c} : call'[d] = call[d]
        /\ UNCHANGED clear
    BY <1>0, <1>6 DEF Reject, Free, Idle
  <2>2. /\ resig'[k].st = "REJECTED" /\ resig'[k].side[s] = "REJECTED"
        /\ \A j \in Rows \ {k} : resig'[j] = resig[j]
    BY <1>0, <1>6 DEF Reject, Resignation
  <2>3. ResigAgrees(resig'[k])
    BY <2>2 DEF ResigAgrees
  <2>4. QED
    BY <1>1, <1>2, <2>1, <2>2, <2>3
<1>7. ASSUME NEW c \in Calls, InsertClearance(c) PROVE AloneInv' /\ AnswersAgree'
  <2>1. call[c].pc = "insert" /\ call[c].row \in Rows /\ Ended(c) /\ UNCHANGED resig
    BY <1>0, <1>7 DEF InsertClearance, At, CallInv
  <2>2. /\ \/ clear'[call[c].row].st = clear[call[c].row].st
           \/ clear[call[c].row].st = "none" /\ clear'[call[c].row].st = "PENDING"
        /\ clear'[call[c].row].side = clear[call[c].row].side
        /\ \A k \in Rows \ {call[c].row} : clear'[k] = clear[k]
    BY <1>0, <1>7, <2>1 DEF InsertClearance, Clearance
  <2>3. ClearAgrees(clear'[call[c].row])
    BY <1>0, <2>1, <2>2 DEF ClearAgrees
  <2>4. QED
    BY <1>1, <1>3, <2>1, <2>2, <2>3
<1>8. ASSUME NEW c \in Calls, Sign(c) PROVE AloneInv' /\ AnswersAgree'
  <2> DEFINE v == call[c]
             old == clear[v.row]
             new == clear'[v.row]
  <2>1. /\ v.pc = "sign" /\ v.row \in Rows /\ v.side \in Side /\ UNCHANGED resig
        /\ v.date \in Day
    BY <1>0, <1>8 DEF Sign, At, CallInv, CallState
  <2>2. PICK n \in Day :
          clear' = [clear EXCEPT ![v.row].side[v.side] = "APPROVED",
                                 ![v.row].st = v.st, ![v.row].date[v.side] = n]
    <3>1. old \in Clearance /\ old.date[v.side] \in Day
      BY <1>0, <2>1 DEF Clearance
    <3>2. QED
      BY <1>0, <1>8, <2>1, <3>1 DEF Sign, Clearance
  <2>3. /\ new.st = v.st
        /\ new.side = [old.side EXCEPT ![v.side] = "APPROVED"]
        /\ \A k \in Rows \ {v.row} : clear'[k] = clear[k]
        /\ old.side \in [Side -> Answer]
    BY <1>0, <2>1, <2>2 DEF Clearance
  <2>4. v.st = "COMPLETED" <=> old.side[Other(v.side)] = "APPROVED"
    BY <1>0, <2>1 DEF AsRead
  <2>5. Other(v.side) \in Side \ {v.side} /\ \A s \in Side : s = v.side \/ s = Other(v.side)
    BY <2>1 DEF Other, Side
  <2>6. ClearAgrees(new)
    BY <2>3, <2>4, <2>5 DEF ClearAgrees
  <2>7. /\ call'[c].pc \in {"complete", "idle"} /\ \A d \in Calls \ {c} : call'[d] = call[d]
    BY <1>0, <1>8 DEF Sign, Idle, CallState
  <2>8. QED
    BY <1>1, <1>2, <2>1, <2>3, <2>6, <2>7
<1>9. ASSUME NEW c \in Calls, NEW k \in Rows, NEW s \in Side,
             NEW d \in use.dates \cup {0}, RejectExit(c, k, s, d)
      PROVE  AloneInv' /\ AnswersAgree'
  <2>1. UNCHANGED <<resig, call>> /\ \A e \in Calls : call[e].pc = "idle"
    BY <1>9 DEF RejectExit, Free
  <2>2. /\ clear'[k].side[s] = "REJECTED" /\ clear'[k].st = "REJECTED"
        /\ \A j \in Rows \ {k} : clear'[j] = clear[j]
    <3>1. clear[k].side \in [Side -> Answer] /\ clear[k] \in Clearance
      BY <1>0 DEF Clearance
    <3>2. QED
      BY <1>0, <1>9, <3>1 DEF RejectExit, Clearance
  <2>3. ClearAgrees(clear'[k])
    BY <2>2 DEF ClearAgrees
  <2>4. QED
    BY <1>1, <1>2, <2>1, <2>2, <2>3
<1>10. ASSUME NEW c \in Calls, NEW k \in Rows, NEW s \in Side, NEW d \in use.dates,
              ReadAnswers(c, k, s, d)
       PROVE  AloneInv' /\ AnswersAgree'
  <2>1. d \in Day \ {0} /\ resig[k].date[Other(s)] \in Day
    BY <1>0, UsesShape DEF TypeOK, Other, Side, Resignation
  <2>2. /\ \A e \in Calls : call[e].pc = "idle"
        /\ \A e \in Calls \ {c} : call'[e] = call[e]
        /\ UNCHANGED <<resig, clear>>
        /\ call'[c].pc = "approve" /\ call'[c].row = k /\ call'[c].side = s
        /\ call'[c].date = d
        /\ call'[c].st = "BOTH_APPROVED" <=> resig[k].side[Other(s)] = "APPROVED"
        /\ call'[c].st = "BOTH_APPROVED" => call'[c].final = AgreedDate(k, s, d)
    <3>1. CASE resig[k].side[Other(s)] = "APPROVED"
      BY <1>0, <1>10, <3>1 DEF ReadAnswers, Free
    <3>2. CASE resig[k].side[Other(s)] # "APPROVED"
      BY <1>0, <1>10, <3>2 DEF ReadAnswers, Free
    <3>3. QED
      BY <3>1, <3>2
  <2>3. AgreedDate(k, s, d) = Later(d, resig[k].date[Other(s)]) /\ AgreedDate(k, s, d) # 0
    BY <2>1, LaterAny DEF AgreedDate
  <2>4. AsRead(c)'
    BY <2>2, <2>3 DEF AsRead
  <2>5. AloneInv'
    BY <2>2, <2>4, OnlyOneMoves
  <2>6. QED
    BY <1>1, <2>2, <2>5
<1>11. ASSUME NEW c \in Calls, NEW k \in Rows, NEW s \in Side,
              NEW d \in use.dates \cup {0}, ReadClearance(c, k, s, d)
       PROVE  AloneInv' /\ AnswersAgree'
  <2>1. /\ \A e \in Calls : call[e].pc = "idle"
        /\ \A e \in Calls \ {c} : call'[e] = call[e]
        /\ UNCHANGED <<resig, clear>>
        /\ call'[c].pc = "sign" /\ call'[c].row = k /\ call'[c].side = s
        /\ call'[c].st = SignedStatus(k, s)
    BY <1>0, <1>11 DEF ReadClearance, Free
  <2>2. SignedStatus(k, s) = "COMPLETED" <=> clear[k].side[Other(s)] = "APPROVED"
    BY DEF SignedStatus
  <2>3. AsRead(c)'
    BY <2>1, <2>2 DEF AsRead
  <2>4. AloneInv'
    BY <2>1, <2>3, OnlyOneMoves
  <2>5. QED
    BY <1>1, <2>1, <2>4
<1>12. ASSUME NEW c \in Calls, FindActive(c) PROVE AloneInv' /\ AnswersAgree'
  <2>1. PICK k \in Rows :
          /\ resig[k].st = "none"
          /\ call' = [call EXCEPT ![c] = [Idle EXCEPT !.pc = "create", !.row = k]]
    BY <1>12 DEF FindActive
  <2>2. /\ \A e \in Calls : call[e].pc = "idle"
        /\ \A e \in Calls \ {c} : call'[e] = call[e]
        /\ UNCHANGED <<resig, clear>>
        /\ call'[c].pc = "create" /\ call'[c].row = k
    BY <1>0, <1>12, <2>1 DEF FindActive, Free, Idle
  <2>3. AsRead(c)'
    BY <2>1, <2>2 DEF AsRead
  <2>4. AloneInv'
    BY <2>2, <2>3, OnlyOneMoves
  <2>5. QED
    BY <1>1, <2>2, <2>4
<1>13. ASSUME NEW c \in Calls, Reactivate(c) \/ CompleteExit(c)
       PROVE  AloneInv' /\ AnswersAgree'
  BY <1>1, <1>3, <1>13 DEF Reactivate, CompleteExit, At
<1>14. ASSUME NEW c \in Calls, NEW k \in Rows, StartClearance(c, k)
       PROVE  AloneInv' /\ AnswersAgree'
  <2>1. /\ \A e \in Calls : call[e].pc = "idle"
        /\ \A e \in Calls \ {c} : call'[e] = call[e]
        /\ call'[c].pc = "insert" /\ UNCHANGED <<resig, clear>>
    BY <1>0, <1>14 DEF StartClearance, Free, Idle
  <2>2. QED
    BY <1>1, <1>2, <2>1
<1>15. ASSUME UNCHANGED <<resig, clear, call>> PROVE AloneInv' /\ AnswersAgree'
  BY <1>0, <1>15 DEF AloneInv, AsRead, AnswersAgree
<1>16. ASSUME NEW c \in Calls, NEW k \in Rows, Answering(c, k)
       PROVE  AloneInv' /\ AnswersAgree'
  <2>1. PICK s \in Side :
          \/ \E d \in use.dates : ReadAnswers(c, k, s, d)
          \/ Reject(c, k, s)
          \/ \E d \in use.dates \cup {0} :
               ReadClearance(c, k, s, d) \/ RejectExit(c, k, s, d)
    BY <1>16 DEF Answering
  <2>2. QED
    BY <1>6, <1>9, <1>10, <1>11, <2>1
<1>17. ASSUME NEW c \in Calls, SetStatus(c) \/ Remove(c) PROVE AloneInv' /\ AnswersAgree'
  BY <1>15, <1>17 DEF SetStatus, Remove
<1>18. CASE UNCHANGED vars
  BY <1>15, <1>18 DEF vars
<1>19. QED
  BY <1>4, <1>5, <1>7, <1>8, <1>12, <1>13, <1>14, <1>16, <1>17, <1>18 DEF Next

(* One call at a time, the status of a resignation and of its clearance    *)
(* always says what the two sides answered, and the last day is the later  *)
(* of the two they named (managerApprove, hrApprove, the clearances).      *)
THEOREM StatusSaysAnswers == Spec => []AnswersAgree
<1>1. Init => AloneInv /\ AnswersAgree
  BY DEF Init, AloneInv, AnswersAgree, AsRead, Idle, Unanswered, Side
<1>2. TypeOK /\ CallInv /\ AloneInv /\ AnswersAgree /\ [Next]_vars
        => AloneInv' /\ AnswersAgree'
  BY AnswersStep
<1>3. QED
  BY <1>1, <1>2, ExitTyped, PTL DEF Spec

=============================================================================
