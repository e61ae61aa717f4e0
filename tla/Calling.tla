------------------------------ MODULE Calling ------------------------------
(***************************************************************************)
(* Calls of the web server: a call in flight is the sequence of its        *)
(* statements still to run, each with what the reads before it found.      *)
(* Calls of one process interleave between statements.                     *)
(***************************************************************************)
EXTENDS Integers, FiniteSets, Sequences, TLC

CONSTANT Calls

VARIABLES
  use,   \* of this behaviour: its calls, operations and bounds
  call

Idle == [op |-> "none", todo |-> <<>>]

CallsTypeOK == \A c \in Calls : call[c].op \in use.ops \cup {"none"}
CallsInit == call = [c \in Calls |-> Idle]

Serial == Cardinality(use.calls) = 1
AllIdle == \A c \in Calls : call[c] = Idle

(* Operations of use.alone do not overlap any other.                       *)
Free(c, op) ==
  /\ op \in use.ops /\ c \in use.calls /\ call[c] = Idle
  /\ \A d \in Calls : call[d].op \notin use.alone
  /\ op \in use.alone => AllIdle

Start(c, op, todo) ==
  call' = [call EXCEPT ![c] = IF todo = <<>> THEN Idle
                              ELSE [op |-> op, todo |-> todo]]

(* The statement c runs now, and what c still has to do after it.          *)
Runs(c, do) == call[c].todo # <<>> /\ Head(call[c].todo).do = do
It(c) == Head(call[c].todo)
Rest(c) == Tail(call[c].todo)
Goes(c, todo) == Start(c, call[c].op, todo)
Done(c) == Goes(c, Rest(c))
Fails(c) == Goes(c, <<>>)  \* the database refuses the statement
=============================================================================
