----------------------------- MODULE FifoQueue ------------------------------
(***************************************************************************)
(* What the two threads of the daemon expect of a ProtectedQ: addItem and  *)
(* popItem are atomic at some point between call and return, items leave   *)
(* in the order they came, and popItem waits while there are none.         *)
(***************************************************************************)
EXTENDS Sequences

CONSTANTS Producers, Consumers, Items, NoItem

VARIABLES
  q,     \* the items, oldest first
  stage, \* stage[t]: t is outside the queue, has called, or has its result
  val    \* val[t]: argument of a pending addItem, result of a done popItem

vars == <<q, stage, val>>

Init ==
  /\ q = <<>>
  /\ stage = [t \in Producers \cup Consumers |-> "out"]
  /\ val = [t \in Producers \cup Consumers |-> NoItem]

Move(t, from, to) == stage[t] = from /\ stage' = [stage EXCEPT ![t] = to]

CallAdd(p, x) ==
  Move(p, "out", "called") /\ val' = [val EXCEPT ![p] = x] /\ UNCHANGED q

Add(p) ==
  /\ Move(p, "called", "done")
  /\ q' = Append(q, val[p])
  /\ val' = [val EXCEPT ![p] = NoItem]

CallPop(c) == Move(c, "out", "called") /\ UNCHANGED <<q, val>>

Pop(c) ==
  /\ Move(c, "called", "done")
  /\ q # <<>>
  /\ q' = Tail(q)
  /\ val' = [val EXCEPT ![c] = Head(q)]

Return(t) ==
  Move(t, "done", "out") /\ val' = [val EXCEPT ![t] = NoItem] /\ UNCHANGED q

Next ==
  \/ \E p \in Producers : (\E x \in Items : CallAdd(p, x)) \/ Add(p) \/ Return(p)
  \/ \E c \in Consumers : CallPop(c) \/ Pop(c) \/ Return(c)

Spec == Init /\ [][Next]_vars
=============================================================================
