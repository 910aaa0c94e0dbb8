----------------------------- MODULE ProtectedQ -----------------------------
(***************************************************************************)
(* ProtectedQ<T>: a std::queue with a mutex and a condition variable,      *)
(* through which the MQTT callbacks, the publisher and the USRP thread     *)
(* hand messages to each other. One step is one operation on the mutex,    *)
(* the condition variable or the queue.                                    *)
(***************************************************************************)
EXTENDS Naturals, Sequences, FiniteSets

CONSTANTS
  Producers, \* threads that call addItem()
  Consumers, \* threads that call popItem() over and over
  Items,     \* what may be added; bound: each item is added once
  NoItem,    \* no value
  NoThread   \* the mutex is free

Threads == Producers \cup Consumers

ASSUME ThreadAssumption ==
  /\ Producers \cap Consumers = {}
  /\ IsFiniteSet(Threads)
  /\ NoThread \notin Threads

ASSUME ItemAssumption == NoItem \notin Items

VARIABLES
  pc,    \* pc[t]: what thread t does next
  owner, \* the thread that holds m, or NoThread
  q,     \* the queue
  val,   \* val[t]: item in addItem(), val in popItem()
  fresh  \* the items not added yet

vars == <<pc, owner, q, val, fresh>>

Goto(t, from, to) == pc[t] = from /\ pc' = [pc EXCEPT ![t] = to]

Init ==
  /\ pc = [t \in Threads |-> "out"]
  /\ owner = NoThread
  /\ q = <<>>
  /\ val = [t \in Threads |-> NoItem]
  /\ fresh = Items

-----------------------------------------------------------------------------
(* Both operations lock on entry and unlock on return. *)

Lock(t) ==
  /\ Goto(t, "lock", IF t \in Producers THEN "push" ELSE "check")
  /\ owner = NoThread
  /\ owner' = t
  /\ UNCHANGED <<q, val, fresh>>

\* The destructor of unique_lock, and the value returned to the caller.
Return(t) ==
  /\ Goto(t, "return", "out")
  /\ owner' = NoThread
  /\ val' = [val EXCEPT ![t] = NoItem]
  /\ UNCHANGED <<q, fresh>>

-----------------------------------------------------------------------------
(* addItem() *)

CallAdd(p, x) ==
  /\ Goto(p, "out", "lock")
  /\ x \in fresh
  /\ val' = [val EXCEPT ![p] = x]
  /\ fresh' = fresh \ {x}
  /\ UNCHANGED <<owner, q>>

\* Mutant: the newest item goes first.
PushFirst(p) ==
  /\ Goto(p, "push", "notify")
  /\ q' = <<val[p]>> \o q
  /\ UNCHANGED <<owner, val, fresh>>

\* Mutant: the item was moved from before it is pushed.
PushMoved(p) ==
  /\ Goto(p, "push", "notify")
  /\ q' = Append(q, NoItem)
  /\ UNCHANGED <<owner, val, fresh>>

\* q.push(item)
Push(p) ==
  /\ Goto(p, "push", "notify")
  /\ q' = Append(q, val[p])
  /\ UNCHANGED <<owner, val, fresh>>

Waiting == {c \in Consumers : pc[c] = "wait"}

\* Mutant: notify only when the queue was empty before.
NotifyWhenFirst(p) ==
  /\ pc[p] = "notify"
  /\ IF Waiting = {} \/ Len(q) # 1
       THEN pc' = [pc EXCEPT ![p] = "return"]
       ELSE \E c \in Waiting :
              pc' = [pc EXCEPT ![p] = "return", ![c] = "relock"]
  /\ UNCHANGED <<owner, q, val, fresh>>

\* Mutant: no notification.
NotifyNobody(p) ==
  Goto(p, "notify", "return") /\ UNCHANGED <<owner, q, val, fresh>>

\* cond.notify_one(): some waiting thread wakes up, if there is one.
Notify(p) ==
  /\ pc[p] = "notify"
  /\ IF Waiting = {}
       THEN pc' = [pc EXCEPT ![p] = "return"]
       ELSE \E c \in Waiting :
              pc' = [pc EXCEPT ![p] = "return", ![c] = "relock"]
  /\ UNCHANGED <<owner, q, val, fresh>>

-----------------------------------------------------------------------------
(* popItem() *)

CallPop(c) == Goto(c, "out", "lock") /\ UNCHANGED <<owner, q, val, fresh>>

\* while(q.empty()): cond.wait() releases the mutex and waits in one step.
Check(c) ==
  /\ pc[c] = "check"
  /\ IF q = <<>>
       THEN pc' = [pc EXCEPT ![c] = "wait"] /\ owner' = NoThread
       ELSE pc' = [pc EXCEPT ![c] = "front"] /\ UNCHANGED owner
  /\ UNCHANGED <<q, val, fresh>>

\* A condition variable may wake a thread for no reason.
SpuriousWakeup(c) ==
  Goto(c, "wait", "relock") /\ UNCHANGED <<owner, q, val, fresh>>

\* Mutant: if instead of while.
RelockUnchecked(c) ==
  /\ Goto(c, "relock", "front")
  /\ owner = NoThread
  /\ owner' = c
  /\ UNCHANGED <<q, val, fresh>>

\* Mutant: the woken thread goes on without the mutex.
RelockWithoutMutex(c) ==
  Goto(c, "relock", "check") /\ owner' = c /\ UNCHANGED <<q, val, fresh>>

\* cond.wait() takes the mutex again before it returns to the while.
Relock(c) ==
  /\ Goto(c, "relock", "check")
  /\ owner = NoThread
  /\ owner' = c
  /\ UNCHANGED <<q, val, fresh>>

\* T val = q.front()
Front(c) ==
  /\ Goto(c, "front", "pop")
  /\ val' = [val EXCEPT ![c] = Head(q)]
  /\ UNCHANGED <<owner, q, fresh>>

\* q.pop()
Pop(c) ==
  /\ Goto(c, "pop", "return")
  /\ q' = Tail(q)
  /\ UNCHANGED <<owner, val, fresh>>

-----------------------------------------------------------------------------
Producer(p) == Lock(p) \/ Push(p) \/ Notify(p) \/ Return(p)

Consumer(c) ==
  \/ CallPop(c) \/ Lock(c) \/ Check(c) \/ Relock(c) \/ Front(c) \/ Pop(c)
  \/ Return(c)

Next ==
  \/ \E p \in Producers : Producer(p) \/ \E x \in Items : CallAdd(p, x)
  \/ \E c \in Consumers : Consumer(c) \/ SpuriousWakeup(c)

Spec == Init /\ [][Next]_vars

\* A thread inside the class keeps running, and mqtt_publisher() and
\* usrp_ops() come back for the next item. Nobody has to add one, and no
\* thread wakes by itself.
FairSpec ==
  /\ Spec
  /\ \A p \in Producers : WF_vars(Producer(p))
  /\ \A c \in Consumers : WF_vars(Consumer(c))

-----------------------------------------------------------------------------
(* Properties *)

TypeOK ==
  /\ pc \in [Threads -> {"out", "lock", "push", "notify", "check", "wait",
                         "relock", "front", "pop", "return"}]
  /\ owner \in Threads \cup {NoThread}
  /\ q \in Seq(Items)
  /\ val \in [Threads -> Items \cup {NoItem}]
  /\ fresh \subseteq Items

\* Between lock and unlock, the wait excepted.
Inside(t) == pc[t] \in {"push", "notify", "check", "front", "pop", "return"}

\* Two threads are never both between lock and unlock, even when one of them
\* comes back from cond.wait(): std::queue is not safe for concurrent use.
MutualExclusion == \A s, t \in Threads : Inside(s) /\ Inside(t) => s = t

\* front() and pop() are only called on a queue that has an item, although a
\* thread may be woken for nothing or after another one took the item.
NeverPopEmpty == \A c \in Consumers : pc[c] \in {"front", "pop"} => q # <<>>

Arriving ==
  {c \in Consumers : pc[c] \in {"lock", "relock", "check", "front", "pop"}}

Notifying == {p \in Producers : pc[p] = "notify"}

\* While a thread sleeps in cond.wait(), each item in the queue is spoken for:
\* by a thread on its way to take it or by a notification about to be sent.
\* notify_one() per item is enough, and no wakeup is lost between the test of
\* the queue and the wait.
NoLostWakeup ==
  Waiting # {} => Len(q) <= Cardinality(Arriving \cup Notifying)

\* An item added to the queue is taken out, if items stop coming for a while:
\* std::mutex promises no thread its turn otherwise.
ItemDelivered ==
  \A x \in Items :
    (\E i \in DOMAIN q : q[i] = x) ~> (\A i \in DOMAIN q : q[i] # x)

Called(t) ==
  pc[t] \in {"lock", "push", "check", "wait", "relock", "front", "pop"}

\* A call takes effect when the std::queue changes.
FQ == INSTANCE FifoQueue WITH
        stage <- [t \in Threads |-> IF pc[t] = "out" THEN "out"
                                    ELSE IF Called(t) THEN "called" ELSE "done"],
        val <- [t \in Threads |->
                  IF (t \in Producers) = Called(t) THEN val[t] ELSE NoItem]

\* addItem() and popItem() behave as atomic operations on a FIFO queue.
IsFifoQueue == FQ!Spec
=============================================================================
