-------------------------- MODULE ProtectedQProofs --------------------------
(***************************************************************************)
(* Proofs about ProtectedQ for any finite number of threads, and any items.*)
(***************************************************************************)
EXTENDS ProtectedQ, FiniteSetTheorems, TLAPS

-----------------------------------------------------------------------------
(* Types, mutual exclusion and where each value lives *)

\* Producers only run addItem(), consumers only popItem().
Roles ==
  /\ \A p \in Producers : pc[p] \in {"out", "lock", "push", "notify", "return"}
  /\ \A c \in Consumers : pc[c] \notin {"push", "notify"}

\* A thread between lock and unlock owns the mutex.
InsideOwns == \A t \in Threads : Inside(t) => owner = t

\* The argument of addItem() until it is pushed, the result of popItem() from
\* the moment it is read.
Values ==
  /\ \A p \in Producers : pc[p] \in {"lock", "push"} => val[p] \in Items
  /\ \A c \in Consumers :
       /\ pc[c] \in {"front", "pop"} => q # <<>>
       /\ pc[c] = "pop" => val[c] = Head(q)
       /\ pc[c] \notin {"pop", "return"} => val[c] = NoItem

Inv == TypeOK /\ Roles /\ InsideOwns /\ Values

LEMMA InitInv == Init => Inv
BY ThreadAssumption
DEF Init, Inv, TypeOK, Roles, InsideOwns, Values, Inside, Threads

LEMMA QueueFacts ==
  ASSUME NEW s \in Seq(Items)
  PROVE  /\ \A x \in Items : /\ Append(s, x) \in Seq(Items)
                             /\ Append(s, x) # <<>>
         /\ s # <<>> => Head(s) \in Items /\ Tail(s) \in Seq(Items)
<1>1. ASSUME NEW x \in Items
      PROVE  Append(s, x) \in Seq(Items) /\ Append(s, x) # <<>>
  <2>1. Append(s, x) \in Seq(Items)
    OBVIOUS
  <2>2. Len(Append(s, x)) = Len(s) + 1 /\ Len(s) \in Nat /\ Len(<<>>) = 0
    OBVIOUS
  <2> QED
    BY <2>1, <2>2
<1>2. ASSUME s # <<>> PROVE Head(s) \in Items /\ Tail(s) \in Seq(Items)
  BY <1>2
<1> QED
  BY <1>1, <1>2

LEMMA NextInv == Inv /\ [Next]_vars => Inv'
<1> SUFFICES ASSUME Inv, [Next]_vars PROVE Inv'
  OBVIOUS
<1> USE ThreadAssumption DEF Inv, Goto, Threads
<1>1. ASSUME NEW t \in Threads, Lock(t) PROVE Inv'
  BY <1>1 DEF Lock, TypeOK, Roles, InsideOwns, Inside, Values
<1>2. ASSUME NEW t \in Threads, Return(t) PROVE Inv'
  BY <1>2 DEF Return, TypeOK, Roles, InsideOwns, Inside, Values
<1>3. ASSUME NEW p \in Producers, NEW x \in Items, CallAdd(p, x) PROVE Inv'
  BY <1>3 DEF CallAdd, TypeOK, Roles, InsideOwns, Inside, Values
<1>4. ASSUME NEW p \in Producers, Push(p) PROVE Inv'
  <2>1. q' \in Seq(Items) /\ q' # <<>>
    BY <1>4, QueueFacts DEF Push, TypeOK, Values
  <2>2. \A c \in Consumers : pc[c] \notin {"front", "pop"}
    BY <1>4 DEF Push, InsideOwns, Inside
  <2> QED
    BY <1>4, <2>1, <2>2 DEF Push, TypeOK, Roles, InsideOwns, Inside, Values
<1>5. ASSUME NEW p \in Producers, Notify(p) PROVE Inv'
  <2>1. CASE Waiting = {}
    BY <1>5, <2>1 DEF Notify, TypeOK, Roles, InsideOwns, Inside, Values
  <2>2. CASE Waiting # {}
    <3>1. PICK c \in Consumers :
            /\ pc[c] = "wait"
            /\ pc' = [pc EXCEPT ![p] = "return", ![c] = "relock"]
      BY <1>5, <2>2 DEF Notify, Waiting
    <3> QED
      BY <1>5, <3>1 DEF Notify, TypeOK, Roles, InsideOwns, Inside, Values
  <2> QED
    BY <2>1, <2>2
<1>6. ASSUME NEW c \in Consumers, CallPop(c) \/ SpuriousWakeup(c) PROVE Inv'
  BY <1>6 DEF CallPop, SpuriousWakeup, TypeOK, Roles, InsideOwns, Inside,
    Values
<1>7. ASSUME NEW c \in Consumers, Check(c) PROVE Inv'
  BY <1>7 DEF Check, TypeOK, Roles, InsideOwns, Inside, Values
<1>8. ASSUME NEW c \in Consumers, Relock(c) PROVE Inv'
  BY <1>8 DEF Relock, TypeOK, Roles, InsideOwns, Inside, Values
<1>9. ASSUME NEW c \in Consumers, Front(c) PROVE Inv'
  BY <1>9, QueueFacts DEF Front, TypeOK, Roles, InsideOwns, Inside, Values
<1>10. ASSUME NEW c \in Consumers, Pop(c) PROVE Inv'
  <2>1. q' \in Seq(Items)
    BY <1>10, QueueFacts DEF Pop, TypeOK, Values
  <2>2. \A d \in Consumers \ {c} : pc[d] \notin {"front", "pop"}
    BY <1>10 DEF Pop, InsideOwns, Inside
  <2> QED
    BY <1>10, <2>1, <2>2 DEF Pop, TypeOK, Roles, InsideOwns, Inside, Values
<1>11. CASE UNCHANGED vars
  BY <1>11 DEF vars, TypeOK, Roles, InsideOwns, Inside, Values
<1> QED
  BY <1>1, <1>2, <1>3, <1>4, <1>5, <1>6, <1>7, <1>8, <1>9, <1>10, <1>11
  DEF Next, Producer, Consumer

LEMMA AlwaysInv == Spec => []Inv
BY InitInv, NextInv, PTL DEF Spec

\* The mutex, the queue and the locals of the two operations keep their types.
THEOREM TypeCorrect == Spec => []TypeOK
BY AlwaysInv, PTL DEF Inv

\* The std::queue is never touched by two threads at once, however they come
\* to hold the mutex: on entry or out of cond.wait().
THEOREM OneThreadInside == Spec => []MutualExclusion
<1>1. Inv => MutualExclusion
  BY DEF Inv, InsideOwns, MutualExclusion
<1> QED
  BY <1>1, AlwaysInv, PTL

\* front() and pop() always find an item, whatever woke the thread.
THEOREM PopFindsItem == Spec => []NeverPopEmpty
<1>1. Inv => NeverPopEmpty
  BY DEF Inv, Values, NeverPopEmpty
<1> QED
  BY <1>1, AlwaysInv, PTL

-----------------------------------------------------------------------------
(* No wakeup is lost *)

\* The threads that answer for an item of the queue.
Coming == Arriving \cup Notifying

LEMMA ComingFinite ==
  ASSUME NEW S, S \subseteq Threads
  PROVE  IsFiniteSet(S) /\ Cardinality(S) \in Nat
BY ThreadAssumption, FS_Subset, FS_CardinalityType

\* Adding or removing one thread.
LEMMA OneMore ==
  ASSUME NEW S, S \subseteq Threads, NEW t \in Threads, t \notin S
  PROVE  Cardinality(S \cup {t}) = Cardinality(S) + 1
BY ComingFinite, FS_AddElement

LEMMA OneLess ==
  ASSUME NEW S, S \subseteq Threads, NEW t \in S
  PROVE  Cardinality(S \ {t}) = Cardinality(S) - 1
BY ComingFinite, FS_RemoveElement

LEMMA ComingType ==
  /\ Coming \subseteq Threads /\ Cardinality(Coming) \in Nat
  /\ Coming' \subseteq Threads /\ Cardinality(Coming') \in Nat
BY ComingFinite DEF Coming, Arriving, Notifying, Threads

LEMMA NextNoLostWakeup ==
  ASSUME Inv, Inv', NoLostWakeup, [Next]_vars
  PROVE  NoLostWakeup'
<1> USE ThreadAssumption DEF Goto, Threads
<1> SUFFICES ASSUME Waiting' # {} PROVE Len(q') <= Cardinality(Coming')
  BY DEF NoLostWakeup, Coming
<1>0. /\ Waiting # {} => Len(q) <= Cardinality(Coming)
      /\ Len(q) \in Nat /\ Len(q') \in Nat /\ q \in Seq(Items)
      /\ Cardinality(Coming) \in Nat /\ Cardinality(Coming') \in Nat
      /\ Coming \subseteq Threads
  BY ComingType DEF NoLostWakeup, Coming, Inv, TypeOK
<1>1. ASSUME NEW t \in Threads, Lock(t) \/ Return(t)
      PROVE  Len(q') <= Cardinality(Coming')
  <2>1. Coming' = Coming /\ Waiting' = Waiting /\ q' = q
    BY <1>1 DEF Lock, Return, Inv, TypeOK, Roles, Coming, Arriving, Notifying,
      Waiting
  <2> QED
    BY <1>0, <2>1
<1>2. ASSUME NEW p \in Producers, NEW x \in Items, CallAdd(p, x)
      PROVE  Len(q') <= Cardinality(Coming')
  <2>1. Coming' = Coming /\ Waiting' = Waiting /\ q' = q
    BY <1>2 DEF CallAdd, Inv, TypeOK, Roles, Coming, Arriving, Notifying,
      Waiting
  <2> QED
    BY <1>0, <2>1
<1>3. ASSUME NEW p \in Producers, Push(p)
      PROVE  Len(q') <= Cardinality(Coming')
  <2>1. Coming' = Coming \cup {p} /\ p \notin Coming /\ Waiting' = Waiting
    BY <1>3 DEF Push, Inv, TypeOK, Roles, Coming, Arriving, Notifying, Waiting
  <2>2. Cardinality(Coming') = Cardinality(Coming) + 1
    BY <1>0, <2>1, OneMore
  <2>3. Len(q') = Len(q) + 1
    BY <1>3 DEF Push, Inv, TypeOK, Values
  <2> QED
    BY <1>0, <2>1, <2>2, <2>3
<1>4. ASSUME NEW p \in Producers, Notify(p)
      PROVE  Len(q') <= Cardinality(Coming')
  <2>1. CASE Waiting = {}
    <3>1. Waiting' = {}
      BY <1>4, <2>1 DEF Notify, Inv, TypeOK, Waiting
    <3> QED
      BY <3>1
  <2>2. CASE Waiting # {}
    <3>1. PICK c \in Waiting :
            pc' = [pc EXCEPT ![p] = "return", ![c] = "relock"]
      BY <1>4, <2>2 DEF Notify
    <3>2. c \in Consumers /\ c # p /\ pc[c] = "wait" /\ pc[p] = "notify"
      BY <1>4, <3>1 DEF Notify, Waiting
    <3>3. /\ Coming' = (Coming \cup {c}) \ {p}
          /\ c \notin Coming /\ p \in Coming
      BY <3>1, <3>2 DEF Inv, TypeOK, Roles, Coming, Arriving, Notifying
    <3>4. Cardinality(Coming \cup {c}) = Cardinality(Coming) + 1
      BY <1>0, <3>2, <3>3, OneMore
    <3>5. Cardinality(Coming') = Cardinality(Coming \cup {c}) - 1
      BY <1>0, <3>2, <3>3, OneLess
    <3>6. q' = q
      BY <1>4 DEF Notify
    <3> QED
      BY <1>0, <2>2, <3>4, <3>5, <3>6
  <2> QED
    BY <2>1, <2>2
<1>5. ASSUME NEW c \in Consumers, CallPop(c) \/ SpuriousWakeup(c)
      PROVE  Len(q') <= Cardinality(Coming')
  <2>1. Coming' = Coming \cup {c} /\ c \notin Coming /\ q' = q
    BY <1>5 DEF CallPop, SpuriousWakeup, Inv, TypeOK, Roles, Coming, Arriving,
      Notifying
  <2>2. Cardinality(Coming') = Cardinality(Coming) + 1
    BY <1>0, <2>1, OneMore
  <2>3. Waiting # {}
    BY <1>5 DEF CallPop, SpuriousWakeup, Inv, TypeOK, Waiting
  <2> QED
    BY <1>0, <2>1, <2>2, <2>3
<1>6. ASSUME NEW c \in Consumers, Check(c)
      PROVE  Len(q') <= Cardinality(Coming')
  <2>1. CASE q = <<>>
    BY <1>0, <1>6, <2>1 DEF Check
  <2>2. CASE q # <<>>
    <3>1. Coming' = Coming /\ Waiting' = Waiting /\ q' = q
      BY <1>6, <2>2 DEF Check, Inv, TypeOK, Roles, Coming, Arriving,
        Notifying, Waiting
    <3> QED
      BY <1>0, <3>1
  <2> QED
    BY <2>1, <2>2
<1>7. ASSUME NEW c \in Consumers, Relock(c) \/ Front(c)
      PROVE  Len(q') <= Cardinality(Coming')
  <2>1. Coming' = Coming /\ Waiting' = Waiting /\ q' = q
    BY <1>7 DEF Relock, Front, Inv, TypeOK, Roles, Coming, Arriving,
      Notifying, Waiting
  <2> QED
    BY <1>0, <2>1
<1>8. ASSUME NEW c \in Consumers, Pop(c)
      PROVE  Len(q') <= Cardinality(Coming')
  <2>1. Coming' = Coming \ {c} /\ c \in Coming /\ Waiting' = Waiting
    BY <1>8 DEF Pop, Inv, TypeOK, Roles, Coming, Arriving, Notifying, Waiting
  <2>2. Cardinality(Coming') = Cardinality(Coming) - 1
    BY <1>0, <2>1, OneLess
  <2>3. Len(q') = Len(q) - 1
    BY <1>0, <1>8 DEF Pop, Inv, Values
  <2> QED
    BY <1>0, <2>1, <2>2, <2>3
<1>9. CASE UNCHANGED vars
  BY <1>0, <1>9 DEF vars, Coming, Arriving, Notifying, Waiting
<1> QED
  BY <1>1, <1>2, <1>3, <1>4, <1>5, <1>6, <1>7, <1>8, <1>9
  DEF Next, Producer, Consumer

\* While a thread sleeps in cond.wait(), every item in the queue has a thread
\* that is coming for it or a notification that is about to be sent: one
\* notify_one() per addItem() suffices for any number of threads.
THEOREM NoWakeupIsLost == Spec => []NoLostWakeup
<1>1. Init => NoLostWakeup
  BY DEF Init, NoLostWakeup, Waiting, Threads
<1>2. Inv /\ Inv' /\ NoLostWakeup /\ [Next]_vars => NoLostWakeup'
  BY NextNoLostWakeup
<1> QED
  BY <1>1, <1>2, AlwaysInv, PTL DEF Spec

-----------------------------------------------------------------------------
(* ProtectedQ implements FifoQueue *)

LEMMA StepRefines ==
  ASSUME Inv, Inv', [Next]_vars
  PROVE  [FQ!Next]_(FQ!vars)
<1> USE ThreadAssumption DEF Goto, Threads
<1>0. TypeOK /\ TypeOK' /\ Roles /\ Values /\ Roles' /\ Values'
  BY DEF Inv
<1>1. ASSUME NEW t \in Threads, Lock(t) PROVE UNCHANGED FQ!vars
  BY <1>0, <1>1 DEF Lock, TypeOK, Roles, Called, FQ!vars
<1>2. ASSUME NEW t \in Threads, Return(t) PROVE FQ!Return(t)
  BY <1>0, <1>2 DEF Return, TypeOK, Roles, Called, FQ!Return, FQ!Move
<1>3. ASSUME NEW p \in Producers, NEW x \in Items, CallAdd(p, x)
      PROVE  FQ!CallAdd(p, x)
  BY <1>0, <1>3 DEF CallAdd, TypeOK, Roles, Called, FQ!CallAdd, FQ!Move
<1>4. ASSUME NEW p \in Producers, Push(p) PROVE FQ!Add(p)
  BY <1>0, <1>4 DEF Push, TypeOK, Roles, Called, FQ!Add, FQ!Move
<1>5. ASSUME NEW p \in Producers, Notify(p) PROVE UNCHANGED FQ!vars
  <2>1. CASE Waiting = {}
    BY <1>0, <1>5, <2>1 DEF Notify, TypeOK, Roles, Called, FQ!vars
  <2>2. CASE Waiting # {}
    <3>1. PICK c \in Waiting :
            pc' = [pc EXCEPT ![p] = "return", ![c] = "relock"]
      BY <1>5, <2>2 DEF Notify
    <3>2. c \in Consumers /\ c # p /\ pc[c] = "wait" /\ pc[p] = "notify"
      BY <1>5, <3>1 DEF Notify, Waiting
    <3> QED
      BY <1>0, <1>5, <3>1, <3>2 DEF Notify, TypeOK, Roles, Called, FQ!vars
  <2> QED
    BY <2>1, <2>2
<1>6. ASSUME NEW c \in Consumers, CallPop(c) PROVE FQ!CallPop(c)
  BY <1>0, <1>6 DEF CallPop, TypeOK, Roles, Values, Called, FQ!CallPop, FQ!Move
<1>7. ASSUME NEW c \in Consumers, SpuriousWakeup(c) \/ Check(c) \/ Relock(c)
      PROVE  UNCHANGED FQ!vars
  BY <1>0, <1>7 DEF SpuriousWakeup, Check, Relock, TypeOK, Roles, Called,
    FQ!vars
<1>8. ASSUME NEW c \in Consumers, Front(c) PROVE UNCHANGED FQ!vars
  BY <1>0, <1>8 DEF Front, TypeOK, Roles, Called, FQ!vars
<1>9. ASSUME NEW c \in Consumers, Pop(c) PROVE FQ!Pop(c)
  <2> DEFINE shown(u) == IF (u \in Producers) = Called(u) THEN val[u] ELSE NoItem
  <2>1. /\ pc[c] = "pop" /\ pc' = [pc EXCEPT ![c] = "return"]
        /\ q # <<>> /\ q' = Tail(q) /\ val[c] = Head(q) /\ val' = val
    BY <1>0, <1>9 DEF Pop, Values
  <2>2. FQ!Move(c, "called", "done")
    BY <1>0, <2>1 DEF TypeOK, Called, FQ!Move
  <2>3. [t \in Threads |-> shown(t)]'
          = [[t \in Threads |-> shown(t)] EXCEPT ![c] = Head(q)]
    <3>1. \A t \in Threads \ {c} : shown(t)' = shown(t)
      BY <1>0, <2>1 DEF TypeOK, Called
    <3>2. shown(c)' = Head(q)
      BY <1>0, <2>1 DEF TypeOK, Called
    <3> HIDE DEF shown
    <3> QED
      BY <3>1, <3>2
  <2> QED
    BY <2>1, <2>2, <2>3 DEF FQ!Pop
<1>10. CASE UNCHANGED vars
  BY <1>10 DEF vars, Called, FQ!vars
<1> QED
  BY <1>1, <1>2, <1>3, <1>4, <1>5, <1>6, <1>7, <1>8, <1>9, <1>10
  DEF Next, Producer, Consumer, FQ!Next

\* addItem() and popItem() behave as atomic operations on a FIFO queue that
\* take effect between call and return, for any number of threads.
THEOREM ImplementsFifoQueue == Spec => IsFifoQueue
<1>1. Init => FQ!Init
  BY ThreadAssumption DEF Init, FQ!Init, Threads, Called
<1>2. Inv /\ Inv' /\ [Next]_vars => [FQ!Next]_(FQ!vars)
  BY StepRefines
<1> QED
  BY <1>1, <1>2, AlwaysInv, PTL DEF Spec, IsFifoQueue, FQ!Spec
=============================================================================
