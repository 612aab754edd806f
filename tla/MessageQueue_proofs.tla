------------------------ MODULE MessageQueue_proofs ------------------------
(***************************************************************************)
(* The safety properties of the message queue, for any finite set of       *)
(* threads, number of messages and timeouts.                               *)
(***************************************************************************)
EXTENDS MessageQueue, FiniteSetTheorems, SequenceTheorems, TLAPS

\* What Take leaves of a queue.
LEMMA TakeOne ==
    ASSUME TypeOK, Take
    PROVE  /\ queue' \in Seq(Nat) /\ gone' = queue[1] /\ gone' \in Nat
           /\ Len(queue) \in Nat /\ Len(queue) > 0
           /\ Len(queue') = Len(queue) - 1
           /\ \A i \in 1..(Len(queue) - 1) : queue'[i] = queue[i + 1]
<1>1. queue \in Seq(Nat) /\ queue # <<>> /\ gone' = Head(queue)
         /\ queue' = Tail(queue)
  BY DEF TypeOK, Take
<1>2. Len(queue) \in Nat \ {0}
  BY <1>1, EmptySeq
<1>3. /\ gone' \in Nat /\ queue' \in Seq(Nat)
      /\ Len(queue') = Len(queue) - 1
      /\ \A i \in 1..Len(queue') : queue'[i] = queue[i + 1]
  BY <1>1, HeadTailProperties
<1>4. Head(queue) = queue[1]
  BY <1>1
<1> QED BY <1>1, <1>2, <1>3, <1>4

(* TypeOK is inductive by itself.                                          *)
LEMMA TypeInductive == /\ Init => TypeOK
                       /\ TypeOK /\ [Next]_vars => TypeOK'
<1>1. Init => TypeOK
  BY DEF Init, TypeOK
<1>2. ASSUME TypeOK, [Next]_vars PROVE TypeOK'
  <2> USE <1>2
  <2>0. Take => queue' \in Seq(Nat) /\ gone' \in Nat
    BY TakeOne
  <2>1. ASSUME NEW t \in Threads, Enqueue(t) PROVE TypeOK'
    <3>1. queue' \in Seq(Nat) /\ sent' \in Nat
      BY <2>1 DEF Enqueue, TypeOK
    <3>2. pc' \in [Threads -> {"idle", "waiting", "woken", "polling"}]
      BY <2>1 DEF Enqueue, NotifyOne, TypeOK, Waiting, Go
    <3> QED BY <3>1, <3>2, <2>1 DEF Enqueue, TypeOK
  <2>2. ASSUME NEW t \in Threads, Pop(t) PROVE TypeOK'
    BY <2>2, <2>0 DEF Pop, TypeOK
  <2>3. ASSUME NEW t \in Threads, Dequeue(t) PROVE TypeOK'
    BY <2>3, <2>0 DEF Dequeue, TypeOK, Go
  <2>4. ASSUME NEW t \in Threads, SpuriousWakeup(t) PROVE TypeOK'
    BY <2>4 DEF SpuriousWakeup, TypeOK, Go
  <2>5. ASSUME NEW t \in Threads, Clear(t) PROVE TypeOK'
    BY <2>5 DEF Clear, TypeOK
  <2>6. ASSUME NEW t \in Threads, Wait(t) PROVE TypeOK'
    BY <2>6, BoundsAssumption DEF Wait, TypeOK, Go
  <2>7. ASSUME NEW t \in Threads, WaitRound(t) PROVE TypeOK'
    <3>1. tmo' \in [Threads -> Nat \cup {Forever}]
      BY <2>7, ForeverAssumption DEF WaitRound, TypeOK
    <3> QED BY <3>1, <2>7, <2>0 DEF WaitRound, TypeOK, Go
  <2>8. ASSUME NEW t \in Threads, WaitTimeout(t) PROVE TypeOK'
    BY <2>8 DEF WaitTimeout, TypeOK, Go
  <2>9. CASE UNCHANGED vars
    BY <2>9 DEF vars, TypeOK
  <2> QED
    BY <2>1, <2>2, <2>3, <2>4, <2>5, <2>6, <2>7, <2>8, <2>9 DEF Next, Step
<1> QED BY <1>1, <1>2

(* Type correctness, for any number of threads and messages.               *)
THEOREM TypeCorrect == Spec => []TypeOK
BY TypeInductive, PTL DEF Spec

-----------------------------------------------------------------------------
(* What a step does to the threads on their way to the queue.              *)

LEMMA WokenFinite == IsFiniteSet(Woken) /\ Cardinality(Woken) \in Nat
<1>1. IsFiniteSet(Woken)
  BY ThreadsAssumption, FS_Subset DEF Woken
<1> QED BY <1>1, FS_CardinalityType

\* A thread that is woken adds one.
LEMMA WakeCount ==
    ASSUME TypeOK, NEW t \in Waiting, Go(t, "woken")
    PROVE  Cardinality(Woken') = Cardinality(Woken) + 1
<1>1. Woken' = Woken \cup {t} /\ t \notin Woken
  BY DEF TypeOK, Woken, Waiting, Go
<1> QED BY <1>1, WokenFinite, FS_AddElement

\* A thread that was woken and goes on takes one away.
LEMMA ResumeCount ==
    ASSUME TypeOK, NEW t \in Woken, Go(t, "idle")
    PROVE  Cardinality(Woken') = Cardinality(Woken) - 1
<1>1. Woken' = Woken \ {t}
  BY DEF TypeOK, Woken, Go
<1> QED BY <1>1, WokenFinite, FS_RemoveElement

-----------------------------------------------------------------------------
(* NoLostWakeup is inductive once the types are known: a message enters    *)
(* with a waiter woken for it, and a woken thread leaves with a message or *)
(* finds the queue empty.                                                  *)
LEMMA WakeupInductive ==
    ASSUME TypeOK, TypeOK', NoLostWakeup, [Next]_vars
    PROVE  NoLostWakeup'
<1> SUFFICES ASSUME Waiting' # {}
             PROVE  Len(queue)' <= Cardinality(Woken)'
  BY DEF NoLostWakeup
<1>0. /\ Len(queue) \in Nat /\ Len(queue') \in Nat
      /\ Cardinality(Woken) \in Nat /\ Cardinality(Woken') \in Nat
  <2>1. Cardinality(Woken') \in Nat
    <3>1. IsFiniteSet(Woken')
      BY ThreadsAssumption, FS_Subset DEF Woken
    <3> QED BY <3>1, FS_CardinalityType
  <2> QED BY <2>1, WokenFinite, LenProperties DEF TypeOK
<1>a. Len(<<>>) = 0
  OBVIOUS
<1>b. Take => Len(queue') = Len(queue) - 1
  BY TakeOne
<1>1. ASSUME NEW t \in Threads, Enqueue(t)
      PROVE  Len(queue') <= Cardinality(Woken')
  <2>1. Len(queue') = Len(queue) + 1
    BY <1>1 DEF Enqueue, TypeOK
  <2>2. Waiting # {}
    BY <1>1 DEF Enqueue, NotifyOne, Waiting
  <2>3. PICK w \in Waiting : Go(w, "woken")
    BY <1>1, <2>2 DEF Enqueue, NotifyOne
  <2> QED BY <2>1, <2>2, <2>3, <1>0, WakeCount DEF NoLostWakeup
<1>2. ASSUME NEW t \in Threads, Pop(t)
      PROVE  Len(queue') <= Cardinality(Woken')
  BY <1>2, <1>0, <1>b DEF Pop, NoLostWakeup, Waiting, Woken
<1>3. ASSUME NEW t \in Threads, Dequeue(t)
      PROVE  Len(queue') <= Cardinality(Woken')
  <2>1. CASE queue = <<>> /\ UNCHANGED queue
    BY <2>1, <1>0, <1>a
  <2>2. CASE Take /\ Go(t, "idle")
    <3>1. Waiting # {}
      BY <2>2 DEF Waiting, Go, TypeOK
    <3>2. CASE pc[t] = "woken"
      <4>1. t \in Woken
        BY <3>2 DEF Woken
      <4> QED BY <4>1, <3>1, <2>2, <1>0, <1>b, ResumeCount DEF NoLostWakeup
    <3>3. CASE pc[t] = "idle"
      <4>1. Woken' = Woken
        BY <3>3, <2>2 DEF Woken, Go, TypeOK
      <4> QED BY <4>1, <3>1, <2>2, <1>0, <1>b DEF NoLostWakeup
    <3> QED BY <3>2, <3>3, <1>3 DEF Dequeue
  <2> QED BY <2>1, <2>2, <1>3 DEF Dequeue
<1>4. ASSUME NEW t \in Threads, SpuriousWakeup(t)
      PROVE  Len(queue') <= Cardinality(Woken')
  <2>1. t \in Waiting /\ Waiting # {} /\ Go(t, "woken") /\ UNCHANGED queue
    BY <1>4 DEF SpuriousWakeup, Waiting
  <2> QED BY <2>1, <1>0, WakeCount DEF NoLostWakeup
<1>5. ASSUME NEW t \in Threads, Clear(t)
      PROVE  Len(queue') <= Cardinality(Woken')
  BY <1>5, <1>0, <1>a DEF Clear
\* The other steps of an idle or polling thread.
<1>6. ASSUME NEW t \in Threads, NEW p \in {"idle", "polling"}, Go(t, p),
             pc[t] \in {"idle", "polling"}, Len(queue') <= Len(queue)
      PROVE  Len(queue') <= Cardinality(Woken')
  <2>1. Waiting' = Waiting /\ Woken' = Woken
    BY <1>6 DEF Waiting, Woken, Go, TypeOK
  <2> QED BY <2>1, <1>6, <1>0 DEF NoLostWakeup
<1>7. ASSUME NEW t \in Threads, Wait(t)
      PROVE  Len(queue') <= Cardinality(Woken')
  BY <1>7, <1>6, <1>0 DEF Wait, Idle
<1>8. ASSUME NEW t \in Threads, WaitRound(t)
      PROVE  Len(queue') <= Cardinality(Woken')
  <2>1. CASE Take /\ Go(t, "idle")
    BY <2>1, <1>8, <1>6, <1>0, <1>b DEF WaitRound
  <2>2. CASE queue = <<>> /\ UNCHANGED <<queue, gone, pc>>
    BY <2>2, <1>0, <1>a
  <2> QED BY <2>1, <2>2, <1>8 DEF WaitRound
<1>9. ASSUME NEW t \in Threads, WaitTimeout(t)
      PROVE  Len(queue') <= Cardinality(Woken')
  BY <1>9, <1>6, <1>0 DEF WaitTimeout
<1>10. CASE UNCHANGED vars
  BY <1>10, <1>0 DEF vars, NoLostWakeup, Waiting, Woken
<1> QED
  BY <1>1, <1>2, <1>3, <1>4, <1>5, <1>7, <1>8, <1>9, <1>10 DEF Next, Step

(* No notification is ever missing, for any number of threads.             *)
THEOREM WakeupsSuffice == Spec => []NoLostWakeup
<1>1. Init => NoLostWakeup
  BY DEF Init, NoLostWakeup, Waiting
<1>2. TypeOK /\ TypeOK' /\ NoLostWakeup /\ [Next]_vars => NoLostWakeup'
  BY WakeupInductive
<1> QED BY <1>1, <1>2, TypeCorrect, PTL DEF Spec

-----------------------------------------------------------------------------
(* Fifo is inductive with the types.                                       *)

LEMMA TakeFifo ==
    ASSUME TypeOK, Fifo, Take, UNCHANGED sent
    PROVE  Fifo'
<1>1. /\ Len(queue) = sent - gone
      /\ \A i \in 1..(sent - gone) : queue[i] = gone + i
      /\ sent \in Nat /\ gone \in Nat /\ gone <= sent
  BY DEF Fifo, TypeOK
<1>2. gone' = gone + 1 /\ gone < sent
  BY <1>1, TakeOne
<1>3. queue' \in Seq(Nat) /\ Len(queue') = sent - gone'
  BY <1>1, <1>2, TakeOne
<1>4. \A i \in 1..(sent - gone') : queue'[i] = gone' + i
  BY <1>1, <1>2, TakeOne
<1>5. queue' = [i \in 1..(sent - gone') |-> gone' + i]
  BY <1>3, <1>4, LenProperties
<1> QED BY <1>1, <1>2, <1>5 DEF Fifo

LEMMA FifoInductive ==
    ASSUME TypeOK, Fifo, [Next]_vars
    PROVE  Fifo'
<1>0. /\ queue \in Seq(Nat) /\ sent \in Nat /\ gone \in Nat /\ gone <= sent
      /\ Len(queue) = sent - gone
      /\ \A i \in 1..(sent - gone) : queue[i] = gone + i
  BY DEF Fifo, TypeOK
<1>a. ASSUME UNCHANGED <<queue, sent, gone>> PROVE Fifo'
  BY <1>a DEF Fifo
<1>1. ASSUME NEW t \in Threads, Enqueue(t) PROVE Fifo'
  <2>1. sent' = sent + 1 /\ gone' = gone /\ queue' = Append(queue, sent + 1)
    BY <1>1 DEF Enqueue
  <2>5. sent + 1 \in Nat /\ (sent + 1) - gone = (sent - gone) + 1
    BY <1>0
  <2>2. queue' \in Seq(Nat) /\ Len(queue') = sent' - gone'
    BY <2>1, <2>5, <1>0, AppendProperties
  <2>3. \A i \in 1..(sent' - gone') : queue'[i] = gone' + i
    BY <2>1, <1>0
  <2>4. queue' = [i \in 1..(sent' - gone') |-> gone' + i]
    BY <2>2, <2>3, LenProperties
  <2> QED BY <2>1, <2>4, <1>0 DEF Fifo
<1>2. ASSUME NEW t \in Threads, Pop(t) PROVE Fifo'
  BY <1>2, TakeFifo DEF Pop
<1>3. ASSUME NEW t \in Threads, Dequeue(t) PROVE Fifo'
  BY <1>3, <1>a, TakeFifo DEF Dequeue
<1>4. ASSUME NEW t \in Threads, SpuriousWakeup(t) PROVE Fifo'
  BY <1>4, <1>a DEF SpuriousWakeup
<1>5. ASSUME NEW t \in Threads, Clear(t) PROVE Fifo'
  <2>1. sent' = sent /\ gone' = sent /\ queue' = <<>>
    BY <1>5 DEF Clear
  <2>2. [i \in 1..(sent - sent) |-> sent + i] = <<>>
    BY <1>0
  <2> QED BY <2>1, <2>2, <1>0 DEF Fifo
<1>6. ASSUME NEW t \in Threads, Wait(t) PROVE Fifo'
  BY <1>6, <1>a DEF Wait
<1>7. ASSUME NEW t \in Threads, WaitRound(t) PROVE Fifo'
  BY <1>7, <1>a, TakeFifo DEF WaitRound
<1>8. ASSUME NEW t \in Threads, WaitTimeout(t) PROVE Fifo'
  BY <1>8, <1>a DEF WaitTimeout
<1>9. CASE UNCHANGED vars
  BY <1>9, <1>a DEF vars
<1> QED
  BY <1>1, <1>2, <1>3, <1>4, <1>5, <1>6, <1>7, <1>8, <1>9 DEF Next, Step

(* First in, first out, for any threads that take and poll.                *)
THEOREM FirstInFirstOut == Spec => []Fifo
<1>1. Init => Fifo
  <2>1. [i \in 1..(0 - 0) |-> 0 + i] = <<>>
    OBVIOUS
  <2> QED BY <2>1 DEF Init, Fifo
<1>2. TypeOK /\ Fifo /\ [Next]_vars => Fifo'
  BY FifoInductive
<1> QED BY <1>1, <1>2, TypeCorrect, PTL DEF Spec
=============================================================================
