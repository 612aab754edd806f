---------------------------- MODULE MessageQueue ----------------------------
(***************************************************************************)
(* The message queue (src/utilities/message_queue.h).  Every method body   *)
(* runs under queue_mutex and is one step; dequeue is two when it has to   *)
(* wait on queue_cv_m, and wait polls with a sleep between two pops.       *)
(* Messages are numbered in the order they enter the queue.  size and poke *)
(* change nothing and are left out; so is what a call returns, but for the *)
(* timeout of wait.                                                        *)
(***************************************************************************)
EXTENDS Naturals, Sequences, FiniteSets

CONSTANTS
    Threads,     \* threads that use the queue
    MaxMessages, \* bound on the messages ever sent
    MaxTmo,      \* bound on the timeout of wait
    Forever      \* a negative timeout of wait

ASSUME ThreadsAssumption == IsFiniteSet(Threads)
ASSUME BoundsAssumption  == MaxMessages \in Nat /\ MaxTmo \in Nat
ASSUME ForeverAssumption == Forever \notin Nat

VARIABLES
    queue,   \* msg_queue_m
    pc,      \* where each thread is: idle, waiting (in queue_cv_m), woken
             \* (from it, without the mutex), polling (in wait)
    tmo,     \* tmo_ms of a thread in wait
    sent,    \* the number of messages sent
    gone     \* the last message that was taken or discarded

vars == <<queue, pc, tmo, sent, gone>>

Waiting == {t \in Threads : pc[t] = "waiting"}
Woken   == {t \in Threads : pc[t] = "woken"}

Init ==
    /\ queue = <<>>
    /\ pc = [t \in Threads |-> "idle"]
    /\ tmo = [t \in Threads |-> 0]
    /\ sent = 0
    /\ gone = 0

Idle(t) == pc[t] = "idle"
Go(t, p) == pc' = [pc EXCEPT ![t] = p]

-----------------------------------------------------------------------------
\* Mutant: only a queue that was empty has anybody waiting for it.
NotifyFirst ==
    IF queue = <<>> /\ Waiting # {} THEN \E w \in Waiting : Go(w, "woken")
                                   ELSE UNCHANGED pc

\* queue_cv_m.notify_one().
NotifyOne ==
    IF Waiting # {} THEN \E w \in Waiting : Go(w, "woken")
                    ELSE UNCHANGED pc

\* enqueue and push.
Enqueue(t) ==
    /\ Idle(t) /\ sent < MaxMessages
    /\ sent' = sent + 1
    /\ queue' = Append(queue, sent')
    /\ NotifyOne
    /\ UNCHANGED <<tmo, gone>>

\* Mutant: the newest message is taken, as poke shows it.
TakeNewest ==
    /\ queue # <<>>
    /\ gone' = queue[Len(queue)]
    /\ queue' = SubSeq(queue, 1, Len(queue) - 1)

\* front, then pop.
Take ==
    /\ queue # <<>>
    /\ gone' = Head(queue)
    /\ queue' = Tail(queue)

\* pop, and wait with a timeout of 0.
Pop(t) == Idle(t) /\ Take /\ UNCHANGED <<pc, tmo, sent>>

\* dequeue, from its start and from each time it is woken: the predicate of
\* the wait is tested with the mutex.
Dequeue(t) ==
    /\ pc[t] \in {"idle", "woken"}
    /\ \/ Take /\ Go(t, "idle")
       \/ queue = <<>> /\ Go(t, "waiting") /\ UNCHANGED <<queue, gone>>
    /\ UNCHANGED <<tmo, sent>>

SpuriousWakeup(t) ==
    /\ pc[t] = "waiting" /\ Go(t, "woken")
    /\ UNCHANGED <<queue, tmo, sent, gone>>

\* empty().
Clear(t) ==
    /\ Idle(t)
    /\ queue' = <<>> /\ gone' = sent
    /\ UNCHANGED <<pc, tmo, sent>>

Wait(t) ==
    /\ Idle(t) /\ Go(t, "polling")
    /\ \E n \in 1..MaxTmo \cup {Forever} : tmo' = [tmo EXCEPT ![t] = n]
    /\ UNCHANGED <<queue, sent, gone>>

\* Mutant: the timeout is not counted down.
WaitRoundForever(t) ==
    /\ pc[t] = "polling" /\ tmo[t] # 0
    /\ \/ Take /\ Go(t, "idle")
       \/ queue = <<>> /\ UNCHANGED <<queue, gone, pc>>
    /\ UNCHANGED <<tmo, sent>>

\* Mutant: the time left is not tested before it is counted down.
WaitRoundUntested(t) ==
    /\ pc[t] = "polling"
    /\ tmo' = [tmo EXCEPT ![t] = IF @ = Forever THEN @ ELSE @ - 1]
    /\ \/ Take /\ Go(t, "idle")
       \/ queue = <<>> /\ UNCHANGED <<queue, gone, pc>>
    /\ UNCHANGED sent

\* One round of the loop of wait and the sleep after it: a pop, if there is
\* time left.
WaitRound(t) ==
    /\ pc[t] = "polling" /\ tmo[t] # 0
    /\ tmo' = [tmo EXCEPT ![t] = IF @ = Forever THEN @ ELSE @ - 1]
    /\ \/ Take /\ Go(t, "idle")
       \/ queue = <<>> /\ UNCHANGED <<queue, gone, pc>>
    /\ UNCHANGED sent

\* The loop of wait has run out of time: MQ_MSG_TMO, without another look.
WaitTimeout(t) ==
    /\ pc[t] = "polling" /\ tmo[t] = 0
    /\ Go(t, "idle")
    /\ UNCHANGED <<queue, tmo, sent, gone>>

-----------------------------------------------------------------------------
Resumes(t) == pc[t] = "woken" /\ Dequeue(t)

Step(t) ==
    \/ Enqueue(t) \/ Pop(t)  \/ Dequeue(t)   \/ SpuriousWakeup(t)
    \/ Clear(t)   \/ Wait(t) \/ WaitRound(t) \/ WaitTimeout(t)

Next == \E t \in Threads : Step(t)

Spec == Init /\ [][Next]_vars

(* A thread that is woken gets the mutex, and a sleep ends.  Nobody has to *)
(* call, and no spurious wakeup is owed.                                   *)
Fairness == \A t \in Threads : /\ WF_vars(Resumes(t))
                               /\ WF_vars(WaitRound(t) \/ WaitTimeout(t))

FairSpec == Spec /\ Fairness

-----------------------------------------------------------------------------
TypeOK ==
    /\ queue \in Seq(Nat)
    /\ pc \in [Threads -> {"idle", "waiting", "woken", "polling"}]
    /\ tmo \in [Threads -> Nat \cup {Forever}]
    /\ sent \in Nat
    /\ gone \in Nat

\* A notification is never missing: while a thread is left waiting, every
\* message in the queue has a thread that is on its way to take it, whoever
\* else pops, empties or enqueues meanwhile.
NoLostWakeup == Waiting # {} => Len(queue) <= Cardinality(Woken)

\* What was sent comes out in that order, nothing twice and nothing lost but by
\* empty (util_queue_test.cpp:46 compares what went in with what came out).
Fifo == gone <= sent /\ queue = [i \in 1..(sent - gone) |-> gone + i]

\* A thread is not left waiting beside a message.
WaitersServed ==
    queue # <<>> /\ Waiting # {} ~> queue = <<>> \/ Waiting = {}

\* wait with a timeout returns.
WaitReturns ==
    \A t \in Threads : pc[t] = "polling" /\ tmo[t] # Forever ~> Idle(t)
=============================================================================
