------------------------------ MODULE SharedQueue ------------------------------
(******************************************************************************)
(* shared_queue<T> of src/src/g3log/shared_queue.hpp: the unbounded FIFO that *)
(* every active object of g3log is built on.  Any thread may push, any thread *)
(* may pop, and a popping thread sleeps on a condition variable while the     *)
(* queue is empty.                                                            *)
(*                                                                            *)
(* A critical section of the mutex m_ is one action: nothing outside the      *)
(* mutex can see a state inside it.  What happens outside the mutex is not    *)
(* merged: notify_one is called after the lock_guard's scope, and a thread    *)
(* woken from data_cond_ must get the mutex back before it tests the queue,   *)
(* so other threads may push, pop and notify in between.  Spurious wakeups    *)
(* are allowed.                                                               *)
(******************************************************************************)
EXTENDS Integers, Sequences, FiniteSets, Functions

CONSTANTS Threads,  \* the threads that hold a reference to the queue
          Items     \* the elements; each is a distinct object, pushed at most once

ASSUME ThreadsFinite == IsFiniteSet(Threads)

VARIABLES queue,    \* queue_
          pc,       \* where each thread is: outside ("idle"), between the push and
                    \* notify_one ("notify"), about to lock m_ in wait_and_pop
                    \* ("pop"), or blocked in data_cond_.wait ("wait")
          pushed,   \* history: every element pushed so far, in the order of the pushes
          taken     \* history: every element popped so far, in the order of the pops

qvars == <<queue, pc, pushed, taken>>

PCs == {"idle", "notify", "pop", "wait"}

QTypeOK == /\ queue \in Seq(Items)
           /\ pc \in [Threads -> PCs]
           /\ pushed \in Seq(Items)
           /\ taken \in Seq(Items)

QInit == /\ queue = <<>>
         /\ pc = [t \in Threads |-> "idle"]
         /\ pushed = <<>>
         /\ taken = <<>>

--------------------------------------------------------------------------------
At(l) == {t \in Threads : pc[t] = l}

Goto(t, from, to) == /\ pc[t] = from
                     /\ pc' = [pc EXCEPT ![t] = to]

(* Mutant: the notification forgotten. *)
PushSilently(t, i) == /\ pc[t] = "idle"
                      /\ i \notin Range(pushed)
                      /\ queue' = Append(queue, i)
                      /\ pushed' = Append(pushed, i)
                      /\ UNCHANGED <<pc, taken>>

(* The critical section of push. *)
Push(t, i) == /\ Goto(t, "idle", "notify")
              /\ i \notin Range(pushed)
              /\ queue' = Append(queue, i)
              /\ pushed' = Append(pushed, i)
              /\ UNCHANGED taken

(* notify_one, outside the mutex: it wakes one waiter if there is any, and is *)
(* lost otherwise.                                                            *)
NotifyOne(t) == /\ pc[t] = "notify"
                /\ IF At("wait") = {}
                   THEN pc' = [pc EXCEPT ![t] = "idle"]
                   ELSE \E w \in At("wait") :
                           pc' = [pc EXCEPT ![t] = "idle", ![w] = "pop"]
                /\ UNCHANGED <<queue, pushed, taken>>

(* Entry of wait_and_pop: the thread now asks for the mutex. *)
WaitAndPop(t) == /\ Goto(t, "idle", "pop")
                 /\ UNCHANGED <<queue, pushed, taken>>

(* Mutant: a stack. *)
TakeBack == /\ queue # <<>>
            /\ queue' = SubSeq(queue, 1, Len(queue) - 1)
            /\ taken' = Append(taken, queue[Len(queue)])
            /\ UNCHANGED pushed

TakeFront == /\ queue # <<>>
             /\ queue' = Tail(queue)
             /\ taken' = Append(taken, Head(queue))
             /\ UNCHANGED pushed

(* The mutex is held and the queue is not empty: the loop ends with a pop. *)
PopFront(t) == Goto(t, "pop", "idle") /\ TakeFront

(* The mutex is held and the queue is empty: release the mutex and block. *)
Block(t) == /\ queue = <<>>
            /\ Goto(t, "pop", "wait")
            /\ UNCHANGED <<queue, pushed, taken>>

SpuriousWakeup(t) == /\ Goto(t, "wait", "pop")
                     /\ UNCHANGED <<queue, pushed, taken>>

(* try_and_pop; its early return on an empty queue changes nothing. *)
TryAndPop(t) == pc[t] = "idle" /\ TakeFront /\ UNCHANGED pc

--------------------------------------------------------------------------------
QNext == \E t \in Threads : \/ \E i \in Items : Push(t, i)
                            \/ NotifyOne(t)
                            \/ WaitAndPop(t)
                            \/ PopFront(t)
                            \/ Block(t)
                            \/ SpuriousWakeup(t)
                            \/ TryAndPop(t)

QSafeSpec == QInit /\ [][QNext]_qvars

(* A thread inside push or wait_and_pop keeps running and gets the mutex. No  *)
(* fairness on the calls themselves, nor on spurious wakeups.                 *)
QFairness == \A t \in Threads : /\ WF_qvars(NotifyOne(t))
                                /\ WF_qvars(PopFront(t) \/ Block(t))

QSpec == QSafeSpec /\ QFairness

--------------------------------------------------------------------------------
(* Threads that will look at the queue without any further notification: a    *)
(* pusher that has yet to notify, and a popper that has yet to lock.          *)
OnTheirWay == At("notify") \cup At("pop")

(* No lost wakeup, as a state property.  notify_one is called outside the     *)
(* mutex, so it can be late, reach a thread that is not waiting any more, or  *)
(* wake a thread whose element was popped by another; still, whenever a       *)
(* thread sleeps in wait_and_pop there are at least as many threads on their  *)
(* way to the queue as there are elements in it.                              *)
WakeupsCoverItems == At("wait") # {} => Len(queue) <= Cardinality(OnTheirWay)

(* Whatever poppers and pushers race, every element pushed is handed out once *)
(* and in the order of the pushes, or is still in the queue.                  *)
Fifo == pushed = taken \o queue

(* wait_and_pop returns when it can: it never happens that from some time on  *)
(* the queue is never empty and a thread never leaves wait_and_pop.           *)
NoThreadLeftWaiting == 
   \A t \in Threads : []<>(queue = <<>> \/ pc[t] \notin {"pop", "wait"})
================================================================================
