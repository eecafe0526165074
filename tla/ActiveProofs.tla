----------------------------- MODULE ActiveProofs ------------------------------
(******************************************************************************)
(* Proofs about SharedQueue and Active, for any finite set of threads, any    *)
(* worker and owner among them, and any set of tasks.  The first part is      *)
(* about the queue alone, for any use of it; Active takes only steps of       *)
(* SharedQueue on the queue's variables, so this holds of it too.  The last   *)
(* part shows that Active implements ActiveObject, progress aside.            *)
(******************************************************************************)
EXTENDS ActiveRefinement, SequenceTheorems, FiniteSetTheorems, TLAPS

--------------------------------------------------------------------------------
(* The queue *)

(* The state of the queue has its type in every reachable state of             *)
(* shared_queue, whatever threads push and pop.                                *)
THEOREM QTypeCorrect == QSafeSpec => []QTypeOK
<1>1. QInit => QTypeOK
  BY EmptySeq DEF QInit, QTypeOK, PCs
<1>2. QTypeOK /\ [QNext]_qvars => QTypeOK'
  <2> SUFFICES ASSUME QTypeOK, [QNext]_qvars PROVE QTypeOK'
    OBVIOUS
  <2> USE DEF QTypeOK, PCs
  <2>1. ASSUME NEW t \in Threads, NEW i \in Items, Push(t, i) PROVE QTypeOK'
    BY <2>1 DEF Push, Goto
  <2>2. ASSUME NEW t \in Threads, NotifyOne(t) PROVE QTypeOK'
    BY <2>2 DEF NotifyOne, At
  <2>3. ASSUME TakeFront PROVE queue' \in Seq(Items) /\ taken' \in Seq(Items) /\ pushed' \in Seq(Items)
    <3>1. Head(queue) \in Items /\ Tail(queue) \in Seq(Items)
      BY <2>3, HeadTailProperties DEF TakeFront
    <3> QED BY <2>3, <3>1, AppendProperties DEF TakeFront
  <2>4. ASSUME NEW t \in Threads, PopFront(t) PROVE QTypeOK'
    <3>1. pc' \in [Threads -> PCs]
      BY <2>4 DEF PopFront, Goto
    <3> QED BY <2>3, <2>4, <3>1 DEF PopFront
  <2>5. ASSUME NEW t \in Threads, TryAndPop(t) PROVE QTypeOK'
    BY <2>3, <2>5 DEF TryAndPop
  <2>6. ASSUME NEW t \in Threads, WaitAndPop(t) \/ Block(t) \/ SpuriousWakeup(t) PROVE QTypeOK'
    BY <2>6 DEF WaitAndPop, Block, SpuriousWakeup, Goto
  <2>7. CASE UNCHANGED qvars
    BY <2>7 DEF qvars
  <2> QED BY <2>1, <2>2, <2>4, <2>5, <2>6, <2>7 DEF QNext
<1> QED BY <1>1, <1>2, PTL DEF QSafeSpec

--------------------------------------------------------------------------------
(* Every element pushed is handed out once, in the order of the pushes, or is  *)
(* still queued: the inductive step is that a pop moves the head of the queue  *)
(* to the end of what was taken.                                               *)
THEOREM FifoHolds == QSafeSpec => []Fifo
<1>1. QInit => Fifo
  BY DEF QInit, Fifo
<1>2. QTypeOK /\ Fifo /\ [QNext]_qvars => Fifo'
  <2> SUFFICES ASSUME QTypeOK, Fifo, [QNext]_qvars PROVE Fifo'
    OBVIOUS
  <2> USE DEF QTypeOK, Fifo
  <2>1. ASSUME NEW t \in Threads, NEW i \in Items, Push(t, i) PROVE Fifo'
    <3>1. queue' = queue \o <<i>> /\ pushed' = pushed \o <<i>> /\ taken' = taken
      BY <2>1, AppendIsConcat DEF Push
    <3>2. (taken \o queue) \o <<i>> = taken \o (queue \o <<i>>)
      BY ConcatAssociative
    <3> QED BY <3>1, <3>2
  <2>2. ASSUME TakeFront PROVE Fifo'
    <3> DEFINE h == Head(queue)
               r == Tail(queue)
    <3>1. h \in Items /\ r \in Seq(Items) /\ queue = <<h>> \o r
      <4>1. h \in Items /\ r \in Seq(Items) /\ r = SubSeq(queue, 2, Len(queue))
        BY <2>2, HeadTailProperties, TailIsSubSeq DEF TakeFront
      <4>2. Len(queue) \in Nat \ {0} /\ 1 \in 1..Len(queue) /\ Len(queue) \in 1..Len(queue)
        BY <2>2, EmptySeq DEF TakeFront
      <4>3. SubSeq(queue, 1, Len(queue)) = <<queue[1]>> \o SubSeq(queue, 1+1, Len(queue))
        BY <4>2, SubSeqRecursiveFirst
      <4>4. SubSeq(queue, 1, Len(queue)) = queue
        BY SubSeqFull
      <4> QED BY <4>1, <4>3, <4>4
    <3>2. taken' = taken \o <<h>> /\ queue' = r /\ pushed' = pushed
      BY <2>2, <3>1, AppendIsConcat DEF TakeFront
    <3>3. (taken \o <<h>>) \o r = taken \o (<<h>> \o r)
      BY <3>1, ConcatAssociative
    <3> QED BY <3>1, <3>2, <3>3
  <2>3. ASSUME NEW t \in Threads,
               NotifyOne(t) \/ WaitAndPop(t) \/ Block(t) \/ SpuriousWakeup(t)
        PROVE  Fifo'
    BY <2>3 DEF NotifyOne, WaitAndPop, Block, SpuriousWakeup
  <2>4. CASE UNCHANGED qvars
    BY <2>4 DEF qvars
  <2> QED BY <2>1, <2>2, <2>3, <2>4 DEF QNext, PopFront, TryAndPop
<1> QED BY <1>1, <1>2, QTypeCorrect, PTL DEF QSafeSpec

--------------------------------------------------------------------------------
(* The queue grows by one element with a push and shrinks by one with a pop.   *)
LEMMA LenOfQueue ==
  ASSUME QTypeOK
  PROVE  /\ Len(queue) \in Nat
         /\ \A t \in Threads, i \in Items : Push(t, i) => Len(queue') = Len(queue) + 1
         /\ TakeFront => Len(queue') = Len(queue) - 1
<1>1. Len(queue) \in Nat
  BY LenProperties DEF QTypeOK
<1>2. ASSUME NEW t \in Threads, NEW i \in Items, Push(t, i)
      PROVE  Len(queue') = Len(queue) + 1
  BY <1>2, AppendProperties DEF QTypeOK, Push
<1>3. ASSUME TakeFront PROVE Len(queue') = Len(queue) - 1
  BY <1>3, HeadTailProperties DEF QTypeOK, TakeFront
<1> QED BY <1>1, <1>2, <1>3

(* The threads on their way to the queue are finitely many, so that they can   *)
(* be counted.                                                                 *)
LEMMA OnTheirWayFinite ==
  IsFiniteSet(OnTheirWay) /\ Cardinality(OnTheirWay) \in Nat
<1>1. OnTheirWay \subseteq Threads
  BY DEF OnTheirWay, At
<1> QED BY <1>1, ThreadsFinite, FS_Subset, FS_CardinalityType

(* shared_queue::push calls notify_one after it has left the mutex; even so no *)
(* element is left behind while a thread sleeps in wait_and_pop.  Each action  *)
(* moves at most one thread to or from the set of threads on their way.        *)
THEOREM NoLostWakeup == QSafeSpec => []WakeupsCoverItems
<1>1. QInit => WakeupsCoverItems
  BY DEF QInit, WakeupsCoverItems, At
<1>2. QTypeOK /\ QTypeOK' /\ WakeupsCoverItems /\ [QNext]_qvars => WakeupsCoverItems'
  <2> SUFFICES ASSUME QTypeOK, QTypeOK', WakeupsCoverItems, [QNext]_qvars,
                      At("wait")' # {}
               PROVE  Len(queue') <= Cardinality(OnTheirWay')
    BY DEF WakeupsCoverItems
  <2> DEFINE onWay == OnTheirWay
             onWay2 == OnTheirWay'
  <2>0. /\ IsFiniteSet(onWay) /\ Cardinality(onWay) \in Nat
        /\ IsFiniteSet(onWay2) /\ Cardinality(onWay2) \in Nat
        /\ Len(queue) \in Nat /\ Len(queue') \in Nat
    <3>1. IsFiniteSet(onWay2) /\ Cardinality(onWay2) \in Nat
      <4>1. onWay2 \subseteq Threads
        BY DEF OnTheirWay, At
      <4> QED BY <4>1, ThreadsFinite, FS_Subset, FS_CardinalityType
    <3>2. Len(queue') \in Nat
      BY LenProperties DEF QTypeOK
    <3> QED BY <3>1, <3>2, OnTheirWayFinite, LenOfQueue
  <2>1. ASSUME NEW t \in Threads, NEW i \in Items, Push(t, i)
        PROVE  Len(queue') <= Cardinality(onWay2)
    <3>1. At("wait") # {} /\ t \notin onWay /\ onWay2 = onWay \cup {t}
      BY <2>1 DEF Push, Goto, At, OnTheirWay, QTypeOK
    <3>2. Cardinality(onWay2) = Cardinality(onWay) + 1
      BY <2>0, <3>1, FS_AddElement
    <3>3. Len(queue') = Len(queue) + 1
      BY <2>1, LenOfQueue
    <3> QED BY <2>0, <3>1, <3>2, <3>3 DEF WakeupsCoverItems
  <2>2. ASSUME NEW t \in Threads, NotifyOne(t)
        PROVE  Len(queue') <= Cardinality(onWay2)
    <3>1. CASE At("wait") = {}
      BY <2>2, <3>1 DEF NotifyOne, At, QTypeOK
    <3>2. CASE At("wait") # {}
      <4>1. PICK w \in At("wait") : pc' = [pc EXCEPT ![t] = "idle", ![w] = "pop"]
        BY <2>2, <3>2 DEF NotifyOne
      <4>2. /\ t \in onWay /\ w \notin onWay
            /\ onWay2 = (onWay \ {t}) \cup {w}
        BY <2>2, <4>1 DEF NotifyOne, At, OnTheirWay, QTypeOK
      <4>3. /\ IsFiniteSet(onWay \ {t})
            /\ Cardinality(onWay \ {t}) = Cardinality(onWay) - 1
        BY <2>0, <4>2, FS_RemoveElement
      <4>4. Cardinality((onWay \ {t}) \cup {w}) = Cardinality(onWay \ {t}) + 1
        BY <4>2, <4>3, FS_AddElement
      <4>5. Cardinality(onWay2) = Cardinality(onWay)
        BY <2>0, <4>2, <4>3, <4>4
      <4> QED BY <2>2, <2>0, <3>2, <4>5 DEF NotifyOne, WakeupsCoverItems
    <3> QED BY <3>1, <3>2
  <2>3. ASSUME NEW t \in Threads, PopFront(t)
        PROVE  Len(queue') <= Cardinality(onWay2)
    <3>1. At("wait") # {} /\ t \in onWay /\ onWay2 = onWay \ {t}
      BY <2>3 DEF PopFront, Goto, At, OnTheirWay, QTypeOK
    <3>2. Cardinality(onWay2) = Cardinality(onWay) - 1
      BY <2>0, <3>1, FS_RemoveElement
    <3>3. Len(queue') = Len(queue) - 1
      BY <2>3, LenOfQueue DEF PopFront
    <3> QED BY <2>0, <3>1, <3>2, <3>3 DEF WakeupsCoverItems
  <2>4. ASSUME NEW t \in Threads, TryAndPop(t)
        PROVE  Len(queue') <= Cardinality(onWay2)
    <3>1. At("wait") # {} /\ onWay2 = onWay
      BY <2>4 DEF TryAndPop, At, OnTheirWay
    <3>2. Len(queue') = Len(queue) - 1
      BY <2>4, LenOfQueue DEF TryAndPop
    <3> QED BY <2>0, <3>1, <3>2 DEF WakeupsCoverItems
  <2>5. ASSUME NEW t \in Threads, Block(t)
        PROVE  Len(queue') <= Cardinality(onWay2)
    <3>1. Len(queue') = 0
      BY <2>5, EmptySeq DEF Block
    <3> QED BY <2>0, <3>1
  <2>6. ASSUME NEW t \in Threads, WaitAndPop(t) \/ SpuriousWakeup(t)
        PROVE  Len(queue') <= Cardinality(onWay2)
    <3>1. At("wait") # {} /\ t \notin onWay /\ onWay2 = onWay \cup {t}
      BY <2>6 DEF WaitAndPop, SpuriousWakeup, Goto, At, OnTheirWay, QTypeOK
    <3>2. Cardinality(onWay2) = Cardinality(onWay) + 1
      BY <2>0, <3>1, FS_AddElement
    <3>3. queue' = queue
      BY <2>6 DEF WaitAndPop, SpuriousWakeup
    <3> QED BY <2>0, <3>1, <3>2, <3>3 DEF WakeupsCoverItems
  <2>7. CASE UNCHANGED qvars
    <3>1. queue' = queue /\ pc' = pc
      BY <2>7 DEF qvars
    <3>2. At("wait") # {} /\ onWay2 = onWay
      BY <3>1 DEF At, OnTheirWay
    <3> QED BY <3>1, <3>2 DEF WakeupsCoverItems
  <2> QED BY <2>1, <2>2, <2>3, <2>4, <2>5, <2>6, <2>7 DEF QNext
<1> QED BY <1>1, <1>2, QTypeCorrect, PTL DEF QSafeSpec

--------------------------------------------------------------------------------
(* The active object *)

(* Every step of Active is a step of its shared_queue or leaves it alone.      *)
LEMMA StepsOfTheQueue == [Next]_vars => [QNext]_qvars
<1> SUFFICES ASSUME [Next]_vars PROVE [QNext]_qvars
  OBVIOUS
<1> USE ActiveAssumption
<1>1. ASSUME NEW t \in Threads, Notify(t) \/ \E i \in Tasks : Send(t, i)
      PROVE  [QNext]_qvars
  BY <1>1 DEF Notify, Send, Tasks, QNext
<1>2. CASE WorkerStep \/ Wake
  BY <1>2 DEF WorkerStep, LoopTest, Sleep, TakeTask, RunTask, RunDone, Wake, QNext
<1>3. CASE Destroy \/ Join \/ DestroyQueue
  BY <1>3 DEF Destroy, Join, DestroyQueue, QNext
<1>4. CASE UNCHANGED vars
  BY <1>4 DEF vars
<1> QED BY <1>1, <1>2, <1>3, <1>4 DEF Next

(* Active uses its queue only through shared_queue's operations, so what is    *)
(* proved of the queue holds of every active object: FIFO and no lost wakeup.  *)
THEOREM QueueOfActive == SafeSpec => [](QTypeOK /\ Fifo /\ WakeupsCoverItems)
<1>1. SafeSpec => QSafeSpec
  <2>1. Init => QInit
    BY DEF Init
  <2> QED BY <2>1, StepsOfTheQueue, PTL DEF SafeSpec, QSafeSpec
<1> QED BY <1>1, QTypeCorrect, FifoHolds, NoLostWakeup, PTL

(* The worker's task in hand, done_, the destructor's progress and the futures *)
(* keep their types in every reachable state.                                  *)
THEOREM TypeCorrect == SafeSpec => []TypeOK
<1>1. Init => TypeOK
  BY EmptySeq, ActiveAssumption DEF Init, QInit, TypeOK, QTypeOK, PCs
<1>2. TypeOK /\ QTypeOK' /\ [Next]_vars => TypeOK'
  <2> SUFFICES ASSUME TypeOK, QTypeOK', [Next]_vars PROVE TypeOK'
    OBVIOUS
  <2> USE ActiveAssumption DEF TypeOK
  <2>1. ASSUME NEW t \in Threads, NEW i \in Tasks, Send(t, i) PROVE TypeOK'
    BY <2>1 DEF Send
  <2>2. ASSUME NEW t \in Threads, Notify(t) PROVE TypeOK'
    BY <2>2 DEF Notify
  <2>3. CASE TakeTask
    <3>1. Head(queue) \in Items
      BY <2>3, HeadTailProperties DEF TakeTask, PopFront, TakeFront, QTypeOK
    <3> QED BY <2>3, <3>1 DEF TakeTask
  <2>4. CASE LoopTest \/ Sleep \/ Wake
    BY <2>4 DEF LoopTest, Sleep, Wake
  <2>5. CASE RunTask \/ RunDone
    BY <2>5 DEF RunTask, RunDone
  <2>6. CASE Destroy \/ Join
    BY <2>6 DEF Destroy, Join
  <2>7. CASE DestroyQueue
    BY <2>7 DEF DestroyQueue
  <2>8. CASE UNCHANGED vars
    BY <2>8 DEF vars
  <2> QED BY <2>1, <2>2, <2>3, <2>4, <2>5, <2>6, <2>7, <2>8 DEF Next, WorkerStep
<1> QED BY <1>1, <1>2, QueueOfActive, PTL DEF SafeSpec

--------------------------------------------------------------------------------
(* What a push does to the sequence of pushes.                                 *)
LEMMA PushExtends ==
  ASSUME QTypeOK, NEW t, NEW i \in Items, Push(t, i)
  PROVE  /\ Len(pushed') = Len(pushed) + 1
         /\ pushed'[Len(pushed) + 1] = i
         /\ \A n \in 1..Len(pushed) : pushed'[n] = pushed[n]
         /\ Range(pushed') = Range(pushed) \cup {i}
<1>1. /\ Len(pushed') = Len(pushed) + 1
      /\ pushed'[Len(pushed) + 1] = i
      /\ \A n \in 1..Len(pushed) : pushed'[n] = pushed[n]
      /\ DOMAIN pushed' = 1..(Len(pushed) + 1)
      /\ DOMAIN pushed = 1..Len(pushed)
      /\ Len(pushed) \in Nat
  BY AppendProperties, LenProperties DEF QTypeOK, Push
<1> QED BY <1>1 DEF Range

(* What was taken is the beginning of what was pushed, the queue the rest.     *)
LEMMA TakenThenQueued ==
  ASSUME QTypeOK, Fifo
  PROVE  /\ Len(taken) \in Nat /\ Len(queue) \in Nat
         /\ Len(pushed) = Len(taken) + Len(queue)
         /\ \A n \in 1..Len(taken) : taken[n] = pushed[n]
         /\ \A n \in (Len(taken) + 1)..Len(pushed) : pushed[n] = queue[n - Len(taken)]
         /\ \A j \in 1..Len(queue) : /\ Len(taken) + j \in 1..Len(pushed)
                                     /\ pushed[Len(taken) + j] = queue[j]
<1>1. /\ Len(taken) \in Nat /\ Len(queue) \in Nat
      /\ Len(pushed) = Len(taken) + Len(queue)
      /\ \A n \in 1..Len(taken) : taken[n] = pushed[n]
      /\ \A n \in (Len(taken) + 1)..Len(pushed) : pushed[n] = queue[n - Len(taken)]
  BY ConcatProperties, LenProperties DEF QTypeOK, Fifo
<1>2. ASSUME NEW j \in 1..Len(queue)
      PROVE  /\ Len(taken) + j \in 1..Len(pushed)
             /\ pushed[Len(taken) + j] = queue[j]
  <2>1. Len(taken) + j \in (Len(taken) + 1)..Len(pushed)
    BY <1>1
  <2>2. pushed[Len(taken) + j] = queue[(Len(taken) + j) - Len(taken)]
    BY <1>1, <2>1
  <2>3. (Len(taken) + j) - Len(taken) = j
    BY <1>1
  <2> QED BY <1>1, <2>1, <2>2, <2>3
<1> QED BY <1>1, <1>2

(* A pop moves the cursor by one and returns the element it passes.            *)
LEMMA TakeFrontAdvances ==
  ASSUME QTypeOK, Fifo, TakeFront
  PROVE  /\ Len(taken') = Len(taken) + 1
         /\ taken'[Len(taken')] = Head(queue)
         /\ Len(taken) + 1 \in 1..Len(pushed)
         /\ Head(queue) = pushed[Len(taken) + 1]
         /\ Head(queue) \in Items
<1>1. Head(queue) \in Items /\ Len(queue) \in Nat \ {0} /\ Head(queue) = queue[1]
  BY HeadTailProperties, EmptySeq DEF QTypeOK, TakeFront
<1>2. Len(taken') = Len(taken) + 1 /\ taken'[Len(taken) + 1] = Head(queue)
  BY <1>1, AppendProperties DEF QTypeOK, TakeFront
<1> QED BY <1>1, <1>2, TakenThenQueued

--------------------------------------------------------------------------------
(* The cursor of the finished tasks stays within what was pushed.              *)
LEMMA FinishedBounds ==
  ASSUME TypeOK, Fifo, InHandIsLastTaken
  PROVE  /\ Len(taken) \in Nat /\ Len(queue) \in Nat /\ Len(pushed) \in Nat
         /\ Len(taken) <= Len(pushed)
         /\ Finished \in 0..Len(taken)
         /\ func = NoTask => Finished = Len(taken)
         /\ func # NoTask => /\ Finished = Len(taken) - 1
                             /\ Len(taken) \in 1..Len(pushed)
                             /\ func = pushed[Len(taken)]
<1>1. Len(taken) \in Nat /\ Len(queue) \in Nat /\ Len(pushed) = Len(taken) + Len(queue)
  BY TakenThenQueued DEF TypeOK
<1>2. ASSUME func # NoTask
      PROVE  Len(taken) \in 1..Len(pushed) /\ func = pushed[Len(taken)]
  <2>1. Len(taken) # 0 /\ func = taken[Len(taken)]
    BY <1>2, EmptySeq DEF InHandIsLastTaken, TypeOK, QTypeOK
  <2> QED BY <1>1, <2>1, TakenThenQueued DEF TypeOK
<1> QED BY <1>1, <1>2 DEF Finished

(* A push appends an element that is neither taken nor finished.               *)
LEMMA SendPreserves ==
  ASSUME ActiveInv, TypeOK, Fifo, NEW t \in Threads, NEW i \in Tasks, Send(t, i)
  PROVE  ActiveInv'
<1> DEFINE N == Len(pushed)
<1>1. /\ Push(t, i) /\ i \in Items /\ i # Done /\ i \notin Range(pushed)
      /\ taken' = taken /\ func' = func /\ done' = done /\ life' = life
      /\ future' = [future EXCEPT ![i] = "pending"] /\ life # "destroyed"
      /\ pc[t] = "idle" /\ pc' = [pc EXCEPT ![t] = "notify"]
      /\ t = Worker => func # NoTask
  BY DEF Send, MayCall, Push, Goto, Tasks
<1>2. /\ N \in Nat /\ Finished \in 0..N /\ Finished' = Finished
      /\ Len(pushed') = N + 1 /\ pushed'[N + 1] = i
      /\ \A n \in 1..N : pushed'[n] = pushed[n]
      /\ Range(pushed') = Range(pushed) \cup {i}
      /\ DOMAIN pushed = 1..N /\ DOMAIN pushed' = 1..(N + 1)
  <2>1. Finished' = Finished
    BY <1>1 DEF Finished
  <2>2. DOMAIN pushed = 1..N /\ pushed' \in Seq(Items)
    BY <1>1, AppendProperties, LenProperties DEF Push, TypeOK, QTypeOK
  <2> QED BY <1>1, <2>1, <2>2, PushExtends, FinishedBounds, LenProperties DEF TypeOK, ActiveInv
<1>3. \A n \in 1..N : pushed[n] \in Range(pushed) /\ pushed[n] # i
  BY <1>1, <1>2 DEF Range
<1>4. IsInjective(pushed)'
  BY <1>2, <1>3 DEF ActiveInv, IsInjective
<1>5. InHandIsLastTaken'
  BY <1>1 DEF ActiveInv, InHandIsLastTaken
<1>6. WorkerWaitsEmptyHanded'
  BY <1>1, ActiveAssumption DEF ActiveInv, WorkerWaitsEmptyHanded, TypeOK, QTypeOK
<1>7. RunExactlyTheFinished'
  <2> SUFFICES ASSUME NEW n \in 1..(N + 1), pushed'[n] \in Tasks
               PROVE  /\ future'[pushed'[n]] # "none"
                      /\ future'[pushed'[n]] = "ready" <=> n <= Finished
    BY <1>2 DEF RunExactlyTheFinished, HasRun
  <2>1. CASE n = N + 1
    BY <1>1, <1>2, <2>1 DEF TypeOK
  <2>2. CASE n \in 1..N
    BY <1>1, <1>2, <1>3, <2>2 DEF ActiveInv, RunExactlyTheFinished, HasRun, TypeOK
  <2> QED BY <1>2, <2>1, <2>2
<1>8. DoneIsTheLastTaken'
  <2>1. CASE done
    BY <1>1, <2>1 DEF ActiveInv, DoneIsTheLastTaken, ThreadEnded, TypeOK, QTypeOK
  <2>2. CASE ~done
    BY <1>1, <1>2, <2>2 DEF ActiveInv, DoneIsTheLastTaken
  <2> QED BY <2>1, <2>2
<1>9. OnlyTheDestructorSendsDone'
  BY <1>1, <1>2 DEF ActiveInv, OnlyTheDestructorSendsDone
<1>10. BrokenOnlyByDestruction'
  BY <1>1 DEF ActiveInv, BrokenOnlyByDestruction, TypeOK
<1>11. OnlySentTasksHaveFutures'
  BY <1>1, <1>2 DEF ActiveInv, OnlySentTasksHaveFutures, TypeOK
<1> QED BY <1>4, <1>5, <1>6, <1>7, <1>8, <1>9, <1>10, <1>11 DEF ActiveInv

(* The destructor's push: as above, for an element that is not a task.         *)
LEMMA DestroyPreserves ==
  ASSUME ActiveInv, TypeOK, Fifo, Destroy
  PROVE  ActiveInv'
<1> DEFINE N == Len(pushed)
<1>1. /\ Push(Owner, Done) /\ Done \in Items /\ Done \notin Tasks /\ Done \notin Range(pushed)
      /\ taken' = taken /\ func' = func /\ done' = done /\ future' = future
      /\ life = "alive" /\ life' = "stopping"
      /\ pc' = [pc EXCEPT ![Owner] = "notify"] /\ Owner # Worker
  BY ActiveAssumption DEF Destroy, Push, Goto, Tasks
<1>2. /\ N \in Nat /\ Finished \in 0..N /\ Finished' = Finished
      /\ Len(pushed') = N + 1 /\ pushed'[N + 1] = Done
      /\ \A n \in 1..N : pushed'[n] = pushed[n]
      /\ Range(pushed') = Range(pushed) \cup {Done}
      /\ DOMAIN pushed = 1..N /\ DOMAIN pushed' = 1..(N + 1)
  <2>1. Finished' = Finished
    BY <1>1 DEF Finished
  <2>2. DOMAIN pushed = 1..N /\ pushed' \in Seq(Items)
    BY <1>1, AppendProperties, LenProperties DEF Push, TypeOK, QTypeOK
  <2> QED BY <1>1, <2>1, <2>2, PushExtends, FinishedBounds, LenProperties DEF TypeOK, ActiveInv
<1>3. \A n \in 1..N : pushed[n] # Done
  BY <1>1, <1>2 DEF Range
<1>4. IsInjective(pushed)'
  BY <1>2, <1>3 DEF ActiveInv, IsInjective
<1>5. InHandIsLastTaken' /\ OnlyTheDestructorSendsDone'
  BY <1>1 DEF ActiveInv, InHandIsLastTaken, OnlyTheDestructorSendsDone
<1>6. WorkerWaitsEmptyHanded'
  BY <1>1, ActiveAssumption DEF ActiveInv, WorkerWaitsEmptyHanded, TypeOK, QTypeOK
<1>7. RunExactlyTheFinished'
  <2> SUFFICES ASSUME NEW n \in 1..(N + 1), pushed'[n] \in Tasks
               PROVE  /\ future[pushed'[n]] # "none"
                      /\ future[pushed'[n]] = "ready" <=> n <= Finished
    BY <1>1, <1>2 DEF RunExactlyTheFinished, HasRun
  <2>1. n \in 1..N
    BY <1>1, <1>2
  <2> QED BY <1>2, <2>1 DEF ActiveInv, RunExactlyTheFinished, HasRun
<1>8. DoneIsTheLastTaken'
  <2>1. CASE done
    BY <1>1, <2>1, ActiveAssumption DEF ActiveInv, DoneIsTheLastTaken, ThreadEnded, TypeOK, QTypeOK
  <2>2. CASE ~done
    BY <1>1, <1>2, <2>2 DEF ActiveInv, DoneIsTheLastTaken
  <2> QED BY <2>1, <2>2
<1>9. BrokenOnlyByDestruction'
  BY <1>1 DEF ActiveInv, BrokenOnlyByDestruction
<1>10. OnlySentTasksHaveFutures'
  BY <1>1, <1>2 DEF ActiveInv, OnlySentTasksHaveFutures
<1> QED BY <1>4, <1>5, <1>6, <1>7, <1>8, <1>9, <1>10 DEF ActiveInv

(* Steps that only move threads along leave the cursors and the futures alone. *)
LEMMA MovesPreserve ==
  ASSUME ActiveInv, TypeOK,
         (\E t \in Threads : Notify(t)) \/ LoopTest \/ Sleep \/ Wake
  PROVE  ActiveInv'
<1>1. UNCHANGED <<pushed, taken, func, done, life, future>>
  BY DEF Notify, NotifyOne, LoopTest, WaitAndPop, Sleep, Block, Wake, SpuriousWakeup
<1>2. /\ pc'[Worker] \in {"pop", "wait"} => func = NoTask
      /\ done => pc'[Worker] = "idle"
  <2>1. pc \in [Threads -> PCs] /\ Worker \in Threads
    BY ActiveAssumption DEF TypeOK, QTypeOK
  <2>2. /\ pc[Worker] \in {"pop", "wait"} => func = NoTask
        /\ done => pc[Worker] = "idle"
    BY DEF ActiveInv, WorkerWaitsEmptyHanded, DoneIsTheLastTaken
  <2>3. ASSUME NEW t \in Threads, Notify(t)
        PROVE  /\ pc'[Worker] \in {"pop", "wait"} => func = NoTask
               /\ done => pc'[Worker] = "idle"
    BY <2>1, <2>2, <2>3 DEF Notify, NotifyOne, At
  <2>4. ASSUME LoopTest \/ Sleep \/ Wake
        PROVE  /\ pc'[Worker] \in {"pop", "wait"} => func = NoTask
               /\ done => pc'[Worker] = "idle"
    BY <2>1, <2>2, <2>4
       DEF LoopTest, WaitAndPop, Sleep, Block, Wake, SpuriousWakeup, Goto
  <2> QED BY <2>3, <2>4
<1>3. DoneIsTheLastTaken'
  BY <1>1, <1>2 DEF ActiveInv, DoneIsTheLastTaken, ThreadEnded, Finished
<1>4. WorkerWaitsEmptyHanded'
  BY <1>1, <1>2 DEF WorkerWaitsEmptyHanded
<1>5. RunExactlyTheFinished'
  BY <1>1 DEF ActiveInv, RunExactlyTheFinished, HasRun, Finished
<1>6. IsInjective(pushed)' /\ InHandIsLastTaken' /\ OnlyTheDestructorSendsDone'
  BY <1>1 DEF ActiveInv, InHandIsLastTaken, OnlyTheDestructorSendsDone
<1>7. BrokenOnlyByDestruction' /\ OnlySentTasksHaveFutures'
  BY <1>1 DEF ActiveInv, BrokenOnlyByDestruction, OnlySentTasksHaveFutures
<1> QED BY <1>3, <1>4, <1>5, <1>6, <1>7 DEF ActiveInv

(* The worker takes the next task: what has run stays what it was.             *)
LEMMA TakePreserves ==
  ASSUME ActiveInv, TypeOK, Fifo, TakeTask
  PROVE  ActiveInv'
<1>1. /\ TakeFront /\ pc[Worker] = "pop" /\ pc' = [pc EXCEPT ![Worker] = "idle"]
      /\ func' = Head(queue) /\ UNCHANGED <<pushed, done, life, future>>
  BY DEF TakeTask, PopFront, Goto, TakeFront
<1>2. /\ func = NoTask /\ ~done
  BY <1>1 DEF ActiveInv, WorkerWaitsEmptyHanded, DoneIsTheLastTaken
<1>3. /\ Len(taken) \in Nat /\ Finished = Len(taken)
      /\ Len(taken') = Len(taken) + 1 /\ func' # NoTask
      /\ taken'[Len(taken')] = func'
  BY <1>1, <1>2, TakeFrontAdvances, FinishedBounds, ActiveAssumption DEF ActiveInv, TypeOK
<1>4. Finished' = Finished
  BY <1>3 DEF Finished
<1>5. InHandIsLastTaken'
  BY <1>3 DEF InHandIsLastTaken
<1>6. WorkerWaitsEmptyHanded'
  BY <1>1, ActiveAssumption DEF WorkerWaitsEmptyHanded, TypeOK, QTypeOK
<1>7. RunExactlyTheFinished'
  BY <1>1, <1>4 DEF ActiveInv, RunExactlyTheFinished, HasRun
<1>8. DoneIsTheLastTaken'
  BY <1>1, <1>2, <1>4 DEF ActiveInv, DoneIsTheLastTaken
<1>9. IsInjective(pushed)' /\ OnlyTheDestructorSendsDone'
  BY <1>1 DEF ActiveInv, OnlyTheDestructorSendsDone
<1>10. BrokenOnlyByDestruction' /\ OnlySentTasksHaveFutures'
  BY <1>1 DEF ActiveInv, BrokenOnlyByDestruction, OnlySentTasksHaveFutures
<1> QED BY <1>5, <1>6, <1>7, <1>8, <1>9, <1>10 DEF ActiveInv

(* A task runs: the cursor of the finished ones moves over it and, the pushes  *)
(* being distinct, over no other element with its future.                      *)
LEMMA RunPreserves ==
  ASSUME ActiveInv, TypeOK, Fifo, RunTask
  PROVE  ActiveInv'
<1> DEFINE K == Len(taken)
<1>1. /\ func \in Tasks /\ func # NoTask /\ func' = NoTask
      /\ pc[Worker] = "idle" /\ UNCHANGED <<pc, pushed, taken, done, life>>
      /\ future' = [future EXCEPT ![func] = "ready"]
  BY ActiveAssumption DEF RunTask, qvars, Tasks
<1>2. ~done /\ life # "destroyed"
  BY <1>1 DEF ActiveInv, DoneIsTheLastTaken, ThreadEnded
<1>3. /\ Len(pushed) \in Nat /\ K \in 1..Len(pushed) /\ func = pushed[K]
      /\ Finished = K - 1 /\ Finished' = K
  BY <1>1, FinishedBounds DEF ActiveInv, Finished
<1>4. \A n \in 1..Len(pushed) : pushed[n] = func <=> n = K
  BY <1>3, LenProperties DEF ActiveInv, IsInjective, TypeOK, QTypeOK
<1>5. RunExactlyTheFinished'
  <2> SUFFICES ASSUME NEW n \in 1..Len(pushed), pushed[n] \in Tasks
               PROVE  /\ future'[pushed[n]] # "none"
                      /\ future'[pushed[n]] = "ready" <=> n <= K
    BY <1>1, <1>3 DEF RunExactlyTheFinished, HasRun
  <2>1. CASE n = K
    BY <1>1, <1>3, <2>1 DEF TypeOK
  <2>2. CASE n # K
    <3>1. future'[pushed[n]] = future[pushed[n]]
      BY <1>1, <1>4, <2>2 DEF TypeOK
    <3> QED BY <1>3, <2>2, <3>1 DEF ActiveInv, RunExactlyTheFinished, HasRun
  <2> QED BY <2>1, <2>2
<1>6. DoneIsTheLastTaken'
  <2>1. pushed[K] # Done
    BY <1>1, <1>3 DEF Tasks
  <2> QED BY <1>1, <1>2, <1>3, <2>1 DEF ActiveInv, DoneIsTheLastTaken
<1>7. InHandIsLastTaken' /\ WorkerWaitsEmptyHanded'
  BY <1>1 DEF InHandIsLastTaken, WorkerWaitsEmptyHanded
<1>8. IsInjective(pushed)' /\ OnlyTheDestructorSendsDone'
  BY <1>1 DEF ActiveInv, OnlyTheDestructorSendsDone
<1>9. BrokenOnlyByDestruction'
  BY <1>1 DEF ActiveInv, BrokenOnlyByDestruction, TypeOK
<1>10. OnlySentTasksHaveFutures'
  <2>1. func \in Range(pushed)
    BY <1>3, LenProperties DEF Range, TypeOK, QTypeOK
  <2> QED BY <1>1, <2>1 DEF ActiveInv, OnlySentTasksHaveFutures, TypeOK
<1> QED BY <1>5, <1>6, <1>7, <1>8, <1>9, <1>10 DEF ActiveInv

(* The destructor's task runs: everything taken has run, and done_ holds the   *)
(* worker back from taking more.                                               *)
LEMMA RunDonePreserves ==
  ASSUME ActiveInv, TypeOK, Fifo, RunDone
  PROVE  ActiveInv'
<1> DEFINE K == Len(taken)
<1>1. /\ func = Done /\ func # NoTask /\ func' = NoTask /\ done'
      /\ pc[Worker] = "idle" /\ UNCHANGED <<pc, pushed, taken, life, future>>
  BY ActiveAssumption DEF RunDone, qvars
<1>2. /\ Len(pushed) \in Nat /\ K \in 1..Len(pushed) /\ func = pushed[K]
      /\ Finished = K - 1 /\ Finished' = K
  BY <1>1, FinishedBounds DEF ActiveInv, Finished
<1>3. taken # <<>> /\ taken[K] = Done
  BY <1>1 DEF ActiveInv, InHandIsLastTaken
<1>4. RunExactlyTheFinished'
  <2> SUFFICES ASSUME NEW n \in 1..Len(pushed), pushed[n] \in Tasks
               PROVE  /\ future[pushed[n]] # "none"
                      /\ future[pushed[n]] = "ready" <=> n <= K
    BY <1>1, <1>2 DEF RunExactlyTheFinished, HasRun
  <2>1. n # K
    BY <1>1, <1>2 DEF Tasks
  <2> QED BY <1>2, <2>1 DEF ActiveInv, RunExactlyTheFinished, HasRun
<1>5. DoneIsTheLastTaken'
  BY <1>1, <1>3 DEF DoneIsTheLastTaken, ThreadEnded
<1>6. InHandIsLastTaken' /\ WorkerWaitsEmptyHanded'
  BY <1>1 DEF InHandIsLastTaken, WorkerWaitsEmptyHanded
<1>7. IsInjective(pushed)' /\ OnlyTheDestructorSendsDone'
  BY <1>1 DEF ActiveInv, OnlyTheDestructorSendsDone
<1>8. BrokenOnlyByDestruction' /\ OnlySentTasksHaveFutures'
  BY <1>1 DEF ActiveInv, BrokenOnlyByDestruction, OnlySentTasksHaveFutures
<1> QED BY <1>4, <1>5, <1>6, <1>7, <1>8 DEF ActiveInv

(* The rest of the destructor: by then the thread has ended, so what is still  *)
(* pending is in the queue and is broken with it.                              *)
LEMMA EndPreserves ==
  ASSUME ActiveInv, TypeOK, Fifo, Join \/ DestroyQueue
  PROVE  ActiveInv'
<1>1. UNCHANGED <<queue, pc, pushed, taken, func, done>> /\ Finished' = Finished
  BY DEF Join, DestroyQueue, qvars, Finished
<1>2. life \in {"stopping", "joined"} /\ life' \in {"joined", "destroyed"} /\ done
  BY DEF Join, DestroyQueue, ThreadEnded, ActiveInv, DoneIsTheLastTaken
<1>3. /\ Len(taken) \in Nat /\ Len(queue) \in Nat /\ Finished = Len(taken)
      /\ Len(pushed) = Len(taken) + Len(queue)
      /\ DOMAIN queue = 1..Len(queue) /\ DOMAIN pushed = 1..Len(pushed)
  BY <1>2, FinishedBounds, TakenThenQueued, LenProperties
     DEF ActiveInv, DoneIsTheLastTaken, ThreadEnded, TypeOK, QTypeOK
<1>4. \A n \in 1..Len(pushed) : pushed[n] \in Range(queue) <=> n > Finished
  <2>1. \A n \in (Len(taken) + 1)..Len(pushed) : pushed[n] = queue[n - Len(taken)]
    BY TakenThenQueued DEF TypeOK
  <2>2. ASSUME NEW n \in 1..Len(pushed), n > Finished PROVE pushed[n] \in Range(queue)
    BY <1>3, <2>1, <2>2 DEF Range
  <2>3. ASSUME NEW n \in 1..Len(pushed), pushed[n] \in Range(queue) PROVE n > Finished
    <3>1. PICK j \in 1..Len(queue) : queue[j] = pushed[n]
      BY <1>3, <2>3 DEF Range
    <3>2. Len(taken) + j \in 1..Len(pushed) /\ pushed[Len(taken) + j] = pushed[n]
      BY <3>1, TakenThenQueued DEF TypeOK
    <3> QED BY <1>3, <3>1, <3>2 DEF ActiveInv, IsInjective
  <2> QED BY <2>2, <2>3
<1>5. ASSUME NEW i \in Tasks
      PROVE  /\ future'[i] = "none" <=> future[i] = "none"
             /\ future'[i] = "ready" <=> future[i] = "ready"
             /\ future'[i] # IF life' = "destroyed" THEN "pending" ELSE "broken"
  <2>1. CASE Join
    BY <1>2, <2>1 DEF Join, ActiveInv, BrokenOnlyByDestruction
  <2>2. CASE DestroyQueue
    <3>1. life' = "destroyed"
          /\ future'[i] = IF i \in Range(queue) THEN "broken" ELSE future[i]
      BY <2>2 DEF DestroyQueue
    <3>2. CASE future[i] = "none"
      <4>1. i \notin Range(queue)
        <5>1. Range(queue) \subseteq {pushed[n] : n \in 1..Len(pushed)}
          <6>1. \A j \in 1..Len(queue) : queue[j] \in {pushed[n] : n \in 1..Len(pushed)}
            BY TakenThenQueued DEF TypeOK
          <6> QED BY <1>3, <6>1 DEF Range
        <5> QED BY <3>2, <5>1 DEF ActiveInv, RunExactlyTheFinished
      <4> QED BY <3>1, <3>2, <4>1
    <3>3. CASE future[i] # "none"
      <4>1. PICK n \in 1..Len(pushed) : pushed[n] = i
        BY <1>3, <3>3 DEF ActiveInv, OnlySentTasksHaveFutures, Range
      <4>2. future[i] = "ready" <=> ~(i \in Range(queue))
        BY <1>3, <1>4, <4>1 DEF ActiveInv, RunExactlyTheFinished, HasRun
      <4> QED BY <3>1, <3>3, <4>2
    <3> QED BY <3>2, <3>3
  <2> QED BY <2>1, <2>2
<1>6. RunExactlyTheFinished'
  BY <1>1, <1>5 DEF ActiveInv, RunExactlyTheFinished, HasRun
<1>7. BrokenOnlyByDestruction'
  BY <1>5 DEF BrokenOnlyByDestruction
<1>8. OnlySentTasksHaveFutures'
  BY <1>1, <1>5 DEF ActiveInv, OnlySentTasksHaveFutures
<1>9. DoneIsTheLastTaken'
  BY <1>1, <1>2 DEF ActiveInv, DoneIsTheLastTaken, ThreadEnded
<1>10. IsInjective(pushed)' /\ InHandIsLastTaken' /\ WorkerWaitsEmptyHanded'
  BY <1>1 DEF ActiveInv, InHandIsLastTaken, WorkerWaitsEmptyHanded
<1>11. OnlyTheDestructorSendsDone'
  BY <1>2 DEF OnlyTheDestructorSendsDone
<1> QED BY <1>6, <1>7, <1>8, <1>9, <1>10, <1>11 DEF ActiveInv

--------------------------------------------------------------------------------
(* The invariant: the worker's cursors cut the pushes into run, in hand and    *)
(* queued, in every reachable state of an active object.                       *)
THEOREM ActiveInvariant == SafeSpec => []ActiveInv
<1>1. Init => ActiveInv
  BY ActiveAssumption
     DEF Init, QInit, ActiveInv, IsInjective, InHandIsLastTaken, WorkerWaitsEmptyHanded,
         RunExactlyTheFinished, DoneIsTheLastTaken, Finished, OnlyTheDestructorSendsDone,
         BrokenOnlyByDestruction, OnlySentTasksHaveFutures, Range
<1>2. TypeOK /\ Fifo /\ ActiveInv /\ [Next]_vars => ActiveInv'
  <2> SUFFICES ASSUME TypeOK, Fifo, ActiveInv, [Next]_vars PROVE ActiveInv'
    OBVIOUS
  <2>1. CASE UNCHANGED vars
    <3>1. UNCHANGED <<queue, pc, pushed, taken, func, done, life, future>>
      BY <2>1 DEF vars, qvars
    <3> QED BY <3>1
      DEF ActiveInv, InHandIsLastTaken, WorkerWaitsEmptyHanded, RunExactlyTheFinished,
          HasRun, DoneIsTheLastTaken, ThreadEnded, Finished, OnlyTheDestructorSendsDone,
          BrokenOnlyByDestruction, OnlySentTasksHaveFutures
  <2> QED BY <2>1, SendPreserves, DestroyPreserves, MovesPreserve, TakePreserves,
             RunPreserves, RunDonePreserves, EndPreserves DEF Next, WorkerStep
<1> QED BY <1>1, <1>2, TypeCorrect, QueueOfActive, PTL DEF SafeSpec

(* Tasks run one by one in the order in which send queued them, and none runs  *)
(* behind the destructor's.                                                    *)
THEOREM RunsInSendOrderHolds == SafeSpec => []RunsInSendOrder
<1>1. TypeOK /\ Fifo /\ ActiveInv => RunsInSendOrder
  <2> SUFFICES ASSUME TypeOK, Fifo, ActiveInv,
                      NEW n \in 1..Len(pushed), NEW m \in 1..(n - 1),
                      pushed[n] \in Tasks, HasRun(pushed[n])
               PROVE  pushed[m] \in Tasks /\ HasRun(pushed[m])
    BY DEF RunsInSendOrder
  <2>1. /\ Len(pushed) \in Nat /\ Len(taken) \in Nat /\ Finished \in 0..Len(taken)
        /\ m \in 1..Len(pushed) /\ m < n /\ n <= Finished
    BY FinishedBounds DEF ActiveInv, RunExactlyTheFinished
  <2>2. pushed[m] \in Items
    BY <2>1, ElementOfSeq DEF TypeOK, QTypeOK
  <2>3. pushed[m] # Done
    <3>1. CASE done
      <4>1. Len(taken) \in 1..Len(pushed) /\ pushed[Len(taken)] = Done
        BY <3>1, <2>1, EmptySeq, TakenThenQueued
           DEF ActiveInv, DoneIsTheLastTaken, TypeOK, QTypeOK
      <4> QED BY <2>1, <4>1, LenProperties DEF ActiveInv, IsInjective, TypeOK, QTypeOK
    <3>2. CASE ~done
      BY <3>2, <2>1 DEF ActiveInv, DoneIsTheLastTaken
    <3> QED BY <3>1, <3>2
  <2> QED BY <2>1, <2>2, <2>3 DEF Tasks, ActiveInv, RunExactlyTheFinished
<1> QED BY <1>1, ActiveInvariant, TypeCorrect, QueueOfActive, PTL

(* When ~Active's join has returned, every task sent before it has run.        *)
THEOREM FlushedAtJoinHolds == SafeSpec => []FlushedAtJoin
<1>1. TypeOK /\ Fifo /\ ActiveInv => FlushedAtJoin
  <2> SUFFICES ASSUME TypeOK, Fifo, ActiveInv, life \in {"joined", "destroyed"},
                      NEW n \in 1..Len(pushed), NEW m \in 1..(n - 1), pushed[n] = Done
               PROVE  HasRun(pushed[m])
    BY DEF FlushedAtJoin
  <2>1. done /\ ThreadEnded
    BY DEF ActiveInv, DoneIsTheLastTaken
  <2>2. /\ Len(pushed) \in Nat /\ Len(taken) \in 1..Len(pushed)
        /\ Finished = Len(taken) /\ pushed[Len(taken)] = Done
    BY <2>1, EmptySeq, FinishedBounds, TakenThenQueued
       DEF ActiveInv, DoneIsTheLastTaken, ThreadEnded, TypeOK, QTypeOK
  <2>3. n = Len(taken) /\ m \in 1..Len(pushed) /\ m < n /\ pushed[m] # Done
    BY <2>2, LenProperties DEF ActiveInv, IsInjective, TypeOK, QTypeOK
  <2>4. pushed[m] \in Tasks
    BY <2>3, ElementOfSeq DEF Tasks, TypeOK, QTypeOK
  <2> QED BY <2>2, <2>3, <2>4 DEF ActiveInv, RunExactlyTheFinished
<1> QED BY <1>1, ActiveInvariant, TypeCorrect, QueueOfActive, PTL

(* After the destruction of an active object no future of its tasks is         *)
(* pending: a waiter in addSink or removeSink is released either way.          *)
THEOREM NoFutureLeftPendingHolds == SafeSpec => []NoFutureLeftPending
<1>1. ActiveInv => NoFutureLeftPending
  BY DEF ActiveInv, BrokenOnlyByDestruction, NoFutureLeftPending
<1> QED BY <1>1, ActiveInvariant, PTL
--------------------------------------------------------------------------------
(* Active implements ActiveObject: sending a task is Submit, the end of a task *)
(* is Run, entering the destructor is Close and leaving it is Return.          *)

(* Once the destructor was entered its task has been sent, and stays. *)
DestructorSentDone == Stopping => Done \in Range(pushed)

(* The destructor's task is pushed before anything can see it is stopping, and *)
(* nothing takes back what was pushed.                                         *)
LEMMA DoneIsSent == SafeSpec => []DestructorSentDone
<1>1. Init => DestructorSentDone
  BY DEF Init, DestructorSentDone, Stopping
<1>2. TypeOK /\ DestructorSentDone /\ [Next]_vars => DestructorSentDone'
  <2> SUFFICES ASSUME TypeOK, DestructorSentDone, [Next]_vars PROVE DestructorSentDone'
    OBVIOUS
  <2> USE DEF DestructorSentDone, Stopping
  <2>1. ASSUME NEW t \in Threads, NEW i \in Tasks, Send(t, i) PROVE DestructorSentDone'
    BY <2>1, PushExtends DEF Send, Tasks, TypeOK
  <2>2. CASE Destroy
    BY <2>2, PushExtends, ActiveAssumption DEF Destroy, TypeOK
  <2>3. ASSUME NEW t \in Threads, Notify(t) PROVE DestructorSentDone'
    BY <2>3 DEF Notify, NotifyOne
  <2>4. CASE LoopTest \/ Sleep \/ Wake \/ TakeTask
    BY <2>4 DEF LoopTest, Sleep, Wake, TakeTask, WaitAndPop, Block, SpuriousWakeup, PopFront,
                TakeFront
  <2>5. CASE RunTask \/ RunDone
    BY <2>5 DEF RunTask, RunDone, qvars
  <2>6. CASE Join \/ DestroyQueue
    BY <2>6 DEF Join, DestroyQueue, qvars
  <2>7. CASE UNCHANGED vars
    BY <2>7 DEF vars, qvars
  <2> QED BY <2>1, <2>2, <2>3, <2>4, <2>5, <2>6, <2>7 DEF Next, WorkerStep
<1> QED BY <1>1, <1>2, TypeCorrect, PTL DEF SafeSpec

(* The destructor's task is at one place. *)
LEMMA DoneIsAtOnePlace ==
  ASSUME NEW p \in Seq(Items), IsInjective(p), NEW n \in 1..Len(p), p[n] = Done
  PROVE  PlaceOfDone(p) = n
<1>1. \A m \in 1..Len(p) : p[m] = Done => m = n
  BY LenProperties DEF IsInjective
<1> QED BY <1>1 DEF PlaceOfDone

(* Where the accepted tasks end. *)
LEMMA AcceptedBounds ==
  ASSUME TypeOK, ActiveInv, DestructorSentDone
  PROVE  /\ Len(pushed) \in Nat /\ Accepted \in 0..Len(pushed)
         /\ ~Stopping => Accepted = Len(pushed)
         /\ Stopping => Accepted + 1 \in 1..Len(pushed) /\ pushed[Accepted + 1] = Done
         /\ accepted = [n \in 1..Accepted |-> pushed[n]]
         /\ Len(accepted) = Accepted
<1>1. Len(pushed) \in Nat /\ DOMAIN pushed = 1..Len(pushed) /\ pushed \in Seq(Items)
  BY LenProperties DEF TypeOK, QTypeOK
<1>2. ASSUME Stopping
      PROVE  /\ Accepted \in 0..Len(pushed) /\ Accepted + 1 \in 1..Len(pushed)
             /\ pushed[Accepted + 1] = Done
  <2>1. PICK n \in 1..Len(pushed) : pushed[n] = Done
    BY <1>1, <1>2 DEF DestructorSentDone, Range
  <2>2. Accepted = n - 1
    BY <1>1, <1>2, <2>1, DoneIsAtOnePlace DEF Accepted, ActiveInv
  <2> QED BY <1>1, <2>1, <2>2
<1>3. ~Stopping => Accepted = Len(pushed)
  BY DEF Accepted
<1>4. Accepted \in 0..Len(pushed)
  BY <1>1, <1>2, <1>3
<1>5. accepted = [n \in 1..Accepted |-> pushed[n]]
  BY <1>1, <1>4 DEF accepted
<1>6. Len(accepted) = Accepted
  BY <1>1, <1>4, <1>5
<1> QED BY <1>1, <1>2, <1>3, <1>4, <1>5, <1>6

(* A task that is sent joins the accepted ones, or the late ones. *)
LEMMA SendIsSubmit ==
  ASSUME TypeOK, Fifo, ActiveInv, ActiveInv', TypeOK', DestructorSentDone,
         NEW t \in Threads, NEW i \in Tasks, Send(t, i)
  PROVE  AO!Submit(i)
<1>1. /\ pushed' = Append(pushed, i) /\ i \notin Range(pushed) /\ Push(t, i) /\ life # "destroyed"
      /\ UNCHANGED <<taken, func, life>>
  BY DEF Send, MayCall, Push
<1>2. /\ Len(pushed') = Len(pushed) + 1 /\ pushed'[Len(pushed) + 1] = i
      /\ \A n \in 1..Len(pushed) : pushed'[n] = pushed[n]
  BY <1>1, PushExtends DEF Tasks, TypeOK
<1>3. /\ Len(pushed) \in Nat /\ Accepted \in 0..Len(pushed) /\ Len(accepted) = Accepted
      /\ accepted = [n \in 1..Accepted |-> pushed[n]]
  BY AcceptedBounds
<1>4. Finished' = Finished /\ Finished \in 0..Len(pushed)
  BY <1>1, <1>3, FinishedBounds DEF Finished, ActiveInv
<1>5. state' = state /\ state \in {"open", "closing"} /\ (state = "open" <=> ~Stopping)
  BY <1>1 DEF state, Stopping, TypeOK
<1>6. DOMAIN pushed = 1..Len(pushed) /\ pushed \in Seq(Items) /\ pushed' \in Seq(Items)
  BY LenProperties DEF TypeOK, QTypeOK
<1>7. i \notin Range(accepted) \cup late
  <2>1. \A n \in 1..Len(pushed) : pushed[n] # i
    BY <1>1, <1>6 DEF Range
  <2>2. i \notin late
    BY <1>3, <2>1 DEF late
  <2>3. i \notin Range(accepted)
    BY <1>3, <2>1 DEF Range
  <2> QED BY <2>2, <2>3
<1>8. CASE ~Stopping
  <2>1. Accepted = Len(pushed) /\ Accepted' = Len(pushed) + 1
    BY <1>1, <1>2, <1>8 DEF Accepted, Stopping
  <2>2. accepted = pushed /\ accepted' = pushed'
    BY <1>2, <1>3, <1>6, <2>1, SubSeqFull DEF accepted
  <2>3. late = {} /\ late' = {}
    BY <1>2, <1>3, <2>1 DEF late
  <2>4. ran' = ran
    BY <1>3, <1>4, <2>1 DEF ran
  <2> QED BY <1>1, <1>5, <1>7, <1>8, <2>2, <2>3, <2>4 DEF AO!Submit, AO!Range, Range
<1>9. CASE Stopping
  <2>1. Accepted + 1 \in 1..Len(pushed) /\ pushed[Accepted + 1] = Done
    BY <1>9, AcceptedBounds
  <2>2. Accepted + 1 \in 1..Len(pushed') /\ pushed'[Accepted + 1] = Done
    BY <1>2, <1>3, <2>1
  <2>3. PlaceOfDone(pushed') = Accepted + 1
    BY <1>6, <2>2, DoneIsAtOnePlace DEF ActiveInv
  <2>4. Stopping'
    BY <1>1, <1>9 DEF Stopping
  <2>5. Accepted' = Accepted
    BY <1>3, <2>3, <2>4 DEF Accepted
  <2>6. accepted' = accepted
    BY <1>2, <1>3, <2>5 DEF accepted
  <2>7. late' = late \cup {i}
    BY <1>2, <1>3, <2>1, <2>5 DEF late
  <2>8. ran' = ran
    BY <1>4, <2>5 DEF ran
  <2> QED BY <1>5, <1>7, <1>9, <2>6, <2>7, <2>8 DEF AO!Submit, AO!Range, Range
<1> QED BY <1>8, <1>9

(* The end of a task is a run, unless it was sent behind the destructor's. *)
LEMMA EndOfTaskIsRun ==
  ASSUME TypeOK, Fifo, ActiveInv, DestructorSentDone, RunTask \/ RunDone
  PROVE  AO!Run \/ UNCHANGED AO!avars
<1>1. UNCHANGED <<pushed, taken, life>> /\ func # NoTask /\ func' = NoTask
  BY ActiveAssumption DEF RunTask, RunDone, qvars, Tasks
<1>2. Accepted' = Accepted /\ accepted' = accepted /\ late' = late /\ state' = state
  BY <1>1 DEF Accepted, accepted, late, state, Stopping
<1>3. Finished' = Finished + 1 /\ Finished \in Nat /\ Accepted \in Nat /\ Len(accepted) = Accepted
  BY <1>1, FinishedBounds, AcceptedBounds DEF Finished, ActiveInv
<1>4. CASE Finished < Accepted
  <2>1. ran < Len(accepted) /\ ran' = ran + 1
    BY <1>2, <1>3, <1>4 DEF ran
  <2> QED BY <1>2, <2>1 DEF AO!Run
<1>5. CASE ~(Finished < Accepted)
  <2>1. ran' = ran
    BY <1>2, <1>3, <1>5 DEF ran
  <2> QED BY <1>2, <2>1 DEF AO!avars
<1> QED BY <1>4, <1>5

(* The destructor closes when it sends its task ... *)
LEMMA DestroyIsClose ==
  ASSUME TypeOK, Fifo, ActiveInv, ActiveInv', TypeOK', DestructorSentDone, Destroy
  PROVE  AO!Close
<1>1. /\ Push(Owner, Done) /\ life = "alive" /\ life' = "stopping" /\ UNCHANGED <<taken, func>>
  BY DEF Destroy, Push
<1>2. /\ Len(pushed') = Len(pushed) + 1 /\ pushed'[Len(pushed) + 1] = Done
      /\ \A n \in 1..Len(pushed) : pushed'[n] = pushed[n]
  BY <1>1, PushExtends, ActiveAssumption DEF TypeOK
<1>3. /\ Len(pushed) \in Nat /\ Accepted = Len(pushed)
  BY <1>1, AcceptedBounds DEF Stopping
<1>4. PlaceOfDone(pushed') = Len(pushed) + 1
  <2>1. pushed' \in Seq(Items) /\ IsInjective(pushed') /\ Len(pushed) + 1 \in 1..Len(pushed')
    BY <1>2, <1>3 DEF TypeOK, QTypeOK, ActiveInv
  <2> QED BY <1>2, <2>1, DoneIsAtOnePlace
<1>5. Accepted' = Accepted
  BY <1>1, <1>3, <1>4 DEF Accepted, Stopping
<1>6. accepted' = accepted
  BY <1>2, <1>3, <1>5 DEF accepted
<1>7. late = {} /\ late' = {}
  BY <1>2, <1>3, <1>5 DEF late
<1>8. ran' = ran
  BY <1>1, <1>5 DEF ran, Finished
<1>9. state = "open" /\ state' = "closing"
  BY <1>1 DEF state
<1> QED BY <1>6, <1>7, <1>8, <1>9 DEF AO!Close

(* ... and returns when the tasks before that have run. *)
LEMMA DestroyQueueIsReturn ==
  ASSUME TypeOK, Fifo, ActiveInv, DestructorSentDone, DestroyQueue
  PROVE  AO!Return
<1>1. UNCHANGED <<pushed, taken, func>> /\ life = "joined" /\ life' = "destroyed"
  BY DEF DestroyQueue, qvars
<1>2. Accepted' = Accepted /\ accepted' = accepted /\ late' = late /\ ran' = ran
  BY <1>1 DEF Accepted, accepted, late, ran, Finished, Stopping
<1>3. state = "closing" /\ state' = "closed"
  BY <1>1 DEF state
<1>4. done /\ func = NoTask /\ taken # <<>> /\ taken[Len(taken)] = Done
  BY <1>1 DEF ActiveInv, DoneIsTheLastTaken, ThreadEnded
<1>5. /\ Len(taken) \in Nat /\ Len(taken) # 0 /\ Len(taken) <= Len(pushed) /\ Finished = Len(taken)
      /\ taken[Len(taken)] = pushed[Len(taken)]
  BY <1>4, FinishedBounds, TakenThenQueued, EmptySeq DEF ActiveInv, TypeOK, QTypeOK
<1>6. /\ Accepted + 1 \in 1..Len(pushed) /\ pushed[Accepted + 1] = Done /\ Accepted \in Nat
      /\ Len(accepted) = Accepted /\ Len(pushed) \in Nat
  BY <1>1, AcceptedBounds DEF Stopping
<1>7. Accepted + 1 = Len(taken)
  <2>1. DOMAIN pushed = 1..Len(pushed)
    BY LenProperties DEF TypeOK, QTypeOK
  <2>2. Len(taken) \in 1..Len(pushed) /\ pushed[Len(taken)] = Done
    BY <1>4, <1>5, <1>6
  <2> QED BY <1>6, <2>1, <2>2 DEF ActiveInv, IsInjective
<1>8. ran = Len(accepted)
  BY <1>5, <1>6, <1>7 DEF ran
<1> QED BY <1>2, <1>3, <1>8 DEF AO!Return

(* The rest of the steps is hidden. *)
LEMMA OthersAreHidden ==
  ASSUME TypeOK, Fifo, ActiveInv,
         \/ \E t \in Threads : Notify(t)
         \/ LoopTest \/ Sleep \/ Wake \/ TakeTask \/ Join
         \/ UNCHANGED vars
  PROVE  UNCHANGED AO!avars
<1>1. pushed' = pushed /\ state' = state /\ Stopping' = Stopping /\ Finished' = Finished
  <2>1. CASE \E t \in Threads : Notify(t)
    BY <2>1 DEF Notify, NotifyOne, state, Stopping, Finished
  <2>2. CASE LoopTest \/ Sleep \/ Wake
    BY <2>2 DEF LoopTest, Sleep, Wake, WaitAndPop, Block, SpuriousWakeup, state, Stopping, Finished
  <2>3. CASE TakeTask
    <3>1. UNCHANGED <<pushed, life>> /\ func = NoTask /\ func' # NoTask
      <4>1. TakeFront /\ func' = Head(queue) /\ UNCHANGED <<pushed, life>> /\ pc[Worker] = "pop"
        BY <2>3 DEF TakeTask, PopFront, TakeFront, Goto
      <4>2. Head(queue) \in Items
        BY <4>1, TakeFrontAdvances DEF TypeOK
      <4> QED BY <4>1, <4>2, ActiveAssumption DEF ActiveInv, WorkerWaitsEmptyHanded
    <3>2. Len(taken') = Len(taken) + 1 /\ Len(taken) \in Nat
      BY <2>3, TakeFrontAdvances, LenProperties DEF TakeTask, PopFront, TypeOK, QTypeOK
    <3>3. Finished' = Finished
      BY <3>1, <3>2 DEF Finished
    <3> QED BY <3>1, <3>3 DEF state, Stopping
  <2>4. CASE Join
    BY <2>4 DEF Join, qvars, state, Stopping, Finished
  <2>5. CASE UNCHANGED vars
    BY <2>5 DEF vars, qvars, state, Stopping, Finished
  <2> QED BY <2>1, <2>2, <2>3, <2>4, <2>5
<1>2. Accepted' = Accepted
  BY <1>1 DEF Accepted
<1> QED BY <1>1, <1>2 DEF AO!avars, accepted, ran, late

(* Active implements ActiveObject but for its progress. *)
THEOREM ActiveImplementsActiveObject == SafeSpec => AO!SafeSpec
<1>1. Init => AO!Init
  <2> SUFFICES ASSUME Init PROVE AO!Init
    OBVIOUS
  <2>1. pushed = <<>> /\ taken = <<>> /\ func = NoTask /\ life = "alive"
    BY DEF Init, QInit
  <2>2. Accepted = 0 /\ Finished = 0 /\ state = "open"
    BY <2>1 DEF Accepted, Stopping, Finished, state
  <2>3. accepted = <<>>
    BY <2>1, <2>2, SubSeqEmpty DEF accepted
  <2>4. late = {} /\ ran = 0
    BY <2>1, <2>2 DEF late, ran
  <2> QED BY <2>2, <2>3, <2>4 DEF AO!Init
<1>2. /\ TypeOK /\ Fifo /\ ActiveInv /\ DestructorSentDone /\ [Next]_vars /\ TypeOK' /\ ActiveInv'
      => [AO!Next]_AO!avars
  <2> SUFFICES ASSUME TypeOK, Fifo, ActiveInv, DestructorSentDone, [Next]_vars, TypeOK', ActiveInv'
               PROVE  AO!Next \/ UNCHANGED AO!avars
    OBVIOUS
  <2>1. ASSUME NEW t \in Threads, NEW i \in Tasks, Send(t, i) PROVE AO!Next
    <3>1. AO!Submit(i)
      BY <2>1, SendIsSubmit
    <3> QED BY <3>1 DEF AO!Next
  <2>2. CASE RunTask \/ RunDone
    <3>1. AO!Run \/ UNCHANGED AO!avars
      BY <2>2, EndOfTaskIsRun
    <3> QED BY <3>1 DEF AO!Next
  <2>3. CASE Destroy
    <3>1. AO!Close
      BY <2>3, DestroyIsClose
    <3> QED BY <3>1 DEF AO!Next
  <2>4. CASE DestroyQueue
    <3>1. AO!Return
      BY <2>4, DestroyQueueIsReturn
    <3> QED BY <3>1 DEF AO!Next
  <2>5. CASE \/ \E t \in Threads : Notify(t)
             \/ LoopTest \/ Sleep \/ Wake \/ TakeTask \/ Join
             \/ UNCHANGED vars
    <3>1. UNCHANGED AO!avars
      BY <2>5, OthersAreHidden
    <3> QED BY <3>1
  <2> QED BY <2>1, <2>2, <2>3, <2>4, <2>5 DEF Next, WorkerStep
<1> QED BY <1>1, <1>2, TypeCorrect, QueueOfActive, ActiveInvariant, DoneIsSent, PTL
     DEF SafeSpec, AO!SafeSpec
================================================================================
