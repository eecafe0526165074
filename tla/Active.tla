-------------------------------- MODULE Active ---------------------------------
(******************************************************************************)
(* kjellkod::Active of src/src/g3log/active.hpp, with the futures that        *)
(* g3::spawn_task (src/src/g3log/future.hpp) makes for its tasks: a thread    *)
(* that runs the tasks of a shared_queue one after the other until a task     *)
(* sets done_, and a destructor that sends that task and joins the thread.    *)
(*                                                                            *)
(* The queue's own steps come from SharedQueue; each action here is one of    *)
(* them with what Active does around it.  The Items of the queue are the      *)
(* tasks and Done, the lambda { done_ = true; } of the destructor.            *)
(*                                                                            *)
(* Left to the caller, as C++ does: nobody uses the object once its members   *)
(* are being destroyed (DestroyQueue), and a task returns.                    *)
(******************************************************************************)
EXTENDS SharedQueue

CONSTANTS Worker,  \* the thread thd_
          Owner,   \* the thread that runs the destructor
          Done,    \* the task that sets done_
          NoTask   \* the worker has no task in hand

ASSUME ActiveAssumption == /\ Worker \in Threads
                           /\ Owner \in Threads \ {Worker}
                           /\ Done \in Items
                           /\ NoTask \notin Items

Tasks == Items \ {Done}

VARIABLES func,    \* the task taken out of the queue and not finished, or NoTask
          done,    \* done_
          life,    \* "alive", "stopping" (destructor entered), "joined", "destroyed"
          future   \* the shared state of each task's future

vars == <<qvars, func, done, life, future>>

TypeOK == /\ QTypeOK
          /\ func \in Items \cup {NoTask}
          /\ done \in BOOLEAN
          /\ life \in {"alive", "stopping", "joined", "destroyed"}
          /\ future \in [Tasks -> {"none", "pending", "ready", "broken"}]

(* createActive: the thread is started on a complete object. *)
Init == /\ QInit
        /\ func = NoTask
        /\ done = FALSE
        /\ life = "alive"
        /\ future = [i \in Tasks |-> "none"]

--------------------------------------------------------------------------------
(* A thread may call send when it runs code outside the queue: the worker     *)
(* only from inside a task.                                                   *)
MayCall(t) == /\ life # "destroyed"
              /\ t = Worker => func # NoTask

(* send, also as the last step of spawn_task: the future is handed out        *)
(* pending.                                                                   *)
Send(t, i) == /\ MayCall(t)
              /\ Push(t, i)
              /\ future' = [future EXCEPT ![i] = "pending"]
              /\ UNCHANGED <<func, done, life>>

Notify(t) == NotifyOne(t) /\ UNCHANGED <<func, done, life, future>>

(* Mutant: the loop never ends. *)
LoopAlways == /\ func = NoTask
              /\ WaitAndPop(Worker)
              /\ UNCHANGED <<func, done, life, future>>

(* The loop test of run and the call of wait_and_pop. *)
LoopTest == /\ func = NoTask
            /\ ~done
            /\ WaitAndPop(Worker)
            /\ UNCHANGED <<func, done, life, future>>

Sleep == Block(Worker) /\ UNCHANGED <<func, done, life, future>>

Wake == SpuriousWakeup(Worker) /\ UNCHANGED <<func, done, life, future>>

TakeTask == /\ PopFront(Worker)
            /\ func' = Head(queue)
            /\ UNCHANGED <<done, life, future>>

(* func(): the task has run; a packaged_task stores its value or exception.   *)
RunTask == /\ func \in Tasks
           /\ pc[Worker] = "idle"
           /\ future' = [future EXCEPT ![func] = "ready"]
           /\ func' = NoTask
           /\ UNCHANGED <<qvars, done, life>>

(* Mutant: done_ is not set. *)
RunDoneAsAnyTask == /\ func = Done
                    /\ pc[Worker] = "idle"
                    /\ func' = NoTask
                    /\ UNCHANGED <<qvars, done, life, future>>

RunDone == /\ func = Done
           /\ pc[Worker] = "idle"
           /\ done' = TRUE
           /\ func' = NoTask
           /\ UNCHANGED <<qvars, life, future>>

(* run has returned: the loop test found done_. *)
ThreadEnded == done /\ func = NoTask

(* ~Active, first statement. *)
Destroy == /\ life = "alive"
           /\ Push(Owner, Done)
           /\ life' = "stopping"
           /\ UNCHANGED <<func, done, future>>

(* Mutant: the thread is detached, not joined. *)
Detach == /\ life = "stopping"
          /\ pc[Owner] = "idle"
          /\ life' = "joined"
          /\ UNCHANGED <<qvars, func, done, future>>

Join == /\ life = "stopping"
        /\ pc[Owner] = "idle"
        /\ ThreadEnded
        /\ life' = "joined"
        /\ UNCHANGED <<qvars, func, done, future>>

(* Mutant: tasks that never ran leave their futures as they are. *)
DestroyQueueOnly == /\ life = "joined"
                    /\ At("idle") = Threads
                    /\ life' = "destroyed"
                    /\ UNCHANGED <<qvars, func, done, future>>

(* mq_ goes with the tasks still in it; a packaged_task that never ran leaves *)
(* broken_promise in its future.                                              *)
DestroyQueue == /\ life = "joined"
                /\ At("idle") = Threads
                /\ life' = "destroyed"
                /\ future' = [i \in Tasks |-> IF i \in Range(queue)
                                              THEN "broken" ELSE future[i]]
                /\ UNCHANGED <<qvars, func, done>>

WorkerStep == LoopTest \/ Sleep \/ TakeTask \/ RunTask \/ RunDone

Next == \/ \E t \in Threads : Notify(t) \/ \E i \in Tasks : Send(t, i)
        \/ WorkerStep
        \/ Wake
        \/ Destroy
        \/ Join
        \/ DestroyQueue

SafeSpec == Init /\ [][Next]_vars

(* Threads inside a call go on, tasks return, and a destructor that was       *)
(* entered goes on; nobody has to call send or to destroy the object.         *)
Fairness == /\ \A t \in Threads : WF_vars(Notify(t))
            /\ WF_vars(WorkerStep)
            /\ WF_vars(Join)
            /\ WF_vars(DestroyQueue)

Spec == SafeSpec /\ Fairness

--------------------------------------------------------------------------------
HasRun(i) == future[i] = "ready"

(* run executes what send queued one by one and in order, whichever threads   *)
(* send and however late their notifications are: when a task has run, so has *)
(* every task sent before it, and the destructor's task was not among them.   *)
RunsInSendOrder == 
   \A n \in 1..Len(pushed) : \A m \in 1..(n - 1) :
      pushed[n] \in Tasks /\ HasRun(pushed[n])
         => pushed[m] \in Tasks /\ HasRun(pushed[m])

(* The destructor is a flush: when its join has returned, every task sent     *)
(* before its own has run (active.hpp:49-62; Sink and LogWorker rely on it).  *)
FlushedAtJoin == 
   life \in {"joined", "destroyed"} =>
      \A n \in 1..Len(pushed) : \A m \in 1..(n - 1) :
         pushed[n] = Done => HasRun(pushed[m])

(* Nobody is left waiting on the future of a destroyed object.                *)
NoFutureLeftPending == 
   life = "destroyed" => \A i \in Tasks : future[i] # "pending"

(* Every future completes, also for a task behind the destructor's, and also  *)
(* when the worker was going to sleep while the task was sent. (A task that   *)
(* is neither run nor dropped would block removeSink or addSink for good.)    *)
EveryFutureCompletes == 
   \A i \in Tasks : future[i] = "pending" ~> future[i] \in {"ready", "broken"}

--------------------------------------------------------------------------------
(* The inductive invariant behind the three safety properties.  The pushes,    *)
(* numbered in order, are cut in three by two cursors: those that have run     *)
(* (1..Finished), the one in the worker's hands, and those still queued.       *)
Finished == Len(taken) - (IF func = NoTask THEN 0 ELSE 1)

InHandIsLastTaken == 
   func # NoTask => taken # <<>> /\ func = taken[Len(taken)]

WorkerWaitsEmptyHanded == pc[Worker] \in {"pop", "wait"} => func = NoTask

RunExactlyTheFinished == 
   \A n \in 1..Len(pushed) : 
      pushed[n] \in Tasks => /\ future[pushed[n]] # "none"
                             /\ HasRun(pushed[n]) <=> n <= Finished

DoneIsTheLastTaken == 
   IF done THEN /\ ThreadEnded /\ pc[Worker] = "idle"
                /\ taken # <<>> /\ taken[Len(taken)] = Done
           ELSE /\ \A n \in 1..Finished : pushed[n] # Done
                /\ life \in {"alive", "stopping"}

OnlyTheDestructorSendsDone == life = "alive" => Done \notin Range(pushed)

BrokenOnlyByDestruction == 
   \A i \in Tasks : future[i] # IF life = "destroyed" THEN "pending" ELSE "broken"

OnlySentTasksHaveFutures == 
   \A i \in Tasks : future[i] # "none" => i \in Range(pushed)

ActiveInv == /\ IsInjective(pushed)
             /\ InHandIsLastTaken
             /\ WorkerWaitsEmptyHanded
             /\ RunExactlyTheFinished
             /\ DoneIsTheLastTaken
             /\ OnlyTheDestructorSendsDone
             /\ BrokenOnlyByDestruction
             /\ OnlySentTasksHaveFutures
================================================================================
