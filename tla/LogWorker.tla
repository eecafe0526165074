------------------------------- MODULE LogWorker -------------------------------
(******************************************************************************)
(* g3::LogWorker with its sinks: src/src/logworker.cpp, g3log/logworker.hpp,  *)
(* g3log/sink.hpp and g3log/sinkhandle.hpp under src/src.                     *)
(*                                                                            *)
(* Client threads call the LogWorker; each call becomes a task for the        *)
(* worker thread, which alone touches the vector _sinks and hands messages to *)
(* the sinks; each sink has a thread of its own.  Worker and sinks are active *)
(* objects: a queue here is an ActiveObject (module Active shows that the     *)
(* code implements it), a task that runs is a step, and destruction is a      *)
(* "done" task followed by a join.                                            *)
(*                                                                            *)
(* A sink lives as long as somebody owns a shared_ptr to it: _sinks, a queued *)
(* addSink or hotUpdateSink task, or a thread in the middle of a call.        *)
(* Whoever lets go of the last one runs ~Sink and blocks until the sink's     *)
(* thread has emptied its queue.                                              *)
(*                                                                            *)
(* The global logger of g3log.cpp is outside this module: clients here call a *)
(* LogWorker that exists, up to the reset of _impl._bg in its destructor.     *)
(******************************************************************************)
EXTENDS Integers, Sequences, SequencesExt

CONSTANTS Clients,   \* the threads that log and that add, call and remove sinks
          Owner,     \* the client that destroys the LogWorker
          Worker,    \* the thread of _impl._bg
          Sinks,     \* each is one Sink<T> object
          Msgs,      \* each is logged at most once, as a message or as a fatal one
          Crashing,  \* the sinks whose code may cause a fatal message
          None,      \* no task, no sink
          MaxCalls   \* bound on the calls through handles and hot updates

Threads == Clients \cup {Worker}

Tasks == [op : {"save", "fatal"}, m : Msgs] \cup [op : {"add", "remove"}, k : Sinks, c : Clients]
            \cup [op : {"update"}, k : Sinks] \cup [op : {"clear"}, c : Clients] 
            \cup [op : {"done"}]

ASSUME LogWorkerAssumption == /\ Owner \in Clients
                              /\ Worker \notin Clients
                              /\ None \notin Sinks \cup Tasks
                              /\ Crashing \subseteq Sinks
                              /\ MaxCalls \in Nat
                              /\ Msgs \cap {"call", "done"} = {}

VARIABLES wq,       \* queue of the worker
          task,     \* the worker's task while it waits for sinks to end, or None
          ended,    \* the worker's thread has ended
          sinks,    \* _impl._sinks
          sq,       \* sq[k]: queue of sink k: messages, "call"s and at last "done"
          state,    \* state[k]: "new", "alive", "dying" (in ~Sink), "stopped", "dead"
          held,     \* held[t]: the shared_ptrs thread t will release, in order
          joining,  \* joining[t]: the sink whose thread t is joining, or None
          pc,       \* pc[c]: the call client c is in
          fut,      \* fut[c]: the future c waits for: "pending", "ready", "broken"
          asleep,   \* the sinks whose thread sleeps forever after a fatal message
          exited,   \* the process has exited after a fatal message
          calls,    \* number of calls and hot updates made, for MaxCalls
          \* What the clients know, to state the properties with:
          saved,    \* the messages in the order in which they were queued
          got,      \* got[k]: what the real sink k was given
          member,   \* member[k]: "none", "adding", "open" (addSink has returned),
                    \* "leaving" (a removal was called), "left" (and has returned)
          handles,  \* sinks whose SinkHandle some client still has
          arg,      \* arg[c]: the sinks that the call of c is about
          due,      \* due[k]: messages queued while k was "open"
          foreign   \* foreign[k]: messages queued while k was "none" or "left"

worker  == <<wq, task, ended, sinks>>
sinkvar == <<sq, state, got, asleep>>
hands   == <<held, joining>>
log     == <<saved, due, foreign>>
history == <<log, member, handles, arg>>
vars == <<worker, sinkvar, hands, pc, fut, exited, calls, history>>

PCs == {"idle", "adding", "locking", "removing", "clearing", "calling", "releasing", "blocked",
        "dtor_clear", "dtor_join", "dtor_sinks", "gone"}

WorkerOK == /\ wq \in Seq(Tasks) /\ task \in Tasks \cup {None} /\ ended \in BOOLEAN
            /\ sinks \in Seq(Sinks)

SinksOK == /\ sq \in [Sinks -> Seq(Msgs \cup {"call", "done"})]
           /\ state \in [Sinks -> {"new", "alive", "dying", "stopped", "dead"}]
           /\ got \in [Sinks -> Seq(Msgs)] /\ asleep \subseteq Sinks

HandsOK == held \in [Threads -> Seq(Sinks)] /\ joining \in [Threads -> Sinks \cup {None}]

ClientsOK == /\ pc \in [Clients -> PCs] /\ fut \in [Clients -> {"pending", "ready", "broken"}]
             /\ exited \in BOOLEAN /\ calls \in 0..MaxCalls

HistoryOK == /\ saved \in Seq(Msgs)
             /\ due \in [Sinks -> SUBSET Msgs] /\ foreign \in [Sinks -> SUBSET Msgs]
             /\ member \in [Sinks -> {"none", "adding", "open", "leaving", "left"}]
             /\ handles \subseteq Sinks /\ arg \in [Clients -> SUBSET Sinks]

TypeOK == WorkerOK /\ SinksOK /\ HandsOK /\ ClientsOK /\ HistoryOK

(* createLogWorker: a worker and no sinks. *)
Init ==
   /\ wq = <<>> /\ task = None /\ ended = FALSE
   /\ sinks = <<>>
   /\ sq = [k \in Sinks |-> <<>>]
   /\ state = [k \in Sinks |-> "new"]
   /\ held = [t \in Threads |-> <<>>]
   /\ joining = [t \in Threads |-> None]
   /\ pc = [c \in Clients |-> "idle"]
   /\ fut = [c \in Clients |-> "ready"]
   /\ asleep = {} /\ exited = FALSE /\ calls = 0
   /\ saved = <<>> /\ got = [k \in Sinks |-> <<>>]
   /\ member = [k \in Sinks |-> "none"]
   /\ handles = {} /\ arg = [c \in Clients |-> {}]
   /\ due = [k \in Sinks |-> {}] /\ foreign = [k \in Sinks |-> {}]

--------------------------------------------------------------------------------
(* _impl._bg is reset by the destructor after its wait. *)
BgIsNull == pc[Owner] \in {"dtor_join", "dtor_sinks", "gone"}

Owned(k) == \/ k \in Range(sinks)
            \/ \E t \in Threads : k \in Range(held[t])
            \/ \E n \in DOMAIN wq : wq[n].op \in {"add", "update"} /\ wq[n].k = k

Idle(c) == pc[c] = "idle" /\ ~exited

Enqueue(t) == wq' = Append(wq, t)

(* spawn_task on _impl._bg: a null worker gives a future with an exception. *)
Spawn(t, c) == IF BgIsNull
               THEN /\ fut' = [fut EXCEPT ![c] = "broken"]
                    /\ UNCHANGED wq
               ELSE /\ fut' = [fut EXCEPT ![c] = "pending"]
                    /\ Enqueue(t)

(* The wait for the future of c is over.  Mutant: nobody waits. *)
AnsweredAtOnce(c) == TRUE
Answered(c) == fut[c] # "pending"

(* A call that removes every sink, or the end of logging, is under way. *)
Closing == \E c \in Clients : pc[c] \notin {"idle", "adding", "locking", "removing", "calling", "releasing"}

AllLeave == member' = [k \in Sinks |-> IF member[k] \in {"adding", "open"}
                                       THEN "leaving" ELSE member[k]]

RecordSave(m) ==
   /\ saved' = Append(saved, m)
   /\ due' = [k \in Sinks |-> IF member[k] = "open" THEN due[k] \cup {m} ELSE due[k]]
   /\ foreign' = [k \in Sinks |-> IF member[k] \in {"none", "left"}
                                  THEN foreign[k] \cup {m} ELSE foreign[k]]

--------------------------------------------------------------------------------
(* Calls of the clients *)

Save(c, m) == /\ Idle(c) /\ ~BgIsNull
              /\ m \notin Range(saved)
              /\ Enqueue([op |-> "save", m |-> m])
              /\ RecordSave(m)
              /\ UNCHANGED <<sinkvar, hands, task, ended, sinks, pc, fut, exited, calls, member,
                             handles, arg>>

(* fatal, and the calling thread sleeps until the process has gone. *)
Fatal(c, m) == /\ Idle(c) /\ ~BgIsNull
               /\ m \notin Range(saved)
               /\ Enqueue([op |-> "fatal", m |-> m])
               /\ RecordSave(m)
               /\ AllLeave
               /\ pc' = [pc EXCEPT ![c] = "blocked"]
               /\ UNCHANGED <<sinkvar, hands, task, ended, sinks, fut, exited, calls, handles, arg>>

(* addSink: make the sink with its thread, then wait for addWrappedSink. *)
AddSink(c, k) == /\ Idle(c) /\ pc[Owner] # "gone"
                 /\ state[k] = "new"
                 /\ state' = [state EXCEPT ![k] = "alive"]
                 /\ held' = [held EXCEPT ![c] = <<k>>]
                 /\ Spawn([op |-> "add", k |-> k, c |-> c], c)
                 /\ pc' = [pc EXCEPT ![c] = "adding"]
                 /\ arg' = [arg EXCEPT ![c] = {k}]
                 /\ member' = [member EXCEPT ![k] = IF Closing THEN "leaving" ELSE "adding"]
                 /\ UNCHANGED <<log, task, ended, sinks, sq, joining, asleep, exited, calls, got,
                                handles>>

AddSinkWaited(c) == /\ pc[c] = "adding" /\ Answered(c) /\ ~exited
                    /\ pc' = [pc EXCEPT ![c] = "releasing"]
                    /\ UNCHANGED <<worker, sinkvar, hands, history, fut, exited, calls>>

(* The weak_ptr can be locked.  Mutant: a plain pointer. *)
NotYetDeleted(k) == state[k] \notin {"new", "dead"}
Lockable(k) == state[k] = "alive"

(* removeSink takes the handle that addSink returned.  SinkHandle::sink makes *)
(* its weak_ptr through a shared_ptr, which goes again before the task.       *)
RemoveSink(c, k) == /\ Idle(c) /\ pc[Owner] # "gone"
                    /\ k \in handles
                    /\ handles' = handles \ {k}
                    /\ held' = [held EXCEPT ![c] = IF Lockable(k) THEN <<k>> ELSE <<>>]
                    /\ pc' = [pc EXCEPT ![c] = "locking"]
                    /\ arg' = [arg EXCEPT ![c] = {k}]
                    /\ member' = [member EXCEPT ![k] = IF @ = "left" THEN "left" ELSE "leaving"]
                    /\ UNCHANGED <<worker, sinkvar, log, joining, fut, exited, calls>>

RemoveSinkSpawns(c) == /\ pc[c] = "locking" /\ ~exited
                       /\ held[c] = <<>> /\ joining[c] = None
                       /\ \E k \in arg[c] : Spawn([op |-> "remove", k |-> k, c |-> c], c)
                       /\ pc' = [pc EXCEPT ![c] = "removing"]
                       /\ UNCHANGED <<sinkvar, hands, history, task, ended, sinks, exited, calls>>

RemoveAllSinks(c) == /\ Idle(c) /\ pc[Owner] # "gone"
                     /\ Spawn([op |-> "clear", c |-> c], c)
                     /\ pc' = [pc EXCEPT ![c] = "clearing"]
                     /\ arg' = [arg EXCEPT ![c] = {k \in Sinks : member[k] = "open"}]
                     /\ AllLeave
                     /\ UNCHANGED <<sinkvar, hands, log, task, ended, sinks, exited, calls,
                                    handles>>

(* The wait of removeSink or removeAllSinks is over and the call returns. *)
RemovalReturns(c) == /\ pc[c] \in {"removing", "clearing"} /\ Answered(c) /\ ~exited
                     /\ pc' = [pc EXCEPT ![c] = "idle"]
                     /\ member' = [k \in Sinks |-> IF k \in arg[c] THEN "left" ELSE member[k]]
                     /\ arg' = [arg EXCEPT ![c] = {}]
                     /\ UNCHANGED <<worker, sinkvar, hands, log, fut, exited, calls, handles>>

(* SinkHandle::call or sink().lock(): the weak_ptr gives a shared_ptr if the  *)
(* sink is still owned; otherwise the call returns bad_weak_ptr and nothing   *)
(* changes.                                                                   *)
LockHandle(c, k) == /\ Idle(c) /\ calls < MaxCalls
                    /\ member[k] \in {"open", "leaving", "left"}
                    /\ Lockable(k)
                    /\ calls' = calls + 1
                    /\ held' = [held EXCEPT ![c] = <<k>>]
                    /\ pc' = [pc EXCEPT ![c] = "calling"]
                    /\ UNCHANGED <<worker, sinkvar, history, joining, fut, exited>>

(* Sink::async on the sink's own queue. *)
HandleCall(c) == /\ pc[c] = "calling" /\ ~exited
                 /\ sq' = [sq EXCEPT ![Head(held[c])] = Append(@, "call")]
                 /\ pc' = [pc EXCEPT ![c] = "releasing"]
                 /\ UNCHANGED <<worker, hands, history, state, fut, asleep, exited, calls, got>>

(* hotUpdateSink: the task for the worker owns a shared_ptr as well. *)
HotUpdateSink(c) == /\ pc[c] = "calling" /\ ~exited /\ ~BgIsNull
                    /\ Enqueue([op |-> "update", k |-> Head(held[c])])
                    /\ pc' = [pc EXCEPT ![c] = "releasing"]
                    /\ UNCHANGED <<sinkvar, hands, history, task, ended, sinks, fut, exited, calls>>

(* addSink or a call through a handle returns, its shared_ptr released. *)
CallReturns(c) == /\ pc[c] = "releasing" /\ ~exited
                  /\ held[c] = <<>> /\ joining[c] = None
                  /\ pc' = [pc EXCEPT ![c] = "idle"]
                  /\ member' = [k \in Sinks |-> IF k \in arg[c] /\ member[k] = "adding"
                                                THEN "open" ELSE member[k]]
                  /\ handles' = handles \cup arg[c]
                  /\ arg' = [arg EXCEPT ![c] = {}]
                  /\ UNCHANGED <<worker, sinkvar, hands, log, fut, exited, calls>>

--------------------------------------------------------------------------------
(* ~Active of the sink.  Mutant: a flag that is seen before the messages. *)
DoneInFront(k) == sq' = [sq EXCEPT ![k] = <<"done">> \o @]
SendDone(k) == sq' = [sq EXCEPT ![k] = Append(@, "done")]

(* A thread releases the next shared_ptr it holds; if it was the last one the *)
(* thread enters ~Sink: _bg.reset() queues "done" and joins the sink's thread.*)
MayRelease(t) == IF t = Worker THEN task # None ELSE pc[t] \in {"locking", "releasing", "dtor_sinks"}

Release(t) == /\ ~exited /\ MayRelease(t)
              /\ held[t] # <<>> /\ joining[t] = None
              /\ held' = [held EXCEPT ![t] = Tail(@)]
              /\ UNCHANGED <<worker, history, pc, fut, asleep, exited, calls, got>>
              /\ \E k \in {Head(held[t])} :
                 \/ Owned(k)' /\ UNCHANGED <<sq, state, joining>>
                 \/ /\ ~Owned(k)'
                    /\ state' = [state EXCEPT ![k] = "dying"]
                    /\ SendDone(k)
                    /\ joining' = [joining EXCEPT ![t] = k]

(* The join of ~Sink returns and the real sink is deleted. *)
JoinSink(t) == /\ ~exited
               /\ \E k \in Sinks : /\ joining[t] = k /\ state[k] = "stopped"
                                   /\ state' = [state EXCEPT ![k] = "dead"]
               /\ joining' = [joining EXCEPT ![t] = None]
               /\ UNCHANGED <<worker, history, sq, held, pc, fut, asleep, exited, calls, got>>

(* The sink's thread runs one task: the default log call with a message, a    *)
(* call of the sink's API, or the end of the thread.                          *)
SinkRuns(k) == /\ ~exited /\ k \notin asleep
               /\ state[k] \in {"alive", "dying"} /\ sq[k] # <<>>
               /\ sq' = [sq EXCEPT ![k] = Tail(@)]
               /\ got' = IF Head(sq[k]) \in Msgs
                         THEN [got EXCEPT ![k] = Append(@, Head(sq[k]))] ELSE got
               /\ state' = IF Head(sq[k]) = "done"
                           THEN [state EXCEPT ![k] = "stopped"] ELSE state
               /\ UNCHANGED <<worker, hands, history, pc, fut, asleep, exited, calls>>

(* The sink's code causes a fatal message (LOG(FATAL), CHECK, a signal) while *)
(* it handles the first task: fatal, and its thread sleeps inside that task.  *)
SinkCrashes(k, m) == /\ ~exited /\ ~BgIsNull /\ k \in Crashing \ asleep
                     /\ state[k] \in {"alive", "dying"}
                     /\ sq[k] # <<>> /\ Head(sq[k]) # "done"
                     /\ m \notin Range(saved)
                     /\ Enqueue([op |-> "fatal", m |-> m])
                     /\ RecordSave(m)
                     /\ AllLeave
                     /\ asleep' = asleep \cup {k}
                     /\ UNCHANGED <<hands, task, ended, sinks, sq, state, pc, fut, exited, calls,
                                    got, handles, arg>>

--------------------------------------------------------------------------------
(* Tasks of the worker.  A task that may end sinks stays in "task" until the  *)
(* worker holds no shared_ptr of it any more.                                 *)
Take(op) == /\ ~exited /\ ~ended /\ task = None
            /\ wq # <<>> /\ Head(wq).op = op
            /\ wq' = Tail(wq)

(* for (auto& sink : _sinks) sink->send(copy): the sinks' queues grow by one. *)
(* Mutant: the newest message comes first.                                    *)
SendInFront(m) == sq' = [k \in Sinks |-> IF k \in Range(sinks) THEN <<m>> \o sq[k] ELSE sq[k]]
SendToSinks(m) == sq' = [k \in Sinks |-> IF k \in Range(sinks) THEN Append(sq[k], m) ELSE sq[k]]

(* _sinks.clear() lets go of every sink.  Mutant: forgotten. *)
KeepSinks == UNCHANGED <<held, sinks>>
ClearSinks == held' = [held EXCEPT ![Worker] = sinks] /\ sinks' = <<>>

(* A sink is in the vector once at most.  Mutant: one that is removed stays. *)
NotErased(k) == sinks
Erased(k) == LET at == {n \in DOMAIN sinks : sinks[n] = k}
             IN IF at = {} THEN sinks ELSE RemoveAt(sinks, CHOOSE n \in at : TRUE)

(* bgSave; without sinks the message goes to std::cerr. *)
BgSave == /\ Take("save")
          /\ SendToSinks(Head(wq).m)
          /\ UNCHANGED <<hands, history, task, ended, sinks, state, pc, fut, asleep, exited, calls,
                         got>>

BgAdd == /\ Take("add")
         /\ sinks' = Append(sinks, Head(wq).k)
         /\ fut' = [fut EXCEPT ![Head(wq).c] = "ready"]
         /\ UNCHANGED <<sinkvar, hands, history, task, ended, pc, exited, calls>>

(* lock the weak_ptr; if the sink is still owned, erase it and let go of it. *)
BgRemove == /\ Take("remove")
            /\ task' = Head(wq)
            /\ LET k == Head(wq).k IN
               IF state[k] = "alive"
               THEN /\ sinks' = Erased(k)
                    /\ held' = [held EXCEPT ![Worker] = <<k>>]
               ELSE UNCHANGED <<sinks, held>>
            /\ UNCHANGED <<sinkvar, history, ended, joining, pc, fut, exited, calls>>

BgClear == /\ Take("clear")
           /\ task' = Head(wq)
           /\ ClearSinks
           /\ UNCHANGED <<sinkvar, history, ended, joining, pc, fut, exited, calls>>

BgUpdate == /\ Take("update")
            /\ task' = Head(wq)
            /\ LET k == Head(wq).k IN
               /\ held' = [held EXCEPT ![Worker] = <<k>>]
               /\ sq' = [sq EXCEPT ![k] = Append(@, "call")]
            /\ UNCHANGED <<history, ended, sinks, state, joining, pc, fut, asleep, exited, calls,
                           got>>

(* bgFatal: the message to every sink, then _sinks.clear(). *)
BgFatal == /\ Take("fatal")
           /\ task' = Head(wq)
           /\ SendToSinks(Head(wq).m)
           /\ ClearSinks
           /\ UNCHANGED <<history, ended, state, joining, pc, fut, asleep, exited, calls, got>>

BgDone == /\ Take("done")
          /\ ended' = TRUE
          /\ UNCHANGED <<sinkvar, hands, history, task, sinks, pc, fut, exited, calls>>

(* Whom the end of a task concerns.  Mutants: clear is not answered; a fatal  *)
(* message does not end the process.                                          *)
RemoveAnswers(op) == op = "remove"
Answers(op) == op \in {"remove", "clear"}
NeverExits(op) == FALSE
Exits(op) == op = "fatal"

(* The task returns, its waiter's future becomes ready; bgFatal does not      *)
(* return but ends the process (exitWithDefaultSignalHandler).                *)
TaskReturns == /\ ~exited /\ task # None
               /\ held[Worker] = <<>> /\ joining[Worker] = None
               /\ task' = None
               /\ exited' = Exits(task.op)
               /\ fut' = IF Answers(task.op)
                         THEN [fut EXCEPT ![task.c] = "ready"] ELSE fut
               /\ UNCHANGED <<sinkvar, hands, history, wq, ended, sinks, pc, calls>>

WorkerStep == \/ BgSave \/ BgAdd \/ BgRemove \/ BgClear \/ BgUpdate \/ BgFatal \/ BgDone
              \/ TaskReturns

--------------------------------------------------------------------------------
(* ~LogWorker: removeAllSinks() and its wait; then _impl._bg.reset(): no more *)
(* tasks, "done", join, by when the queue is empty; then the vector goes with *)
(* what it owns.                                                              *)
DtorRemoveAllSinks == /\ Idle(Owner)
                      /\ Spawn([op |-> "clear", c |-> Owner], Owner)
                      /\ pc' = [pc EXCEPT ![Owner] = "dtor_clear"]
                      /\ AllLeave
                      /\ UNCHANGED <<sinkvar, hands, log, task, ended, sinks, exited, calls,
                                     handles, arg>>

DtorReset == /\ pc[Owner] = "dtor_clear" /\ Answered(Owner) /\ ~exited
             /\ Enqueue([op |-> "done"])
             /\ pc' = [pc EXCEPT ![Owner] = "dtor_join"]
             /\ UNCHANGED <<sinkvar, hands, history, task, ended, sinks, fut, exited, calls>>

DtorJoin == /\ pc[Owner] = "dtor_join" /\ ended /\ ~exited
            /\ held' = [held EXCEPT ![Owner] = sinks]
            /\ sinks' = <<>>
            /\ pc' = [pc EXCEPT ![Owner] = "dtor_sinks"]
            /\ UNCHANGED <<sinkvar, history, wq, task, ended, joining, fut, exited, calls>>

DtorReturns == /\ pc[Owner] = "dtor_sinks" /\ ~exited
               /\ held[Owner] = <<>> /\ joining[Owner] = None
               /\ pc' = [pc EXCEPT ![Owner] = "gone"]
               /\ UNCHANGED <<worker, sinkvar, hands, history, fut, exited, calls>>

Dtor == DtorReset \/ DtorJoin \/ DtorReturns

ClientGoesOn(c) == AddSinkWaited(c) \/ RemoveSinkSpawns(c) \/ RemovalReturns(c) \/ HandleCall(c)
                     \/ CallReturns(c)

Next == \/ \E c \in Clients : 
              \/ \E m \in Msgs : Save(c, m) \/ Fatal(c, m)
              \/ \E k \in Sinks : AddSink(c, k) \/ RemoveSink(c, k) \/ LockHandle(c, k)
              \/ RemoveAllSinks(c) \/ HotUpdateSink(c)
              \/ ClientGoesOn(c)
        \/ \E t \in Threads : Release(t) \/ JoinSink(t)
        \/ \E k \in Sinks : SinkRuns(k) \/ \E m \in Msgs : SinkCrashes(k, m)
        \/ WorkerStep
        \/ DtorRemoveAllSinks
        \/ Dtor

SafeSpec == Init /\ [][Next]_vars

(* Every thread that is not waiting goes on (the scheduler runs them all, and *)
(* the sinks' functions return); no client has to make another call.          *)
Fairness == /\ WF_vars(WorkerStep)
            /\ \A k \in Sinks : WF_vars(SinkRuns(k))
            /\ \A t \in Threads : WF_vars(Release(t)) /\ WF_vars(JoinSink(t))
            /\ \A c \in Clients : WF_vars(ClientGoesOn(c))
            /\ WF_vars(Dtor)

Spec == SafeSpec /\ Fairness

--------------------------------------------------------------------------------
(* Ownership of the sinks is exact, whichever thread lets go last: a sink that *)
(* _sinks, a queued task or a thread can still reach has not entered ~Sink,    *)
(* and one that nobody can reach has (its thread is joined and not leaked).    *)
OwnedIffAlive == \A k \in Sinks : Owned(k) <=> state[k] = "alive"

(* Each sink is given a contiguous piece of the log, in the order in which     *)
(* LogWorker::save queued the messages: no gap, no duplicate, no reordering,   *)
(* with sinks added and removed while others log.                              *)
ContiguousLog ==
   \A k \in Sinks : \E i, j \in 0..Len(saved) : got[k] = SubSeq(saved, i + 1, j)

(* A sink that has been destroyed, by whichever thread, was first given every  *)
(* message queued between the return of its addSink and the call that removed  *)
(* it: removal is a flush.                                                     *)
FlushedWhenDestroyed ==
   \A k \in Sinks : state[k] = "dead" => due[k] \subseteq Range(got[k])

(* No sink is given a message logged before its addSink was called or after    *)
(* its removal has returned.                                                   *)
NothingOutsideMembership ==
   \A k \in Sinks : foreign[k] \cap Range(got[k]) = {}

(* Somebody besides _sinks shares the sink: a client in the middle of a call   *)
(* or of ~Sink, a hot update queued or running, a removeSink that locked the   *)
(* weak_ptr.                                                                   *)
Uses(t, k) == k \in Range(held[t]) \/ joining[t] = k

Shared(k) == \/ \E c \in Clients : Uses(c, k)
             \/ \E n \in DOMAIN wq : wq[n].op = "update" /\ wq[n].k = k
             \/ task # None /\ task.op \in {"update", "remove"} /\ Uses(Worker, k)

(* "This is a synchronous call. You are guaranteed that the sink is removed by *)
(* the time the call returns" (logworker.hpp:127-128): the sink is not merely  *)
(* out of _sinks, its thread has ended, unless a client shares it. It cannot   *)
(* hold once the destructor has cut the worker off.                            *)
RemovalIsSynchronous ==
   \A k \in Sinks : member[k] = "left" /\ ~BgIsNull /\ ~Shared(k) => state[k] = "dead"

(* When a fatal message ends the process, every sink that no other thread      *)
(* shares was given all that was logged while it was attached, the fatal       *)
(* message included (bgFatal clears _sinks before it exits).                   *)
FatalFlushes ==
   exited => \A k \in Sinks : ~Shared(k) => due[k] \subseteq Range(got[k])

(* Nobody hangs in addSink, removeSink, removeAllSinks or a call through a     *)
(* handle, whatever is removed or destroyed meanwhile; only the end of the     *)
(* process can cut a call short, and a sink that crashes on its own thread     *)
(* (FatalOfSinkExits, below) may stop everybody.  ~LogWorker returns as well,  *)
(* with other clients adding, removing and sharing sinks.                      *)
Waiting(c) == pc[c] \in {"adding", "locking", "removing", "clearing", "releasing"}
CallsReturn ==
   /\ \A c \in Clients : Waiting(c) ~> (pc[c] = "idle" \/ exited \/ asleep # {})
   /\ pc[Owner] = "dtor_clear" ~> (pc[Owner] = "gone" \/ exited \/ asleep # {})

(* A fatal message ends the process, unless ~LogWorker is ahead of it.         *)
FatalExits == \A c \in Clients : pc[c] = "blocked" ~> (exited \/ BgIsNull \/ asleep # {})

--------------------------------------------------------------------------------
(* What a comment says and the code does not do. *)

(* "A thread that causes a FatalMessage will sleep forever until the           *)
(* application has exited (after message flush)" (logmessage.hpp:141-142), of  *)
(* a sink's thread.                                                            *)
FatalOfSinkExits == \A k \in Sinks : k \in asleep ~> (exited \/ BgIsNull)
================================================================================
