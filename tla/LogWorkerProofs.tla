---------------------------- MODULE LogWorkerProofs ----------------------------
(******************************************************************************)
(* Proofs about LogWorker, for any clients, sinks and messages: that sinks    *)
(* are owned exactly, that a removal is synchronous and a flush, that a fatal *)
(* message flushes, and that each sink is given a contiguous piece of the log *)
(* and nothing from outside its membership.                                   *)
(*                                                                            *)
(* The inductive invariant follows a message from the log through the queue   *)
(* of the worker (EndInv, SavedInv) and the queue of a sink (StopInv) to the  *)
(* sink, and a sink from its addSink (ArgInv, OnceInv, OpenInv) through the   *)
(* vector and the hands of the threads (HeldInv, OwnedIffAlive) to its        *)
(* removal (TaskInv, GoneInv) and the join of its thread (JoinInv).  Each     *)
(* part has a lemma "...Step"; a last one puts them together.                 *)
(******************************************************************************)
EXTENDS LogWorker, SequenceTheorems, TLAPS

--------------------------------------------------------------------------------
(* Sequences                                                                    *)

(* What is at each place of a queue that grows or shrinks.                      *)
LEMMA AppendAt ==
  ASSUME NEW S, NEW s \in Seq(S), NEW e \in S
  PROVE  /\ Append(s, e) \in Seq(S)
         /\ Len(s) \in Nat /\ DOMAIN s = 1..Len(s)
         /\ Len(Append(s, e)) = Len(s) + 1
         /\ DOMAIN Append(s, e) = 1..(Len(s) + 1)
         /\ \A n \in 1..Len(s) : Append(s, e)[n] = s[n]
         /\ Append(s, e)[Len(s) + 1] = e
<1>1. Append(s, e) \in Seq(S) /\ Len(Append(s, e)) = Len(s) + 1 /\ Append(s, e)[Len(s) + 1] = e
      /\ \A n \in 1..Len(s) : Append(s, e)[n] = s[n]
  BY AppendProperties
<1>2. Len(s) \in Nat /\ DOMAIN s = 1..Len(s)
  BY LenProperties
<1>3. DOMAIN Append(s, e) = 1..Len(Append(s, e))
  BY <1>1, LenProperties
<1> QED BY <1>1, <1>2, <1>3

(* ... and of one that shrinks.                                                 *)
LEMMA TailAt ==
  ASSUME NEW S, NEW s \in Seq(S), s # <<>>
  PROVE  /\ Tail(s) \in Seq(S)
         /\ Head(s) \in S /\ Head(s) = s[1]
         /\ Len(s) \in Nat /\ Len(s) > 0 /\ DOMAIN s = 1..Len(s)
         /\ Len(Tail(s)) = Len(s) - 1
         /\ DOMAIN Tail(s) = 1..(Len(s) - 1)
         /\ \A n \in 1..(Len(s) - 1) : Tail(s)[n] = s[n + 1]
<1>1. Tail(s) \in Seq(S) /\ Head(s) \in S /\ Len(Tail(s)) = Len(s) - 1
      /\ \A n \in 1..(Len(s) - 1) : Tail(s)[n] = s[n + 1]
  BY HeadTailProperties
<1>2. Len(s) \in Nat /\ Len(s) > 0 /\ DOMAIN s = 1..Len(s)
  BY LenProperties, EmptySeq
<1>3. DOMAIN Tail(s) = 1..Len(Tail(s))
  BY <1>1, LenProperties
<1>4. Head(s) = s[1]
  OBVIOUS
<1> QED BY <1>1, <1>2, <1>3, <1>4

(* And what its elements are.                                                   *)
LEMMA AppendRange ==
  ASSUME NEW S, NEW s \in Seq(S), NEW e \in S
  PROVE  Range(Append(s, e)) = Range(s) \cup {e}
<1>1. \A n \in 1..(Len(s) + 1) : n \in 1..Len(s) \/ n = Len(s) + 1
  BY LenProperties
<1>2. Len(s) + 1 \in 1..(Len(s) + 1) /\ \A n \in 1..Len(s) : n \in 1..(Len(s) + 1)
  BY LenProperties
<1> QED BY <1>1, <1>2, AppendAt DEF Range

(* The head of a queue and the rest are all of it.                              *)
LEMMA TailRange ==
  ASSUME NEW S, NEW s \in Seq(S), s # <<>>
  PROVE  Range(s) = {Head(s)} \cup Range(Tail(s))
<1>1. Len(s) \in Nat /\ Len(s) > 0
  BY TailAt
<1>2. ASSUME NEW x \in Range(s) PROVE x \in {Head(s)} \cup Range(Tail(s))
  <2>1. PICK n \in 1..Len(s) : x = s[n]
    BY TailAt DEF Range
  <2>2. CASE n = 1
    BY <2>1, <2>2, TailAt
  <2>3. CASE n # 1
    <3>1. n - 1 \in 1..(Len(s) - 1) /\ (n - 1) + 1 = n
      BY <1>1, <2>3
    <3>2. Tail(s)[n - 1] = x /\ n - 1 \in DOMAIN Tail(s)
      BY <2>1, <3>1, TailAt
    <3> QED BY <3>2 DEF Range
  <2> QED BY <2>2, <2>3
<1>3. ASSUME NEW x \in Range(Tail(s)) PROVE x \in Range(s)
  <2>1. PICK n \in 1..(Len(s) - 1) : x = Tail(s)[n]
    BY TailAt DEF Range
  <2>2. n + 1 \in 1..Len(s) /\ s[n + 1] = x
    BY <1>1, <2>1, TailAt
  <2> QED BY <2>2, TailAt DEF Range
<1>4. Head(s) \in Range(s)
  <2>1. 1 \in DOMAIN s /\ Head(s) = s[1]
    BY <1>1, TailAt
  <2> QED BY <2>1 DEF Range
<1> QED BY <1>2, <1>3, <1>4

(* A sink is in the vector once at most.                                        *)
NoTwins(s) == \A i, j \in DOMAIN s : s[i] = s[j] => i = j

(* Then erasing it leaves all the others there, once each.                      *)
LEMMA ErasedAt ==
  ASSUME WorkerOK, NEW k \in Sinks
  PROVE  /\ Erased(k) \in Seq(Sinks)
         /\ NoTwins(sinks) => /\ Range(Erased(k)) = Range(sinks) \ {k}
                              /\ NoTwins(Erased(k))
<1> DEFINE at == {n \in DOMAIN sinks : sinks[n] = k}
<1>1. sinks \in Seq(Sinks) /\ DOMAIN sinks = 1..Len(sinks) /\ Len(sinks) \in Nat
  BY LenProperties DEF WorkerOK
<1>2. CASE at = {}
  BY <1>1, <1>2 DEF Erased, Range
<1>3. CASE at # {}
  <2> DEFINE n == CHOOSE n \in at : TRUE
             r == SubSeq(sinks, 1, n - 1)
             q == SubSeq(sinks, n + 1, Len(sinks))
  <2>1. n \in 1..Len(sinks) /\ sinks[n] = k
    BY <1>1, <1>3
  <2>2. Erased(k) = r \o q
    BY <1>3 DEF Erased, RemoveAt
  <2> HIDE DEF n
  <2>3. /\ r \in Seq(Sinks) /\ Len(r) = n - 1 /\ \A i \in 1..(n - 1) : r[i] = sinks[i]
        /\ q \in Seq(Sinks) /\ Len(q) = Len(sinks) - n
        /\ \A i \in 1..(Len(sinks) - n) : q[i] = sinks[n + i]
    <3>1. /\ 1 \in 1..(Len(sinks) + 1) /\ n - 1 \in 0..Len(sinks) /\ (n - 1) - 1 + 1 = n - 1
          /\ n + 1 \in 1..(Len(sinks) + 1) /\ Len(sinks) - (n + 1) + 1 = Len(sinks) - n
      BY <1>1, <2>1
    <3>2. \A i \in 1..(n - 1) : i \in 1..Len(sinks) /\ 1 + i - 1 = i
      BY <1>1, <2>1
    <3>3. \A i \in 1..(Len(sinks) - n) : n + i \in 1..Len(sinks) /\ (n + 1) + i - 1 = n + i
      BY <1>1, <2>1
    <3>4. r \in Seq(Sinks) /\ Len(r) = n - 1 /\ \A i \in 1..(n - 1) : r[i] = sinks[i]
      BY <1>1, <2>1, <3>1, <3>2, SubSeqProperties
    <3>5. /\ q \in Seq(Sinks) /\ Len(q) = Len(sinks) - n
          /\ \A i \in 1..(Len(sinks) - n) : q[i] = sinks[n + i]
      <4>1. \A i \in (n + 1)..Len(sinks) : sinks[i] \in Sinks
        BY <1>1, <2>1
      <4>2. n + 1 \in Int /\ Len(sinks) \in Int
        BY <1>1, <2>1
      <4>3. /\ q \in Seq(Sinks)
            /\ Len(q) = IF n + 1 <= Len(sinks) THEN Len(sinks) - (n + 1) + 1 ELSE 0
            /\ \A i \in 1..(Len(sinks) - (n + 1) + 1) : q[i] = sinks[(n + 1) + i - 1]
        BY <4>1, <4>2, SubSeqProperties
      <4> HIDE DEF q
      <4>4. Len(q) = Len(sinks) - n
        <5>1. n \in Int /\ Len(sinks) \in Int /\ n <= Len(sinks)
          BY <1>1, <2>1
        <5>2. CASE n = Len(sinks)
          <6>1. ~(n + 1 <= Len(sinks)) /\ Len(sinks) - n = 0
            BY <5>1, <5>2
          <6> QED BY <4>3, <6>1
        <5>3. CASE n < Len(sinks)
          <6>1. n + 1 <= Len(sinks) /\ Len(sinks) - (n + 1) + 1 = Len(sinks) - n
            BY <5>1, <5>3
          <6> QED BY <4>3, <6>1
        <5> QED BY <5>1, <5>2, <5>3
      <4>5. ASSUME NEW i \in 1..(Len(sinks) - n) PROVE q[i] = sinks[n + i]
        <5>1. (n + 1) + i - 1 = n + i /\ Len(sinks) - (n + 1) + 1 = Len(sinks) - n
          BY <1>1, <2>1
        <5> QED BY <4>3, <5>1
      <4> QED BY <4>3, <4>4, <4>5
    <3> QED BY <3>4, <3>5
  <2>4. Erased(k) \in Seq(Sinks)
    BY <2>2, <2>3, ConcatProperties
  <2> HIDE DEF r, q
  <2>5. /\ Len(Erased(k)) = Len(sinks) - 1 /\ DOMAIN Erased(k) = 1..(Len(sinks) - 1)
        /\ \A i \in 1..(n - 1) : Erased(k)[i] = sinks[i]
        /\ \A i \in n..(Len(sinks) - 1) : Erased(k)[i] = sinks[i + 1]
    <3>1. Len(r \o q) = Len(sinks) - 1
      <4>1. Len(r \o q) = Len(r) + Len(q)
        BY <2>3, ConcatProperties
      <4> QED BY <1>1, <2>1, <2>3, <4>1
    <3>2. \A i \in 1..(Len(sinks) - 1) : (r \o q)[i] = IF i <= n - 1 THEN r[i] ELSE q[i - (n - 1)]
      BY <1>1, <2>1, <2>3, ConcatProperties
    <3>3. \A i \in 1..(n - 1) : (r \o q)[i] = sinks[i]
      BY <1>1, <2>1, <2>3, <3>2
    <3>4. ASSUME NEW i \in n..(Len(sinks) - 1) PROVE (r \o q)[i] = sinks[i + 1]
      <4>1. i - (n - 1) \in 1..(Len(sinks) - n) /\ n + (i - (n - 1)) = i + 1
        BY <1>1, <2>1
      <4> QED BY <1>1, <2>1, <2>3, <3>2, <4>1
    <3>5. DOMAIN Erased(k) = 1..Len(Erased(k))
      BY <2>4, LenProperties
    <3> QED BY <2>2, <3>1, <3>3, <3>4, <3>5
  <2>6. \A i \in DOMAIN Erased(k) : \E j \in DOMAIN sinks \ {n} :
           Erased(k)[i] = sinks[j] /\ j = IF i < n THEN i ELSE i + 1
    BY <1>1, <2>1, <2>5
  <2>7. \A j \in DOMAIN sinks \ {n} : \E i \in DOMAIN Erased(k) : Erased(k)[i] = sinks[j]
    <3>1. ASSUME NEW j \in 1..Len(sinks), j < n
          PROVE  \E i \in DOMAIN Erased(k) : Erased(k)[i] = sinks[j]
      BY <1>1, <2>1, <2>5, <3>1
    <3>2. ASSUME NEW j \in 1..Len(sinks), j > n
          PROVE  \E i \in DOMAIN Erased(k) : Erased(k)[i] = sinks[j]
      <4>1. j - 1 \in n..(Len(sinks) - 1) /\ (j - 1) + 1 = j
        BY <1>1, <2>1, <3>2
      <4>2. j - 1 \in DOMAIN Erased(k) /\ Erased(k)[j - 1] = sinks[j]
        BY <1>1, <2>1, <2>5, <4>1
      <4> QED BY <4>2
    <3> QED BY <1>1, <2>1, <3>1, <3>2
  <2>8. ASSUME NoTwins(sinks) PROVE Range(Erased(k)) = Range(sinks) \ {k}
    <3>1. \A j \in DOMAIN sinks : sinks[j] = k => j = n
      BY <1>1, <2>1, <2>8 DEF NoTwins
    <3> QED BY <1>1, <2>1, <2>6, <2>7, <3>1 DEF Range
  <2>9. ASSUME NoTwins(sinks) PROVE NoTwins(Erased(k))
    <3>1. SUFFICES ASSUME NEW i \in DOMAIN Erased(k), NEW j \in DOMAIN Erased(k),
                          Erased(k)[i] = Erased(k)[j]
                   PROVE  i = j
      BY DEF NoTwins
    <3>2. (IF i < n THEN i ELSE i + 1) = (IF j < n THEN j ELSE j + 1)
      BY <2>6, <2>9, <3>1 DEF NoTwins
    <3>3. i \in Nat /\ j \in Nat /\ n \in Nat
      BY <1>1, <2>1, <2>5
    <3> QED BY <3>2, <3>3
  <2> QED BY <2>4, <2>8, <2>9
<1> QED BY <1>2, <1>3

--------------------------------------------------------------------------------
(* Types                                                                        *)

(* The fields of a task, by what it is for.                                     *)
LEMMA TaskTypes ==
  /\ \A op \in {"save", "fatal"}, m \in Msgs : [op |-> op, m |-> m] \in Tasks
  /\ \A op \in {"add", "remove"}, k \in Sinks, c \in Clients : [op |-> op, k |-> k, c |-> c] \in Tasks
  /\ \A k \in Sinks : [op |-> "update", k |-> k] \in Tasks
  /\ \A c \in Clients : [op |-> "clear", c |-> c] \in Tasks
  /\ [op |-> "done"] \in Tasks
  /\ \A t \in Tasks :
        /\ t.op \in {"save", "fatal"} => t.m \in Msgs
        /\ t.op \in {"add", "remove", "update"} => t.k \in Sinks
        /\ t.op \in {"add", "remove", "clear"} => t.c \in Clients
        /\ t.op \in {"save", "fatal", "add", "remove", "update", "clear", "done"}
BY DEF Tasks

(* What the operations on sequences give has elements of the same set.          *)
LEMMA SeqTypes ==
  ASSUME NEW S
  PROVE  /\ <<>> \in Seq(S)
         /\ \A e \in S : <<e>> \in Seq(S)
         /\ \A s \in Seq(S), e \in S : Append(s, e) \in Seq(S)
         /\ \A s \in Seq(S) : s # <<>> => Head(s) \in S /\ Tail(s) \in Seq(S)
<1>1. \A s \in Seq(S), e \in S : Append(s, e) \in Seq(S)
  BY AppendProperties
<1>2. \A s \in Seq(S) : s # <<>> => Head(s) \in S /\ Tail(s) \in Seq(S)
  BY HeadTailProperties
<1>3. <<>> \in Seq(S) /\ \A e \in S : <<e>> \in Seq(S)
  BY EmptySeq
<1> QED BY <1>1, <1>2, <1>3

(* The same for the queue and the vector of the worker.                         *)
LEMMA TaskSeqs ==
  ASSUME WorkerOK
  PROVE  /\ wq \in Seq(Tasks)
         /\ \A e \in Tasks : Append(wq, e) \in Seq(Tasks)
         /\ wq # <<>> => Head(wq) \in Tasks /\ Tail(wq) \in Seq(Tasks)
         /\ \A k \in Sinks : Append(sinks, k) \in Seq(Sinks)
         /\ sinks \in Seq(Sinks) /\ <<>> \in Seq(Sinks)
BY SeqTypes DEF WorkerOK

(* Who is in the middle of a call through a handle holds its sink.              *)
CallInv == \A c \in Clients : pc[c] = "calling" => held[c] # <<>>

(* The queue, the task and the vector of the worker keep their types.           *)
LEMMA WorkerOKStep ==
  ASSUME WorkerOK, HandsOK, HistoryOK, CallInv, [Next]_vars
  PROVE  WorkerOK'
<1> USE LogWorkerAssumption
<1>1. ASSUME NEW c \in Clients, NEW m \in Msgs, Save(c, m)
      PROVE  WorkerOK'
  BY <1>1, TaskSeqs, TaskTypes DEF Save, Enqueue, WorkerOK
<1>2. ASSUME NEW c \in Clients, NEW m \in Msgs, Fatal(c, m)
      PROVE  WorkerOK'
  BY <1>2, TaskSeqs, TaskTypes DEF Fatal, Enqueue, WorkerOK
<1>3. ASSUME NEW c \in Clients, NEW k \in Sinks, AddSink(c, k)
      PROVE  WorkerOK'
  BY <1>3, TaskSeqs, TaskTypes DEF AddSink, Enqueue, Spawn, WorkerOK
<1>4. ASSUME NEW c \in Clients, RemoveAllSinks(c)
      PROVE  WorkerOK'
  BY <1>4, TaskSeqs, TaskTypes DEF RemoveAllSinks, Enqueue, Spawn, WorkerOK
<1>5. ASSUME NEW c \in Clients, RemoveSinkSpawns(c)
      PROVE  WorkerOK'
  <2>1. wq' = wq \/ \E k \in Sinks : wq' = Append(wq, [op |-> "remove", k |-> k, c |-> c])
    BY <1>5 DEF RemoveSinkSpawns, Spawn, Enqueue, HistoryOK
  <2> QED BY ZenonT(60), <1>5, <2>1, TaskSeqs, TaskTypes DEF RemoveSinkSpawns, WorkerOK
<1>6. CASE DtorRemoveAllSinks
  BY <1>6, TaskSeqs, TaskTypes DEF DtorRemoveAllSinks, Enqueue, Spawn, WorkerOK
<1>7. CASE DtorReset
  BY <1>7, TaskSeqs, TaskTypes DEF DtorReset, Enqueue, WorkerOK
<1>8. ASSUME NEW k \in Sinks, NEW m \in Msgs, SinkCrashes(k, m)
      PROVE  WorkerOK'
  BY <1>8, TaskSeqs, TaskTypes DEF SinkCrashes, Enqueue, WorkerOK
<1>9. ASSUME NEW c \in Clients, HotUpdateSink(c)
      PROVE  WorkerOK'
  <2>1. held[c] # <<>>
    BY <1>9 DEF HotUpdateSink, CallInv
  <2>2. Head(held[c]) \in Sinks
    BY <2>1, SeqTypes DEF HandsOK, Threads
  <2> QED BY <1>9, <2>2, TaskSeqs, TaskTypes DEF HotUpdateSink, Enqueue, WorkerOK
<1>10. CASE BgSave
  BY <1>10, TaskSeqs DEF BgSave, Take, WorkerOK
<1>11. CASE BgAdd
  BY <1>11, TaskSeqs, TaskTypes DEF BgAdd, Take, WorkerOK
<1>12. CASE BgRemove
  BY <1>12, TaskSeqs, TaskTypes, ErasedAt DEF BgRemove, Take, WorkerOK
<1>13. CASE BgClear
  BY <1>13, TaskSeqs DEF BgClear, Take, ClearSinks, WorkerOK
<1>14. CASE BgUpdate
  BY <1>14, TaskSeqs DEF BgUpdate, Take, WorkerOK
<1>15. CASE BgFatal
  BY <1>15, TaskSeqs DEF BgFatal, Take, ClearSinks, WorkerOK
<1>16. CASE BgDone
  BY <1>16, TaskSeqs DEF BgDone, Take, WorkerOK
<1>17. CASE TaskReturns
  BY <1>17 DEF TaskReturns, WorkerOK
<1>18. CASE DtorJoin
  BY <1>18, TaskSeqs DEF DtorJoin, WorkerOK
<1>19. CASE \/ \E c \in Clients : \E k \in Sinks : RemoveSink(c, k) \/ LockHandle(c, k)
            \/ \E c \in Clients : AddSinkWaited(c) \/ RemovalReturns(c) \/ HandleCall(c)
                                    \/ CallReturns(c)
            \/ \E t \in Threads : Release(t) \/ JoinSink(t)
            \/ \E k \in Sinks : SinkRuns(k)
            \/ DtorReturns
  <2>1. UNCHANGED <<wq, task, ended, sinks>>
    BY <1>19 DEF RemoveSink, LockHandle, AddSinkWaited, RemovalReturns, HandleCall, CallReturns,
                 Release, JoinSink, SinkRuns, DtorReturns, worker, sinkvar, hands, log, history
  <2> QED BY <2>1 DEF WorkerOK
<1>20. CASE UNCHANGED vars
  BY <1>20 DEF vars, worker, WorkerOK
<1> QED BY <1>1, <1>2, <1>3, <1>4, <1>5, <1>6, <1>7, <1>8, <1>9, <1>10, <1>11, <1>12, <1>13, <1>14,
           <1>15, <1>16, <1>17, <1>18, <1>19, <1>20
       DEF Next, ClientGoesOn, WorkerStep, Dtor

(* The queues and states of the sinks keep their types.                         *)
LEMMA SinksOKStep ==
  ASSUME WorkerOK, SinksOK, HandsOK, CallInv, [Next]_vars
  PROVE  SinksOK'
<1> USE LogWorkerAssumption
<1>1. ASSUME NEW c \in Clients, NEW k \in Sinks, AddSink(c, k)
      PROVE  SinksOK'
  BY <1>1 DEF AddSink, SinksOK
<1>2. ASSUME NEW c \in Clients, HandleCall(c)
      PROVE  SinksOK'
  <2>1. Head(held[c]) \in Sinks
    BY <1>2, SeqTypes DEF HandleCall, CallInv, HandsOK, Threads
  <2>2. \A s \in Seq(Msgs \cup {"call", "done"}) : Append(s, "call") \in Seq(Msgs \cup {"call", "done"})
    BY SeqTypes
  <2> QED BY <1>2, <2>1, <2>2 DEF HandleCall, SinksOK
<1>3. ASSUME NEW t \in Threads, Release(t)
      PROVE  SinksOK'
  <2>1. Head(held[t]) \in Sinks
    BY <1>3, SeqTypes DEF Release, HandsOK
  <2>2. \A s \in Seq(Msgs \cup {"call", "done"}) : Append(s, "done") \in Seq(Msgs \cup {"call", "done"})
    BY SeqTypes
  <2>3. /\ \/ UNCHANGED <<sq, state>>
           \/ /\ state' = [state EXCEPT ![Head(held[t])] = "dying"]
              /\ sq' = [sq EXCEPT ![Head(held[t])] = Append(@, "done")]
        /\ UNCHANGED <<got, asleep>>
    BY <1>3 DEF Release, SendDone
  <2>4. sq' \in [Sinks -> Seq(Msgs \cup {"call", "done"})]
    <3>1. CASE sq' = sq
      BY <3>1 DEF SinksOK
    <3>2. CASE sq' = [sq EXCEPT ![Head(held[t])] = Append(@, "done")]
      <4>1. Append(sq[Head(held[t])], "done") \in Seq(Msgs \cup {"call", "done"})
        BY <2>1, <2>2 DEF SinksOK
      <4> QED BY <2>1, <3>2, <4>1 DEF SinksOK
    <3> QED BY <2>3, <3>1, <3>2
  <2>5. state' \in [Sinks -> {"new", "alive", "dying", "stopped", "dead"}]
    BY <2>1, <2>3 DEF SinksOK
  <2> QED BY <2>3, <2>4, <2>5 DEF SinksOK
<1>4. ASSUME NEW t \in Threads, JoinSink(t)
      PROVE  SinksOK'
  BY <1>4 DEF JoinSink, SinksOK
<1>5. ASSUME NEW k \in Sinks, SinkRuns(k)
      PROVE  SinksOK'
  <2>1. \A s \in Seq(Msgs \cup {"call", "done"}) : s # <<>> => Tail(s) \in Seq(Msgs \cup {"call", "done"})
    BY SeqTypes
  <2>2. \A s \in Seq(Msgs), e \in Msgs : Append(s, e) \in Seq(Msgs)
    BY SeqTypes
  <2>3. sq' \in [Sinks -> Seq(Msgs \cup {"call", "done"})]
    BY <1>5, <2>1 DEF SinkRuns, SinksOK
  <2>4. got' \in [Sinks -> Seq(Msgs)]
    BY <1>5, <2>2 DEF SinkRuns, SinksOK
  <2>5. /\ state' \in [Sinks -> {"new", "alive", "dying", "stopped", "dead"}]
        /\ asleep' \subseteq Sinks
    BY <1>5 DEF SinkRuns, SinksOK
  <2> QED BY <2>3, <2>4, <2>5 DEF SinksOK
<1>6. ASSUME NEW k \in Sinks, NEW m \in Msgs, SinkCrashes(k, m)
      PROVE  SinksOK'
  BY <1>6 DEF SinkCrashes, SinksOK
<1>7. CASE BgSave
  <2>1. Head(wq) \in Tasks /\ Head(wq).m \in Msgs
    BY <1>7, TaskSeqs, TaskTypes DEF BgSave, Take
  <2>2. \A s \in Seq(Msgs \cup {"call", "done"}), e \in Msgs \cup {"call", "done"} :
           Append(s, e) \in Seq(Msgs \cup {"call", "done"})
    BY SeqTypes
  <2> QED BY <1>7, <2>1, <2>2 DEF BgSave, SendToSinks, SinksOK
<1>8. CASE BgFatal
  <2>1. Head(wq) \in Tasks /\ Head(wq).m \in Msgs
    BY <1>8, TaskSeqs, TaskTypes DEF BgFatal, Take
  <2>2. \A s \in Seq(Msgs \cup {"call", "done"}), e \in Msgs \cup {"call", "done"} :
           Append(s, e) \in Seq(Msgs \cup {"call", "done"})
    BY SeqTypes
  <2> QED BY <1>8, <2>1, <2>2 DEF BgFatal, SendToSinks, SinksOK
<1>9. CASE BgRemove \/ BgClear
  BY <1>9 DEF BgRemove, BgClear, SinksOK, sinkvar
<1>10. CASE BgUpdate
  <2>1. \A s \in Seq(Msgs \cup {"call", "done"}) : Append(s, "call") \in Seq(Msgs \cup {"call", "done"})
    BY SeqTypes
  <2> QED BY <1>10, <2>1 DEF BgUpdate, SinksOK
<1>11. CASE \/ \E c \in Clients : \E m \in Msgs : Save(c, m) \/ Fatal(c, m)
            \/ \E c \in Clients : \E k \in Sinks : RemoveSink(c, k) \/ LockHandle(c, k)
            \/ \E c \in Clients : RemoveAllSinks(c) \/ HotUpdateSink(c) \/ AddSinkWaited(c)
                                    \/ RemoveSinkSpawns(c) \/ RemovalReturns(c)
                                    \/ CallReturns(c)
            \/ BgAdd \/ BgDone \/ TaskReturns \/ DtorRemoveAllSinks \/ DtorReset \/ DtorJoin
                 \/ DtorReturns
  <2>1. UNCHANGED <<sq, state, got, asleep>>
    BY <1>11 DEF Save, Fatal, RemoveSink, LockHandle, RemoveAllSinks, HotUpdateSink, AddSinkWaited,
                 RemoveSinkSpawns, RemovalReturns, CallReturns, BgAdd, BgDone, TaskReturns,
                 DtorRemoveAllSinks, DtorReset, DtorJoin, DtorReturns, worker, sinkvar, hands, log,
                 history
  <2> QED BY <2>1 DEF SinksOK
<1>12. CASE UNCHANGED vars
  BY <1>12 DEF vars, sinkvar, SinksOK
<1> QED BY <1>1, <1>2, <1>3, <1>4, <1>5, <1>6, <1>7, <1>8, <1>9, <1>10, <1>11, <1>12
       DEF Next, ClientGoesOn, WorkerStep, Dtor

(* What the threads hold and join keeps its type.                               *)
LEMMA HandsOKStep ==
  ASSUME WorkerOK, HandsOK, [Next]_vars
  PROVE  HandsOK'
<1> USE LogWorkerAssumption
<1>1. ASSUME NEW c \in Clients, NEW k \in Sinks, AddSink(c, k) \/ RemoveSink(c, k) \/ LockHandle(c,
             k)
      PROVE  HandsOK'
  <2>1. <<>> \in Seq(Sinks) /\ <<k>> \in Seq(Sinks)
    BY SeqTypes
  <2>2. joining' = joining /\ (held' = [held EXCEPT ![c] = <<k>>] \/ held' = [held EXCEPT ![c] = <<>>])
    BY <1>1 DEF AddSink, RemoveSink, LockHandle
  <2> QED BY <2>1, <2>2 DEF HandsOK
<1>2. ASSUME NEW t \in Threads, Release(t)
      PROVE  HandsOK'
  <2>1. Head(held[t]) \in Sinks /\ Tail(held[t]) \in Seq(Sinks)
    BY <1>2, SeqTypes DEF Release, HandsOK
  <2>2. /\ held' = [held EXCEPT ![t] = Tail(@)]
        /\ joining' = joining \/ joining' = [joining EXCEPT ![t] = Head(held[t])]
    BY <1>2 DEF Release
  <2> QED BY <2>1, <2>2 DEF HandsOK
<1>3. ASSUME NEW t \in Threads, JoinSink(t)
      PROVE  HandsOK'
  BY <1>3 DEF JoinSink, HandsOK
<1>4. CASE BgRemove \/ BgUpdate
  <2>1. Head(wq).k \in Sinks
    BY <1>4, TaskSeqs, TaskTypes DEF BgRemove, BgUpdate, Take
  <2>2. <<Head(wq).k>> \in Seq(Sinks)
    BY <2>1, SeqTypes
  <2> QED BY <1>4, <2>2 DEF BgRemove, BgUpdate, HandsOK
<1>5. CASE BgClear \/ BgFatal
  BY <1>5, TaskSeqs DEF BgClear, BgFatal, ClearSinks, HandsOK
<1>6. CASE DtorJoin
  BY <1>6, TaskSeqs DEF DtorJoin, HandsOK
<1>7. CASE \/ \E c \in Clients : \E m \in Msgs : Save(c, m) \/ Fatal(c, m)
           \/ \E c \in Clients : RemoveAllSinks(c) \/ HotUpdateSink(c) \/ AddSinkWaited(c)
                                   \/ RemoveSinkSpawns(c) \/ RemovalReturns(c)
                                   \/ HandleCall(c) \/ CallReturns(c)
           \/ \E k \in Sinks : SinkRuns(k)
           \/ \E k \in Sinks : \E m \in Msgs : SinkCrashes(k, m)
           \/ BgSave \/ BgAdd \/ BgDone \/ TaskReturns \/ DtorRemoveAllSinks \/ DtorReset
                \/ DtorReturns
  <2>1. UNCHANGED <<held, joining>>
    BY <1>7 DEF Save, Fatal, RemoveAllSinks, HotUpdateSink, AddSinkWaited, RemoveSinkSpawns,
                RemovalReturns, HandleCall, CallReturns, SinkRuns, SinkCrashes, BgSave, BgAdd,
                BgDone, TaskReturns, DtorRemoveAllSinks, DtorReset, DtorReturns, worker, sinkvar,
                hands, log, history
  <2> QED BY <2>1 DEF HandsOK
<1>8. CASE UNCHANGED vars
  BY <1>8 DEF vars, hands, HandsOK
<1> QED BY <1>1, <1>2, <1>3, <1>4, <1>5, <1>6, <1>7, <1>8
       DEF Next, ClientGoesOn, WorkerStep, Dtor

(* Program counters, futures and the count of calls keep their types.           *)
LEMMA ClientsOKStep ==
  ASSUME ClientsOK, [Next]_vars
  PROVE  ClientsOK'
<1> USE LogWorkerAssumption
<1>1. ASSUME NEW c \in Clients, NEW m \in Msgs, Fatal(c, m)
      PROVE  ClientsOK'
  BY <1>1 DEF Fatal, PCs, ClientsOK
<1>2. ASSUME NEW c \in Clients, NEW k \in Sinks, AddSink(c, k)
      PROVE  ClientsOK'
  BY <1>2 DEF AddSink, Spawn, PCs, ClientsOK
<1>3. ASSUME NEW c \in Clients, NEW k \in Sinks, RemoveSink(c, k)
      PROVE  ClientsOK'
  BY <1>3 DEF RemoveSink, PCs, ClientsOK
<1>4. ASSUME NEW c \in Clients, NEW k \in Sinks, LockHandle(c, k)
      PROVE  ClientsOK'
  BY <1>4 DEF LockHandle, PCs, ClientsOK
<1>5. ASSUME NEW c \in Clients, RemoveAllSinks(c)
      PROVE  ClientsOK'
  BY <1>5 DEF RemoveAllSinks, Spawn, PCs, ClientsOK
<1>6. ASSUME NEW c \in Clients, HotUpdateSink(c)
      PROVE  ClientsOK'
  BY <1>6 DEF HotUpdateSink, PCs, ClientsOK
<1>7. ASSUME NEW c \in Clients, AddSinkWaited(c)
      PROVE  ClientsOK'
  BY <1>7 DEF AddSinkWaited, PCs, ClientsOK
<1>8. ASSUME NEW c \in Clients, RemoveSinkSpawns(c)
      PROVE  ClientsOK'
  BY <1>8 DEF RemoveSinkSpawns, Spawn, PCs, ClientsOK
<1>9. ASSUME NEW c \in Clients, RemovalReturns(c)
      PROVE  ClientsOK'
  BY <1>9 DEF RemovalReturns, PCs, ClientsOK
<1>10. ASSUME NEW c \in Clients, HandleCall(c)
      PROVE  ClientsOK'
  BY <1>10 DEF HandleCall, PCs, ClientsOK
<1>11. ASSUME NEW c \in Clients, CallReturns(c)
      PROVE  ClientsOK'
  BY <1>11 DEF CallReturns, PCs, ClientsOK
<1>12. CASE DtorRemoveAllSinks
  BY <1>12 DEF DtorRemoveAllSinks, Spawn, PCs, ClientsOK
<1>13. CASE DtorReset
  BY <1>13 DEF DtorReset, PCs, ClientsOK
<1>14. CASE DtorJoin
  BY <1>14 DEF DtorJoin, PCs, ClientsOK
<1>15. CASE DtorReturns
  BY <1>15 DEF DtorReturns, PCs, ClientsOK
<1>16. CASE BgAdd
  BY <1>16 DEF BgAdd, ClientsOK
<1>17. CASE TaskReturns
  BY <1>17 DEF TaskReturns, Exits, Answers, ClientsOK
<1>18. CASE \/ \E c \in Clients : \E m \in Msgs : Save(c, m)
            \/ \E t \in Threads : Release(t) \/ JoinSink(t)
            \/ \E k \in Sinks : SinkRuns(k)
            \/ \E k \in Sinks : \E m \in Msgs : SinkCrashes(k, m)
            \/ BgSave \/ BgRemove \/ BgClear \/ BgUpdate \/ BgFatal \/ BgDone
  <2>1. UNCHANGED <<pc, fut, exited, calls>>
    BY <1>18 DEF Save, Release, JoinSink, SinkRuns, SinkCrashes, BgSave, BgRemove, BgClear,
                 BgUpdate, BgFatal, BgDone, worker, sinkvar, hands, log, history
  <2> QED BY <2>1 DEF ClientsOK
<1>19. CASE UNCHANGED vars
  BY <1>19 DEF vars, ClientsOK
<1> QED BY <1>1, <1>2, <1>3, <1>4, <1>5, <1>6, <1>7, <1>8, <1>9, <1>10, <1>11, <1>12, <1>13, <1>14,
           <1>15, <1>16, <1>17, <1>18, <1>19
       DEF Next, ClientGoesOn, WorkerStep, Dtor

(* What the clients know keeps its type.                                        *)
LEMMA HistoryOKStep ==
  ASSUME HistoryOK, [Next]_vars
  PROVE  HistoryOK'
<1> USE LogWorkerAssumption
<1>1. ASSUME NEW c \in Clients, NEW m \in Msgs, Save(c, m)
      PROVE  HistoryOK'
  <2>1. Append(saved, m) \in Seq(Msgs)
    BY SeqTypes DEF HistoryOK
  <2> QED BY <1>1, <2>1 DEF Save, RecordSave, AllLeave, HistoryOK
<1>2. ASSUME NEW c \in Clients, NEW m \in Msgs, Fatal(c, m)
      PROVE  HistoryOK'
  <2>1. Append(saved, m) \in Seq(Msgs)
    BY SeqTypes DEF HistoryOK
  <2> QED BY <1>2, <2>1 DEF Fatal, RecordSave, AllLeave, HistoryOK
<1>3. ASSUME NEW k \in Sinks, NEW m \in Msgs, SinkCrashes(k, m)
      PROVE  HistoryOK'
  <2>1. Append(saved, m) \in Seq(Msgs)
    BY SeqTypes DEF HistoryOK
  <2> QED BY <1>3, <2>1 DEF SinkCrashes, RecordSave, AllLeave, HistoryOK
<1>4. ASSUME NEW c \in Clients, NEW k \in Sinks, AddSink(c, k)
      PROVE  HistoryOK'
  BY <1>4 DEF AddSink, AllLeave, log, HistoryOK
<1>5. ASSUME NEW c \in Clients, NEW k \in Sinks, RemoveSink(c, k)
      PROVE  HistoryOK'
  BY <1>5 DEF RemoveSink, AllLeave, log, HistoryOK
<1>6. ASSUME NEW c \in Clients, RemoveAllSinks(c)
      PROVE  HistoryOK'
  BY <1>6 DEF RemoveAllSinks, AllLeave, log, HistoryOK
<1>7. ASSUME NEW c \in Clients, RemovalReturns(c)
      PROVE  HistoryOK'
  BY <1>7 DEF RemovalReturns, AllLeave, log, HistoryOK
<1>8. ASSUME NEW c \in Clients, CallReturns(c)
      PROVE  HistoryOK'
  BY <1>8 DEF CallReturns, AllLeave, log, HistoryOK
<1>9. CASE DtorRemoveAllSinks
  BY <1>9 DEF DtorRemoveAllSinks, AllLeave, log, HistoryOK
<1>10. CASE \/ \E c \in Clients : \E k \in Sinks : LockHandle(c, k)
            \/ \E c \in Clients : HotUpdateSink(c) \/ AddSinkWaited(c) \/ RemoveSinkSpawns(c)
                                    \/ HandleCall(c)
            \/ \E t \in Threads : Release(t) \/ JoinSink(t)
            \/ \E k \in Sinks : SinkRuns(k)
            \/ BgSave \/ BgAdd \/ BgRemove \/ BgClear \/ BgUpdate \/ BgFatal \/ BgDone
                 \/ TaskReturns \/ DtorReset \/ DtorJoin \/ DtorReturns
  <2>1. UNCHANGED <<saved, due, foreign, member, handles, arg>>
    BY <1>10 DEF LockHandle, HotUpdateSink, AddSinkWaited, RemoveSinkSpawns, HandleCall, Release,
                 JoinSink, SinkRuns, BgSave, BgAdd, BgRemove, BgClear, BgUpdate, BgFatal, BgDone,
                 TaskReturns, DtorReset, DtorJoin, DtorReturns, worker, sinkvar, hands, log,
                 history
  <2> QED BY <2>1 DEF HistoryOK
<1>11. CASE UNCHANGED vars
  BY <1>11 DEF vars, history, log, HistoryOK
<1> QED BY <1>1, <1>2, <1>3, <1>4, <1>5, <1>6, <1>7, <1>8, <1>9, <1>10, <1>11
       DEF Next, ClientGoesOn, WorkerStep, Dtor

(* LockHandle puts a sink into the client's hand; Release waits for the call.   *)
LEMMA CallStep ==
  ASSUME HandsOK, ClientsOK, CallInv, [Next]_vars
  PROVE  CallInv'
<1> USE LogWorkerAssumption DEF CallInv
<1>1. ASSUME NEW c \in Clients, NEW k \in Sinks, LockHandle(c, k)
      PROVE  CallInv'
  BY <1>1 DEF LockHandle, HandsOK, ClientsOK, Threads
<1>2. ASSUME NEW c \in Clients, NEW k \in Sinks, AddSink(c, k) \/ RemoveSink(c, k)
      PROVE  CallInv'
  BY <1>2 DEF AddSink, RemoveSink, ClientsOK, HandsOK, Threads
<1>3. CASE \/ \E c \in Clients : \E m \in Msgs : Fatal(c, m)
           \/ \E c \in Clients : RemoveAllSinks(c) \/ HotUpdateSink(c) \/ AddSinkWaited(c)
                                   \/ RemoveSinkSpawns(c) \/ RemovalReturns(c)
                                   \/ HandleCall(c) \/ CallReturns(c)
           \/ DtorRemoveAllSinks \/ DtorReset \/ DtorReturns
  <2>1. /\ held' = held
        /\ \E l \in PCs \ {"calling"}, d \in Clients : pc' = [pc EXCEPT ![d] = l]
    BY <1>3 DEF Fatal, RemoveAllSinks, HotUpdateSink, AddSinkWaited, RemoveSinkSpawns,
                RemovalReturns, HandleCall, CallReturns, DtorRemoveAllSinks, DtorReset,
                DtorReturns, PCs, hands
  <2> QED BY <2>1 DEF CallInv, ClientsOK
<1>4. ASSUME NEW t \in Threads, Release(t)
      PROVE  CallInv'
  BY <1>4 DEF Release, MayRelease, CallInv, HandsOK, ClientsOK, Threads
<1>5. CASE BgRemove \/ BgClear \/ BgUpdate \/ BgFatal
  <2>1. pc' = pc /\ \A c \in Clients : held'[c] = held[c]
    BY <1>5 DEF BgRemove, BgClear, BgUpdate, BgFatal, ClearSinks, HandsOK, Threads
  <2> QED BY <2>1 DEF CallInv
<1>6. CASE DtorJoin
  BY <1>6 DEF DtorJoin, CallInv, ClientsOK, HandsOK, Threads
<1>7. CASE \/ \E c \in Clients : \E m \in Msgs : Save(c, m)
           \/ \E t \in Threads : JoinSink(t)
           \/ \E k \in Sinks : SinkRuns(k)
           \/ \E k \in Sinks : \E m \in Msgs : SinkCrashes(k, m)
           \/ BgSave \/ BgAdd \/ BgDone \/ TaskReturns
  <2>1. UNCHANGED <<held, pc>>
    BY <1>7 DEF Save, JoinSink, SinkRuns, SinkCrashes, BgSave, BgAdd, BgDone, TaskReturns, worker,
                sinkvar, hands, log, history
  <2> QED BY <2>1
<1>8. CASE UNCHANGED vars
  BY <1>8 DEF vars, hands
<1> QED BY <1>1, <1>2, <1>3, <1>4, <1>5, <1>6, <1>7, <1>8
       DEF Next, ClientGoesOn, WorkerStep, Dtor

--------------------------------------------------------------------------------
(* The invariants                                                               *)

(* Threads hold, or join, a sink only in the middle of a call or a task.        *)
HeldInv ==
   /\ \A c \in Clients :
         /\ pc[c] \notin {"adding", "locking", "calling", "releasing", "dtor_sinks"} => held[c] = <<>>
         /\ pc[c] \notin {"locking", "releasing", "dtor_sinks"} => joining[c] = None
   /\ task = None => held[Worker] = <<>> /\ joining[Worker] = None

(* A sink gets into the vector once.                                            *)
Adds(t, k) == t.op = "add" /\ t.k = k
OnceInv ==
   /\ NoTwins(sinks)
   /\ \A n \in DOMAIN wq : wq[n].op = "add" =>
         /\ wq[n].k \notin Range(sinks)
         /\ \A j \in DOMAIN wq : Adds(wq[j], wq[n].k) => j = n

(* The end of a sink's thread is the last thing in its queue,                   *)
(* and it comes when nobody owns the sink.                                      *)
EndsLast(k) ==
   /\ state[k] \in {"new", "alive"} => "done" \notin Range(sq[k])
   /\ \A n \in DOMAIN sq[k] : sq[k][n] = "done" => n = Len(sq[k])
   /\ state[k] \in {"new", "stopped", "dead"} => sq[k] = <<>>
StopInv == \A k \in Sinks : EndsLast(k)

(* Who joins a sink, and nobody else, ends it.                                  *)
JoinInv ==
   /\ \A k \in Sinks : state[k] \in {"dying", "stopped"} => \E t \in Threads : joining[t] = k
   /\ \A t \in Threads : joining[t] # None => state[joining[t]] \in {"dying", "stopped"}
   /\ \A t, u \in Threads : joining[t] # None /\ joining[t] = joining[u] => t = u

(* The end of the worker is the last thing in its queue.                        *)
EndInv ==
   /\ \A n \in DOMAIN wq : wq[n].op = "done" => n = Len(wq) /\ BgIsNull
   /\ ended => BgIsNull /\ wq = <<>>

(* A client waits for at most one task.                                         *)
Awaited(t, c) == t.op \in {"add", "remove", "clear"} /\ t.c = c
Awaits(c, t) ==
   /\ fut[c] = "pending"
   /\ t.op = "add" => pc[c] = "adding" /\ arg[c] = {t.k}
   /\ t.op = "remove" => pc[c] = "removing" /\ arg[c] = {t.k}
   /\ t.op = "clear" => pc[c] \in {"clearing", "dtor_clear"}
OneTask(c) ==
   /\ \A n \in DOMAIN wq : Awaited(wq[n], c) =>
         /\ Awaits(c, wq[n])
         /\ \A j \in DOMAIN wq : Awaited(wq[j], c) => j = n
         /\ task # None => ~Awaited(task, c)
   /\ task # None /\ Awaited(task, c) => Awaits(c, task)
TaskInv ==
   /\ task # None => task.op \in {"remove", "clear", "update", "fatal"}
   /\ \A c \in Clients : OneTask(c)

(* What the calls of the clients are about: a new sink, or one that is known.   *)
InAdd == {"adding", "releasing"}
InRemoval == {"locking", "removing", "clearing"}
Known(k) == \/ member[k] \in {"open", "left"} \/ k \in handles
            \/ \E c \in Clients : pc[c] \in InRemoval /\ k \in arg[c]
IsAbout(c) ==
   /\ arg[c] # {} => pc[c] \in InAdd \cup InRemoval
   /\ pc[c] \in {"adding", "locking", "removing"} => \E k \in Sinks : arg[c] = {k}
   /\ pc[c] \in InAdd =>
         \A k \in arg[c] : /\ ~Known(k)
                           /\ \A d \in Clients \ {c} : pc[d] \in InAdd => k \notin arg[d]
   /\ pc[c] \in InRemoval => \A k \in arg[c] : member[k] \in {"leaving", "left"}
   /\ \A k \in arg[c] : state[k] # "new"
NewOrNot(k) ==
   /\ member[k] = "none" <=> state[k] = "new"
   /\ Known(k) => state[k] # "new"
   /\ member[k] = "adding" => \E c \in Clients : pc[c] \in InAdd /\ k \in arg[c]
ArgInv == /\ \A c \in Clients : IsAbout(c)
          /\ \A k \in Sinks : NewOrNot(k)

(* A sink whose addSink has returned is in the vector, with no removal ahead.   *)
Removes(t, k) == t.op \in {"clear", "fatal"} \/ (t.op = "remove" /\ t.k = k)
Attached(k) == k \in Range(sinks) /\ \A n \in DOMAIN wq : ~Removes(wq[n], k)
OnItsWay(k) == \E n \in DOMAIN wq : /\ Adds(wq[n], k)
                                    /\ \A j \in DOMAIN wq : j > n => ~Removes(wq[j], k)
OpenAt(k) == /\ member[k] = "open" => Attached(k)
             /\ member[k] = "adding" => Attached(k) \/ OnItsWay(k)
OpenInv == ~BgIsNull => \A k \in Sinks : OpenAt(k)

(* A message that is due is in the sink, its queue, or ahead of the sink's removal. *)
Carries(t, m) == t.op \in {"save", "fatal"} /\ t.m = m
Arrived(k) == (Range(got[k]) \cup Range(sq[k])) \cap Msgs
IsComing(m, k) == /\ k \in Range(sinks)
                  /\ \E n \in DOMAIN wq : /\ Carries(wq[n], m)
                                          /\ \A j \in DOMAIN wq : j < n => ~Removes(wq[j], k)
DueAt(k) == /\ \A m \in due[k] : m \in Arrived(k) \/ IsComing(m, k)
            /\ due[k] # {} => state[k] # "new" /\ \A n \in DOMAIN wq : ~Adds(wq[n], k)
DueInv == \A k \in Sinks : DueAt(k)

(* A removal that is over took the sink out of the vector.                      *)
Removed(k) == ~BgIsNull /\ \/ member[k] = "left"
                           \/ \E c \in Clients : pc[c] \in {"removing", "clearing"} /\ k \in arg[c] /\ fut[c] # "pending"
Gone(k) == k \notin Range(sinks) /\ (task # None /\ task.op \in {"clear", "fatal"} => ~Uses(Worker, k))
GoingFor(c, k) == \E n \in DOMAIN wq : Awaited(wq[n], c) /\ Removes(wq[n], k)
GoneInv ==
   /\ \A k \in Sinks : Removed(k) => Gone(k)
   /\ \A c \in Clients : ~BgIsNull /\ pc[c] \in {"removing", "clearing"} /\ fut[c] = "pending" =>
         \A k \in arg[c] : k \notin Range(sinks) \/ GoingFor(c, k)

(* Every message on its way was queued, once.                                   *)
SavedInv ==
   /\ \A n \in DOMAIN wq : wq[n].op \in {"save", "fatal"} => wq[n].m \in Range(saved)
   /\ \A k \in Sinks : Arrived(k) \cup due[k] \cup foreign[k] \subseteq Range(saved)

(* A foreign message is not on its way to the sink.                             *)
Avoids(m, k) == \A n \in DOMAIN wq : Carries(wq[n], m) =>
                   /\ k \notin Range(sinks)
                   /\ \A j \in DOMAIN wq : j < n => ~Adds(wq[j], k)
ForeignInv == \A k \in Sinks : \A m \in foreign[k] : m \notin Arrived(k) /\ Avoids(m, k)

(* A fatal message lets go of all sinks before the process ends.                *)
ExitInv ==
   /\ task # None /\ task.op = "fatal" => sinks = <<>>
   /\ exited => task = None /\ sinks = <<>>

(* What is in the worker's queue after it was given a task, ...                 *)
LEMMA EnqueueAt ==
  ASSUME WorkerOK, NEW e \in Tasks, wq' = Append(wq, e)
  PROVE  /\ Len(wq) \in Nat /\ DOMAIN wq = 1..Len(wq)
         /\ Len(wq') = Len(wq) + 1 /\ DOMAIN wq' = 1..(Len(wq) + 1)
         /\ wq'[Len(wq) + 1] = e
         /\ \A n \in DOMAIN wq : n \in DOMAIN wq' /\ wq'[n] = wq[n] /\ n # Len(wq) + 1
         /\ \A n \in DOMAIN wq' : n \in DOMAIN wq \/ n = Len(wq) + 1
<1>1. wq \in Seq(Tasks)
  BY DEF WorkerOK
<1>2. Len(wq) \in Nat /\ DOMAIN wq = 1..Len(wq)
  BY <1>1, LenProperties
<1> QED BY <1>1, <1>2, AppendAt

(* ... and after it has taken one.                                              *)
LEMMA TakeAt ==
  ASSUME WorkerOK, wq # <<>>, wq' = Tail(wq)
  PROVE  /\ Len(wq) \in Nat /\ Len(wq) > 0 /\ DOMAIN wq = 1..Len(wq)
         /\ Len(wq') = Len(wq) - 1 /\ DOMAIN wq' = 1..(Len(wq) - 1)
         /\ Head(wq) \in Tasks /\ Head(wq) = wq[1] /\ 1 \in DOMAIN wq
         /\ \A n \in DOMAIN wq' : n + 1 \in DOMAIN wq /\ wq'[n] = wq[n + 1] /\ n + 1 # 1
         /\ \A n \in DOMAIN wq : n = 1 \/ (n - 1 \in DOMAIN wq' /\ wq'[n - 1] = wq[n])
<1>1. wq \in Seq(Tasks)
  BY DEF WorkerOK
<1>2. /\ Len(wq) \in Nat /\ Len(wq) > 0 /\ DOMAIN wq = 1..Len(wq)
      /\ Len(wq') = Len(wq) - 1 /\ DOMAIN wq' = 1..(Len(wq) - 1)
      /\ Head(wq) \in Tasks /\ Head(wq) = wq[1]
      /\ \A n \in 1..(Len(wq) - 1) : wq'[n] = wq[n + 1]
  BY <1>1, TailAt
<1>3. /\ 1 \in DOMAIN wq
      /\ \A n \in DOMAIN wq' : n + 1 \in DOMAIN wq /\ wq'[n] = wq[n + 1] /\ n + 1 # 1
  BY <1>2
<1>4. ASSUME NEW n \in DOMAIN wq, n # 1 PROVE n - 1 \in DOMAIN wq' /\ wq'[n - 1] = wq[n]
  <2>1. n - 1 \in 1..(Len(wq) - 1) /\ (n - 1) + 1 = n
    BY <1>2, <1>4
  <2> QED BY <1>2, <2>1
<1> QED BY <1>2, <1>3, <1>4

(* A queued task that owns a shared_ptr to a sink.                              *)
Queued(k) == \E n \in DOMAIN wq : wq[n].op \in {"add", "update"} /\ wq[n].k = k

(* Who is owned by a queued task, after one more was queued, ...                *)
LEMMA EnqueueOwns ==
  ASSUME WorkerOK, NEW e \in Tasks, wq' = Append(wq, e)
  PROVE  \A k \in Sinks : Queued(k)' <=> Queued(k) \/ (e.op \in {"add", "update"} /\ e.k = k)
<1>1. Len(wq) + 1 \in DOMAIN wq'
  BY EnqueueAt
<1>2. ASSUME NEW k \in Sinks, Queued(k) \/ (e.op \in {"add", "update"} /\ e.k = k) PROVE Queued(k)'
  BY <1>1, <1>2, EnqueueAt DEF Queued
<1>3. ASSUME NEW k \in Sinks, Queued(k)' PROVE Queued(k) \/ (e.op \in {"add", "update"} /\ e.k = k)
  BY <1>3, EnqueueAt DEF Queued
<1> QED BY <1>2, <1>3

(* ... and before one was taken out.                                            *)
LEMMA TakeOwns ==
  ASSUME WorkerOK, wq # <<>>, wq' = Tail(wq)
  PROVE  \A k \in Sinks : Queued(k) <=> Queued(k)' \/ (Head(wq).op \in {"add", "update"} /\ Head(wq).k = k)
<1>1. ASSUME NEW k \in Sinks, Queued(k)
      PROVE Queued(k)' \/ (Head(wq).op \in {"add", "update"} /\ Head(wq).k = k)
  <2>1. PICK n \in DOMAIN wq : wq[n].op \in {"add", "update"} /\ wq[n].k = k
    BY <1>1 DEF Queued
  <2>2. CASE n = 1
    BY <2>1, <2>2, TakeAt
  <2>3. CASE n # 1
    BY <2>1, <2>3, TakeAt DEF Queued
  <2> QED BY <2>2, <2>3
<1>2. ASSUME NEW k \in Sinks, Queued(k)' \/ (Head(wq).op \in {"add", "update"} /\ Head(wq).k = k)
      PROVE Queued(k)
  BY <1>2, TakeAt DEF Queued
<1> QED BY <1>1, <1>2

--------------------------------------------------------------------------------
(* Sinks in hand, and ownership                                                 *)

(* Nobody starts a call, and the worker no task, with sinks still in hand.      *)
LEMMA HeldStep ==
  ASSUME WorkerOK, HandsOK, ClientsOK, HeldInv, [Next]_vars
  PROVE  HeldInv'
<1> USE LogWorkerAssumption DEF HeldInv
<1>1. ASSUME NEW c \in Clients, NEW k \in Sinks, AddSink(c, k) \/ RemoveSink(c, k) \/ LockHandle(c,
             k)
      PROVE  HeldInv'
  <2>1. /\ pc[c] = "idle" /\ joining' = joining /\ task' = task
        /\ \E l \in {"adding", "locking", "calling"} : pc' = [pc EXCEPT ![c] = l]
        /\ \E s \in {<<>>, <<k>>} : held' = [held EXCEPT ![c] = s]
    BY <1>1 DEF AddSink, RemoveSink, LockHandle, Idle, worker
  <2>2. c # Worker
    OBVIOUS
  <2> QED BY <2>1, <2>2 DEF HandsOK, ClientsOK, Threads
<1>2. CASE \/ \E c \in Clients : \E m \in Msgs : Fatal(c, m)
           \/ \E c \in Clients : RemoveAllSinks(c) \/ HotUpdateSink(c) \/ AddSinkWaited(c)
                                   \/ RemoveSinkSpawns(c) \/ RemovalReturns(c)
                                   \/ HandleCall(c) \/ CallReturns(c)
           \/ DtorRemoveAllSinks \/ DtorReset \/ DtorReturns
  <2>1. /\ UNCHANGED <<held, joining, task>>
        /\ \E c \in Clients, l \in PCs :
              /\ pc' = [pc EXCEPT ![c] = l]
              /\ \/ pc[c] \in {"idle", "removing", "clearing", "dtor_clear"}
                 \/ held[c] = <<>> /\ joining[c] = None
                 \/ l = "releasing"
    BY <1>2 DEF Fatal, RemoveAllSinks, HotUpdateSink, AddSinkWaited, RemoveSinkSpawns,
                RemovalReturns, HandleCall, CallReturns, DtorRemoveAllSinks, DtorReset,
                DtorReturns, PCs, hands, worker, Idle
  <2> QED BY <2>1 DEF HandsOK, ClientsOK, Threads, PCs
<1>3. ASSUME NEW t \in Threads, Release(t)
      PROVE  HeldInv'
  <2>1. /\ MayRelease(t) /\ UNCHANGED <<pc, task>>
        /\ \E s \in Seq(Sinks) : held' = [held EXCEPT ![t] = s]
        /\ \E k \in Sinks \cup {None} : joining' = joining \/ joining' = [joining EXCEPT ![t] = k]
    <3>1. Head(held[t]) \in Sinks /\ Tail(held[t]) \in Seq(Sinks)
      BY <1>3, SeqTypes DEF Release, HandsOK
    <3> QED BY <1>3, <3>1 DEF Release, worker
  <2> QED BY <2>1 DEF MayRelease, HandsOK, ClientsOK, Threads
<1>4. ASSUME NEW t \in Threads, JoinSink(t)
      PROVE  HeldInv'
  <2>1. UNCHANGED <<pc, task, held>> /\ joining' = [joining EXCEPT ![t] = None]
    BY <1>4 DEF JoinSink, worker
  <2> QED BY <2>1 DEF HandsOK, ClientsOK, Threads
<1>5. CASE BgRemove \/ BgClear \/ BgUpdate \/ BgFatal
  <2>1. /\ pc' = pc /\ joining' = joining /\ task' # None
        /\ \A c \in Clients : held'[c] = held[c]
    <3>1. Head(wq) # None
      BY <1>5, TaskSeqs DEF BgRemove, BgClear, BgUpdate, BgFatal, Take
    <3> QED BY <1>5, <3>1 DEF BgRemove, BgClear, BgUpdate, BgFatal, ClearSinks, HandsOK, Threads
  <2> QED BY <2>1
<1>6. CASE TaskReturns
  BY <1>6 DEF TaskReturns, hands
<1>7. CASE DtorJoin
  <2>1. /\ UNCHANGED <<joining, task>> /\ pc' = [pc EXCEPT ![Owner] = "dtor_sinks"]
        /\ \E s : held' = [held EXCEPT ![Owner] = s]
    BY <1>7 DEF DtorJoin
  <2> QED BY <2>1 DEF HandsOK, ClientsOK, Threads
<1>8. CASE \/ \E c \in Clients : \E m \in Msgs : Save(c, m)
           \/ \E k \in Sinks : SinkRuns(k)
           \/ \E k \in Sinks : \E m \in Msgs : SinkCrashes(k, m)
           \/ BgSave \/ BgAdd \/ BgDone
  <2>1. UNCHANGED <<held, joining, pc, task>>
    BY <1>8 DEF Save, SinkRuns, SinkCrashes, BgSave, BgAdd, BgDone, worker, sinkvar, hands, log,
                history
  <2> QED BY <2>1
<1>9. CASE UNCHANGED vars
  BY <1>9 DEF vars, worker, sinkvar, hands, log, history
<1> QED BY <1>1, <1>2, <1>3, <1>4, <1>5, <1>6, <1>7, <1>8, <1>9
       DEF Next, ClientGoesOn, WorkerStep, Dtor

(* What is in the empty and in the one element vector.                          *)
LEMMA SmallRanges ==
  Range(<<>>) = {} /\ \A x : Range(<<x>>) = {x}
BY DEF Range

(* Who owns a sink, with the threads that hold it by themselves.                *)
HeldBy(k) == \E t \in Threads : k \in Range(held[t])

(* The three ways to own a sink.                                                *)
LEMMA OwnedBy ==
  \A k \in Sinks : /\ Owned(k) <=> k \in Range(sinks) \/ HeldBy(k) \/ Queued(k)
                   /\ Owned(k)' <=> k \in Range(sinks') \/ HeldBy(k)' \/ Queued(k)'
BY DEF Owned, HeldBy, Queued

(* A thread with empty hands picks up sinks; the others keep theirs.            *)
LEMMA PickUp ==
  ASSUME NEW t \in Threads, held[t] = <<>>, \A u \in Threads \ {t} : held'[u] = held[u]
  PROVE  \A k \in Sinks : HeldBy(k)' <=> HeldBy(k) \/ k \in Range(held'[t])
<1>2. Range(held[t]) = {}
  BY SmallRanges
<1>3. ASSUME NEW k \in Sinks, HeldBy(k)' PROVE HeldBy(k) \/ k \in Range(held'[t])
  BY <1>3 DEF HeldBy
<1>4. ASSUME NEW k \in Sinks, HeldBy(k) PROVE HeldBy(k)'
  BY <1>2, <1>4 DEF HeldBy
<1>5. ASSUME NEW k \in Sinks, k \in Range(held'[t]) PROVE HeldBy(k)'
  BY <1>5 DEF HeldBy
<1> QED BY <1>3, <1>4, <1>5

(* No step makes a sink lose its last owner but Release, which ends it, and     *)
(* none takes a sink into its hands that has entered ~Sink.                     *)
LEMMA OwnerStep ==
  ASSUME WorkerOK, SinksOK, HandsOK, ClientsOK, HistoryOK, CallInv, HeldInv, OnceInv, StopInv,
         OwnedIffAlive, [Next]_vars
  PROVE  OwnedIffAlive'
<1> USE LogWorkerAssumption
<1>1. ASSUME NEW c \in Clients, NEW k \in Sinks, AddSink(c, k)
      PROVE  OwnedIffAlive'
  <2>1. /\ held[c] = <<>> /\ state[k] = "new" /\ sinks' = sinks
        /\ state' = [state EXCEPT ![k] = "alive"] /\ held' = [held EXCEPT ![c] = <<k>>]
    BY <1>1 DEF AddSink, Idle, HeldInv
  <2>2. \A j \in Sinks : Queued(j)' => Queued(j) \/ j = k
    <3>1. wq' = wq \/ wq' = Append(wq, [op |-> "add", k |-> k, c |-> c])
      BY <1>1 DEF AddSink, Spawn, Enqueue
    <3> QED BY <3>1, EnqueueOwns, TaskTypes DEF Queued
  <2>3. \A j \in Sinks : Queued(j) => Queued(j)'
    <3>1. wq' = wq \/ wq' = Append(wq, [op |-> "add", k |-> k, c |-> c])
      BY <1>1 DEF AddSink, Spawn, Enqueue
    <3> QED BY <3>1, EnqueueOwns, TaskTypes DEF Queued
  <2>4. \A j \in Sinks : HeldBy(j)' <=> HeldBy(j) \/ j = k
    <3>1. c \in Threads /\ held'[c] = <<k>> /\ \A u \in Threads \ {c} : held'[u] = held[u]
      BY <2>1 DEF HandsOK, Threads
    <3>2. Range(held'[c]) = {k}
      BY <3>1, SmallRanges
    <3> QED BY <2>1, <3>1, <3>2, PickUp
  <2> QED BY <2>1, <2>2, <2>3, <2>4, OwnedBy DEF OwnedIffAlive, SinksOK
<1>2. ASSUME NEW c \in Clients, NEW k \in Sinks, RemoveSink(c, k) \/ LockHandle(c, k)
      PROVE  OwnedIffAlive'
  <2>1. /\ held[c] = <<>> /\ UNCHANGED <<sinks, state, wq>>
        /\ \E s \in Seq(Sinks) : /\ held' = [held EXCEPT ![c] = s]
                                 /\ \A j \in Range(s) : state[j] = "alive"
    <3>1. <<k>> \in Seq(Sinks) /\ Range(<<k>>) = {k} /\ <<>> \in Seq(Sinks) /\ Range(<<>>) = {}
      BY SeqTypes, SmallRanges
    <3> QED BY <1>2, <3>1 DEF RemoveSink, LockHandle, Lockable, Idle, HeldInv, worker, sinkvar
  <2>2. PICK s \in Seq(Sinks) : held' = [held EXCEPT ![c] = s] /\ \A j \in Range(s) : state[j] = "alive"
    BY <2>1
  <2>3. c \in Threads /\ held'[c] = s /\ \A u \in Threads \ {c} : held'[u] = held[u]
    BY <2>2 DEF HandsOK, Threads
  <2>4. \A j \in Sinks : HeldBy(j)' <=> HeldBy(j) \/ j \in Range(s)
    BY <2>1, <2>3, PickUp
  <2> QED BY <2>1, <2>2, <2>4, OwnedBy DEF OwnedIffAlive, Queued
<1>3. CASE \/ \E c \in Clients : \E m \in Msgs : Save(c, m) \/ Fatal(c, m)
           \/ \E k \in Sinks : \E m \in Msgs : SinkCrashes(k, m)
           \/ \E c \in Clients : RemoveAllSinks(c) \/ RemoveSinkSpawns(c)
           \/ DtorRemoveAllSinks \/ DtorReset
  <2>1. /\ UNCHANGED <<sinks, state, held>>
        /\ \/ wq' = wq
           \/ \E e \in Tasks : e.op \notin {"add", "update"} /\ wq' = Append(wq, e)
    BY <1>3, TaskTypes DEF Save, Fatal, SinkCrashes, RemoveAllSinks, RemoveSinkSpawns,
                           DtorRemoveAllSinks, DtorReset, Spawn, Enqueue, hands, sinkvar,
                           HistoryOK
  <2>2. \A j \in Sinks : Queued(j)' <=> Queued(j)
    BY <2>1, EnqueueOwns DEF Queued
  <2> QED BY <2>1, <2>2, OwnedBy DEF OwnedIffAlive, HeldBy
<1>4. ASSUME NEW c \in Clients, HotUpdateSink(c)
      PROVE  OwnedIffAlive'
  <2>1. /\ UNCHANGED <<sinks, state, held>> /\ held[c] # <<>>
        /\ wq' = Append(wq, [op |-> "update", k |-> Head(held[c])])
    BY <1>4 DEF HotUpdateSink, Enqueue, CallInv, hands, sinkvar
  <2>2. Head(held[c]) \in Sinks /\ Head(held[c]) \in Range(held[c])
    BY <2>1, SeqTypes, TailRange DEF HandsOK, Threads
  <2>3. \A j \in Sinks : Queued(j)' <=> Queued(j) \/ j = Head(held[c])
    BY <2>1, <2>2, EnqueueOwns, TaskTypes
  <2>4. HeldBy(Head(held[c]))
    BY <2>2 DEF HeldBy, Threads
  <2> QED BY <2>1, <2>2, <2>3, <2>4, OwnedBy DEF OwnedIffAlive, HeldBy
<1>5. ASSUME NEW t \in Threads, Release(t)
      PROVE  OwnedIffAlive'
  <2>1. /\ held[t] # <<>> /\ held' = [held EXCEPT ![t] = Tail(@)] /\ UNCHANGED <<wq, sinks>>
        /\ \E k \in {Head(held[t])} : \/ Owned(k)' /\ state' = state
                                      \/ ~Owned(k)' /\ state' = [state EXCEPT ![k] = "dying"]
    BY <1>5, ZenonT(60) DEF Release, worker
  <2>a. PICK k \in {Head(held[t])} : \/ Owned(k)' /\ state' = state
                                     \/ ~Owned(k)' /\ state' = [state EXCEPT ![k] = "dying"]
    BY <2>1
  <2>2. k \in Sinks /\ Range(held[t]) = {k} \cup Range(Tail(held[t]))
    BY <2>1, SeqTypes, TailRange DEF HandsOK
  <2>3. held'[t] = Tail(held[t]) /\ \A u \in Threads \ {t} : held'[u] = held[u]
    BY <2>1 DEF HandsOK
  <2>4. ASSUME NEW j \in Sinks \ {k} PROVE HeldBy(j)' <=> HeldBy(j)
    BY <2>2, <2>3 DEF HeldBy
  <2>5. HeldBy(k)
    BY <2>2 DEF HeldBy
  <2>6. state[k] = "alive"
    BY <2>2, <2>5, OwnedBy DEF OwnedIffAlive
  <2>7. ASSUME NEW j \in Sinks \ {k} PROVE Owned(j)' <=> Owned(j)
    <3>1. Queued(j)' <=> Queued(j)
      BY <2>1 DEF Queued
    <3> QED BY <2>1, <2>4, <3>1, OwnedBy
  <2>8. \A j \in Sinks \ {k} : state'[j] = state[j]
    BY <2>a, <2>2 DEF SinksOK
  <2>10. Owned(k)' <=> state'[k] = "alive"
    <3>1. [state EXCEPT ![k] = "dying"][k] = "dying"
      BY <2>2 DEF SinksOK
    <3> QED BY <2>a, <2>6, <3>1
  <2>11. \A j \in Sinks \ {k} : Owned(j)' <=> state'[j] = "alive"
    BY <2>7, <2>8 DEF OwnedIffAlive
  <2>12. ASSUME NEW j \in Sinks PROVE Owned(j)' <=> state'[j] = "alive"
    BY <2>10, <2>11
  <2> QED BY <2>12 DEF OwnedIffAlive
<1>6. ASSUME NEW t \in Threads, JoinSink(t)
      PROVE  OwnedIffAlive'
  <2>1. UNCHANGED <<wq, sinks, held>> /\ \E k \in Sinks : state[k] = "stopped" /\ state' = [state EXCEPT ![k] = "dead"]
    BY <1>6 DEF JoinSink, worker
  <2>2. \A k \in Sinks : state'[k] = "alive" <=> state[k] = "alive"
    BY <2>1 DEF SinksOK
  <2> QED BY <2>1, <2>2 DEF OwnedIffAlive, Owned
<1>7. ASSUME NEW k \in Sinks, SinkRuns(k)
      PROVE  OwnedIffAlive'
  <2>1. /\ UNCHANGED <<wq, sinks, held>> /\ sq[k] # <<>>
        /\ state' = IF Head(sq[k]) = "done" THEN [state EXCEPT ![k] = "stopped"] ELSE state
    BY <1>7 DEF SinkRuns, worker, hands
  <2>2. state[k] = "alive" => Head(sq[k]) # "done"
    <3>1. Head(sq[k]) \in Range(sq[k])
      BY <2>1, TailRange DEF SinksOK
    <3> QED BY <3>1 DEF StopInv, EndsLast
  <2>3. \A j \in Sinks : state'[j] = "alive" <=> state[j] = "alive"
    BY <2>1, <2>2 DEF SinksOK
  <2> QED BY <2>1, <2>3 DEF OwnedIffAlive, Owned
<1>8. CASE BgSave \/ BgDone
  <2>1. /\ wq # <<>> /\ wq' = Tail(wq) /\ Head(wq).op \notin {"add", "update"}
        /\ UNCHANGED <<sinks, state, held>>
    BY <1>8 DEF BgSave, BgDone, Take, hands, sinkvar
  <2>2. \A j \in Sinks : Queued(j)' <=> Queued(j)
    BY <2>1, TakeOwns
  <2> QED BY <2>1, <2>2, OwnedBy DEF OwnedIffAlive, HeldBy
<1>9. CASE BgAdd
  <2>1. /\ wq # <<>> /\ wq' = Tail(wq) /\ Head(wq).op = "add"
        /\ sinks' = Append(sinks, Head(wq).k)
        /\ UNCHANGED <<state, held>>
    BY <1>9 DEF BgAdd, Take, hands, sinkvar
  <2>2. Head(wq).k \in Sinks
    BY <2>1, TaskSeqs, TaskTypes
  <2>3. Range(sinks') = Range(sinks) \cup {Head(wq).k}
    BY <2>1, <2>2, AppendRange DEF WorkerOK
  <2>4. \A j \in Sinks : Queued(j) <=> Queued(j)' \/ Head(wq).k = j
    BY <2>1, TakeOwns
  <2> QED BY <2>1, <2>3, <2>4, OwnedBy DEF OwnedIffAlive, HeldBy
<1>10. CASE BgRemove
  <2>1. /\ wq # <<>> /\ wq' = Tail(wq) /\ Head(wq).op = "remove"
        /\ task = None /\ state' = state
        /\ IF state[Head(wq).k] = "alive"
           THEN sinks' = Erased(Head(wq).k) /\ held' = [held EXCEPT ![Worker] = <<Head(wq).k>>]
           ELSE UNCHANGED <<sinks, held>>
    BY <1>10 DEF BgRemove, Take, sinkvar
  <2>2. Head(wq).k \in Sinks
    BY <2>1, TaskSeqs, TaskTypes
  <2>3. \A j \in Sinks : Queued(j)' <=> Queued(j)
    BY <2>1, TakeOwns
  <2>4. CASE state[Head(wq).k] = "alive"
    <3>1. Range(sinks') = Range(sinks) \ {Head(wq).k}
      BY <2>1, <2>2, <2>4, ErasedAt DEF OnceInv
    <3>2. \A j \in Sinks : HeldBy(j)' <=> HeldBy(j) \/ j = Head(wq).k
      <4>1. Worker \in Threads /\ held[Worker] = <<>>
        BY <2>1 DEF HeldInv, Threads
      <4>2. held'[Worker] = <<Head(wq).k>> /\ \A u \in Threads \ {Worker} : held'[u] = held[u]
        BY <2>1, <2>4, <4>1 DEF HandsOK
      <4>3. Range(held'[Worker]) = {Head(wq).k}
        BY <4>2, SmallRanges
      <4> QED BY <4>1, <4>2, <4>3, PickUp
    <3> QED BY <2>1, <2>2, <2>3, <2>4, <3>1, <3>2, OwnedBy DEF OwnedIffAlive
  <2>5. CASE state[Head(wq).k] # "alive"
    BY <2>1, <2>3, <2>5, OwnedBy DEF OwnedIffAlive, HeldBy
  <2> QED BY <2>4, <2>5
<1>11. CASE BgClear \/ BgFatal
  <2>1. /\ wq # <<>> /\ wq' = Tail(wq) /\ Head(wq).op \notin {"add", "update"}
        /\ task = None /\ state' = state
        /\ held' = [held EXCEPT ![Worker] = sinks] /\ sinks' = <<>>
    BY <1>11 DEF BgClear, BgFatal, Take, ClearSinks, sinkvar
  <2>2. \A j \in Sinks : Queued(j)' <=> Queued(j)
    BY <2>1, TakeOwns
  <2>3. \A j \in Sinks : HeldBy(j)' <=> HeldBy(j) \/ j \in Range(sinks)
    <3>1. Worker \in Threads /\ held[Worker] = <<>>
      BY <2>1 DEF HeldInv, Threads
    <3>2. held'[Worker] = sinks /\ \A u \in Threads \ {Worker} : held'[u] = held[u]
      BY <2>1, <3>1 DEF HandsOK
    <3> QED BY <3>1, <3>2, PickUp
  <2> QED BY <2>1, <2>2, <2>3, OwnedBy, SmallRanges DEF OwnedIffAlive
<1>12. CASE BgUpdate
  <2>1. /\ wq # <<>> /\ wq' = Tail(wq) /\ Head(wq).op = "update"
        /\ task = None /\ UNCHANGED <<state, sinks>>
        /\ held' = [held EXCEPT ![Worker] = <<Head(wq).k>>]
    BY <1>12 DEF BgUpdate, Take
  <2>2. \A j \in Sinks : Queued(j) <=> Queued(j)' \/ Head(wq).k = j
    BY <2>1, TakeOwns
  <2>3. \A j \in Sinks : HeldBy(j)' <=> HeldBy(j) \/ j = Head(wq).k
    <3>1. Worker \in Threads /\ held[Worker] = <<>>
      BY <2>1 DEF HeldInv, Threads
    <3>2. held'[Worker] = <<Head(wq).k>> /\ \A u \in Threads \ {Worker} : held'[u] = held[u]
      BY <2>1, <3>1 DEF HandsOK
    <3>3. Range(held'[Worker]) = {Head(wq).k}
      BY <3>2, SmallRanges
    <3> QED BY <3>1, <3>2, <3>3, PickUp
  <2> QED BY <2>1, <2>2, <2>3, OwnedBy DEF OwnedIffAlive
<1>13. CASE DtorJoin
  <2>1. /\ held[Owner] = <<>> /\ UNCHANGED <<wq, state>>
        /\ held' = [held EXCEPT ![Owner] = sinks] /\ sinks' = <<>>
    BY <1>13 DEF DtorJoin, sinkvar, HeldInv
  <2>2. \A j \in Sinks : HeldBy(j)' <=> HeldBy(j) \/ j \in Range(sinks)
    <3>1. Owner \in Threads /\ held'[Owner] = sinks /\ \A u \in Threads \ {Owner} : held'[u] = held[u]
      BY <2>1 DEF HandsOK, Threads
    <3> QED BY <2>1, <3>1, PickUp
  <2> QED BY <2>1, <2>2, OwnedBy, SmallRanges DEF OwnedIffAlive, Queued
<1>14. CASE \/ \E c \in Clients : AddSinkWaited(c) \/ RemovalReturns(c) \/ HandleCall(c)
                                    \/ CallReturns(c)
            \/ TaskReturns \/ DtorReturns
  <2>1. UNCHANGED <<held, sinks, wq, state>>
    BY <1>14 DEF AddSinkWaited, RemovalReturns, HandleCall, CallReturns, TaskReturns, DtorReturns,
                 worker, sinkvar, hands, log, history
  <2> QED BY <2>1 DEF OwnedIffAlive, Owned
<1>15. CASE UNCHANGED vars
  BY <1>15 DEF vars, worker, sinkvar, hands, OwnedIffAlive, Owned
<1> QED BY <1>1, <1>2, <1>3, <1>4, <1>5, <1>6, <1>7, <1>8, <1>9, <1>10, <1>11, <1>12, <1>13, <1>14,
           <1>15
       DEF Next, ClientGoesOn, WorkerStep, Dtor

--------------------------------------------------------------------------------
(* The end of a sink                                                            *)

(* Whoever reaches a sink finds it alive.                                       *)
LEMMA OwnedAreAlive ==
  ASSUME OwnedIffAlive, WorkerOK, HandsOK
  PROVE  /\ \A k \in Range(sinks) : k \in Sinks /\ state[k] = "alive"
         /\ \A t \in Threads : held[t] # <<>> =>
               Head(held[t]) \in Sinks /\ state[Head(held[t])] = "alive"
         /\ \A n \in DOMAIN wq : wq[n].op \in {"add", "update"} =>
               wq[n].k \in Sinks /\ state[wq[n].k] = "alive"
         /\ wq # <<>> /\ Head(wq).op \in {"add", "update"} =>
               Head(wq).k \in Sinks /\ state[Head(wq).k] = "alive"
<1>1. \A k \in Range(sinks) : k \in Sinks
  BY DEF WorkerOK, Range
<1>2. \A t \in Threads : held[t] # <<>> => Head(held[t]) \in Sinks /\ Head(held[t]) \in Range(held[t])
  BY SeqTypes, TailRange DEF HandsOK
<1>3. \A n \in DOMAIN wq : wq[n] \in Tasks
  BY DEF WorkerOK
<1>4. wq # <<>> => 1 \in DOMAIN wq /\ Head(wq) = wq[1]
  BY TailAt DEF WorkerOK
<1>5. \A n \in DOMAIN wq : wq[n].op \in {"add", "update"} => wq[n].k \in Sinks /\ state[wq[n].k] = "alive"
  BY <1>3, TaskTypes DEF OwnedIffAlive, Owned
<1> QED BY <1>1, <1>2, <1>4, <1>5 DEF OwnedIffAlive, Owned

(* What comes last in a queue stays there while the queue shrinks.              *)
LEMMA TailEnds ==
  ASSUME NEW S, NEW s \in Seq(S), s # <<>>, NEW d, \A n \in DOMAIN s : s[n] = d => n = Len(s)
  PROVE  /\ \A n \in DOMAIN Tail(s) : Tail(s)[n] = d => n = Len(Tail(s))
         /\ Head(s) = d => Tail(s) = <<>>
<1>1. /\ Len(s) \in Nat /\ Len(s) > 0 /\ DOMAIN s = 1..Len(s) /\ Head(s) = s[1]
      /\ Len(Tail(s)) = Len(s) - 1 /\ DOMAIN Tail(s) = 1..(Len(s) - 1) /\ Tail(s) \in Seq(S)
      /\ \A n \in 1..(Len(s) - 1) : Tail(s)[n] = s[n + 1]
  BY TailAt
<1>2. ASSUME NEW n \in 1..(Len(s) - 1), Tail(s)[n] = d PROVE n = Len(s) - 1
  <2>1. n + 1 \in 1..Len(s) /\ s[n + 1] = d
    BY <1>1, <1>2
  <2>2. n + 1 = Len(s)
    BY <1>1, <2>1
  <2>3. n \in Int /\ Len(s) \in Int
    BY <1>1
  <2> QED BY <2>2, <2>3
<1>3. ASSUME Head(s) = d PROVE Tail(s) = <<>>
  <2>1. 1 \in DOMAIN s /\ s[1] = d
    BY <1>1, <1>3
  <2>2. Len(Tail(s)) = 0
    BY <1>1, <2>1
  <2> QED BY <1>1, <2>2, EmptySeq
<1> QED BY <1>1, <1>2, <1>3

(* What a step may do to the state of a sink whose queue it leaves alone.       *)
LEMMA StaysLast ==
  ASSUME SinksOK, NEW k \in Sinks, EndsLast(k), sq'[k] = sq[k],
         state'[k] = state[k] \/ (state[k] = "new" /\ state'[k] = "alive")
                              \/ (state[k] = "stopped" /\ state'[k] = "dead")
  PROVE  EndsLast(k)'
BY DEF EndsLast

(* What an owner puts in the queue of a sink is ahead of its end.               *)
LEMMA FedBeforeTheEnd ==
  ASSUME SinksOK, NEW k \in Sinks, EndsLast(k), state[k] = "alive", state'[k] = "alive",
         NEW e \in Msgs \cup {"call"}, sq'[k] = Append(sq[k], e)
  PROVE  EndsLast(k)'
<1>1. e # "done" /\ e \in Msgs \cup {"call", "done"}
  BY LogWorkerAssumption
<1>2. Range(sq'[k]) = Range(sq[k]) \cup {e}
  <2>1. sq[k] \in Seq(Msgs \cup {"call", "done"})
    BY DEF SinksOK
  <2>2. Range(Append(sq[k], e)) = Range(sq[k]) \cup {e}
    BY <1>1, <2>1, AppendRange
  <2> QED BY <2>2
<1>3. "done" \notin Range(sq'[k])
  BY <1>1, <1>2 DEF EndsLast
<1>4. \A n \in DOMAIN sq'[k] : sq'[k][n] # "done"
  BY <1>3 DEF Range
<1> QED BY <1>3, <1>4 DEF EndsLast

(* The end of a sink's thread stays the last thing in its queue.                *)
LEMMA StopStep ==
  ASSUME WorkerOK, SinksOK, HandsOK, CallInv, OwnedIffAlive, StopInv, [Next]_vars
  PROVE  StopInv'
<1> USE LogWorkerAssumption
<1>1. CASE \/ \E c \in Clients : \E k \in Sinks : AddSink(c, k)
           \/ \E t \in Threads : JoinSink(t)
  <2>1. /\ sq' = sq
        /\ \A j \in Sinks : \/ state'[j] = state[j]
                            \/ state[j] = "new" /\ state'[j] = "alive"
                            \/ state[j] = "stopped" /\ state'[j] = "dead"
    BY <1>1 DEF AddSink, JoinSink, SinksOK
  <2> QED BY <2>1, StaysLast DEF StopInv
<1>2. ASSUME NEW c \in Clients, HandleCall(c)
      PROVE  StopInv'
  <2>1. /\ held[c] # <<>> /\ state' = state
        /\ sq' = [sq EXCEPT ![Head(held[c])] = Append(@, "call")]
    BY <1>2 DEF HandleCall, CallInv
  <2>2. Head(held[c]) \in Sinks /\ state[Head(held[c])] = "alive"
    BY <2>1, OwnedAreAlive DEF Threads
  <2>3. ASSUME NEW k \in Sinks PROVE EndsLast(k)'
    <3>1. CASE k = Head(held[c])
      <4>1. sq'[k] = Append(sq[k], "call") /\ state[k] = "alive" /\ state'[k] = "alive" /\ EndsLast(k)
        BY <2>1, <2>2, <3>1 DEF SinksOK, StopInv
      <4> QED BY <4>1, FedBeforeTheEnd
    <3>2. CASE k # Head(held[c])
      <4>1. sq'[k] = sq[k] /\ state'[k] = state[k]
        BY <2>1, <3>2 DEF SinksOK
      <4> QED BY <4>1, StaysLast DEF StopInv
    <3> QED BY <3>1, <3>2
  <2> QED BY <2>3 DEF StopInv
<1>3. CASE BgUpdate
  <2>1. /\ wq # <<>> /\ Head(wq).op = "update" /\ state' = state
        /\ sq' = [sq EXCEPT ![Head(wq).k] = Append(@, "call")]
    BY <1>3 DEF BgUpdate, Take
  <2>2. Head(wq).k \in Sinks /\ state[Head(wq).k] = "alive"
    BY <2>1, OwnedAreAlive
  <2>3. ASSUME NEW k \in Sinks PROVE EndsLast(k)'
    <3>1. CASE k = Head(wq).k
      <4>1. sq'[k] = Append(sq[k], "call") /\ state[k] = "alive" /\ state'[k] = "alive" /\ EndsLast(k)
        BY <2>1, <2>2, <3>1 DEF SinksOK, StopInv
      <4> QED BY <4>1, FedBeforeTheEnd
    <3>2. CASE k # Head(wq).k
      <4>1. sq'[k] = sq[k] /\ state'[k] = state[k]
        BY <2>1, <3>2 DEF SinksOK
      <4> QED BY <4>1, StaysLast DEF StopInv
    <3> QED BY <3>1, <3>2
  <2> QED BY <2>3 DEF StopInv
<1>4. CASE BgSave \/ BgFatal
  <2>1. /\ wq # <<>> /\ Head(wq).op \in {"save", "fatal"} /\ state' = state
        /\ sq' = [k \in Sinks |-> IF k \in Range(sinks) THEN Append(sq[k], Head(wq).m) ELSE sq[k]]
    BY <1>4 DEF BgSave, BgFatal, Take, SendToSinks
  <2>2. Head(wq).m \in Msgs
    BY <2>1, TaskSeqs, TaskTypes
  <2>3. ASSUME NEW k \in Sinks PROVE EndsLast(k)'
    <3>1. CASE k \in Range(sinks)
      <4>1. sq'[k] = Append(sq[k], Head(wq).m) /\ state[k] = "alive" /\ state'[k] = "alive" /\ EndsLast(k)
        BY <2>1, <3>1, OwnedAreAlive DEF StopInv
      <4> QED BY <2>2, <4>1, FedBeforeTheEnd
    <3>2. CASE k \notin Range(sinks)
      <4>1. sq'[k] = sq[k] /\ state'[k] = state[k]
        BY <2>1, <3>2
      <4> QED BY <4>1, StaysLast DEF StopInv
    <3> QED BY <3>1, <3>2
  <2> QED BY <2>3 DEF StopInv
<1>5. ASSUME NEW t \in Threads, Release(t)
      PROVE  StopInv'
  <2>1. /\ held[t] # <<>>
        /\ \E k \in {Head(held[t])} : \/ UNCHANGED <<sq, state>>
                                      \/ /\ state' = [state EXCEPT ![k] = "dying"]
                                         /\ sq' = [sq EXCEPT ![k] = Append(@, "done")]
    BY <1>5 DEF Release, SendDone
  <2>2. PICK k \in {Head(held[t])} : \/ UNCHANGED <<sq, state>>
                                     \/ /\ state' = [state EXCEPT ![k] = "dying"]
                                        /\ sq' = [sq EXCEPT ![k] = Append(@, "done")]
    BY <2>1
  <2>3. k \in Sinks /\ state[k] = "alive"
    BY <2>1, OwnedAreAlive
  <2>4. CASE UNCHANGED <<sq, state>>
    BY <2>4 DEF StopInv, EndsLast
  <2>5. CASE /\ state' = [state EXCEPT ![k] = "dying"]
             /\ sq' = [sq EXCEPT ![k] = Append(@, "done")]
    <3>1. \A j \in Sinks \ {k} : sq'[j] = sq[j] /\ state'[j] = state[j]
      BY <2>5 DEF SinksOK
    <3>2. sq'[k] = Append(sq[k], "done") /\ state'[k] = "dying" /\ sq[k] \in Seq(Msgs \cup {"call", "done"})
      BY <2>3, <2>5 DEF SinksOK
    <3>3. "done" \notin Range(sq[k])
      BY <2>3 DEF StopInv, EndsLast
    <3>4. \A n \in DOMAIN sq[k] : sq[k][n] # "done"
      BY <3>3 DEF Range
    <3>5. \A n \in DOMAIN sq'[k] : sq'[k][n] = "done" => n = Len(sq'[k])
      BY <3>2, <3>4, AppendAt
    <3>6. EndsLast(k)'
      BY <3>2, <3>5 DEF EndsLast
    <3>7. \A j \in Sinks \ {k} : EndsLast(j)'
      BY <3>1, StaysLast DEF StopInv
    <3> QED BY <3>6, <3>7 DEF StopInv
  <2> QED BY <2>2, <2>4, <2>5
<1>6. ASSUME NEW k \in Sinks, SinkRuns(k)
      PROVE  StopInv'
  <2>1. /\ sq[k] # <<>> /\ sq' = [sq EXCEPT ![k] = Tail(@)] /\ state[k] \in {"alive", "dying"}
        /\ state' = IF Head(sq[k]) = "done" THEN [state EXCEPT ![k] = "stopped"] ELSE state
    BY <1>6 DEF SinkRuns
  <2>2. \A j \in Sinks \ {k} : sq'[j] = sq[j] /\ state'[j] = state[j]
    BY <2>1 DEF SinksOK
  <2>3. \A j \in Sinks \ {k} : EndsLast(j)'
    BY <2>2, StaysLast DEF StopInv
  <2>4. /\ sq'[k] = Tail(sq[k]) /\ sq[k] \in Seq(Msgs \cup {"call", "done"})
        /\ state'[k] = IF Head(sq[k]) = "done" THEN "stopped" ELSE state[k]
    BY <2>1 DEF SinksOK
  <2>5. EndsLast(k) /\ Range(sq[k]) = {Head(sq[k])} \cup Range(sq'[k])
    BY <2>1, <2>4, TailRange DEF StopInv
  <2>6. /\ \A n \in DOMAIN sq'[k] : sq'[k][n] = "done" => n = Len(sq'[k])
        /\ Head(sq[k]) = "done" => sq'[k] = <<>>
    <3>1. \A n \in DOMAIN sq[k] : sq[k][n] = "done" => n = Len(sq[k])
      BY <2>5 DEF EndsLast
    <3>2. /\ \A n \in DOMAIN Tail(sq[k]) : Tail(sq[k])[n] = "done" => n = Len(Tail(sq[k]))
          /\ Head(sq[k]) = "done" => Tail(sq[k]) = <<>>
      BY <2>1, <2>4, <3>1, TailEnds
    <3> QED BY <2>4, <3>2
  <2>7. state'[k] \in {"new", "alive"} => "done" \notin Range(sq'[k])
    BY <2>1, <2>4, <2>5 DEF EndsLast
  <2>8. state'[k] \in {"new", "stopped", "dead"} => sq'[k] = <<>>
    BY <2>1, <2>4, <2>6
  <2>9. EndsLast(k)'
    BY <2>6, <2>7, <2>8 DEF EndsLast
  <2> QED BY <2>3, <2>9 DEF StopInv
<1>7. CASE \/ \E c \in Clients : \E m \in Msgs : Save(c, m) \/ Fatal(c, m)
           \/ \E c \in Clients : \E k \in Sinks : RemoveSink(c, k) \/ LockHandle(c, k)
           \/ \E c \in Clients : RemoveAllSinks(c) \/ HotUpdateSink(c) \/ AddSinkWaited(c)
                                   \/ RemoveSinkSpawns(c) \/ RemovalReturns(c)
                                   \/ CallReturns(c)
           \/ \E k \in Sinks : \E m \in Msgs : SinkCrashes(k, m)
           \/ BgAdd \/ BgRemove \/ BgClear \/ BgDone \/ TaskReturns \/ DtorRemoveAllSinks
                \/ DtorReset \/ DtorJoin \/ DtorReturns
  <2>1. UNCHANGED <<sq, state>>
    BY <1>7 DEF Save, Fatal, RemoveSink, LockHandle, RemoveAllSinks, HotUpdateSink, AddSinkWaited,
                RemoveSinkSpawns, RemovalReturns, CallReturns, SinkCrashes, BgAdd, BgRemove,
                BgClear, BgDone, TaskReturns, DtorRemoveAllSinks, DtorReset, DtorJoin, DtorReturns,
                worker, sinkvar, hands, log, history
  <2> QED BY <2>1 DEF StopInv, EndsLast
<1>8. CASE UNCHANGED vars
  BY <1>8 DEF vars, sinkvar, StopInv, EndsLast
<1> QED BY <1>1, <1>2, <1>3, <1>4, <1>5, <1>6, <1>7, <1>8
       DEF Next, ClientGoesOn, WorkerStep, Dtor

(* A sink that ends is joined by the one thread that released it last.          *)
LEMMA JoinStep ==
  ASSUME WorkerOK, SinksOK, HandsOK, OwnedIffAlive, StopInv, JoinInv, [Next]_vars
  PROVE  JoinInv'
<1> USE LogWorkerAssumption
<1>1. ASSUME NEW c \in Clients, NEW k \in Sinks, AddSink(c, k)
      PROVE  JoinInv'
  <2>1. /\ joining' = joining /\ state[k] = "new"
        /\ state' = [state EXCEPT ![k] = "alive"]
    BY <1>1 DEF AddSink
  <2>2. \A j \in Sinks : \/ state'[j] = state[j]
                         \/ state[j] \notin {"dying", "stopped"} /\ state'[j] \notin {"dying", "stopped"}
    BY <2>1 DEF SinksOK
  <2> QED BY <2>1, <2>2 DEF JoinInv, HandsOK
<1>2. ASSUME NEW t \in Threads, Release(t)
      PROVE  JoinInv'
  <2>1. /\ held[t] # <<>> /\ joining[t] = None
        /\ \E k \in {Head(held[t])} : \/ UNCHANGED <<joining, state>>
                                      \/ /\ state' = [state EXCEPT ![k] = "dying"]
                                         /\ joining' = [joining EXCEPT ![t] = k]
    BY <1>2 DEF Release
  <2>2. PICK k \in {Head(held[t])} : \/ UNCHANGED <<joining, state>>
                                     \/ /\ state' = [state EXCEPT ![k] = "dying"]
                                        /\ joining' = [joining EXCEPT ![t] = k]
    BY <2>1
  <2>3. k \in Sinks /\ state[k] = "alive"
    BY <2>1, OwnedAreAlive
  <2>4. CASE UNCHANGED <<joining, state>>
    BY <2>4 DEF JoinInv
  <2>5. CASE /\ state' = [state EXCEPT ![k] = "dying"]
             /\ joining' = [joining EXCEPT ![t] = k]
    <3>1. /\ state'[k] = "dying" /\ \A j \in Sinks \ {k} : state'[j] = state[j]
          /\ joining'[t] = k /\ \A u \in Threads \ {t} : joining'[u] = joining[u]
          /\ k # None
      BY <2>3, <2>5, LogWorkerAssumption DEF SinksOK, HandsOK
    <3>2. \A u \in Threads : joining[u] # k
      BY <2>3, <3>1 DEF JoinInv
    <3>3. \A u \in Threads : joining[u] # None => joining[u] \in Sinks
      BY DEF HandsOK
    <3>4. \A j \in Sinks : state'[j] \in {"dying", "stopped"} => \E u \in Threads : joining'[u] = j
      BY <2>1, <3>1, LogWorkerAssumption DEF JoinInv
    <3>5. \A u \in Threads : joining'[u] # None => state'[joining'[u]] \in {"dying", "stopped"}
      BY <3>1, <3>2, <3>3 DEF JoinInv
    <3>6. \A u, w \in Threads : joining'[u] # None /\ joining'[u] = joining'[w] => u = w
      BY <3>1, <3>2 DEF JoinInv
    <3> QED BY <3>4, <3>5, <3>6 DEF JoinInv
  <2> QED BY <2>2, <2>4, <2>5
<1>3. ASSUME NEW t \in Threads, JoinSink(t)
      PROVE  JoinInv'
  <2>1. PICK k \in Sinks : joining[t] = k /\ state[k] = "stopped" /\ state' = [state EXCEPT ![k] = "dead"]
                           /\ joining' = [joining EXCEPT ![t] = None]
    BY <1>3 DEF JoinSink
  <2>2. /\ state'[k] = "dead" /\ \A j \in Sinks \ {k} : state'[j] = state[j]
        /\ joining'[t] = None /\ \A u \in Threads \ {t} : joining'[u] = joining[u]
        /\ k # None
    BY <2>1, LogWorkerAssumption DEF SinksOK, HandsOK
  <2>3. \A u \in Threads \ {t} : joining[u] # k
    BY <2>1, <2>2 DEF JoinInv
  <2>4. \A u \in Threads : joining[u] # None => joining[u] \in Sinks
    BY DEF HandsOK
  <2>5. \A j \in Sinks : state'[j] \in {"dying", "stopped"} => \E u \in Threads : joining'[u] = j
    BY <2>1, <2>2 DEF JoinInv
  <2>6. \A u \in Threads : joining'[u] # None => state'[joining'[u]] \in {"dying", "stopped"}
    BY <2>2, <2>3, <2>4 DEF JoinInv
  <2>7. \A u, w \in Threads : joining'[u] # None /\ joining'[u] = joining'[w] => u = w
    BY <2>2 DEF JoinInv
  <2> QED BY <2>5, <2>6, <2>7 DEF JoinInv
<1>4. ASSUME NEW k \in Sinks, SinkRuns(k)
      PROVE  JoinInv'
  <2>1. /\ joining' = joining /\ state[k] \in {"alive", "dying"} /\ sq[k] # <<>>
        /\ state' = IF Head(sq[k]) = "done" THEN [state EXCEPT ![k] = "stopped"] ELSE state
    BY <1>4 DEF SinkRuns, hands
  <2>2. state[k] = "alive" => Head(sq[k]) # "done"
    <3>1. Head(sq[k]) \in Range(sq[k])
      BY <2>1, TailRange DEF SinksOK
    <3> QED BY <3>1 DEF StopInv, EndsLast
  <2>3. \A j \in Sinks : state'[j] \in {"dying", "stopped"} <=> state[j] \in {"dying", "stopped"}
    BY <2>1, <2>2 DEF SinksOK
  <2> QED BY <2>1, <2>3 DEF JoinInv, HandsOK
<1>5. CASE \/ \E c \in Clients : \E m \in Msgs : Save(c, m) \/ Fatal(c, m)
           \/ \E c \in Clients : \E k \in Sinks : RemoveSink(c, k) \/ LockHandle(c, k)
           \/ \E c \in Clients : RemoveAllSinks(c) \/ HotUpdateSink(c) \/ AddSinkWaited(c)
                                   \/ RemoveSinkSpawns(c) \/ RemovalReturns(c)
                                   \/ HandleCall(c) \/ CallReturns(c)
           \/ \E k \in Sinks : \E m \in Msgs : SinkCrashes(k, m)
           \/ BgSave \/ BgAdd \/ BgRemove \/ BgClear \/ BgUpdate \/ BgFatal \/ BgDone
                \/ TaskReturns \/ DtorRemoveAllSinks \/ DtorReset \/ DtorJoin \/ DtorReturns
  <2>1. UNCHANGED <<joining, state>>
    BY <1>5 DEF Save, Fatal, RemoveSink, LockHandle, RemoveAllSinks, HotUpdateSink, AddSinkWaited,
                RemoveSinkSpawns, RemovalReturns, HandleCall, CallReturns, SinkCrashes, BgSave,
                BgAdd, BgRemove, BgClear, BgUpdate, BgFatal, BgDone, TaskReturns,
                DtorRemoveAllSinks, DtorReset, DtorJoin, DtorReturns, worker, sinkvar, hands, log,
                history
  <2> QED BY <2>1 DEF JoinInv
<1>6. CASE UNCHANGED vars
  BY <1>6 DEF vars, hands, sinkvar, JoinInv
<1> QED BY <1>1, <1>2, <1>3, <1>4, <1>5, <1>6
       DEF Next, ClientGoesOn, WorkerStep, Dtor

--------------------------------------------------------------------------------
(* The queue of the worker                                                      *)

(* The destructor does not give the worker back.                                *)
LEMMA NullStays ==
  ASSUME ClientsOK, [Next]_vars, BgIsNull
  PROVE  BgIsNull'
<1> USE LogWorkerAssumption
<1>1. CASE \/ \E c \in Clients : \E m \in Msgs : Fatal(c, m)
           \/ \E c \in Clients : \E k \in Sinks : AddSink(c, k) \/ RemoveSink(c, k)
                                                    \/ LockHandle(c, k)
           \/ \E c \in Clients : RemoveAllSinks(c) \/ HotUpdateSink(c) \/ AddSinkWaited(c)
                                   \/ RemoveSinkSpawns(c) \/ RemovalReturns(c)
                                   \/ HandleCall(c) \/ CallReturns(c)
           \/ DtorRemoveAllSinks \/ DtorReset \/ DtorJoin \/ DtorReturns
  <2>1. \/ pc'[Owner] = pc[Owner]
        \/ pc[Owner] \notin {"dtor_join", "dtor_sinks", "gone"}
        \/ pc'[Owner] \in {"dtor_sinks", "gone"}
    BY ZenonT(60), <1>1 DEF ClientsOK, Idle, Fatal, AddSink, RemoveSink, LockHandle, RemoveAllSinks,
                HotUpdateSink, AddSinkWaited, RemoveSinkSpawns, RemovalReturns, HandleCall,
                CallReturns, DtorRemoveAllSinks, DtorReset, DtorJoin, DtorReturns
  <2> QED BY <2>1 DEF BgIsNull
<1>2. CASE \/ \E c \in Clients : \E m \in Msgs : Save(c, m)
           \/ \E t \in Threads : Release(t) \/ JoinSink(t)
           \/ \E k \in Sinks : SinkRuns(k)
           \/ \E k \in Sinks : \E m \in Msgs : SinkCrashes(k, m)
           \/ BgSave \/ BgAdd \/ BgRemove \/ BgClear \/ BgUpdate \/ BgFatal \/ BgDone
                \/ TaskReturns
  <2>1. UNCHANGED <<pc>>
    BY <1>2 DEF Save, Release, JoinSink, SinkRuns, SinkCrashes, BgSave, BgAdd, BgRemove, BgClear,
                BgUpdate, BgFatal, BgDone, TaskReturns, worker, sinkvar, hands, log, history
  <2> QED BY <2>1 DEF BgIsNull
<1>3. CASE UNCHANGED vars
  BY <1>3 DEF vars, BgIsNull
<1> QED BY <1>1, <1>2, <1>3
       DEF Next, ClientGoesOn, WorkerStep, Dtor

(* ... as an implication.                                                       *)
LEMMA NullGrows ==
  ASSUME ClientsOK, [Next]_vars
  PROVE  BgIsNull => BgIsNull'
BY NullStays

(* The worker's queue takes nothing more once it has its end, ...               *)
LEMMA EndEnqueued ==
  ASSUME WorkerOK, EndInv, ~BgIsNull, ended' = ended,
         NEW e \in Tasks, e.op # "done", wq' = Append(wq, e)
  PROVE  EndInv'
<1>1. ended' = FALSE
  BY DEF EndInv, WorkerOK
<1>2. \A n \in DOMAIN wq : wq[n].op # "done"
  BY DEF EndInv
<1>3. \A n \in DOMAIN wq' : wq'[n].op # "done"
  BY <1>2, EnqueueAt
<1> QED BY <1>1, <1>3 DEF EndInv

(* ... and the end comes last.                                                  *)
LEMMA EndTaken ==
  ASSUME WorkerOK, EndInv, ~ended, BgIsNull => BgIsNull', wq # <<>>, wq' = Tail(wq),
         ended' => ended \/ Head(wq).op = "done"
  PROVE  EndInv'
<1>1. ASSUME NEW n \in DOMAIN wq', wq'[n].op = "done" PROVE n = Len(wq') /\ BgIsNull'
  <2>1. n + 1 \in DOMAIN wq /\ wq[n + 1].op = "done" /\ n \in Int /\ Len(wq) \in Int /\ Len(wq') = Len(wq) - 1
    BY <1>1, TakeAt
  <2>2. n + 1 = Len(wq) /\ BgIsNull
    BY <2>1 DEF EndInv
  <2> QED BY <2>1, <2>2
<1>2. ASSUME ended' PROVE BgIsNull' /\ wq' = <<>>
  <2>1. wq[1].op = "done" /\ 1 \in DOMAIN wq /\ Len(wq') = Len(wq) - 1 /\ wq' \in Seq(Tasks)
    BY <1>2, TakeAt, TaskSeqs
  <2>2. 1 = Len(wq) /\ BgIsNull
    BY <2>1 DEF EndInv
  <2>3. Len(wq') = 0
    BY <2>1, <2>2
  <2> QED BY <2>1, <2>2, <2>3, EmptySeq
<1> QED BY <1>1, <1>2 DEF EndInv

(* Nothing is queued for the worker after its end.                              *)
LEMMA EndStep ==
  ASSUME WorkerOK, HandsOK, ClientsOK, HistoryOK, CallInv, EndInv, [Next]_vars
  PROVE  EndInv'
<1> USE LogWorkerAssumption
<1>1. CASE \/ \E c \in Clients : \E m \in Msgs : Save(c, m) \/ Fatal(c, m)
           \/ \E k \in Sinks : \E m \in Msgs : SinkCrashes(k, m)
           \/ \E c \in Clients : HotUpdateSink(c) \/ RemoveAllSinks(c) \/ RemoveSinkSpawns(c)
           \/ \E c \in Clients : \E k \in Sinks : AddSink(c, k)
           \/ DtorRemoveAllSinks
  <2>1. /\ ended' = ended
        /\ \/ wq' = wq
           \/ \E e \in Tasks : e.op # "done" /\ ~BgIsNull /\ wq' = Append(wq, e)
    <3>1. CASE \E c \in Clients : HotUpdateSink(c)
      <4>1. PICK c \in Clients : HotUpdateSink(c)
        BY <3>1
      <4>2. held[c] # <<>>
        BY <4>1 DEF HotUpdateSink, CallInv
      <4>3. Head(held[c]) \in Sinks
        BY <4>2, SeqTypes DEF HandsOK, Threads
      <4> QED BY <4>1, <4>3, TaskTypes DEF HotUpdateSink, Enqueue
    <3>2. CASE ~(\E c \in Clients : HotUpdateSink(c))
      BY <1>1, <3>2, TaskTypes DEF Save, Fatal, SinkCrashes, AddSink, RemoveAllSinks,
                                   RemoveSinkSpawns, DtorRemoveAllSinks, Spawn, Enqueue, HistoryOK
    <3> QED BY <3>1, <3>2
  <2> QED BY <2>1, EndEnqueued, NullGrows DEF EndInv
<1>2. CASE BgSave \/ BgAdd \/ BgRemove \/ BgClear \/ BgUpdate \/ BgFatal \/ BgDone
  <2>1. /\ wq # <<>> /\ wq' = Tail(wq) /\ ~ended
        /\ ended' => ended \/ Head(wq).op = "done"
    BY <1>2 DEF BgSave, BgAdd, BgRemove, BgClear, BgUpdate, BgFatal, BgDone, Take
  <2> QED BY <2>1, EndTaken, NullGrows
<1>3. CASE DtorReset
  <2>1. /\ wq' = Append(wq, [op |-> "done"]) /\ ended' = ended
        /\ ~BgIsNull /\ BgIsNull'
    BY <1>3 DEF DtorReset, Enqueue, BgIsNull, ClientsOK
  <2>2. \A n \in DOMAIN wq : wq[n].op # "done"
    BY <2>1 DEF EndInv
  <2>3. \A n \in DOMAIN wq' : wq'[n].op = "done" => n = Len(wq')
    BY <2>1, <2>2, EnqueueAt, TaskTypes
  <2> QED BY <2>1, <2>3 DEF EndInv
<1>4. CASE \/ \E c \in Clients : \E k \in Sinks : RemoveSink(c, k) \/ LockHandle(c, k)
           \/ \E c \in Clients : AddSinkWaited(c) \/ RemovalReturns(c) \/ HandleCall(c)
                                   \/ CallReturns(c)
           \/ \E t \in Threads : Release(t) \/ JoinSink(t)
           \/ \E k \in Sinks : SinkRuns(k)
           \/ TaskReturns \/ DtorJoin \/ DtorReturns
  <2>1. UNCHANGED <<wq, ended>>
    BY <1>4 DEF RemoveSink, LockHandle, AddSinkWaited, RemovalReturns, HandleCall, CallReturns,
                Release, JoinSink, SinkRuns, TaskReturns, DtorJoin, DtorReturns, worker, sinkvar,
                hands, log, history
  <2> QED BY <2>1, NullGrows DEF EndInv
<1>5. CASE UNCHANGED vars
  BY <1>5 DEF vars, worker, EndInv, BgIsNull
<1> QED BY <1>1, <1>2, <1>3, <1>4, <1>5
       DEF Next, ClientGoesOn, WorkerStep, Dtor

(* A sink is in the vector, or on its way there, once: after one more task, ... *)
LEMMA OnceEnqueued ==
  ASSUME WorkerOK, OnceInv, sinks' = sinks, NEW e \in Tasks, wq' = Append(wq, e),
         e.op = "add" => /\ e.k \notin Range(sinks)
                         /\ \A n \in DOMAIN wq : ~Adds(wq[n], e.k)
  PROVE  OnceInv'
<1>1. NoTwins(sinks')
  BY DEF OnceInv
<1>2. ASSUME NEW n \in DOMAIN wq', wq'[n].op = "add"
      PROVE  wq'[n].k \notin Range(sinks') /\ \A j \in DOMAIN wq' : Adds(wq'[j], wq'[n].k) => j = n
  <2>1. CASE n \in DOMAIN wq
    BY <1>2, <2>1, EnqueueAt DEF OnceInv, Adds
  <2>2. CASE n = Len(wq) + 1
    BY <1>2, <2>2, EnqueueAt DEF Adds
  <2> QED BY <1>2, <2>1, <2>2, EnqueueAt
<1> QED BY <1>1, <1>2 DEF OnceInv

(* ... and after one less.                                                      *)
LEMMA OnceTaken ==
  ASSUME WorkerOK, OnceInv, wq # <<>>, wq' = Tail(wq), NoTwins(sinks'),
         \A k \in Range(sinks') : k \in Range(sinks) \/ Adds(Head(wq), k)
  PROVE  OnceInv'
<1>1. ASSUME NEW n \in DOMAIN wq', wq'[n].op = "add"
      PROVE  wq'[n].k \notin Range(sinks') /\ \A j \in DOMAIN wq' : Adds(wq'[j], wq'[n].k) => j = n
  <2>1. /\ n + 1 \in DOMAIN wq /\ wq[n + 1] = wq'[n] /\ n + 1 # 1 /\ n \in Int
        /\ 1 \in DOMAIN wq /\ Head(wq) = wq[1]
    BY <1>1, TakeAt
  <2>2. ~Adds(Head(wq), wq'[n].k) /\ wq'[n].k \notin Range(sinks)
    BY <1>1, <2>1 DEF OnceInv
  <2>3. ASSUME NEW j \in DOMAIN wq', Adds(wq'[j], wq'[n].k) PROVE j = n
    <3>1. j + 1 \in DOMAIN wq /\ wq[j + 1] = wq'[j] /\ j \in Int
      BY <2>3, TakeAt
    <3>2. j + 1 = n + 1
      BY <1>1, <2>1, <2>3, <3>1 DEF OnceInv
    <3> QED BY <2>1, <3>1, <3>2
  <2> QED BY <2>2, <2>3
<1> QED BY <1>1 DEF OnceInv

(* Only AddSink queues an addition, and only of a new sink.                     *)
LEMMA OnceStep ==
  ASSUME WorkerOK, HandsOK, HistoryOK, CallInv, OwnedIffAlive, OnceInv, [Next]_vars
  PROVE  OnceInv'
<1> USE LogWorkerAssumption
<1>1. CASE \/ \E c \in Clients : \E m \in Msgs : Save(c, m) \/ Fatal(c, m)
           \/ \E k \in Sinks : \E m \in Msgs : SinkCrashes(k, m)
           \/ \E c \in Clients : RemoveAllSinks(c) \/ RemoveSinkSpawns(c)
           \/ DtorRemoveAllSinks \/ DtorReset
  <2>1. /\ sinks' = sinks
        /\ wq' = wq \/ \E e \in Tasks : e.op # "add" /\ wq' = Append(wq, e)
    BY <1>1, TaskTypes DEF Save, Fatal, SinkCrashes, RemoveAllSinks, RemoveSinkSpawns,
                           DtorRemoveAllSinks, DtorReset, Spawn, Enqueue, HistoryOK
  <2> QED BY <2>1, OnceEnqueued DEF OnceInv
<1>2. ASSUME NEW c \in Clients, HotUpdateSink(c)
      PROVE  OnceInv'
  <2>1. /\ sinks' = sinks /\ held[c] # <<>>
        /\ wq' = Append(wq, [op |-> "update", k |-> Head(held[c])])
    BY <1>2 DEF HotUpdateSink, Enqueue, CallInv
  <2>2. Head(held[c]) \in Sinks
    BY <2>1, SeqTypes DEF HandsOK, Threads
  <2> QED BY <2>1, <2>2, TaskTypes, OnceEnqueued
<1>3. ASSUME NEW c \in Clients, NEW k \in Sinks, AddSink(c, k)
      PROVE  OnceInv'
  <2>1. /\ sinks' = sinks /\ state[k] = "new"
        /\ wq' = wq \/ wq' = Append(wq, [op |-> "add", k |-> k, c |-> c])
    BY <1>3 DEF AddSink, Spawn, Enqueue
  <2>2. k \notin Range(sinks) /\ \A n \in DOMAIN wq : ~Adds(wq[n], k)
    BY <2>1 DEF OwnedIffAlive, Owned, Adds
  <2> QED BY <2>1, <2>2, TaskTypes, OnceEnqueued DEF OnceInv
<1>4. CASE BgSave \/ BgUpdate \/ BgDone
  <2>1. wq # <<>> /\ wq' = Tail(wq) /\ sinks' = sinks
    BY <1>4 DEF BgSave, BgUpdate, BgDone, Take
  <2> QED BY <2>1, OnceTaken DEF OnceInv
<1>5. CASE BgAdd
  <2>1. /\ wq # <<>> /\ wq' = Tail(wq) /\ Head(wq).op = "add"
        /\ sinks' = Append(sinks, Head(wq).k)
    BY <1>5 DEF BgAdd, Take
  <2>2. Head(wq).k \in Sinks /\ Head(wq).k \notin Range(sinks) /\ sinks \in Seq(Sinks)
    BY <2>1, TaskSeqs, TaskTypes, TakeAt DEF OnceInv
  <2>3. Range(sinks') = Range(sinks) \cup {Head(wq).k}
    BY <2>1, <2>2, AppendRange
  <2>4. NoTwins(sinks')
    <3>1. \A n \in DOMAIN sinks : sinks[n] # Head(wq).k
      BY <2>2 DEF Range
    <3> QED BY <2>1, <2>2, <3>1, AppendAt DEF OnceInv, NoTwins
  <2> QED BY <2>1, <2>3, <2>4, OnceTaken DEF Adds
<1>6. CASE BgRemove
  <2>1. /\ wq # <<>> /\ wq' = Tail(wq) /\ Head(wq).op = "remove"
        /\ sinks' = Erased(Head(wq).k) \/ sinks' = sinks
    BY <1>6 DEF BgRemove, Take
  <2>2. NoTwins(sinks') /\ \A k \in Range(sinks') : k \in Range(sinks)
    BY <2>1, TaskSeqs, TaskTypes, ErasedAt DEF OnceInv
  <2> QED BY <2>1, <2>2, OnceTaken
<1>7. CASE BgClear \/ BgFatal
  <2>1. /\ wq # <<>> /\ wq' = Tail(wq) /\ sinks' = <<>>
    BY <1>7 DEF BgClear, BgFatal, Take, ClearSinks
  <2>2. NoTwins(sinks') /\ Range(sinks') = {}
    BY <2>1 DEF NoTwins, Range
  <2> QED BY <2>1, <2>2, OnceTaken
<1>8. CASE DtorJoin
  <2>1. wq' = wq /\ sinks' = <<>>
    BY <1>8 DEF DtorJoin
  <2>2. NoTwins(sinks') /\ Range(sinks') = {}
    BY <2>1 DEF NoTwins, Range
  <2> QED BY <2>1, <2>2 DEF OnceInv
<1>9. CASE \/ \E c \in Clients : \E k \in Sinks : RemoveSink(c, k) \/ LockHandle(c, k)
           \/ \E c \in Clients : AddSinkWaited(c) \/ RemovalReturns(c) \/ HandleCall(c)
                                   \/ CallReturns(c)
           \/ \E t \in Threads : Release(t) \/ JoinSink(t)
           \/ \E k \in Sinks : SinkRuns(k)
           \/ TaskReturns \/ DtorReturns
  <2>1. UNCHANGED <<wq, sinks>>
    BY <1>9 DEF RemoveSink, LockHandle, AddSinkWaited, RemovalReturns, HandleCall, CallReturns,
                Release, JoinSink, SinkRuns, TaskReturns, DtorReturns, worker, sinkvar, hands, log,
                history
  <2> QED BY <2>1 DEF OnceInv
<1>10. CASE UNCHANGED vars
  BY <1>10 DEF vars, worker, OnceInv
<1> QED BY <1>1, <1>2, <1>3, <1>4, <1>5, <1>6, <1>7, <1>8, <1>9, <1>10
       DEF Next, ClientGoesOn, WorkerStep, Dtor

--------------------------------------------------------------------------------
(* Tasks and the clients that wait for them                                     *)

(* No task answers to a client that is not waiting for one.                     *)
NoTask(c) == /\ \A n \in DOMAIN wq : ~Awaited(wq[n], c)
             /\ task # None => ~Awaited(task, c)

(* A client that is not waiting has no task.                                    *)
LEMMA NoneAwaited ==
  ASSUME TaskInv, NEW c \in Clients,
         fut[c] # "pending" \/ pc[c] \notin {"adding", "removing", "clearing", "dtor_clear"}
  PROVE  NoTask(c)
<1>1. OneTask(c)
  BY DEF TaskInv
<1> QED BY <1>1 DEF OneTask, NoTask, Awaits, Awaited

(* A client without a task: another client's task changes nothing, ...          *)
LEMMA NoTaskStays ==
  ASSUME WorkerOK, NEW c \in Clients, NoTask(c), task' = task,
         wq' = wq \/ \E e \in Tasks : ~Awaited(e, c) /\ wq' = Append(wq, e)
  PROVE  NoTask(c)' /\ OneTask(c)'
<1>1. CASE wq' = wq
  BY <1>1 DEF NoTask, OneTask
<1>2. CASE wq' # wq
  <2>1. PICK e \in Tasks : ~Awaited(e, c) /\ wq' = Append(wq, e)
    BY <1>2
  <2>2. \A n \in DOMAIN wq' : ~Awaited(wq'[n], c)
    BY <2>1, EnqueueAt DEF NoTask
  <2> QED BY <2>2 DEF NoTask, OneTask
<1> QED BY <1>1, <1>2

(* ... nor for a client that waits.                                             *)
LEMMA OneTaskStays ==
  ASSUME WorkerOK, NEW c \in Clients, OneTask(c), task' = task,
         pc'[c] = pc[c], arg'[c] = arg[c], fut'[c] = fut[c],
         wq' = wq \/ \E e \in Tasks : ~Awaited(e, c) /\ wq' = Append(wq, e)
  PROVE  OneTask(c)'
<1>1. CASE wq' = wq
  BY <1>1 DEF OneTask, Awaits
<1>2. CASE wq' # wq
  <2>1. PICK e \in Tasks : ~Awaited(e, c) /\ wq' = Append(wq, e)
    BY <1>2
  <2>2. ASSUME NEW n \in DOMAIN wq', Awaited(wq'[n], c)
        PROVE  /\ n \in DOMAIN wq /\ wq'[n] = wq[n]
               /\ \A j \in DOMAIN wq' : Awaited(wq'[j], c) => j = n
    BY <2>1, <2>2, EnqueueAt DEF OneTask
  <2> QED BY <2>2 DEF OneTask, Awaits
<1> QED BY <1>1, <1>2

(* The task of a client that starts to wait.                                    *)
LEMMA OneTaskComes ==
  ASSUME WorkerOK, NEW c \in Clients, NoTask(c), task' = task,
         NEW e \in Tasks, wq' = Append(wq, e), Awaits(c, e)'
  PROVE  OneTask(c)'
<1>1. \A n \in DOMAIN wq' : Awaited(wq'[n], c) => n = Len(wq) + 1 /\ wq'[n] = e
  BY EnqueueAt DEF NoTask
<1>2. task' # None => ~Awaited(task', c)
  BY DEF NoTask
<1> QED BY <1>1, <1>2 DEF OneTask, Awaits

(* The worker takes a task; if it keeps it, somebody still waits.               *)
LEMMA OneTaskTaken ==
  ASSUME WorkerOK, NEW c \in Clients, OneTask(c), task = None, wq # <<>>, wq' = Tail(wq),
         task' \in {None, Head(wq)},
         \/ pc'[c] = pc[c] /\ arg'[c] = arg[c] /\ fut'[c] = fut[c]
         \/ task' = None /\ Awaited(Head(wq), c)
  PROVE  OneTask(c)'
<1>1. Head(wq) = wq[1] /\ 1 \in DOMAIN wq
  BY TakeAt
<1>2. ASSUME NEW n \in DOMAIN wq', Awaited(wq'[n], c)
      PROVE  /\ Awaits(c, wq[n + 1]) /\ wq'[n] = wq[n + 1] /\ ~Awaited(Head(wq), c)
             /\ \A j \in DOMAIN wq' : Awaited(wq'[j], c) => j = n
  <2>1. n + 1 \in DOMAIN wq /\ wq'[n] = wq[n + 1] /\ n + 1 # 1 /\ n \in Int
    BY <1>2, TakeAt
  <2>2. ASSUME NEW j \in DOMAIN wq', Awaited(wq'[j], c) PROVE j = n
    <3>1. j + 1 \in DOMAIN wq /\ wq'[j] = wq[j + 1] /\ j \in Int
      BY <2>2, TakeAt
    <3>2. j + 1 = n + 1
      BY <1>2, <2>1, <2>2, <3>1 DEF OneTask
    <3> QED BY <2>1, <3>1, <3>2
  <2>3. Awaits(c, wq[n + 1]) /\ ~Awaited(Head(wq), c)
    BY <1>1, <1>2, <2>1 DEF OneTask
  <2> QED BY <2>1, <2>2, <2>3
<1>3. ASSUME NEW n \in DOMAIN wq', Awaited(wq'[n], c)
      PROVE  Awaits(c, wq[n])'
  BY <1>2, <1>3 DEF Awaits
<1>4. task' # None /\ Awaited(task', c) => Awaits(c, task)'
  BY <1>1 DEF OneTask, Awaits
<1> QED BY <1>2, <1>3, <1>4 DEF OneTask

(* A client never waits for two tasks, nor a task for two clients.              *)
LEMMA TaskStep ==
  ASSUME WorkerOK, HandsOK, ClientsOK, HistoryOK, CallInv, ArgInv, TaskInv, [Next]_vars
  PROVE  TaskInv'
<1> USE LogWorkerAssumption
<1>1. CASE \/ \E c \in Clients : \E m \in Msgs : Save(c, m) \/ Fatal(c, m)
           \/ \E k \in Sinks : \E m \in Msgs : SinkCrashes(k, m)
  <2>1. /\ UNCHANGED <<task, arg, fut>>
        /\ \E e \in Tasks : e.op \in {"save", "fatal"} /\ wq' = Append(wq, e)
        /\ \A d \in Clients : pc'[d] = pc[d] \/ pc[d] = "idle"
    BY <1>1, TaskTypes DEF Save, Fatal, SinkCrashes, Idle, ClientsOK, Enqueue
  <2>2. ASSUME NEW d \in Clients PROVE OneTask(d)'
    <3>1. PICK e \in Tasks : ~Awaited(e, d) /\ wq' = Append(wq, e)
      BY <2>1 DEF Awaited
    <3>2. CASE pc'[d] = pc[d]
      BY <2>1, <3>1, <3>2, OneTaskStays DEF TaskInv
    <3>3. CASE pc[d] = "idle"
      BY <2>1, <3>1, <3>3, NoneAwaited, NoTaskStays
    <3> QED BY <2>1, <3>2, <3>3
  <2> QED BY <2>1, <2>2 DEF TaskInv
<1>2. ASSUME NEW c \in Clients, NEW k \in Sinks, AddSink(c, k)
      PROVE  TaskInv'
  <2>1. /\ task' = task /\ pc[c] = "idle" /\ pc'[c] = "adding" /\ arg'[c] = {k}
        /\ \/ wq' = wq
           \/ wq' = Append(wq, [op |-> "add", k |-> k, c |-> c]) /\ fut'[c] = "pending"
        /\ \A d \in Clients \ {c} : pc'[d] = pc[d] /\ arg'[d] = arg[d] /\ fut'[d] = fut[d]
    BY <1>2 DEF AddSink, Idle, ClientsOK, HistoryOK, Spawn, Enqueue
  <2>2. ASSUME NEW d \in Clients \ {c} PROVE OneTask(d)'
    <3>1. ~Awaited([op |-> "add", k |-> k, c |-> c], d)
      BY DEF Awaited
    <3> QED BY <2>1, <3>1, TaskTypes, OneTaskStays DEF TaskInv
  <2>3. OneTask(c)'
    <3>1. NoTask(c)
      BY <2>1, NoneAwaited
    <3>2. CASE wq' = wq
      BY <2>1, <3>1, <3>2, NoTaskStays
    <3>3. CASE wq' # wq
      <4>1. Awaits(c, [op |-> "add", k |-> k, c |-> c])'
        BY <2>1, <3>3 DEF Awaits
      <4> QED BY <2>1, <3>1, <3>3, <4>1, TaskTypes, OneTaskComes
    <3> QED BY <3>2, <3>3
  <2> QED BY <2>1, <2>2, <2>3 DEF TaskInv
<1>3. ASSUME NEW c \in Clients, RemoveSinkSpawns(c)
      PROVE  TaskInv'
  <2>1. PICK k \in Sinks : arg[c] = {k}
    BY <1>3 DEF RemoveSinkSpawns, ArgInv, IsAbout
  <2>2. /\ task' = task /\ pc[c] = "locking" /\ pc'[c] = "removing" /\ arg' = arg
        /\ \/ wq' = wq
           \/ wq' = Append(wq, [op |-> "remove", k |-> k, c |-> c]) /\ fut'[c] = "pending"
        /\ \A d \in Clients \ {c} : pc'[d] = pc[d] /\ fut'[d] = fut[d]
    BY <1>3, <2>1 DEF RemoveSinkSpawns, ClientsOK, HistoryOK, history, Spawn, Enqueue
  <2>3. ASSUME NEW d \in Clients \ {c} PROVE OneTask(d)'
    <3>1. ~Awaited([op |-> "remove", k |-> k, c |-> c], d)
      BY DEF Awaited
    <3> QED BY <2>2, <3>1, TaskTypes, OneTaskStays DEF TaskInv
  <2>4. OneTask(c)'
    <3>1. NoTask(c)
      BY <2>2, NoneAwaited
    <3>2. CASE wq' = wq
      BY <2>2, <3>1, <3>2, NoTaskStays
    <3>3. CASE wq' # wq
      <4>1. Awaits(c, [op |-> "remove", k |-> k, c |-> c])'
        BY <2>1, <2>2, <3>3 DEF Awaits
      <4> QED BY <2>2, <3>1, <3>3, <4>1, TaskTypes, OneTaskComes
    <3> QED BY <3>2, <3>3
  <2> QED BY <2>2, <2>3, <2>4 DEF TaskInv
<1>4. ASSUME NEW c \in Clients, RemoveAllSinks(c)
      PROVE  TaskInv'
  <2>1. /\ task' = task /\ pc[c] = "idle" /\ pc'[c] = "clearing"
        /\ \/ wq' = wq
           \/ wq' = Append(wq, [op |-> "clear", c |-> c]) /\ fut'[c] = "pending"
        /\ \A d \in Clients \ {c} : pc'[d] = pc[d] /\ arg'[d] = arg[d] /\ fut'[d] = fut[d]
    BY <1>4 DEF RemoveAllSinks, Idle, ClientsOK, HistoryOK, Spawn, Enqueue
  <2>2. ASSUME NEW d \in Clients \ {c} PROVE OneTask(d)'
    <3>1. ~Awaited([op |-> "clear", c |-> c], d)
      BY DEF Awaited
    <3> QED BY <2>1, <3>1, TaskTypes, OneTaskStays DEF TaskInv
  <2>3. OneTask(c)'
    <3>1. NoTask(c)
      BY <2>1, NoneAwaited
    <3>2. CASE wq' = wq
      BY <2>1, <3>1, <3>2, NoTaskStays
    <3>3. CASE wq' # wq
      <4>1. Awaits(c, [op |-> "clear", c |-> c])'
        BY <2>1, <3>3 DEF Awaits
      <4> QED BY <2>1, <3>1, <3>3, <4>1, TaskTypes, OneTaskComes
    <3> QED BY <3>2, <3>3
  <2> QED BY <2>1, <2>2, <2>3 DEF TaskInv
<1>5. CASE DtorRemoveAllSinks
  <2>1. /\ task' = task /\ arg' = arg /\ pc[Owner] = "idle" /\ pc'[Owner] = "dtor_clear"
        /\ \/ wq' = wq
           \/ wq' = Append(wq, [op |-> "clear", c |-> Owner]) /\ fut'[Owner] = "pending"
        /\ \A d \in Clients \ {Owner} : pc'[d] = pc[d] /\ fut'[d] = fut[d]
    BY <1>5 DEF DtorRemoveAllSinks, Idle, ClientsOK, HistoryOK, Spawn, Enqueue
  <2>2. ASSUME NEW d \in Clients \ {Owner} PROVE OneTask(d)'
    <3>1. ~Awaited([op |-> "clear", c |-> Owner], d)
      BY DEF Awaited
    <3> QED BY <2>1, <3>1, TaskTypes, OneTaskStays DEF TaskInv
  <2>3. OneTask(Owner)'
    <3>1. NoTask(Owner)
      BY <2>1, NoneAwaited
    <3>2. CASE wq' = wq
      BY <2>1, <3>1, <3>2, NoTaskStays
    <3>3. CASE wq' # wq
      <4>1. Awaits(Owner, [op |-> "clear", c |-> Owner])'
        BY <2>1, <3>3 DEF Awaits
      <4> QED BY <2>1, <3>1, <3>3, <4>1, TaskTypes, OneTaskComes
    <3> QED BY <3>2, <3>3
  <2> QED BY <2>1, <2>2, <2>3 DEF TaskInv
<1>6. CASE \/ \E c \in Clients : \E k \in Sinks : RemoveSink(c, k) \/ LockHandle(c, k)
           \/ \E c \in Clients : HotUpdateSink(c) \/ AddSinkWaited(c) \/ RemovalReturns(c)
                                   \/ HandleCall(c) \/ CallReturns(c)
           \/ DtorReset \/ DtorJoin \/ DtorReturns
  <2>1. /\ task' = task /\ fut' = fut
        /\ wq' = wq \/ \E e \in Tasks : e.op \in {"update", "done"} /\ wq' = Append(wq, e)
        /\ \A d \in Clients : \/ pc'[d] = pc[d] /\ arg'[d] = arg[d]
                              \/ fut[d] # "pending"
                              \/ pc[d] \notin {"adding", "removing", "clearing", "dtor_clear"}
    <3>1. CASE \E c \in Clients : HotUpdateSink(c)
      <4>1. PICK c \in Clients : HotUpdateSink(c)
        BY <3>1
      <4>2. held[c] # <<>>
        BY <4>1 DEF HotUpdateSink, CallInv
      <4>3. Head(held[c]) \in Sinks
        BY <4>2, SeqTypes DEF HandsOK, Threads
      <4>4. \E e \in Tasks : e.op \in {"update", "done"} /\ wq' = Append(wq, e)
        BY <4>1, <4>3, TaskTypes DEF HotUpdateSink, Enqueue
      <4> QED BY <4>1, <4>4 DEF HotUpdateSink, ClientsOK, history
    <3>2. CASE ~(\E c \in Clients : HotUpdateSink(c))
      BY <1>6, <3>2, TaskTypes DEF RemoveSink, LockHandle, AddSinkWaited, RemovalReturns,
                                   HandleCall, CallReturns, DtorReset, DtorJoin, DtorReturns, Idle,
                                   Answered, ClientsOK, HistoryOK, history, worker, Enqueue
    <3> QED BY <3>1, <3>2
  <2>2. ASSUME NEW d \in Clients PROVE OneTask(d)'
    <3>1. wq' = wq \/ \E e \in Tasks : ~Awaited(e, d) /\ wq' = Append(wq, e)
      BY <2>1 DEF Awaited
    <3>2. CASE pc'[d] = pc[d] /\ arg'[d] = arg[d]
      BY <2>1, <3>1, <3>2, OneTaskStays DEF TaskInv
    <3>3. CASE fut[d] # "pending" \/ pc[d] \notin {"adding", "removing", "clearing", "dtor_clear"}
      BY <2>1, <3>1, <3>3, NoneAwaited, NoTaskStays
    <3> QED BY <2>1, <3>2, <3>3
  <2> QED BY <2>1, <2>2 DEF TaskInv
<1>7. CASE BgSave \/ BgDone \/ BgRemove \/ BgClear \/ BgUpdate \/ BgFatal
  <2>1. /\ UNCHANGED <<pc, arg, fut>> /\ task = None /\ wq # <<>> /\ wq' = Tail(wq)
        /\ \/ task' = None
           \/ task' = Head(wq) /\ Head(wq).op \in {"remove", "clear", "update", "fatal"}
    BY <1>7 DEF BgSave, BgDone, BgRemove, BgClear, BgUpdate, BgFatal, Take, history
  <2>2. ASSUME NEW d \in Clients PROVE OneTask(d)'
    BY <2>1, OneTaskTaken DEF TaskInv
  <2> QED BY <2>1, <2>2 DEF TaskInv
<1>8. CASE BgAdd
  <2>1. /\ UNCHANGED <<pc, arg>> /\ task = None /\ wq # <<>> /\ wq' = Tail(wq)
        /\ task' = None /\ Head(wq).op = "add" /\ fut' = [fut EXCEPT ![Head(wq).c] = "ready"]
    BY <1>8 DEF BgAdd, Take, history
  <2>2. ASSUME NEW d \in Clients PROVE OneTask(d)'
    <3>1. fut'[d] = fut[d] \/ Awaited(Head(wq), d)
      BY <2>1 DEF ClientsOK, Awaited
    <3> QED BY <2>1, <3>1, OneTaskTaken DEF TaskInv
  <2> QED BY <2>1, <2>2 DEF TaskInv
<1>9. CASE TaskReturns
  <2>1. /\ UNCHANGED <<pc, arg, wq>> /\ task # None /\ task' = None
        /\ fut' = IF Answers(task.op) THEN [fut EXCEPT ![task.c] = "ready"] ELSE fut
    BY <1>9 DEF TaskReturns, history
  <2>2. ASSUME NEW d \in Clients PROVE OneTask(d)'
    <3>1. fut'[d] = fut[d] \/ Awaited(task, d)
      BY <2>1 DEF ClientsOK, Awaited, Answers
    <3>2. OneTask(d)
      BY DEF TaskInv
    <3> QED BY <2>1, <3>1, <3>2 DEF OneTask, Awaits
  <2> QED BY <2>1, <2>2 DEF TaskInv
<1>10. CASE \/ \E t \in Threads : Release(t) \/ JoinSink(t)
            \/ \E k \in Sinks : SinkRuns(k)
  <2>1. UNCHANGED <<wq, task, pc, arg, fut>>
    BY <1>10 DEF Release, JoinSink, SinkRuns, worker, hands, log, history
  <2> QED BY <2>1 DEF TaskInv, OneTask, Awaits
<1>11. CASE UNCHANGED vars
  BY <1>11 DEF vars, worker, history, TaskInv, OneTask, Awaits
<1> QED BY <1>1, <1>2, <1>3, <1>4, <1>5, <1>6, <1>7, <1>8, <1>9, <1>10, <1>11
       DEF Next, ClientGoesOn, WorkerStep, Dtor

--------------------------------------------------------------------------------
(* What the calls are about                                                     *)

(* Most steps leave the calls about what they are about, even when              *)
(* everything is told to leave.                                                 *)
LEMMA ArgKept ==
  ASSUME SinksOK, ClientsOK, HistoryOK, ArgInv, arg' = arg, handles' = handles,
         \A k \in Sinks : state'[k] = "new" <=> state[k] = "new",
         member' = member \/ AllLeave,
         \A c \in Clients : \/ pc'[c] = pc[c]
                            \/ pc[c] \in InAdd /\ pc'[c] = "releasing"
                            \/ pc[c] = "locking" /\ pc'[c] = "removing"
                            \/ pc[c] \notin InAdd \cup InRemoval /\
                               pc'[c] \notin {"adding", "locking", "removing"}
  PROVE  ArgInv'
<1>1. ASSUME NEW k \in Sinks
      PROVE  /\ member'[k] \in {"open", "left", "adding", "none"} => member'[k] = member[k]
             /\ member[k] \in {"none", "left", "leaving"} => member'[k] = member[k]
  BY DEF AllLeave, HistoryOK
<1>2. \A c \in Clients : arg[c] \subseteq Sinks
  BY DEF HistoryOK
<1>3. ASSUME NEW c \in Clients, arg[c] # {}
      PROVE  /\ pc'[c] \in InAdd <=> pc[c] \in InAdd
             /\ pc'[c] \in InRemoval <=> pc[c] \in InRemoval
             /\ pc[c] \in InAdd \cup InRemoval
  BY <1>3 DEF ArgInv, IsAbout, InAdd, InRemoval
<1>4. ASSUME NEW k \in Sinks, Known(k)' PROVE Known(k)
  <2>1. CASE \E c \in Clients : pc'[c] \in InRemoval /\ k \in arg'[c]
    <3>1. PICK c \in Clients : pc'[c] \in InRemoval /\ k \in arg[c]
      BY <2>1
    <3>2. arg[c] # {}
      BY <3>1
    <3> QED BY <1>3, <3>1, <3>2 DEF Known
  <2>2. CASE ~\E c \in Clients : pc'[c] \in InRemoval /\ k \in arg'[c]
    BY <1>1, <1>4, <2>2 DEF Known
  <2> QED BY <2>1, <2>2
<1>5. ASSUME NEW c \in Clients PROVE IsAbout(c)'
  <2>1. IsAbout(c)
    BY DEF ArgInv
  <2>2. arg'[c] # {} => pc'[c] \in InAdd \cup InRemoval
    BY <1>3
  <2>3. pc'[c] \in {"adding", "locking", "removing"} => \E k \in Sinks : arg'[c] = {k}
    BY <2>1 DEF IsAbout, InAdd
  <2>4. ASSUME pc'[c] \in InAdd, NEW k \in arg'[c]
        PROVE  ~Known(k)' /\ \A d \in Clients \ {c} : pc'[d] \in InAdd => k \notin arg'[d]
    <3>1. k \in Sinks /\ pc[c] \in InAdd /\ k \in arg[c]
      BY <1>2, <1>3, <2>4
    <3>2. ~Known(k) /\ \A d \in Clients \ {c} : pc[d] \in InAdd => k \notin arg[d]
      BY <2>1, <3>1 DEF IsAbout
    <3>3. ~Known(k)'
      BY <1>4, <3>1, <3>2
    <3>4. \A d \in Clients \ {c} : pc'[d] \in InAdd => k \notin arg'[d]
      BY <1>3, <3>2
    <3> QED BY <3>3, <3>4
  <2>5. pc'[c] \in InRemoval => \A k \in arg'[c] : member'[k] \in {"leaving", "left"}
    BY <1>1, <1>2, <1>3, <2>1 DEF IsAbout
  <2>6. \A k \in arg'[c] : state'[k] # "new"
    BY <1>2, <2>1 DEF IsAbout
  <2> QED BY <2>2, <2>3, <2>4, <2>5, <2>6 DEF IsAbout
<1>6. ASSUME NEW k \in Sinks PROVE NewOrNot(k)'
  <2>1. NewOrNot(k)
    BY DEF ArgInv
  <2>2. member'[k] = "none" <=> state'[k] = "new"
    BY <1>1, <2>1 DEF NewOrNot
  <2>3. Known(k)' => state'[k] # "new"
    BY <1>4, <2>1 DEF NewOrNot
  <2>4. ASSUME member'[k] = "adding" PROVE \E c \in Clients : pc'[c] \in InAdd /\ k \in arg'[c]
    <3>1. PICK c \in Clients : pc[c] \in InAdd /\ k \in arg[c]
      BY <1>1, <2>1, <2>4 DEF NewOrNot
    <3> QED BY <1>3, <3>1
  <2> QED BY <2>2, <2>3, <2>4 DEF NewOrNot
<1> QED BY <1>5, <1>6 DEF ArgInv

(* What is left to show of a call that starts or returns.                       *)
LEMMA ArgChanges ==
  ASSUME HistoryOK, ArgInv, NEW c \in Clients, IsAbout(c)',
         \A d \in Clients \ {c} : pc'[d] = pc[d] /\ arg'[d] = arg[d],
         \A k \in Sinks : state[k] # "new" => state'[k] # "new",
         \A k \in Sinks : Known(k)' => Known(k) \/ (pc[c] \in InAdd /\ k \in arg[c]),
         pc'[c] \in InAdd => \A k \in arg'[c] : state[k] = "new",
         \A k \in Sinks : member[k] \in {"leaving", "left"} => member'[k] \in {"leaving", "left"}
  PROVE  \A d \in Clients : IsAbout(d)'
<1>1. SUFFICES ASSUME NEW d \in Clients \ {c} PROVE IsAbout(d)'
  OBVIOUS
<1>2. IsAbout(d) /\ IsAbout(c) /\ arg[d] \subseteq Sinks
  BY DEF ArgInv, HistoryOK
<1>3. ASSUME pc'[d] \in InAdd, NEW k \in arg'[d]
      PROVE  ~Known(k)' /\ \A e \in Clients \ {d} : pc'[e] \in InAdd => k \notin arg'[e]
  <2>1. /\ ~Known(k) /\ k \in Sinks /\ state[k] # "new"
        /\ \A e \in Clients \ {d} : pc[e] \in InAdd => k \notin arg[e]
    BY <1>2, <1>3 DEF IsAbout
  <2>2. ~Known(k)'
    BY <2>1
  <2>3. \A e \in Clients \ {d} : pc'[e] \in InAdd => k \notin arg'[e]
    BY <2>1
  <2> QED BY <2>2, <2>3
<1>4. pc'[d] \in InRemoval => \A k \in arg'[d] : member'[k] \in {"leaving", "left"}
  BY <1>2 DEF IsAbout
<1>5. \A k \in arg'[d] : state'[k] # "new"
  BY <1>2 DEF IsAbout
<1>6. /\ arg'[d] # {} => pc'[d] \in InAdd \cup InRemoval
      /\ pc'[d] \in {"adding", "locking", "removing"} => \E k \in Sinks : arg'[d] = {k}
  BY <1>2 DEF IsAbout
<1> QED BY <1>3, <1>4, <1>5, <1>6 DEF IsAbout

(* Two clients never add the same sink, and a sink in removal was known.        *)
LEMMA ArgStep ==
  ASSUME WorkerOK, SinksOK, HandsOK, ClientsOK, HistoryOK, OwnedIffAlive, ArgInv, [Next]_vars
  PROVE  ArgInv'
<1> USE LogWorkerAssumption
<1>1. ASSUME NEW c \in Clients, NEW k \in Sinks, AddSink(c, k)
      PROVE  ArgInv'
  <2>1. /\ pc[c] = "idle" /\ pc' = [pc EXCEPT ![c] = "adding"] /\ arg' = [arg EXCEPT ![c] = {k}]
        /\ state[k] = "new" /\ state' = [state EXCEPT ![k] = "alive"] /\ handles' = handles
        /\ \E l \in {"leaving", "adding"} : member' = [member EXCEPT ![k] = l]
    BY <1>1 DEF AddSink, Idle
  <2>2. /\ pc'[c] = "adding" /\ arg'[c] = {k}
        /\ \A d \in Clients \ {c} : pc'[d] = pc[d] /\ arg'[d] = arg[d]
        /\ state'[k] = "alive" /\ member'[k] \in {"leaving", "adding"}
        /\ \A j \in Sinks \ {k} : state'[j] = state[j] /\ member'[j] = member[j]
    BY <2>1 DEF ClientsOK, HistoryOK, SinksOK
  <2>3. ~Known(k) /\ member[k] = "none" /\ \A d \in Clients : k \notin arg[d]
    BY <2>1 DEF ArgInv, IsAbout, NewOrNot
  <2>4. ASSUME NEW j \in Sinks, Known(j)' PROVE Known(j) /\ j # k
    BY <2>1, <2>2, <2>3, <2>4 DEF Known, InRemoval
  <2>5. IsAbout(c)'
    <3>1. ~Known(k)'
      BY <2>4
    <3> QED BY <2>2, <2>3, <3>1 DEF IsAbout, InAdd, InRemoval
  <2>6. \A d \in Clients : IsAbout(d)'
    <3>1. \A j \in Sinks : state[j] # "new" => state'[j] # "new"
      BY <2>2
    <3>2. \A j \in Sinks : member[j] \in {"leaving", "left"} => member'[j] \in {"leaving", "left"}
      BY <2>2, <2>3
    <3> QED BY <2>1, <2>2, <2>4, <2>5, <3>1, <3>2, ArgChanges
  <2>7. ASSUME NEW j \in Sinks PROVE NewOrNot(j)'
    <3>1. NewOrNot(j)
      BY DEF ArgInv
    <3>2. member'[j] = "none" <=> state'[j] = "new"
      BY <2>2, <3>1 DEF NewOrNot
    <3>3. Known(j)' => state'[j] # "new"
      BY <2>2, <2>4, <3>1 DEF NewOrNot
    <3>4. ASSUME member'[j] = "adding" PROVE \E d \in Clients : pc'[d] \in InAdd /\ j \in arg'[d]
      <4>1. CASE j = k
        BY <2>2, <4>1 DEF InAdd
      <4>2. CASE j # k
        <5>1. PICK d \in Clients : pc[d] \in InAdd /\ j \in arg[d]
          BY <2>2, <3>1, <3>4, <4>2 DEF NewOrNot
        <5>2. d # c
          BY <2>1, <5>1 DEF InAdd
        <5> QED BY <2>2, <5>1, <5>2
      <4> QED BY <4>1, <4>2
    <3> QED BY <3>2, <3>3, <3>4 DEF NewOrNot
  <2> QED BY <2>6, <2>7 DEF ArgInv
<1>2. ASSUME NEW c \in Clients, NEW k \in Sinks, RemoveSink(c, k)
      PROVE  ArgInv'
  <2>1. /\ pc[c] = "idle" /\ pc' = [pc EXCEPT ![c] = "locking"] /\ arg' = [arg EXCEPT ![c] = {k}]
        /\ state' = state /\ k \in handles /\ handles' = handles \ {k}
        /\ member' = [member EXCEPT ![k] = IF @ = "left" THEN "left" ELSE "leaving"]
    BY <1>2 DEF RemoveSink, Idle, sinkvar
  <2>2. /\ pc'[c] = "locking" /\ arg'[c] = {k}
        /\ \A d \in Clients \ {c} : pc'[d] = pc[d] /\ arg'[d] = arg[d]
        /\ member'[k] = IF member[k] = "left" THEN "left" ELSE "leaving"
        /\ \A j \in Sinks \ {k} : member'[j] = member[j]
        /\ state' = state
    BY <2>1 DEF ClientsOK, HistoryOK
  <2>3. Known(k) /\ state[k] # "new" /\ member[k] # "none"
    BY <2>1 DEF ArgInv, NewOrNot, Known
  <2>4. ASSUME NEW j \in Sinks, Known(j)' PROVE Known(j)
    <3>1. CASE j = k
      BY <2>3, <3>1
    <3>2. CASE j # k
      BY <2>1, <2>2, <2>4, <3>2 DEF Known, InRemoval
    <3> QED BY <3>1, <3>2
  <2>5. IsAbout(c)'
    BY <2>2, <2>3 DEF IsAbout, InAdd, InRemoval
  <2>6. \A d \in Clients : IsAbout(d)'
    <3>1. \A j \in Sinks : member[j] \in {"leaving", "left"} => member'[j] \in {"leaving", "left"}
      BY <2>2
    <3>2. pc'[c] \notin InAdd
      BY <2>2 DEF InAdd
    <3> QED BY <2>2, <2>4, <2>5, <3>1, <3>2, ArgChanges
  <2>7. ASSUME NEW j \in Sinks PROVE NewOrNot(j)'
    <3>1. NewOrNot(j)
      BY DEF ArgInv
    <3>2. member'[j] = "none" <=> state'[j] = "new"
      BY <2>2, <2>3, <3>1 DEF NewOrNot
    <3>3. Known(j)' => state'[j] # "new"
      BY <2>2, <2>3, <2>4, <3>1 DEF NewOrNot
    <3>4. ASSUME member'[j] = "adding" PROVE \E d \in Clients : pc'[d] \in InAdd /\ j \in arg'[d]
      <4>1. member[j] = "adding" /\ j # k
        BY <2>2, <2>3, <3>4
      <4>2. PICK d \in Clients : pc[d] \in InAdd /\ j \in arg[d]
        BY <3>1, <4>1 DEF NewOrNot
      <4>3. d # c
        BY <2>1, <2>3, <4>1, <4>2 DEF InAdd
      <4> QED BY <2>2, <4>2, <4>3
    <3> QED BY <3>2, <3>3, <3>4 DEF NewOrNot
  <2> QED BY <2>6, <2>7 DEF ArgInv
<1>3. ASSUME NEW c \in Clients, RemoveAllSinks(c)
      PROVE  ArgInv'
  <2>1. /\ pc[c] = "idle" /\ pc' = [pc EXCEPT ![c] = "clearing"] /\ AllLeave
        /\ arg' = [arg EXCEPT ![c] = {k \in Sinks : member[k] = "open"}]
        /\ state' = state /\ handles' = handles
    BY <1>3 DEF RemoveAllSinks, Idle, sinkvar
  <2>2. /\ pc'[c] = "clearing" /\ arg'[c] = {k \in Sinks : member[k] = "open"}
        /\ \A d \in Clients \ {c} : pc'[d] = pc[d] /\ arg'[d] = arg[d]
        /\ \A k \in Sinks : member'[k] = IF member[k] \in {"adding", "open"} THEN "leaving" ELSE member[k]
        /\ state' = state
    BY <2>1 DEF ClientsOK, HistoryOK, AllLeave
  <2>3. \A k \in arg'[c] : k \in Sinks /\ Known(k) /\ state[k] # "new" /\ member'[k] = "leaving"
    BY <2>2 DEF ArgInv, NewOrNot, Known
  <2>4. ASSUME NEW j \in Sinks, Known(j)' PROVE Known(j)
    <3>1. CASE j \in arg'[c]
      BY <2>3, <3>1
    <3>2. CASE j \notin arg'[c]
      BY <2>1, <2>2, <2>4, <3>2 DEF Known, InRemoval
    <3> QED BY <3>1, <3>2
  <2>5. IsAbout(c)'
    BY <2>2, <2>3 DEF IsAbout, InAdd, InRemoval
  <2>6. \A d \in Clients : IsAbout(d)'
    <3>1. \A j \in Sinks : member[j] \in {"leaving", "left"} => member'[j] \in {"leaving", "left"}
      BY <2>2
    <3>2. pc'[c] \notin InAdd
      BY <2>2 DEF InAdd
    <3> QED BY <2>2, <2>4, <2>5, <3>1, <3>2, ArgChanges
  <2>7. ASSUME NEW j \in Sinks PROVE NewOrNot(j)'
    <3>1. NewOrNot(j)
      BY DEF ArgInv
    <3>2. member'[j] = "none" <=> state'[j] = "new"
      BY <2>2, <2>3, <3>1 DEF NewOrNot
    <3>3. Known(j)' => state'[j] # "new"
      BY <2>2, <2>3, <2>4, <3>1 DEF NewOrNot
    <3>4. ASSUME member'[j] = "adding" PROVE \E d \in Clients : pc'[d] \in InAdd /\ j \in arg'[d]
      <4>1. member[j] = "adding" /\ TRUE
        BY <2>2, <2>3, <3>4
      <4>2. PICK d \in Clients : pc[d] \in InAdd /\ j \in arg[d]
        BY <3>1, <4>1 DEF NewOrNot
      <4>3. d # c
        BY <2>1, <2>3, <4>1, <4>2 DEF InAdd
      <4> QED BY <2>2, <4>2, <4>3
    <3> QED BY <3>2, <3>3, <3>4 DEF NewOrNot
  <2> QED BY <2>6, <2>7 DEF ArgInv
<1>4. ASSUME NEW c \in Clients, RemovalReturns(c)
      PROVE  ArgInv'
  <2>1. /\ pc[c] \in {"removing", "clearing"} /\ pc' = [pc EXCEPT ![c] = "idle"]
        /\ arg' = [arg EXCEPT ![c] = {}] /\ state' = state /\ handles' = handles
        /\ member' = [k \in Sinks |-> IF k \in arg[c] THEN "left" ELSE member[k]]
    BY <1>4 DEF RemovalReturns, sinkvar
  <2>2. /\ pc'[c] = "idle" /\ arg'[c] = {}
        /\ \A d \in Clients \ {c} : pc'[d] = pc[d] /\ arg'[d] = arg[d]
        /\ \A k \in Sinks : member'[k] = IF k \in arg[c] THEN "left" ELSE member[k]
        /\ state' = state
    BY <2>1 DEF ClientsOK, HistoryOK
  <2>3. /\ pc[c] \in InRemoval
        /\ \A k \in arg[c] : k \in Sinks /\ Known(k) /\ state[k] # "new" /\ member[k] \in {"leaving", "left"}
    BY <2>1 DEF ArgInv, IsAbout, Known, InRemoval, HistoryOK
  <2>4. ASSUME NEW j \in Sinks, Known(j)' PROVE Known(j)
    <3>1. CASE j \in arg[c]
      BY <2>3, <3>1
    <3>2. CASE j \notin arg[c]
      BY <2>1, <2>2, <2>4, <3>2 DEF Known, InRemoval
    <3> QED BY <3>1, <3>2
  <2>5. IsAbout(c)'
    BY <2>2 DEF IsAbout, InAdd, InRemoval
  <2>6. \A d \in Clients : IsAbout(d)'
    <3>1. \A j \in Sinks : member[j] \in {"leaving", "left"} => member'[j] \in {"leaving", "left"}
      BY <2>2
    <3>2. pc'[c] \notin InAdd
      BY <2>2 DEF InAdd
    <3> QED BY <2>2, <2>4, <2>5, <3>1, <3>2, ArgChanges
  <2>7. ASSUME NEW j \in Sinks PROVE NewOrNot(j)'
    <3>1. NewOrNot(j)
      BY DEF ArgInv
    <3>2. member'[j] = "none" <=> state'[j] = "new"
      BY <2>2, <2>3, <3>1 DEF NewOrNot
    <3>3. Known(j)' => state'[j] # "new"
      BY <2>2, <2>3, <2>4, <3>1 DEF NewOrNot
    <3>4. ASSUME member'[j] = "adding" PROVE \E d \in Clients : pc'[d] \in InAdd /\ j \in arg'[d]
      <4>1. member[j] = "adding" /\ j \notin arg[c]
        BY <2>2, <2>3, <3>4
      <4>2. PICK d \in Clients : pc[d] \in InAdd /\ j \in arg[d]
        BY <3>1, <4>1 DEF NewOrNot
      <4>3. d # c
        BY <2>1, <2>3, <4>1, <4>2 DEF InAdd
      <4> QED BY <2>2, <4>2, <4>3
    <3> QED BY <3>2, <3>3, <3>4 DEF NewOrNot
  <2> QED BY <2>6, <2>7 DEF ArgInv
<1>5. ASSUME NEW c \in Clients, CallReturns(c)
      PROVE  ArgInv'
  <2>1. /\ pc[c] = "releasing" /\ pc' = [pc EXCEPT ![c] = "idle"]
        /\ arg' = [arg EXCEPT ![c] = {}] /\ state' = state /\ handles' = handles \cup arg[c]
        /\ member' = [k \in Sinks |-> IF k \in arg[c] /\ member[k] = "adding" THEN "open" ELSE member[k]]
    BY <1>5 DEF CallReturns, sinkvar
  <2>2. /\ pc'[c] = "idle" /\ arg'[c] = {}
        /\ \A d \in Clients \ {c} : pc'[d] = pc[d] /\ arg'[d] = arg[d]
        /\ \A k \in Sinks : member'[k] = IF k \in arg[c] /\ member[k] = "adding" THEN "open" ELSE member[k]
        /\ state' = state
    BY <2>1 DEF ClientsOK, HistoryOK
  <2>3. pc[c] \in InAdd /\ \A k \in arg[c] : k \in Sinks /\ state[k] # "new"
    BY <2>1 DEF ArgInv, IsAbout, InAdd, HistoryOK
  <2>4. ASSUME NEW j \in Sinks, Known(j)' PROVE Known(j) \/ j \in arg[c]
    BY <2>1, <2>2, <2>4 DEF Known, InRemoval
  <2>5. IsAbout(c)'
    BY <2>2 DEF IsAbout, InAdd, InRemoval
  <2>6. \A d \in Clients : IsAbout(d)'
    <3>1. \A j \in Sinks : member[j] \in {"leaving", "left"} => member'[j] \in {"leaving", "left"}
      BY <2>2
    <3>2. pc'[c] \notin InAdd
      BY <2>2 DEF InAdd
    <3> QED BY <2>2, <2>3, <2>4, <2>5, <3>1, <3>2, ArgChanges
  <2>7. ASSUME NEW j \in Sinks PROVE NewOrNot(j)'
    <3>1. NewOrNot(j)
      BY DEF ArgInv
    <3>2. member'[j] = "none" <=> state'[j] = "new"
      BY <2>2, <2>3, <3>1 DEF NewOrNot
    <3>3. Known(j)' => state'[j] # "new"
      BY <2>2, <2>3, <2>4, <3>1 DEF NewOrNot
    <3>4. ASSUME member'[j] = "adding" PROVE \E d \in Clients : pc'[d] \in InAdd /\ j \in arg'[d]
      <4>1. member[j] = "adding" /\ j \notin arg[c]
        BY <2>2, <2>3, <3>4
      <4>2. PICK d \in Clients : pc[d] \in InAdd /\ j \in arg[d]
        BY <3>1, <4>1 DEF NewOrNot
      <4>3. d # c
        BY <2>1, <2>3, <4>1, <4>2 DEF InAdd
      <4> QED BY <2>2, <4>2, <4>3
    <3> QED BY <3>2, <3>3, <3>4 DEF NewOrNot
  <2> QED BY <2>6, <2>7 DEF ArgInv
<1>6. CASE \/ \E c \in Clients : \E m \in Msgs : Fatal(c, m) \/ Save(c, m)
           \/ \E c \in Clients : \E k \in Sinks : LockHandle(c, k)
           \/ \E c \in Clients : HotUpdateSink(c) \/ AddSinkWaited(c) \/ RemoveSinkSpawns(c)
                                   \/ HandleCall(c)
           \/ DtorRemoveAllSinks \/ DtorReset \/ DtorJoin \/ DtorReturns
           \/ \E k \in Sinks : \E m \in Msgs : SinkCrashes(k, m)
  <2>1. /\ UNCHANGED <<arg, handles, state>>
        /\ member' = member \/ AllLeave
        /\ \A c \in Clients : \/ pc'[c] = pc[c]
                              \/ pc[c] \in InAdd /\ pc'[c] = "releasing"
                              \/ pc[c] = "locking" /\ pc'[c] = "removing"
                              \/ pc[c] \notin InAdd \cup InRemoval /\
                                 pc'[c] \notin {"adding", "locking", "removing"}
    BY ZenonT(60), <1>6
       DEF Fatal, LockHandle, HotUpdateSink, AddSinkWaited, RemoveSinkSpawns, HandleCall,
                DtorRemoveAllSinks, DtorReset, DtorJoin, DtorReturns, Save, SinkCrashes, Idle,
                ClientsOK, sinkvar, history, InAdd, InRemoval
  <2> QED BY <2>1, ArgKept
<1>7. CASE \/ \E t \in Threads : Release(t) \/ JoinSink(t)
           \/ \E k \in Sinks : SinkRuns(k)
  <2>1. UNCHANGED <<arg, handles, member, pc>>
    BY <1>7 DEF Release, JoinSink, SinkRuns, history
  <2>2. \A k \in Sinks : state'[k] = "new" <=> state[k] = "new"
    <3>1. CASE \E t \in Threads : Release(t)
      <4>1. PICK t \in Threads : held[t] # <<>> /\ \E k \in {Head(held[t])} :
                    state' = state \/ state' = [state EXCEPT ![k] = "dying"]
        BY <3>1 DEF Release
      <4>2. Head(held[t]) \in Sinks /\ state[Head(held[t])] = "alive"
        BY <4>1, OwnedAreAlive
      <4> QED BY <4>1, <4>2 DEF SinksOK
    <3>2. CASE ~\E t \in Threads : Release(t)
      BY <1>7, <3>2 DEF JoinSink, SinkRuns, SinksOK
    <3> QED BY <3>1, <3>2
  <2> QED BY <2>1, <2>2, ArgKept
<1>8. CASE \/ BgSave \/ BgAdd \/ BgRemove \/ BgClear \/ BgUpdate \/ BgFatal \/ BgDone
                \/ TaskReturns
  <2>1. UNCHANGED <<pc, state, arg, handles, member>>
    BY <1>8 DEF BgSave, BgAdd, BgRemove, BgClear, BgUpdate, BgFatal, BgDone, TaskReturns, sinkvar,
                hands, log, history
  <2> QED BY <2>1, ArgKept
<1>9. CASE UNCHANGED vars
  <2>1. UNCHANGED <<pc, state, arg, handles, member>>
    BY <1>9 DEF vars, sinkvar, history
  <2> QED BY <2>1, ArgKept
<1> QED BY <1>1, <1>2, <1>3, <1>4, <1>5, <1>6, <1>7, <1>8, <1>9
       DEF Next, ClientGoesOn, WorkerStep, Dtor

--------------------------------------------------------------------------------
(* Sinks that are added                                                         *)

(* A sink that is known is not to be added (again).                             *)
LEMMA KnownNotAdded ==
  ASSUME WorkerOK, TaskInv, ArgInv
  PROVE  \A k \in Sinks : Known(k) => \A n \in DOMAIN wq : ~Adds(wq[n], k)
<1> SUFFICES ASSUME NEW k \in Sinks, NEW n \in DOMAIN wq, Adds(wq[n], k) PROVE ~Known(k)
  OBVIOUS
<1>1. wq[n] \in Tasks /\ wq[n].op = "add" /\ wq[n].k = k
  BY DEF WorkerOK, Adds
<1>2. PICK c \in Clients : wq[n].c = c
  BY <1>1, TaskTypes
<1>3. Awaits(c, wq[n])
  BY <1>1, <1>2 DEF TaskInv, OneTask, Awaited
<1>4. pc[c] = "adding" /\ arg[c] = {k}
  BY <1>1, <1>3 DEF Awaits
<1> QED BY <1>4 DEF ArgInv, IsAbout, InAdd

(* An addSink that is returning has its sink in the vector.                     *)
LEMMA ReleasingIsAdded ==
  ASSUME WorkerOK, TaskInv, ArgInv, NEW c \in Clients, pc[c] = "releasing",
         NEW k \in Sinks, k \in arg[c]
  PROVE  ~OnItsWay(k)
<1> SUFFICES ASSUME NEW n \in DOMAIN wq, Adds(wq[n], k) PROVE FALSE
  BY DEF OnItsWay
<1>1. wq[n] \in Tasks /\ wq[n].op = "add" /\ wq[n].k = k
  BY DEF WorkerOK, Adds
<1>2. PICK d \in Clients : wq[n].c = d
  BY <1>1, TaskTypes
<1>3. Awaits(d, wq[n])
  BY <1>1, <1>2 DEF TaskInv, OneTask, Awaited
<1>4. pc[d] = "adding" /\ arg[d] = {k}
  BY <1>1, <1>3 DEF Awaits
<1>5. d # c /\ d \in Clients \ {c}
  BY <1>4
<1> QED BY <1>4, <1>5 DEF ArgInv, IsAbout, InAdd

(* A task that removes nothing leaves the sinks as they are.                    *)
LEMMA AttachedEnqueue ==
  ASSUME WorkerOK, sinks' = sinks, NEW e \in Tasks, wq' = Append(wq, e),
         NEW k \in Sinks, ~Removes(e, k)
  PROVE  /\ Attached(k) => Attached(k)'
         /\ OnItsWay(k) => OnItsWay(k)'
<1>1. ASSUME Attached(k) PROVE Attached(k)'
  BY <1>1, EnqueueAt DEF Attached
<1>2. ASSUME OnItsWay(k) PROVE OnItsWay(k)'
  <2>1. PICK n \in DOMAIN wq : Adds(wq[n], k) /\ \A j \in DOMAIN wq : j > n => ~Removes(wq[j], k)
    BY <1>2 DEF OnItsWay
  <2>2. n \in DOMAIN wq' /\ Adds(wq'[n], k)
    BY <2>1, EnqueueAt
  <2>3. \A j \in DOMAIN wq' : j > n => ~Removes(wq'[j], k)
    BY <2>1, EnqueueAt
  <2> QED BY <2>2, <2>3 DEF OnItsWay
<1> QED BY <1>1, <1>2

(* A removal takes the sink out; an addition puts it in.                        *)
LEMMA AttachedTake ==
  ASSUME WorkerOK, wq # <<>>, wq' = Tail(wq), NEW k \in Sinks
  PROVE  /\ Attached(k) /\ k \in Range(sinks') => Attached(k)'
         /\ Attached(k) => ~Removes(Head(wq), k)
         /\ OnItsWay(k) => \/ OnItsWay(k)'
                           \/ Adds(Head(wq), k) /\ (k \in Range(sinks') => Attached(k)')
<1>1. ASSUME Attached(k), k \in Range(sinks') PROVE Attached(k)'
  BY <1>1, TakeAt DEF Attached
<1>2. ASSUME Attached(k) PROVE ~Removes(Head(wq), k)
  BY <1>2, TakeAt DEF Attached
<1>3. ASSUME OnItsWay(k)
      PROVE  \/ OnItsWay(k)'
             \/ Adds(Head(wq), k) /\ (k \in Range(sinks') => Attached(k)')
  <2>1. PICK n \in DOMAIN wq : Adds(wq[n], k) /\ \A j \in DOMAIN wq : j > n => ~Removes(wq[j], k)
    BY <1>3 DEF OnItsWay
  <2>2. \A j \in DOMAIN wq' : j \in Int /\ j + 1 \in DOMAIN wq /\ wq'[j] = wq[j + 1] /\ j + 1 > 1
    BY TakeAt
  <2>3. CASE n = 1
    <3>1. \A j \in DOMAIN wq' : ~Removes(wq'[j], k)
      BY <2>1, <2>2, <2>3
    <3> QED BY <2>1, <2>3, <3>1, TakeAt DEF Attached
  <2>4. CASE n # 1
    <3>1. n - 1 \in DOMAIN wq' /\ Adds(wq'[n - 1], k) /\ n \in Int
      BY <2>1, <2>4, TakeAt
    <3>2. ASSUME NEW j \in DOMAIN wq', j > n - 1 PROVE ~Removes(wq'[j], k)
      <4>1. j + 1 > n
        BY <2>2, <3>1, <3>2
      <4> QED BY <2>1, <2>2, <4>1
    <3> QED BY <3>1, <3>2 DEF OnItsWay
  <2> QED BY <2>3, <2>4
<1> QED BY <1>1, <1>2, <1>3

(* When addSink returns, the sink is in the vector and no removal was queued.   *)
LEMMA OpenStep ==
  ASSUME WorkerOK, HandsOK, ClientsOK, HistoryOK, CallInv, OnceInv, TaskInv, ArgInv, OpenInv,
         [Next]_vars
  PROVE  OpenInv'
<1> USE LogWorkerAssumption
<1>a. CASE BgIsNull'
  BY <1>a DEF OpenInv
<1>b. CASE ~BgIsNull'
  <2> SUFFICES ASSUME ~BgIsNull, ~BgIsNull' PROVE OpenInv'
    BY <1>b, NullGrows
  <2>1. ASSUME NEW c \in Clients, NEW m \in Msgs, Save(c, m)
        PROVE  OpenInv'
    <3>1. UNCHANGED <<sinks, member>> /\ wq' = Append(wq, [op |-> "save", m |-> m])
      BY <2>1 DEF Save, Enqueue
    <3>2. ASSUME NEW k \in Sinks PROVE OpenAt(k)'
      <4>1. ~Removes([op |-> "save", m |-> m], k) /\ OpenAt(k)
        BY DEF Removes, OpenInv
      <4> QED BY <3>1, <4>1, TaskTypes, AttachedEnqueue DEF OpenAt
    <3> QED BY <3>2 DEF OpenInv
  <2>2. CASE \/ \E c \in Clients : \E m \in Msgs : Fatal(c, m)
             \/ \E k \in Sinks : \E m \in Msgs : SinkCrashes(k, m)
             \/ \E c \in Clients : RemoveAllSinks(c)
             \/ DtorRemoveAllSinks
    <3>1. AllLeave
      BY <2>2 DEF Fatal, SinkCrashes, RemoveAllSinks, DtorRemoveAllSinks
    <3>2. ASSUME NEW k \in Sinks PROVE OpenAt(k)'
      <4>1. member'[k] \notin {"open", "adding"}
        BY <3>1 DEF AllLeave, HistoryOK
      <4> QED BY <4>1 DEF OpenAt
    <3> QED BY <3>2 DEF OpenInv
  <2>3. ASSUME NEW c \in Clients, NEW k \in Sinks, AddSink(c, k)
        PROVE  OpenInv'
    <3>1. /\ sinks' = sinks
          /\ wq' = Append(wq, [op |-> "add", k |-> k, c |-> c])
          /\ member' = [member EXCEPT ![k] = IF Closing THEN "leaving" ELSE "adding"]
      BY <2>3 DEF AddSink, Spawn, Enqueue, OpenInv
    <3>2. ASSUME NEW j \in Sinks PROVE OpenAt(j)'
      <4>1. ~Removes([op |-> "add", k |-> k, c |-> c], j) /\ OpenAt(j)
        BY DEF Removes, OpenInv
      <4>2. CASE j = k
        <5>1. Len(wq) + 1 \in DOMAIN wq' /\ Adds(wq'[Len(wq) + 1], k) /\ \A i \in DOMAIN wq' : ~(i > Len(wq) + 1)
          BY <3>1, TaskTypes, EnqueueAt DEF Adds
        <5>2. OnItsWay(k)'
          BY <5>1 DEF OnItsWay
        <5>3. member'[k] # "open"
          BY <3>1 DEF HistoryOK
        <5> QED BY <4>2, <5>2, <5>3 DEF OpenAt
      <4>3. CASE j # k
        <5>1. member'[j] = member[j]
          BY <3>1, <4>3 DEF HistoryOK
        <5> QED BY <3>1, <4>1, <5>1, TaskTypes, AttachedEnqueue DEF OpenAt
      <4> QED BY <4>2, <4>3
    <3> QED BY <3>2 DEF OpenInv
  <2>4. ASSUME NEW c \in Clients, RemoveSinkSpawns(c)
        PROVE  OpenInv'
    <3>1. PICK k \in Sinks : arg[c] = {k}
      BY <2>4 DEF RemoveSinkSpawns, ArgInv, IsAbout
    <3>2. /\ UNCHANGED <<sinks, member>> /\ pc[c] = "locking"
          /\ wq' = Append(wq, [op |-> "remove", k |-> k, c |-> c])
      BY <2>4, <3>1 DEF RemoveSinkSpawns, Spawn, Enqueue, OpenInv, history
    <3>3. ASSUME NEW j \in Sinks PROVE OpenAt(j)'
      <4>1. CASE j = k
        <5>1. member'[j] \in {"leaving", "left"}
          BY <3>1, <3>2, <4>1 DEF ArgInv, IsAbout, InRemoval
        <5> QED BY <5>1 DEF OpenAt
      <4>2. CASE j # k
        <5>1. ~Removes([op |-> "remove", k |-> k, c |-> c], j) /\ OpenAt(j)
          BY <4>2 DEF Removes, OpenInv
        <5> QED BY <3>2, <5>1, TaskTypes, AttachedEnqueue DEF OpenAt
      <4> QED BY <4>1, <4>2
    <3> QED BY <3>3 DEF OpenInv
  <2>5. ASSUME NEW c \in Clients, HotUpdateSink(c)
        PROVE  OpenInv'
    <3>1. /\ UNCHANGED <<sinks, member>> /\ held[c] # <<>>
          /\ wq' = Append(wq, [op |-> "update", k |-> Head(held[c])])
      BY <2>5 DEF HotUpdateSink, Enqueue, CallInv, history
    <3>2. Head(held[c]) \in Sinks
      BY <3>1, SeqTypes DEF HandsOK, Threads
    <3>3. ASSUME NEW k \in Sinks PROVE OpenAt(k)'
      <4>1. ~Removes([op |-> "update", k |-> Head(held[c])], k) /\ OpenAt(k)
        BY DEF Removes, OpenInv
      <4> QED BY <3>1, <3>2, <4>1, TaskTypes, AttachedEnqueue DEF OpenAt
    <3> QED BY <3>3 DEF OpenInv
  <2>6. CASE \/ \E c \in Clients : \E k \in Sinks : RemoveSink(c, k)
             \/ \E c \in Clients : RemovalReturns(c)
    <3>1. UNCHANGED <<sinks, wq>> /\ \A k \in Sinks : member'[k] = member[k] \/ member'[k] \in {"leaving", "left"}
      BY <2>6 DEF RemoveSink, RemovalReturns, HistoryOK, worker
    <3>2. ASSUME NEW k \in Sinks PROVE OpenAt(k)'
      BY <3>1 DEF OpenInv, OpenAt, Attached, OnItsWay
    <3> QED BY <3>2 DEF OpenInv
  <2>7. ASSUME NEW c \in Clients, CallReturns(c)
        PROVE  OpenInv'
    <3>1. /\ UNCHANGED <<sinks, wq>> /\ pc[c] = "releasing"
          /\ \A k \in Sinks : \/ member'[k] = member[k]
                              \/ k \in arg[c] /\ member[k] = "adding" /\ member'[k] = "open"
      BY <2>7 DEF CallReturns, HistoryOK, worker
    <3>2. ASSUME NEW k \in Sinks PROVE OpenAt(k)'
      <4>1. OpenAt(k)
        BY DEF OpenInv
      <4>2. CASE member'[k] = member[k]
        BY <3>1, <4>1, <4>2 DEF OpenAt, Attached, OnItsWay
      <4>3. CASE k \in arg[c] /\ member[k] = "adding" /\ member'[k] = "open"
        <5>1. ~OnItsWay(k)
          BY <3>1, <4>3, ReleasingIsAdded
        <5> QED BY <3>1, <4>1, <4>3, <5>1 DEF OpenAt, Attached
      <4> QED BY <3>1, <4>2, <4>3
    <3> QED BY <3>2 DEF OpenInv
  <2>8. CASE BgSave \/ BgAdd \/ BgUpdate \/ BgDone
    <3>1. /\ wq # <<>> /\ wq' = Tail(wq) /\ member' = member
          /\ \/ sinks' = sinks /\ Head(wq).op # "add"
             \/ Head(wq).op = "add" /\ sinks' = Append(sinks, Head(wq).k)
      BY <2>8 DEF BgSave, BgAdd, BgUpdate, BgDone, Take, history
    <3>2. ASSUME NEW k \in Sinks PROVE OpenAt(k)'
      <4>1. OpenAt(k)
        BY DEF OpenInv
      <4>2. /\ k \in Range(sinks) => k \in Range(sinks')
            /\ Adds(Head(wq), k) => k \in Range(sinks')
        <5>1. CASE sinks' = sinks /\ Head(wq).op # "add"
          BY <5>1 DEF Adds
        <5>2. CASE Head(wq).op = "add" /\ sinks' = Append(sinks, Head(wq).k)
          <6>1. Head(wq).k \in Sinks /\ sinks \in Seq(Sinks)
            BY <3>1, <5>2, TaskSeqs, TaskTypes
          <6>2. Range(sinks') = Range(sinks) \cup {Head(wq).k}
            BY <5>2, <6>1, AppendRange
          <6> QED BY <6>2 DEF Adds
        <5> QED BY <3>1, <5>1, <5>2
      <4>3. Attached(k) => Attached(k)'
        <5>1. Attached(k) => k \in Range(sinks')
          BY <4>2 DEF Attached
        <5> QED BY <3>1, <5>1, AttachedTake
      <4>4. OnItsWay(k) => OnItsWay(k)' \/ Attached(k)'
        BY <3>1, <4>2, AttachedTake
      <4> QED BY <3>1, <4>1, <4>3, <4>4 DEF OpenAt
    <3> QED BY <3>2 DEF OpenInv
  <2>9. CASE BgRemove \/ BgClear \/ BgFatal
    <3>1. /\ wq # <<>> /\ wq' = Tail(wq) /\ member' = member
          /\ Head(wq).op \in {"remove", "clear", "fatal"}
          /\ \/ Head(wq).op = "remove" /\ (sinks' = sinks \/ sinks' = Erased(Head(wq).k))
             \/ Head(wq).op \in {"clear", "fatal"} /\ sinks' = <<>>
      BY <2>9 DEF BgRemove, BgClear, BgFatal, Take, ClearSinks, history
    <3>2. ASSUME NEW k \in Sinks PROVE OpenAt(k)'
      <4>1. OpenAt(k)
        BY DEF OpenInv
      <4>2. ASSUME Attached(k) PROVE k \in Range(sinks')
        <5>1. ~Removes(Head(wq), k) /\ k \in Range(sinks)
          BY <3>1, <4>2, AttachedTake DEF Attached
        <5>2. Head(wq).op = "remove" /\ Head(wq).k # k /\ Head(wq).k \in Sinks
          BY <3>1, <5>1, TaskSeqs, TaskTypes DEF Removes
        <5>3. Range(Erased(Head(wq).k)) = Range(sinks) \ {Head(wq).k}
          BY <5>2, ErasedAt DEF OnceInv
        <5> QED BY <3>1, <5>1, <5>2, <5>3
      <4>3. Attached(k) => Attached(k)'
        BY <3>1, <4>2, AttachedTake
      <4>4. OnItsWay(k) => OnItsWay(k)'
        <5>1. ~Adds(Head(wq), k)
          BY <3>1 DEF Adds
        <5> QED BY <3>1, <5>1, AttachedTake
      <4> QED BY <3>1, <4>1, <4>3, <4>4 DEF OpenAt
    <3> QED BY <3>2 DEF OpenInv
  <2>10. CASE DtorReset \/ DtorJoin
    <3>1. BgIsNull'
      BY <2>10 DEF DtorReset, DtorJoin, BgIsNull, ClientsOK
    <3> QED BY <3>1 DEF OpenInv
  <2>11. CASE \/ \E c \in Clients : \E k \in Sinks : LockHandle(c, k)
              \/ \E c \in Clients : AddSinkWaited(c) \/ HandleCall(c)
              \/ \E t \in Threads : Release(t) \/ JoinSink(t)
              \/ \E k \in Sinks : SinkRuns(k)
              \/ TaskReturns \/ DtorReturns
    <3>1. UNCHANGED <<wq, sinks, member>>
      BY <2>11 DEF LockHandle, AddSinkWaited, HandleCall, Release, JoinSink, SinkRuns, TaskReturns,
                   DtorReturns, worker, sinkvar, hands, log, history
    <3> QED BY <3>1 DEF OpenInv, OpenAt, Attached, OnItsWay
  <2>12. CASE UNCHANGED vars
    BY <2>12 DEF vars, worker, history, OpenInv, OpenAt, Attached, OnItsWay
  <2> QED BY <2>1, <2>2, <2>3, <2>4, <2>5, <2>6, <2>7, <2>8, <2>9, <2>10, <2>11, <2>12
         DEF Next, ClientGoesOn, WorkerStep, Dtor
<1> QED BY <1>a, <1>b

--------------------------------------------------------------------------------
(* Messages on their way                                                        *)

(* What is in the queue of a sink or was given to it arrives there from the worker. *)
Sends == /\ wq # <<>> /\ wq' = Tail(wq) /\ Head(wq).op \in {"save", "fatal"} /\ Head(wq).m \in Msgs
         /\ \A k \in Sinks :
               Arrived(k)' = IF k \in Range(sinks) THEN Arrived(k) \cup {Head(wq).m} ELSE Arrived(k)

(* What arrives with one more element of a sink's queue.                        *)
LEMMA ArrivedAppend ==
  ASSUME SinksOK, NEW k \in Sinks, got'[k] = got[k], NEW e \in Msgs \cup {"call", "done"},
         sq'[k] = Append(sq[k], e)
  PROVE  Arrived(k)' = Arrived(k) \cup ({e} \cap Msgs)
<1>1. sq[k] \in Seq(Msgs \cup {"call", "done"})
  BY DEF SinksOK
<1>2. Range(Append(sq[k], e)) = Range(sq[k]) \cup {e}
  BY <1>1, AppendRange
<1> QED BY <1>2 DEF Arrived

(* bgSave and bgFatal send the message to each sink of the vector.              *)
LEMMA Delivers ==
  ASSUME WorkerOK, SinksOK, BgSave \/ BgFatal
  PROVE  Sends
<1>1. /\ wq # <<>> /\ wq' = Tail(wq) /\ Head(wq).op \in {"save", "fatal"} /\ got' = got
      /\ sq' = [k \in Sinks |-> IF k \in Range(sinks) THEN Append(sq[k], Head(wq).m) ELSE sq[k]]
  BY DEF BgSave, BgFatal, Take, SendToSinks
<1>2. Head(wq).m \in Msgs
  BY <1>1, TaskSeqs, TaskTypes
<1>3. ASSUME NEW k \in Sinks
      PROVE  Arrived(k)' = IF k \in Range(sinks) THEN Arrived(k) \cup {Head(wq).m} ELSE Arrived(k)
  <2>1. CASE k \in Range(sinks)
    <3>1. sq'[k] = Append(sq[k], Head(wq).m) /\ got'[k] = got[k]
      BY <1>1, <2>1
    <3>2. Arrived(k)' = Arrived(k) \cup ({Head(wq).m} \cap Msgs)
      BY <1>2, <3>1, ArrivedAppend
    <3> QED BY <1>2, <2>1, <3>2
  <2>2. CASE k \notin Range(sinks)
    BY <1>1, <2>2 DEF Arrived
  <2> QED BY <2>1, <2>2
<1> QED BY <1>1, <1>2, <1>3 DEF Sends

(* And nothing else sends a message to a sink or takes one from it.             *)
LEMMA Arrivals ==
  ASSUME SinksOK, CallInv, ~(BgSave \/ BgFatal), [Next]_vars
  PROVE  \A j \in Sinks : Arrived(j)' = Arrived(j)
<1> USE LogWorkerAssumption
<1>1. ASSUME NEW c \in Clients, HandleCall(c)
      PROVE  \A j \in Sinks : Arrived(j)' = Arrived(j)
  <2>1. /\ held[c] # <<>> /\ got' = got
        /\ sq' = [sq EXCEPT ![Head(held[c])] = Append(@, "call")]
    BY <1>1 DEF HandleCall, CallInv
  <2>2. ASSUME NEW k \in Sinks PROVE Arrived(k)' = Arrived(k)
    <3>1. sq'[k] = sq[k] \/ sq'[k] = Append(sq[k], "call")
      BY <2>1 DEF SinksOK
    <3>2. CASE sq'[k] = sq[k]
      BY <2>1, <3>2 DEF Arrived
    <3>3. CASE sq'[k] = Append(sq[k], "call")
      <4>1. Arrived(k)' = Arrived(k) \cup ({"call"} \cap Msgs)
        BY <2>1, <3>3, ArrivedAppend
      <4> QED BY <4>1
    <3> QED BY <3>1, <3>2, <3>3
  <2> QED BY <2>2
<1>2. CASE BgUpdate
  <2>1. /\ got' = got
        /\ sq' = [sq EXCEPT ![Head(wq).k] = Append(@, "call")]
    BY <1>2 DEF BgUpdate
  <2>2. ASSUME NEW k \in Sinks PROVE Arrived(k)' = Arrived(k)
    <3>1. sq'[k] = sq[k] \/ sq'[k] = Append(sq[k], "call")
      BY <2>1 DEF SinksOK
    <3>2. CASE sq'[k] = sq[k]
      BY <2>1, <3>2 DEF Arrived
    <3>3. CASE sq'[k] = Append(sq[k], "call")
      <4>1. Arrived(k)' = Arrived(k) \cup ({"call"} \cap Msgs)
        BY <2>1, <3>3, ArrivedAppend
      <4> QED BY <4>1
    <3> QED BY <3>1, <3>2, <3>3
  <2> QED BY <2>2
<1>3. ASSUME NEW t \in Threads, Release(t)
      PROVE  \A j \in Sinks : Arrived(j)' = Arrived(j)
  <2>1. /\ got' = got
        /\ sq' = sq \/ \E k \in {Head(held[t])} : sq' = [sq EXCEPT ![k] = Append(@, "done")]
    BY <1>3 DEF Release, SendDone
  <2>2. ASSUME NEW k \in Sinks PROVE Arrived(k)' = Arrived(k)
    <3>1. sq'[k] = sq[k] \/ sq'[k] = Append(sq[k], "done")
      BY <2>1 DEF SinksOK
    <3>2. CASE sq'[k] = sq[k]
      BY <2>1, <3>2 DEF Arrived
    <3>3. CASE sq'[k] = Append(sq[k], "done")
      <4>1. Arrived(k)' = Arrived(k) \cup ({"done"} \cap Msgs)
        BY <2>1, <3>3, ArrivedAppend
      <4> QED BY <4>1
    <3> QED BY <3>1, <3>2, <3>3
  <2> QED BY <2>2
<1>4. ASSUME NEW k \in Sinks, SinkRuns(k)
      PROVE  \A j \in Sinks : Arrived(j)' = Arrived(j)
  <2>1. /\ sq[k] # <<>> /\ sq' = [sq EXCEPT ![k] = Tail(@)]
        /\ got' = IF Head(sq[k]) \in Msgs THEN [got EXCEPT ![k] = Append(@, Head(sq[k]))] ELSE got
    BY <1>4 DEF SinkRuns
  <2>2. \A j \in Sinks \ {k} : sq'[j] = sq[j] /\ got'[j] = got[j]
    BY <2>1 DEF SinksOK
  <2>3. sq'[k] = Tail(sq[k]) /\ Range(sq[k]) = {Head(sq[k])} \cup Range(Tail(sq[k]))
    BY <2>1, TailRange DEF SinksOK
  <2>4. Arrived(k)' = Arrived(k)
    <3>1. CASE Head(sq[k]) \in Msgs
      <4>1. got'[k] = Append(got[k], Head(sq[k])) /\ got[k] \in Seq(Msgs)
        BY <2>1, <3>1 DEF SinksOK
      <4>2. Range(got'[k]) = Range(got[k]) \cup {Head(sq[k])}
        <5>1. Range(Append(got[k], Head(sq[k]))) = Range(got[k]) \cup {Head(sq[k])}
          BY <3>1, <4>1, AppendRange
        <5> QED BY <4>1, <5>1
      <4> QED BY <2>3, <4>2 DEF Arrived
    <3>2. CASE Head(sq[k]) \notin Msgs
      <4>1. got'[k] = got[k]
        BY <2>1, <3>2
      <4> QED BY <2>3, <3>2, <4>1 DEF Arrived
    <3> QED BY <3>1, <3>2
  <2>5. \A j \in Sinks \ {k} : Arrived(j)' = Arrived(j)
    BY <2>2 DEF Arrived
  <2> QED BY <2>4, <2>5
<1>5. CASE \/ \E c \in Clients : \E m \in Msgs : Save(c, m) \/ Fatal(c, m)
           \/ \E c \in Clients : \E k \in Sinks : AddSink(c, k) \/ RemoveSink(c, k)
                                                    \/ LockHandle(c, k)
           \/ \E c \in Clients : RemoveAllSinks(c) \/ HotUpdateSink(c) \/ AddSinkWaited(c)
                                   \/ RemoveSinkSpawns(c) \/ RemovalReturns(c)
                                   \/ CallReturns(c)
           \/ \E t \in Threads : JoinSink(t)
           \/ \E k \in Sinks : \E m \in Msgs : SinkCrashes(k, m)
           \/ BgAdd \/ BgRemove \/ BgClear \/ BgDone \/ TaskReturns
                \/ DtorRemoveAllSinks \/ DtorReset \/ DtorJoin \/ DtorReturns
  <2>1. UNCHANGED <<sq, got>>
    BY <1>5 DEF Save, Fatal, AddSink, RemoveSink, LockHandle, RemoveAllSinks, HotUpdateSink,
                AddSinkWaited, RemoveSinkSpawns, RemovalReturns, CallReturns, JoinSink,
                SinkCrashes, BgAdd, BgRemove, BgClear, BgDone, TaskReturns, DtorRemoveAllSinks,
                DtorReset, DtorJoin, DtorReturns, worker, sinkvar, hands, log, history
  <2> QED BY <2>1 DEF Arrived
<1>6. CASE UNCHANGED vars
  BY <1>6 DEF vars, sinkvar, Arrived
<1> QED BY <1>1, <1>2, <1>3, <1>4, <1>5, <1>6
       DEF Next, ClientGoesOn, WorkerStep, Dtor

(* Nothing that has arrived gets lost.                                          *)
LEMMA ArrivedStays ==
  ASSUME WorkerOK, SinksOK, CallInv, [Next]_vars
  PROVE  \A k \in Sinks : Arrived(k) \subseteq Arrived(k)'
<1>1. CASE BgSave \/ BgFatal
  <2>1. Sends
    BY <1>1, Delivers
  <2> QED BY <2>1 DEF Sends
<1>2. CASE ~(BgSave \/ BgFatal)
  BY <1>2, Arrivals
<1> QED BY <1>1, <1>2

(* A message is logged: queued after what was queued before.                    *)
Logs(m) == /\ ~BgIsNull /\ m \notin Range(saved) /\ RecordSave(m)
           /\ \E e \in Tasks : e.op \in {"save", "fatal"} /\ e.m = m /\ wq' = Append(wq, e)
           /\ UNCHANGED <<sinks, sq, got, state>>

(* The three ways to log a message.                                             *)
LEMMA LogsOne ==
  ASSUME \/ \E c \in Clients, m \in Msgs : Save(c, m) \/ Fatal(c, m)
         \/ \E k \in Sinks, m \in Msgs : SinkCrashes(k, m)
  PROVE  \E m \in Msgs : Logs(m)
<1>1. ASSUME NEW c \in Clients, NEW m \in Msgs, Save(c, m) \/ Fatal(c, m) PROVE Logs(m)
  <2>1. \E e \in Tasks : e.op \in {"save", "fatal"} /\ e.m = m /\ wq' = Append(wq, e)
    BY <1>1, TaskTypes DEF Save, Fatal, Enqueue
  <2> QED BY <1>1, <2>1 DEF Save, Fatal, Logs, sinkvar
<1>2. ASSUME NEW k \in Sinks, NEW m \in Msgs, SinkCrashes(k, m) PROVE Logs(m)
  <2>1. \E e \in Tasks : e.op \in {"save", "fatal"} /\ e.m = m /\ wq' = Append(wq, e)
    BY <1>2, TaskTypes DEF SinkCrashes, Enqueue
  <2> QED BY <1>2, <2>1 DEF SinkCrashes, Logs
<1> QED BY <1>1, <1>2

(* A queue that grew or stayed did not shrink.                                  *)
LEMMA GrowsOrShrinks ==
  ASSUME WorkerOK
  PROVE  /\ wq # <<>> => Tail(wq) # wq
         /\ \A e \in Tasks : wq # <<>> => Tail(wq) # Append(wq, e)
<1>1. ASSUME wq # <<>>, NEW e \in Tasks PROVE Tail(wq) # wq /\ Tail(wq) # Append(wq, e)
  <2>1. Len(Tail(wq)) = Len(wq) - 1 /\ Len(wq) \in Nat
    BY <1>1, TailAt DEF WorkerOK
  <2>2. Len(Append(wq, e)) = Len(wq) + 1
    BY AppendAt DEF WorkerOK
  <2> QED BY <2>1, <2>2
<1> QED
  <2>1. ASSUME wq # <<>> PROVE Tail(wq) # wq
    <3>1. Len(Tail(wq)) = Len(wq) - 1 /\ Len(wq) \in Nat
      BY <2>1, TailAt DEF WorkerOK
    <3> QED BY <3>1
  <2> QED BY <1>1, <2>1

(* Only what was logged is queued, and only what was queued arrives.            *)
LEMMA SavedStep ==
  ASSUME WorkerOK, SinksOK, HandsOK, HistoryOK, CallInv, SavedInv, [Next]_vars
  PROVE  SavedInv'
<1> USE LogWorkerAssumption
<1>1. CASE \/ \E c \in Clients : \E m \in Msgs : Save(c, m) \/ Fatal(c, m)
           \/ \E k \in Sinks : \E m \in Msgs : SinkCrashes(k, m)
  <2>1. PICK m \in Msgs : Logs(m)
    BY <1>1, LogsOne
  <2>2. PICK e \in Tasks : e.op \in {"save", "fatal"} /\ e.m = m /\ wq' = Append(wq, e)
    BY <2>1 DEF Logs
  <2>3. Range(saved') = Range(saved) \cup {m}
    <3>1. Range(Append(saved, m)) = Range(saved) \cup {m}
      BY AppendRange DEF HistoryOK
    <3> QED BY <2>1, <3>1 DEF Logs, RecordSave
  <2>4. \A n \in DOMAIN wq' : wq'[n].op \in {"save", "fatal"} => wq'[n].m \in Range(saved')
    BY <2>2, <2>3, EnqueueAt DEF SavedInv
  <2>5. ASSUME NEW k \in Sinks
        PROVE  Arrived(k)' \cup due'[k] \cup foreign'[k] \subseteq Range(saved')
    <3>1. Arrived(k)' = Arrived(k)
      BY <2>1 DEF Logs, Arrived
    <3>2. due'[k] \subseteq due[k] \cup {m} /\ foreign'[k] \subseteq foreign[k] \cup {m}
      BY <2>1 DEF Logs, RecordSave
    <3> QED BY <2>3, <3>1, <3>2 DEF SavedInv
  <2> QED BY <2>4, <2>5 DEF SavedInv
<1>2. CASE BgSave \/ BgFatal
  <2>1. Sends /\ UNCHANGED <<saved, due, foreign>>
    BY <1>2, Delivers DEF BgSave, BgFatal, history, log
  <2>2. \A n \in DOMAIN wq' : wq'[n].op \in {"save", "fatal"} => wq'[n].m \in Range(saved')
    BY <2>1, TakeAt DEF SavedInv, Sends
  <2>3. Head(wq).m \in Range(saved)
    BY <2>1, TakeAt DEF SavedInv, Sends
  <2>4. \A k \in Sinks : Arrived(k)' \subseteq Range(saved')
    BY <2>1, <2>3 DEF SavedInv, Sends
  <2> QED BY <2>1, <2>2, <2>4 DEF SavedInv
<1>3. ASSUME NEW c \in Clients, HotUpdateSink(c)
      PROVE  SavedInv'
  <2>1. /\ held[c] # <<>> /\ UNCHANGED <<saved, due, foreign, sq, got>>
        /\ wq' = Append(wq, [op |-> "update", k |-> Head(held[c])])
    BY <1>3 DEF HotUpdateSink, Enqueue, CallInv, history, log, sinkvar
  <2>2. Head(held[c]) \in Sinks
    BY <2>1, SeqTypes DEF HandsOK, Threads
  <2>3. \A n \in DOMAIN wq' : wq'[n].op \in {"save", "fatal"} => wq'[n].m \in Range(saved')
    BY <2>1, <2>2, TaskTypes, EnqueueAt DEF SavedInv
  <2> QED BY <2>1, <2>3 DEF SavedInv, Arrived
<1>4. CASE \/ \E c \in Clients : \E k \in Sinks : AddSink(c, k)
           \/ \E c \in Clients : RemoveAllSinks(c) \/ RemoveSinkSpawns(c)
           \/ DtorRemoveAllSinks \/ DtorReset
  <2>1. /\ UNCHANGED <<saved, due, foreign, sq, got>>
        /\ wq' = wq \/ \E e \in Tasks : e.op \notin {"save", "fatal"} /\ wq' = Append(wq, e)
    BY <1>4, TaskTypes DEF AddSink, RemoveAllSinks, RemoveSinkSpawns, DtorRemoveAllSinks,
                           DtorReset, Enqueue, Spawn, history, log, sinkvar, HistoryOK
  <2>2. \A n \in DOMAIN wq' : wq'[n].op \in {"save", "fatal"} => wq'[n].m \in Range(saved')
    BY <2>1, EnqueueAt DEF SavedInv
  <2> QED BY <2>1, <2>2 DEF SavedInv, Arrived
<1>5. CASE BgAdd \/ BgRemove \/ BgClear \/ BgUpdate \/ BgDone
  <2>1. wq # <<>> /\ wq' = Tail(wq) /\ UNCHANGED <<saved, due, foreign>> /\ ~(BgSave \/ BgFatal)
    BY <1>5 DEF BgSave, BgFatal, BgAdd, BgRemove, BgClear, BgUpdate, BgDone, Take, history, log
  <2>2. \A n \in DOMAIN wq' : wq'[n].op \in {"save", "fatal"} => wq'[n].m \in Range(saved')
    BY <2>1, TakeAt DEF SavedInv
  <2>3. \A k \in Sinks : Arrived(k)' = Arrived(k)
    BY <2>1, Arrivals
  <2> QED BY <2>1, <2>2, <2>3 DEF SavedInv
<1>6. CASE \/ \E c \in Clients : HandleCall(c)
           \/ \E t \in Threads : Release(t)
           \/ \E k \in Sinks : SinkRuns(k)
  <2>1. UNCHANGED <<wq, saved, due, foreign>> /\ ~(BgSave \/ BgFatal)
    <3>1. UNCHANGED <<wq, saved, due, foreign>>
      BY <1>6 DEF HandleCall, Release, SinkRuns, history, log, worker
    <3> QED BY <3>1, TaskSeqs, GrowsOrShrinks DEF BgSave, BgFatal, Take, WorkerOK
  <2>2. \A k \in Sinks : Arrived(k)' = Arrived(k)
    BY <2>1, Arrivals
  <2> QED BY <2>1, <2>2 DEF SavedInv
<1>7. CASE \/ \E c \in Clients : \E k \in Sinks : RemoveSink(c, k) \/ LockHandle(c, k)
           \/ \E c \in Clients : AddSinkWaited(c) \/ RemovalReturns(c) \/ CallReturns(c)
           \/ \E t \in Threads : JoinSink(t)
           \/ TaskReturns \/ DtorJoin \/ DtorReturns
  <2>1. UNCHANGED <<wq, saved, due, foreign, sq, got>>
    BY <1>7 DEF RemoveSink, LockHandle, AddSinkWaited, RemovalReturns, CallReturns, JoinSink,
                TaskReturns, DtorJoin, DtorReturns, worker, sinkvar, hands, log, history
  <2> QED BY <2>1 DEF SavedInv, Arrived
<1>8. CASE UNCHANGED vars
  BY <1>8 DEF vars, worker, sinkvar, history, log, SavedInv, Arrived
<1> QED BY <1>1, <1>2, <1>3, <1>4, <1>5, <1>6, <1>7, <1>8
       DEF Next, ClientGoesOn, WorkerStep, Dtor

--------------------------------------------------------------------------------
(* Messages that are due                                                        *)

(* A message on its way to a sink is still on its way when the queue grows, ... *)
LEMMA ComingEnqueue ==
  ASSUME WorkerOK, sinks' = sinks, NEW e \in Tasks, wq' = Append(wq, e)
  PROVE  \A k \in Sinks, m \in Msgs : IsComing(m, k) => IsComing(m, k)'
<1> SUFFICES ASSUME NEW k \in Sinks, NEW m \in Msgs, IsComing(m, k) PROVE IsComing(m, k)'
  OBVIOUS
<1>1. PICK n \in DOMAIN wq : /\ Carries(wq[n], m)
                             /\ \A j \in DOMAIN wq : j < n => ~Removes(wq[j], k)
  BY DEF IsComing
<1>2. n \in DOMAIN wq' /\ Carries(wq'[n], m)
  BY <1>1, EnqueueAt
<1>3. \A j \in DOMAIN wq' : j < n => ~Removes(wq'[j], k)
  BY <1>1, EnqueueAt
<1> QED BY <1>2, <1>3 DEF IsComing

(* ... and when the worker takes another task, unless that removes the sink.    *)
LEMMA ComingTake ==
  ASSUME WorkerOK, wq # <<>>, wq' = Tail(wq)
  PROVE  \A k \in Sinks, m \in Msgs : IsComing(m, k) =>
            \/ Carries(Head(wq), m) /\ k \in Range(sinks)
            \/ ~Removes(Head(wq), k) /\ (k \in Range(sinks') => IsComing(m, k)')
<1> SUFFICES ASSUME NEW k \in Sinks, NEW m \in Msgs, IsComing(m, k), ~Carries(Head(wq), m)
             PROVE  ~Removes(Head(wq), k) /\ (k \in Range(sinks') => IsComing(m, k)')
  BY DEF IsComing
<1>1. PICK n \in DOMAIN wq : /\ Carries(wq[n], m)
                             /\ \A j \in DOMAIN wq : j < n => ~Removes(wq[j], k)
  BY DEF IsComing
<1>2. n # 1 /\ n \in Int /\ n > 1 /\ 1 \in DOMAIN wq /\ Head(wq) = wq[1]
  BY <1>1, TakeAt
<1>3. n - 1 \in DOMAIN wq' /\ Carries(wq'[n - 1], m)
  BY <1>1, <1>2, TakeAt
<1>4. ASSUME NEW j \in DOMAIN wq', j < n - 1 PROVE ~Removes(wq'[j], k)
  <2>1. j \in Int /\ j + 1 \in DOMAIN wq /\ wq'[j] = wq[j + 1]
    BY TakeAt
  <2>2. j + 1 < n
    BY <1>2, <1>4, <2>1
  <2> QED BY <1>1, <2>1, <2>2
<1>5. ~Removes(Head(wq), k)
  BY <1>1, <1>2
<1> QED BY <1>3, <1>4, <1>5 DEF IsComing

(* No task to add the sink comes by taking one, ...                             *)
LEMMA NoAddsTake ==
  ASSUME WorkerOK, wq # <<>>, wq' = Tail(wq), NEW k \in Sinks, \A n \in DOMAIN wq : ~Adds(wq[n], k)
  PROVE  \A n \in DOMAIN wq' : ~Adds(wq'[n], k)
BY TakeAt

(* ... nor by queueing another one.                                             *)
LEMMA NoAddsEnqueue ==
  ASSUME WorkerOK, NEW e \in Tasks, wq' = Append(wq, e), NEW k \in Sinks, ~Adds(e, k),
         \A n \in DOMAIN wq : ~Adds(wq[n], k)
  PROVE  \A n \in DOMAIN wq' : ~Adds(wq'[n], k)
BY EnqueueAt

(* A message that is due is sent before the sink is removed.                    *)
LEMMA DueStep ==
  ASSUME WorkerOK, SinksOK, HandsOK, HistoryOK, CallInv, OnceInv, EndInv, TaskInv, ArgInv, OpenInv,
         DueInv, [Next]_vars
  PROVE  DueInv'
<1> USE LogWorkerAssumption
<1>1. CASE \/ \E c \in Clients : \E m \in Msgs : Save(c, m) \/ Fatal(c, m)
           \/ \E k \in Sinks : \E m \in Msgs : SinkCrashes(k, m)
  <2>1. PICK m \in Msgs : Logs(m)
    BY <1>1, LogsOne
  <2>2. PICK e \in Tasks : e.op \in {"save", "fatal"} /\ e.m = m /\ wq' = Append(wq, e)
    BY <2>1 DEF Logs
  <2>3. ASSUME NEW k \in Sinks PROVE DueAt(k)'
    <3>1. DueAt(k) /\ due[k] \subseteq Msgs /\ Arrived(k)' = Arrived(k) /\ ~Adds(e, k)
      BY <2>1, <2>2 DEF DueInv, HistoryOK, Logs, Arrived, Adds
    <3>2. \A l \in due[k] : IsComing(l, k) => IsComing(l, k)'
      BY <2>1, <2>2, <3>1, ComingEnqueue DEF Logs
    <3>3. CASE member[k] = "open"
      <4>1. due'[k] = due[k] \cup {m} /\ ~BgIsNull /\ state' = state
        BY <2>1, <3>3 DEF Logs, RecordSave
      <4>2. Attached(k)
        BY <3>3, <4>1 DEF OpenInv, OpenAt
      <4>3. IsComing(m, k)'
        <5>1. Len(wq) + 1 \in DOMAIN wq' /\ Carries(wq'[Len(wq) + 1], m)
          BY <2>2, EnqueueAt DEF Carries
        <5>2. \A j \in DOMAIN wq' : j < Len(wq) + 1 => ~Removes(wq'[j], k)
          BY <2>2, <4>2, EnqueueAt DEF Attached
        <5>3. k \in Range(sinks')
          BY <2>1, <4>2 DEF Logs, Attached
        <5> QED BY <5>1, <5>2, <5>3 DEF IsComing
      <4>4. Known(k)
        BY <3>3 DEF Known
      <4>5. state[k] # "new" /\ \A n \in DOMAIN wq : ~Adds(wq[n], k)
        BY <4>4, KnownNotAdded DEF ArgInv, NewOrNot
      <4>6. \A n \in DOMAIN wq' : ~Adds(wq'[n], k)
        BY <2>2, <3>1, <4>5, NoAddsEnqueue
      <4>7. \A l \in due'[k] : l \in Arrived(k)' \/ IsComing(l, k)'
        BY <3>1, <3>2, <4>1, <4>3 DEF DueAt
      <4> QED BY <4>1, <4>5, <4>6, <4>7 DEF DueAt
    <3>4. CASE member[k] # "open"
      <4>1. due'[k] = due[k] /\ state' = state
        BY <2>1, <3>4 DEF Logs, RecordSave
      <4>2. \A l \in due'[k] : l \in Arrived(k)' \/ IsComing(l, k)'
        BY <3>1, <3>2, <4>1 DEF DueAt
      <4>3. due'[k] # {} => state'[k] # "new" /\ \A n \in DOMAIN wq' : ~Adds(wq'[n], k)
        BY <2>2, <3>1, <4>1, NoAddsEnqueue DEF DueAt
      <4> QED BY <4>2, <4>3 DEF DueAt
    <3> QED BY <3>3, <3>4
  <2> QED BY <2>3 DEF DueInv
<1>2. ASSUME NEW c \in Clients, HotUpdateSink(c)
      PROVE  DueInv'
  <2>1. /\ held[c] # <<>> /\ UNCHANGED <<sinks, due, sq, got, state>>
        /\ wq' = Append(wq, [op |-> "update", k |-> Head(held[c])])
    BY <1>2 DEF HotUpdateSink, Enqueue, CallInv, history, log, sinkvar
  <2>2. Head(held[c]) \in Sinks
    BY <2>1, SeqTypes DEF HandsOK, Threads
  <2>3. ASSUME NEW k \in Sinks PROVE DueAt(k)'
    <3>1. DueAt(k) /\ due[k] \subseteq Msgs /\ Arrived(k)' = Arrived(k)
      BY <2>1 DEF DueInv, HistoryOK, Arrived
    <3>2. \A m \in due[k] : IsComing(m, k) => IsComing(m, k)'
      BY <2>1, <2>2, <3>1, TaskTypes, ComingEnqueue DEF IsComing
    <3>3. \A m \in due'[k] : m \in Arrived(k)' \/ IsComing(m, k)'
      BY <2>1, <3>1, <3>2 DEF DueAt
    <3>4. due'[k] # {} => state'[k] # "new" /\ \A n \in DOMAIN wq' : ~Adds(wq'[n], k)
      BY <2>1, <2>2, <3>1, TaskTypes, NoAddsEnqueue DEF DueAt, Adds, SinksOK
    <3> QED BY <3>3, <3>4 DEF DueAt
  <2> QED BY <2>3 DEF DueInv
<1>3. CASE \/ \E c \in Clients : RemoveAllSinks(c) \/ RemoveSinkSpawns(c)
           \/ DtorRemoveAllSinks \/ DtorReset
  <2>1. /\ UNCHANGED <<sinks, due, sq, got, state>>
        /\ wq' = wq \/ \E e \in Tasks : e.op # "add" /\ wq' = Append(wq, e)
    BY <1>3, TaskTypes DEF RemoveAllSinks, RemoveSinkSpawns, DtorRemoveAllSinks, DtorReset,
                           Enqueue, Spawn, history, log, sinkvar, HistoryOK
  <2>2. ASSUME NEW k \in Sinks PROVE DueAt(k)'
    <3>1. DueAt(k) /\ due[k] \subseteq Msgs /\ Arrived(k)' = Arrived(k)
      BY <2>1 DEF DueInv, HistoryOK, Arrived
    <3>2. \A m \in due[k] : IsComing(m, k) => IsComing(m, k)'
      BY <2>1, <3>1, TaskTypes, ComingEnqueue DEF IsComing
    <3>3. \A m \in due'[k] : m \in Arrived(k)' \/ IsComing(m, k)'
      BY <2>1, <3>1, <3>2 DEF DueAt
    <3>4. due'[k] # {} => state'[k] # "new" /\ \A n \in DOMAIN wq' : ~Adds(wq'[n], k)
      BY <2>1, <3>1, TaskTypes, NoAddsEnqueue DEF DueAt, Adds, SinksOK
    <3> QED BY <3>3, <3>4 DEF DueAt
  <2> QED BY <2>2 DEF DueInv
<1>4. ASSUME NEW c \in Clients, NEW k \in Sinks, AddSink(c, k)
      PROVE  DueInv'
  <2>1. /\ UNCHANGED <<sinks, due, sq, got>> /\ state[k] = "new"
        /\ state' = [state EXCEPT ![k] = "alive"]
        /\ wq' = wq \/ wq' = Append(wq, [op |-> "add", k |-> k, c |-> c])
    BY <1>4 DEF AddSink, Enqueue, Spawn, log
  <2>2. ASSUME NEW j \in Sinks PROVE DueAt(j)'
    <3>1. DueAt(j) /\ due[j] \subseteq Msgs /\ Arrived(j)' = Arrived(j)
      BY <2>1 DEF DueInv, HistoryOK, Arrived
    <3>2. \A m \in due[j] : IsComing(m, j) => IsComing(m, j)'
      BY <2>1, <3>1, TaskTypes, ComingEnqueue DEF IsComing
    <3>3. \A m \in due'[j] : m \in Arrived(j)' \/ IsComing(m, j)'
      BY <2>1, <3>1, <3>2 DEF DueAt
    <3>4. CASE j = k
      BY <2>1, <3>1, <3>3, <3>4 DEF DueAt
    <3>5. CASE j # k
      <4>1. state'[j] = state[j] /\ ~Adds([op |-> "add", k |-> k, c |-> c], j)
        BY <2>1, <3>5 DEF SinksOK, Adds
      <4>2. due'[j] # {} => state'[j] # "new" /\ \A n \in DOMAIN wq' : ~Adds(wq'[n], j)
        BY <2>1, <3>1, <4>1, TaskTypes, NoAddsEnqueue DEF DueAt
      <4> QED BY <3>3, <4>2 DEF DueAt
    <3> QED BY <3>4, <3>5
  <2> QED BY <2>2 DEF DueInv
<1>5. CASE BgSave \/ BgFatal
  <2>1. /\ Sends /\ UNCHANGED <<due, state>>
        /\ sinks' = sinks \/ Head(wq).op = "fatal"
    BY <1>5, Delivers DEF BgSave, BgFatal, Take, history, log
  <2>2. ASSUME NEW k \in Sinks PROVE DueAt(k)'
    <3>1. DueAt(k) /\ due[k] \subseteq Msgs /\ Arrived(k) \subseteq Arrived(k)'
      BY <2>1 DEF DueInv, HistoryOK, Sends
    <3>2. ASSUME NEW m \in due[k], IsComing(m, k) PROVE m \in Arrived(k)' \/ IsComing(m, k)'
      <4>1. CASE Carries(Head(wq), m) /\ k \in Range(sinks)
        BY <2>1, <4>1 DEF Sends, Carries
      <4>2. CASE ~Removes(Head(wq), k) /\ (k \in Range(sinks') => IsComing(m, k)')
        BY <2>1, <3>2, <4>2 DEF Removes, IsComing
      <4> QED BY <2>1, <3>1, <3>2, <4>1, <4>2, ComingTake DEF Sends
    <3>3. \A m \in due'[k] : m \in Arrived(k)' \/ IsComing(m, k)'
      BY <2>1, <3>1, <3>2 DEF DueAt
    <3>4. due'[k] # {} => state'[k] # "new" /\ \A n \in DOMAIN wq' : ~Adds(wq'[n], k)
      BY <2>1, <3>1, NoAddsTake DEF DueAt, Sends
    <3> QED BY <3>3, <3>4 DEF DueAt
  <2> QED BY <2>2 DEF DueInv
<1>6. CASE BgAdd \/ BgUpdate \/ BgDone \/ BgRemove \/ BgClear
  <2>1. /\ wq # <<>> /\ wq' = Tail(wq) /\ UNCHANGED <<due, state>>
        /\ Head(wq).op \notin {"save", "fatal"} /\ ~(BgSave \/ BgFatal)
        /\ \/ sinks' = sinks
           \/ Head(wq).op = "add" /\ sinks' = Append(sinks, Head(wq).k)
           \/ Head(wq).op = "remove" /\ sinks' = Erased(Head(wq).k)
           \/ Head(wq).op = "clear"
    BY <1>6 DEF BgSave, BgFatal, BgAdd, BgUpdate, BgDone, BgRemove, BgClear, Take, history, log,
                sinkvar
  <2>2. ASSUME NEW k \in Sinks PROVE DueAt(k)'
    <3>1. DueAt(k) /\ due[k] \subseteq Msgs /\ Arrived(k)' = Arrived(k)
      BY <2>1, Arrivals DEF DueInv, HistoryOK
    <3>2. k \in Range(sinks) => k \in Range(sinks') \/ Removes(Head(wq), k)
      <4>1. CASE Head(wq).op = "add" /\ sinks' = Append(sinks, Head(wq).k)
        <5>1. Head(wq).k \in Sinks
          BY <2>1, <4>1, TaskSeqs, TaskTypes
        <5>2. Range(Append(sinks, Head(wq).k)) = Range(sinks) \cup {Head(wq).k}
          BY <5>1, AppendRange DEF WorkerOK
        <5> QED BY <4>1, <5>2
      <4>2. CASE Head(wq).op = "remove" /\ sinks' = Erased(Head(wq).k)
        <5>1. Head(wq).k \in Sinks
          BY <2>1, <4>2, TaskSeqs, TaskTypes
        <5>2. Range(Erased(Head(wq).k)) = Range(sinks) \ {Head(wq).k}
          BY <5>1, ErasedAt DEF OnceInv
        <5> QED BY <4>2, <5>2 DEF Removes
      <4> QED BY <2>1, <4>1, <4>2 DEF Removes
    <3>3. ASSUME NEW m \in due[k], IsComing(m, k) PROVE IsComing(m, k)'
      <4>1. ~Carries(Head(wq), m) /\ k \in Range(sinks)
        BY <2>1, <3>3 DEF Carries, IsComing
      <4> QED BY <2>1, <3>1, <3>2, <3>3, <4>1, ComingTake
    <3>4. \A m \in due'[k] : m \in Arrived(k)' \/ IsComing(m, k)'
      BY <2>1, <3>1, <3>3 DEF DueAt
    <3>5. due'[k] # {} => state'[k] # "new" /\ \A n \in DOMAIN wq' : ~Adds(wq'[n], k)
      BY <2>1, <3>1, NoAddsTake DEF DueAt
    <3> QED BY <3>4, <3>5 DEF DueAt
  <2> QED BY <2>2 DEF DueInv
<1>7. CASE DtorJoin
  <2>1. UNCHANGED <<wq, due, state, got, sq>> /\ ended
    BY <1>7 DEF DtorJoin, history, log, sinkvar
  <2>2. wq = <<>>
    BY <2>1 DEF EndInv
  <2>3. ASSUME NEW k \in Sinks PROVE DueAt(k)'
    <3>1. DueAt(k)
      BY DEF DueInv
    <3>2. \A m : ~IsComing(m, k)
      BY <2>2 DEF IsComing
    <3> QED BY <2>1, <3>1, <3>2 DEF DueAt, Arrived
  <2> QED BY <2>3 DEF DueInv
<1>8. CASE \/ \E t \in Threads : Release(t) \/ JoinSink(t)
           \/ \E k \in Sinks : SinkRuns(k)
  <2>1. /\ UNCHANGED <<wq, due, sinks>>
        /\ \A k \in Sinks : state[k] # "new" => state'[k] # "new"
    BY <1>8 DEF Release, JoinSink, SinkRuns, history, log, worker, SinksOK
  <2>2. ASSUME NEW k \in Sinks PROVE DueAt(k)'
    <3>1. DueAt(k) /\ Arrived(k) \subseteq Arrived(k)'
      BY ArrivedStays DEF DueInv
    <3> QED BY <2>1, <3>1 DEF DueAt, IsComing
  <2> QED BY <2>2 DEF DueInv
<1>9. ASSUME NEW c \in Clients, HandleCall(c)
      PROVE  DueInv'
  <2>1. UNCHANGED <<wq, due, sinks, state>>
    BY <1>9 DEF HandleCall, history, log, worker
  <2>2. ASSUME NEW k \in Sinks PROVE DueAt(k)'
    <3>1. DueAt(k) /\ Arrived(k) \subseteq Arrived(k)'
      BY ArrivedStays DEF DueInv
    <3> QED BY <2>1, <3>1 DEF DueAt, IsComing
  <2> QED BY <2>2 DEF DueInv
<1>10. CASE \/ \E c \in Clients : \E k \in Sinks : RemoveSink(c, k) \/ LockHandle(c, k)
            \/ \E c \in Clients : AddSinkWaited(c) \/ RemovalReturns(c) \/ CallReturns(c)
            \/ TaskReturns \/ DtorReturns
  <2>1. UNCHANGED <<wq, due, sinks, state, sq, got>>
    BY <1>10 DEF RemoveSink, LockHandle, AddSinkWaited, RemovalReturns, CallReturns, TaskReturns,
                 DtorReturns, worker, sinkvar, hands, log, history
  <2> QED BY <2>1 DEF DueInv, DueAt, Arrived, IsComing
<1>11. CASE UNCHANGED vars
  BY <1>11 DEF vars, worker, sinkvar, history, log, DueInv, DueAt, Arrived, IsComing
<1> QED BY <1>1, <1>2, <1>3, <1>4, <1>5, <1>6, <1>7, <1>8, <1>9, <1>10, <1>11
       DEF Next, ClientGoesOn, WorkerStep, Dtor

--------------------------------------------------------------------------------
(* Messages that are foreign, and the end of the process                        *)

(* A message that passes a sink by still does after a task was taken, ...       *)
LEMMA AvoidsTake ==
  ASSUME WorkerOK, wq # <<>>, wq' = Tail(wq), NEW m \in Msgs, NEW k \in Sinks, Avoids(m, k),
         k \in Range(sinks') => k \in Range(sinks) \/ Adds(Head(wq), k)
  PROVE  Avoids(m, k)' /\ (Carries(Head(wq), m) => k \notin Range(sinks))
<1>1. ASSUME NEW n \in DOMAIN wq', Carries(wq'[n], m)
      PROVE  k \notin Range(sinks') /\ \A j \in DOMAIN wq' : j < n => ~Adds(wq'[j], k)
  <2>1. /\ n \in Int /\ n + 1 \in DOMAIN wq /\ wq'[n] = wq[n + 1] /\ 1 < n + 1
        /\ 1 \in DOMAIN wq /\ Head(wq) = wq[1]
    BY TakeAt
  <2>2. k \notin Range(sinks) /\ \A j \in DOMAIN wq : j < n + 1 => ~Adds(wq[j], k)
    BY <1>1, <2>1 DEF Avoids
  <2>3. k \notin Range(sinks')
    BY <2>1, <2>2
  <2>4. ASSUME NEW j \in DOMAIN wq', j < n PROVE ~Adds(wq'[j], k)
    <3>1. j \in Int /\ j + 1 \in DOMAIN wq /\ wq'[j] = wq[j + 1]
      BY TakeAt
    <3>2. j + 1 < n + 1
      BY <2>1, <2>4, <3>1
    <3> QED BY <2>2, <3>1, <3>2
  <2> QED BY <2>3, <2>4
<1>2. Carries(Head(wq), m) => k \notin Range(sinks)
  BY TakeAt DEF Avoids
<1> QED BY <1>1, <1>2 DEF Avoids

(* ... and after one was queued.                                                *)
LEMMA AvoidsEnqueue ==
  ASSUME WorkerOK, NEW e \in Tasks, wq' = Append(wq, e), sinks' = sinks,
         NEW m \in Msgs, NEW k \in Sinks, Avoids(m, k), ~Carries(e, m)
  PROVE  Avoids(m, k)'
<1>1. ASSUME NEW n \in DOMAIN wq', Carries(wq'[n], m)
      PROVE  k \notin Range(sinks') /\ \A j \in DOMAIN wq' : j < n => ~Adds(wq'[j], k)
  <2>1. n \in DOMAIN wq /\ wq'[n] = wq[n] /\ n \in 1..Len(wq) /\ Len(wq) \in Nat
    BY <1>1, EnqueueAt
  <2>2. ASSUME NEW j \in DOMAIN wq', j < n PROVE j \in DOMAIN wq /\ wq'[j] = wq[j]
    <3>1. j \in 1..(Len(wq) + 1)
      BY EnqueueAt
    <3>2. j # Len(wq) + 1
      BY <2>1, <2>2, <3>1
    <3> QED BY <3>2, EnqueueAt
  <2> QED BY <1>1, <2>1, <2>2 DEF Avoids
<1> QED BY <1>1 DEF Avoids

(* A foreign message stays away: a sink that is "none" is added behind it,      *)
(* and one that has "left" is not in the vector.                                *)
LEMMA ForeignStep ==
  ASSUME WorkerOK, SinksOK, HandsOK, HistoryOK, CallInv, OwnedIffAlive, OnceInv, TaskInv, ArgInv,
         GoneInv, SavedInv, ForeignInv, [Next]_vars
  PROVE  ForeignInv'
<1> USE LogWorkerAssumption
<1>1. CASE \/ \E c \in Clients : \E m \in Msgs : Save(c, m) \/ Fatal(c, m)
           \/ \E k \in Sinks : \E m \in Msgs : SinkCrashes(k, m)
  <2>1. PICK m \in Msgs : Logs(m)
    BY <1>1, LogsOne
  <2>2. PICK e \in Tasks : e.op \in {"save", "fatal"} /\ e.m = m /\ wq' = Append(wq, e)
    BY <2>1 DEF Logs
  <2>3. ASSUME NEW k \in Sinks, NEW l \in foreign'[k] PROVE l \notin Arrived(k)' /\ Avoids(l, k)'
    <3>1. /\ sinks' = sinks /\ Arrived(k)' = Arrived(k) /\ ~BgIsNull /\ m \notin Range(saved)
          /\ foreign'[k] = IF member[k] \in {"none", "left"} THEN foreign[k] \cup {m} ELSE foreign[k]
      BY <2>1 DEF Logs, RecordSave, Arrived
    <3>2. CASE l \in foreign[k]
      <4>1. l \in Msgs /\ l \in Range(saved) /\ l \notin Arrived(k) /\ Avoids(l, k)
        BY <3>2 DEF HistoryOK, SavedInv, ForeignInv
      <4>2. ~Carries(e, l)
        BY <2>2, <3>1, <4>1 DEF Carries
      <4> QED BY <2>2, <3>1, <4>1, <4>2, AvoidsEnqueue
    <3>3. CASE l \notin foreign[k]
      <4>1. l = m /\ member[k] \in {"none", "left"}
        BY <2>3, <3>1, <3>3
      <4>2. l \notin Arrived(k)'
        BY <3>1, <4>1 DEF SavedInv
      <4>3. k \notin Range(sinks) /\ \A j \in DOMAIN wq : ~Adds(wq[j], k)
        <5>1. CASE member[k] = "none"
          <6>1. state[k] = "new"
            BY <5>1 DEF ArgInv, NewOrNot
          <6> QED BY <6>1 DEF OwnedIffAlive, Owned, Adds
        <5>2. CASE member[k] = "left"
          <6>1. Known(k) /\ Removed(k)
            BY <3>1, <5>2 DEF Known, Removed
          <6> QED BY <6>1, KnownNotAdded DEF GoneInv, Gone
        <5> QED BY <4>1, <5>1, <5>2
      <4>4. \A n \in DOMAIN wq : ~Carries(wq[n], m)
        BY <3>1 DEF SavedInv, Carries
      <4>5. \A n \in DOMAIN wq' : n \in Int /\ (n \in DOMAIN wq \/ n = Len(wq) + 1)
        BY <2>2, EnqueueAt
      <4>6. ASSUME NEW n \in DOMAIN wq', Carries(wq'[n], m), NEW j \in DOMAIN wq', j < n
            PROVE  ~Adds(wq'[j], k)
        <5>1. n = Len(wq) + 1
          BY <2>2, <4>4, <4>5, <4>6, EnqueueAt
        <5>2. j \in DOMAIN wq /\ wq'[j] = wq[j]
          BY <2>2, <4>5, <4>6, <5>1, EnqueueAt
        <5> QED BY <4>3, <5>2
      <4>7. Avoids(m, k)'
        BY <3>1, <4>3, <4>6 DEF Avoids
      <4> QED BY <4>1, <4>2, <4>7
    <3> QED BY <3>2, <3>3
  <2> QED BY <2>3 DEF ForeignInv
<1>2. ASSUME NEW c \in Clients, HotUpdateSink(c)
      PROVE  ForeignInv'
  <2>1. /\ held[c] # <<>> /\ UNCHANGED <<sinks, foreign, sq, got>>
        /\ wq' = Append(wq, [op |-> "update", k |-> Head(held[c])])
    BY <1>2 DEF HotUpdateSink, Enqueue, CallInv, history, log, sinkvar
  <2>2. Head(held[c]) \in Sinks
    BY <2>1, SeqTypes DEF HandsOK, Threads
  <2>3. ASSUME NEW k \in Sinks, NEW m \in foreign'[k] PROVE m \notin Arrived(k)' /\ Avoids(m, k)'
    <3>1. m \in Msgs /\ m \notin Arrived(k) /\ Avoids(m, k)
      BY <2>1 DEF HistoryOK, ForeignInv
    <3>2. Avoids(m, k)'
      BY <2>1, <2>2, <3>1, TaskTypes, AvoidsEnqueue DEF Carries
    <3> QED BY <2>1, <3>1, <3>2 DEF Arrived
  <2> QED BY <2>3 DEF ForeignInv
<1>3. CASE \/ \E c \in Clients : \E k \in Sinks : AddSink(c, k)
           \/ \E c \in Clients : RemoveAllSinks(c) \/ RemoveSinkSpawns(c)
           \/ DtorRemoveAllSinks \/ DtorReset
  <2>1. /\ UNCHANGED <<sinks, foreign, sq, got>>
        /\ wq' = wq \/ \E e \in Tasks : e.op \notin {"save", "fatal"} /\ wq' = Append(wq, e)
    BY <1>3, TaskTypes DEF AddSink, RemoveAllSinks, RemoveSinkSpawns, DtorRemoveAllSinks,
                           DtorReset, Enqueue, Spawn, history, log, sinkvar, HistoryOK
  <2>2. ASSUME NEW k \in Sinks, NEW m \in foreign'[k] PROVE m \notin Arrived(k)' /\ Avoids(m, k)'
    <3>1. m \in Msgs /\ m \notin Arrived(k) /\ Avoids(m, k)
      BY <2>1 DEF HistoryOK, ForeignInv
    <3>2. CASE wq' = wq
      BY <2>1, <3>1, <3>2 DEF Avoids, Arrived
    <3>3. CASE wq' # wq
      <4>1. Avoids(m, k)'
        BY <2>1, <3>1, <3>3, AvoidsEnqueue DEF Carries
      <4> QED BY <2>1, <3>1, <4>1 DEF Arrived
    <3> QED BY <3>2, <3>3
  <2> QED BY <2>2 DEF ForeignInv
<1>4. CASE BgSave \/ BgFatal
  <2>1. Sends /\ foreign' = foreign /\ (sinks' = sinks \/ sinks' = <<>>)
    BY <1>4, Delivers DEF BgSave, BgFatal, ClearSinks, history, log
  <2>2. ASSUME NEW k \in Sinks, NEW m \in foreign'[k] PROVE m \notin Arrived(k)' /\ Avoids(m, k)'
    <3>1. m \in Msgs /\ m \notin Arrived(k) /\ Avoids(m, k)
      BY <2>1 DEF HistoryOK, ForeignInv
    <3>2. k \in Range(sinks') => k \in Range(sinks)
      BY <2>1, SmallRanges
    <3>3. Avoids(m, k)' /\ (Carries(Head(wq), m) => k \notin Range(sinks))
      BY <2>1, <3>1, <3>2, AvoidsTake DEF Sends
    <3>4. m \notin Arrived(k)'
      BY <2>1, <3>1, <3>3 DEF Sends, Carries
    <3> QED BY <3>3, <3>4
  <2> QED BY <2>2 DEF ForeignInv
<1>5. CASE BgAdd \/ BgUpdate \/ BgDone \/ BgRemove \/ BgClear
  <2>1. /\ wq # <<>> /\ wq' = Tail(wq) /\ foreign' = foreign
        /\ Head(wq).op \notin {"save", "fatal"} /\ ~(BgSave \/ BgFatal)
        /\ \/ sinks' = sinks \/ sinks' = <<>>
           \/ Head(wq).op = "add" /\ sinks' = Append(sinks, Head(wq).k)
           \/ Head(wq).op = "remove" /\ sinks' = Erased(Head(wq).k)
    BY <1>5 DEF BgSave, BgFatal, BgAdd, BgUpdate, BgDone, BgRemove, BgClear, ClearSinks, Take,
                history, log
  <2>2. ASSUME NEW k \in Sinks, NEW m \in foreign'[k] PROVE m \notin Arrived(k)' /\ Avoids(m, k)'
    <3>1. m \in Msgs /\ m \notin Arrived(k) /\ Avoids(m, k)
      BY <2>1 DEF HistoryOK, ForeignInv
    <3>2. Arrived(k)' = Arrived(k)
      BY <2>1, Arrivals
    <3>3. k \in Range(sinks') => k \in Range(sinks) \/ Adds(Head(wq), k)
      <4>1. CASE Head(wq).op = "add" /\ sinks' = Append(sinks, Head(wq).k)
        <5>1. Head(wq).k \in Sinks
          BY <2>1, <4>1, TaskSeqs, TaskTypes
        <5>2. Range(Append(sinks, Head(wq).k)) = Range(sinks) \cup {Head(wq).k}
          BY <5>1, AppendRange DEF WorkerOK
        <5> QED BY <4>1, <5>2 DEF Adds
      <4>2. CASE Head(wq).op = "remove" /\ sinks' = Erased(Head(wq).k)
        <5>1. Head(wq).k \in Sinks
          BY <2>1, <4>2, TaskSeqs, TaskTypes
        <5>2. Range(Erased(Head(wq).k)) = Range(sinks) \ {Head(wq).k}
          BY <5>1, ErasedAt DEF OnceInv
        <5> QED BY <4>2, <5>2
      <4> QED BY <2>1, <4>1, <4>2, SmallRanges
    <3> QED BY <2>1, <3>1, <3>2, <3>3, AvoidsTake
  <2> QED BY <2>2 DEF ForeignInv
<1>6. CASE DtorJoin
  <2>1. UNCHANGED <<wq, foreign, got, sq>> /\ sinks' = <<>>
    BY <1>6 DEF DtorJoin, history, log, sinkvar
  <2>2. ASSUME NEW k \in Sinks, NEW m \in foreign'[k] PROVE m \notin Arrived(k)' /\ Avoids(m, k)'
    <3>1. m \notin Arrived(k) /\ Avoids(m, k) /\ k \notin Range(sinks')
      BY <2>1, SmallRanges DEF ForeignInv
    <3> QED BY <2>1, <3>1 DEF Avoids, Arrived
  <2> QED BY <2>2 DEF ForeignInv
<1>7. CASE \/ \E t \in Threads : Release(t) \/ JoinSink(t)
           \/ \E k \in Sinks : SinkRuns(k)
           \/ \E c \in Clients : HandleCall(c)
  <2>1. UNCHANGED <<wq, foreign, sinks>> /\ ~(BgSave \/ BgFatal)
    <3>1. UNCHANGED <<wq, foreign, sinks>>
      BY <1>7 DEF Release, JoinSink, SinkRuns, HandleCall, history, log, worker
    <3> QED BY <3>1, GrowsOrShrinks DEF BgSave, BgFatal, Take
  <2>2. ASSUME NEW k \in Sinks, NEW m \in foreign'[k] PROVE m \notin Arrived(k)' /\ Avoids(m, k)'
    <3>1. m \notin Arrived(k) /\ Avoids(m, k) /\ Arrived(k)' = Arrived(k)
      BY <2>1, Arrivals DEF ForeignInv
    <3> QED BY <2>1, <3>1 DEF Avoids
  <2> QED BY <2>2 DEF ForeignInv
<1>8. CASE \/ \E c \in Clients : \E k \in Sinks : RemoveSink(c, k) \/ LockHandle(c, k)
           \/ \E c \in Clients : AddSinkWaited(c) \/ RemovalReturns(c) \/ CallReturns(c)
           \/ TaskReturns \/ DtorReturns
  <2>1. UNCHANGED <<wq, foreign, sinks, sq, got>>
    BY <1>8 DEF RemoveSink, LockHandle, AddSinkWaited, RemovalReturns, CallReturns, TaskReturns,
                DtorReturns, worker, sinkvar, hands, log, history
  <2> QED BY <2>1 DEF ForeignInv, Avoids, Arrived
<1>9. CASE UNCHANGED vars
  BY <1>9 DEF vars, worker, sinkvar, history, log, ForeignInv, Avoids, Arrived
<1> QED BY <1>1, <1>2, <1>3, <1>4, <1>5, <1>6, <1>7, <1>8, <1>9
       DEF Next, ClientGoesOn, WorkerStep, Dtor

(* The process exits when the worker let go of every sink.                      *)
LEMMA ExitStep ==
  ASSUME ClientsOK, ExitInv, [Next]_vars
  PROVE  ExitInv'
<1> USE LogWorkerAssumption
<1>1. CASE BgSave \/ BgAdd \/ BgRemove \/ BgClear \/ BgUpdate \/ BgFatal \/ BgDone
  <2>1. /\ ~exited /\ exited' = exited /\ task = None
        /\ task' = None \/ (task' = Head(wq) /\ (Head(wq).op = "fatal" => sinks' = <<>>))
    BY <1>1 DEF BgSave, BgAdd, BgRemove, BgClear, BgUpdate, BgFatal, BgDone, Take, ClearSinks
  <2> QED BY <2>1 DEF ExitInv
<1>2. CASE TaskReturns
  BY <1>2 DEF TaskReturns, ExitInv, Exits
<1>3. CASE DtorJoin
  BY <1>3 DEF DtorJoin, ExitInv
<1>4. CASE \/ \E c \in Clients : \E m \in Msgs : Save(c, m) \/ Fatal(c, m)
           \/ \E c \in Clients : \E k \in Sinks : AddSink(c, k) \/ RemoveSink(c, k)
                                                    \/ LockHandle(c, k)
           \/ \E c \in Clients : RemoveAllSinks(c) \/ HotUpdateSink(c) \/ AddSinkWaited(c)
                                   \/ RemoveSinkSpawns(c) \/ RemovalReturns(c)
                                   \/ HandleCall(c) \/ CallReturns(c)
           \/ \E t \in Threads : Release(t) \/ JoinSink(t)
           \/ \E k \in Sinks : SinkRuns(k)
           \/ \E k \in Sinks : \E m \in Msgs : SinkCrashes(k, m)
           \/ DtorRemoveAllSinks \/ DtorReset \/ DtorReturns
  <2>1. UNCHANGED <<task, sinks, exited>>
    BY <1>4 DEF Save, Fatal, AddSink, RemoveSink, LockHandle, RemoveAllSinks, HotUpdateSink,
                AddSinkWaited, RemoveSinkSpawns, RemovalReturns, HandleCall, CallReturns, Release,
                JoinSink, SinkRuns, SinkCrashes, DtorRemoveAllSinks, DtorReset, DtorReturns,
                worker, sinkvar, hands, log, history
  <2> QED BY <2>1 DEF ExitInv
<1>5. CASE UNCHANGED vars
  BY <1>5 DEF vars, worker, ExitInv
<1> QED BY <1>1, <1>2, <1>3, <1>4, <1>5
       DEF Next, ClientGoesOn, WorkerStep, Dtor

--------------------------------------------------------------------------------
(* Removals                                                                     *)

(* The task that a removal waits for stays in the queue until it is taken.      *)
LEMMA GoingForStays ==
  ASSUME WorkerOK, NEW c \in Clients, NEW k \in Sinks, GoingFor(c, k)
  PROVE  /\ wq' = wq => GoingFor(c, k)'
         /\ \A e \in Tasks : wq' = Append(wq, e) => GoingFor(c, k)'
         /\ wq # <<>> /\ wq' = Tail(wq) =>
               GoingFor(c, k)' \/ (Awaited(Head(wq), c) /\ Removes(Head(wq), k))
<1>1. PICK n \in DOMAIN wq : Awaited(wq[n], c) /\ Removes(wq[n], k)
  BY DEF GoingFor
<1>2. wq' = wq => GoingFor(c, k)'
  BY <1>1 DEF GoingFor
<1>3. ASSUME NEW e \in Tasks, wq' = Append(wq, e) PROVE GoingFor(c, k)'
  BY <1>1, <1>3, EnqueueAt DEF GoingFor
<1>4. ASSUME wq # <<>>, wq' = Tail(wq)
      PROVE  GoingFor(c, k)' \/ (Awaited(Head(wq), c) /\ Removes(Head(wq), k))
  <2>1. CASE n = 1
    BY <1>1, <1>4, <2>1, TakeAt
  <2>2. CASE n # 1
    BY <1>1, <1>4, <2>2, TakeAt DEF GoingFor
  <2> QED BY <2>1, <2>2
<1> QED BY <1>2, <1>3, <1>4

(* When nothing is removed: a sink is taken out by the worker only.             *)
Kept(d) == pc'[d] = pc[d] /\ fut'[d] = fut[d] /\ arg'[d] = arg[d]

(* Then no sink comes back, and no waiting is over.                             *)
LEMMA GoneKept ==
  ASSUME WorkerOK, HistoryOK, GoneInv, ~BgIsNull, sinks' = sinks, task' = task,
         wq' = wq \/ \E e \in Tasks : wq' = Append(wq, e),
         \A k \in Sinks : Uses(Worker, k)' => Uses(Worker, k),
         \A k \in Sinks : member'[k] = "left" => Removed(k),
         \A d \in Clients : pc'[d] \in {"removing", "clearing"} =>
            \/ Kept(d)
            \/ fut'[d] = "pending" /\ \A k \in arg'[d] : GoingFor(d, k)'
  PROVE  GoneInv'
<1>1. ASSUME NEW k \in Sinks, Removed(k)' PROVE Gone(k)'
  <2>1. Removed(k)
    <3>1. CASE member'[k] = "left"
      BY <3>1
    <3>2. CASE member'[k] # "left"
      <4>1. PICK d \in Clients : /\ pc'[d] \in {"removing", "clearing"} /\ k \in arg'[d]
                                 /\ fut'[d] # "pending"
        BY <1>1, <3>2 DEF Removed
      <4>2. Kept(d)
        BY <4>1
      <4> QED BY <4>1, <4>2 DEF Kept, Removed
    <3> QED BY <3>1, <3>2
  <2>2. Gone(k)
    BY <2>1 DEF GoneInv
  <2>3. k \notin Range(sinks)'
    BY <2>2 DEF Gone
  <2>4. task' # None /\ task'.op \in {"clear", "fatal"} => ~Uses(Worker, k)'
    BY <2>2 DEF Gone
  <2> QED BY <2>3, <2>4 DEF Gone
<1>2. ASSUME NEW d \in Clients, pc'[d] \in {"removing", "clearing"}, fut'[d] = "pending",
             NEW k \in arg'[d]
      PROVE  k \notin Range(sinks') \/ GoingFor(d, k)'
  <2>1. CASE Kept(d)
    <3>1. k \in Sinks /\ k \in arg[d]
      BY <2>1, <1>2 DEF HistoryOK, Kept
    <3>2. k \notin Range(sinks) \/ GoingFor(d, k)
      BY <1>2, <2>1, <3>1 DEF GoneInv, Kept
    <3> QED BY <3>1, <3>2, GoingForStays
  <2>2. CASE \A j \in arg'[d] : GoingFor(d, j)'
    BY <2>2
  <2> QED BY <1>2, <2>1, <2>2
<1> QED BY <1>1, <1>2 DEF GoneInv

(* When the wait of a removal is over, its task has run: the sinks are out of   *)
(* the vector and out of the hands of the worker.                               *)
LEMMA GoneStep ==
  ASSUME WorkerOK, HandsOK, ClientsOK, HistoryOK, CallInv, HeldInv, OwnedIffAlive, OnceInv,
         TaskInv, ArgInv, GoneInv, [Next]_vars
  PROVE  GoneInv'
<1> USE LogWorkerAssumption
<1>a. CASE BgIsNull'
  BY <1>a DEF GoneInv, Removed
<1>b. CASE ~BgIsNull'
  <2> SUFFICES ASSUME ~BgIsNull, ~BgIsNull' PROVE GoneInv'
    BY <1>b, NullGrows
  <2>1. CASE \/ \E c \in Clients : \E m \in Msgs : Save(c, m) \/ Fatal(c, m)
             \/ \E k \in Sinks : \E m \in Msgs : SinkCrashes(k, m)
             \/ \E c \in Clients : \E k \in Sinks : LockHandle(c, k)
             \/ DtorRemoveAllSinks
             \/ \E c \in Clients : HandleCall(c) \/ AddSinkWaited(c)
    <3>1. /\ UNCHANGED <<sinks, task, joining, arg>> /\ held'[Worker] = held[Worker]
          /\ wq' = wq \/ \E e \in Tasks : wq' = Append(wq, e)
          /\ member' = member \/ AllLeave
          /\ \A d \in Clients : pc'[d] \in {"removing", "clearing"} => pc'[d] = pc[d] /\ fut'[d] = fut[d]
      BY ZenonT(60), <2>1, TaskTypes
         DEF Save, Fatal, SinkCrashes, LockHandle, DtorRemoveAllSinks, HandleCall,
                             AddSinkWaited, Idle, Enqueue, Spawn, ClientsOK, HandsOK, Threads,
                             history, hands, worker
    <3>2. \A k \in Sinks : member'[k] = "left" => Removed(k)
      BY <3>1 DEF Removed, AllLeave, HistoryOK
    <3> QED BY <3>1, <3>2, GoneKept DEF Kept, Uses
  <2>2. ASSUME NEW c \in Clients, HotUpdateSink(c)
        PROVE  GoneInv'
    <3>1. /\ UNCHANGED <<sinks, task, joining, arg, member, held>> /\ held[c] # <<>>
          /\ wq' = Append(wq, [op |-> "update", k |-> Head(held[c])])
          /\ \A d \in Clients : pc'[d] \in {"removing", "clearing"} => pc'[d] = pc[d] /\ fut'[d] = fut[d]
      BY <2>2 DEF HotUpdateSink, Enqueue, CallInv, history, hands, ClientsOK
    <3>2. Head(held[c]) \in Sinks
      BY <3>1, SeqTypes DEF HandsOK, Threads
    <3>3. \A k \in Sinks : member'[k] = "left" => Removed(k)
      BY <3>1 DEF Removed
    <3> QED BY <3>1, <3>2, <3>3, TaskTypes, GoneKept DEF Kept, Uses
  <2>3. ASSUME NEW c \in Clients, NEW k \in Sinks, AddSink(c, k)
        PROVE  GoneInv'
    <3>1. /\ UNCHANGED <<sinks, task, joining>> /\ held'[Worker] = held[Worker]
          /\ wq' = wq \/ \E e \in Tasks : wq' = Append(wq, e)
          /\ \A j \in Sinks : member'[j] = "left" => member[j] = "left"
          /\ \A d \in Clients : pc'[d] \in {"removing", "clearing"} =>
                pc'[d] = pc[d] /\ fut'[d] = fut[d] /\ arg'[d] = arg[d]
      BY <2>3, TaskTypes DEF AddSink, Idle, Enqueue, Spawn, ClientsOK, HandsOK, HistoryOK, Threads,
                             hands, worker
    <3>2. \A j \in Sinks : member'[j] = "left" => Removed(j)
      BY <3>1 DEF Removed
    <3> QED BY <3>1, <3>2, GoneKept DEF Kept, Uses
  <2>4. ASSUME NEW c \in Clients, NEW k \in Sinks, RemoveSink(c, k)
        PROVE  GoneInv'
    <3>1. /\ UNCHANGED <<sinks, task, joining>> /\ held'[Worker] = held[Worker]
          /\ wq' = wq \/ \E e \in Tasks : wq' = Append(wq, e)
          /\ \A j \in Sinks : member'[j] = "left" => member[j] = "left"
          /\ \A d \in Clients : pc'[d] \in {"removing", "clearing"} =>
                pc'[d] = pc[d] /\ fut'[d] = fut[d] /\ arg'[d] = arg[d]
      BY <2>4, TaskTypes DEF RemoveSink, Idle, Enqueue, Spawn, ClientsOK, HandsOK, HistoryOK,
                             Threads, hands, worker
    <3>2. \A j \in Sinks : member'[j] = "left" => Removed(j)
      BY <3>1 DEF Removed
    <3> QED BY <3>1, <3>2, GoneKept DEF Kept, Uses
  <2>5. ASSUME NEW c \in Clients, CallReturns(c)
        PROVE  GoneInv'
    <3>1. /\ UNCHANGED <<sinks, task, joining>> /\ held'[Worker] = held[Worker]
          /\ wq' = wq \/ \E e \in Tasks : wq' = Append(wq, e)
          /\ \A k \in Sinks : member'[k] = "left" => member[k] = "left"
          /\ \A d \in Clients : pc'[d] \in {"removing", "clearing"} =>
                pc'[d] = pc[d] /\ fut'[d] = fut[d] /\ arg'[d] = arg[d]
      BY <2>5, TaskTypes DEF CallReturns, Idle, Enqueue, Spawn, ClientsOK, HandsOK, HistoryOK,
                             Threads, hands, worker
    <3>2. \A k \in Sinks : member'[k] = "left" => Removed(k)
      BY <3>1 DEF Removed
    <3> QED BY <3>1, <3>2, GoneKept DEF Kept, Uses
  <2>6. ASSUME NEW c \in Clients, RemovalReturns(c)
        PROVE  GoneInv'
    <3>1. /\ UNCHANGED <<sinks, task, joining, wq, held>>
          /\ pc[c] \in {"removing", "clearing"} /\ fut[c] # "pending"
          /\ \A k \in Sinks : member'[k] = "left" => k \in arg[c] \/ member[k] = "left"
          /\ \A d \in Clients : pc'[d] \in {"removing", "clearing"} =>
                pc'[d] = pc[d] /\ fut'[d] = fut[d] /\ arg'[d] = arg[d]
      BY <2>6 DEF RemovalReturns, Answered, ClientsOK, HistoryOK, hands, worker
    <3>2. \A k \in Sinks : member'[k] = "left" => Removed(k)
      BY <3>1 DEF Removed
    <3> QED BY <3>1, <3>2, GoneKept DEF Kept, Uses
  <2>7. ASSUME NEW c \in Clients, RemoveAllSinks(c)
        PROVE  GoneInv'
    <3>1. /\ UNCHANGED <<sinks, task, joining, held>> /\ AllLeave
          /\ wq' = Append(wq, [op |-> "clear", c |-> c]) /\ fut'[c] = "pending"
          /\ \A d \in Clients \ {c} : pc'[d] = pc[d] /\ fut'[d] = fut[d] /\ arg'[d] = arg[d]
      BY <2>7 DEF RemoveAllSinks, Enqueue, Spawn, ClientsOK, HistoryOK, hands
    <3>2. \A k \in Sinks : member'[k] = "left" => Removed(k)
      BY <3>1 DEF Removed, AllLeave, HistoryOK
    <3>3. ASSUME NEW k \in arg'[c] PROVE GoingFor(c, k)'
      <4>1. /\ Len(wq) + 1 \in DOMAIN wq' /\ Awaited(wq'[Len(wq) + 1], c)
            /\ Removes(wq'[Len(wq) + 1], k)
        BY <3>1, TaskTypes, EnqueueAt DEF Awaited, Removes
      <4> QED BY <4>1 DEF GoingFor
    <3> QED BY <3>1, <3>2, <3>3, TaskTypes, GoneKept DEF Kept, Uses
  <2>8. ASSUME NEW c \in Clients, RemoveSinkSpawns(c)
        PROVE  GoneInv'
    <3>0. PICK k \in Sinks : arg[c] = {k}
      BY <2>8 DEF RemoveSinkSpawns, ArgInv, IsAbout
    <3>1. /\ UNCHANGED <<sinks, task, joining, held, arg, member>>
          /\ wq' = Append(wq, [op |-> "remove", k |-> k, c |-> c]) /\ fut'[c] = "pending"
          /\ \A d \in Clients \ {c} : pc'[d] = pc[d] /\ fut'[d] = fut[d]
      BY <2>8, <3>0 DEF RemoveSinkSpawns, Enqueue, Spawn, ClientsOK, history, hands
    <3>2. \A j \in Sinks : member'[j] = "left" => Removed(j)
      BY <3>1 DEF Removed
    <3>3. ASSUME NEW j \in arg'[c] PROVE GoingFor(c, j)'
      <4>1. /\ Len(wq) + 1 \in DOMAIN wq' /\ Awaited(wq'[Len(wq) + 1], c)
            /\ Removes(wq'[Len(wq) + 1], j)
        BY <3>0, <3>1, TaskTypes, EnqueueAt DEF Awaited, Removes
      <4> QED BY <4>1 DEF GoingFor
    <3> QED BY <3>1, <3>2, <3>3, TaskTypes, GoneKept DEF Kept, Uses
  <2>9. ASSUME NEW t \in Threads, Release(t) \/ JoinSink(t)
        PROVE  GoneInv'
    <3>1. UNCHANGED <<sinks, task, wq, pc, fut, arg, member>>
      BY <2>9 DEF Release, JoinSink, history, worker
    <3>2. \A k \in Sinks : Uses(Worker, k)' => Uses(Worker, k)
      <4>1. ASSUME NEW k \in Sinks, JoinSink(t), Uses(Worker, k)' PROVE Uses(Worker, k)
        <5>1. held' = held /\ joining' = [joining EXCEPT ![t] = None] /\ k # None
          BY <4>1, LogWorkerAssumption DEF JoinSink
        <5> QED BY <4>1, <5>1 DEF Uses, HandsOK
      <4>2. ASSUME NEW k \in Sinks, Release(t), Uses(Worker, k)' PROVE Uses(Worker, k)
        <5>1. /\ held[t] # <<>> /\ held' = [held EXCEPT ![t] = Tail(@)]
              /\ joining' = joining \/ joining' = [joining EXCEPT ![t] = Head(held[t])]
          BY <4>2 DEF Release
        <5>2. Range(held[t]) = {Head(held[t])} \cup Range(Tail(held[t]))
          BY <5>1, TailRange DEF HandsOK
        <5>3. t \in Threads /\ Worker \in Threads
          BY DEF Threads
        <5>4. held'[Worker] = IF t = Worker THEN Tail(held[t]) ELSE held[Worker]
          BY <5>1, <5>3 DEF HandsOK
        <5>5. joining'[Worker] = joining[Worker] \/ (t = Worker /\ joining'[Worker] = Head(held[t]))
          BY <5>1, <5>3 DEF HandsOK
        <5> QED BY <4>2, <5>2, <5>4, <5>5 DEF Uses
      <4> QED BY <2>9, <4>1, <4>2
    <3>3. \A k \in Sinks : member'[k] = "left" => Removed(k)
      BY <3>1 DEF Removed
    <3> QED BY <3>1, <3>2, <3>3, GoneKept DEF Kept
  <2>10. CASE BgSave \/ BgUpdate \/ BgDone
    <3>1. /\ wq # <<>> /\ wq' = Tail(wq) /\ UNCHANGED <<sinks, pc, fut, arg, member>>
          /\ Head(wq).op \in {"save", "update", "done"}
          /\ task' = None \/ (task' = Head(wq) /\ task'.op = "update")
      BY <2>10 DEF BgSave, BgUpdate, BgDone, Take, history
    <3>2. \A k \in Sinks : Removed(k)' => Removed(k)
      BY <3>1 DEF Removed
    <3>3. \A k \in Sinks : Removed(k)' => Gone(k)'
      BY <3>1, <3>2 DEF GoneInv, Gone
    <3>4. ASSUME NEW d \in Clients, pc[d] \in {"removing", "clearing"}, fut[d] = "pending",
                 NEW k \in arg[d]
          PROVE  k \notin Range(sinks') \/ GoingFor(d, k)'
      <4>1. k \in Sinks /\ ~Awaited(Head(wq), d)
        BY <3>1 DEF HistoryOK, Awaited
      <4> QED BY <3>1, <3>4, <4>1, GoingForStays DEF GoneInv
    <3> QED BY <3>1, <3>3, <3>4 DEF GoneInv
  <2>11. CASE BgAdd
    <3>1. /\ wq # <<>> /\ wq' = Tail(wq) /\ UNCHANGED <<task, pc, arg, member>>
          /\ Head(wq).op = "add" /\ sinks' = Append(sinks, Head(wq).k)
          /\ fut' = [fut EXCEPT ![Head(wq).c] = "ready"] /\ task = None
      BY <2>11 DEF BgAdd, Take, history
    <3>2. Head(wq).k \in Sinks /\ Head(wq).c \in Clients /\ Head(wq) = wq[1] /\ 1 \in DOMAIN wq
      BY <3>1, TaskSeqs, TaskTypes, TakeAt
    <3>3. pc[Head(wq).c] = "adding"
      BY <3>1, <3>2 DEF TaskInv, OneTask, Awaited, Awaits
    <3>4. \A d \in Clients : pc[d] \in {"removing", "clearing"} => fut'[d] = fut[d]
      BY <3>1, <3>2, <3>3 DEF ClientsOK
    <3>5. \A k \in Sinks : Removed(k)' => Removed(k)
      BY <3>1, <3>4 DEF Removed
    <3>6. Range(sinks') = Range(sinks) \cup {Head(wq).k}
      <4>1. Range(Append(sinks, Head(wq).k)) = Range(sinks) \cup {Head(wq).k}
        BY <3>2, AppendRange DEF WorkerOK
      <4> QED BY <3>1, <4>1
    <3>7. ASSUME NEW k \in Sinks, Known(k) PROVE k # Head(wq).k
      BY <3>1, <3>2, <3>7, KnownNotAdded DEF Adds
    <3>8. ASSUME NEW k \in Sinks, Removed(k)' PROVE Gone(k)'
      <4>1. Removed(k) /\ Known(k)
        BY <3>5, <3>8 DEF Removed, Known, InRemoval
      <4>2. k \notin Range(sinks) /\ k # Head(wq).k
        BY <3>7, <4>1 DEF GoneInv, Gone
      <4> QED BY <3>1, <3>6, <4>2 DEF Gone
    <3>9. ASSUME NEW d \in Clients, pc[d] \in {"removing", "clearing"}, fut'[d] = "pending",
                 NEW k \in arg[d]
          PROVE  k \notin Range(sinks') \/ GoingFor(d, k)'
      <4>1. k \in Sinks /\ Known(k) /\ fut[d] = "pending"
        BY <3>4, <3>9 DEF HistoryOK, Known, InRemoval
      <4>2. ~Removes(Head(wq), k) /\ k # Head(wq).k
        BY <3>1, <3>7, <4>1 DEF Removes
      <4>3. k \notin Range(sinks) \/ GoingFor(d, k)
        BY <3>9, <4>1 DEF GoneInv
      <4> QED BY <3>1, <3>6, <4>1, <4>2, <4>3, GoingForStays
    <3> QED BY <3>1, <3>8, <3>9 DEF GoneInv
  <2>12. CASE BgRemove
    <3>1. /\ wq # <<>> /\ wq' = Tail(wq) /\ UNCHANGED <<pc, arg, member, fut>>
          /\ Head(wq).op = "remove" /\ task' = Head(wq)
          /\ sinks' = IF state[Head(wq).k] = "alive" THEN Erased(Head(wq).k) ELSE sinks
      BY <2>12 DEF BgRemove, Take, history
    <3>2. \A k \in Sinks : Removed(k)' => Removed(k)
      BY <3>1 DEF Removed
    <3>3. Head(wq).k \in Sinks
      BY <3>1, TaskSeqs, TaskTypes
    <3>4. Range(sinks') = Range(sinks) \ {Head(wq).k}
      <4>1. CASE state[Head(wq).k] = "alive"
        BY <3>1, <3>3, <4>1, ErasedAt DEF OnceInv
      <4>2. CASE state[Head(wq).k] # "alive"
        <5>1. Head(wq).k \notin Range(sinks)
          BY <3>3, <4>2 DEF OwnedIffAlive, Owned
        <5> QED BY <3>1, <4>2, <5>1
      <4> QED BY <4>1, <4>2
    <3>5. \A k \in Sinks : Removed(k)' => Gone(k)'
      BY <3>1, <3>2, <3>4 DEF GoneInv, Gone
    <3>6. ASSUME NEW d \in Clients, pc[d] \in {"removing", "clearing"}, fut[d] = "pending",
                 NEW k \in arg[d]
          PROVE  k \notin Range(sinks') \/ GoingFor(d, k)'
      <4>1. k \in Sinks
        BY DEF HistoryOK
      <4>2. k \notin Range(sinks) \/ GoingFor(d, k)
        BY <3>6 DEF GoneInv
      <4>3. Removes(Head(wq), k) => k = Head(wq).k
        BY <3>1 DEF Removes
      <4> QED BY <3>1, <3>4, <4>1, <4>2, <4>3, GoingForStays
    <3> QED BY <3>1, <3>5, <3>6 DEF GoneInv
  <2>13. CASE BgClear \/ BgFatal
    <3>1. /\ wq # <<>> /\ wq' = Tail(wq) /\ UNCHANGED <<pc, arg, member, fut, joining>>
          /\ held' = [held EXCEPT ![Worker] = sinks] /\ sinks' = <<>> /\ task = None
      BY <2>13 DEF BgClear, BgFatal, Take, ClearSinks, history
    <3>2. \A k \in Sinks : Removed(k)' => Removed(k)
      BY <3>1 DEF Removed
    <3>3. Range(sinks') = {} /\ joining'[Worker] = None /\ held'[Worker] = sinks
      BY <3>1, SmallRanges DEF HeldInv, HandsOK, Threads
    <3>4. ASSUME NEW k \in Sinks, Removed(k)' PROVE Gone(k)'
      <4>1. k \notin Range(sinks) /\ k # None
        BY <3>2, <3>4, LogWorkerAssumption DEF GoneInv, Gone
      <4>2. ~Uses(Worker, k)'
        BY <3>3, <4>1 DEF Uses
      <4> QED BY <3>3, <4>2 DEF Gone
    <3> QED BY <3>3, <3>4 DEF GoneInv
  <2>14. CASE TaskReturns
    <3>1. /\ UNCHANGED <<wq, sinks, pc, arg, member>> /\ task # None /\ task' = None
          /\ fut' = IF Answers(task.op) THEN [fut EXCEPT ![task.c] = "ready"] ELSE fut
      BY <2>14 DEF TaskReturns, history
    <3>2. \A d \in Clients : fut'[d] = fut[d] \/ (fut'[d] # "pending" /\ Awaited(task, d))
      BY <3>1 DEF ClientsOK, Awaited, Answers
    <3>3. ASSUME NEW k \in Sinks, Removed(k)' PROVE Gone(k)'
      <4>1. CASE Removed(k)
        BY <3>1, <4>1 DEF GoneInv, Gone
      <4>2. CASE ~Removed(k)
        <5>1. PICK d \in Clients : /\ pc[d] \in {"removing", "clearing"} /\ k \in arg[d]
                                   /\ fut[d] = "pending" /\ Awaited(task, d)
          BY <3>1, <3>2, <3>3, <4>2 DEF Removed
        <5>2. \A n \in DOMAIN wq : ~Awaited(wq[n], d)
          BY <3>1, <5>1 DEF TaskInv, OneTask
        <5>3. ~GoingFor(d, k)
          BY <5>2 DEF GoingFor
        <5>4. k \notin Range(sinks)
          BY <5>1, <5>3 DEF GoneInv
        <5> QED BY <3>1, <5>4 DEF Gone
      <4> QED BY <4>1, <4>2
    <3>4. ASSUME NEW d \in Clients, pc[d] \in {"removing", "clearing"}, fut'[d] = "pending",
                 NEW k \in arg[d]
          PROVE  k \notin Range(sinks') \/ GoingFor(d, k)'
      BY <3>1, <3>2, <3>4 DEF GoneInv, GoingFor
    <3> QED BY <3>1, <3>3, <3>4 DEF GoneInv
  <2>15. CASE DtorReset \/ DtorJoin
    <3>1. BgIsNull'
      BY <2>15 DEF DtorReset, DtorJoin, BgIsNull, ClientsOK
    <3> QED BY <3>1 DEF GoneInv, Removed
  <2>16. CASE \/ \E k \in Sinks : SinkRuns(k)
              \/ DtorReturns
    <3>1. /\ UNCHANGED <<sinks, task, joining, wq, held, arg, fut, member>>
          /\ \A d \in Clients : pc'[d] \in {"removing", "clearing"} => pc'[d] = pc[d]
      BY <2>16 DEF SinkRuns, DtorReturns, worker, hands, history, ClientsOK
    <3>2. \A k \in Sinks : member'[k] = "left" => Removed(k)
      BY <3>1 DEF Removed
    <3> QED BY <3>1, <3>2, GoneKept DEF Kept, Uses
  <2>17. CASE UNCHANGED vars
    <3>1. UNCHANGED <<wq, sinks, task, held, joining, member, arg, fut, pc>>
      BY <2>17 DEF vars, worker, hands, history
    <3>2. \A k \in Sinks : member'[k] = "left" => Removed(k)
      BY <3>1 DEF Removed
    <3> QED BY <3>1, <3>2, GoneKept DEF Kept, Uses
  <2> QED BY <2>1, <2>2, <2>3, <2>4, <2>5, <2>6, <2>7, <2>8, <2>9, <2>10, <2>11, <2>12, <2>13,
             <2>14, <2>15, <2>16, <2>17
         DEF Next, ClientGoesOn, WorkerStep, Dtor
<1> QED BY <1>a, <1>b

--------------------------------------------------------------------------------
(* The log in pieces                                                            *)

(* f, a queue of N things, has the messages a + 1 to b of the log s, in order.  *)
Brings(s, f, N, a, b) ==
   /\ \A n \in 1..N : f[n] \in Msgs => \E p \in (a + 1)..b : s[p] = f[n]
   /\ \A p \in (a + 1)..b : \E n \in 1..N : f[n] = s[p]
   /\ \A n, i \in 1..N, p, q \in (a + 1)..b : f[n] = s[p] /\ f[i] = s[q] => (n < i <=> p < q)

(* The log goes from the queue of the worker to the queues of its sinks, and    *)
(* from there to the sinks: the worker's queue has the messages from w + 1 on,  *)
(* sink k was given those from i + 1 to j and its queue has those up to l.      *)
Message(t) == IF t.op \in {"save", "fatal"} THEN t.m ELSE "call"
Words == [n \in DOMAIN wq |-> Message(wq[n])]
Ahead(w) == Brings(saved, Words, Len(wq), w, Len(saved))
Piece(k, w, i, j, l) ==
   /\ Len(got[k]) = j - i /\ \A n \in 1..(j - i) : got[k][n] = saved[i + n]
   /\ j <= l /\ l <= w /\ Brings(saved, sq[k], Len(sq[k]), j, l)
   /\ k \in Range(sinks) => l = w
Brought(k, w) == \E i, j, l \in 0..Len(saved) : Piece(k, w, i, j, l)
ChainInv == /\ NoTwins(saved)
            /\ \E w \in 0..Len(saved) : Ahead(w) /\ \A k \in Sinks : Brought(k, w)

(* A sink that is not in the vector yet has no messages.                        *)
FreshInv == \A k \in Sinks : state[k] = "new" \/ (\E n \in DOMAIN wq : Adds(wq[n], k)) =>
               Arrived(k) = {}

(* The first of such a queue is the next message of the log, or none.           *)
LEMMA BringsNext ==
  ASSUME NEW s, NEW f, NEW g, NEW N \in Nat, NEW a \in Nat, NEW b \in Nat, N > 0, a <= b,
         \A p, q \in 1..b : s[p] = s[q] => p = q, \A p \in 1..b : s[p] \in Msgs,
         \A n \in 1..(N - 1) : g[n] = f[n + 1], Brings(s, f, N, a, b)
  PROVE  /\ f[1] \in Msgs => a < b /\ f[1] = s[a + 1] /\ Brings(s, g, N - 1, a + 1, b)
         /\ f[1] \notin Msgs => Brings(s, g, N - 1, a, b)
<1>1. ASSUME f[1] \in Msgs PROVE a < b /\ f[1] = s[a + 1]
  <2>1. PICK p \in (a + 1)..b : s[p] = f[1]
    BY <1>1 DEF Brings
  <2>2. a < b /\ a + 1 \in (a + 1)..b /\ 1 \in 1..N
    BY <2>1
  <2>3. PICK n \in 1..N : f[n] = s[a + 1]
    BY <2>2 DEF Brings
  <2>4. n < 1 <=> a + 1 < p
    BY <2>1, <2>2, <2>3 DEF Brings
  <2>5. p = a + 1
    BY <2>4
  <2> QED BY <2>1, <2>2, <2>5
<1>2. ASSUME NEW n \in 1..(N - 1) PROVE n + 1 \in 1..N /\ g[n] = f[n + 1] /\ 1 < n + 1
  OBVIOUS
<1>3. ASSUME NEW c \in Nat, a <= c, c <= b, \A p \in (c + 1)..b : s[p] # f[1],
             f[1] \in Msgs => c = a + 1 /\ f[1] = s[a + 1], c # a => f[1] \in Msgs
      PROVE  Brings(s, g, N - 1, c, b)
  <2>1. ASSUME NEW n \in 1..(N - 1), g[n] \in Msgs PROVE \E p \in (c + 1)..b : s[p] = g[n]
    <3>1. PICK p \in (a + 1)..b : s[p] = f[n + 1]
      BY <1>2, <2>1 DEF Brings
    <3>2. CASE c = a
      BY <1>2, <3>1, <3>2
    <3>3. CASE c # a
      <4>1. a + 1 \in (a + 1)..b /\ f[1] = s[a + 1] /\ 1 \in 1..N /\ c = a + 1
        BY <1>3, <3>1, <3>3
      <4>2. 1 < n + 1 <=> a + 1 < p
        BY <1>2, <3>1, <4>1 DEF Brings
      <4>3. p \in (c + 1)..b
        BY <1>2, <3>1, <4>1, <4>2
      <4> QED BY <1>2, <3>1, <4>3
    <3> QED BY <3>2, <3>3
  <2>2. ASSUME NEW p \in (c + 1)..b PROVE \E n \in 1..(N - 1) : g[n] = s[p]
    <3>1. p \in (a + 1)..b
      BY <1>3
    <3>2. PICK n \in 1..N : f[n] = s[p]
      BY <3>1 DEF Brings
    <3>3. n # 1
      BY <1>3, <3>2
    <3>4. n - 1 \in 1..(N - 1) /\ g[n - 1] = f[n]
      <4>1. n - 1 \in 1..(N - 1) /\ (n - 1) + 1 = n
        BY <3>3
      <4> QED BY <4>1
    <3> QED BY <3>2, <3>4
  <2>3. ASSUME NEW n \in 1..(N - 1), NEW i \in 1..(N - 1), NEW p \in (c + 1)..b,
               NEW q \in (c + 1)..b,
               g[n] = s[p], g[i] = s[q]
        PROVE  n < i <=> p < q
    <3>1. p \in (a + 1)..b /\ q \in (a + 1)..b
      BY <1>3
    <3>2. n + 1 < i + 1 <=> p < q
      BY <1>2, <2>3, <3>1 DEF Brings
    <3> QED BY <3>2
  <2> QED BY <2>1, <2>2, <2>3 DEF Brings
<1>4. ASSUME f[1] \in Msgs PROVE Brings(s, g, N - 1, a + 1, b)
  <2>1. \A p \in (a + 1 + 1)..b : s[p] # f[1]
    <3>1. ASSUME NEW p \in (a + 1 + 1)..b PROVE s[p] # s[a + 1]
      <4>1. p \in 1..b /\ a + 1 \in 1..b /\ p # a + 1
        BY <1>1, <1>4
      <4> QED BY <4>1
    <3> QED BY <1>1, <1>4, <3>1
  <2>2. a + 1 \in Nat /\ a <= a + 1 /\ a + 1 <= b
    BY <1>1, <1>4
  <2> QED BY <1>1, <1>3, <1>4, <2>1, <2>2
<1>5. ASSUME f[1] \notin Msgs PROVE Brings(s, g, N - 1, a, b)
  <2>1. \A p \in (a + 1)..b : s[p] # f[1]
    <3>1. \A p \in (a + 1)..b : p \in 1..b
      OBVIOUS
    <3> QED BY <1>5, <3>1
  <2> QED BY <1>3, <1>5, <2>1
<1> QED BY <1>1, <1>4, <1>5

(* The next message of the log, or another thing, is added at the end.          *)
LEMMA BringsMore ==
  ASSUME NEW s, NEW f, NEW g, NEW N \in Nat, NEW a \in Nat, NEW b \in Nat, a <= b,
         \A p, q \in 1..b : s[p] = s[q] => p = q, \A p \in 1..b : s[p] \in Msgs,
         \A n \in 1..N : g[n] = f[n], Brings(s, f, N, a, b)
  PROVE  /\ g[N + 1] \notin Msgs => Brings(s, g, N + 1, a, b)
         /\ g[N + 1] \in Msgs /\ g[N + 1] = s[b + 1] /\ (\A p \in 1..b : s[p] # s[b + 1]) =>
               Brings(s, g, N + 1, a, b + 1)
<1> USE DEF Brings
<1>1. ASSUME NEW n \in 1..(N + 1) PROVE n \in 1..N \/ n = N + 1
  OBVIOUS
<1>2. ASSUME NEW n \in 1..N PROVE n \in 1..(N + 1) /\ n < N + 1
  OBVIOUS
<1>3. ASSUME g[N + 1] \notin Msgs PROVE Brings(s, g, N + 1, a, b)
  <2>1. \A p \in (a + 1)..b : p \in 1..b
    OBVIOUS
  <2>2. \A p \in (a + 1)..b : s[p] # g[N + 1]
    BY <1>3, <2>1
  <2>3. \A n \in 1..(N + 1) : g[n] \in Msgs => \E p \in (a + 1)..b : s[p] = g[n]
    BY <1>1, <1>3
  <2>4. \A p \in (a + 1)..b : \E n \in 1..(N + 1) : g[n] = s[p]
    BY <1>2
  <2>5. ASSUME NEW n \in 1..(N + 1), NEW i \in 1..(N + 1), NEW p \in (a + 1)..b,
               NEW q \in (a + 1)..b,
               g[n] = s[p], g[i] = s[q]
        PROVE  n < i <=> p < q
    <3>1. n \in 1..N /\ i \in 1..N
      BY <1>1, <2>2, <2>5
    <3> QED BY <2>5, <3>1
  <2> QED BY <2>3, <2>4, <2>5
<1>4. ASSUME g[N + 1] \in Msgs, g[N + 1] = s[b + 1], \A p \in 1..b : s[p] # s[b + 1]
      PROVE  Brings(s, g, N + 1, a, b + 1)
  <2>1. \A p \in (a + 1)..(b + 1) : p = b + 1 \/ (p \in (a + 1)..b /\ p \in 1..b /\ p < b + 1)
    OBVIOUS
  <2>2. b + 1 \in (a + 1)..(b + 1) /\ \A p \in (a + 1)..b : p \in (a + 1)..(b + 1)
    OBVIOUS
  <2>3. N + 1 \in 1..(N + 1)
    OBVIOUS
  <2>4. \A n \in 1..(N + 1) : g[n] \in Msgs => \E p \in (a + 1)..(b + 1) : s[p] = g[n]
    BY <1>1, <1>4, <2>2
  <2>5. \A p \in (a + 1)..(b + 1) : \E n \in 1..(N + 1) : g[n] = s[p]
    BY <1>2, <1>4, <2>1, <2>3
  <2>6. ASSUME NEW n \in 1..(N + 1), NEW p \in (a + 1)..(b + 1), g[n] = s[p]
        PROVE  \/ n \in 1..N /\ n < N + 1 /\ p \in (a + 1)..b /\ p < b + 1 /\ f[n] = s[p]
               \/ n = N + 1 /\ p = b + 1
    <3>1. CASE n \in 1..N
      <4>1. ASSUME p = b + 1 PROVE FALSE
        <5>1. f[n] = s[b + 1] /\ f[n] \in Msgs
          BY <1>4, <2>6, <3>1, <4>1
        <5>2. PICK o \in (a + 1)..b : s[o] = f[n]
          BY <3>1, <5>1
        <5>3. o \in 1..b
          BY <2>1, <2>2, <5>2
        <5> QED BY <1>4, <5>1, <5>2, <5>3
      <4> QED BY <1>2, <2>1, <2>6, <3>1, <4>1
    <3>2. CASE n = N + 1
      BY <1>4, <2>1, <2>6, <3>2
    <3> QED BY <1>1, <3>1, <3>2
  <2>7. ASSUME NEW n \in 1..(N + 1), NEW i \in 1..(N + 1),
               NEW p \in (a + 1)..(b + 1), NEW q \in (a + 1)..(b + 1), g[n] = s[p], g[i] = s[q]
        PROVE  n < i <=> p < q
    BY <2>6, <2>7
  <2> QED BY <2>4, <2>5, <2>7
<1> QED BY <1>3, <1>4

(* It does not depend on what comes after b.                                    *)
LEMMA BringsElsewhere ==
  ASSUME NEW s, NEW r, NEW f, NEW N \in Nat, NEW a \in Nat, NEW b \in Nat, Brings(s, f, N, a, b),
         \A p \in 1..b : r[p] = s[p]
  PROVE  Brings(r, f, N, a, b)
<1>1. \A p \in (a + 1)..b : p \in 1..b
  OBVIOUS
<1> QED BY <1>1 DEF Brings

(* The log has each message once.                                               *)
LEMMA LogTypes ==
  ASSUME HistoryOK, NoTwins(saved)
  PROVE  /\ Len(saved) \in Nat /\ DOMAIN saved = 1..Len(saved)
         /\ \A p \in 1..Len(saved) : saved[p] \in Msgs
         /\ \A p, q \in 1..Len(saved) : saved[p] = saved[q] => p = q
         /\ \A b \in 0..Len(saved) : b \in Nat /\ b <= Len(saved) /\ \A p \in 1..b : p \in 1..Len(saved)
<1>1. Len(saved) \in Nat /\ DOMAIN saved = 1..Len(saved) /\ \A p \in 1..Len(saved) : saved[p] \in Msgs
  BY LenProperties, ElementOfSeq DEF HistoryOK
<1> QED BY <1>1 DEF NoTwins

(* Tasks that carry no message come and go.                                     *)
LEMMA WordsStay ==
  ASSUME WorkerOK, HistoryOK, NoTwins(saved), saved' = saved,
         \/ wq' = wq
         \/ \E e \in Tasks : e.op \notin {"save", "fatal"} /\ wq' = Append(wq, e)
         \/ wq # <<>> /\ wq' = Tail(wq) /\ Head(wq).op \notin {"save", "fatal"},
         NEW w \in 0..Len(saved), Ahead(w)
  PROVE  Ahead(w)'
<1>1. CASE wq' = wq
  BY <1>1 DEF Ahead, Words
<1>2. ASSUME NEW e \in Tasks, e.op \notin {"save", "fatal"}, wq' = Append(wq, e)
      PROVE  Ahead(w)'
  <2>1. /\ Len(wq) \in Nat /\ Len(wq') = Len(wq) + 1 /\ \A n \in 1..Len(wq) : Words'[n] = Words[n]
        /\ Words'[Len(wq) + 1] \notin Msgs
    BY <1>2, EnqueueAt, LogWorkerAssumption DEF Words, Message
  <2>2. Brings(saved, Words', Len(wq) + 1, w, Len(saved))
    BY <2>1, LogTypes, BringsMore DEF Ahead
  <2> QED BY <2>1, <2>2 DEF Ahead
<1>3. ASSUME wq # <<>>, wq' = Tail(wq), Head(wq).op \notin {"save", "fatal"}
      PROVE  Ahead(w)'
  <2>1. /\ Len(wq) \in Nat /\ Len(wq) > 0 /\ Len(wq') = Len(wq) - 1
        /\ \A n \in 1..(Len(wq) - 1) : Words'[n] = Words[n + 1]
        /\ Words[1] \notin Msgs
    BY <1>3, TakeAt, LogWorkerAssumption DEF Words, Message
  <2>2. Brings(saved, Words', Len(wq) - 1, w, Len(saved))
    BY <2>1, LogTypes, BringsNext DEF Ahead
  <2> QED BY <2>1, <2>2 DEF Ahead
<1> QED BY <1>1, <1>2, <1>3

(* A message that is logged is the last of the log and of the queue.            *)
LEMMA WordsLogged ==
  ASSUME WorkerOK, HistoryOK, NoTwins(saved), NEW m \in Msgs, Logs(m),
         NEW w \in 0..Len(saved), Ahead(w)
  PROVE  /\ Ahead(w)' /\ NoTwins(saved') /\ w \in 0..Len(saved')
         /\ Len(saved') = Len(saved) + 1 /\ \A p \in 1..Len(saved) : saved'[p] = saved[p]
<1>1. PICK e \in Tasks : e.op \in {"save", "fatal"} /\ e.m = m /\ wq' = Append(wq, e)
  BY DEF Logs
<1>2. /\ saved' = Append(saved, m) /\ m \notin Range(saved)
  BY DEF Logs, RecordSave
<1>3. /\ Len(saved') = Len(saved) + 1 /\ DOMAIN saved' = 1..(Len(saved) + 1)
      /\ \A p \in 1..Len(saved) : saved'[p] = saved[p]
      /\ saved'[Len(saved) + 1] = m
  BY <1>2, AppendAt DEF HistoryOK
<1>4. Len(saved) \in Nat /\ \A p \in 1..Len(saved) : saved[p] # m
  BY <1>2, LogTypes DEF Range
<1>5. NoTwins(saved')
  BY <1>3, <1>4, LogTypes DEF NoTwins
<1>6. /\ Len(wq) \in Nat /\ Len(wq') = Len(wq) + 1 /\ \A n \in 1..Len(wq) : Words'[n] = Words[n]
      /\ Words'[Len(wq) + 1] = m
  BY <1>1, EnqueueAt DEF Words, Message
<1>7. Brings(saved', Words, Len(wq), w, Len(saved))
  BY <1>3, <1>4, <1>6, BringsElsewhere DEF Ahead
<1>8. Brings(saved', Words', Len(wq) + 1, w, Len(saved) + 1)
  <2>1. \A p, q \in 1..Len(saved) : saved'[p] = saved'[q] => p = q
    BY <1>3, LogTypes
  <2>2. \A p \in 1..Len(saved) : saved'[p] \in Msgs /\ saved'[p] # saved'[Len(saved) + 1]
    BY <1>3, <1>4, LogTypes
  <2>3. w \in Nat /\ w <= Len(saved)
    BY LogTypes
  <2>4. Words'[Len(wq) + 1] = saved'[Len(saved) + 1] /\ Words'[Len(wq) + 1] \in Msgs
    BY <1>3, <1>6
  <2>5. \A n \in 1..Len(wq) : Words'[n] = Words[n]
    BY <1>6
  <2> QED BY <1>4, <1>6, <1>7, <2>1, <2>2, <2>3, <2>4, <2>5, BringsMore
<1> QED BY <1>3, <1>4, <1>5, <1>6, <1>8 DEF Ahead

(* Neither the end of the log nor a call matters to a sink, ...                 *)
LEMMA BroughtKept ==
  ASSUME SinksOK, HistoryOK, NoTwins(saved), NEW k \in Sinks, got'[k] = got[k],
         sq'[k] = sq[k] \/ \E e \in {"call", "done"} : sq'[k] = Append(sq[k], e),
         Len(saved') \in Nat, Len(saved) <= Len(saved'), \A p \in 1..Len(saved) : saved'[p] = saved[p],
         k \in Range(sinks') => k \in Range(sinks),
         NEW w \in 0..Len(saved), Brought(k, w)
  PROVE  Brought(k, w)'
<1>1. PICK i \in 0..Len(saved), j \in 0..Len(saved), l \in 0..Len(saved) : Piece(k, w, i, j, l)
  BY DEF Brought
<1>2. Len(sq[k]) \in Nat /\ sq[k] \in Seq(Msgs \cup {"call", "done"}) /\ Len(got[k]) \in Nat
  BY LenProperties DEF SinksOK
<1>3. Brings(saved, sq'[k], Len(sq'[k]), j, l)
  <2>1. CASE sq'[k] = sq[k]
    BY <1>1, <2>1 DEF Piece
  <2>2. ASSUME NEW e \in {"call", "done"}, sq'[k] = Append(sq[k], e)
        PROVE  Brings(saved, sq'[k], Len(sq'[k]), j, l)
    <3>1. /\ Len(sq'[k]) = Len(sq[k]) + 1 /\ \A n \in 1..Len(sq[k]) : sq'[k][n] = sq[k][n]
          /\ sq'[k][Len(sq[k]) + 1] \notin Msgs
      BY <1>2, <2>2, AppendAt, LogWorkerAssumption
    <3>2. \A p, q \in 1..l : saved[p] = saved[q] => p = q
      BY LogTypes
    <3>3. \A p \in 1..l : saved[p] \in Msgs
      BY LogTypes
    <3>4. j \in Nat /\ l \in Nat /\ j <= l /\ Brings(saved, sq[k], Len(sq[k]), j, l)
      BY <1>1, LogTypes DEF Piece
    <3>5. \A n \in 1..Len(sq[k]) : sq'[k][n] = sq[k][n]
      BY <3>1
    <3>6. Brings(saved, sq'[k], Len(sq[k]) + 1, j, l)
      BY <1>2, <3>1, <3>2, <3>3, <3>4, <3>5, BringsMore
    <3> QED BY <3>1, <3>6
  <2> QED BY <2>1, <2>2
<1>4. Brings(saved', sq'[k], Len(sq'[k]), j, l)
  <2>1. \A p \in 1..l : saved'[p] = saved[p]
    BY LogTypes
  <2>2. Len(sq'[k]) \in Nat
    BY <1>2, AppendAt
  <2> QED BY <1>3, <2>1, <2>2, BringsElsewhere
<1>5. \A n \in 1..(j - i) : saved'[i + n] = saved[i + n]
  <2>1. \A n \in 1..(j - i) : i + n \in 1..Len(saved)
    BY LogTypes
  <2> QED BY <2>1
<1>6. Piece(k, w, i, j, l)'
  BY <1>1, <1>4, <1>5 DEF Piece
<1>7. i \in 0..Len(saved') /\ j \in 0..Len(saved') /\ l \in 0..Len(saved')
  BY LogTypes
<1> QED BY <1>6, <1>7 DEF Brought

(* ... the worker sends each sink of its vector the next message, ...           *)
LEMMA BroughtSent ==
  ASSUME SinksOK, HistoryOK, NoTwins(saved), NEW k \in Sinks, got'[k] = got[k], saved' = saved,
         NEW w \in 0..Len(saved), w < Len(saved), Brought(k, w),
         sq'[k] = IF k \in Range(sinks) THEN Append(sq[k], saved[w + 1]) ELSE sq[k],
         k \in Range(sinks') => k \in Range(sinks)
  PROVE  Brought(k, w + 1)'
<1>1. PICK i \in 0..Len(saved), j \in 0..Len(saved), l \in 0..Len(saved) : Piece(k, w, i, j, l)
  BY DEF Brought
<1>2. CASE k \notin Range(sinks)
  <2>1. Piece(k, w + 1, i, j, l)'
    BY <1>1, <1>2 DEF Piece
  <2> QED BY <2>1 DEF Brought
<1>3. CASE k \in Range(sinks)
  <2>1. l = w /\ w + 1 \in 0..Len(saved) /\ Len(saved) \in Nat
    BY <1>1, <1>3, LogTypes DEF Piece
  <2>2. sq[k] \in Seq(Msgs \cup {"call", "done"}) /\ saved[w + 1] \in Msgs
    <3>1. w + 1 \in 1..Len(saved)
      BY <2>1
    <3> QED BY <3>1, LogTypes DEF SinksOK
  <2>3. /\ Len(sq[k]) \in Nat /\ Len(sq'[k]) = Len(sq[k]) + 1
        /\ \A n \in 1..Len(sq[k]) : sq'[k][n] = sq[k][n]
        /\ sq'[k][Len(sq[k]) + 1] = saved[w + 1]
    BY <1>3, <2>2, AppendAt
  <2>4. /\ \A p, q \in 1..w : saved[p] = saved[q] => p = q
        /\ \A p \in 1..w : saved[p] \in Msgs /\ saved[p] # saved[w + 1]
    <3>1. \A p \in 1..w : p \in 1..Len(saved) /\ w + 1 \in 1..Len(saved) /\ p # w + 1
      BY <2>1
    <3> QED BY <3>1, LogTypes
  <2>5. Brings(saved, sq'[k], Len(sq[k]) + 1, j, w + 1)
    <3>1. j \in Nat /\ w \in Nat /\ j <= w /\ Brings(saved, sq[k], Len(sq[k]), j, w)
      BY <1>1, <2>1, LogTypes DEF Piece
    <3>2. sq'[k][Len(sq[k]) + 1] \in Msgs /\ \A p \in 1..w : saved[p] # saved[w + 1]
      BY <2>2, <2>3, <2>4
    <3> QED BY <2>3, <2>4, <3>1, <3>2, BringsMore
  <2>6. Piece(k, w + 1, i, j, w + 1)'
    BY <1>1, <2>1, <2>3, <2>5 DEF Piece
  <2> QED BY <2>1, <2>6 DEF Brought
<1> QED BY <1>2, <1>3

(* ... a sink that joins starts with the next message, ...                      *)
LEMMA BroughtNew ==
  ASSUME SinksOK, HistoryOK, NEW k \in Sinks, got'[k] = got[k], sq'[k] = sq[k], saved' = saved,
         Arrived(k) = {}, NEW w \in 0..Len(saved)
  PROVE  Brought(k, w)'
<1>1. Len(saved) \in Nat
  BY LenProperties DEF HistoryOK
<1>2. got[k] = <<>> /\ Len(got[k]) = 0
  <2>1. got[k] \in Seq(Msgs)
    BY DEF SinksOK
  <2>2. CASE got[k] # <<>>
    <3>1. Head(got[k]) \in Msgs /\ Head(got[k]) \in Range(got[k])
      BY <2>1, <2>2, TailRange, TailAt
    <3> QED BY <3>1 DEF Arrived
  <2> QED BY <2>2
<1>3. \A n \in 1..Len(sq[k]) : sq[k][n] \notin Msgs
  <2>1. DOMAIN sq[k] = 1..Len(sq[k])
    BY LenProperties DEF SinksOK
  <2> QED BY <2>1 DEF Arrived, Range
<1>4. (w + 1)..w = {} /\ 1..0 = {} /\ w - w = 0
  BY <1>1
<1>5. Brings(saved, sq[k], Len(sq[k]), w, w)
  BY <1>3, <1>4 DEF Brings
<1>6. Piece(k, w, w, w, w)'
  BY <1>1, <1>2, <1>4, <1>5 DEF Piece
<1> QED BY <1>6 DEF Brought

(* ... and a sink is given the next message of its piece.                       *)
LEMMA BroughtRuns ==
  ASSUME SinksOK, HistoryOK, NoTwins(saved), NEW k \in Sinks, saved' = saved, sinks' = sinks,
         sq[k] # <<>>, sq'[k] = Tail(sq[k]),
         got'[k] = IF Head(sq[k]) \in Msgs THEN Append(got[k], Head(sq[k])) ELSE got[k],
         NEW w \in 0..Len(saved), Brought(k, w)
  PROVE  Brought(k, w)'
<1>1. PICK i \in 0..Len(saved), j \in 0..Len(saved), l \in 0..Len(saved) : Piece(k, w, i, j, l)
  BY DEF Brought
<1>2. Len(got[k]) \in Nat /\ got[k] \in Seq(Msgs) /\ sq[k] \in Seq(Msgs \cup {"call", "done"})
  BY LenProperties DEF SinksOK
<1>3. /\ Len(sq[k]) \in Nat /\ Len(sq[k]) > 0 /\ Len(sq'[k]) = Len(sq[k]) - 1
      /\ Head(sq[k]) = sq[k][1]
      /\ \A n \in 1..(Len(sq[k]) - 1) : sq'[k][n] = sq[k][n + 1]
  BY <1>2, TailAt
<1>4. /\ \A p, q \in 1..l : saved[p] = saved[q] => p = q
      /\ \A p \in 1..l : saved[p] \in Msgs
      /\ j \in Nat /\ l \in Nat /\ j <= l /\ l <= Len(saved) /\ Len(saved) \in Nat
  BY <1>1, LogTypes DEF Piece
<1>5. Brings(saved, sq[k], Len(sq[k]), j, l)
  BY <1>1 DEF Piece
<1>6. /\ sq[k][1] \in Msgs => /\ j < l /\ sq[k][1] = saved[j + 1]
                              /\ Brings(saved, sq'[k], Len(sq[k]) - 1, j + 1, l)
      /\ sq[k][1] \notin Msgs => Brings(saved, sq'[k], Len(sq[k]) - 1, j, l)
  BY <1>3, <1>4, <1>5, BringsNext
<1>7. CASE sq[k][1] \notin Msgs
  <2>1. Piece(k, w, i, j, l)'
    BY <1>1, <1>3, <1>6, <1>7 DEF Piece
  <2> QED BY <2>1 DEF Brought
<1>8. CASE sq[k][1] \in Msgs
  <2>1. /\ Len(got'[k]) = Len(got[k]) + 1 /\ got'[k][Len(got[k]) + 1] = saved[j + 1]
        /\ \A n \in 1..Len(got[k]) : got'[k][n] = got[k][n]
    BY <1>2, <1>3, <1>6, <1>8, AppendAt
  <2>2. Len(got[k]) = j - i /\ \A n \in 1..(j - i) : got[k][n] = saved[i + n]
    BY <1>1 DEF Piece
  <2>3. ASSUME NEW n \in 1..((j + 1) - i) PROVE got'[k][n] = saved[i + n]
    <3>1. CASE n = Len(got[k]) + 1
      <4>1. i + n = j + 1
        BY <1>2, <2>2, <3>1
      <4> QED BY <2>1, <3>1, <4>1
    <3>2. CASE n # Len(got[k]) + 1
      <4>1. n \in 1..(j - i)
        BY <1>2, <2>2, <3>2
      <4> QED BY <2>1, <2>2, <4>1
    <3> QED BY <3>1, <3>2
  <2>4. Len(got'[k]) = (j + 1) - i /\ j + 1 <= l /\ j + 1 \in 0..Len(saved)
    BY <1>2, <1>4, <1>6, <1>8, <2>1, <2>2
  <2>5. Piece(k, w, i, j + 1, l)'
    BY <1>1, <1>3, <1>6, <1>8, <2>3, <2>4 DEF Piece
  <2> QED BY <2>4, <2>5 DEF Brought
<1> QED BY <1>7, <1>8

(* What a step may do without a message for a sink that is not there.           *)
LEMMA FreshKept ==
  ASSUME WorkerOK, FreshInv,
         wq' = wq \/ (wq # <<>> /\ wq' = Tail(wq))
            \/ \E e \in Tasks : e.op # "add" /\ wq' = Append(wq, e),
         \A k \in Sinks : state'[k] = "new" => state[k] = "new",
         \A k \in Sinks : Arrived(k)' = Arrived(k)
  PROVE  FreshInv'
<1>1. ASSUME NEW k \in Sinks, \E n \in DOMAIN wq' : Adds(wq'[n], k)
      PROVE  \E n \in DOMAIN wq : Adds(wq[n], k)
  BY <1>1, EnqueueAt, TakeAt DEF Adds
<1> QED BY <1>1 DEF FreshInv

(* A sink has no messages before it is in the vector.                           *)
LEMMA FreshStep ==
  ASSUME WorkerOK, SinksOK, HandsOK, HistoryOK, CallInv, OnceInv, OwnedIffAlive, FreshInv,
         [Next]_vars
  PROVE  FreshInv'
<1> USE LogWorkerAssumption
<1>1. ASSUME NEW c \in Clients, NEW k \in Sinks, AddSink(c, k)
      PROVE  FreshInv'
  <2>1. /\ state[k] = "new" /\ state' = [state EXCEPT ![k] = "alive"]
        /\ wq' = wq \/ \E e \in Tasks : e.op = "add" /\ e.k = k /\ wq' = Append(wq, e)
    BY <1>1, TaskTypes DEF AddSink, Spawn, Enqueue
  <2>2. \A j \in Sinks : Arrived(j)' = Arrived(j)
    BY <1>1 DEF AddSink, Arrived
  <2>3. ASSUME NEW j \in Sinks, \E n \in DOMAIN wq' : Adds(wq'[n], j)
        PROVE  j = k \/ \E n \in DOMAIN wq : Adds(wq[n], j)
    BY <2>1, <2>3, EnqueueAt DEF Adds
  <2>4. \A j \in Sinks : state'[j] = "new" => state[j] = "new"
    BY <2>1 DEF SinksOK
  <2> QED BY <2>1, <2>2, <2>3, <2>4 DEF FreshInv
<1>2. CASE BgSave \/ BgFatal
  <2>1. Sends
    BY <1>2, Delivers
  <2>2. UNCHANGED state
    BY <1>2 DEF BgSave, BgFatal
  <2>3. ASSUME NEW k \in Sinks, state'[k] = "new" \/ \E n \in DOMAIN wq' : Adds(wq'[n], k)
        PROVE  k \notin Range(sinks) /\ (state[k] = "new" \/ \E n \in DOMAIN wq : Adds(wq[n], k))
    BY <2>1, <2>2, <2>3, TakeAt, OwnedAreAlive DEF Adds, OnceInv, Sends
  <2>4. ASSUME NEW k \in Sinks, state'[k] = "new" \/ \E n \in DOMAIN wq' : Adds(wq'[n], k)
        PROVE  Arrived(k)' = {}
    BY <2>1, <2>3, <2>4 DEF Sends, FreshInv
  <2> QED BY <2>4 DEF FreshInv
<1>3. CASE \/ \E c \in Clients : \E m \in Msgs : Save(c, m) \/ Fatal(c, m)
           \/ \E k \in Sinks : \E m \in Msgs : SinkCrashes(k, m)
  <2>1. PICK m \in Msgs : Logs(m)
    BY <1>3, LogsOne
  <2>2. UNCHANGED state /\ \A k \in Sinks : Arrived(k)' = Arrived(k)
    BY <2>1 DEF Logs, Arrived
  <2> QED BY <2>1, <2>2, FreshKept DEF Logs
<1>4. ASSUME NEW c \in Clients, HotUpdateSink(c)
      PROVE  FreshInv'
  <2>1. /\ UNCHANGED state /\ held[c] # <<>>
        /\ wq' = Append(wq, [op |-> "update", k |-> Head(held[c])])
    BY <1>4 DEF HotUpdateSink, Enqueue, CallInv, sinkvar
  <2>4. [op |-> "update", k |-> Head(held[c])] \in Tasks
    BY <2>1, SeqTypes, TaskTypes DEF HandsOK, Threads
  <2>2. ~(BgSave \/ BgFatal)
    BY <2>1, <2>4, GrowsOrShrinks DEF BgSave, BgFatal, Take
  <2>3. \A k \in Sinks : Arrived(k)' = Arrived(k)
    BY <2>2, Arrivals
  <2> QED BY <2>1, <2>3, <2>4, FreshKept
<1>5. CASE \/ \E c \in Clients : RemoveAllSinks(c) \/ RemoveSinkSpawns(c)
           \/ DtorRemoveAllSinks \/ DtorReset
  <2>1. /\ UNCHANGED state
        /\ wq' = wq \/ \E e \in Tasks : e.op # "add" /\ wq' = Append(wq, e)
    BY <1>5, TaskTypes DEF RemoveAllSinks, RemoveSinkSpawns, DtorRemoveAllSinks, DtorReset,
                           Enqueue, Spawn, sinkvar, HistoryOK
  <2>2. ~(BgSave \/ BgFatal)
    BY <2>1, TaskSeqs, GrowsOrShrinks DEF BgSave, BgFatal, Take
  <2>3. \A k \in Sinks : Arrived(k)' = Arrived(k)
    BY <2>2, Arrivals
  <2> QED BY <2>1, <2>3, FreshKept
<1>6. CASE \/ \E t \in Threads : Release(t) \/ JoinSink(t)
           \/ \E k \in Sinks : SinkRuns(k)
  <2>1. UNCHANGED wq /\ \A k \in Sinks : state'[k] = "new" => state[k] = "new"
    BY <1>6 DEF Release, JoinSink, SinkRuns, worker, SinksOK
  <2>2. ~(BgSave \/ BgFatal)
    BY <2>1, TaskSeqs, GrowsOrShrinks DEF BgSave, BgFatal, Take
  <2>3. \A k \in Sinks : Arrived(k)' = Arrived(k)
    BY <2>2, Arrivals
  <2> QED BY <2>1, <2>3, FreshKept
<1>7. CASE BgAdd \/ BgRemove \/ BgClear \/ BgUpdate \/ BgDone
  <2>1. UNCHANGED state /\ wq # <<>> /\ wq' = Tail(wq) /\ Head(wq).op \notin {"save", "fatal"}
    BY <1>7 DEF BgAdd, BgRemove, BgClear, BgUpdate, BgDone, Take, sinkvar
  <2>2. ~(BgSave \/ BgFatal)
    BY <2>1 DEF BgSave, BgFatal, Take
  <2>3. \A k \in Sinks : Arrived(k)' = Arrived(k)
    BY <2>2, Arrivals
  <2> QED BY <2>1, <2>3, FreshKept
<1>8. CASE \/ \E c \in Clients : \E k \in Sinks : RemoveSink(c, k) \/ LockHandle(c, k)
           \/ \E c \in Clients : AddSinkWaited(c) \/ RemovalReturns(c) \/ HandleCall(c)
                                   \/ CallReturns(c)
           \/ TaskReturns \/ DtorJoin \/ DtorReturns
  <2>1. UNCHANGED <<state, wq>>
    BY <1>8 DEF RemoveSink, LockHandle, AddSinkWaited, RemovalReturns, HandleCall, CallReturns,
                TaskReturns, DtorJoin, DtorReturns, worker, sinkvar
  <2>2. ~(BgSave \/ BgFatal)
    BY <2>1, TaskSeqs, GrowsOrShrinks DEF BgSave, BgFatal, Take
  <2>3. \A k \in Sinks : Arrived(k)' = Arrived(k)
    BY <2>2, Arrivals
  <2> QED BY <2>1, <2>3, FreshKept
<1>9. CASE UNCHANGED vars
  BY <1>9 DEF vars, worker, sinkvar, FreshInv, Arrived
<1> QED BY <1>1, <1>2, <1>3, <1>4, <1>5, <1>6, <1>7, <1>8, <1>9
       DEF Next, ClientGoesOn, WorkerStep, Dtor

(* What a step may do without moving a message.                                 *)
LEMMA ChainKept ==
  ASSUME WorkerOK, SinksOK, HistoryOK, ChainInv, saved' = saved, got' = got,
         Range(sinks') \subseteq Range(sinks),
         \A k \in Sinks : sq'[k] = sq[k] \/ \E e \in {"call", "done"} : sq'[k] = Append(sq[k], e),
         \/ wq' = wq
         \/ \E e \in Tasks : e.op \notin {"save", "fatal"} /\ wq' = Append(wq, e)
         \/ wq # <<>> /\ wq' = Tail(wq) /\ Head(wq).op \notin {"save", "fatal"}
  PROVE  ChainInv'
<1>1. PICK w \in 0..Len(saved) : Ahead(w) /\ \A k \in Sinks : Brought(k, w)
  BY DEF ChainInv
<1>2. Ahead(w)'
  BY <1>1, WordsStay DEF ChainInv
<1>3. Len(saved) \in Nat
  BY LogTypes DEF ChainInv
<1>4. \A k \in Sinks : Brought(k, w)'
  BY <1>1, <1>3, BroughtKept DEF ChainInv
<1> QED BY <1>2, <1>4 DEF ChainInv

(* The log is handed on in pieces without a gap.                                *)
LEMMA ChainStep ==
  ASSUME WorkerOK, SinksOK, HandsOK, HistoryOK, CallInv, OnceInv, FreshInv, ChainInv, [Next]_vars
  PROVE  ChainInv'
<1> USE LogWorkerAssumption
<1>1. CASE \/ \E c \in Clients : \E m \in Msgs : Save(c, m) \/ Fatal(c, m)
           \/ \E k \in Sinks : \E m \in Msgs : SinkCrashes(k, m)
  <2>1. PICK m \in Msgs : Logs(m)
    BY <1>1, LogsOne
  <2>2. PICK w \in 0..Len(saved) : Ahead(w) /\ \A k \in Sinks : Brought(k, w)
    BY DEF ChainInv
  <2>3. /\ Ahead(w)' /\ NoTwins(saved') /\ w \in 0..Len(saved')
        /\ Len(saved') = Len(saved) + 1 /\ \A p \in 1..Len(saved) : saved'[p] = saved[p]
    BY <2>1, <2>2, WordsLogged DEF ChainInv
  <2>4. UNCHANGED <<sq, got, sinks>>
    BY <2>1 DEF Logs
  <2>5. Len(saved') \in Nat /\ Len(saved) <= Len(saved')
    BY <2>3, LogTypes DEF ChainInv
  <2>6. \A k \in Sinks : Brought(k, w)'
    BY <2>2, <2>3, <2>4, <2>5, BroughtKept DEF ChainInv
  <2> QED BY <2>3, <2>6 DEF ChainInv
<1>2. CASE BgSave \/ BgFatal
  <2>1. /\ wq # <<>> /\ wq' = Tail(wq) /\ Head(wq).op \in {"save", "fatal"} /\ got' = got
        /\ saved' = saved
        /\ sq' = [k \in Sinks |-> IF k \in Range(sinks) THEN Append(sq[k], Head(wq).m) ELSE sq[k]]
        /\ sinks' = sinks \/ sinks' = <<>>
    BY <1>2 DEF BgSave, BgFatal, Take, SendToSinks, ClearSinks, history, log
  <2>2. PICK w \in 0..Len(saved) : Ahead(w) /\ \A k \in Sinks : Brought(k, w)
    BY DEF ChainInv
  <2>3. /\ Len(wq) \in Nat /\ Len(wq) > 0 /\ Len(wq') = Len(wq) - 1
        /\ Words[1] = Head(wq).m /\ Head(wq).m \in Msgs
    BY <2>1, TakeAt, TaskTypes DEF Words, Message
  <2>4. \A n \in 1..(Len(wq) - 1) : Words'[n] = Words[n + 1]
    BY <2>1, TakeAt DEF Words
  <2>5. w < Len(saved) /\ Words[1] = saved[w + 1] /\ Brings(saved, Words', Len(wq) - 1, w + 1, Len(saved))
    BY <2>2, <2>3, <2>4, LogTypes, BringsNext DEF Ahead, ChainInv
  <2>6. Ahead(w + 1)' /\ w + 1 \in 0..Len(saved')
    BY <2>1, <2>3, <2>5, LogTypes DEF Ahead, ChainInv
  <2>7. ASSUME NEW k \in Sinks PROVE Brought(k, w + 1)'
    <3>1. sq'[k] = IF k \in Range(sinks) THEN Append(sq[k], saved[w + 1]) ELSE sq[k]
      BY <2>1, <2>3, <2>5
    <3>2. k \in Range(sinks') => k \in Range(sinks)
      BY <2>1, SmallRanges
    <3> QED BY <2>1, <2>2, <2>5, <3>1, <3>2, BroughtSent DEF ChainInv
  <2> QED BY <2>1, <2>6, <2>7 DEF ChainInv
<1>3. CASE BgAdd
  <2>1. /\ wq # <<>> /\ wq' = Tail(wq) /\ Head(wq).op = "add" /\ UNCHANGED <<saved, sq, got>>
        /\ sinks' = Append(sinks, Head(wq).k)
    BY <1>3 DEF BgAdd, Take, history, log, sinkvar
  <2>2. /\ 1 \in DOMAIN wq /\ Adds(wq[1], Head(wq).k) /\ Head(wq).k \in Sinks
    BY <2>1, TakeAt, TaskTypes DEF Adds
  <2>3. Range(sinks') = Range(sinks) \cup {Head(wq).k}
    <3>1. Range(Append(sinks, Head(wq).k)) = Range(sinks) \cup {Head(wq).k}
      BY <2>2, AppendRange DEF WorkerOK
    <3> QED BY <2>1, <3>1
  <2>4. PICK w \in 0..Len(saved) : Ahead(w) /\ \A k \in Sinks : Brought(k, w)
    BY DEF ChainInv
  <2>5. Ahead(w)'
    BY <2>1, <2>4, WordsStay DEF ChainInv
  <2>6. ASSUME NEW k \in Sinks, k = Head(wq).k PROVE Brought(k, w)'
    <3>1. Arrived(k) = {}
      BY <2>2, <2>6 DEF FreshInv
    <3> QED BY <2>1, <3>1, BroughtNew
  <2>7. ASSUME NEW k \in Sinks, k # Head(wq).k PROVE Brought(k, w)'
    <3>1. Len(saved) \in Nat
      BY LogTypes DEF ChainInv
    <3> QED BY <2>1, <2>3, <2>4, <2>7, <3>1, BroughtKept DEF ChainInv
  <2> QED BY <2>1, <2>5, <2>6, <2>7 DEF ChainInv
<1>4. ASSUME NEW k \in Sinks, SinkRuns(k)
      PROVE  ChainInv'
  <2>1. /\ UNCHANGED <<wq, sinks, saved>> /\ sq[k] # <<>> /\ sq' = [sq EXCEPT ![k] = Tail(@)]
        /\ got' = IF Head(sq[k]) \in Msgs THEN [got EXCEPT ![k] = Append(@, Head(sq[k]))] ELSE got
    BY <1>4 DEF SinkRuns, worker, history, log
  <2>2. PICK w \in 0..Len(saved) : Ahead(w) /\ \A j \in Sinks : Brought(j, w)
    BY DEF ChainInv
  <2>3. Ahead(w)'
    BY <2>1, <2>2 DEF Ahead, Words
  <2>4. Brought(k, w)'
    BY <2>1, <2>2, BroughtRuns DEF ChainInv, SinksOK
  <2>5. ASSUME NEW j \in Sinks, j # k PROVE Brought(j, w)'
    <3>1. sq'[j] = sq[j] /\ got'[j] = got[j] /\ Len(saved) \in Nat
      BY <2>1, <2>5, LogTypes DEF SinksOK, ChainInv
    <3> QED BY <2>1, <2>2, <3>1, BroughtKept DEF ChainInv
  <2> QED BY <2>1, <2>3, <2>4, <2>5 DEF ChainInv
<1>5. ASSUME NEW c \in Clients, HotUpdateSink(c)
      PROVE  ChainInv'
  <2>1. /\ UNCHANGED <<saved, got, sinks, sq>> /\ held[c] # <<>>
        /\ wq' = Append(wq, [op |-> "update", k |-> Head(held[c])])
    BY <1>5 DEF HotUpdateSink, Enqueue, CallInv, sinkvar, history, log
  <2>2. [op |-> "update", k |-> Head(held[c])] \in Tasks
    BY <2>1, SeqTypes, TaskTypes DEF HandsOK, Threads
  <2> QED BY <2>1, <2>2, ChainKept
<1>6. ASSUME NEW c \in Clients, NEW k \in Sinks, AddSink(c, k)
      PROVE  ChainInv'
  <2>1. /\ UNCHANGED <<saved, got, sinks, sq>>
        /\ wq' = wq \/ \E e \in Tasks : e.op \notin {"save", "fatal"} /\ wq' = Append(wq, e)
    BY <1>6, TaskTypes DEF AddSink, Enqueue, Spawn, log
  <2> QED BY <2>1, ChainKept
<1>7. CASE \/ \E c \in Clients : RemoveAllSinks(c) \/ RemoveSinkSpawns(c)
           \/ DtorRemoveAllSinks \/ DtorReset
  <2>1. /\ UNCHANGED <<saved, got, sinks, sq>>
        /\ wq' = wq \/ \E e \in Tasks : e.op \notin {"save", "fatal"} /\ wq' = Append(wq, e)
    BY <1>7, TaskTypes DEF RemoveAllSinks, RemoveSinkSpawns, DtorRemoveAllSinks, DtorReset,
                           Enqueue, Spawn, sinkvar, history, log, HistoryOK
  <2> QED BY <2>1, ChainKept
<1>8. ASSUME NEW t \in Threads, Release(t)
      PROVE  ChainInv'
  <2>1. /\ UNCHANGED <<saved, got, sinks, wq>> /\ held[t] # <<>>
        /\ sq' = sq \/ sq' = [sq EXCEPT ![Head(held[t])] = Append(@, "done")]
    BY <1>8 DEF Release, SendDone, worker, history, log
  <2>2. \A k \in Sinks : sq'[k] = sq[k] \/ \E e \in {"call", "done"} : sq'[k] = Append(sq[k], e)
    BY <2>1 DEF SinksOK
  <2> QED BY <2>1, <2>2, ChainKept
<1>9. ASSUME NEW c \in Clients, HandleCall(c)
      PROVE  ChainInv'
  <2>1. /\ UNCHANGED <<saved, got, sinks, wq>>
        /\ sq' = [sq EXCEPT ![Head(held[c])] = Append(@, "call")]
    BY <1>9 DEF HandleCall, worker, history, log
  <2>2. \A k \in Sinks : sq'[k] = sq[k] \/ \E e \in {"call", "done"} : sq'[k] = Append(sq[k], e)
    BY <2>1 DEF SinksOK
  <2> QED BY <2>1, <2>2, ChainKept
<1>10. CASE BgUpdate
  <2>1. /\ UNCHANGED <<saved, got, sinks>>
        /\ wq # <<>> /\ wq' = Tail(wq) /\ Head(wq).op \notin {"save", "fatal"}
        /\ sq' = [sq EXCEPT ![Head(wq).k] = Append(@, "call")]
    BY <1>10 DEF BgUpdate, Take, history, log
  <2>2. \A k \in Sinks : sq'[k] = sq[k] \/ \E e \in {"call", "done"} : sq'[k] = Append(sq[k], e)
    BY <2>1 DEF SinksOK
  <2> QED BY <2>1, <2>2, ChainKept
<1>11. CASE BgClear \/ BgDone
  <2>1. /\ UNCHANGED <<saved, got, sq>>
        /\ sinks' = sinks \/ sinks' = <<>>
        /\ wq # <<>> /\ wq' = Tail(wq) /\ Head(wq).op \notin {"save", "fatal"}
    BY <1>11 DEF BgClear, BgDone, ClearSinks, Take, sinkvar, history, log
  <2> QED BY <2>1, SmallRanges, ChainKept
<1>12. CASE BgRemove
  <2>1. /\ UNCHANGED <<saved, got, sq>>
        /\ wq # <<>> /\ wq' = Tail(wq) /\ Head(wq).op = "remove"
        /\ sinks' = sinks \/ sinks' = Erased(Head(wq).k)
    BY <1>12 DEF BgRemove, Take, sinkvar, history, log
  <2>2. Head(wq).k \in Sinks
    BY <2>1, TaskSeqs, TaskTypes
  <2>3. Range(sinks') \subseteq Range(sinks)
    BY <2>1, <2>2, ErasedAt DEF OnceInv
  <2> QED BY <2>1, <2>3, ChainKept
<1>13. CASE DtorJoin
  <2>1. UNCHANGED <<wq, saved, got, sq>> /\ sinks' = <<>>
    BY <1>13 DEF DtorJoin, sinkvar, history, log
  <2> QED BY <2>1, SmallRanges, ChainKept
<1>14. CASE \/ \E c \in Clients : \E k \in Sinks : RemoveSink(c, k) \/ LockHandle(c, k)
            \/ \E c \in Clients : AddSinkWaited(c) \/ RemovalReturns(c) \/ CallReturns(c)
            \/ \E t \in Threads : JoinSink(t)
            \/ TaskReturns \/ DtorReturns
  <2>1. UNCHANGED <<wq, sinks, saved, got, sq>>
    BY <1>14 DEF RemoveSink, LockHandle, AddSinkWaited, RemovalReturns, CallReturns, JoinSink,
                 TaskReturns, DtorReturns, worker, sinkvar, history, log
  <2> QED BY <2>1, ChainKept
<1>15. CASE UNCHANGED vars
  <2>1. UNCHANGED <<wq, sinks, saved, got, sq>>
    BY <1>15 DEF vars, worker, sinkvar, history, log
  <2> QED BY <2>1, ChainKept
<1> QED BY <1>1, <1>2, <1>3, <1>4, <1>5, <1>6, <1>7, <1>8, <1>9, <1>10, <1>11, <1>12, <1>13, <1>14,
           <1>15
       DEF Next, ClientGoesOn, WorkerStep, Dtor

--------------------------------------------------------------------------------
(* The invariant and what follows from it                                       *)

(* The inductive invariant.                                                     *)
LogWorkerInv ==
   /\ WorkerOK /\ SinksOK /\ HandsOK /\ ClientsOK /\ HistoryOK
   /\ CallInv /\ HeldInv /\ OnceInv /\ OwnedIffAlive /\ StopInv /\ JoinInv /\ EndInv
   /\ ArgInv /\ TaskInv /\ OpenInv /\ DueInv /\ GoneInv
   /\ SavedInv /\ ForeignInv /\ ExitInv /\ FreshInv /\ ChainInv

(* It holds of a LogWorker without sinks.                                       *)
LEMMA InitInv == Init => LogWorkerInv
<1> SUFFICES ASSUME Init PROVE LogWorkerInv
  OBVIOUS
<1>1. /\ WorkerOK /\ SinksOK /\ HandsOK /\ ClientsOK /\ HistoryOK
  <2>1. \A S : <<>> \in Seq(S)
    BY SeqTypes
  <2>2. WorkerOK
    BY <2>1 DEF Init, WorkerOK
  <2>3. SinksOK
    BY <2>1 DEF Init, SinksOK
  <2>4. HandsOK
    BY <2>1 DEF Init, HandsOK
  <2>5. ClientsOK
    <3>1. 0 \in 0..MaxCalls
      BY LogWorkerAssumption
    <3> QED BY <3>1 DEF Init, ClientsOK, PCs
  <2>6. HistoryOK
    BY <2>1 DEF Init, HistoryOK
  <2> QED BY <2>2, <2>3, <2>4, <2>5, <2>6
<1>2. /\ wq = <<>> /\ DOMAIN wq = {} /\ sinks = <<>> /\ DOMAIN sinks = {} /\ task = None
      /\ ~BgIsNull
      /\ \A c \in Clients : pc[c] = "idle" /\ held[c] = <<>> /\ joining[c] = None /\ arg[c] = {}
      /\ held[Worker] = <<>> /\ joining[Worker] = None /\ ~exited /\ ~ended
      /\ \A k \in Sinks : /\ sq[k] = <<>> /\ state[k] = "new" /\ got[k] = <<>> /\ member[k] = "none"
                          /\ due[k] = {} /\ foreign[k] = {}
      /\ handles = {} /\ Range(sinks) = {}
  BY SmallRanges, LogWorkerAssumption DEF Init, Threads, BgIsNull
<1>3. CallInv /\ HeldInv /\ OnceInv /\ EndInv
  BY <1>2 DEF CallInv, HeldInv, OnceInv, EndInv, NoTwins
<1>4. OwnedIffAlive
  BY <1>2, SmallRanges DEF OwnedIffAlive, Owned, Threads
<1>5. StopInv
  BY <1>2, SmallRanges DEF StopInv, EndsLast
<1>6. JoinInv
  BY <1>2 DEF JoinInv, Threads
<1>7. \A k \in Sinks : ~Known(k)
  BY <1>2 DEF Known, InRemoval
<1>8. ArgInv
  BY <1>2, <1>7 DEF ArgInv, IsAbout, NewOrNot
<1>9. TaskInv
  BY <1>2 DEF TaskInv, OneTask
<1>10. OpenInv /\ DueInv /\ GoneInv
  BY <1>2 DEF OpenInv, OpenAt, DueInv, DueAt, GoneInv, Removed
<1>11. SavedInv /\ ForeignInv /\ ExitInv
  BY <1>2, SmallRanges DEF SavedInv, ForeignInv, ExitInv, Arrived
<1>12. FreshInv
  BY <1>2, SmallRanges DEF FreshInv, Arrived
<1>13. ChainInv
  <2>1. saved = <<>> /\ Len(saved) = 0 /\ DOMAIN saved = {} /\ 0..0 = {0} /\ 1..0 = {} /\ 0 - 0 = 0
    BY DEF Init
  <2>2. (0 + 1)..0 = {} /\ Len(wq) = 0
    BY <1>2
  <2>3. Ahead(0)
    BY <2>1, <2>2 DEF Ahead, Brings
  <2>4. ASSUME NEW k \in Sinks PROVE Brought(k, 0)
    <3>1. Len(sq[k]) = 0 /\ Len(got[k]) = 0
      BY <1>2
    <3>2. Brings(saved, sq[k], Len(sq[k]), 0, 0)
      BY <2>1, <2>2, <3>1 DEF Brings
    <3>3. Piece(k, 0, 0, 0, 0)
      BY <1>2, <2>1, <3>1, <3>2 DEF Piece
    <3> QED BY <2>1, <3>3 DEF Brought
  <2> QED BY <2>1, <2>3, <2>4 DEF ChainInv, NoTwins
<1> QED BY <1>1, <1>3, <1>4, <1>5, <1>6, <1>8, <1>9, <1>10, <1>11, <1>12, <1>13 DEF LogWorkerInv

(* And every step keeps it.                                                     *)
THEOREM Invariant == SafeSpec => []LogWorkerInv
<1>1. LogWorkerInv /\ [Next]_vars => LogWorkerInv'
  <2> SUFFICES ASSUME LogWorkerInv, [Next]_vars PROVE LogWorkerInv'
    OBVIOUS
  <2> USE DEF LogWorkerInv
  <2>1. WorkerOK' /\ SinksOK' /\ HandsOK' /\ ClientsOK' /\ HistoryOK'
    BY WorkerOKStep, SinksOKStep, HandsOKStep, ClientsOKStep, HistoryOKStep
  <2>2. CallInv' /\ HeldInv' /\ OnceInv' /\ OwnedIffAlive'
    BY CallStep, HeldStep, OnceStep, OwnerStep
  <2>3. StopInv' /\ JoinInv' /\ EndInv'
    BY StopStep, JoinStep, EndStep
  <2>4. ArgInv' /\ TaskInv' /\ OpenInv'
    BY ArgStep, TaskStep, OpenStep
  <2>5. DueInv' /\ GoneInv'
    BY DueStep, GoneStep
  <2>6. SavedInv' /\ ForeignInv' /\ ExitInv'
    BY SavedStep, ForeignStep, ExitStep
  <2>7. FreshInv' /\ ChainInv'
    BY FreshStep, ChainStep
  <2> QED BY <2>1, <2>2, <2>3, <2>4, <2>5, <2>6, <2>7
<1> QED BY InitInv, <1>1, PTL DEF SafeSpec

(* The variables keep their types.                                              *)
THEOREM TypeCorrect == SafeSpec => []TypeOK
<1>1. LogWorkerInv => TypeOK
  BY DEF LogWorkerInv, TypeOK
<1> QED BY <1>1, Invariant, PTL

(* A sink that a queued task, the vector or a thread can reach has not entered  *)
(* ~Sink, and one that nobody reaches has (shared_ptr in sink.hpp and           *)
(* logworker.cpp).                                                              *)
THEOREM OwnershipIsExact == SafeSpec => []OwnedIffAlive
<1>1. LogWorkerInv => OwnedIffAlive
  BY DEF LogWorkerInv
<1> QED BY <1>1, Invariant, PTL

(* A sink that has ended was given everything that was due to it.               *)
LEMMA DeadAreFlushed ==
  ASSUME LogWorkerInv, NEW k \in Sinks, state[k] = "dead"
  PROVE  due[k] \subseteq Range(got[k])
<1>1. sq[k] = <<>> /\ Range(sq[k]) = {}
  BY SmallRanges DEF LogWorkerInv, StopInv, EndsLast
<1>2. k \notin Range(sinks)
  BY DEF LogWorkerInv, OwnedIffAlive, Owned
<1>3. \A m \in due[k] : m \in Arrived(k)
  BY <1>2 DEF LogWorkerInv, DueInv, DueAt, IsComing
<1> QED BY <1>1, <1>3 DEF Arrived

(* A sink that nobody has, and nobody joins, has ended.                         *)
LEMMA UnsharedAreDead ==
  ASSUME LogWorkerInv, NEW k \in Sinks, ~Shared(k), k \notin Range(sinks), ~Uses(Worker, k),
         state[k] # "new", \A n \in DOMAIN wq : ~Adds(wq[n], k)
  PROVE  state[k] = "dead"
<1>1. \A t \in Threads : ~Uses(t, k)
  BY DEF Shared, Threads
<1>2. ~Owned(k)
  BY <1>1 DEF Owned, Uses, Shared, Adds
<1>3. state[k] # "alive"
  BY <1>2 DEF LogWorkerInv, OwnedIffAlive
<1>4. state[k] \notin {"dying", "stopped"}
  BY <1>1 DEF LogWorkerInv, JoinInv, Uses
<1> QED BY <1>3, <1>4 DEF LogWorkerInv, SinksOK

(* A sink that has been destroyed was given every message queued between the    *)
(* return of its addSink and the call that removed it.                          *)
THEOREM RemovalIsAFlush == SafeSpec => []FlushedWhenDestroyed
<1>1. LogWorkerInv => FlushedWhenDestroyed
  BY DeadAreFlushed DEF FlushedWhenDestroyed
<1> QED BY <1>1, Invariant, PTL

(* When removeSink or removeAllSinks has returned, the sink is not only out of  *)
(* _sinks but has ended, unless a client shares it (logworker.hpp:127).         *)
THEOREM RemovalsAreSynchronous == SafeSpec => []RemovalIsSynchronous
<1>1. LogWorkerInv => RemovalIsSynchronous
  <2> SUFFICES ASSUME LogWorkerInv, NEW k \in Sinks, member[k] = "left", ~BgIsNull, ~Shared(k)
               PROVE  state[k] = "dead"
    BY DEF RemovalIsSynchronous
  <2>1. Gone(k)
    BY DEF LogWorkerInv, GoneInv, Removed
  <2>2. ~Uses(Worker, k)
    <3>1. CASE task = None
      BY <3>1, SmallRanges, LogWorkerAssumption DEF LogWorkerInv, HeldInv, Uses
    <3>2. CASE task # None
      BY <2>1, <3>2 DEF LogWorkerInv, TaskInv, Gone, Shared
    <3> QED BY <3>1, <3>2
  <2>3. state[k] # "new" /\ \A n \in DOMAIN wq : ~Adds(wq[n], k)
    BY KnownNotAdded DEF LogWorkerInv, ArgInv, NewOrNot, Known
  <2> QED BY <2>1, <2>2, <2>3, UnsharedAreDead DEF Gone
<1> QED BY <1>1, Invariant, PTL

(* No sink is given a message logged before its addSink was called or after     *)
(* its removal has returned.                                                    *)
THEOREM NothingForeignIsGiven == SafeSpec => []NothingOutsideMembership
<1>1. LogWorkerInv => NothingOutsideMembership
  BY DEF LogWorkerInv, ForeignInv, NothingOutsideMembership, Arrived, HistoryOK
<1> QED BY <1>1, Invariant, PTL

(* When a fatal message ends the process, every sink that no other thread       *)
(* shares was given all that was logged while it was attached.                  *)
THEOREM FatalMessagesFlush == SafeSpec => []FatalFlushes
<1>1. LogWorkerInv => FatalFlushes
  <2> SUFFICES ASSUME LogWorkerInv, exited, NEW k \in Sinks, ~Shared(k), due[k] # {}
               PROVE  due[k] \subseteq Range(got[k])
    BY DEF FatalFlushes
  <2>1. task = None /\ sinks = <<>> /\ Range(sinks) = {}
    BY SmallRanges DEF LogWorkerInv, ExitInv
  <2>2. ~Uses(Worker, k)
    BY <2>1, SmallRanges, LogWorkerAssumption DEF LogWorkerInv, HeldInv, Uses
  <2>3. state[k] # "new" /\ \A n \in DOMAIN wq : ~Adds(wq[n], k)
    BY DEF LogWorkerInv, DueInv, DueAt
  <2> QED BY <2>1, <2>2, <2>3, UnsharedAreDead, DeadAreFlushed
<1> QED BY <1>1, Invariant, PTL

(* Each sink is given a piece of the log without gap, duplicate or reordering.  *)
THEOREM LogsAreContiguous == SafeSpec => []ContiguousLog
<1>1. LogWorkerInv => ContiguousLog
  <2> SUFFICES ASSUME LogWorkerInv, NEW k \in Sinks
               PROVE  \E i, j \in 0..Len(saved) : got[k] = SubSeq(saved, i + 1, j)
    BY DEF ContiguousLog
  <2>1. PICK i \in 0..Len(saved), j \in 0..Len(saved), l \in 0..Len(saved) :
             Len(got[k]) = j - i /\ \A n \in 1..(j - i) : got[k][n] = saved[i + n]
    BY DEF LogWorkerInv, ChainInv, Brought, Piece
  <2>2. saved \in Seq(Msgs) /\ got[k] \in Seq(Msgs) /\ Len(saved) \in Nat /\ Len(got[k]) \in Nat
    BY LenProperties DEF LogWorkerInv, HistoryOK, SinksOK
  <2>3. i + 1 \in 1..(Len(saved) + 1) /\ i \in Nat /\ j \in Nat /\ i <= j
    BY <2>1, <2>2
  <2>4. SubSeq(saved, i + 1, j) = [n \in 1..(j - i) |-> saved[i + n]]
    BY <2>2, <2>3
  <2>5. got[k] = [n \in 1..(j - i) |-> got[k][n]]
    BY <2>1, <2>2, LenProperties
  <2> QED BY <2>1, <2>4, <2>5
<1> QED BY <1>1, Invariant, PTL
================================================================================
