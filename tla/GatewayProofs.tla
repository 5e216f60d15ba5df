--------------------------- MODULE GatewayProofs ---------------------------
(***************************************************************************)
(* Safety of the request path for every set of sessions, requests and      *)
(* messages and every bound: type correctness, at-most-once execution,     *)
(* honest results, one running job, and a worker whose job is never        *)
(* pulled from under it.                                                   *)
(***************************************************************************)
EXTENDS Gateway, FiniteSetTheorems, TLAPS

(* The strengthening.  None of the results is inductive alone: that a job  *)
(* is sent once rests on "a row that is absent or queued was never sent",  *)
(* which rests on sids being handed out once and on rows being deleted     *)
(* only together with their session.                                       *)

(* Foreign key: a job belongs to a row of sessions.                        *)
Referential == \A k \in Keys : state[k] # "none" => k[1] \in sessions

(* A sid with a row was handed out, and was never handed out before.       *)
Leased == \A s \in sessions : lease[s] > 0

(* A key that a live or a future session may still submit.                 *)
Fresh(k) == /\ state[k] \in {"none", "queued"}
            /\ k[1] \in sessions \/ lease[k[1]] = 0
Unsent == \A k \in Keys : Fresh(k) =>
  effects[k] = 0 /\ k \notin inflight /\ file[k].out = "absent"

(* Receive only visits sessions that have a row.                           *)
TodoLive == pc \in {"receive", "publish", "remove"} => todo \subseteq sessions

(* What the main thread's locals stand for.                                *)
MainHolds ==
  /\ pc \in {"unlink", "forget"} =>
       sid \in Sids /\ (active # Nil => active[1] # sid)
  /\ pc \in {"publish", "remove"} => sid \in Sids
  /\ pc = "offset" => sid \in Sids /\ id \in Ids
  /\ pc = "recovered" =>
       /\ sid \in Sids /\ id \in Ids
       /\ state[<<sid, id>>] \in {"running", "done"}
  /\ pc \in {"launch", "mark"} =>
       /\ sid \in Sids /\ id \in Ids /\ task = "none"
       /\ state[<<sid, id>>] = "running"
  /\ pc = "launch" =>
       effects[<<sid, id>>] = 0 /\ <<sid, id>> \notin inflight
  /\ pc \in {"down", "recover", "recovered"} => task = "none"

(* What the worker's task stands for.                                      *)
WorkerHolds ==
  /\ task = "none" <=> active = Nil
  /\ task # "none" => state[active] = "running"
  /\ task = "queued" => effects[active] = 0 /\ active \notin inflight
  /\ task \in {"none", "queued"} => answer = "none"
  /\ answer = "ok" => effects[active] = 1

(* Outside recovery, a running job is with the main thread or the worker.  *)
RunningHeld ==
  pc \notin {"down", "recover", "recovered"} =>
    \A k \in Keys : state[k] = "running" =>
      \/ k = active
      \/ pc \in {"launch", "mark"} /\ k = <<sid, id>>

Safe == /\ Referential /\ Leased /\ Unsent /\ TodoLive /\ MainHolds
        /\ WorkerHolds /\ RunningHeld /\ OneRunning /\ AtMostOnce
        /\ ResultHonest
IInv == TypeOK /\ Safe

-----------------------------------------------------------------------------
(* What the constants give, without the sets they are built from.          *)
LEMMA Constants ==
  /\ LeaseTime \in Nat /\ LeaseTime > 0 /\ MaxFrames \in Nat /\ MaxFrames > 0
  /\ Budget \in Nat /\ SessionBudget \in Nat
  /\ Nil \notin Keys /\ Nil \notin Sids /\ Nil \notin Ids
  /\ \A m \in Messages : m.id \in Ids /\ m.arg \in Ids \cup {Nil}
BY ConstantsAssumption

(* Job keys are pairs.                                                     *)
LEMMA KeyFacts ==
  /\ \A s \in Sids, i \in Ids : <<s, i>> \in Keys
  /\ \A k \in Keys : k[1] \in Sids /\ k[2] \in Ids /\ k = <<k[1], k[2]>>
BY DEF Keys

(* What may be written to a spool file, and what its size is.              *)
LEMMA SpoolFacts ==
  /\ Absent \in Spools /\ Partial \in Spools
  /\ \A o \in Outcomes, l \in 1..MaxFrames : Reply(o, l) \in Spools
  /\ \A o \in Outcomes : Reply(o, 1) \in Spools
  /\ \A f \in Spools : f.len \in 0..MaxFrames
BY Constants DEF Spools, Absent, Partial, Reply, Outcomes

(* The number of retained frames is a natural number.                      *)
LEMMA RetainedFinite ==
  ASSUME NEW S \in SUBSET Keys
  PROVE  Cardinality(Retained(S)) \in Nat
<1>1. IsFiniteSet(Keys)
  BY ConstantsAssumption, FS_Product DEF Keys
<1>2. IsFiniteSet(S) /\ IsFiniteSet(1..MaxFrames)
  BY <1>1, FS_Subset, FS_Interval, Constants
<1>3. IsFiniteSet(S \X (1..MaxFrames))
  BY <1>2, FS_Product
<1> QED
  BY <1>3, FS_Subset, FS_CardinalityType DEF Retained

(* The budget handed to the worker is an integer.                          *)
LEMMA AvailableType == ASSUME NEW s \in Sids PROVE Available(s) \in Int
<1>1. Keys \in SUBSET Keys /\ ({s} \X Ids) \in SUBSET Keys
  BY DEF Keys
<1> QED
  BY <1>1, RetainedFinite, Constants DEF Available, OwnBudget

(* A failure that happens is counted.                                      *)
LEMMA SpendType ==
  ASSUME TypeOK, NEW f \in Failures, Spend(f)
  PROVE  spent' \in [Failures -> Nat]
BY DEF TypeOK, Spend

(* A Redis command leaves a connection that is usable or not.              *)
LEMMA LinkType ==
  ASSUME TypeOK, Heard \/ Unheard
  PROVE  connected' \in BOOLEAN /\ spent' \in [Failures -> Nat]
<1>1. CASE Heard
  BY <1>1 DEF Heard, TypeOK
<1>2. CASE Unheard
  <2>1. spent' \in [Failures -> Nat]
    BY <1>2, SpendType DEF Unheard, Failures
  <2> QED
    BY <1>2, <2>1 DEF Unheard
<1> QED
  BY <1>1, <1>2

(* A spool file is replaced by a spool file.                               *)
LEMMA WriteType ==
  ASSUME TypeOK, NEW k, NEW f \in Spools, Write(k, f)
  PROVE  file' \in [Keys -> Spools]
BY DEF TypeOK, Write

(* A rewound delivery has a valid offset.                                  *)
LEMMA RewindType ==
  ASSUME TypeOK, NEW k, Rewind(k)
  PROVE  offset' \in [Keys -> Nat] /\ pub' \in [Keys -> Nat]
BY DEF TypeOK, Rewind

(* MarkDone leaves a well-formed journal.                                  *)
LEMMA MarkDoneType ==
  ASSUME TypeOK, NEW k \in Keys, MarkDone(k)
  PROVE  /\ state' \in [Keys -> States] /\ body' \in [Keys -> Messages \cup {Nil}]
         /\ before' \in [Keys -> SUBSET Keys] /\ offset' \in [Keys -> Nat]
         /\ size' \in [Keys -> 0..MaxFrames] /\ pub' \in [Keys -> Nat]
<1>1. offset' \in [Keys -> Nat] /\ pub' \in [Keys -> Nat]
  BY RewindType DEF MarkDone
<1>2. file[k].len \in 0..MaxFrames
  BY SpoolFacts DEF TypeOK
<1> QED
  BY <1>1, <1>2 DEF TypeOK, MarkDone, FileSize, States

(* The fields of a session's streams.                                      *)
LEMMA StreamFacts ==
  ASSUME NEW r \in Streams
  PROVE  /\ r.head \in Nat /\ r.len \in Nat /\ r.reqTTL \in Nat
         /\ r.respTTL \in Nat /\ r.log \in Seq(Messages) /\ Len(r.log) \in Nat
BY DEF Streams

(* XADD and EXPIRE leave a well-formed response stream.                    *)
LEMMA PublishedType ==
  ASSUME NEW r \in Streams, now \in Nat
  PROVE  Published(r) \in Streams
<1> now + LeaseTime \in Nat /\ r.len + 1 \in Nat
  BY Constants, StreamFacts
<1> QED
  BY DEF Published, Streams

(* Publish leaves well-formed streams.                                     *)
LEMMA PublishType ==
  ASSUME TypeOK, NEW s \in Sids, Publish(s)
  PROVE  stream' \in [Sids -> Streams]
BY PublishedType DEF TypeOK, Publish

(* XDEL leaves well-formed streams.                                        *)
LEMMA XdelType ==
  ASSUME TypeOK, NEW s \in Sids, NEW i \in Nat, Xdel(s, i)
  PROVE  stream' \in [Sids -> Streams]
<1> stream[s] \in Streams
  BY DEF TypeOK
<1> [stream[s] EXCEPT !.head = IF @ = i - 1 THEN i ELSE @] \in Streams
  BY DEF Streams
<1> QED
  BY DEF TypeOK, Xdel

(* DEL leaves well-formed streams.                                         *)
LEMMA DroppedType == ASSUME NEW r \in Streams PROVE Dropped(r) \in Streams
<1> Len(r.log) \in Nat
  BY DEF Streams
<1> QED
  BY DEF Dropped, Streams

(* The memory of a process that is gone is well formed.                    *)
LEMMA ExitType ==
  ASSUME Exit
  PROVE  /\ pc' \in PCs /\ todo' \subseteq Sids
         /\ sid' \in Sids \cup {Nil} /\ id' \in Ids \cup {Nil} /\ n' \in Nat
         /\ connected' \in BOOLEAN /\ lastCleanup' \in Nat
         /\ task' \in {"none", "queued", "sent", "ready", "failed"}
         /\ active' \in Keys \cup {Nil}
         /\ answer' \in {"none", "ok", "rejected"} /\ avail' \in Int
<1>1. connected' \in BOOLEAN /\ todo' \subseteq Sids
  BY DEF Exit
<1>2. n' \in Nat /\ lastCleanup' \in Nat /\ avail' \in Int
  BY DEF Exit
<1> QED
  BY <1>1, <1>2 DEF Exit, PCs

(* The expiry of keys in Redis leaves well-formed streams.                 *)
LEMMA AgedType ==
  ASSUME NEW r \in Streams PROVE Aged(r) \in Streams
<1> Len(r.log) \in Nat
  BY StreamFacts
<1> QED
  BY DEF Aged, Streams

(* Every step of the system preserves the type invariant.                  *)
LEMMA TypeStep == IInv /\ [Next]_vars => TypeOK'
<1> SUFFICES ASSUME TypeOK, MainHolds, WorkerHolds, [Next]_vars PROVE TypeOK'
  BY DEF IInv, Safe
<1> USE DEF TypeOK, disk, journal, jobs, vpp, locals, loop, worker, memory,
            history
<1>1. CASE Restart
  BY <1>1, SpoolFacts DEF Restart, PCs, WorkerHolds, Outcomes, Failures
<1>2. CASE RecoverWrites
  <2>1. PICK k \in Keys : /\ Write(k, Reply("unknown", 1))
                         /\ sid' = k[1] /\ id' = k[2] /\ pc' = "recovered"
    BY <1>2 DEF RecoverWrites
  <2>2. Reply("unknown", 1) \in Spools
    BY SpoolFacts DEF Outcomes
  <2>3. file' \in [Keys -> Spools]
    BY <2>1, <2>2, WriteType
  <2> QED
    BY <1>2, <2>1, <2>3, KeyFacts DEF RecoverWrites, PCs
<1>3. CASE RecoverMarks
  <2>1. <<sid, id>> \in Keys /\ MarkDone(<<sid, id>>)
    BY <1>3, KeyFacts DEF RecoverMarks, MainHolds
  <2> QED
    BY <1>3, <2>1, MarkDoneType DEF RecoverMarks, Goto, PCs
<1>4. CASE RecoverEnds
  BY <1>4, SpoolFacts DEF RecoverEnds, PCs, WorkerHolds, Outcomes, Failures
<1>5. CASE CompleteWorker
  <2>1. CASE task = "ready" /\ Collect
    <3>1. active \in Keys /\ MarkDone(active)
      BY <2>1 DEF Collect, WorkerHolds
    <3> QED
      BY <1>5, <2>1, <3>1, MarkDoneType DEF CompleteWorker, Collect, PCs
  <2>2. CASE task = "failed" /\ Exit
    BY <1>5, <2>2, ExitType DEF CompleteWorker
  <2>3. CASE task \notin {"ready", "failed"}
    BY <1>5, <2>3 DEF CompleteWorker, PCs
  <2> QED
    BY <1>5, <2>1, <2>2, <2>3 DEF CompleteWorker
<1>6. CASE Connect
  BY <1>6, SpoolFacts DEF Connect, PCs, WorkerHolds, Outcomes, Failures
<1>7. CASE Reconnect
  BY <1>7, SpoolFacts DEF Reconnect, PCs, WorkerHolds, Outcomes, Failures
<1>8. CASE ConnectFails
  BY <1>8, SpoolFacts DEF ConnectFails, PCs, WorkerHolds, Outcomes, Failures
<1>9. CASE Cleanup
  BY <1>9, SpoolFacts DEF Cleanup, PCs, WorkerHolds, Outcomes, Failures
<1>10. CASE Unlink
  BY <1>10, SpoolFacts
     DEF Unlink, Write, JobsOf, Journaled, PCs, WorkerHolds, Outcomes,
         Failures
<1>11. CASE DropStreams
  <2>1. stream' \in [Sids -> Streams]
    BY <1>11, DroppedType DEF DropStreams, MainHolds
  <2>2. connected' \in BOOLEAN /\ spent' \in [Failures -> Nat]
    BY <1>11, LinkType DEF DropStreams
  <2> QED
    BY <1>11, <2>1, <2>2 DEF DropStreams, PCs
<1>12. CASE Forget
  <2> DEFINE gone == {sid} \X Ids
  <2>1. \A k \in Keys : before[k] \ gone \in SUBSET Keys
    OBVIOUS
  <2>2. /\ state' \in [Keys -> States] /\ body' \in [Keys -> Messages \cup {Nil}]
        /\ before' \in [Keys -> SUBSET Keys]
    BY <1>12, <2>1 DEF Forget, States
  <2>3. /\ offset' \in [Keys -> Nat] /\ size' \in [Keys -> 0..MaxFrames]
        /\ pub' \in [Keys -> Nat]
    BY <1>12, Constants DEF Forget
  <2> QED
    BY <1>12, <2>2, <2>3 DEF Forget, Goto, PCs
<1>13. CASE Register
  <2>1. now + LeaseTime \in Nat
    BY Constants
  <2>2. sessions' \subseteq Sids /\ lease' \in [Sids -> Nat]
    BY <1>13, <2>1 DEF Register
  <2>3. todo' \subseteq Sids
    BY <1>13, <2>2 DEF Register
  <2> QED
    BY <1>13, <2>2, <2>3 DEF Register, PCs
<1>14. CASE Receive
  <2>1. PICK s \in todo :
          /\ todo' = todo \ {s}
          /\ \/ Read(s)
             \/ UNCHANGED <<stream, jobs, pc, sid, n, connected, spent, pub>>
    BY <1>14 DEF Receive
  <2>2. CASE Read(s)
    <3> DEFINE m == stream[s].log[stream[s].head + 1]
    <3>1. /\ s \in Sids /\ stream[s] \in Streams
          /\ stream[s].head \in Nat /\ now + LeaseTime \in Nat
      BY StreamFacts, Constants
    <3>2. m \in Messages
      <4>1. stream[s].log \in Seq(Messages)
        BY <3>1, StreamFacts
      <4>3. stream[s].head + 1 <= Len(stream[s].log)
        BY <2>2 DEF Read
      <4>4. Len(stream[s].log) \in Nat
        BY <4>1
      <4>2. stream[s].head + 1 \in 1..Len(stream[s].log)
        BY <3>1, <4>3, <4>4
      <4> QED
        BY <4>1, <4>2
    <3>3. connected' \in BOOLEAN /\ spent' \in [Failures -> Nat]
      BY <2>2, LinkType DEF Read
    <3>4. [stream[s] EXCEPT !.reqTTL = now + LeaseTime] \in Streams
      BY <3>1 DEF Streams
    <3>5. \/ stream' = stream
          \/ stream' = [stream EXCEPT ![s].reqTTL = now + LeaseTime]
      BY <2>2 DEF Read
    <3>6. stream' \in [Sids -> Streams]
      BY <3>1, <3>4, <3>5
    <3>7. sid' \in Sids /\ n' \in Nat /\ pc' \in PCs
      <4>1. sid' = s /\ n' = stream[s].head + 1 /\ pc' \in {"publish", "remove"}
        BY <2>2 DEF Read
      <4>2. {"publish", "remove"} \subseteq PCs
        BY DEF PCs
      <4> QED
        BY <3>1, <4>1, <4>2
    <3>8. /\ state' \in [Keys -> States] /\ body' \in [Keys -> Messages \cup {Nil}]
          /\ before' \in [Keys -> SUBSET Keys] /\ offset' \in [Keys -> Nat]
          /\ size' \in [Keys -> 0..MaxFrames] /\ pub' \in [Keys -> Nat]
      <4>1. CASE Insert(<<s, m.id>>, m)
        BY <3>2, <4>1 DEF Insert, Journaled, States
      <4>2. CASE Rewind(<<s, m.arg>>) /\ UNCHANGED <<state, body, before, size>>
        BY <4>2, RewindType
      <4>3. CASE UNCHANGED <<jobs, pub>>
        BY <4>3
      <4> QED
        BY <2>2, <4>1, <4>2, <4>3 DEF Read
    <3> QED
      BY <1>14, <2>1, <3>3, <3>6, <3>7, <3>8 DEF Receive
  <2>3. CASE UNCHANGED <<stream, jobs, pc, sid, n, connected, spent, pub>>
    BY <1>14, <2>1, <2>3 DEF Receive
  <2> QED
    BY <2>1, <2>2, <2>3
<1>15. CASE ReceiveEnds
  BY <1>15, SpoolFacts DEF ReceiveEnds, PCs, WorkerHolds, Outcomes, Failures
<1>16. CASE PublishReply
  <2>1. sid \in Sids
    BY <1>16 DEF PublishReply, MainHolds
  <2>2. stream' \in [Sids -> Streams]
    BY <1>16, <2>1, PublishType DEF PublishReply
  <2>3. connected' \in BOOLEAN /\ spent' \in [Failures -> Nat]
    BY <1>16, LinkType DEF PublishReply
  <2> QED
    BY <1>16, <2>1, <2>2, <2>3 DEF PublishReply, KeepEntry, Goto, PCs
<1>17. CASE Remove
  <2>1. stream' \in [Sids -> Streams]
    BY <1>17, XdelType DEF Remove, MainHolds
  <2>2. connected' \in BOOLEAN /\ spent' \in [Failures -> Nat]
    BY <1>17, LinkType DEF Remove
  <2> QED
    BY <1>17, <2>1, <2>2 DEF Remove, Goto, PCs
<1>18. CASE Deliver
  <2>1. PICK s \in todo :
          \/ \E k \in Keys : k[1] = s /\ DeliverOne(s, k)
          \/ /\ todo' = todo \ {s}
             /\ UNCHANGED <<stream, pc, locals, lastCleanup, connected, worker,
                            spent, pub>>
    BY <1>18 DEF Deliver, IsFirst, Undelivered
  <2>2. ASSUME NEW k \in Keys, k[1] = s, DeliverOne(s, k) PROVE TypeOK'
    <3>1. CASE Exit /\ UNCHANGED <<stream, spent, pub>>
      BY <1>18, <3>1, ExitType DEF Deliver
    <3>2. CASE /\ Publish(s) /\ (Heard \/ Unheard) /\ todo' = todo \ {s}
               /\ pub' = [pub EXCEPT ![k] = IF @ = offset[k] THEN @ + 1 ELSE @]
               /\ \/ pc' = "offset" /\ sid' = s /\ id' = k[2]
                  \/ UNCHANGED <<pc, sid, id>>
               /\ UNCHANGED <<n, lastCleanup, worker>>
      <4>1. stream' \in [Sids -> Streams]
        BY <3>2, PublishType
      <4>2. connected' \in BOOLEAN /\ spent' \in [Failures -> Nat]
        BY <3>2, LinkType
      <4>3. pub' \in [Keys -> Nat]
        BY <3>2
      <4> QED
        BY <1>18, <2>2, <3>2, <4>1, <4>2, <4>3, KeyFacts DEF Deliver, PCs
    <3>3. CASE /\ todo' = todo \ {s}
               /\ UNCHANGED <<stream, pc, locals, lastCleanup, connected, worker,
                              spent, pub>>
      BY <1>18, <3>3 DEF Deliver
    <3> QED
      BY <2>2, <3>1, <3>2, <3>3 DEF DeliverOne
  <2>3. CASE /\ todo' = todo \ {s}
             /\ UNCHANGED <<stream, pc, locals, lastCleanup, connected, worker,
                            spent, pub>>
    BY <1>18, <2>3 DEF Deliver
  <2> QED
    BY <2>1, <2>2, <2>3
<1>19. CASE DeliverEnds
  BY <1>19, SpoolFacts DEF DeliverEnds, PCs, WorkerHolds, Outcomes, Failures
<1>20. CASE StoreOffset
  <2>1. offset' \in [Keys -> Nat]
    BY <1>20, KeyFacts DEF StoreOffset, NextOffset, MainHolds
  <2> QED
    BY <1>20, <2>1 DEF StoreOffset, Goto, PCs
<1>21. CASE StartJob
  <2>1. state' \in [Keys -> States]
    BY <1>21 DEF StartJob, States
  <2>2. sid' \in Sids \cup {Nil} /\ id' \in Ids \cup {Nil} /\ pc' \in PCs
    BY <1>21, KeyFacts DEF StartJob, PCs
  <2> QED
    BY <1>21, <2>1, <2>2 DEF StartJob
<1>22. CASE LaunchLocal
  <2>1. \A o \in {"result", "error"} : Reply(o, 1) \in Spools
    BY SpoolFacts DEF Outcomes
  <2>2. \E f \in Spools : Write(<<sid, id>>, f)
    BY <1>22, <2>1 DEF LaunchLocal
  <2>3. file' \in [Keys -> Spools]
    BY <2>2, WriteType
  <2>4. now + LeaseTime \in Nat
    BY Constants
  <2>5. lease' \in [Sids -> Nat]
    BY <1>22, <2>4 DEF LaunchLocal
  <2> QED
    BY <1>22, <2>3, <2>5 DEF LaunchLocal, PCs
<1>23. CASE MarkLocal
  <2>1. <<sid, id>> \in Keys /\ MarkDone(<<sid, id>>)
    BY <1>23, KeyFacts DEF MarkLocal, MainHolds
  <2> QED
    BY <1>23, <2>1, MarkDoneType DEF MarkLocal, Goto, PCs
<1>24. CASE Submit
  <2>1. sid \in Sids /\ id \in Ids
    BY <1>24 DEF Submit, MainHolds
  <2>2. Available(sid) \in Int
    BY <2>1, AvailableType
  <2> QED
    BY <1>24, <2>1, <2>2, KeyFacts DEF Submit, Goto, PCs
<1>25. CASE StopEnds
  <2>1. CASE task = "ready"
    <3>1. active \in Keys /\ MarkDone(active)
      BY <1>25, <2>1 DEF StopEnds, WorkerHolds
    <3> QED
      BY <1>25, <3>1, MarkDoneType, ExitType DEF StopEnds
  <2>2. CASE task # "ready"
    BY <1>25, <2>2, ExitType DEF StopEnds
  <2> QED
    BY <2>1, <2>2
<1>26. CASE WorkerRefuses
  BY <1>26, SpoolFacts
     DEF WorkerRefuses, Finish, Write, PCs, WorkerHolds, Outcomes, Failures
<1>27. CASE WorkerSends
  BY <1>27, SpoolFacts
     DEF WorkerSends, Write, PCs, WorkerHolds, Outcomes, Failures
<1>28. CASE WorkerAnswers
  <2>1. PICK l \in 1..MaxFrames, o \in {"result", "error"} : Finish(o, l)
    BY <1>28 DEF WorkerAnswers
  <2>2. Reply(o, l) \in Spools
    BY SpoolFacts DEF Outcomes
  <2>3. file' \in [Keys -> Spools]
    BY <2>1, <2>2, WriteType DEF Finish
  <2> QED
    BY <2>1, <2>3 DEF Finish
<1>29. CASE WorkerGivesUp
  <2>1. PICK l \in 1..MaxFrames, o \in {"unknown", "error"} : Finish(o, l)
    BY <1>29 DEF WorkerGivesUp
  <2>2. Reply(o, l) \in Spools
    BY SpoolFacts DEF Outcomes
  <2>3. file' \in [Keys -> Spools]
    BY <2>1, <2>2, WriteType DEF Finish
  <2> QED
    BY <2>1, <2>3 DEF Finish
<1>30. CASE VppApplies
  BY <1>30, SpoolFacts
     DEF VppApplies, VppActs, PCs, WorkerHolds, Outcomes, Failures
<1>31. CASE VppRejects
  BY <1>31, SpoolFacts
     DEF VppRejects, VppActs, PCs, WorkerHolds, Outcomes, Failures
<1>32. CASE Send
  <2>1. PICK s \in Sids, m \in Messages :
          stream' = [stream EXCEPT ![s].log = Append(@, m)]
    BY <1>32 DEF Send
  <2>2. stream[s] \in Streams /\ Append(stream[s].log, m) \in Seq(Messages)
    BY StreamFacts
  <2>3. [stream[s] EXCEPT !.log = Append(@, m)] \in Streams
    BY <2>2 DEF Streams
  <2> QED
    BY <1>32, <2>1, <2>2, <2>3 DEF Send
<1>33. ASSUME NEW s \in Sids, Acknowledge(s) PROVE TypeOK'
  <2>1. stream[s] \in Streams
    OBVIOUS
  <2>2. stream[s].len - 1 \in Nat
    <3>1. stream[s].len \in Nat
      BY <2>1, StreamFacts
    <3> QED
      BY <1>33, <3>1 DEF Acknowledge
  <2>3. [stream[s] EXCEPT !.len = stream[s].len - 1] \in Streams
    BY <2>1, <2>2 DEF Streams
  <2> QED
    BY <1>33, <2>1, <2>3 DEF Acknowledge
<1>34. CASE Tick
  <2>1. stream' \in [Sids -> Streams]
    BY <1>34, AgedType DEF Tick
  <2> QED
    BY <1>34, <2>1 DEF Tick
<1>35. CASE Disconnect
  BY <1>35, LinkType DEF Disconnect
<1>36. CASE Crash
  <2>1. spent' \in [Failures -> Nat]
    BY <1>36, SpendType DEF Crash, Failures
  <2> QED
    BY <1>36, <2>1, ExitType DEF Crash
<1>37. CASE Stop
  BY <1>37, SpoolFacts DEF Stop, Spend, PCs, WorkerHolds, Outcomes, Failures
<1>38. CASE LoseFile
  BY <1>38, SpoolFacts
     DEF LoseFile, Spend, Write, PCs, WorkerHolds, Outcomes, Failures
<1>39. CASE WorkerFails
  BY <1>39, SpoolFacts
     DEF WorkerFails, Spend, PCs, WorkerHolds, Outcomes, Failures
<1>40. CASE WorkerDescribes
  <2>1. PICK l \in 1..MaxFrames : Finish("result", l)
    BY <1>40 DEF WorkerDescribes
  <2>2. Reply("result", l) \in Spools
    BY SpoolFacts DEF Outcomes
  <2>3. file' \in [Keys -> Spools]
    BY <2>1, <2>2, WriteType DEF Finish
  <2> QED
    BY <2>1, <2>3 DEF Finish
<1>41. CASE RecoverDies
  <2>1. spent' \in [Failures -> Nat]
    BY <1>41, SpendType DEF RecoverDies, Failures
  <2>2. file' \in [Keys -> Spools]
    BY <1>41, WriteType, SpoolFacts DEF RecoverDies
  <2> QED
    BY <1>41, <2>1, <2>2, ExitType DEF RecoverDies
<1>42. CASE UNCHANGED vars
  BY <1>42 DEF vars
<1> QED
  BY <1>1, <1>2, <1>3, <1>4, <1>5, <1>6, <1>7, <1>8, <1>9, <1>10, <1>11,
     <1>12, <1>13, <1>14, <1>15, <1>16, <1>17, <1>18, <1>19, <1>20, <1>21,
     <1>22, <1>23, <1>24, <1>25, <1>26, <1>27, <1>28, <1>29, <1>30, <1>31,
     <1>32, <1>33, <1>34, <1>35, <1>36, <1>37, <1>38, <1>39, <1>40, <1>41,
     <1>42
  DEF Next, Recovery, Loop, WorkerStep, Vpp, Client, Failure

(* Only a request without a row is admitted.                               *)
LEMMA AdmitFresh ==
  ASSUME NEW s, NEW m, Verdict(s, m) = "admit"
  PROVE  state[<<s, m.id>>] = "none"
BY DEF Verdict

(* The entry at the head of a stream is a message.                         *)
LEMMA EntryType ==
  ASSUME TypeOK, NEW s \in Sids, stream[s].head + 1 <= Len(stream[s].log)
  PROVE  /\ stream[s].log[stream[s].head + 1] \in Messages
         /\ <<s, stream[s].log[stream[s].head + 1].id>> \in Keys
<1>1. stream[s] \in Streams
  BY DEF TypeOK
<1>2. stream[s].head + 1 \in 1..Len(stream[s].log)
  BY <1>1, StreamFacts
<1>3. stream[s].log[stream[s].head + 1] \in Messages
  BY <1>1, <1>2, StreamFacts
<1> QED
  BY <1>3, Constants, KeyFacts

(* Every step of the system preserves the safety invariant.                *)
LEMMA SafeStep == IInv /\ [Next]_vars => Safe'
<1> SUFFICES ASSUME TypeOK, Safe, [Next]_vars PROVE Safe'
  BY DEF IInv
<1> USE KeyFacts DEF TypeOK, Safe, disk, journal, jobs, vpp, locals, loop,
                     worker, memory, history, Referential, Leased, Unsent,
                     Fresh, TodoLive, MainHolds, WorkerHolds, RunningHeld,
                     OneRunning, AtMostOnce, ResultHonest, Journaled
<1>1. CASE Restart
  BY <1>1 DEF Restart
<1>2. CASE RecoverWrites
  <2>1. PICK k \in Keys : /\ NeedsRecovery(k) /\ Write(k, Reply("unknown", 1))
                         /\ sid' = k[1] /\ id' = k[2] /\ pc' = "recovered"
    BY <1>2 DEF RecoverWrites
  <2>2. <<sid', id'>> = k /\ state[k] \in {"running", "done"}
    BY <2>1 DEF NeedsRecovery
  <2>3. \A j \in Keys : file'[j] = IF j = k THEN Reply("unknown", 1) ELSE file[j]
    BY <2>1 DEF Write
  <2>4. /\ UNCHANGED <<journal, vpp, todo, worker>>
        /\ pc = "recover" /\ Reply("unknown", 1).out = "unknown"
    BY <1>2 DEF RecoverWrites, Reply
  <2>5. MainHolds'
    BY <2>1, <2>2, <2>4
  <2>6. Unsent' /\ ResultHonest'
    BY <2>2, <2>3, <2>4
  <2> QED
    BY <2>1, <2>4, <2>5, <2>6
<1>3. CASE RecoverMarks
  BY <1>3 DEF RecoverMarks, MarkDone, Goto
<1>4. CASE RecoverEnds
  BY <1>4 DEF RecoverEnds, NeedsRecovery
<1>5. CASE CompleteWorker
  <2>1. CASE task = "ready" /\ Collect /\ pc' = "connect"
    BY <1>5, <2>1 DEF CompleteWorker, Collect, MarkDone
  <2>2. CASE task = "failed" /\ Exit
    BY <1>5, <2>2 DEF CompleteWorker, Exit
  <2>3. CASE task \notin {"ready", "failed"} /\ pc' = "connect"
    BY <1>5, <2>3 DEF CompleteWorker
  <2> QED
    BY <1>5, <2>1, <2>2, <2>3 DEF CompleteWorker
<1>6. CASE Connect
  BY <1>6 DEF Connect
<1>7. CASE Reconnect
  BY <1>7 DEF Reconnect
<1>8. CASE ConnectFails
  BY <1>8 DEF ConnectFails
<1>9. CASE Cleanup
  <2>1. /\ UNCHANGED <<disk, vpp, id, n, worker>>
        /\ \/ pc' = "register"
           \/ pc' = "cleanup"
           \/ pc' = "unlink" /\ sid' \in Sids /\ ~Kept(sid')
    BY <1>9 DEF Cleanup
  <2> QED
    BY <1>9, <2>1 DEF Cleanup, Kept
<1>10. CASE Unlink
  BY <1>10 DEF Unlink, Write, JobsOf, Absent
<1>11. CASE DropStreams
  BY <1>11 DEF DropStreams
<1>12. CASE Forget
  BY <1>12 DEF Forget, Goto
<1>13. CASE Register
  <2>1. CASE UNCHANGED <<sessions, lease>>
    BY <1>13, <2>1 DEF Register
  <2>2. ASSUME NEW s \in Sids, lease[s] = 0, sessions' = sessions \cup {s},
               lease' = [lease EXCEPT ![s] = now + LeaseTime]
        PROVE  Safe'
    <3>1. now + LeaseTime > 0
      BY Constants
    <3>2. \A r \in Sids : lease'[r] = IF r = s THEN now + LeaseTime ELSE lease[r]
      BY <2>2
    <3>3. /\ UNCHANGED <<state, body, file, vpp, locals, worker>>
          /\ pc = "register" /\ pc' = "receive" /\ todo' \subseteq sessions'
      BY <1>13 DEF Register
    <3>4. Referential' /\ Leased' /\ Unsent' /\ TodoLive'
      BY <2>2, <3>1, <3>2, <3>3
    <3> QED
      BY <3>3, <3>4
  <2> QED
    BY <1>13, <2>1, <2>2 DEF Register
<1>14. CASE Receive
  <2>1. PICK s \in todo :
          /\ todo' = todo \ {s}
          /\ \/ Read(s)
             \/ UNCHANGED <<stream, jobs, pc, sid, n, connected, spent, pub>>
    BY <1>14 DEF Receive
  <2>2. /\ UNCHANGED <<sessions, lease, file, vpp, worker>>
        /\ s \in sessions /\ todo' \subseteq sessions /\ pc = "receive"
    BY <1>14, <2>1 DEF Receive
  <2>3. CASE UNCHANGED <<stream, jobs, pc, sid, n, connected, spent, pub>>
    BY <2>2, <2>3
  <2>4. CASE Read(s)
    <3> DEFINE m == stream[s].log[stream[s].head + 1]  k == <<s, m.id>>
    <3>1. sid' = s /\ s \in Sids /\ pc' \in {"publish", "remove"}
      BY <2>4 DEF Read
    <3>2. CASE UNCHANGED <<state, body>>
      BY <2>2, <3>1, <3>2
    <3>3. CASE Verdict(s, m) = "admit" /\ Insert(k, m)
      <4>1. m \in Messages /\ k \in Keys
        BY <2>4, EntryType DEF Read
      <4>2. state[k] = "none"
        BY <3>3, AdmitFresh
      <4>3. effects[k] = 0 /\ k \notin inflight /\ file[k].out = "absent"
        BY <2>2, <4>1, <4>2
      <4>4. /\ \A j \in Keys : state'[j] = IF j = k THEN "queued" ELSE state[j]
            /\ \A j \in Keys : j # k => body'[j] = body[j]
        BY <3>3, <4>1 DEF Insert
      <4>5. Referential' /\ Leased' /\ TodoLive' /\ AtMostOnce'
        BY <2>2, <3>1, <4>1, <4>4
      <4>6. Unsent'
        BY <2>2, <4>3, <4>4
      <4>7. MainHolds'
        BY <2>2, <3>1, <4>4
      <4>8. active # k
        <5>1. active = k => task # "none"
          BY <4>1, Constants
        <5> QED
          BY <4>2, <5>1
      <4>9. WorkerHolds' /\ RunningHeld' /\ OneRunning'
        <5>1. \A j \in Keys : state'[j] = "running" <=> state[j] = "running"
          BY <4>2, <4>4
        <5>2. WorkerHolds'
          BY <2>2, <4>4, <4>8
        <5>3. RunningHeld'
          BY <2>2, <3>1, <5>1
        <5>4. OneRunning'
          BY <5>1
        <5> QED
          BY <5>2, <5>3, <5>4
      <4>10. ResultHonest'
        BY <2>2, <4>2, <4>3, <4>4
      <4> QED
        BY <4>5, <4>6, <4>7, <4>9, <4>10
    <3> QED
      BY <2>4, <3>2, <3>3 DEF Read
  <2> QED
    BY <2>1, <2>3, <2>4
<1>15. CASE ReceiveEnds
  BY <1>15 DEF ReceiveEnds
<1>16. CASE PublishReply
  BY <1>16 DEF PublishReply, KeepEntry, Goto
<1>17. CASE Remove
  BY <1>17 DEF Remove, Goto
<1>18. CASE Deliver
  <2>1. /\ UNCHANGED <<disk, vpp>>
        /\ \/ Exit
           \/ UNCHANGED worker /\ pc' = "deliver"
           \/ UNCHANGED worker /\ pc' = "offset" /\ sid' \in Sids /\ id' \in Ids
    BY <1>18 DEF Deliver, DeliverOne, IsFirst, Undelivered
  <2>2. CASE Exit
    BY <1>18, <2>1, <2>2 DEF Deliver, Exit
  <2>3. CASE UNCHANGED worker
    BY <1>18, <2>1, <2>3 DEF Deliver, Exit
  <2> QED
    BY <2>1, <2>2, <2>3
<1>19. CASE DeliverEnds
  BY <1>19 DEF DeliverEnds
<1>20. CASE StoreOffset
  BY <1>20 DEF StoreOffset, Goto
<1>21. CASE StartJob
  <2>1. CASE pc' = "complete" /\ UNCHANGED <<state, sid, id>>
    BY <1>21, <2>1 DEF StartJob
  <2>2. CASE ~WorkerBusy /\ \E k \in Keys : /\ IsFirst(k, Queued)
                           /\ state' = [state EXCEPT ![k] = "running"]
                           /\ sid' = k[1] /\ id' = k[2] /\ pc' = "launch"
    <3>1. PICK k \in Keys : /\ state[k] = "queued"
                           /\ state' = [state EXCEPT ![k] = "running"]
                           /\ sid' = k[1] /\ id' = k[2] /\ pc' = "launch"
      BY <2>2 DEF IsFirst, Queued
    <3>2. task = "none" /\ active = Nil /\ <<sid', id'>> = k
      BY <2>2, <3>1 DEF WorkerBusy
    <3>3. \A j \in Keys : state[j] # "running"
      BY <1>21, <3>2, Constants DEF StartJob
    <3>4. effects[k] = 0 /\ k \notin inflight
      BY <3>1
    <3>5. \A j \in Keys : state'[j] = IF j = k THEN "running" ELSE state[j]
      BY <3>1
    <3>6. UNCHANGED <<sessions, lease, body, file, vpp, todo, worker>>
      BY <1>21 DEF StartJob
    <3> QED
      BY <3>1, <3>2, <3>3, <3>4, <3>5, <3>6
  <2> QED
    BY <1>21, <2>1, <2>2 DEF StartJob
<1>22. CASE LaunchLocal
  <2> DEFINE k == <<sid, id>>
  <2>1. /\ k \in Keys /\ state[k] = "running" /\ task = "none" /\ pc' = "mark"
        /\ UNCHANGED <<sessions, state, body, vpp, sid, id, todo, worker>>
    BY <1>22 DEF LaunchLocal
  <2>2. Leased'
    <3>1. now + LeaseTime > 0
      BY Constants
    <3> QED
      BY <1>22, <2>1, <3>1 DEF LaunchLocal
  <2>3. Unsent'
    BY <1>22, <2>1, <2>2 DEF LaunchLocal, Write
  <2>4. ResultHonest'
    <3>1. file'[k].out = "result" => body[k].method # "backend"
      BY <1>22, <2>1 DEF LaunchLocal, Write, Reply
    <3>2. \A j \in Keys : j # k => file'[j] = file[j]
      BY <1>22 DEF LaunchLocal, Write
    <3> QED
      BY <2>1, <3>1, <3>2
  <2> QED
    BY <1>22, <2>1, <2>2, <2>3, <2>4
<1>23. CASE MarkLocal
  BY <1>23 DEF MarkLocal, MarkDone, Goto
<1>24. CASE Submit
  BY <1>24, Constants DEF Submit, Goto
<1>25. CASE StopEnds
  BY <1>25 DEF StopEnds, MarkDone, Exit
<1>26. CASE WorkerRefuses
  BY <1>26 DEF WorkerRefuses, Finish, Write, Reply
<1>27. CASE WorkerSends
  BY <1>27 DEF WorkerSends, Write, Partial
<1>28. CASE WorkerAnswers
  <2>1. PICK l \in 1..MaxFrames, o \in {"result", "error"} :
          Finish(o, l) /\ (o = "result" => answer = "ok")
    BY <1>28 DEF WorkerAnswers
  <2>2. /\ active \in Keys /\ state[active] = "running" /\ task = "sent"
        /\ o = "result" => effects[active] = 1
    BY <1>28, <2>1 DEF WorkerAnswers
  <2>3. \A j \in Keys : file'[j] = IF j = active THEN Reply(o, l) ELSE file[j]
    BY <2>1 DEF Finish, Write
  <2>4. UNCHANGED <<journal, vpp, pc, loop, active, answer>> /\ task' = "ready"
    BY <2>1 DEF Finish
  <2>5. Unsent'
    BY <2>2, <2>3, <2>4
  <2>8. ResultHonest'
    <3>1. Reply(o, l).out = o
      BY DEF Reply
    <3> QED
      BY <2>2, <2>3, <2>4, <3>1
  <2>6. Referential' /\ Leased' /\ TodoLive' /\ AtMostOnce'
    BY <2>4
  <2>7. MainHolds' /\ WorkerHolds' /\ RunningHeld' /\ OneRunning'
    BY <2>2, <2>4
  <2> QED
    BY <2>5, <2>6, <2>7, <2>8
<1>29. CASE WorkerGivesUp
  <2>1. PICK l \in 1..MaxFrames, o \in {"unknown", "error"} : Finish(o, l)
    BY <1>29 DEF WorkerGivesUp
  <2>2. active \in Keys /\ state[active] = "running"
    BY <1>29 DEF WorkerGivesUp
  <2>3. \A j \in Keys :
          file'[j] = IF j = active THEN Reply(o, l) ELSE file[j]
    BY <2>1 DEF Finish, Write
  <2>4. UNCHANGED <<journal, vpp, pc, loop, active, answer>> /\ task' = "ready"
    BY <2>1 DEF Finish
  <2>5. Unsent'
    <3>1. UNCHANGED <<state, sessions, lease, effects, inflight>>
      BY <2>4
    <3>2. \A j \in Keys : j # active => file'[j] = file[j]
      BY <2>3
    <3> QED
      BY <2>2, <3>1, <3>2
  <2>6. ResultHonest'
    <3>1. UNCHANGED <<state, body, effects>>
      BY <2>4
    <3>2. Reply(o, l).out # "result"
      BY DEF Reply
    <3> QED
      BY <2>3, <3>1, <3>2
  <2>7. Referential' /\ Leased' /\ TodoLive' /\ AtMostOnce'
    BY <2>4
  <2>8. MainHolds' /\ WorkerHolds' /\ RunningHeld' /\ OneRunning'
    BY <1>29, <2>2, <2>4 DEF WorkerGivesUp
  <2> QED
    BY <2>5, <2>6, <2>7, <2>8
<1>30. CASE VppApplies
  <2>1. PICK k \in inflight :
          VppActs(k, "ok") /\ effects' = [effects EXCEPT ![k] = @ + 1]
    BY <1>30 DEF VppApplies
  <2>2. k \in Keys /\ effects[k] = 0 /\ inflight' = inflight \ {k}
    BY <2>1 DEF VppActs
  <2>3. \A j \in Keys : effects'[j] = IF j = k THEN 1 ELSE effects[j]
    BY <2>1, <2>2
  <2>4. UNCHANGED <<disk, pc, loop, task, active>>
    BY <2>1 DEF VppActs
  <2>5. answer' = IF task = "sent" /\ active = k THEN "ok" ELSE answer
    BY <2>1 DEF VppActs
  <2>6. Referential' /\ Leased' /\ TodoLive' /\ RunningHeld' /\ OneRunning'
    BY <2>4
  <2>7. Unsent' /\ AtMostOnce'
    BY <2>2, <2>3, <2>4
  <2>8. MainHolds'
    BY <2>2, <2>3, <2>4
  <2>9. WorkerHolds'
    BY <2>2, <2>3, <2>4, <2>5
  <2>10. ResultHonest'
    BY <2>2, <2>3, <2>4
  <2> QED
    BY <2>6, <2>7, <2>8, <2>9, <2>10
<1>31. CASE VppRejects
  BY <1>31 DEF VppRejects, VppActs
<1>32. CASE Send
  BY <1>32 DEF Send
<1>33. ASSUME NEW s \in Sids, Acknowledge(s) PROVE Safe'
  BY <1>33 DEF Acknowledge
<1>34. CASE Tick
  BY <1>34 DEF Tick
<1>35. CASE Disconnect
  BY <1>35 DEF Disconnect
<1>36. CASE Crash
  BY <1>36 DEF Crash, Exit
<1>37. CASE Stop
  BY <1>37 DEF Stop
<1>38. CASE LoseFile
  BY <1>38 DEF LoseFile, Write, Absent
<1>39. CASE WorkerFails
  BY <1>39 DEF WorkerFails
<1>40. CASE WorkerDescribes
  <2>1. PICK l \in 1..MaxFrames : Finish("result", l)
    BY <1>40 DEF WorkerDescribes
  <2>2. /\ active \in Keys /\ state[active] = "running"
        /\ body[active].method = "catalog"
    BY <1>40 DEF WorkerDescribes
  <2>3. \A j \in Keys :
          file'[j] = IF j = active THEN Reply("result", l) ELSE file[j]
    BY <2>1 DEF Finish, Write
  <2>4. UNCHANGED <<journal, vpp, pc, loop, active, answer>> /\ task' = "ready"
    BY <2>1 DEF Finish
  <2>5. Unsent'
    BY <2>2, <2>3, <2>4
  <2>6. ResultHonest'
    BY <2>2, <2>3, <2>4 DEF Reply
  <2>7. Referential' /\ Leased' /\ TodoLive' /\ AtMostOnce'
    BY <2>4
  <2>8. MainHolds' /\ WorkerHolds' /\ RunningHeld' /\ OneRunning'
    BY <1>40, <2>2, <2>4 DEF WorkerDescribes
  <2> QED
    BY <2>5, <2>6, <2>7, <2>8
<1>41. CASE RecoverDies
  <2>1. PICK k \in Keys : NeedsRecovery(k) /\ Write(k, Partial)
    BY <1>41 DEF RecoverDies
  <2>2. /\ \A j \in Keys \ {k} : file'[j] = file[j]
        /\ file'[k].out = "partial" /\ state[k] \in {"running", "done"}
    BY <2>1 DEF Write, Partial, NeedsRecovery
  <2>3. UNCHANGED <<journal, vpp>> /\ Exit
    BY <1>41 DEF RecoverDies
  <2>4. Unsent' /\ ResultHonest'
    BY <2>2, <2>3 DEF Exit
  <2>5. Referential' /\ Leased' /\ TodoLive' /\ AtMostOnce'
    BY <2>3 DEF Exit
  <2>6. MainHolds' /\ WorkerHolds' /\ RunningHeld' /\ OneRunning'
    BY <2>3 DEF Exit
  <2> QED
    BY <2>4, <2>5, <2>6
<1>42. CASE UNCHANGED vars
  BY <1>42 DEF vars
<1> QED
  BY <1>1, <1>2, <1>3, <1>4, <1>5, <1>6, <1>7, <1>8, <1>9, <1>10, <1>11,
     <1>12, <1>13, <1>14, <1>15, <1>16, <1>17, <1>18, <1>19, <1>20, <1>21,
     <1>22, <1>23, <1>24, <1>25, <1>26, <1>27, <1>28, <1>29, <1>30, <1>31,
     <1>32, <1>33, <1>34, <1>35, <1>36, <1>37, <1>38, <1>39, <1>40, <1>41,
     <1>42
  DEF Next, Recovery, Loop, WorkerStep, Vpp, Client, Failure

-----------------------------------------------------------------------------
(* A journal just created satisfies the strengthening.                     *)
LEMMA InitIInv == Init => IInv
<1> SUFFICES ASSUME Init PROVE IInv
  OBVIOUS
<1>1. TypeOK
  <2>1. [log |-> << >>, head |-> 0, len |-> 0, reqTTL |-> 0, respTTL |-> 0]
          \in Streams
    BY DEF Streams
  <2>2. Absent \in Spools /\ 0 \in 0..MaxFrames
    BY SpoolFacts, Constants
  <2>3. file \in [Keys -> Spools] /\ stream \in [Sids -> Streams]
    BY <2>1, <2>2 DEF Init
  <2>4. /\ size \in [Keys -> 0..MaxFrames] /\ state \in [Keys -> States]
        /\ before \in [Keys -> SUBSET Keys] /\ body \in [Keys -> {Nil}]
    BY <2>2 DEF Init, States
  <2>5. /\ offset \in [Keys -> Nat] /\ effects \in [Keys -> Nat]
        /\ pub \in [Keys -> Nat] /\ lease \in [Sids -> Nat]
        /\ spent \in [Failures -> Nat] /\ now \in Nat /\ avail \in Int
    BY DEF Init
  <2>6. connected \in BOOLEAN /\ lastCleanup \in Nat /\ n \in Nat
    BY DEF Init
  <2> QED
    BY <2>3, <2>4, <2>5, <2>6 DEF Init, TypeOK, PCs
<1>2. Safe
  BY DEF Init, Safe, Referential, Leased, Unsent, Fresh, TodoLive, MainHolds,
         WorkerHolds, RunningHeld, OneRunning, AtMostOnce, ResultHonest,
         Journaled, Absent
<1> QED
  BY <1>1, <1>2 DEF IInv

(* The strengthening is an invariant of the gateway.                       *)
THEOREM Inductive == Spec => []IInv
<1>1. IInv /\ [Next]_vars => IInv'
  BY TypeStep, SafeStep DEF IInv
<1> QED
  BY InitIInv, <1>1, PTL DEF Spec

(* Type correctness: journal, spool, streams and the threads' memory keep  *)
(* their shape through every operation and failure.                        *)
THEOREM TypeCorrect == Spec => []TypeOK
<1>1. IInv => TypeOK
  BY DEF IInv
<1> QED
  BY Inductive, <1>1, PTL

(* No request is carried out twice by VPP, for any number of sessions,     *)
(* requests, re-read entries, crashes and lost Redis replies: the comment  *)
(* on Remove in main.cc.                                                   *)
THEOREM NoSecondExecution == Spec => []AtMostOnce
<1>1. IInv => AtMostOnce
  BY DEF IInv, Safe
<1> QED
  BY Inductive, <1>1, PTL

(* A retained result of a VPP call stands for exactly one execution.       *)
THEOREM ResultsAreHonest == Spec => []ResultHonest
<1>1. IInv => ResultHonest
  BY DEF IInv, Safe
<1> QED
  BY Inductive, <1>1, PTL

(* At most one job is running, across crashes and recoveries.              *)
THEOREM SingleRunningJob == Spec => []OneRunning
<1>1. IInv => OneRunning
  BY DEF IInv, Safe
<1> QED
  BY Inductive, <1>1, PTL

(* Cleanup never deletes the job or the session the worker is serving.     *)
THEOREM WorkerKeepsItsJob == Spec => []ActiveRetained
<1>1. IInv => ActiveRetained
  <2> SUFFICES ASSUME IInv, task # "none" PROVE ActiveRetained
    BY DEF ActiveRetained
  <2>1. active # Nil /\ state[active] = "running"
    BY DEF IInv, Safe, WorkerHolds
  <2>2. active \in Keys
    BY <2>1 DEF IInv, TypeOK
  <2>3. active[1] \in sessions
    BY <2>1, <2>2 DEF IInv, Safe, Referential
  <2> QED
    BY <2>1, <2>3 DEF ActiveRetained
<1> QED
  BY Inductive, <1>1, PTL
=============================================================================
