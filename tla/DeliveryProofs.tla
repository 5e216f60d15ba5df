-------------------------- MODULE DeliveryProofs --------------------------
(***************************************************************************)
(* What the journal and the main thread's loop add to GatewayProofs, for   *)
(* every instance: delivery without gaps, the order of admission, entries  *)
(* that are deleted only once they are handled, and responses that stay.   *)
(*                                                                         *)
(* Then the spool files against the journal: the fatal exits that a        *)
(* missing or short response file would cause are not reached, a gateway   *)
(* that was only ever stopped has nothing to recover, and the retained     *)
(* responses stay within their budgets.                                    *)
(***************************************************************************)
EXTENDS GatewayProofs

(* The strengthening, on top of IInv.                                      *)

(* A frame is published before the offset passes it.                       *)
PublishedAhead == pc = "offset" => offset[<<sid, id>>] < pub[<<sid, id>>]

(* A row only knows rows that still exist as older than itself.            *)
OlderHaveRows == \A k \in Keys : before[k] \subseteq Journaled

(* What cleanup has picked stays expired until it is gone.                 *)
PickedExpired ==
  /\ pc \in {"cleanup", "unlink", "forget"} => \A s \in todo : lease[s] <= now
  /\ pc \in {"unlink", "forget"} => lease[sid] <= now

(* The entry Receive works on, and why it may be deleted.                  *)
EntryHeld ==
  /\ pc \in {"publish", "remove"} => n \in 1..Len(stream[sid].log)
  /\ pc = "remove" => Handled(sid, n)

DInv == /\ IInv /\ NoGap /\ PublishedAhead /\ OlderHaveRows /\ AdmissionOrder
        /\ PickedExpired /\ EntryHeld

-----------------------------------------------------------------------------
(* The worker, VPP, the clients, time, the network and the disk: steps the *)
(* main thread does not take part in.                                      *)
Outside == WorkerStep \/ Vpp \/ Client \/ Tick \/ Disconnect \/ LoseFile \/ WorkerFails

(* They leave the journal and the main thread's position alone.            *)
LEMMA OutsideLeaves ==
  Outside => UNCHANGED <<journal, pc, loop, active, pub, answered>>
<1>1. WorkerStep => UNCHANGED <<journal, pc, loop, active, pub, answered>>
  BY DEF WorkerStep, WorkerRefuses, WorkerDescribes, WorkerSends, WorkerAnswers,
     WorkerGivesUp, Finish, history
<1>2. Vpp => UNCHANGED <<journal, pc, loop, active, pub, answered>>
  BY DEF Vpp, VppApplies, VppRejects, VppActs, history, disk
<1>3. Client => UNCHANGED <<journal, pc, loop, active, pub, answered>>
  BY DEF Client, Send, Acknowledge, history, disk, memory, worker
<1>4. Tick \/ Disconnect => UNCHANGED <<journal, pc, loop, active, pub, answered>>
  BY DEF Tick, Disconnect, history, disk, memory, worker
<1>5. LoseFile \/ WorkerFails => UNCHANGED <<journal, pc, loop, active, pub, answered>>
  BY DEF LoseFile, WorkerFails, history, disk, memory, worker
<1> QED
  BY <1>1, <1>2, <1>3, <1>4, <1>5 DEF Outside

(* The steps of the main thread that leave the jobs alone.                 *)
Passing == \/ Restart \/ RecoverWrites \/ RecoverEnds \/ Connect \/ Reconnect
           \/ ConnectFails \/ Cleanup \/ Unlink \/ DropStreams \/ Register
           \/ ReceiveEnds \/ PublishReply \/ Remove \/ DeliverEnds
           \/ LaunchLocal \/ Submit \/ Crash \/ RecoverDies \/ Stop

(* They change no job, and are followed by no frame's offset.              *)
LEMMA PassingLeaves ==
  Passing => UNCHANGED <<jobs, pub>> /\ pc' # "offset"
<1>1. Restart \/ RecoverWrites \/ RecoverEnds => UNCHANGED <<jobs, pub>> /\ pc' # "offset"
  BY DEF Restart, RecoverWrites, RecoverEnds, history, disk, journal
<1>2. Connect \/ Reconnect \/ ConnectFails => UNCHANGED <<jobs, pub>> /\ pc' # "offset"
  BY DEF Connect, Reconnect, ConnectFails, history, disk, journal
<1>3. Cleanup \/ Unlink \/ DropStreams \/ Register =>
        UNCHANGED <<jobs, pub>> /\ pc' # "offset"
  BY DEF Cleanup, Unlink, DropStreams, Register, history, disk, journal
<1>4. ReceiveEnds \/ PublishReply \/ Remove \/ DeliverEnds =>
        UNCHANGED <<jobs, pub>> /\ pc' # "offset"
  BY DEF ReceiveEnds, PublishReply, Remove, DeliverEnds, KeepEntry, Goto, history, disk,
     journal
<1>5. LaunchLocal \/ Submit \/ Crash \/ RecoverDies \/ Stop =>
        UNCHANGED <<jobs, pub>> /\ pc' # "offset"
  BY DEF LaunchLocal, Submit, Crash, RecoverDies, Stop, Goto, Exit, history, disk, journal
<1> QED
  BY <1>1, <1>2, <1>3, <1>4, <1>5 DEF Passing

(* Every step is one of those, or one that changes jobs.                   *)
LEMMA StepKinds ==
  Next <=> \/ Outside \/ Passing \/ RecoverMarks \/ CompleteWorker \/ Forget \/ Receive
           \/ Deliver \/ StoreOffset \/ StartJob \/ MarkLocal \/ StopEnds
BY DEF Next, Recovery, Loop, Failure, Outside, Passing

(* The job that a step marks as done.                                      *)
LEMMA MarksDone ==
  ASSUME IInv, RecoverMarks \/ CompleteWorker \/ MarkLocal \/ StopEnds
  PROVE  /\ pc' # "offset"
         /\ \/ UNCHANGED <<jobs, pub>>
            \/ \E k \in Keys : MarkDone(k) /\ state[k] \in {"running", "done"}
<1>1. TypeOK /\ MainHolds /\ WorkerHolds
  BY DEF IInv, Safe
<1>2. pc \in {"recovered", "mark"} =>
        /\ <<sid, id>> \in Keys /\ state[<<sid, id>>] \in {"running", "done"}
  BY <1>1, KeyFacts DEF MainHolds
<1>3. task = "ready" => active \in Keys /\ state[active] \in {"running", "done"}
  BY <1>1 DEF WorkerHolds, TypeOK
<1> QED
  BY <1>2, <1>3 DEF RecoverMarks, CompleteWorker, MarkLocal, StopEnds, Collect, Goto, Exit

(* Receive changes jobs in two ways.                                       *)
LEMMA ReceiveJobs ==
  ASSUME IInv, Receive
  PROVE  /\ pc = "receive" /\ pc' \in {"receive", "publish", "remove"}
         /\ \/ UNCHANGED <<jobs, pub>>
            \/ \E k \in Keys : \/ state[k] = "none" /\ (\E m \in Messages : Insert(k, m))
                               \/ Rewind(k) /\ UNCHANGED <<state, body, before, size>>
<1>1. TypeOK
  BY DEF IInv
<1>2. PICK s \in todo :
        \/ Read(s)
        \/ UNCHANGED <<stream, jobs, pc, sid, n, connected, spent, pub>>
  BY DEF Receive
<1>3. CASE Read(s)
  <2> DEFINE m == stream[s].log[stream[s].head + 1]
  <2>1. s \in Sids
    BY <1>1 DEF TypeOK
  <2>2. m \in Messages /\ <<s, m.id>> \in Keys
    BY <1>1, <1>3, <2>1, EntryType DEF Read
  <2>3. Verdict(s, m) = "rewind" => m.arg # Nil
    BY DEF Verdict
  <2>4. m.arg # Nil => <<s, m.arg>> \in Keys
    BY <2>1, <2>2, Constants, KeyFacts
  <2>5. pc' \in {"publish", "remove"} /\
        \/ Verdict(s, m) = "admit" /\ Insert(<<s, m.id>>, m)
        \/ Verdict(s, m) = "rewind" /\ Rewind(<<s, m.arg>>)
              /\ UNCHANGED <<state, body, before, size>>
        \/ UNCHANGED <<jobs, pub>>
    BY <1>3 DEF Read
  <2>6. Verdict(s, m) = "admit" => state[<<s, m.id>>] = "none"
    BY AdmitFresh
  <2> HIDE DEF m
  <2> QED
    BY <2>2, <2>3, <2>4, <2>5, <2>6 DEF Receive
<1> QED
  BY <1>2, <1>3 DEF Receive

-----------------------------------------------------------------------------
(* Delivery.                                                               *)
LEMMA GapStep ==
  ASSUME DInv, TypeOK', [Next]_vars
  PROVE  NoGap' /\ PublishedAhead'
<1>0. TypeOK /\ IInv /\ MainHolds /\ NoGap /\ PublishedAhead
  BY DEF DInv, IInv, Safe
<1>1. CASE Outside \/ UNCHANGED vars
  <2>1. UNCHANGED <<offset, pub, pc, sid, id>>
    BY <1>1, OutsideLeaves DEF vars, journal, jobs, loop, locals, disk, memory, history
  <2> QED
    BY <1>0, <2>1 DEF NoGap, PublishedAhead
<1>2. CASE Passing
  <2>1. UNCHANGED <<offset, pub>> /\ pc' # "offset"
    BY <1>2, PassingLeaves DEF jobs
  <2> QED
    BY <1>0, <2>1 DEF NoGap, PublishedAhead
<1>3. ASSUME NEW k \in Keys, Rewind(k), pc' # "offset" PROVE NoGap' /\ PublishedAhead'
  <2>1. /\ offset'[k] = 0 /\ pub'[k] = 0
        /\ \A j \in Keys \ {k} : offset'[j] = offset[j] /\ pub'[j] = pub[j]
    BY <1>0, <1>3 DEF Rewind, TypeOK
  <2> QED
    BY <1>0, <1>3, <2>1 DEF NoGap, PublishedAhead
<1>4. CASE UNCHANGED <<jobs, pub>> /\ pc' # "offset"
  BY <1>0, <1>4 DEF NoGap, PublishedAhead, jobs
<1>5. CASE RecoverMarks \/ CompleteWorker \/ MarkLocal \/ StopEnds
  BY <1>0, <1>3, <1>4, <1>5, MarksDone DEF MarkDone
<1>6. CASE Receive
  <2>1. \A k \in Keys, m \in Messages : Insert(k, m) => UNCHANGED <<offset, pub>>
    BY DEF Insert
  <2> QED
    BY <1>0, <1>3, <1>4, <1>6, <2>1, ReceiveJobs DEF NoGap, PublishedAhead
<1>7. CASE Forget
  <2>1. /\ pc' = "cleanup"
        /\ \A k \in Keys : \/ offset'[k] = 0 /\ pub'[k] = 0
                           \/ offset'[k] = offset[k] /\ pub'[k] = pub[k]
    BY <1>7 DEF Forget, Goto
  <2> QED
    BY <1>0, <2>1 DEF NoGap, PublishedAhead
<1>8. CASE StartJob
  BY <1>0, <1>8 DEF StartJob, NoGap, PublishedAhead, history
<1>9. CASE StoreOffset
  <2> DEFINE k == <<sid, id>>
  <2>1. /\ k \in Keys /\ pc = "offset" /\ pc' = "deliver" /\ UNCHANGED pub
        /\ offset' = [offset EXCEPT ![k] = offset[k] + 1]
    BY <1>0, <1>9, KeyFacts DEF StoreOffset, Goto, NextOffset, MainHolds, history
  <2>2. offset[k] < pub[k]
    BY <1>0, <2>1 DEF PublishedAhead
  <2> HIDE DEF k
  <2>3. /\ offset'[k] = offset[k] + 1 /\ offset[k] \in Nat /\ pub[k] \in Nat
        /\ \A j \in Keys \ {k} : offset'[j] = offset[j]
    BY <1>0, <2>1 DEF TypeOK
  <2> QED
    BY <1>0, <2>1, <2>2, <2>3 DEF NoGap, PublishedAhead
<1>10. CASE Deliver
  <2>1. UNCHANGED offset /\ pc = "deliver"
    BY <1>10 DEF Deliver, disk, journal, jobs
  <2>2. PICK s \in todo :
          \/ \E k \in Keys : k[1] = s /\ DeliverOne(s, k)
          \/ UNCHANGED <<pc, pub>>
    BY <1>10 DEF Deliver, IsFirst, Undelivered
  <2>3. ASSUME NEW k \in Keys, k[1] = s, DeliverOne(s, k)
        PROVE  NoGap' /\ PublishedAhead'
    <3>1. CASE UNCHANGED pub /\ pc' # "offset"
      BY <1>0, <2>1, <3>1 DEF NoGap, PublishedAhead
    <3>2. CASE /\ pub' = [pub EXCEPT ![k] = IF @ = offset[k] THEN @ + 1 ELSE @]
               /\ \/ pc' = "offset" /\ sid' = s /\ id' = k[2]
                  \/ UNCHANGED <<pc, sid, id>>
      <4>1. /\ offset[k] \in Nat /\ pub[k] \in Nat /\ offset[k] <= pub[k]
            /\ pub'[k] = IF pub[k] = offset[k] THEN pub[k] + 1 ELSE pub[k]
            /\ \A j \in Keys \ {k} : pub'[j] = pub[j]
        BY <1>0, <3>2 DEF TypeOK, NoGap
      <4>2. offset[k] < pub'[k] /\ offset[k] <= pub'[k]
        BY <4>1
      <4>3. pc' = "offset" => <<sid', id'>> = k
        BY <2>1, <2>3, <3>2, KeyFacts
      <4> QED
        BY <1>0, <2>1, <4>1, <4>2, <4>3 DEF NoGap, PublishedAhead
    <3> QED
      BY <2>1, <2>3, <3>1, <3>2 DEF DeliverOne, Exit
  <2>4. CASE UNCHANGED <<pc, pub>>
    BY <1>0, <2>1, <2>4 DEF NoGap, PublishedAhead
  <2> QED
    BY <2>2, <2>3, <2>4
<1> QED
  BY <1>1, <1>2, <1>5, <1>6, <1>7, <1>8, <1>9, <1>10, StepKinds

-----------------------------------------------------------------------------
(* The order of admission.                                                 *)
LEMMA OrderStep ==
  ASSUME DInv, TypeOK', [Next]_vars
  PROVE  OlderHaveRows' /\ AdmissionOrder'
<1>0. TypeOK /\ IInv /\ OlderHaveRows /\ AdmissionOrder
  BY DEF DInv, IInv
<1>1. CASE UNCHANGED <<state, before>>
  BY <1>0, <1>1 DEF OlderHaveRows, AdmissionOrder, Journaled
<1>2. CASE Outside \/ UNCHANGED vars
  BY <1>1, <1>2, OutsideLeaves DEF vars, disk, journal, jobs
<1>3. CASE Passing
  BY <1>1, <1>3, PassingLeaves DEF jobs
<1>4. ASSUME NEW k \in Keys, MarkDone(k), state[k] \in {"running", "done"}
      PROVE  OlderHaveRows' /\ AdmissionOrder'
  <2>1. /\ state'[k] = "done" /\ UNCHANGED before
        /\ \A j \in Keys \ {k} : state'[j] = state[j]
    BY <1>0, <1>4 DEF MarkDone, TypeOK
  <2>2. \A j \in Keys : state[j] # "none" => state'[j] # "none"
    BY <2>1
  <2>3. OlderHaveRows'
    BY <1>0, <2>1, <2>2 DEF OlderHaveRows, Journaled
  <2>4. \A l \in Keys : \A j \in before[l] : state'[j] = "queued" => state'[l] = "queued"
    <3> SUFFICES ASSUME NEW l \in Keys, NEW j \in before[l], state'[j] = "queued"
                 PROVE  state'[l] = "queued"
      OBVIOUS
    <3>1. j \in Keys /\ j # k /\ state[j] = "queued"
      BY <1>0, <2>1 DEF TypeOK
    <3>2. state[l] = "queued"
      BY <1>0, <3>1 DEF AdmissionOrder
    <3>3. l # k
      BY <1>4, <3>2
    <3> QED
      BY <2>1, <3>2, <3>3
  <2> QED
    BY <2>1, <2>3, <2>4 DEF AdmissionOrder
<1>5. CASE RecoverMarks \/ CompleteWorker \/ MarkLocal \/ StopEnds
  BY <1>0, <1>1, <1>4, <1>5, MarksDone DEF jobs
<1>6. ASSUME NEW k \in Keys, NEW m \in Messages, Insert(k, m), state[k] = "none"
      PROVE  OlderHaveRows' /\ AdmissionOrder'
  <2>1. /\ state'[k] = "queued" /\ before'[k] = Journaled
        /\ \A j \in Keys \ {k} : state'[j] = state[j] /\ before'[j] = before[j]
    BY <1>0, <1>6 DEF Insert, TypeOK
  <2>2. \A j \in Keys : state[j] # "none" => state'[j] # "none"
    BY <2>1
  <2>3. OlderHaveRows'
    BY <1>0, <2>1, <2>2 DEF OlderHaveRows, Journaled
  <2>4. \A l \in Keys : \A j \in before'[l] : state'[j] = "queued" => state'[l] = "queued"
    <3> SUFFICES ASSUME NEW l \in Keys, NEW j \in before'[l], state'[j] = "queued", l # k
                 PROVE  state'[l] = "queued"
      BY <2>1
    <3>1. j \in before[l] /\ j \in Keys /\ state[j] # "none"
      BY <1>0, <2>1 DEF OlderHaveRows, Journaled
    <3>2. j # k
      BY <1>6, <3>1
    <3> QED
      BY <1>0, <2>1, <3>1, <3>2 DEF AdmissionOrder
  <2> QED
    BY <2>3, <2>4 DEF AdmissionOrder
<1>7. CASE Receive
  BY <1>0, <1>1, <1>6, <1>7, ReceiveJobs DEF jobs
<1>8. CASE Forget
  <2> DEFINE gone == {sid} \X Ids
  <2>1. \A k \in Keys : /\ state'[k] = IF k \in gone THEN "none" ELSE state[k]
                        /\ before'[k] = IF k \in gone THEN {} ELSE before[k] \ gone
    BY <1>8 DEF Forget
  <2> HIDE DEF gone
  <2>2. OlderHaveRows'
    BY <1>0, <2>1 DEF OlderHaveRows, Journaled
  <2>3. \A k \in Keys : before[k] \subseteq Keys
    BY <1>0 DEF TypeOK
  <2> QED
    BY <1>0, <2>1, <2>2, <2>3 DEF AdmissionOrder
<1>9. CASE StartJob
  <2>1. UNCHANGED before
    BY <1>9 DEF StartJob
  <2>2. ASSUME NEW k \in Keys, IsFirst(k, Queued), state' = [state EXCEPT ![k] = "running"]
        PROVE  OlderHaveRows' /\ AdmissionOrder'
    <3>1. /\ state[k] = "queued" /\ before[k] \cap Queued = {} /\ state'[k] = "running"
          /\ \A j \in Keys \ {k} : state'[j] = state[j]
      BY <1>0, <2>2 DEF IsFirst, Queued, TypeOK
    <3>2. OlderHaveRows'
      BY <1>0, <2>1, <3>1 DEF OlderHaveRows, Journaled
    <3>3. \A l \in Keys : \A j \in before[l] : state'[j] = "queued" => state'[l] = "queued"
      <4> SUFFICES ASSUME NEW l \in Keys, NEW j \in before[l], state'[j] = "queued"
                   PROVE  state'[l] = "queued"
        OBVIOUS
      <4>1. j \in Keys /\ j # k /\ state[j] = "queued"
        BY <1>0, <3>1 DEF TypeOK
      <4>2. state[l] = "queued" /\ l # k
        BY <1>0, <3>1, <4>1 DEF AdmissionOrder, Queued
      <4> QED
        BY <3>1, <4>2
    <3> QED
      BY <2>1, <3>2, <3>3 DEF AdmissionOrder
  <2> QED
    BY <1>1, <1>9, <2>1, <2>2 DEF StartJob
<1>10. CASE StoreOffset \/ Deliver
  BY <1>1, <1>10 DEF StoreOffset, Deliver, disk, journal, jobs
<1> QED
  BY <1>2, <1>3, <1>5, <1>7, <1>8, <1>9, <1>10, StepKinds

-----------------------------------------------------------------------------
(* Cleanup.                                                                *)
LEMMA PickedStep ==
  ASSUME DInv, TypeOK', [Next]_vars
  PROVE  PickedExpired'
<1>0. TypeOK /\ IInv /\ PickedExpired /\ MainHolds
  BY DEF DInv, IInv, Safe
<1>1. CASE UNCHANGED <<pc, todo, sid, lease>> /\ now <= now'
  <2>1. now \in Nat /\ now' \in Nat /\ \A s \in Sids : lease[s] \in Nat
    BY <1>0 DEF TypeOK
  <2>2. \A s \in Sids : lease[s] <= now => lease'[s] <= now'
    BY <1>1, <2>1
  <2>3. \A s \in todo : s \in Sids
    BY <1>0 DEF TypeOK
  <2>4. pc \in {"unlink", "forget"} => sid \in Sids
    BY <1>0 DEF MainHolds
  <2> QED
    BY <1>0, <1>1, <2>2, <2>3, <2>4 DEF PickedExpired
<1>2. CASE pc' \notin {"cleanup", "unlink", "forget"}
  BY <1>2 DEF PickedExpired
<1>3. CASE Outside \/ UNCHANGED vars
  <2>1. UNCHANGED <<pc, todo, sid, lease>>
    BY <1>3, OutsideLeaves DEF vars, disk, journal, memory, loop, locals
  <2>2. UNCHANGED now \/ now' = now + 1
    BY <1>3 DEF Outside, WorkerStep, WorkerRefuses, WorkerDescribes, WorkerSends,
       WorkerAnswers, WorkerGivesUp, Finish, Vpp, VppApplies, VppRejects, VppActs, Client,
       Send, Acknowledge, Tick, Disconnect, LoseFile, WorkerFails, vars
  <2>3. now <= now'
    BY <1>0, <2>2 DEF TypeOK
  <2> QED
    BY <1>1, <2>1, <2>3
<1>4. CASE Connect
  <2>1. UNCHANGED <<lease, now>> /\ \/ pc' = "register"
                                    \/ pc' = "cleanup" /\ todo' = {s \in sessions : lease[s] <= now}
    BY <1>4 DEF Connect, disk, journal
  <2> QED
    BY <1>2, <2>1 DEF PickedExpired
<1>5. CASE Cleanup
  <2>1. /\ pc = "cleanup" /\ UNCHANGED <<lease, now>>
        /\ \/ pc' = "register"
           \/ /\ pc' \in {"cleanup", "unlink"} /\ todo' \subseteq todo
              /\ (pc' = "unlink" => sid' \in todo)
    BY <1>5 DEF Cleanup, disk, journal
  <2> QED
    BY <1>0, <2>1 DEF PickedExpired
<1>6. CASE Unlink \/ DropStreams \/ Forget
  <2>1. /\ pc \in {"unlink", "forget"} /\ UNCHANGED <<todo, lease, now>>
        /\ (pc' = "cleanup" \/ UNCHANGED sid)
    BY <1>6 DEF Unlink, DropStreams, Forget, Goto, disk, journal, memory, loop, locals
  <2> QED
    BY <1>0, <2>1 DEF PickedExpired
<1>7. CASE \/ Restart \/ RecoverWrites \/ RecoverEnds \/ Reconnect \/ ConnectFails
           \/ Register \/ ReceiveEnds \/ PublishReply \/ Remove \/ DeliverEnds
           \/ LaunchLocal \/ Submit \/ Crash \/ RecoverDies \/ Stop
  BY <1>2, <1>7 DEF Restart, RecoverWrites, RecoverEnds, Reconnect, ConnectFails, Register,
     ReceiveEnds, PublishReply, Remove, DeliverEnds, LaunchLocal, Submit, Crash,
     RecoverDies, Stop,
     KeepEntry, Goto, Exit
<1>8. CASE \/ RecoverMarks \/ CompleteWorker \/ MarkLocal \/ StopEnds \/ Deliver
           \/ StoreOffset \/ StartJob
  BY <1>2, <1>8 DEF RecoverMarks, CompleteWorker, MarkLocal, StopEnds, Deliver, DeliverOne,
     StoreOffset, StartJob, Goto, Exit
<1>9. CASE Receive
  BY <1>0, <1>2, <1>9, ReceiveJobs
<1> QED
  BY <1>3, <1>4, <1>5, <1>6, <1>7, <1>8, <1>9, StepKinds DEF Passing

-----------------------------------------------------------------------------
(* Receive.  What was read, journaled or answered stays so until the entry *)
(* is deleted, with a job per row as the only journal change in between.   *)

(* A stream keeps every entry that was ever appended, at its place.        *)
LEMMA LogGrows ==
  ASSUME TypeOK, [Next]_vars, NEW s \in Sids, NEW i \in 1..Len(stream[s].log)
  PROVE  i \in 1..Len(stream'[s].log) /\ stream'[s].log[i] = stream[s].log[i]
<1>0. /\ stream[s] \in Streams /\ stream[s].log \in Seq(Messages)
      /\ DOMAIN stream = Sids
  BY StreamFacts DEF TypeOK
<1>1. CASE stream'[s].log = stream[s].log
  BY <1>1
<1>2. CASE UNCHANGED stream
  BY <1>1, <1>2
<1>3. CASE Send
  <2>1. PICK t \in Sids, m \in Messages :
          stream' = [stream EXCEPT ![t].log = Append(@, m)]
    BY <1>3 DEF Send
  <2>2. CASE t = s
    <3>1. stream'[s].log = Append(stream[s].log, m)
      BY <1>0, <2>1, <2>2 DEF Streams
    <3> QED
      BY <1>0, <3>1
  <2>3. CASE t # s
    BY <1>0, <1>1, <2>1, <2>3
  <2> QED
    BY <2>2, <2>3
<1>4. ASSUME NEW t, stream' = [stream EXCEPT ![t] = Published(@)]
      PROVE  stream'[s].log = stream[s].log
  BY <1>0, <1>4 DEF Published, Streams
<1>5. ASSUME NEW t, stream' = [stream EXCEPT ![t] = Dropped(@)]
      PROVE  stream'[s].log = stream[s].log
  BY <1>0, <1>5 DEF Dropped, Streams
<1>6. CASE Tick
  BY <1>0, <1>1, <1>6 DEF Tick, Aged, Streams
<1>7. CASE \E t \in Sids : Acknowledge(t)
  BY <1>0, <1>1, <1>7 DEF Acknowledge, Streams
<1>8. CASE Receive
  <2>1. \/ UNCHANGED stream
        \/ \E t \in todo : stream' = [stream EXCEPT ![t].reqTTL = now + LeaseTime]
    BY <1>8 DEF Receive, Read
  <2> QED
    BY <1>0, <1>1, <2>1 DEF Streams
<1>9. CASE PublishReply \/ Deliver
  BY <1>1, <1>2, <1>4, <1>9 DEF PublishReply, Deliver, DeliverOne, Publish
<1>10. CASE DropStreams
  BY <1>1, <1>2, <1>5, <1>10 DEF DropStreams
<1>11. CASE Remove
  <2>1. UNCHANGED stream \/ Xdel(sid, n)
    BY <1>11 DEF Remove
  <2> QED
    BY <1>0, <1>1, <2>1 DEF Xdel, Streams
<1>12. CASE \/ WorkerStep \/ Vpp \/ Disconnect \/ LoseFile \/ WorkerFails
            \/ UNCHANGED vars
  BY <1>2, <1>12 DEF WorkerStep, WorkerRefuses, WorkerDescribes, WorkerSends, WorkerAnswers,
     WorkerGivesUp, Finish, Vpp, VppApplies, VppRejects, VppActs, Disconnect, LoseFile,
     WorkerFails, vars
<1>13. CASE \/ Restart \/ RecoverWrites \/ RecoverEnds \/ Connect \/ Reconnect
            \/ ConnectFails \/ Cleanup \/ Unlink \/ Register \/ ReceiveEnds \/ DeliverEnds
            \/ LaunchLocal \/ Submit \/ Crash \/ RecoverDies \/ Stop
  BY <1>2, <1>13 DEF Restart, RecoverWrites, RecoverEnds, Connect, Reconnect, ConnectFails,
     Cleanup, Unlink, Register, ReceiveEnds, DeliverEnds, LaunchLocal, Submit, Crash,
     RecoverDies, Stop
<1>14. CASE \/ RecoverMarks \/ CompleteWorker \/ Forget \/ StoreOffset \/ StartJob
            \/ MarkLocal \/ StopEnds
  BY <1>2, <1>14 DEF RecoverMarks, CompleteWorker, Forget, StoreOffset, StartJob, MarkLocal,
     StopEnds
<1> QED
  BY <1>3, <1>6, <1>7, <1>8, <1>9, <1>10, <1>11, <1>12, <1>13, <1>14, StepKinds
  DEF Outside, Passing, Client

(* An entry that Read does not answer has, or gets, a row to show for it.  *)
LEMMA ReadHandles ==
  ASSUME TypeOK, TypeOK', NEW s \in Sids, Read(s), pc' # "publish",
         NEW m, m = stream[s].log[stream[s].head + 1]
  PROVE  \/ state'[<<s, m.id>>] # "none" /\ body'[<<s, m.id>>] = m
         \/ m.method = "replay" /\ m.arg # Nil /\ state'[<<s, m.arg>>] # "none"
<1>1. m \in Messages /\ <<s, m.id>> \in Keys /\ (m.arg # Nil => <<s, m.arg>> \in Keys)
  BY EntryType, Constants, KeyFacts DEF Read
<1>2. /\ Verdict(s, m) # "answer"
      /\ \/ Verdict(s, m) = "admit" /\ Insert(<<s, m.id>>, m)
         \/ Verdict(s, m) = "rewind" /\ UNCHANGED <<state, body>>
         \/ Verdict(s, m) \notin {"admit", "rewind"} /\ UNCHANGED <<state, body>>
  BY DEF Read, jobs
<1>3. CASE Insert(<<s, m.id>>, m)
  BY <1>1, <1>3 DEF Insert, TypeOK
<1>4. CASE Verdict(s, m) # "admit" /\ UNCHANGED <<state, body>>
  <2>1. \/ state[<<s, m.id>>] # "none" /\ body[<<s, m.id>>] = m
        \/ m.method = "replay" /\ m.arg # Nil /\ state[<<s, m.arg>>] # "none"
    BY <1>2, <1>4 DEF Verdict
  <2> QED
    BY <1>4, <2>1
<1> QED
  BY <1>2, <1>3, <1>4

(* Every step keeps the entry at hand, and the reason to delete it.        *)
LEMMA EntryStep ==
  ASSUME DInv, TypeOK', [Next]_vars
  PROVE  EntryHeld'
<1>0. TypeOK /\ IInv /\ EntryHeld /\ MainHolds
  BY DEF DInv, IInv, Safe
<1>1. pc \in {"publish", "remove"} =>
        /\ sid \in Sids /\ n \in 1..Len(stream[sid].log)
        /\ n \in 1..Len(stream'[sid].log) /\ stream'[sid].log[n] = stream[sid].log[n]
  BY <1>0, LogGrows DEF MainHolds, EntryHeld
<1>2. CASE pc' \notin {"publish", "remove"}
  BY <1>2 DEF EntryHeld
<1>3. CASE Outside \/ UNCHANGED vars
  <2>1. UNCHANGED <<pc, sid, n, state, body, answered>>
    BY <1>3, OutsideLeaves DEF vars, disk, journal, jobs, memory, loop, locals, history
  <2> QED
    BY <1>0, <1>1, <2>1 DEF EntryHeld, Handled
<1>4. CASE Receive
  <2>1. PICK s \in todo : Read(s) \/ pc' = "receive"
    BY <1>4 DEF Receive
  <2>2. CASE Read(s)
    <3> DEFINE i == stream[s].head + 1
               m == stream[s].log[i]
    <3>1. s \in Sids /\ stream[s] \in Streams
      BY <1>0 DEF TypeOK
    <3>2. i \in 1..Len(stream[s].log)
      BY <2>2, <3>1, StreamFacts DEF Read
    <3>3. i \in 1..Len(stream'[s].log) /\ stream'[s].log[i] = m
      BY <1>0, <3>1, <3>2, LogGrows
    <3>4. sid' = s /\ n' = i
      BY <2>2 DEF Read
    <3>5. pc' = "remove" =>
            \/ state'[<<s, m.id>>] # "none" /\ body'[<<s, m.id>>] = m
            \/ m.method = "replay" /\ m.arg # Nil /\ state'[<<s, m.arg>>] # "none"
      BY <1>0, <2>2, <3>1, ReadHandles
    <3> HIDE DEF i, m
    <3> QED
      BY <3>3, <3>4, <3>5 DEF EntryHeld, Handled
  <2> QED
    BY <1>2, <2>1, <2>2
<1>5. CASE PublishReply
  <2>1. \/ pc' = "receive"
        \/ /\ pc = "publish" /\ pc' = "remove" /\ UNCHANGED <<sid, n>>
           /\ answered' = answered \cup {<<sid, n>>}
    BY <1>5 DEF PublishReply, KeepEntry, Goto, locals
  <2> QED
    BY <1>1, <2>1 DEF EntryHeld, Handled
<1>6. CASE \/ Restart \/ RecoverWrites \/ RecoverEnds \/ Connect \/ Reconnect
           \/ ConnectFails \/ Cleanup \/ Unlink \/ DropStreams \/ Register \/ ReceiveEnds
           \/ Remove \/ DeliverEnds \/ LaunchLocal \/ Submit \/ Crash \/ RecoverDies \/ Stop
  BY <1>2, <1>6 DEF Restart, RecoverWrites, RecoverEnds, Connect, Reconnect, ConnectFails,
     Cleanup, Unlink, DropStreams, Register, ReceiveEnds, Remove, DeliverEnds, LaunchLocal,
     Submit, Crash, RecoverDies, Stop, Goto, Exit
<1>7. CASE \/ RecoverMarks \/ CompleteWorker \/ Forget \/ MarkLocal \/ StopEnds \/ Deliver
           \/ StoreOffset \/ StartJob
  BY <1>2, <1>7 DEF RecoverMarks, CompleteWorker, Forget, MarkLocal, StopEnds, Deliver,
     DeliverOne, StoreOffset, StartJob, Goto, Exit
<1> QED
  BY <1>3, <1>4, <1>5, <1>6, <1>7, StepKinds DEF Passing

-----------------------------------------------------------------------------
(* The inductive invariant and what follows from it.                       *)

(* It holds initially.                                                     *)
LEMMA InitDInv == Init => DInv
<1> SUFFICES ASSUME Init PROVE DInv
  OBVIOUS
<1>1. IInv
  BY InitIInv
<1>2. /\ pc = "recover" /\ before = [k \in Keys |-> {}]
      /\ offset = [k \in Keys |-> 0] /\ pub = [k \in Keys |-> 0]
  BY DEF Init
<1> QED
  BY <1>1, <1>2 DEF DInv, NoGap, PublishedAhead, OlderHaveRows, AdmissionOrder,
     PickedExpired, EntryHeld

(* DInv is inductive.                                                      *)
LEMMA StepDInv == DInv /\ [Next]_vars => DInv'
<1> SUFFICES ASSUME DInv, [Next]_vars PROVE DInv'
  OBVIOUS
<1>1. TypeOK' /\ Safe'
  BY TypeStep, SafeStep DEF DInv
<1> QED
  BY <1>1, GapStep, OrderStep, PickedStep, EntryStep DEF DInv, IInv

(* Every reachable state of Spec satisfies DInv.                           *)
THEOREM DeliveryInductive == Spec => []DInv
BY InitDInv, StepDInv, PTL DEF Spec

(* Deliver: the stored offset of a response never passes a frame that was  *)
(* not handed to Redis since its delivery last began, whatever crashes     *)
(* between the publication and the UPDATE, lost replies, replays and       *)
(* recovery do: a client never misses a frame.                             *)
THEOREM DeliveryHasNoGap == Spec => []NoGap
BY DeliveryInductive, PTL DEF DInv

(* StartJob: of two journaled jobs the younger is never past the queue     *)
(* while the older still waits in it, over all sessions, restarts and      *)
(* deletions.                                                              *)
THEOREM JobsLeaveInOrder == Spec => []AdmissionOrder
BY DeliveryInductive, PTL DEF DInv

-----------------------------------------------------------------------------
(* Deleting an entry: of the steps that may happen while the main thread   *)
(* is about to send XDEL, only the XDEL itself and a TTL remove entries.   *)
LEMMA RemovalStep ==
  ASSUME DInv, [Next]_vars, NEW s \in Sids,
         pc = "remove", now' = now, stream'[s].head # stream[s].head
  PROVE  Handled(s, stream[s].head + 1)
<1>0. /\ TypeOK /\ EntryHeld /\ stream[s] \in Streams /\ stream[s].head \in Nat
      /\ DOMAIN stream = Sids
  BY StreamFacts DEF DInv, IInv, TypeOK
<1>1. ~UNCHANGED stream
  OBVIOUS
<1>2. CASE Remove
  <2>1. Xdel(sid, n) /\ n \in 1..Len(stream[sid].log) /\ Handled(sid, n)
    BY <1>0, <1>1, <1>2 DEF Remove, EntryHeld
  <2>2. stream'[s].head = stream[s].head \/ (s = sid /\ stream[s].head = n - 1)
    BY <1>0, <2>1 DEF Xdel, Streams
  <2>3. s = sid /\ stream[s].head + 1 = n
    BY <1>0, <2>1, <2>2
  <2> QED
    BY <2>1, <2>3
<1>3. CASE Client
  <2>1. stream'[s].head = stream[s].head
    BY <1>0, <1>3 DEF Client, Send, Acknowledge, Streams
  <2> QED
    BY <2>1
<1>4. CASE Tick
  BY <1>0, <1>4 DEF Tick, TypeOK
<1>5. CASE \/ WorkerStep \/ Vpp \/ Disconnect \/ LoseFile \/ WorkerFails \/ Crash
           \/ RecoverDies \/ UNCHANGED vars
  BY <1>1, <1>5 DEF WorkerStep, WorkerRefuses, WorkerDescribes, WorkerSends, WorkerAnswers,
     WorkerGivesUp, Finish, Vpp, VppApplies, VppRejects, VppActs, Disconnect, LoseFile,
     WorkerFails, Crash, RecoverDies, vars
<1>6. ~\/ Restart \/ RecoverWrites \/ RecoverEnds \/ Connect \/ Reconnect \/ ConnectFails
       \/ Cleanup \/ Unlink \/ DropStreams \/ Register \/ ReceiveEnds \/ PublishReply
       \/ DeliverEnds \/ LaunchLocal \/ Submit \/ Stop
  BY DEF Restart, RecoverWrites, RecoverEnds, Connect, Reconnect, ConnectFails, Cleanup,
     Unlink, DropStreams, Register, ReceiveEnds, PublishReply, DeliverEnds, LaunchLocal,
     Submit, Stop
<1>7. ~\/ RecoverMarks \/ CompleteWorker \/ Forget \/ Receive \/ Deliver \/ StoreOffset
       \/ StartJob \/ MarkLocal \/ StopEnds
  BY DEF RecoverMarks, CompleteWorker, Forget, Receive, Deliver, StoreOffset, StartJob,
     MarkLocal, StopEnds
<1> QED
  BY <1>2, <1>3, <1>4, <1>5, <1>6, <1>7, StepKinds DEF Outside, Passing

(* Receive deletes an entry of a request stream only once the request is   *)
(* journaled, was answered, or replays a retained job: no interleaving of  *)
(* clients, faults and crashes loses a request that was not handled.       *)
THEOREM NoRequestIsLost == Spec => RemovedOnlyIfHandled
<1>1. DInv /\ [Next]_vars =>
        [\A s \in Sids :
           pc = "remove" /\ now' = now /\ stream'[s].head # stream[s].head
             => Handled(s, stream[s].head + 1)]_vars
  BY RemovalStep
<1> QED
  BY <1>1, DeliveryInductive, PTL DEF RemovedOnlyIfHandled, Spec

-----------------------------------------------------------------------------
(* Responses stay: who may write or unlink a spool file.                   *)
LEMMA StableStep ==
  ASSUME DInv, [Next]_vars, NEW k \in Keys, state[k] = "done", lease[k[1]] > now,
         file[k].out # "absent", spent'["loss"] = spent["loss"]
  PROVE  file'[k] = file[k]
<1>0. /\ TypeOK /\ MainHolds /\ WorkerHolds /\ PickedExpired
      /\ DOMAIN file = Keys /\ now \in Nat /\ lease[k[1]] \in Nat
  BY KeyFacts DEF DInv, IInv, Safe, TypeOK
<1>1. CASE UNCHANGED file
  BY <1>1
<1>2. ASSUME NEW j, NEW f, Write(j, f), j # k PROVE file'[k] = file[k]
  BY <1>0, <1>2 DEF Write
<1>3. CASE WorkerStep
  <2>1. /\ task \in {"queued", "sent"}
        /\ \E f : Write(active, f)
    BY <1>3 DEF WorkerStep, WorkerRefuses, WorkerDescribes, WorkerSends, WorkerAnswers,
       WorkerGivesUp, Finish
  <2>2. active # k
    BY <1>0, <2>1 DEF WorkerHolds
  <2> QED
    BY <1>2, <2>1, <2>2
<1>4. CASE RecoverWrites \/ RecoverDies
  <2>1. PICK j \in Keys : NeedsRecovery(j) /\ \E f : Write(j, f)
    BY <1>4 DEF RecoverWrites, RecoverDies
  <2>2. j # k
    BY <2>1 DEF NeedsRecovery
  <2> QED
    BY <1>2, <2>1, <2>2
<1>5. CASE Unlink
  <2>1. PICK j \in JobsOf(sid) : Write(j, Absent)
    BY <1>5 DEF Unlink
  <2>2. lease[sid] <= now
    BY <1>0, <1>5 DEF Unlink, PickedExpired
  <2>3. j # k
    BY <1>0, <2>1, <2>2 DEF JobsOf
  <2> QED
    BY <1>2, <2>1, <2>3
<1>6. CASE LaunchLocal
  <2>1. pc = "launch" /\ \E f : Write(<<sid, id>>, f)
    BY <1>6 DEF LaunchLocal
  <2>2. <<sid, id>> # k
    BY <1>0, <2>1 DEF MainHolds
  <2> QED
    BY <1>2, <2>1, <2>2
<1>7. CASE LoseFile
  <2>1. spent'["loss"] = spent["loss"] + 1 /\ spent["loss"] \in Nat
    BY <1>0, <1>7 DEF LoseFile, Spend, TypeOK, Failures
  <2> QED
    BY <2>1
<1>8. CASE Vpp \/ Client \/ Tick \/ Disconnect \/ WorkerFails \/ UNCHANGED vars
  BY <1>1, <1>8 DEF Vpp, VppApplies, VppRejects, VppActs, Client, Send, Acknowledge, Tick,
     Disconnect, WorkerFails, vars, disk
<1>9. CASE \/ Restart \/ RecoverEnds \/ Connect \/ Reconnect \/ ConnectFails \/ Cleanup
           \/ DropStreams \/ Register \/ ReceiveEnds \/ PublishReply \/ Remove
           \/ DeliverEnds \/ Submit \/ Crash \/ Stop
  BY <1>1, <1>9 DEF Restart, RecoverEnds, Connect, Reconnect, ConnectFails, Cleanup,
     DropStreams, Register, ReceiveEnds, PublishReply, Remove, DeliverEnds, Submit, Crash,
     Stop, disk
<1>10. CASE \/ RecoverMarks \/ CompleteWorker \/ Forget \/ Receive \/ Deliver
            \/ StoreOffset \/ StartJob \/ MarkLocal \/ StopEnds
  BY <1>1, <1>10 DEF RecoverMarks, CompleteWorker, Forget, Receive, Deliver, StoreOffset,
     StartJob, MarkLocal, StopEnds, disk
<1> QED
  BY <1>3, <1>4, <1>5, <1>6, <1>7, <1>8, <1>9, <1>10, StepKinds DEF Outside, Passing

(* The response of a done job is neither overwritten nor unlinked while    *)
(* the lease of its session runs: not by cleanup, whose picks stay         *)
(* expired, nor by recovery, the worker or the answers of the main thread. *)
THEOREM OutcomesAreStable == Spec => StableOutcome
<1>1. DInv /\ [Next]_vars =>
        [\A k \in Keys :
           /\ state[k] = "done" /\ lease[k[1]] > now
           /\ file[k].out # "absent" /\ spent'["loss"] = spent["loss"]
           => file'[k] = file[k]]_vars
  BY StableStep
<1> QED
  BY <1>1, DeliveryInductive, PTL DEF StableOutcome, Spec

-----------------------------------------------------------------------------
(* Files, stops and budgets.  The strengthening, on top of DInv.           *)

(* A response file that can be read to the end.                            *)
Whole(k) == file[k].out \notin {"absent", "partial"}

(* MarkDone finds a file, which for an answer of the main thread or of     *)
(* recovery is one frame.  The clock never shows lastCleanup's first value.*)
Written ==
  /\ now >= 1
  /\ pc \in {"mark", "recovered"} =>
       Whole(<<sid, id>>) /\ file[<<sid, id>>].len = 1
  /\ task = "ready" => Whole(active)

(* Session s is dropped before the main thread looks at its responses: it  *)
(* is being dropped, is among the sessions that cleanup has picked, or the *)
(* process has yet to make its first cleanup, with no job at the worker    *)
(* that would keep the session.                                            *)
Dropping(s) == pc \in {"unlink", "forget"} /\ s = sid
Picked(s) == pc \in {"cleanup", "unlink", "forget"} /\ s \in todo /\ task = "none"
BeforeCleanup == /\ pc \in {"down", "recover", "recovered", "stopping", "complete", "connect"}
                 /\ lastCleanup = 0 /\ task = "none"
Doomed(s) == lease[s] <= now /\ (Dropping(s) \/ Picked(s) \/ BeforeCleanup)

(* The journal's size of a done job is that of its file.  A crash between  *)
(* cleanup's unlink and DELETE, or between recovery's file and UPDATE,     *)
(* breaks this, and only for sessions that are dropped next.               *)
Intact(k) == Whole(k) /\ file[k].len = size[k]
SpoolKept ==
  spent["loss"] = 0 =>
    \A k \in Keys : state[k] = "done" => Intact(k) \/ Doomed(k[1])

(* Without a crash, files are missing only while a session is dropped, and *)
(* the process never goes down with a job that is running.                 *)
CleanKept ==
  spent["crash"] = 0 /\ spent["loss"] = 0 =>
    /\ task # "failed" /\ pc # "recovered"
    /\ \A k \in Keys : state[k] = "done" /\ file[k].out = "absent" => Dropping(k[1])
    /\ pc \in {"down", "recover"} => \A k \in Keys : state[k] # "running"

SInv == DInv /\ Written /\ SpoolKept /\ CleanKept

-----------------------------------------------------------------------------
(* The budget.                                                             *)

(* Responses of more than one frame; the others are not counted.           *)
Large(S) == Cardinality(Retained({k \in S : size[k] > 1}))

(* Responses of several frames fit, and the budget that the worker was     *)
(* given is still there when it ends: nothing else is retained meanwhile,  *)
(* but for responses the main thread wrote before it.                      *)
BudgetKept ==
  /\ Large(Keys) <= Budget
  /\ \A s \in Sids : Large({s} \X Ids) <= SessionBudget
  /\ task # "none" => /\ Cardinality(Retained(Keys)) + avail <= Budget
                      /\ Cardinality(Retained({active[1]} \X Ids)) + avail <= SessionBudget
  /\ task = "ready" => file[active].len = 1 \/ file[active].len <= avail

-----------------------------------------------------------------------------
(* The clock and the failures.                                             *)

(* The clock never goes back, and failures are only ever added.            *)
LEMMA ClockStep ==
  ASSUME TypeOK, [Next]_vars
  PROVE  /\ now <= now' /\ (UNCHANGED now \/ Tick)
         /\ \A f \in Failures : spent[f] \in Nat /\ spent[f] <= spent'[f]
<1>1. UNCHANGED now \/ Tick
  <2>1. Outside \/ UNCHANGED vars => UNCHANGED now \/ Tick
    BY DEF Outside, WorkerStep, WorkerRefuses, WorkerDescribes, WorkerSends, WorkerAnswers,
       WorkerGivesUp, Finish, Vpp, VppApplies, VppRejects, VppActs, Client, Send,
       Acknowledge, Disconnect, LoseFile, WorkerFails, vars
  <2>2. Passing => UNCHANGED now
    BY DEF Passing, Restart, RecoverWrites, RecoverEnds, Connect, Reconnect, ConnectFails,
       Cleanup, Unlink, DropStreams, Register, ReceiveEnds, PublishReply, Remove,
       DeliverEnds, LaunchLocal, Submit, Crash, RecoverDies, Stop
  <2>3. RecoverMarks \/ CompleteWorker \/ Forget \/ Receive \/ Deliver \/ StoreOffset
          \/ StartJob \/ MarkLocal \/ StopEnds => UNCHANGED now
    BY DEF RecoverMarks, CompleteWorker, Forget, Receive, Deliver, StoreOffset, StartJob,
       MarkLocal, StopEnds
  <2> QED
    BY <2>1, <2>2, <2>3, StepKinds
<1>2. now <= now'
  BY <1>1 DEF Tick, TypeOK
<1>3. UNCHANGED spent \/ \E f \in Failures : Spend(f)
  <2>1. Outside \/ UNCHANGED vars => UNCHANGED spent \/ \E f \in Failures : Spend(f)
    BY DEF Outside, WorkerStep, WorkerRefuses, WorkerDescribes, WorkerSends, WorkerAnswers,
       WorkerGivesUp, Finish, Vpp, VppApplies, VppRejects, VppActs, Client, Send,
       Acknowledge, Disconnect, LoseFile, WorkerFails, vars, Tick, Unheard, Failures
  <2>2. Passing => UNCHANGED spent \/ \E f \in Failures : Spend(f)
    BY DEF Passing, Restart, RecoverWrites, RecoverEnds, Connect, Reconnect, ConnectFails,
       Cleanup, Unlink, DropStreams, Register, ReceiveEnds, PublishReply, Remove,
       DeliverEnds, LaunchLocal, Submit, Crash, RecoverDies, Stop, Heard, Unheard, Failures
  <2>3. RecoverMarks \/ CompleteWorker \/ Forget \/ StoreOffset \/ StartJob \/ MarkLocal
          \/ StopEnds => UNCHANGED spent
    BY DEF RecoverMarks, CompleteWorker, Forget, StoreOffset, StartJob, MarkLocal, StopEnds
  <2>4. Receive \/ Deliver => UNCHANGED spent \/ \E f \in Failures : Spend(f)
    BY DEF Receive, Read, Deliver, DeliverOne, Heard, Unheard, Failures
  <2> QED
    BY <2>1, <2>2, <2>3, <2>4, StepKinds
<1>4. ASSUME NEW f \in Failures
      PROVE  spent[f] \in Nat /\ spent[f] <= spent'[f]
  <2>1. spent \in [Failures -> Nat]
    BY DEF TypeOK
  <2> QED
    BY <1>3, <2>1 DEF Spend
<1> QED
  BY <1>1, <1>2, <1>4

-----------------------------------------------------------------------------
(* MarkDone finds a file.                                                  *)

(* A spool record, by its parts.                                           *)
LEMMA ReplyFacts ==
  ASSUME NEW o, NEW l
  PROVE  Reply(o, l).out = o /\ Reply(o, l).len = l
BY DEF Reply

(* Every step keeps what the files and the journal say of their size.      *)
LEMMA WrittenStep ==
  ASSUME SInv, TypeOK', [Next]_vars
  PROVE  Written'
<1>0. /\ TypeOK /\ IInv /\ Written /\ MainHolds /\ WorkerHolds /\ DOMAIN file = Keys
      /\ (task # "none" => active \in Keys)
  BY DEF SInv, DInv, IInv, Safe, TypeOK, WorkerHolds
<1>1. now' >= 1
  <2>1. now >= 1 /\ now <= now' /\ now \in Nat /\ now' \in Nat
    BY <1>0, ClockStep DEF Written, TypeOK
  <2> QED
    BY <2>1
<1>2. CASE /\ UNCHANGED file
           /\ pc' \notin {"mark", "recovered"} \/ UNCHANGED <<pc, sid, id>>
           /\ task' # "ready" \/ UNCHANGED <<task, active>>
  BY <1>0, <1>1, <1>2 DEF Written, Whole
<1>3. CASE WorkerStep
  <2>1. /\ task \in {"queued", "sent"} /\ UNCHANGED <<pc, sid, id, active>>
        /\ \/ task' = "sent"
           \/ \E o \in {"result", "error", "unknown"}, l \in Int : Write(active, Reply(o, l))
    BY <1>3, Constants DEF WorkerStep, WorkerRefuses, WorkerDescribes, WorkerSends,
       WorkerAnswers, WorkerGivesUp, Finish, loop, locals
  <2>2. pc \notin {"mark", "recovered"} /\ active \in Keys
    BY <1>0, <2>1 DEF MainHolds
  <2>3. task' = "ready" => Whole(active)'
    BY <1>0, <2>1, <2>2, ReplyFacts DEF Write, Whole
  <2> QED
    BY <1>1, <2>1, <2>2, <2>3 DEF Written
<1>4. CASE RecoverWrites
  <2>1. PICK k \in Keys : /\ Write(k, Reply("unknown", 1))
                          /\ sid' = k[1] /\ id' = k[2] /\ pc = "recover"
    BY <1>4 DEF RecoverWrites
  <2>2. <<sid', id'>> = k /\ task = "none" /\ task' = task
    BY <1>0, <1>4, <2>1, KeyFacts DEF MainHolds, RecoverWrites, worker
  <2>3. file'[k] = Reply("unknown", 1)
    BY <1>0, <2>1 DEF Write
  <2> QED
    BY <1>1, <2>2, <2>3, ReplyFacts DEF Written, Whole
<1>12. CASE RecoverDies
  BY <1>1, <1>12 DEF RecoverDies, Exit, Written
<1>5. CASE LaunchLocal
  <2>1. /\ pc = "launch" /\ UNCHANGED <<sid, id, task, active>>
        /\ \E o \in {"result", "error"} : Write(<<sid, id>>, Reply(o, 1))
    BY <1>5 DEF LaunchLocal, memory, loop, locals, worker
  <2>2. task = "none" /\ <<sid, id>> \in Keys
    BY <1>0, <2>1, KeyFacts DEF MainHolds
  <2>3. (Whole(<<sid, id>>) /\ file[<<sid, id>>].len = 1)'
    BY <1>0, <2>1, <2>2, ReplyFacts DEF Write, Whole
  <2> QED
    BY <1>1, <2>1, <2>2, <2>3 DEF Written
<1>6. CASE Unlink
  <2>1. PICK j \in JobsOf(sid) : Write(j, Absent)
    BY <1>6 DEF Unlink
  <2>2. /\ pc = "unlink" /\ UNCHANGED <<pc, task, active>>
    BY <1>6 DEF Unlink, memory, worker
  <2>3. task = "ready" => active # j
    BY <1>0, <2>1, <2>2 DEF MainHolds, WorkerHolds, JobsOf
  <2> QED
    BY <1>0, <1>1, <2>1, <2>2, <2>3 DEF Written, Whole, Write
<1>7. CASE LoseFile
  <2>1. PICK j \in Keys : state[j] = "done" /\ Write(j, Absent)
    BY <1>7 DEF LoseFile
  <2>2. pc # "recovered" /\ UNCHANGED <<pc, sid, id, task, active>>
    BY <1>7 DEF LoseFile, memory, loop, locals, worker
  <2>3. /\ (pc = "mark" => <<sid, id>> # j /\ <<sid, id>> \in Keys)
        /\ (task = "ready" => active # j)
    BY <1>0, <2>1, KeyFacts DEF MainHolds, WorkerHolds
  <2> QED
    BY <1>0, <1>1, <2>1, <2>2, <2>3 DEF Written, Whole, Write
<1>8. CASE Vpp \/ Client \/ Tick \/ Disconnect \/ WorkerFails \/ UNCHANGED vars
  BY <1>2, <1>8 DEF Vpp, VppApplies, VppRejects, VppActs, Client, Send, Acknowledge, Tick,
     Disconnect, WorkerFails, vars, disk, memory, loop, locals, worker
<1>9. CASE \/ Restart \/ RecoverEnds \/ Connect \/ Reconnect \/ ConnectFails \/ Cleanup
           \/ DropStreams \/ Register \/ ReceiveEnds \/ PublishReply \/ Remove
           \/ DeliverEnds \/ Submit \/ Crash \/ Stop
  BY <1>2, <1>9 DEF Restart, RecoverEnds, Connect, Reconnect, ConnectFails, Cleanup,
     DropStreams, Register, ReceiveEnds, PublishReply, Remove, DeliverEnds, Submit, Crash,
     Stop, disk, memory, loop, locals, worker, KeepEntry, Goto, Exit
<1>10. CASE \/ RecoverMarks \/ CompleteWorker \/ Forget \/ Deliver
            \/ StoreOffset \/ StartJob \/ MarkLocal \/ StopEnds
  BY <1>2, <1>10 DEF RecoverMarks, CompleteWorker, Collect, Forget, Deliver, DeliverOne,
     StoreOffset, StartJob, MarkLocal, StopEnds, disk, memory, loop, locals, worker, Goto, Exit
<1>11. CASE Receive
  <2>1. UNCHANGED <<file, task, active>> /\ pc' \in {"receive", "publish", "remove"}
    BY <1>0, <1>11, ReceiveJobs DEF Receive, worker
  <2> QED
    BY <1>2, <2>1
<1> QED
  BY <1>3, <1>4, <1>5, <1>6, <1>7, <1>8, <1>9, <1>10, <1>11, <1>12, StepKinds
  DEF Outside, Passing

-----------------------------------------------------------------------------
(* The journal's sizes.                                                    *)

(* What MarkDone makes of a file that is there.                            *)
LEMMA MarkedIsIntact ==
  ASSUME TypeOK, NEW j \in Keys, MarkDone(j), Whole(j), UNCHANGED file
  PROVE  /\ file'[j].out \notin {"absent", "partial"} /\ file'[j].len = size'[j]
         /\ \A k \in Keys \ {j} : state'[k] = state[k] /\ size'[k] = size[k]
BY DEF MarkDone, FileSize, Intact, Whole, TypeOK

(* The process goes down with what it had to drop still to be dropped.     *)
LEMMA ExitDooms ==
  ASSUME TypeOK, Exit, UNCHANGED <<lease, now>>, NEW s, Doomed(s)
  PROVE  Doomed(s)'
BY DEF Exit, Doomed, BeforeCleanup

(* Every step keeps the file of a done job, unless the disk loses it.      *)
LEMMA SpoolStep ==
  ASSUME SInv, TypeOK', [Next]_vars
  PROVE  SpoolKept'
<1>0. /\ TypeOK /\ IInv /\ DInv /\ Written /\ MainHolds /\ WorkerHolds /\ PickedExpired
      /\ Referential /\ DOMAIN file = Keys /\ DOMAIN size = Keys /\ DOMAIN state = Keys
      /\ (task # "none" => active \in Keys)
  BY DEF SInv, DInv, IInv, Safe, TypeOK, WorkerHolds
<1> SUFFICES ASSUME spent'["loss"] = 0, NEW k \in Keys, state'[k] = "done"
             PROVE  Intact(k)' \/ Doomed(k[1])'
  BY DEF SpoolKept
<1>1. /\ spent["loss"] = 0 /\ now <= now' /\ now \in Nat /\ now' \in Nat
      /\ k[1] \in Sids /\ lease[k[1]] \in Nat /\ (state[k] = "done" => k[1] \in sessions)
      /\ (state[k] = "done" => Intact(k) \/ Doomed(k[1]))
  <2>1. spent["loss"] \in Nat /\ spent["loss"] <= spent'["loss"]
    BY <1>0, ClockStep DEF Failures
  <2>2. spent["loss"] = 0
    BY <2>1
  <2> QED
    BY <1>0, <2>2, ClockStep, KeyFacts DEF TypeOK, SInv, SpoolKept, Referential
<1>2. CASE /\ state[k] = "done" /\ file'[k] = file[k] /\ size'[k] = size[k]
           /\ (Doomed(k[1]) => Doomed(k[1])')
  BY <1>1, <1>2 DEF Intact, Whole
<1>3. pc \notin {"down", "recover", "recovered", "stopping", "complete", "connect",
                 "cleanup", "unlink", "forget"} => ~Doomed(k[1])
  BY DEF Doomed, Dropping, Picked, BeforeCleanup
<1>4. CASE Outside \/ UNCHANGED vars
  <2>1. UNCHANGED <<state, size, lease, pc, todo, sid, lastCleanup>>
    BY <1>4, OutsideLeaves DEF vars, disk, journal, jobs, memory, loop, locals
  <2>2. UNCHANGED task \/ task # "none"
    BY <1>4 DEF Outside, WorkerStep, WorkerRefuses, WorkerDescribes, WorkerSends,
       WorkerAnswers, WorkerGivesUp, Finish, Vpp, VppApplies, VppRejects, VppActs, Client,
       Send, Acknowledge, Tick, Disconnect, LoseFile, WorkerFails, vars, memory, worker
  <2>3. Doomed(k[1]) => Doomed(k[1])'
    <3>1. lease[k[1]] <= now => lease'[k[1]] <= now'
      BY <1>1, <2>1
    <3> QED
      BY <2>1, <2>2, <3>1 DEF Doomed, Dropping, Picked, BeforeCleanup
  <2>4. CASE WorkerStep
    <3>1. /\ task \in {"queued", "sent"}
          /\ \E f : Write(active, f)
      BY <2>4 DEF WorkerStep, WorkerRefuses, WorkerDescribes, WorkerSends, WorkerAnswers,
         WorkerGivesUp, Finish
    <3>2. active # k
      BY <1>0, <2>1, <3>1 DEF WorkerHolds
    <3> QED
      BY <1>0, <1>2, <2>1, <2>3, <3>1, <3>2 DEF Write
  <2>5. CASE LoseFile
    <3>1. spent'["loss"] = spent["loss"] + 1
      BY <1>0, <2>5 DEF LoseFile, Spend, TypeOK, Failures
    <3> QED
      BY <1>1, <3>1
  <2>6. CASE Vpp \/ Client \/ Tick \/ Disconnect \/ WorkerFails \/ UNCHANGED vars
    <3>1. UNCHANGED file
      BY <2>6 DEF Vpp, VppApplies, VppRejects, VppActs, Client, Send, Acknowledge, Tick,
         Disconnect, WorkerFails, vars, disk
    <3> QED
      BY <1>2, <2>1, <2>3, <3>1
  <2> QED
    BY <1>4, <2>4, <2>5, <2>6 DEF Outside
<1>5. CASE Restart \/ RecoverEnds \/ Reconnect \/ ConnectFails \/ Stop
  <2>1. /\ UNCHANGED <<state, file, size, lease, now, lastCleanup, task>>
        /\ {pc, pc'} \subseteq {"down", "recover", "stopping", "complete", "connect"}
    BY <1>5 DEF Restart, RecoverEnds, Reconnect, ConnectFails, Stop, disk, journal, jobs,
       memory, loop, worker
  <2>2. Doomed(k[1]) => Doomed(k[1])'
    BY <2>1 DEF Doomed, Dropping, Picked, BeforeCleanup
  <2> QED
    BY <1>2, <2>1, <2>2
<1>6. CASE Crash
  <2>1. UNCHANGED <<state, file, size, lease, now>> /\ Exit
    BY <1>6 DEF Crash, disk, journal, jobs
  <2> QED
    BY <1>0, <1>2, <2>1, ExitDooms
<1>7. CASE RecoverWrites \/ RecoverDies
  <2>1. PICK j \in Keys : NeedsRecovery(j) /\ \E f : Write(j, f)
    BY <1>7 DEF RecoverWrites, RecoverDies
  <2>2. /\ pc = "recover" /\ UNCHANGED <<state, size, lease, now>>
        /\ \/ pc' = "recovered" /\ UNCHANGED <<lastCleanup, task>>
           \/ Exit
    BY <1>7 DEF RecoverWrites, RecoverDies, journal, jobs, worker
  <2>3. Doomed(k[1]) => Doomed(k[1])'
    BY <1>0, <2>2, ExitDooms DEF Doomed, Dropping, Picked, BeforeCleanup
  <2>4. j = k => Doomed(k[1])
    BY <1>1, <2>1, <2>2 DEF NeedsRecovery, Intact, Whole
  <2> QED
    BY <1>0, <1>2, <2>1, <2>2, <2>3, <2>4 DEF Write
<1>8. CASE RecoverMarks \/ MarkLocal
  <2> DEFINE j == <<sid, id>>
  <2>1. /\ pc \in {"recovered", "mark"} /\ (pc = "recovered" => pc' = "recover")
        /\ MarkDone(j) /\ UNCHANGED <<file, lease, now, lastCleanup, task>>
    BY <1>8 DEF RecoverMarks, MarkLocal, Goto, worker
  <2>2. j \in Keys /\ Whole(j)
    BY <1>0, <2>1, KeyFacts DEF MainHolds, Written
  <2>3. Doomed(k[1]) => Doomed(k[1])'
    BY <1>3, <2>1 DEF Doomed, Dropping, Picked, BeforeCleanup
  <2> HIDE DEF j
  <2>4. /\ file'[j].out \notin {"absent", "partial"} /\ file'[j].len = size'[j]
        /\ \A i \in Keys \ {j} : state'[i] = state[i] /\ size'[i] = size[i]
    BY <1>0, <2>1, <2>2, MarkedIsIntact
  <2>5. k = j => Intact(k)'
    BY <2>4 DEF Intact, Whole
  <2> QED
    BY <1>2, <2>1, <2>3, <2>4, <2>5
<1>9. CASE CompleteWorker \/ StopEnds
  <2>1. /\ UNCHANGED <<file, lease, now>> /\ pc \in {"complete", "stopping"}
        /\ \/ task = "ready" /\ MarkDone(active)
           \/ UNCHANGED <<state, size>> /\ Exit
           \/ UNCHANGED <<state, size, task, lastCleanup>> /\ pc' = "connect"
    BY <1>9 DEF CompleteWorker, StopEnds, Collect, jobs, memory, loop, worker
  <2>2. CASE task = "ready" /\ MarkDone(active)
    <3>1. active \in Keys /\ Whole(active)
      BY <1>0, <2>2 DEF Written
    <3>2. /\ file'[active].out \notin {"absent", "partial"}
          /\ file'[active].len = size'[active]
          /\ \A i \in Keys \ {active} : state'[i] = state[i] /\ size'[i] = size[i]
      BY <1>0, <2>1, <2>2, <3>1, MarkedIsIntact
    <3>3. ~Doomed(k[1])
      BY <2>1, <2>2 DEF Doomed, Dropping, Picked, BeforeCleanup
    <3>4. CASE k = active
      BY <3>2, <3>4 DEF Intact, Whole
    <3> QED
      BY <1>2, <2>1, <3>2, <3>3, <3>4
  <2>3. CASE UNCHANGED <<state, size>> /\ Exit
    BY <1>0, <1>2, <2>1, <2>3, ExitDooms
  <2>4. CASE UNCHANGED <<state, size, task, lastCleanup>> /\ pc' = "connect"
    <3>1. Doomed(k[1]) => Doomed(k[1])'
      BY <2>1, <2>4 DEF Doomed, Dropping, Picked, BeforeCleanup
    <3> QED
      BY <1>2, <2>1, <2>4, <3>1
  <2> QED
    BY <2>1, <2>2, <2>3, <2>4
<1>10. CASE Connect
  <2>1. /\ pc = "connect" /\ UNCHANGED <<state, file, size, lease, now, task>>
        /\ (now # lastCleanup => /\ pc' = "cleanup"
                                 /\ todo' = {s \in sessions : lease[s] <= now})
    BY <1>10 DEF Connect, disk, journal, jobs, worker
  <2>2. state[k] = "done" /\ Doomed(k[1]) => Doomed(k[1])'
    <3> SUFFICES ASSUME state[k] = "done", Doomed(k[1]) PROVE Doomed(k[1])'
      OBVIOUS
    <3>1. lastCleanup = 0 /\ task = "none" /\ lease[k[1]] <= now
      BY <2>1 DEF Doomed, Dropping, Picked, BeforeCleanup
    <3>2. now # lastCleanup
      BY <1>0, <1>1, <3>1 DEF Written
    <3> QED
      BY <1>1, <2>1, <3>1, <3>2 DEF Doomed, Picked
  <2> QED
    BY <1>2, <2>1, <2>2
<1>11. CASE Cleanup
  <2>1. /\ pc = "cleanup" /\ UNCHANGED <<state, file, size, lease, now, task>>
        /\ \/ todo = {}
           \/ \E s \in todo : /\ todo' = todo \ {s}
                              /\ IF Kept(s) THEN pc' = pc ELSE pc' = "unlink" /\ sid' = s
    BY <1>11 DEF Cleanup, disk, journal, jobs, worker
  <2>2. Doomed(k[1]) => Doomed(k[1])'
    <3> SUFFICES ASSUME Doomed(k[1]) PROVE Doomed(k[1])'
      OBVIOUS
    <3>1. k[1] \in todo /\ task = "none" /\ lease[k[1]] <= now /\ active = Nil
      BY <1>0, <2>1 DEF Doomed, Dropping, Picked, BeforeCleanup, WorkerHolds
    <3>2. PICK s \in todo : todo' = todo \ {s} /\ pc' = "unlink" /\ sid' = s
      BY <2>1, <3>1 DEF Kept
    <3> QED
      BY <2>1, <3>1, <3>2 DEF Doomed, Dropping, Picked
  <2> QED
    BY <1>2, <2>1, <2>2
<1>12. CASE Unlink \/ DropStreams
  <2>1. /\ pc = "unlink" /\ pc' \in {"unlink", "forget"}
        /\ UNCHANGED <<state, size, lease, now, todo, sid, task>>
        /\ (UNCHANGED file \/ \E j \in JobsOf(sid) : Write(j, Absent))
    BY <1>12 DEF Unlink, DropStreams, disk, journal, jobs, memory, loop, locals, worker
  <2>2. Doomed(k[1]) => Doomed(k[1])'
    BY <2>1 DEF Doomed, Dropping, Picked, BeforeCleanup
  <2>3. CASE file'[k] = file[k]
    BY <1>2, <2>1, <2>2, <2>3
  <2>4. CASE file'[k] # file[k]
    <3>1. k[1] = sid
      BY <1>0, <2>1, <2>4 DEF Write, JobsOf
    <3>2. lease[sid] <= now
      BY <1>0, <2>1 DEF PickedExpired
    <3> QED
      BY <2>1, <3>1, <3>2 DEF Doomed, Dropping
  <2> QED
    BY <2>3, <2>4
<1>13. CASE Forget
  <2>1. /\ pc = "forget" /\ pc' = "cleanup" /\ UNCHANGED <<file, lease, now, todo, task>>
    BY <1>13 DEF Forget, Goto, worker
  <2>2. k \notin {sid} \X Ids
    BY <1>13 DEF Forget
  <2>3. state'[k] = state[k] /\ size'[k] = size[k]
    BY <1>13, <2>2 DEF Forget
  <2>4. k[1] # sid
    BY <2>2, KeyFacts
  <2>5. Doomed(k[1]) => Doomed(k[1])'
    BY <2>1, <2>4 DEF Doomed, Dropping, Picked, BeforeCleanup
  <2> QED
    BY <1>2, <2>1, <2>3, <2>5
<1>14. CASE pc \in {"register", "receive", "publish", "remove", "deliver", "offset", "start",
                    "launch"} /\ UNCHANGED <<state, file, size>>
  BY <1>2, <1>3, <1>14
<1>15. CASE Register \/ ReceiveEnds \/ PublishReply \/ Remove \/ DeliverEnds \/ Submit
            \/ StoreOffset \/ Deliver
  BY <1>14, <1>15 DEF Register, ReceiveEnds, PublishReply, Remove, DeliverEnds, Submit,
     StoreOffset, Deliver, disk, journal, jobs
<1>16. CASE LaunchLocal
  <2>1. /\ pc = "launch" /\ UNCHANGED <<state, size>> /\ \E f : Write(<<sid, id>>, f)
    BY <1>16 DEF LaunchLocal, jobs
  <2>2. <<sid, id>> # k
    BY <1>0, <2>1 DEF MainHolds
  <2> QED
    BY <1>0, <1>2, <1>3, <2>1, <2>2 DEF Write
<1>17. CASE StartJob
  <2>1. /\ pc = "start" /\ UNCHANGED <<file, size>>
        /\ (UNCHANGED state \/ \E j \in Keys : state' = [state EXCEPT ![j] = "running"])
    BY <1>17 DEF StartJob
  <2>2. state[k] = "done"
    BY <1>0, <2>1
  <2> QED
    BY <1>2, <1>3, <2>1, <2>2
<1>18. CASE Receive
  <2>1. /\ pc = "receive" /\ UNCHANGED file
        /\ \/ UNCHANGED <<state, size>>
           \/ \E j \in Keys : state' = [state EXCEPT ![j] = "queued"] /\ UNCHANGED size
    BY <1>0, <1>18, ReceiveJobs DEF Receive, Insert, jobs
  <2>2. state[k] = "done" /\ UNCHANGED size
    BY <1>0, <2>1
  <2> QED
    BY <1>2, <1>3, <2>1, <2>2
<1> QED
  BY <1>4, <1>5, <1>6, <1>7, <1>8, <1>9, <1>10, <1>11, <1>12, <1>13, <1>15, <1>16, <1>17,
     <1>18, StepKinds DEF Passing

-----------------------------------------------------------------------------
(* No fatal exit, and nothing to recover after a stop.                     *)

(* Outside cleanup and start-up, every response can be read to its end.    *)
LEMMA SpoolReadable == SInv => NoFatalExit
<1> SUFFICES ASSUME SInv, spent["loss"] = 0
             PROVE  /\ pc = "deliver" =>
                         \A s \in todo : \A k \in Undelivered(s) : offset[k] < file[k].len
                    /\ pc \in {"mark", "recovered"} => file[<<sid, id>>].out # "absent"
                    /\ task = "ready" => file[active].out \notin {"absent", "partial"}
  BY DEF NoFatalExit
<1>1. Written /\ SpoolKept
  BY DEF SInv
<1>2. ASSUME pc = "deliver", NEW s \in todo, NEW k \in Undelivered(s)
      PROVE  offset[k] < file[k].len
  <2>1. k \in Keys /\ state[k] = "done" /\ offset[k] < size[k]
    BY DEF Undelivered
  <2>2. ~Doomed(k[1])
    BY <1>2 DEF Doomed, Dropping, Picked, BeforeCleanup
  <2>3. file[k].len = size[k]
    BY <1>1, <2>1, <2>2 DEF SpoolKept, Intact
  <2> QED
    BY <2>1, <2>3
<1> QED
  BY <1>1, <1>2 DEF Written, Whole

(* While nothing was killed or lost, every step keeps it so.               *)
LEMMA CleanStep ==
  ASSUME SInv, TypeOK', [Next]_vars
  PROVE  CleanKept'
<1>0. /\ TypeOK /\ IInv /\ Written /\ MainHolds /\ WorkerHolds /\ RunningHeld
      /\ NoFatalExit /\ DOMAIN file = Keys /\ DOMAIN state = Keys
      /\ (task # "none" => active \in Keys)
      /\ spent \in [Failures -> Nat]
  BY SpoolReadable DEF SInv, DInv, IInv, Safe, TypeOK, WorkerHolds
<1> SUFFICES ASSUME spent'["crash"] = 0, spent'["loss"] = 0
             PROVE  /\ task' # "failed" /\ pc' # "recovered"
                    /\ \A k \in Keys :
                         state'[k] = "done" /\ file'[k].out = "absent" => Dropping(k[1])'
                    /\ pc' \in {"down", "recover"} => \A k \in Keys : state'[k] # "running"
  BY DEF CleanKept
<1>1. spent["crash"] = 0 /\ spent["loss"] = 0
  <2>1. \A f \in Failures : spent[f] \in Nat /\ spent[f] <= spent'[f]
    BY <1>0, ClockStep
  <2>2. spent["crash"] \in Nat /\ spent["crash"] <= 0 /\ spent["loss"] \in Nat /\ spent["loss"] <= 0
    BY <2>1 DEF Failures
  <2> QED
    BY <2>2
<1>2. /\ task # "failed" /\ pc # "recovered"
      /\ \A k \in Keys : state[k] = "done" /\ file[k].out = "absent" => Dropping(k[1])
      /\ (pc \in {"down", "recover"} => \A k \in Keys : state[k] # "running")
  BY <1>1 DEF SInv, CleanKept
<1>3. ~Spend("crash") /\ ~Spend("loss")
  <2>1. \A f \in {"crash", "loss"} : Spend(f) => spent'[f] = spent[f] + 1
    BY <1>0 DEF Spend, Failures
  <2> QED
    BY <1>1, <2>1
<1>4. ~Crash /\ ~RecoverDies /\ ~WorkerFails /\ ~LoseFile /\ ~RecoverMarks
  BY <1>2, <1>3 DEF Crash, RecoverDies, WorkerFails, LoseFile, RecoverMarks
<1>5. ~RecoverWrites
  <2>1. pc = "recover" => \A k \in Keys : ~NeedsRecovery(k)
    BY <1>2 DEF NeedsRecovery, Dropping
  <2> QED
    BY <2>1 DEF RecoverWrites
<1>6. \A s \in todo, k \in Keys : pc = "deliver" /\ k \in Undelivered(s) =>
        ~(file[k].len <= offset[k])
  <2> SUFFICES ASSUME NEW s \in todo, NEW k \in Keys, pc = "deliver", k \in Undelivered(s)
               PROVE  ~(file[k].len <= offset[k])
    OBVIOUS
  <2>1. offset[k] < file[k].len
    BY <1>0, <1>1 DEF NoFatalExit
  <2>2. file[k] \in Spools /\ offset[k] \in Nat
    BY <1>0 DEF TypeOK
  <2>3. file[k].len \in Nat
    BY <2>2, SpoolFacts, Constants
  <2> QED
    BY <2>1, <2>2, <2>3
(* What is neither cleanup nor the end of the process.                     *)
<1>7. CASE /\ UNCHANGED <<state, file>> /\ task' # "failed" /\ pc' # "recovered"
           /\ pc \notin {"unlink", "forget"}
           /\ (pc' \in {"down", "recover"} => pc \in {"down", "recover"})
  BY <1>2, <1>7 DEF Dropping
<1>8. CASE Vpp \/ Client \/ Tick \/ Disconnect \/ UNCHANGED vars
  <2>1. UNCHANGED <<state, file, pc, sid, task>>
    BY <1>8 DEF Vpp, VppApplies, VppRejects, VppActs, Client, Send, Acknowledge, Tick,
       Disconnect, vars, disk, journal, jobs, memory, loop, locals, worker
  <2> QED
    BY <1>2, <2>1 DEF Dropping
<1>9. CASE WorkerStep
  <2>1. /\ UNCHANGED <<state, pc, sid>> /\ task \in {"queued", "sent"} /\ task' # "failed"
        /\ \E f : Write(active, f)
    BY <1>9 DEF WorkerStep, WorkerRefuses, WorkerDescribes, WorkerSends, WorkerAnswers,
       WorkerGivesUp, Finish, journal, jobs, loop, locals
  <2>2. \A k \in Keys : state[k] = "done" => file'[k] = file[k]
    BY <1>0, <2>1 DEF Write, WorkerHolds
  <2> QED
    BY <1>2, <2>1, <2>2 DEF Dropping
<1>10. CASE Restart \/ RecoverEnds \/ Connect \/ Reconnect \/ ConnectFails \/ Cleanup
            \/ Register \/ ReceiveEnds \/ PublishReply \/ Remove \/ DeliverEnds \/ Submit
            \/ Stop \/ StoreOffset
  BY <1>2, <1>7, <1>10 DEF Restart, RecoverEnds, Connect, Reconnect, ConnectFails, Cleanup,
     Register, ReceiveEnds, PublishReply, Remove, DeliverEnds, Submit, Stop, StoreOffset,
     disk, journal, jobs, memory, loop, worker, KeepEntry, Goto
<1>11. CASE Deliver
  <2>1. PICK s \in todo :
          \/ UNCHANGED <<pc, worker>>
          \/ \E k \in Undelivered(s) : k \in Keys /\ DeliverOne(s, k)
    BY <1>11 DEF Deliver, IsFirst, Undelivered
  <2>2. pc = "deliver" /\ UNCHANGED <<state, file>>
    BY <1>11 DEF Deliver, disk, journal, jobs
  <2>3. UNCHANGED task /\ pc' \in {"deliver", "offset"}
    BY <1>6, <2>1, <2>2 DEF DeliverOne, worker
  <2> QED
    BY <1>2, <1>7, <2>2, <2>3
<1>12. CASE Unlink \/ DropStreams
  <2>1. /\ pc = "unlink" /\ pc' \in {"unlink", "forget"} /\ UNCHANGED <<state, sid, task>>
        /\ (UNCHANGED file \/ \E j \in JobsOf(sid) : Write(j, Absent))
    BY <1>12 DEF Unlink, DropStreams, disk, journal, jobs, memory, loop, locals, worker
  <2>2. ASSUME NEW k \in Keys, state'[k] = "done", file'[k].out = "absent"
        PROVE  k[1] = sid
    BY <1>0, <1>2, <2>1, <2>2 DEF Dropping, Write, JobsOf
  <2> QED
    BY <1>2, <2>1, <2>2 DEF Dropping
<1>13. CASE Forget
  <2>1. pc = "forget" /\ pc' = "cleanup" /\ UNCHANGED <<file, task>>
    BY <1>13 DEF Forget, Goto, worker
  <2>2. \A k \in Keys : state'[k] = "done" => state[k] = "done" /\ k \notin {sid} \X Ids
    BY <1>13 DEF Forget
  <2>3. \A k \in Keys : state'[k] = "done" => state[k] = "done" /\ k[1] # sid
    BY <2>2, KeyFacts
  <2> QED
    BY <1>2, <2>1, <2>3 DEF Dropping
<1>14. CASE Receive
  <2>1. /\ pc = "receive" /\ pc' \in {"receive", "publish", "remove"}
        /\ UNCHANGED <<file, task>>
        /\ (UNCHANGED state \/ \E j \in Keys : state' = [state EXCEPT ![j] = "queued"])
    BY <1>0, <1>14, ReceiveJobs DEF Receive, Insert, jobs, worker
  <2>2. \A k \in Keys : state'[k] = "done" => state[k] = "done"
    BY <1>0, <2>1
  <2> QED
    BY <1>2, <2>1, <2>2 DEF Dropping
<1>15. CASE StartJob
  <2>1. /\ pc = "start" /\ pc' \in {"complete", "launch"} /\ UNCHANGED <<file, task>>
        /\ (UNCHANGED state \/ \E j \in Keys : state' = [state EXCEPT ![j] = "running"])
    BY <1>15 DEF StartJob, worker
  <2>2. \A k \in Keys : state'[k] = "done" => state[k] = "done"
    BY <1>0, <2>1
  <2> QED
    BY <1>2, <2>1, <2>2 DEF Dropping
<1>16. CASE LaunchLocal
  <2>1. /\ pc = "launch" /\ pc' = "mark" /\ UNCHANGED <<state, task>>
        /\ \E f : Write(<<sid, id>>, f)
    BY <1>16 DEF LaunchLocal, jobs, memory, worker
  <2>2. \A k \in Keys : state[k] = "done" => file'[k] = file[k]
    BY <1>0, <2>1 DEF Write, MainHolds
  <2> QED
    BY <1>2, <2>1, <2>2 DEF Dropping
<1>17. ASSUME NEW j \in Keys, MarkDone(j), Whole(j), UNCHANGED file,
              pc \notin {"unlink", "forget"}
       PROVE  \A k \in Keys :
                state'[k] = "done" /\ file'[k].out = "absent" => Dropping(k[1])'
  BY <1>0, <1>2, <1>17, MarkedIsIntact DEF Dropping
<1>18. CASE MarkLocal
  <2>1. /\ pc = "mark" /\ pc' = "complete" /\ UNCHANGED <<file, task>>
        /\ MarkDone(<<sid, id>>)
    BY <1>18 DEF MarkLocal, Goto, worker
  <2>2. <<sid, id>> \in Keys /\ Whole(<<sid, id>>)
    BY <1>0, <2>1, KeyFacts DEF MainHolds, Written
  <2> QED
    BY <1>2, <1>17, <2>1, <2>2
<1>19. CASE CompleteWorker
  <2>1. CASE UNCHANGED <<jobs, memory>>
    BY <1>2, <1>7, <1>19, <2>1 DEF CompleteWorker, jobs, memory, worker
  <2>2. CASE task = "ready" /\ Collect /\ pc' = "connect"
    <3>1. MarkDone(active) /\ active \in Keys /\ Whole(active) /\ task' = "none"
      BY <1>0, <2>2 DEF Collect, Written
    <3> QED
      BY <1>17, <1>19, <2>2, <3>1 DEF CompleteWorker
  <2> QED
    BY <1>2, <1>19, <2>1, <2>2 DEF CompleteWorker
<1>20. CASE StopEnds
  <2>1. /\ pc = "stopping" /\ task \in {"none", "ready"} /\ UNCHANGED file
        /\ pc' = "down" /\ task' = "none"
        /\ (task = "ready" => MarkDone(active)) /\ (task = "none" => UNCHANGED state)
    BY <1>2, <1>20 DEF StopEnds, WorkerEnded, Exit, jobs
  <2>2. \A k \in Keys : state[k] = "running" => k = active
    BY <1>0, <2>1 DEF RunningHeld
  <2>3. CASE task = "none"
    <3>1. active = Nil /\ \A k \in Keys : k # Nil
      BY <1>0, <2>3, Constants DEF WorkerHolds
    <3> QED
      BY <1>2, <2>1, <2>2, <2>3, <3>1 DEF Dropping
  <2>4. CASE task = "ready"
    <3>1. MarkDone(active) /\ active \in Keys /\ Whole(active)
      BY <1>0, <2>1, <2>4 DEF Written
    <3>2. \A k \in Keys : state'[k] # "running"
      BY <1>0, <2>2, <3>1 DEF MarkDone
    <3> QED
      BY <1>17, <2>1, <3>1, <3>2
  <2> QED
    BY <2>1, <2>3, <2>4
<1> QED
  BY <1>4, <1>5, <1>8, <1>9, <1>10, <1>11, <1>12, <1>13, <1>14, <1>15, <1>16, <1>18, <1>19,
     <1>20, StepKinds DEF Outside, Passing

-----------------------------------------------------------------------------
(* SInv holds initially.                                                   *)
LEMMA InitSInv == Init => SInv
<1> SUFFICES ASSUME Init PROVE SInv
  OBVIOUS
<1>1. DInv
  BY InitDInv
<1>2. /\ pc = "recover" /\ task = "none" /\ now = 1
      /\ state = [k \in Keys |-> "none"]
  BY DEF Init
<1> QED
  BY <1>1, <1>2 DEF SInv, Written, SpoolKept, CleanKept

(* SInv is inductive.                                                      *)
LEMMA StepSInv == SInv /\ [Next]_vars => SInv'
<1> SUFFICES ASSUME SInv, [Next]_vars PROVE SInv'
  OBVIOUS
<1>1. DInv'
  BY StepDInv DEF SInv
<1>2. TypeOK'
  BY <1>1 DEF DInv, IInv
<1> QED
  BY <1>1, <1>2, WrittenStep, SpoolStep, CleanStep DEF SInv

(* Every reachable state of Spec satisfies SInv.                           *)
THEOREM SpoolInductive == Spec => []SInv
BY InitSInv, StepSInv, PTL DEF Spec

(* Unless the disk loses a file, Deliver never meets a response file that  *)
(* is shorter than the journal says, and MarkDone never misses one, also   *)
(* when the process dies between any two steps of cleanup or recovery: the *)
(* sessions concerned are dropped before their responses are looked at.    *)
THEOREM FatalExitsAreUnreachable == Spec => []NoFatalExit
BY SpoolInductive, SpoolReadable, PTL

(* A gateway that was stopped any number of times and never killed finds   *)
(* no running job and no missing response at its next start.               *)
THEOREM StopsAreClean == Spec => []CleanStop
<1>1. SInv => CleanStop
  BY DEF SInv, CleanKept, CleanStop, NeedsRecovery, Dropping
<1> QED
  BY <1>1, SpoolInductive, PTL

-----------------------------------------------------------------------------
(* The budget: counting retained frames.                                   *)

(* The frames of the jobs in S, for sizes z.                               *)
Frames(S, z) == {p \in S \X (1..MaxFrames) : p[2] <= z[p[1]]}
Sizes == [Keys -> 0..MaxFrames]

(* They are finitely many, and fewer for fewer jobs and smaller sizes.     *)
LEMMA FramesFinite ==
  ASSUME NEW S \in SUBSET Keys, NEW z
  PROVE  IsFiniteSet(Frames(S, z)) /\ Cardinality(Frames(S, z)) \in Nat
<1>1. IsFiniteSet(Keys)
  BY ConstantsAssumption, FS_Product DEF Keys
<1>2. IsFiniteSet(S) /\ IsFiniteSet(1..MaxFrames)
  BY <1>1, FS_Subset, FS_Interval, Constants
<1>3. IsFiniteSet(S \X (1..MaxFrames))
  BY <1>2, FS_Product
<1> QED
  BY <1>3, FS_Subset, FS_CardinalityType DEF Frames

(* Fewer jobs with smaller sizes retain fewer frames.                      *)
LEMMA FramesShrink ==
  ASSUME NEW T \in SUBSET Keys, NEW S \in SUBSET T, NEW y \in Sizes, NEW z \in Sizes,
         \A k \in S : z[k] <= y[k]
  PROVE  Cardinality(Frames(S, z)) <= Cardinality(Frames(T, y))
<1>1. \A k \in Keys : z[k] \in Int /\ y[k] \in Int
  BY Constants DEF Sizes
<1>2. Frames(S, z) \subseteq Frames(T, y)
  <2> SUFFICES ASSUME NEW p \in Frames(S, z) PROVE p \in Frames(T, y)
    OBVIOUS
  <2>1. /\ p \in S \X (1..MaxFrames) /\ p[1] \in S /\ p[1] \in Keys /\ p[2] \in Int
        /\ p[2] <= z[p[1]]
    BY DEF Frames
  <2>2. p[2] <= y[p[1]]
    BY <1>1, <2>1
  <2> QED
    BY <2>1, <2>2 DEF Frames
<1> QED
  BY <1>2, FramesFinite, FS_Subset

(* A job of l frames has l frames.                                         *)
LEMMA FramesOfOne ==
  ASSUME NEW k, NEW l \in Nat
  PROVE  IsFiniteSet({k} \X (1..l)) /\ Cardinality({k} \X (1..l)) = l
<1>1. IsFiniteSet({k}) /\ Cardinality({k}) = 1
  BY FS_Singleton
<1>2. IsFiniteSet(1..l) /\ Cardinality(1..l) = IF 1 > l THEN 0 ELSE l - 1 + 1
  BY FS_Interval
<1>3. Cardinality(1..l) = l
  BY <1>2
<1>4. IsFiniteSet({k} \X (1..l)) /\ Cardinality({k} \X (1..l)) = Cardinality({k}) * Cardinality(1..l)
  BY <1>1, <1>2, FS_Product
<1> QED
  BY <1>1, <1>3, <1>4

(* One job that ends adds its frames and no others.                        *)
LEMMA FramesAdd ==
  ASSUME NEW S \in SUBSET Keys, NEW j \in Keys, NEW y \in Sizes, NEW z \in Sizes,
         \A k \in S \ {j} : z[k] = y[k]
  PROVE  Cardinality(Frames(S, z)) <= Cardinality(Frames(S, y)) + z[j]
<1> DEFINE N == {j} \X (1..z[j])
<1>1. z[j] \in Nat /\ \A k \in Keys : z[k] \in Int /\ y[k] \in Int
  BY Constants DEF Sizes
<1>2. IsFiniteSet(N) /\ Cardinality(N) = z[j]
  BY <1>1, FramesOfOne
<1>3. Frames(S, z) \subseteq Frames(S, y) \cup N
  <2> SUFFICES ASSUME NEW p \in Frames(S, z) PROVE p \in Frames(S, y) \cup N
    OBVIOUS
  <2>1. /\ p \in S \X (1..MaxFrames) /\ p[1] \in S /\ p[2] \in 1..MaxFrames
        /\ p[2] <= z[p[1]] /\ p = <<p[1], p[2]>>
    BY DEF Frames
  <2>2. CASE p[1] = j
    <3>1. p[2] \in 1..z[j]
      BY <1>1, <2>1, <2>2, Constants
    <3> QED
      BY <2>1, <2>2, <3>1
  <2>3. CASE p[1] # j
    BY <2>1, <2>3 DEF Frames
  <2> QED
    BY <2>2, <2>3
<1> HIDE DEF N
<1>4. IsFiniteSet(Frames(S, y)) /\ Cardinality(Frames(S, y)) \in Nat
  BY FramesFinite
<1>5. /\ IsFiniteSet(Frames(S, y) \cup N)
      /\ Cardinality(Frames(S, y) \cup N) =
           Cardinality(Frames(S, y)) + Cardinality(N) - Cardinality(Frames(S, y) \cap N)
  BY <1>2, <1>4, FS_Union
<1>6. Cardinality(Frames(S, y) \cap N) \in Nat
  <2>1. IsFiniteSet(Frames(S, y) \cap N)
    BY <1>2, FS_Subset
  <2> QED
    BY <2>1, FS_CardinalityType
<1>7. Cardinality(Frames(S, z)) <= Cardinality(Frames(S, y) \cup N)
  BY <1>3, <1>5, FS_Subset
<1>8. Cardinality(Frames(S, z)) \in Nat
  BY FramesFinite
<1> QED
  BY <1>1, <1>2, <1>4, <1>5, <1>6, <1>7, <1>8

(* Responses of one frame count one each, the others are Large.            *)
LEMMA FramesSplit ==
  ASSUME NEW S \in SUBSET Keys, NEW z \in Sizes
  PROVE  Cardinality(Frames(S, z)) <=
           Cardinality(Frames({k \in S : z[k] > 1}, z)) + Cardinality({k \in S : z[k] = 1})
<1> DEFINE B == Frames({k \in S : z[k] > 1}, z)
           A == {k \in S : z[k] = 1}
           N == A \X {1}
<1>1. \A k \in Keys : z[k] \in 0..MaxFrames
  BY DEF Sizes
<1>2. IsFiniteSet(A) /\ Cardinality(A) \in Nat
  <2>1. IsFiniteSet(Keys)
    BY ConstantsAssumption, FS_Product DEF Keys
  <2>2. A \in SUBSET Keys
    OBVIOUS
  <2> QED
    BY <2>1, <2>2, FS_Subset, FS_CardinalityType
<1>3. IsFiniteSet(B) /\ Cardinality(B) \in Nat
  <2>1. {k \in S : z[k] > 1} \in SUBSET Keys
    OBVIOUS
  <2> QED
    BY <2>1, FramesFinite
<1>4. Frames(S, z) \subseteq B \cup N
  <2> SUFFICES ASSUME NEW p \in Frames(S, z) PROVE p \in B \cup N
    OBVIOUS
  <2>1. /\ p \in S \X (1..MaxFrames) /\ p[1] \in S /\ p[1] \in Keys /\ p[2] \in 1..MaxFrames
        /\ p[2] <= z[p[1]] /\ p = <<p[1], p[2]>>
    BY DEF Frames
  <2>2. CASE z[p[1]] > 1
    BY <2>1, <2>2 DEF Frames
  <2>3. CASE ~(z[p[1]] > 1)
    <3>1. z[p[1]] = 1 /\ p[2] = 1
      BY <1>1, <2>1, <2>3, Constants
    <3> QED
      BY <2>1, <3>1
  <2> QED
    BY <2>2, <2>3
<1>5. IsFiniteSet(N) /\ Cardinality(N) = Cardinality(A)
  <2>1. IsFiniteSet({1}) /\ Cardinality({1}) = 1
    BY FS_Singleton
  <2> HIDE DEF A
  <2>2. IsFiniteSet(N) /\ Cardinality(N) = Cardinality(A) * Cardinality({1})
    BY <1>2, <2>1, FS_Product
  <2> QED
    BY <1>2, <2>1, <2>2
<1> HIDE DEF A, B, N
<1>6. /\ IsFiniteSet(B \cup N)
      /\ Cardinality(B \cup N) = Cardinality(B) + Cardinality(N) - Cardinality(B \cap N)
  BY <1>3, <1>5, FS_Union
<1>7. Cardinality(B \cap N) \in Nat
  <2>1. IsFiniteSet(B \cap N)
    BY <1>3, FS_Subset
  <2> QED
    BY <2>1, FS_CardinalityType
<1>8. Cardinality(Frames(S, z)) <= Cardinality(B \cup N) /\ Cardinality(Frames(S, z)) \in Nat
  BY <1>4, <1>6, FS_Subset, FramesFinite
<1>9. Cardinality(Frames(S, z)) <= Cardinality(B) + Cardinality(A)
  BY <1>2, <1>3, <1>5, <1>6, <1>7, <1>8
<1> QED
  BY <1>9 DEF A, B

-----------------------------------------------------------------------------
(* How a step changes the sizes: they shrink; the main thread marks a file *)
(* of one frame while the worker has no job; or the worker's job is done.  *)
LEMMA SizeStep ==
  ASSUME SInv, TypeOK', [Next]_vars
  PROVE  \/ \A k \in Keys : size'[k] <= size[k]
         \/ /\ task' = "none"
            /\ \E j \in Keys : size' = [size EXCEPT ![j] = 1]
         \/ /\ task = "ready" /\ task' = "none"
            /\ size' = [size EXCEPT ![active] = file[active].len]
<1>0. TypeOK /\ MainHolds /\ Written /\ IInv /\ \A k \in Keys : size[k] \in Nat
  BY Constants DEF SInv, DInv, IInv, Safe, TypeOK
<1>1. CASE UNCHANGED size
  BY <1>0, <1>1
<1>2. CASE RecoverMarks \/ MarkLocal
  <2>1. MarkDone(<<sid, id>>) /\ UNCHANGED task /\ pc \in {"recovered", "mark"}
    BY <1>2 DEF RecoverMarks, MarkLocal, worker
  <2>2. <<sid, id>> \in Keys /\ task = "none" /\ file[<<sid, id>>].len = 1
    BY <1>0, <2>1, KeyFacts DEF MainHolds, Written
  <2> QED
    BY <2>1, <2>2 DEF MarkDone, FileSize
<1>3. CASE CompleteWorker \/ StopEnds
  <2>1. \/ UNCHANGED size
        \/ task = "ready" /\ MarkDone(active) /\ task' = "none"
    BY <1>3 DEF CompleteWorker, Collect, StopEnds, Exit, jobs
  <2> QED
    BY <1>1, <2>1 DEF MarkDone, FileSize
<1>4. CASE Forget
  <2>1. \A k \in Keys : size'[k] \in {0, size[k]}
    BY <1>4 DEF Forget
  <2> QED
    BY <1>0, <2>1
<1>5. CASE Receive
  BY <1>0, <1>1, <1>5, ReceiveJobs DEF Insert, jobs
<1>6. CASE Outside \/ Passing \/ UNCHANGED vars
  BY <1>1, <1>6, OutsideLeaves, PassingLeaves DEF jobs, journal, vars, disk
<1>7. CASE Deliver \/ StoreOffset \/ StartJob
  BY <1>1, <1>7 DEF Deliver, StoreOffset, StartJob, disk, journal, jobs
<1> QED
  BY <1>2, <1>3, <1>4, <1>5, <1>6, <1>7, StepKinds

(* How a step changes the worker's task: Submit, or the same job goes on   *)
(* with the same budget.                                                   *)
LEMMA TaskStep ==
  ASSUME SInv, TypeOK', [Next]_vars, task' # "none"
  PROVE  \/ /\ task' = "queued" /\ sid \in Sids /\ active' = <<sid, id>>
            /\ avail' = Available(sid) /\ UNCHANGED size
         \/ /\ task # "none" /\ UNCHANGED <<active, avail>>
            /\ (task' = "ready" => \/ task = "ready" /\ file'[active] = file[active]
                                   \/ file'[active].len = 1
                                   \/ file'[active].len <= avail)
<1>0. /\ TypeOK /\ IInv /\ MainHolds /\ WorkerHolds /\ DOMAIN file = Keys
      /\ (task # "none" => active \in Keys)
  BY DEF SInv, DInv, IInv, Safe, TypeOK, WorkerHolds
<1>1. CASE /\ UNCHANGED <<active, avail, file>>
           /\ (UNCHANGED task \/ (task' = "failed" /\ task # "none"))
  BY <1>1
<1>2. CASE WorkerStep
  <2>1. /\ task \in {"queued", "sent"} /\ UNCHANGED <<active, avail>>
        /\ \/ task' = "sent"
           \/ \E o, l : Write(active, Reply(o, l)) /\ (l = 1 \/ l <= avail)
    BY <1>2 DEF WorkerStep, WorkerRefuses, WorkerDescribes, WorkerSends, WorkerAnswers,
       WorkerGivesUp, Finish
  <2>2. task' = "ready" => file'[active].len = 1 \/ file'[active].len <= avail
    BY <1>0, <2>1, ReplyFacts DEF Write
  <2> QED
    BY <2>1, <2>2
<1>3. CASE Unlink
  <2>1. PICK j \in JobsOf(sid) : Write(j, Absent)
    BY <1>3 DEF Unlink
  <2>2. pc = "unlink" /\ UNCHANGED <<task, active, avail>>
    BY <1>3 DEF Unlink, memory, worker
  <2>3. active # j
    BY <1>0, <2>1, <2>2 DEF MainHolds, WorkerHolds, JobsOf
  <2> QED
    BY <1>0, <2>1, <2>2, <2>3 DEF Write
<1>4. CASE LoseFile
  <2>1. PICK j \in Keys : state[j] = "done" /\ Write(j, Absent)
    BY <1>4 DEF LoseFile
  <2>2. UNCHANGED <<task, active, avail>>
    BY <1>4 DEF LoseFile, memory, worker
  <2> QED
    BY <1>0, <2>1, <2>2 DEF Write, WorkerHolds
<1>5. CASE RecoverWrites \/ RecoverDies \/ LaunchLocal
  BY <1>0, <1>5 DEF RecoverWrites, RecoverDies, LaunchLocal, memory, worker, Exit, MainHolds
<1>6. CASE Submit
  BY <1>0, <1>6 DEF Submit, MainHolds, disk, journal, jobs
<1>7. CASE Vpp \/ Client \/ Tick \/ Disconnect \/ WorkerFails \/ UNCHANGED vars
  BY <1>1, <1>7 DEF Vpp, VppApplies, VppRejects, VppActs, Client, Send, Acknowledge, Tick,
     Disconnect, WorkerFails, vars, disk, memory, worker
<1>8. CASE \/ Restart \/ RecoverEnds \/ Connect \/ Reconnect \/ ConnectFails \/ Cleanup
           \/ DropStreams \/ Register \/ ReceiveEnds \/ PublishReply \/ Remove
           \/ DeliverEnds \/ Crash \/ Stop
  BY <1>1, <1>8 DEF Restart, RecoverEnds, Connect, Reconnect, ConnectFails, Cleanup,
     DropStreams, Register, ReceiveEnds, PublishReply, Remove, DeliverEnds, Crash, Stop,
     disk, memory, worker, Exit
<1>9. CASE \/ RecoverMarks \/ CompleteWorker \/ Forget \/ Receive \/ Deliver \/ StoreOffset
           \/ StartJob \/ MarkLocal \/ StopEnds
  BY <1>1, <1>9 DEF RecoverMarks, CompleteWorker, Collect, Forget, Receive, Deliver,
     DeliverOne, StoreOffset, StartJob, MarkLocal, StopEnds, disk, memory, worker, Exit
<1> QED
  BY <1>2, <1>3, <1>4, <1>5, <1>6, <1>7, <1>8, <1>9, StepKinds DEF Outside, Passing

(* Large responses still fit when sizes shrink or become one frame ...     *)
LEMMA LargeShrinks ==
  ASSUME NEW T \in SUBSET Keys, NEW y \in Sizes, NEW z \in Sizes, NEW B \in Nat,
         Cardinality(Frames({k \in T : y[k] > 1}, y)) <= B,
         \A k \in T : z[k] <= y[k] \/ z[k] <= 1
  PROVE  Cardinality(Frames({k \in T : z[k] > 1}, z)) <= B
<1> DEFINE P == {k \in T : y[k] > 1}
           Q == {k \in T : z[k] > 1}
<1>1. \A k \in Keys : y[k] \in Int /\ z[k] \in Int
  BY Constants DEF Sizes
<1>2. P \in SUBSET Keys /\ Q \in SUBSET P /\ \A k \in Q : z[k] <= y[k]
  BY <1>1
<1> HIDE DEF P, Q
<1>3. Cardinality(Frames(Q, z)) <= Cardinality(Frames(P, y))
  BY <1>2, FramesShrink
<1>4. Cardinality(Frames(Q, z)) \in Nat /\ Cardinality(Frames(P, y)) \in Nat
  BY <1>2, FramesFinite
<1>5. Cardinality(Frames(P, y)) <= B
  BY DEF P
<1>6. Cardinality(Frames(Q, z)) <= B
  BY <1>3, <1>4, <1>5
<1> QED
  BY <1>6 DEF Q

(* ... and when a job ends within the budget a it was given.               *)
LEMMA LargeFits ==
  ASSUME NEW T \in SUBSET Keys, NEW y \in Sizes, NEW z \in Sizes, NEW B \in Nat,
         NEW j \in Keys, NEW a \in Int, z[j] <= a, \A k \in T \ {j} : z[k] = y[k],
         Cardinality(Frames(T, y)) + a <= B
  PROVE  Cardinality(Frames({k \in T : z[k] > 1}, z)) <= B
<1> DEFINE Q == {k \in T : z[k] > 1}
<1>1. z[j] \in Nat /\ \A k \in Keys : z[k] \in Int
  BY Constants DEF Sizes
<1>2. Q \in SUBSET Keys /\ Q \in SUBSET T /\ \A k \in Q : z[k] <= z[k]
  BY <1>1
<1>3. Cardinality(Frames(T, z)) <= Cardinality(Frames(T, y)) + z[j]
  BY FramesAdd
<1> HIDE DEF Q
<1>4. Cardinality(Frames(Q, z)) <= Cardinality(Frames(T, z))
  BY <1>2, FramesShrink
<1>5. /\ Cardinality(Frames(Q, z)) \in Nat /\ Cardinality(Frames(T, z)) \in Nat
      /\ Cardinality(Frames(T, y)) \in Nat
  BY <1>2, FramesFinite
<1>6. Cardinality(Frames(Q, z)) <= B
  BY <1>1, <1>3, <1>4, <1>5
<1> QED
  BY <1>6 DEF Q

BInv == SInv /\ BudgetKept

(* Every step keeps the large responses within their budgets.              *)
LEMMA LargeStep ==
  ASSUME BInv, TypeOK', [Next]_vars
  PROVE  /\ (Large(Keys) <= Budget)'
         /\ \A s \in Sids : (Large({s} \X Ids) <= SessionBudget)'
<1>0. /\ TypeOK /\ SInv /\ WorkerHolds /\ BudgetKept /\ size \in Sizes /\ size' \in Sizes
      /\ Budget \in Nat /\ SessionBudget \in Nat /\ avail \in Int
  BY Constants DEF BInv, SInv, DInv, IInv, Safe, TypeOK, Sizes
<1>1. \A T : Large(T) = Cardinality(Frames({k \in T : size[k] > 1}, size))
  BY DEF Large, Retained, Frames
<1>2. \A k \in Keys : size[k] \in Int /\ size'[k] \in Int
  BY <1>0, Constants DEF Sizes
<1>3. ASSUME NEW T \in SUBSET Keys, NEW B \in Nat, Large(T) <= B,
             task = "ready" /\ file[active].len > 1 /\ (\E k \in T : k = active) =>
               Cardinality(Frames(T, size)) + avail <= B
      PROVE  Cardinality(Frames({k \in T : size'[k] > 1}, size')) <= B
  <2>1. Cardinality(Frames({k \in T : size[k] > 1}, size)) <= B
    BY <1>1, <1>3
  <2>2. CASE \A k \in Keys : size'[k] <= size[k]
    BY <1>0, <2>1, <2>2, LargeShrinks
  <2>3. CASE \E j \in Keys : size' = [size EXCEPT ![j] = 1]
    <3>1. \A k \in T : size'[k] <= size[k] \/ size'[k] <= 1
      BY <1>0, <1>2, <2>3 DEF Sizes
    <3> QED
      BY <1>0, <2>1, <3>1, LargeShrinks
  <2>4. CASE task = "ready" /\ size' = [size EXCEPT ![active] = file[active].len]
    <3>1. active \in Keys
      BY <1>0, <2>4 DEF WorkerHolds, TypeOK
    <3>2. size'[active] = file[active].len /\ \A k \in T \ {active} : size'[k] = size[k]
      BY <1>0, <2>4, <3>1 DEF Sizes
    <3>3. CASE active \in T /\ file[active].len > 1
      <4>1. file[active].len <= avail
        BY <1>0, <2>4, <3>3 DEF BudgetKept
      <4>2. Cardinality(Frames(T, size)) + avail <= B
        BY <1>3, <2>4, <3>3
      <4> QED
        BY <1>0, <3>1, <3>2, <4>1, <4>2, LargeFits
    <3>4. CASE ~(active \in T /\ file[active].len > 1)
      <4>1. \A k \in T : size'[k] <= size[k] \/ size'[k] <= 1
        BY <1>2, <3>1, <3>2, <3>4
      <4> QED
        BY <1>0, <2>1, <4>1, LargeShrinks
    <3> QED
      BY <3>3, <3>4
  <2> QED
    BY <1>0, <2>2, <2>3, <2>4, SizeStep
<1>4. \A T : Retained(T) = Frames(T, size)
  BY DEF Retained, Frames
<1>5. Cardinality(Frames({k \in Keys : size'[k] > 1}, size')) <= Budget
  <2>1. Large(Keys) <= Budget /\ (task = "ready" => Cardinality(Frames(Keys, size)) + avail <= Budget)
    BY <1>0, <1>4 DEF BudgetKept
  <2> QED
    BY <1>0, <1>3, <2>1
<1>6. ASSUME NEW s \in Sids
      PROVE  Cardinality(Frames({k \in {s} \X Ids : size'[k] > 1}, size')) <= SessionBudget
  <2> DEFINE T == {s} \X Ids
  <2>1. T \in SUBSET Keys
    BY DEF Keys
  <2>2. Large(T) <= SessionBudget
    BY <1>0 DEF BudgetKept
  <2>3. task = "ready" /\ (\E k \in T : k = active) =>
          Cardinality(Frames(T, size)) + avail <= SessionBudget
    <3> SUFFICES ASSUME task = "ready", NEW k \in T, k = active
                 PROVE  Cardinality(Frames(T, size)) + avail <= SessionBudget
      OBVIOUS
    <3>1. active[1] = s
      OBVIOUS
    <3>2. Cardinality(Retained({active[1]} \X Ids)) + avail <= SessionBudget
      BY <1>0 DEF BudgetKept
    <3> QED
      BY <1>4, <3>1, <3>2
  <2> HIDE DEF T
  <2>4. Cardinality(Frames({k \in T : size'[k] > 1}, size')) <= SessionBudget
    BY <1>0, <1>3, <2>1, <2>2, <2>3
  <2> QED
    BY <2>4 DEF T
<1> QED
  BY <1>5, <1>6 DEF Large, Retained, Frames

(* The budget the worker was given stays free while it works.              *)
LEMMA ReserveStep ==
  ASSUME BInv, TypeOK', [Next]_vars, task' # "none"
  PROVE  /\ (Cardinality(Retained(Keys)) + avail <= Budget)'
         /\ (Cardinality(Retained({active[1]} \X Ids)) + avail <= SessionBudget)'
         /\ (task = "ready" => file[active].len = 1 \/ file[active].len <= avail)'
<1>0. /\ TypeOK /\ SInv /\ BudgetKept /\ size \in Sizes /\ size' \in Sizes
      /\ Budget \in Nat /\ SessionBudget \in Nat /\ avail \in Int /\ avail' \in Int
      /\ WorkerHolds
  BY Constants DEF BInv, SInv, DInv, IInv, Safe, TypeOK, Sizes
<1>1. CASE /\ task' = "queued" /\ sid \in Sids /\ active' = <<sid, id>>
           /\ avail' = Available(sid) /\ UNCHANGED size
  <2> DEFINE T == {sid} \X Ids
  <2>1. T \in SUBSET Keys /\ Keys \in SUBSET Keys
    BY <1>1 DEF Keys
  <2>2. Cardinality(Retained(T)) \in Nat /\ Cardinality(Retained(Keys)) \in Nat
    BY <2>1, RetainedFinite
  <2>3. /\ avail' <= Budget - Cardinality(Retained(Keys))
        /\ avail' <= SessionBudget - Cardinality(Retained(T))
    <3>1. Budget - Cardinality(Retained(Keys)) \in Int /\ OwnBudget(sid) \in Int
      BY <1>0, <2>2 DEF OwnBudget
    <3>2. /\ avail' <= Budget - Cardinality(Retained(Keys)) /\ avail' <= OwnBudget(sid)
      BY <1>1, <3>1 DEF Available
    <3> QED
      BY <3>2 DEF OwnBudget
  <2>4. active'[1] = sid
    BY <1>1
  <2>5. Retained(Keys)' = Retained(Keys) /\ Retained({active[1]} \X Ids)' = Retained(T)
    BY <1>1, <2>4 DEF Retained
  <2> HIDE DEF T
  <2> QED
    BY <1>0, <1>1, <2>2, <2>3, <2>5
<1>2. CASE /\ task # "none" /\ UNCHANGED <<active, avail>>
           /\ (task' = "ready" => \/ task = "ready" /\ file'[active] = file[active]
                                  \/ file'[active].len = 1
                                  \/ file'[active].len <= avail)
  <2>1. \A k \in Keys : size'[k] <= size[k]
    BY <1>0, SizeStep
  <2> DEFINE T == {active[1]} \X Ids
  <2>2. T \in SUBSET Keys
    BY <1>0, <1>2, KeyFacts DEF WorkerHolds, TypeOK, Keys
  <2>3. /\ Cardinality(Frames(Keys, size')) <= Cardinality(Frames(Keys, size))
        /\ Cardinality(Frames(T, size')) <= Cardinality(Frames(T, size))
    BY <1>0, <2>1, <2>2, FramesShrink
  <2>4. /\ Cardinality(Frames(Keys, size')) \in Nat /\ Cardinality(Frames(Keys, size)) \in Nat
        /\ Cardinality(Frames(T, size')) \in Nat /\ Cardinality(Frames(T, size)) \in Nat
    BY <2>2, FramesFinite
  <2>5. /\ Cardinality(Retained(Keys)) + avail <= Budget
        /\ Cardinality(Retained(T)) + avail <= SessionBudget
    BY <1>0, <1>2 DEF BudgetKept
  <2>6. Retained(Keys) = Frames(Keys, size) /\ Retained(T) = Frames(T, size)
    BY DEF Retained, Frames
  <2>7. Retained(Keys)' = Frames(Keys, size') /\ Retained({active[1]} \X Ids)' = Frames(T, size')
    BY <1>2 DEF Retained, Frames
  <2> HIDE DEF T
  <2>8. /\ (Cardinality(Retained(Keys)) + avail <= Budget)'
        /\ (Cardinality(Retained({active[1]} \X Ids)) + avail <= SessionBudget)'
    BY <1>0, <1>2, <2>3, <2>4, <2>5, <2>6, <2>7
  <2>9. task' = "ready" => file'[active].len = 1 \/ file'[active].len <= avail
    BY <1>0, <1>2 DEF BudgetKept
  <2> QED
    BY <1>2, <2>8, <2>9
<1> QED
  BY <1>0, <1>1, <1>2, TaskStep

(* BInv holds initially.                                                   *)
LEMMA InitBInv == Init => BInv
<1> SUFFICES ASSUME Init PROVE BInv
  OBVIOUS
<1>1. SInv /\ task = "none" /\ size = [k \in Keys |-> 0]
  BY InitSInv DEF Init
<1>2. ASSUME NEW T \in SUBSET Keys PROVE Large(T) = 0
  <2>1. {k \in T : size[k] > 1} = {}
    BY <1>1
  <2>2. Retained({k \in T : size[k] > 1}) = {}
    BY <2>1 DEF Retained
  <2> QED
    BY <2>2, FS_EmptySet DEF Large
<1>3. Keys \in SUBSET Keys /\ \A s \in Sids : {s} \X Ids \in SUBSET Keys
  BY DEF Keys
<1>4. Large(Keys) = 0 /\ \A s \in Sids : Large({s} \X Ids) = 0
  BY <1>2, <1>3
<1> QED
  BY <1>1, <1>4, Constants DEF BInv, BudgetKept

(* BInv is inductive.                                                      *)
LEMMA StepBInv == BInv /\ [Next]_vars => BInv'
<1> SUFFICES ASSUME BInv, [Next]_vars PROVE BInv'
  OBVIOUS
<1>1. SInv' /\ TypeOK'
  BY StepSInv DEF BInv, SInv, DInv, IInv
<1>2. task' # "none" =>
         /\ (Cardinality(Retained(Keys)) + avail <= Budget)'
         /\ (Cardinality(Retained({active[1]} \X Ids)) + avail <= SessionBudget)'
         /\ (task = "ready" => file[active].len = 1 \/ file[active].len <= avail)'
  BY <1>1, ReserveStep
<1>3. /\ (Large(Keys) <= Budget)'
      /\ \A s \in Sids : (Large({s} \X Ids) <= SessionBudget)'
  BY <1>1, LargeStep
<1> QED
  BY <1>1, <1>2, <1>3 DEF BInv, BudgetKept

(* Every reachable state of Spec satisfies BInv.                           *)
THEOREM BudgetInductive == Spec => []BInv
BY InitBInv, StepBInv, PTL DEF Spec

(* The frames that the journal retains, over all sessions and for each of  *)
(* them, exceed their budget by at most the one frame of each job with a   *)
(* single-frame response: Available is read once, when a job is submitted, *)
(* and no other job is retained until MarkDone spends it.                  *)
THEOREM BudgetsHold == Spec => []BudgetHeld
<1>1. BInv => BudgetHeld
  <2> SUFFICES ASSUME BInv PROVE BudgetHeld
    OBVIOUS
  <2>1. BudgetKept /\ size \in Sizes
    BY DEF BInv, SInv, DInv, IInv, TypeOK, Sizes
  <2>2. ASSUME NEW T \in SUBSET Keys, NEW B \in Nat, Large(T) <= B
        PROVE  Cardinality(Retained(T)) <= B + Cardinality({k \in T : size[k] = 1})
    <3> DEFINE P == {k \in T : size[k] > 1}
               A == {k \in T : size[k] = 1}
    <3>1. Cardinality(Frames(T, size)) <= Cardinality(Frames(P, size)) + Cardinality(A)
      BY <2>1, FramesSplit
    <3>2. P \in SUBSET Keys /\ A \in SUBSET Keys
      OBVIOUS
    <3>3. IsFiniteSet(Keys)
      BY ConstantsAssumption, FS_Product DEF Keys
    <3>4. Retained(T) = Frames(T, size) /\ Large(T) = Cardinality(Frames(P, size))
      BY DEF Retained, Frames, Large
    <3> HIDE DEF P, A
    <3>5. Cardinality(A) \in Nat
      BY <3>2, <3>3, FS_Subset, FS_CardinalityType
    <3>6. Cardinality(Frames(T, size)) \in Nat /\ Cardinality(Frames(P, size)) \in Nat
      BY <3>2, FramesFinite
    <3>7. Cardinality(Retained(T)) <= B + Cardinality(A)
      BY <2>2, <3>1, <3>4, <3>5, <3>6
    <3> QED
      BY <3>7 DEF A
  <2>3. Keys \in SUBSET Keys /\ \A s \in Sids : {s} \X Ids \in SUBSET Keys
    BY DEF Keys
  <2>4. Cardinality(Retained(Keys)) <= Budget + Cardinality({k \in Keys : size[k] = 1})
    BY <2>1, <2>2, <2>3, Constants DEF BudgetKept
  <2>5. ASSUME NEW s \in Sids
        PROVE  Cardinality(Retained({s} \X Ids))
                 <= SessionBudget + Cardinality({k \in {s} \X Ids : size[k] = 1})
    BY <2>1, <2>2, <2>3, Constants DEF BudgetKept
  <2> QED
    BY <2>4, <2>5 DEF BudgetHeld
<1> QED
  BY <1>1, BudgetInductive, PTL
=============================================================================
