-------------------------- MODULE RefinementProofs --------------------------
(***************************************************************************)
(* Gateway implements RequestLedger, for every instance: each step of the  *)
(* main thread, the worker, VPP, recovery or a failure is a step of the    *)
(* ledger or leaves it alone.                                              *)
(***************************************************************************)
EXTENDS GatewayRefinement, DeliveryProofs

(* The strengthening, on top of SInv.                                      *)

(* What cleanup has picked was handed out, and is gone once it is dropped. *)
PickedLeased ==
  /\ pc \in {"cleanup", "unlink", "forget"} => \A s \in todo : lease[s] # 0
  /\ pc \in {"unlink", "forget"} => lease[sid] # 0

RInv == SInv /\ PickedLeased

-----------------------------------------------------------------------------
(* Every step keeps the leases of what cleanup has picked.                 *)
LEMMA LeasedStep ==
  ASSUME RInv, TypeOK', [Next]_vars
  PROVE  PickedLeased'
<1>0. TypeOK /\ IInv /\ PickedLeased /\ Leased /\ sessions \subseteq Sids /\ lease \in [Sids -> Nat]
  BY DEF RInv, SInv, DInv, IInv, Safe, TypeOK
<1>1. CASE pc' \notin {"cleanup", "unlink", "forget"}
  BY <1>1 DEF PickedLeased
<1>2. CASE Outside \/ UNCHANGED vars
  <2>1. UNCHANGED <<pc, todo, sid, lease>>
    BY <1>2, OutsideLeaves DEF vars, disk, journal, memory, loop, locals
  <2> QED
    BY <1>0, <2>1 DEF PickedLeased
<1>3. CASE Connect
  <2>1. UNCHANGED lease /\ \/ pc' = "register"
                           \/ pc' = "cleanup" /\ todo' \subseteq sessions
    BY <1>3 DEF Connect, disk, journal
  <2>2. \A s \in sessions : lease[s] # 0
    BY <1>0 DEF Leased
  <2> QED
    BY <1>1, <2>1, <2>2 DEF PickedLeased
<1>4. CASE Cleanup
  <2>1. /\ pc = "cleanup" /\ UNCHANGED lease
        /\ \/ pc' = "register"
           \/ /\ pc' \in {"cleanup", "unlink"} /\ todo' \subseteq todo
              /\ (pc' = "unlink" => sid' \in todo)
    BY <1>4 DEF Cleanup, disk, journal
  <2> QED
    BY <1>0, <2>1 DEF PickedLeased
<1>5. CASE Unlink \/ DropStreams \/ Forget
  <2>1. /\ pc \in {"unlink", "forget"} /\ UNCHANGED <<todo, lease>>
        /\ (pc' = "cleanup" \/ UNCHANGED sid)
    BY <1>5 DEF Unlink, DropStreams, Forget, Goto, disk, journal, memory, loop, locals
  <2> QED
    BY <1>0, <2>1 DEF PickedLeased
<1>6. CASE \/ Restart \/ RecoverWrites \/ RecoverEnds \/ Reconnect \/ ConnectFails
           \/ Register \/ ReceiveEnds \/ PublishReply \/ Remove \/ DeliverEnds
           \/ LaunchLocal \/ Submit \/ Crash \/ RecoverDies \/ Stop
  BY <1>1, <1>6 DEF Restart, RecoverWrites, RecoverEnds, Reconnect, ConnectFails, Register,
     ReceiveEnds, PublishReply, Remove, DeliverEnds, LaunchLocal, Submit, Crash,
     RecoverDies, Stop, KeepEntry, Goto, Exit
<1>7. CASE \/ RecoverMarks \/ CompleteWorker \/ MarkLocal \/ StopEnds \/ Deliver
           \/ StoreOffset \/ StartJob
  BY <1>1, <1>7 DEF RecoverMarks, CompleteWorker, MarkLocal, StopEnds, Deliver, DeliverOne,
     StoreOffset, StartJob, Goto, Exit
<1>8. CASE Receive
  BY <1>0, <1>1, <1>8, ReceiveJobs
<1> QED
  BY <1>2, <1>3, <1>4, <1>5, <1>6, <1>7, <1>8, StepKinds DEF Passing

(* RInv is inductive.                                                      *)
LEMMA StepRInv == RInv /\ [Next]_vars => RInv'
<1> SUFFICES ASSUME RInv, [Next]_vars PROVE RInv'
  OBVIOUS
<1>1. SInv' /\ TypeOK'
  BY StepSInv DEF RInv, SInv, DInv, IInv
<1> QED
  BY <1>1, LeasedStep DEF RInv

-----------------------------------------------------------------------------
(* The ledger's variables.                                                 *)

(* What the mapping looks at, and what it says of one request.             *)
Seen == <<state, body, sessions, lease, file, inflight, effects>>

(* The three mapped variables, request by request.                         *)
LEMMA LedgerFacts ==
  /\ Ledger!Keys = Keys
  /\ \A k \in Keys :
       /\ LedgerPhase[k] = IF state[k] # "none" THEN state[k]
                           ELSE IF k[1] \in sessions \/ lease[k[1]] = 0 THEN "new" ELSE "gone"
       /\ LedgerAsked[k] = IF state[k] = "none" THEN "nothing"
                           ELSE IF body[k].method = "backend" THEN "call" ELSE "other"
       /\ LedgerTold[k] = IF state[k] # "done" THEN "nothing"
                          ELSE IF file[k].out \in {"absent", "partial"} THEN "unknown"
                          ELSE file[k].out
BY DEF Ledger!Keys, Keys, LedgerPhase, LedgerAsked, LedgerTold

(* A step that the mapping does not tell leaves the ledger alone.          *)
LEMMA SeenStutters ==
  ASSUME UNCHANGED Seen
  PROVE  UNCHANGED Ledger!vars
<1>1. UNCHANGED LedgerPhase
  BY DEF Seen, LedgerPhase
<1>2. UNCHANGED LedgerAsked
  BY DEF Seen, LedgerAsked
<1>3. UNCHANGED LedgerTold
  BY DEF Seen, LedgerTold
<1> QED
  BY <1>1, <1>2, <1>3 DEF Seen, Ledger!vars

(* The same, request by request.                                           *)
LEMMA PhaseSame ==
  ASSUME \A k \in Keys :
           /\ state'[k] = state[k]
           /\ (state[k] = "none" =>
                 ((k[1] \in sessions' \/ lease'[k[1]] = 0) <=> (k[1] \in sessions \/ lease[k[1]] = 0)))
  PROVE  UNCHANGED LedgerPhase
BY DEF LedgerPhase

(* A verdict stays while its row and its file do.                          *)
LEMMA ToldSame ==
  ASSUME \A k \in Keys : /\ (state'[k] = "done" <=> state[k] = "done")
                         /\ (state[k] = "done" =>
                              \/ file'[k] = file[k]
                              \/ {file'[k].out, file[k].out} \subseteq
                                    {"absent", "partial", "unknown"})
  PROVE  UNCHANGED LedgerTold
<1>1. \A k \in Keys : (IF state'[k] # "done" THEN "nothing"
                       ELSE IF file'[k].out \in {"absent", "partial"} THEN "unknown"
                       ELSE file'[k].out)
                      = (IF state[k] # "done" THEN "nothing"
                         ELSE IF file[k].out \in {"absent", "partial"} THEN "unknown"
                         ELSE file[k].out)
  OBVIOUS
<1> QED
  BY <1>1 DEF LedgerTold

(* What was asked stays while the row does.                                *)
LEMMA AskedSame ==
  ASSUME \A k \in Keys : /\ (state'[k] = "none" <=> state[k] = "none")
                         /\ (state[k] # "none" => body'[k] = body[k])
  PROVE  UNCHANGED LedgerAsked
BY DEF LedgerAsked

(* A function that changes at one request.                                 *)
LEMMA ChangesAt ==
  ASSUME NEW f, NEW g, NEW k \in Keys, NEW v, f = [j \in Keys |-> f[j]],
         g = [j \in Keys |-> g[j]], g[k] = v, \A j \in Keys \ {k} : g[j] = f[j]
  PROVE  g = [f EXCEPT ![k] = v]
OBVIOUS

-----------------------------------------------------------------------------
(* Step by step.                                                           *)

(* MarkDone gives the verdict, once: recovery's second MarkDone of a done  *)
(* job tells nothing new.                                                  *)
LEMMA MarkFinishes ==
  ASSUME RInv, TypeOK', NEW k \in Keys, MarkDone(k), state[k] \in {"running", "done"},
         Whole(k), UNCHANGED <<sessions, lease, file, inflight, effects>>
  PROVE  (\E v \in Ledger!Verdicts : Ledger!Finish(k, v)) \/ UNCHANGED Ledger!vars
<1>0. TypeOK /\ ResultHonest /\ file[k] \in Spools /\ body \in [Keys -> Messages \cup {Nil}]
  BY DEF RInv, SInv, DInv, IInv, Safe, TypeOK
<1>1. /\ state'[k] = "done" /\ UNCHANGED body
      /\ \A j \in Keys \ {k} : state'[j] = state[j]
  BY <1>0 DEF MarkDone, TypeOK
<1>2. CASE state[k] = "done"
  <2>1. \A j \in Keys : state'[j] = state[j]
    BY <1>1, <1>2
  <2>2. UNCHANGED LedgerPhase
    BY <2>1, PhaseSame
  <2>3. UNCHANGED LedgerAsked
    BY <1>1, <2>1, AskedSame
  <2>4. UNCHANGED LedgerTold
    BY <2>1, ToldSame
  <2> QED
    BY <2>2, <2>3, <2>4 DEF Ledger!vars
<1>3. CASE state[k] = "running"
  <2> DEFINE v == file[k].out
  <2>1. v \in Ledger!Verdicts /\ v \notin {"absent", "partial"}
    BY <1>0 DEF Whole, Spools, Outcomes, Ledger!Verdicts
  <2>2. LedgerPhase' = [LedgerPhase EXCEPT ![k] = "done"]
    <3>1. LedgerPhase'[k] = "done" /\ \A j \in Keys \ {k} : LedgerPhase'[j] = LedgerPhase[j]
      BY <1>1 DEF LedgerPhase
    <3>2. LedgerPhase = [j \in Keys |-> LedgerPhase[j]] /\ LedgerPhase' = [j \in Keys |-> LedgerPhase'[j]]
      BY DEF LedgerPhase
    <3> QED
      BY <3>1, <3>2, ChangesAt
  <2>3. LedgerTold' = [LedgerTold EXCEPT ![k] = v]
    <3>1. LedgerTold'[k] = v /\ \A j \in Keys \ {k} : LedgerTold'[j] = LedgerTold[j]
      BY <1>1, <2>1 DEF LedgerTold
    <3>2. LedgerTold = [j \in Keys |-> LedgerTold[j]] /\ LedgerTold' = [j \in Keys |-> LedgerTold'[j]]
      BY DEF LedgerTold
    <3> QED
      BY <3>1, <3>2, ChangesAt
  <2>4. UNCHANGED LedgerAsked
    BY <1>1, <1>3, AskedSame
  <2>5. LedgerPhase[k] = "running"
    BY <1>3 DEF LedgerPhase
  <2>6. v = "result" /\ LedgerAsked[k] = "call" => effects[k] = 1
    BY <1>0, <1>3 DEF ResultHonest, Journaled, LedgerAsked
  <2>7. Ledger!Finish(k, v)
    BY <2>2, <2>3, <2>4, <2>5, <2>6 DEF Ledger!Finish
  <2> QED
    BY <2>1, <2>7
<1> QED
  BY <1>2, <1>3

(* Insert admits a new request.                                            *)
LEMMA InsertAdmits ==
  ASSUME RInv, TypeOK', NEW k \in Keys, NEW m \in Messages, Insert(k, m), state[k] = "none",
         k[1] \in sessions, UNCHANGED <<sessions, lease, file, inflight, effects>>
  PROVE  Ledger!Admit(k)
<1>0. TypeOK
  BY DEF RInv, SInv, DInv, IInv
<1>1. /\ state'[k] = "queued" /\ body'[k] = m
      /\ \A j \in Keys \ {k} : state'[j] = state[j] /\ body'[j] = body[j]
  BY <1>0 DEF Insert, TypeOK
<1>2. LedgerPhase' = [LedgerPhase EXCEPT ![k] = "queued"]
  <2>1. LedgerPhase'[k] = "queued" /\ \A j \in Keys \ {k} : LedgerPhase'[j] = LedgerPhase[j]
    BY <1>1 DEF LedgerPhase
  <2>2. LedgerPhase = [j \in Keys |-> LedgerPhase[j]] /\ LedgerPhase' = [j \in Keys |-> LedgerPhase'[j]]
    BY DEF LedgerPhase
  <2> QED
    BY <2>1, <2>2, ChangesAt
<1>3. \E a \in {"call", "other"} : LedgerAsked' = [LedgerAsked EXCEPT ![k] = a]
  <2> DEFINE a == IF m.method = "backend" THEN "call" ELSE "other"
  <2>1. LedgerAsked'[k] = a /\ \A j \in Keys \ {k} : LedgerAsked'[j] = LedgerAsked[j]
    BY <1>1 DEF LedgerAsked
  <2>2. LedgerAsked = [j \in Keys |-> LedgerAsked[j]] /\ LedgerAsked' = [j \in Keys |-> LedgerAsked'[j]]
    BY DEF LedgerAsked
  <2>3. LedgerAsked' = [LedgerAsked EXCEPT ![k] = a]
    BY <2>1, <2>2, ChangesAt
  <2> QED
    BY <2>3
<1>4. UNCHANGED LedgerTold
  <2>1. \A j \in Keys : state'[j] = "done" <=> state[j] = "done"
    BY <1>1
  <2> QED
    BY <2>1, ToldSame
<1>5. LedgerPhase[k] = "new"
  BY DEF LedgerPhase
<1> QED
  BY <1>2, <1>3, <1>4, <1>5 DEF Ledger!Admit

(* An unlinked file of a done job, or one that the disk loses.             *)
LEMMA UnlinkLoses ==
  ASSUME RInv, NEW k \in Keys, Write(k, Absent),
         UNCHANGED <<state, body, sessions, lease, inflight, effects>>
  PROVE  Ledger!Lose(k) \/ UNCHANGED Ledger!vars
<1>0. DOMAIN file = Keys
  BY DEF RInv, SInv, DInv, IInv, TypeOK
<1>1. file'[k].out = "absent" /\ \A j \in Keys \ {k} : file'[j] = file[j]
  BY <1>0 DEF Write, Absent
<1>2. UNCHANGED LedgerPhase /\ UNCHANGED LedgerAsked
  BY PhaseSame, AskedSame
<1>3. CASE state[k] = "done"
  <2>1. LedgerTold'[k] = "unknown" /\ \A j \in Keys \ {k} : LedgerTold'[j] = LedgerTold[j]
    BY <1>1, <1>3 DEF LedgerTold
  <2>2. LedgerTold = [j \in Keys |-> LedgerTold[j]] /\ LedgerTold' = [j \in Keys |-> LedgerTold'[j]]
    BY DEF LedgerTold
  <2>3. LedgerTold' = [LedgerTold EXCEPT ![k] = "unknown"]
    BY <2>1, <2>2, ChangesAt
  <2>4. LedgerPhase[k] = "done"
    BY <1>3 DEF LedgerPhase
  <2> QED
    BY <1>2, <2>3, <2>4 DEF Ledger!Lose
<1>4. CASE state[k] # "done"
  <2>1. UNCHANGED LedgerTold
    BY <1>1, <1>4, ToldSame
  <2> QED
    BY <1>2, <2>1 DEF Ledger!vars
<1> QED
  BY <1>3, <1>4

(* Forget ends a session.                                                  *)
LEMMA ForgetExpires ==
  ASSUME RInv, TypeOK', Forget
  PROVE  \E s \in Sids : Ledger!Expire(s)
<1>0. /\ TypeOK /\ MainHolds /\ RunningHeld /\ PickedLeased
      /\ pc = "forget" /\ sid \in Sids
  BY DEF RInv, SInv, DInv, IInv, Safe, Forget, MainHolds
<1>1. /\ sessions' = sessions \ {sid} /\ UNCHANGED <<lease, file, inflight, effects>>
      /\ \A k \in Keys : /\ (k[1] = sid => state'[k] = "none")
                         /\ (k[1] # sid => state'[k] = state[k] /\ body'[k] = body[k])
  <2>1. \A k \in Keys : k \in {sid} \X Ids <=> k[1] = sid
    BY KeyFacts
  <2> QED
    BY <2>1 DEF Forget, vpp
<1>2. lease[sid] # 0
  BY <1>0 DEF PickedLeased
<1>3. \A k \in Keys : k[1] = sid => state[k] # "running"
  BY <1>0, Constants DEF RunningHeld, MainHolds
<1>4. LedgerPhase' = [k \in Keys |-> IF k[1] = sid THEN "gone" ELSE LedgerPhase[k]]
  BY <1>1, <1>2 DEF LedgerPhase
<1>5. LedgerAsked' = [k \in Keys |-> IF k[1] = sid THEN "nothing" ELSE LedgerAsked[k]]
  BY <1>1 DEF LedgerAsked
<1>6. LedgerTold' = [k \in Keys |-> IF k[1] = sid THEN "nothing" ELSE LedgerTold[k]]
  BY <1>1 DEF LedgerTold
<1>7. \A k \in Keys : k[1] = sid => LedgerPhase[k] # "running"
  BY <1>3 DEF LedgerPhase
<1>8. Ledger!Expire(sid)
  BY <1>1, <1>4, <1>5, <1>6, <1>7, LedgerFacts DEF Ledger!Expire
<1> QED
  BY <1>0, <1>8

(* The worker is idle when a job starts, and no other is under way.        *)
LEMMA StartStarts ==
  ASSUME RInv, TypeOK', StartJob
  PROVE  (\E k \in Keys : Ledger!Start(k)) \/ UNCHANGED Ledger!vars
<1>0. TypeOK /\ RunningHeld /\ WorkerHolds /\ pc = "start"
  BY DEF RInv, SInv, DInv, IInv, Safe, StartJob
<1>1. UNCHANGED <<body, sessions, lease, file, inflight, effects>>
  BY DEF StartJob, vpp
<1>2. CASE UNCHANGED state
  BY <1>1, <1>2, SeenStutters DEF Seen
<1>3. ASSUME NEW k \in Keys, ~WorkerBusy, IsFirst(k, Queued),
             state' = [state EXCEPT ![k] = "running"]
      PROVE  Ledger!Start(k)
  <2>1. /\ state[k] = "queued" /\ state'[k] = "running"
        /\ \A j \in Keys \ {k} : state'[j] = state[j]
    BY <1>0, <1>3 DEF IsFirst, Queued, TypeOK
  <2>2. \A j \in Keys : state[j] # "running"
    BY <1>0, <1>3, Constants DEF RunningHeld, WorkerHolds, WorkerBusy
  <2>3. LedgerPhase' = [LedgerPhase EXCEPT ![k] = "running"]
    <3>1. LedgerPhase'[k] = "running" /\ \A j \in Keys \ {k} : LedgerPhase'[j] = LedgerPhase[j]
      BY <1>1, <2>1 DEF LedgerPhase
    <3>2. LedgerPhase = [j \in Keys |-> LedgerPhase[j]] /\ LedgerPhase' = [j \in Keys |-> LedgerPhase'[j]]
      BY DEF LedgerPhase
    <3> QED
      BY <3>1, <3>2, ChangesAt
  <2>4. UNCHANGED LedgerAsked
    <3>1. \A j \in Keys : state'[j] = "none" <=> state[j] = "none"
      BY <2>1
    <3> QED
      BY <1>1, <3>1, AskedSame
  <2>5. UNCHANGED LedgerTold
    <3>1. \A j \in Keys : state'[j] = "done" <=> state[j] = "done"
      BY <2>1
    <3> QED
      BY <1>1, <3>1, ToldSame
  <2>6. LedgerPhase[k] = "queued" /\ \A j \in Keys : LedgerPhase[j] # "running"
    BY <2>1, <2>2 DEF LedgerPhase
  <2> QED
    BY <1>1, <2>3, <2>4, <2>5, <2>6, LedgerFacts DEF Ledger!Start
<1> QED
  BY <1>2, <1>3 DEF StartJob

(* VPP acts on what it was handed.                                         *)
LEMMA VppDecides ==
  ASSUME RInv, Vpp
  PROVE  \E k \in Keys : Ledger!Execute(k) \/ Ledger!Refuse(k)
<1>0. inflight \subseteq Keys
  BY DEF RInv, SInv, DInv, IInv, TypeOK
<1>1. PICK k \in inflight : /\ inflight' = inflight \ {k}
                           /\ UNCHANGED <<state, body, sessions, lease, file>>
                           /\ (effects' = [effects EXCEPT ![k] = @ + 1] \/ UNCHANGED effects)
  BY DEF Vpp, VppApplies, VppRejects, VppActs, disk, journal, jobs
<1>2. UNCHANGED LedgerPhase /\ UNCHANGED LedgerAsked /\ UNCHANGED LedgerTold
  BY <1>1, PhaseSame, AskedSame, ToldSame
<1> QED
  BY <1>0, <1>1, <1>2 DEF Ledger!Execute, Ledger!Refuse

(* The worker hands VPP the call that runs, which was never handed over.   *)
LEMMA WorkerSendsIt ==
  ASSUME RInv, WorkerSends
  PROVE  \E k \in Keys : Ledger!Send(k)
<1>0. TypeOK /\ WorkerHolds /\ task = "queued" /\ DOMAIN file = Keys
  BY DEF RInv, SInv, DInv, IInv, Safe, TypeOK, WorkerSends
<1>1. /\ active \in Keys /\ state[active] = "running" /\ effects[active] = 0
      /\ active \notin inflight
  BY <1>0 DEF WorkerHolds, TypeOK
<1>2. /\ body[active].method = "backend" /\ inflight' = inflight \cup {active}
      /\ Write(active, Partial) /\ UNCHANGED <<state, body, sessions, lease, effects>>
  BY DEF WorkerSends, journal, jobs
<1>3. UNCHANGED LedgerPhase /\ UNCHANGED LedgerAsked
  BY <1>2, PhaseSame, AskedSame
<1>4. UNCHANGED LedgerTold
  <2>1. \A j \in Keys \ {active} : file'[j] = file[j]
    BY <1>0, <1>2 DEF Write
  <2> QED
    BY <1>1, <1>2, <2>1, ToldSame
<1>5. LedgerPhase[active] = "running" /\ LedgerAsked[active] = "call"
  BY <1>1, <1>2 DEF LedgerPhase, LedgerAsked
<1> QED
  BY <1>1, <1>2, <1>3, <1>4, <1>5 DEF Ledger!Send

(* Every step of the gateway is a step of the ledger, or leaves it alone.  *)
LEMMA StepRefines == RInv /\ [Next]_vars => [Ledger!Next]_Ledger!vars
<1> SUFFICES ASSUME RInv, [Next]_vars PROVE [Ledger!Next]_Ledger!vars
  OBVIOUS
<1>0. /\ TypeOK /\ TypeOK' /\ IInv /\ MainHolds /\ WorkerHolds /\ Referential /\ TodoLive
      /\ Written /\ DOMAIN file = Keys
  <2>1. RInv'
    BY StepRInv
  <2> QED
    BY <2>1 DEF RInv, SInv, DInv, IInv, Safe, TypeOK
<1>1. CASE UNCHANGED Seen
  BY <1>1, SeenStutters
<1>2. CASE \E k \in Keys : \/ Ledger!Admit(k) \/ Ledger!Start(k) \/ Ledger!Send(k)
                           \/ Ledger!Execute(k) \/ Ledger!Refuse(k) \/ Ledger!Lose(k)
                           \/ \E v \in Ledger!Verdicts : Ledger!Finish(k, v)
  BY <1>2, LedgerFacts DEF Ledger!Next
<1>3. CASE \E s \in Sids : Ledger!Expire(s)
  BY <1>3 DEF Ledger!Next
(* Writes to the file of a job that is not done.                           *)
<1>4. ASSUME NEW k \in Keys, NEW f, Write(k, f), state[k] # "done",
             UNCHANGED <<state, body, sessions, inflight, effects>>,
             \A s \in Sids : lease'[s] # lease[s] => s \in sessions
      PROVE  UNCHANGED Ledger!vars
  <2>1. \A j \in Keys \ {k} : file'[j] = file[j]
    BY <1>0, <1>4 DEF Write
  <2>2. UNCHANGED LedgerTold
    BY <1>4, <2>1, ToldSame
  <2>3. UNCHANGED LedgerAsked
    BY <1>4, AskedSame
  <2>4. UNCHANGED LedgerPhase
    BY <1>4, KeyFacts, PhaseSame
  <2> QED
    BY <1>4, <2>2, <2>3, <2>4 DEF Ledger!vars
<1>5. CASE WorkerStep /\ ~WorkerSends
  <2>1. /\ task \in {"queued", "sent"} /\ \E f : Write(active, f)
        /\ UNCHANGED <<state, body, sessions, lease, inflight, effects>>
    BY <1>5 DEF WorkerStep, WorkerRefuses, WorkerDescribes, WorkerAnswers,
       WorkerGivesUp, Finish, journal, jobs, vpp
  <2>2. active \in Keys /\ state[active] # "done"
    BY <1>0, <2>1 DEF WorkerHolds, TypeOK
  <2> QED
    BY <1>4, <2>1, <2>2
<1>6. CASE Vpp \/ WorkerSends
  BY <1>2, <1>6, VppDecides, WorkerSendsIt
<1>7. CASE Client \/ Tick \/ Disconnect \/ WorkerFails \/ UNCHANGED vars
  BY <1>1, <1>7 DEF Client, Send, Acknowledge, Tick, Disconnect,
     WorkerFails, vars, disk, journal, jobs, vpp, Seen
<1>8. CASE LoseFile \/ Unlink
  <2>1. /\ UNCHANGED <<state, body, sessions, lease, inflight, effects>>
        /\ \E k \in Keys : Write(k, Absent)
    BY <1>8 DEF LoseFile, Unlink, JobsOf, Journaled, journal, jobs, vpp
  <2> QED
    BY <1>2, <2>1, UnlinkLoses
<1>9. CASE RecoverWrites \/ RecoverDies
  <2>1. PICK k \in Keys, f \in {Reply("unknown", 1), Partial} :
          NeedsRecovery(k) /\ Write(k, f)
    BY <1>9 DEF RecoverWrites, RecoverDies
  <2>2. UNCHANGED <<state, body, sessions, lease, inflight, effects>>
    BY <1>9 DEF RecoverWrites, RecoverDies, journal, jobs, vpp
  <2>3. CASE state[k] # "done"
    BY <1>4, <2>1, <2>2, <2>3
  <2>4. CASE state[k] = "done"
    <3>1. /\ file[k].out = "absent" /\ file'[k].out \in {"unknown", "partial"}
          /\ \A j \in Keys \ {k} : file'[j] = file[j]
      BY <1>0, <2>1, <2>4, ReplyFacts DEF NeedsRecovery, Write, Partial
    <3>2. UNCHANGED LedgerTold
      BY <2>2, <3>1, ToldSame
    <3>3. UNCHANGED LedgerAsked /\ UNCHANGED LedgerPhase
      BY <2>2, AskedSame, PhaseSame
    <3> QED
      BY <2>2, <3>2, <3>3 DEF Ledger!vars
  <2> QED
    BY <2>3, <2>4
<1>10. CASE LaunchLocal
  <2>1. /\ pc = "launch" /\ UNCHANGED <<state, body, sessions, inflight, effects>>
        /\ \E f : Write(<<sid, id>>, f)
        /\ (UNCHANGED lease \/ lease' = [lease EXCEPT ![sid] = now + LeaseTime])
    BY <1>10 DEF LaunchLocal, jobs, vpp
  <2>2. <<sid, id>> \in Keys /\ state[<<sid, id>>] = "running" /\ sid \in Sids
    BY <1>0, <2>1, KeyFacts DEF MainHolds
  <2>3. sid \in sessions
    BY <1>0, <2>2, KeyFacts DEF Referential
  <2>4. \A s \in Sids : lease'[s] # lease[s] => s \in sessions
    BY <1>0, <2>1, <2>3 DEF TypeOK
  <2> QED
    BY <1>4, <2>1, <2>2, <2>4
<1>11. CASE Register
  <2>1. UNCHANGED <<state, body, file, inflight, effects>>
    BY <1>11 DEF Register, jobs, vpp
  <2>2. \A s \in Sids : (s \in sessions' \/ lease'[s] = 0) <=> (s \in sessions \/ lease[s] = 0)
    <3>1. CASE UNCHANGED <<sessions, lease>>
      BY <3>1
    <3>2. CASE \E s \in Sids : /\ lease[s] = 0 /\ sessions' = sessions \cup {s}
                               /\ lease' = [lease EXCEPT ![s] = now + LeaseTime]
      BY <1>0, <3>2 DEF TypeOK
    <3> QED
      BY <1>11, <3>1, <3>2 DEF Register
  <2>3. UNCHANGED LedgerPhase
    BY <2>1, <2>2, KeyFacts, PhaseSame
  <2>4. UNCHANGED LedgerAsked /\ UNCHANGED LedgerTold
    BY <2>1, AskedSame, ToldSame
  <2> QED
    BY <2>1, <2>3, <2>4 DEF Ledger!vars
<1>12. CASE \/ Restart \/ RecoverEnds \/ Connect \/ Reconnect \/ ConnectFails \/ Cleanup
            \/ DropStreams \/ ReceiveEnds \/ PublishReply \/ Remove \/ DeliverEnds \/ Submit
            \/ Crash \/ Stop
  BY <1>1, <1>12 DEF Restart, RecoverEnds, Connect, Reconnect, ConnectFails, Cleanup,
     DropStreams, ReceiveEnds, PublishReply, Remove, DeliverEnds, Submit, Crash, Stop, disk,
     journal, jobs, vpp, Seen
<1>13. CASE Deliver \/ StoreOffset
  BY <1>1, <1>13 DEF Deliver, StoreOffset, disk, journal, jobs, vpp, Seen
<1>14. ASSUME NEW k \in Keys, MarkDone(k), state[k] \in {"running", "done"}, Whole(k),
              UNCHANGED <<sessions, lease, file, inflight, effects>>
       PROVE  [Ledger!Next]_Ledger!vars
  BY <1>0, <1>2, <1>14, MarkFinishes
<1>15. CASE RecoverMarks \/ MarkLocal
  <2>1. /\ pc \in {"recovered", "mark"} /\ MarkDone(<<sid, id>>)
        /\ UNCHANGED <<sessions, lease, file, inflight, effects>>
    BY <1>15 DEF RecoverMarks, MarkLocal, vpp
  <2>2. /\ <<sid, id>> \in Keys /\ state[<<sid, id>>] \in {"running", "done"}
        /\ Whole(<<sid, id>>)
    BY <1>0, <2>1, KeyFacts DEF MainHolds, Written
  <2> QED
    BY <1>14, <2>1, <2>2
<1>16. CASE CompleteWorker \/ StopEnds
  <2>1. /\ UNCHANGED <<sessions, lease, file, inflight, effects>>
        /\ \/ UNCHANGED <<state, body>>
           \/ task = "ready" /\ MarkDone(active)
    BY <1>16 DEF CompleteWorker, StopEnds, Collect, jobs, vpp
  <2>2. task = "ready" => active \in Keys /\ state[active] = "running" /\ Whole(active)
    BY <1>0 DEF WorkerHolds, TypeOK, Written
  <2> QED
    BY <1>1, <1>14, <2>1, <2>2 DEF Seen
<1>17. CASE Forget
  BY <1>0, <1>3, <1>17, ForgetExpires
<1>18. CASE StartJob
  BY <1>0, <1>2, <1>18, StartStarts
<1>19. CASE Receive
  <2>1. UNCHANGED <<sessions, lease, file, inflight, effects>> /\ pc = "receive"
    BY <1>19 DEF Receive, vpp
  <2>2. PICK s \in todo : Read(s) \/ UNCHANGED <<state, body>>
    BY <1>19 DEF Receive, jobs
  <2>3. CASE Read(s)
    <3> DEFINE m == stream[s].log[stream[s].head + 1]
    <3>1. s \in Sids /\ s \in sessions
      BY <1>0, <2>1 DEF TodoLive, TypeOK
    <3>2. m \in Messages /\ <<s, m.id>> \in Keys
      BY <1>0, <2>3, <3>1, EntryType DEF Read
    <3>3. \/ Verdict(s, m) = "admit" /\ Insert(<<s, m.id>>, m)
          \/ UNCHANGED <<state, body>>
      BY <2>3 DEF Read, jobs
    <3>4. Verdict(s, m) = "admit" => state[<<s, m.id>>] = "none"
      BY AdmitFresh
    <3>5. <<s, m.id>>[1] \in sessions
      BY <3>1
    <3> HIDE DEF m
    <3>6. CASE Verdict(s, m) = "admit" /\ Insert(<<s, m.id>>, m)
      BY <1>0, <1>2, <2>1, <3>2, <3>4, <3>5, <3>6, InsertAdmits
    <3> QED
      BY <1>1, <2>1, <3>3, <3>6 DEF Seen
  <2> QED
    BY <1>1, <2>1, <2>2, <2>3 DEF Seen
<1> QED
  BY <1>5, <1>6, <1>7, <1>8, <1>9, <1>10, <1>11, <1>12, <1>13, <1>15, <1>16, <1>17, <1>18,
     <1>19, StepKinds DEF Outside, Passing

(* Initial states are the ledger's.                                        *)
LEMMA InitRefines == Init => RInv /\ Ledger!Init
<1> SUFFICES ASSUME Init PROVE RInv /\ Ledger!Init
  OBVIOUS
<1>1. RInv
  BY InitSInv DEF Init, RInv, PickedLeased
<1>2. LedgerPhase = [k \in Keys |-> "new"]
  BY KeyFacts DEF Init, LedgerPhase
<1>3. LedgerAsked = [k \in Keys |-> "nothing"] /\ LedgerTold = [k \in Keys |-> "nothing"]
  BY DEF Init, LedgerAsked, LedgerTold
<1> QED
  BY <1>1, <1>2, <1>3, LedgerFacts DEF Ledger!Init, Init

(* RInv is an invariant.                                                   *)
LEMMA RInvHolds == Spec => []RInv
<1>1. Init => RInv
  BY InitRefines
<1> QED
  BY <1>1, StepRInv, PTL DEF Spec

(* The gateway keeps the promises of the ledger, whatever the bounds, the  *)
(* failures and the interleaving: a request is accepted at most once, runs *)
(* alone and at most once, and gets one verdict that never improves.       *)
THEOREM GatewayImplementsLedger == Spec => LedgerSpec
<1>1. Spec => []RInv
  BY RInvHolds
<1>2. Spec => Ledger!Init
  BY InitRefines DEF Spec
<1>3. Spec => [][Ledger!Next]_Ledger!vars
  BY <1>1, StepRefines, PTL DEF Spec
<1> QED
  BY <1>2, <1>3, PTL DEF LedgerSpec, Ledger!Spec

-----------------------------------------------------------------------------
(* What the ledger promises, and so the gateway.                           *)

(* Each step of the ledger keeps its promises and is part of a life.       *)
LEMMA LedgerStep ==
  ASSUME Ledger!TypeOK, Ledger!Promises, [Ledger!Next]_Ledger!vars
  PROVE  /\ Ledger!TypeOK' /\ Ledger!Promises'
         /\ [Ledger!Life]_Ledger!vars
<1>0. /\ LedgerPhase \in [Keys -> {"new", "queued", "running", "done", "gone"}]
      /\ LedgerAsked \in [Keys -> {"nothing", "call", "other"}]
      /\ inflight \subseteq Keys /\ effects \in [Keys -> Nat]
      /\ LedgerTold \in [Keys -> {"result", "error", "unknown", "nothing"}]
      /\ Ledger!Keys = Keys /\ Ledger!Verdicts = {"result", "error", "unknown"}
  BY LedgerFacts DEF Ledger!TypeOK, Ledger!Verdicts
<1>1. CASE UNCHANGED Ledger!vars
  BY <1>1 DEF Ledger!vars, Ledger!TypeOK, Ledger!Promises
<1>2. ASSUME NEW k \in Keys, Ledger!Admit(k)
      PROVE  Ledger!TypeOK' /\ Ledger!Promises' /\ Ledger!Life
  <2>1. PICK a \in {"call", "other"} : LedgerAsked' = [LedgerAsked EXCEPT ![k] = a]
    BY <1>2 DEF Ledger!Admit
  <2>2. /\ LedgerPhase[k] = "new" /\ LedgerPhase'[k] = "queued"
        /\ LedgerPhase' \in [Keys -> {"new", "queued", "running", "done", "gone"}]
        /\ \A j \in Keys \ {k} : LedgerPhase'[j] = LedgerPhase[j]
    BY <1>0, <1>2 DEF Ledger!Admit
  <2>3. /\ LedgerAsked' \in [Keys -> {"nothing", "call", "other"}]
        /\ \A j \in Keys \ {k} : LedgerAsked'[j] = LedgerAsked[j]
    BY <1>0, <2>1
  <2>4. UNCHANGED <<inflight, effects, LedgerTold>>
    BY <1>2 DEF Ledger!Admit
  <2>5. Ledger!TypeOK'
    BY <1>0, <2>2, <2>3, <2>4 DEF Ledger!TypeOK
  <2>6. Ledger!Promises'
    BY <1>0, <2>2, <2>3, <2>4 DEF Ledger!Promises
  <2>7. Ledger!Life
    BY <1>0, <2>2, <2>3, <2>4 DEF Ledger!Life, Ledger!Later
  <2> QED
    BY <2>5, <2>6, <2>7
<1>3. ASSUME NEW k \in Keys, Ledger!Start(k)
      PROVE  Ledger!TypeOK' /\ Ledger!Promises' /\ Ledger!Life
  <2>1. /\ LedgerPhase[k] = "queued" /\ LedgerPhase'[k] = "running"
        /\ LedgerPhase' \in [Keys -> {"new", "queued", "running", "done", "gone"}]
        /\ \A j \in Keys \ {k} : LedgerPhase'[j] = LedgerPhase[j]
        /\ \A j \in Keys : LedgerPhase[j] # "running"
    BY <1>0, <1>3 DEF Ledger!Start
  <2>2. UNCHANGED <<LedgerAsked, inflight, effects, LedgerTold>>
    BY <1>3 DEF Ledger!Start
  <2>3. Ledger!TypeOK'
    BY <1>0, <2>1, <2>2 DEF Ledger!TypeOK
  <2>4. Ledger!Promises'
    BY <1>0, <2>1, <2>2 DEF Ledger!Promises
  <2>5. Ledger!Life
    BY <1>0, <2>1, <2>2 DEF Ledger!Life, Ledger!Later
  <2> QED
    BY <2>3, <2>4, <2>5
<1>4. ASSUME NEW k \in Keys, Ledger!Send(k)
      PROVE  Ledger!TypeOK' /\ Ledger!Promises' /\ Ledger!Life
  BY <1>0, <1>4 DEF Ledger!Send, Ledger!TypeOK, Ledger!Promises, Ledger!Life, Ledger!Later
<1>5. ASSUME NEW k \in Keys, Ledger!Execute(k) \/ Ledger!Refuse(k)
      PROVE  Ledger!TypeOK' /\ Ledger!Promises' /\ Ledger!Life
  <2>1. /\ k \in inflight /\ inflight' = inflight \ {k} /\ effects[k] = 0
        /\ UNCHANGED <<LedgerPhase, LedgerAsked, LedgerTold>>
    BY <1>0, <1>5 DEF Ledger!Execute, Ledger!Refuse, Ledger!Promises
  <2>2. /\ effects' \in [Keys -> Nat] /\ effects'[k] \in 0..1
        /\ \A j \in Keys \ {k} : effects'[j] = effects[j]
    BY <1>0, <1>5, <2>1 DEF Ledger!Execute, Ledger!Refuse
  <2>3. Ledger!TypeOK'
    BY <1>0, <2>1, <2>2 DEF Ledger!TypeOK
  <2>4. Ledger!Promises'
    BY <1>0, <2>1, <2>2 DEF Ledger!Promises
  <2>5. Ledger!Life
    BY <1>0, <2>1, <2>2 DEF Ledger!Life, Ledger!Later
  <2> QED
    BY <2>3, <2>4, <2>5
<1>6. ASSUME NEW k \in Keys, NEW v \in Ledger!Verdicts, Ledger!Finish(k, v)
      PROVE  Ledger!TypeOK' /\ Ledger!Promises' /\ Ledger!Life
  <2>1. /\ LedgerPhase[k] = "running" /\ LedgerPhase'[k] = "done"
        /\ LedgerPhase' \in [Keys -> {"new", "queued", "running", "done", "gone"}]
        /\ \A j \in Keys \ {k} : LedgerPhase'[j] = LedgerPhase[j]
    BY <1>0, <1>6 DEF Ledger!Finish
  <2>2. /\ LedgerTold'[k] = v
        /\ LedgerTold' \in [Keys -> {"result", "error", "unknown", "nothing"}]
        /\ \A j \in Keys \ {k} : LedgerTold'[j] = LedgerTold[j]
    BY <1>0, <1>6 DEF Ledger!Finish
  <2>3. /\ UNCHANGED <<LedgerAsked, inflight, effects>>
        /\ (v = "result" /\ LedgerAsked[k] = "call" => effects[k] = 1)
    BY <1>6 DEF Ledger!Finish
  <2>4. Ledger!TypeOK'
    BY <1>0, <2>1, <2>2, <2>3 DEF Ledger!TypeOK
  <2>5. Ledger!Promises'
    BY <1>0, <2>1, <2>2, <2>3 DEF Ledger!Promises
  <2>6. Ledger!Life
    BY <1>0, <2>1, <2>2, <2>3 DEF Ledger!Life, Ledger!Later
  <2> QED
    BY <2>4, <2>5, <2>6
<1>7. ASSUME NEW k \in Keys, Ledger!Lose(k)
      PROVE  Ledger!TypeOK' /\ Ledger!Promises' /\ Ledger!Life
  <2>1. /\ LedgerTold'[k] = "unknown" /\ LedgerPhase[k] = "done"
        /\ LedgerTold' \in [Keys -> {"result", "error", "unknown", "nothing"}]
        /\ \A j \in Keys \ {k} : LedgerTold'[j] = LedgerTold[j]
    BY <1>0, <1>7 DEF Ledger!Lose
  <2>2. UNCHANGED <<LedgerPhase, LedgerAsked, inflight, effects>>
    BY <1>7 DEF Ledger!Lose
  <2>3. Ledger!TypeOK'
    BY <1>0, <2>1, <2>2 DEF Ledger!TypeOK
  <2>4. Ledger!Promises'
    BY <1>0, <2>1, <2>2 DEF Ledger!Promises
  <2>5. Ledger!Life
    BY <1>0, <2>1, <2>2 DEF Ledger!Life, Ledger!Later
  <2> QED
    BY <2>3, <2>4, <2>5
<1>8. ASSUME NEW s \in Sids, Ledger!Expire(s)
      PROVE  Ledger!TypeOK' /\ Ledger!Promises' /\ Ledger!Life
  <2>1. /\ LedgerPhase' \in [Keys -> {"new", "queued", "running", "done", "gone"}]
        /\ LedgerAsked' \in [Keys -> {"nothing", "call", "other"}]
        /\ LedgerTold' \in [Keys -> {"result", "error", "unknown", "nothing"}]
    BY <1>0, <1>8 DEF Ledger!Expire
  <2>2. UNCHANGED <<inflight, effects>>
    BY <1>8 DEF Ledger!Expire
  <2>3. \A k \in Keys : k[1] = s =>
          /\ LedgerPhase[k] # "running" /\ LedgerPhase'[k] = "gone"
          /\ LedgerAsked'[k] = "nothing" /\ LedgerTold'[k] = "nothing"
    BY <1>0, <1>8 DEF Ledger!Expire
  <2>4. \A k \in Keys : k[1] # s =>
          /\ LedgerPhase'[k] = LedgerPhase[k] /\ LedgerAsked'[k] = LedgerAsked[k]
          /\ LedgerTold'[k] = LedgerTold[k]
    BY <1>0, <1>8 DEF Ledger!Expire
  <2>5. Ledger!TypeOK'
    BY <1>0, <2>1, <2>2 DEF Ledger!TypeOK
  <2>6. Ledger!Promises'
    BY <1>0, <2>1, <2>2, <2>3, <2>4 DEF Ledger!Promises
  <2>7. Ledger!Life
    BY <1>0, <2>1, <2>2, <2>3, <2>4 DEF Ledger!Life, Ledger!Later
  <2> QED
    BY <2>5, <2>6, <2>7
<1> QED
  BY <1>0, <1>1, <1>2, <1>3, <1>4, <1>5, <1>6, <1>7, <1>8 DEF Ledger!Next

(* Whatever implements the ledger keeps its promises, and its requests     *)
(* live in order.                                                          *)
LEMMA LedgerIsSafe == LedgerSpec => []Ledger!Promises /\ Ledger!Lives
<1>1. Ledger!Init => Ledger!TypeOK /\ Ledger!Promises
  BY LedgerFacts DEF Ledger!Init, Ledger!TypeOK, Ledger!Promises
<1>2. LedgerSpec => [](Ledger!TypeOK /\ Ledger!Promises)
  BY <1>1, LedgerStep, PTL DEF LedgerSpec, Ledger!Spec
<1> QED
  BY <1>2, LedgerStep, PTL DEF LedgerSpec, Ledger!Spec, Ledger!Lives

(* At every moment of every run of the gateway, through crashes, recovery  *)
(* and cleanup: at most one request runs; VPP has carried out, or may yet  *)
(* carry out, only calls that ran, each at most once; a told result was    *)
(* carried out; and there is a verdict exactly for the done ones.          *)
THEOREM GatewayKeepsPromises == Spec => []Ledger!Promises
BY GatewayImplementsLedger, LedgerIsSafe, PTL

(* A request of the gateway goes through its life in order and once, and   *)
(* its verdict never improves.                                             *)
THEOREM GatewayLives == Spec => Ledger!Lives
BY GatewayImplementsLedger, LedgerIsSafe, PTL

(* One request of the mapped ledger, read back in the journal.             *)
LEMMA ReadBack ==
  ASSUME RInv, NEW k \in Keys
  PROVE  /\ (LedgerPhase[k] = "gone" <=> Gone(k)) /\ state[k] \in States
         /\ (state[k] # "none" => LedgerPhase[k] = state[k])
         /\ (state[k] = "none" => LedgerPhase[k] \in {"new", "gone"})
<1>1. Referential /\ state[k] \in States
  BY DEF RInv, SInv, DInv, IInv, Safe, TypeOK
<1> QED
  BY <1>1, LedgerFacts DEF Referential, Gone, States

(* A step of a life is one of the rows' steps.                             *)
LEMMA LifeOfRows ==
  ASSUME RInv, RInv', [Ledger!Life]_Ledger!vars
  PROVE  RowLife
<1> SUFFICES ASSUME NEW k \in Keys
             PROVE  /\ state'[k] # state[k] =>
                         \/ <<state[k], state'[k]>> \in {<<"none", "queued">>,
                              <<"queued", "running">>, <<"running", "done">>}
                         \/ state[k] \in {"queued", "done"} /\ state'[k] = "none" /\ Gone(k)'
                    /\ Gone(k) => Gone(k)'
                    /\ k \in inflight' \ inflight => state[k] = "running" /\ effects[k] = 0
                    /\ effects'[k] # effects[k] => k \in inflight
  BY DEF RowLife
<1>1. /\ (LedgerPhase[k] = "gone" <=> Gone(k)) /\ state[k] \in States
      /\ (state[k] # "none" => LedgerPhase[k] = state[k])
      /\ (state[k] = "none" => LedgerPhase[k] \in {"new", "gone"})
  BY ReadBack
<1>2. /\ (LedgerPhase'[k] = "gone" <=> Gone(k)') /\ state'[k] \in States
      /\ (state'[k] # "none" => LedgerPhase'[k] = state'[k])
      /\ (state'[k] = "none" => LedgerPhase'[k] \in {"new", "gone"})
  <2>1. Referential' /\ state'[k] \in States
    BY DEF RInv, SInv, DInv, IInv, Safe, TypeOK
  <2>2. LedgerPhase'[k] = IF state'[k] # "none" THEN state'[k]
                          ELSE IF k[1] \in sessions' \/ lease'[k[1]] = 0 THEN "new" ELSE "gone"
    BY DEF LedgerPhase
  <2> QED
    BY <2>1, <2>2 DEF Referential, Gone, States
<1>3. /\ LedgerPhase'[k] \in Ledger!Later[LedgerPhase[k]] \cup {LedgerPhase[k]}
      /\ (k \in inflight' \ inflight => LedgerPhase[k] = "running" /\ effects[k] = 0)
      /\ (effects'[k] # effects[k] => k \in inflight)
  <2>1. CASE Ledger!Life
    BY <2>1, LedgerFacts DEF Ledger!Life
  <2>2. CASE UNCHANGED Ledger!vars
    BY <2>2 DEF Ledger!vars
  <2> QED
    BY <2>1, <2>2
<1>4. /\ LedgerPhase[k] \in {"new", "queued", "running", "done", "gone"}
      /\ (LedgerPhase[k] = "new" => LedgerPhase'[k] \in {"new", "queued", "gone"})
      /\ (LedgerPhase[k] = "queued" => LedgerPhase'[k] \in {"queued", "running", "gone"})
      /\ (LedgerPhase[k] = "running" => LedgerPhase'[k] \in {"running", "done"})
      /\ (LedgerPhase[k] = "done" => LedgerPhase'[k] \in {"done", "gone"})
      /\ (LedgerPhase[k] = "gone" => LedgerPhase'[k] = "gone")
  BY <1>1, <1>3 DEF Ledger!Later, States
<1>5. state[k] = "running" <=> LedgerPhase[k] = "running"
  BY <1>1
<1> QED
  BY <1>1, <1>2, <1>3, <1>4, <1>5 DEF States

(* The journal's rows only move forward and end with their sessions, a     *)
(* session that is gone stays gone, and VPP acts on a request only after a *)
(* running row handed it over.                                             *)
THEOREM RowsMoveForward == Spec => RowsLive
<1>1. RInv /\ RInv' /\ [Ledger!Life]_Ledger!vars => [RowLife]_vars
  BY LifeOfRows
<1> QED
  BY <1>1, RInvHolds, GatewayLives, PTL DEF RowsLive, Ledger!Lives
=============================================================================
