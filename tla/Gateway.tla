------------------------------ MODULE Gateway ------------------------------
(***************************************************************************)
(* The request path of the gateway (src/main.cc, class ApiServer): one     *)
(* main thread that polls Redis, a SQLite journal, one spool file for each *)
(* journaled request, and a worker thread that alone talks to VPP.         *)
(*                                                                         *)
(* The main thread is strictly sequential, so its position is kept in pc   *)
(* and every step that has a durable or external effect (a SQLite          *)
(* statement, a Redis command, a file written or unlinked) is a step of    *)
(* its own: the process may die between any two of them.  Only Read joins  *)
(* three commands: XRANGE changes nothing, EXPIRE no more than the time    *)
(* Redis keeps the entries, and the INSERT or UPDATE that follows is the   *)
(* one statement of that step the journal sees.  Redis may carry out a     *)
(* command whose reply is lost.  VPP may act on a message long after the   *)
(* gateway has stopped waiting for it.                                     *)
(***************************************************************************)
EXTENDS Integers, Sequences, FiniteSets

CONSTANTS
  Sids,           \* session identifiers; RandomId never yields one twice
  Ids,            \* request identifiers, chosen by the clients
  Messages,       \* what clients may put on their request streams
  Nil,
  Window,         \* Limits::kWindow, frames a response stream may hold
  KSessions,      \* Limits::kSessions
  KJobsPerSession,\* Limits::kJobsPerSession
  KBodies,        \* retained request bodies over all sessions (16 MiB)
  Budget,         \* retained response frames over all sessions (256 MiB)
  SessionBudget,  \* retained response frames of one session (64 MiB)
  MinAvailable,   \* the 4096 bytes below which the backend is not called
  MaxFrames,      \* frames of the longest response
  LeaseTime,      \* Limits::kLeaseSeconds, in ticks
  MaxTime, MaxSends,  \* bounds: the clock, and entries of a request stream
  Allowed             \* bounds: how often each kind of failure may happen

(* backend: a call of VPP; catalog: answered by the worker without one     *)
(* (api.describe of a method, api.methods); local: answered by the main    *)
(* thread; chunk: transfer.chunk; invalid: text that ParseRequest rejects. *)
Methods == {"backend", "catalog", "renew", "local", "replay", "chunk",
            "invalid"}
Keys == Sids \X Ids
Failures == {"crash", "stop", "fault", "loss"}
States == {"none", "queued", "running", "done"}
Outcomes == {"absent", "partial", "result", "error", "unknown"}
Spools == [out : Outcomes, len : 0..MaxFrames]
Absent == [out |-> "absent", len |-> 0]
Partial == [out |-> "partial", len |-> 0]
Reply(o, l) == [out |-> o, len |-> l]

ASSUME ConstantsAssumption ==
  /\ IsFiniteSet(Sids) /\ IsFiniteSet(Ids)
  /\ Nil \notin Sids /\ Nil \notin Ids /\ Nil \notin Keys
  /\ Messages \subseteq [id : Ids, method : Methods, arg : Ids \cup {Nil}]
  /\ Nil \notin Messages
  /\ {Window, KSessions, KJobsPerSession, KBodies, Budget, SessionBudget,
      MinAvailable, MaxFrames, LeaseTime} \subseteq Nat \ {0}
  /\ MaxTime \in Nat /\ MaxSends \in Nat /\ Allowed \in [Failures -> Nat]

VARIABLES
  stream,     \* stream[s]: the two Redis streams of session s
  sessions,   \* journal, table sessions: the rows
  lease,      \*   expires (0: the sid was never handed out)
  state,      \* journal, table jobs: "none" where there is no row
  body,       \*   the request as admitted
  before,     \*   before[k]: the jobs with a smaller rowid than k
  offset,     \*   frames handed to Redis
  size,       \*   frames of the response
  file,       \* file[k]: the spool file of job k
  inflight,   \* VPP: jobs whose message VPP may still act on
  effects,    \* VPP: how often the operation of a job was carried out
  pc,         \* main thread
  todo,       \* sessions the current loop has yet to visit
  sid, id, n, \* locals: session, request, index of the stream entry
  connected,  \* the Redis context is usable
  lastCleanup,
  task,       \* worker: "none", "queued", "sent", "ready", "failed"
  active,     \* active_sid_ and active_id_
  answer,     \* VPP's reply to the message the worker waits on
  avail,      \* the spool budget handed to the worker
  now,
  spent,      \* how often each kind of failure has happened
  pub,        \* history: leading frames published since delivery (re)started
  answered    \* history: entries whose direct reply reached the stream

jobs    == <<state, body, before, offset, size>>
journal == <<sessions, lease, jobs>>
disk    == <<journal, file>>
vpp     == <<inflight, effects>>
locals  == <<sid, id, n>>
loop    == <<todo, locals, lastCleanup>>
worker  == <<task, active, answer, avail>>
memory  == <<loop, connected, worker>>
history == <<pub, answered>>
vars == <<stream, disk, vpp, pc, memory, now, spent, history>>

PCs == {"down", "recover", "recovered", "complete", "connect", "cleanup",
        "unlink", "forget", "register", "receive", "publish", "remove",
        "deliver", "offset", "start", "launch", "mark", "stopping"}

(* log: all entries ever appended to the request stream; head: how many of *)
(* them are gone; len: entries of the response stream; reqTTL, respTTL:    *)
(* when Redis drops the stream (0: never).                                 *)
Streams == [log : Seq(Messages), head : Nat, len : Nat,
            reqTTL : Nat, respTTL : Nat]

TypeOK ==
  /\ stream \in [Sids -> Streams]
  /\ sessions \subseteq Sids /\ lease \in [Sids -> Nat]
  /\ state \in [Keys -> States] /\ body \in [Keys -> Messages \cup {Nil}]
  /\ before \in [Keys -> SUBSET Keys]
  /\ offset \in [Keys -> Nat] /\ size \in [Keys -> 0..MaxFrames]
  /\ file \in [Keys -> Spools]
  /\ inflight \subseteq Keys /\ effects \in [Keys -> Nat]
  /\ pc \in PCs /\ todo \subseteq Sids
  /\ sid \in Sids \cup {Nil} /\ id \in Ids \cup {Nil} /\ n \in Nat
  /\ connected \in BOOLEAN /\ lastCleanup \in Nat
  /\ task \in {"none", "queued", "sent", "ready", "failed"}
  /\ active \in Keys \cup {Nil}
  /\ answer \in {"none", "ok", "rejected"} /\ avail \in Int
  /\ now \in Nat /\ spent \in [Failures -> Nat]
  /\ pub \in [Keys -> Nat] /\ answered \subseteq Sids \X Nat

Init ==
  /\ stream = [s \in Sids |-> [log |-> << >>, head |-> 0, len |-> 0,
                               reqTTL |-> 0, respTTL |-> 0]]
  /\ sessions = {} /\ lease = [s \in Sids |-> 0]
  /\ state = [k \in Keys |-> "none"] /\ body = [k \in Keys |-> Nil]
  /\ before = [k \in Keys |-> {}]
  /\ offset = [k \in Keys |-> 0] /\ size = [k \in Keys |-> 0]
  /\ file = [k \in Keys |-> Absent]
  /\ inflight = {} /\ effects = [k \in Keys |-> 0]
  /\ pc = "recover" /\ todo = {} /\ sid = Nil /\ id = Nil /\ n = 0
  /\ connected = FALSE /\ lastCleanup = 0
  /\ task = "none" /\ active = Nil /\ answer = "none" /\ avail = 0
  /\ now = 1 /\ spent = [f \in Failures |-> 0]
  /\ pub = [k \in Keys |-> 0] /\ answered = {}

-----------------------------------------------------------------------------
(* The journal.                                                            *)

Journaled == {k \in Keys : state[k] # "none"}
JobsOf(s) == {k \in Journaled : k[1] = s}
Queued == {k \in Keys : state[k] = "queued"}
LastFrameKept(s) ==
  {k \in Keys : k[1] = s /\ state[k] = "done" /\ offset[k] + 1 < size[k]}
Undelivered(s) ==
  {k \in Keys : k[1] = s /\ state[k] = "done" /\ offset[k] < size[k]}

(* ORDER BY rowid LIMIT 1 over the jobs in S.                              *)
IsAny(k, S) == k \in S
IsFirst(k, S) == k \in S /\ before[k] \cap S = {}

(* SUM(size), with one element of the set for each retained frame.         *)
Retained(S) == {p \in S \X (1..MaxFrames) : p[2] <= size[p[1]]}
OwnBudget(s) == SessionBudget - Cardinality(Retained({s} \X Ids))
Available(s) ==
  LET all == Budget - Cardinality(Retained(Keys)) IN
  IF all < OwnBudget(s) THEN all ELSE OwnBudget(s)

(* INSERT INTO jobs ... 'queued'.                                          *)
Insert(k, m) ==
  /\ state' = [state EXCEPT ![k] = "queued"]
  /\ body' = [body EXCEPT ![k] = m]
  /\ before' = [before EXCEPT ![k] = Journaled]
  /\ UNCHANGED <<offset, size, pub>>

(* Delivery of k starts over with its first frame.                         *)
RewindTooFar(k) == offset' = [offset EXCEPT ![k] = -1] /\ UNCHANGED pub
Rewind(k) ==
  /\ offset' = [offset EXCEPT ![k] = 0]
  /\ pub' = [pub EXCEPT ![k] = 0]

(* FileSize, in frames.                                                    *)
OneTooMany(k) == file[k].len + 1
FileSize(k) == file[k].len

(* UPDATE jobs SET state='done',size=?,offset=0.                           *)
MarkDone(k) ==
  /\ state' = [state EXCEPT ![k] = "done"]
  /\ size' = [size EXCEPT ![k] = FileSize(k)]
  /\ Rewind(k)
  /\ UNCHANGED <<body, before>>

Write(k, f) == file' = [file EXCEPT ![k] = f]

Spend(f) == spent[f] < Allowed[f] /\ spent' = [spent EXCEPT ![f] = @ + 1]

(* The process is gone: what it held in memory is lost; the journal, the   *)
(* spool, Redis and VPP stay.                                              *)
Exit ==
  /\ pc' = "down" /\ todo' = {} /\ sid' = Nil /\ id' = Nil /\ n' = 0
  /\ connected' = FALSE /\ lastCleanup' = 0
  /\ task' = "none" /\ active' = Nil /\ answer' = "none" /\ avail' = 0

Goto(p) == pc' = p /\ sid' = Nil /\ id' = Nil /\ n' = 0

-----------------------------------------------------------------------------
(* Redis commands.  The caller sees no reply when the context is broken;   *)
(* a command may also be carried out and its reply be lost, which breaks   *)
(* the context.                                                            *)

Heard == UNCHANGED <<connected, spent>>
Unheard == Spend("fault") /\ connected' = FALSE

CanPublish(s) == connected /\ stream[s].len < Window
Published(r) == [r EXCEPT !.len = @ + 1, !.respTTL = now + LeaseTime]
Publish(s) == stream' = [stream EXCEPT ![s] = Published(@)]

(* XDEL of the i-th entry; the gateway only ever deletes the oldest one.   *)
XdelNext(s, i) ==
  stream' = [stream EXCEPT ![s].head = IF @ = i THEN i + 1 ELSE @]
Xdel(s, i) == stream' = [stream EXCEPT ![s].head = IF @ = i - 1 THEN i ELSE @]

(* DEL of both streams.                                                    *)
Dropped(r) == [r EXCEPT !.head = Len(r.log), !.reqTTL = 0,
                        !.len = 0, !.respTTL = 0]

-----------------------------------------------------------------------------
(* Start-up: Recover.  Every running job, and every done job whose spool   *)
(* file is gone, gets the response outcome_unknown.                        *)

NotQueued(k) == state[k] \in {"running", "done"}
NeedsRecovery(k) ==
  \/ state[k] = "running"
  \/ state[k] = "done" /\ file[k].out = "absent"

Restart ==
  /\ pc = "down" /\ pc' = "recover"
  /\ UNCHANGED <<stream, disk, vpp, memory, now, spent, history>>

RecoverWrites ==
  /\ pc = "recover"
  /\ \E k \in Keys : /\ NeedsRecovery(k)
                     /\ Write(k, Reply("unknown", 1))
                     /\ sid' = k[1] /\ id' = k[2] /\ pc' = "recovered"
  /\ UNCHANGED <<stream, journal, vpp, todo, n, connected, lastCleanup, worker,
                 now, spent, history>>

(* The Spool constructor has emptied or created the file, and the process  *)
(* ends before the response is in it: killed, or the write failed.         *)
RecoverDies ==
  /\ pc = "recover" /\ Exit /\ Spend("crash")
  /\ \E k \in Keys : NeedsRecovery(k) /\ Write(k, Partial)
  /\ UNCHANGED <<stream, journal, vpp, now, history>>

Requeue ==
  /\ pc = "recovered" /\ Goto("recover")
  /\ state' = [state EXCEPT ![<<sid, id>>] = "queued"]
  /\ UNCHANGED <<stream, sessions, lease, body, before, offset, size, file,
                 vpp, todo, lastCleanup, connected, worker, now, spent, history>>
RecoverMarks ==
  /\ pc = "recovered" /\ MarkDone(<<sid, id>>) /\ Goto("recover")
  /\ UNCHANGED <<stream, sessions, lease, file, vpp, todo, lastCleanup,
                 connected, worker, now, spent, answered>>

RecoverEnds ==
  /\ pc = "recover" /\ (\A k \in Keys : ~NeedsRecovery(k)) /\ pc' = "complete"
  /\ UNCHANGED <<stream, disk, vpp, memory, now, spent, history>>

-----------------------------------------------------------------------------
(* The head of the loop: CompleteWorker, Connect, Cleanup, Register.       *)

Collect == MarkDone(active) /\ task' = "none" /\ active' = Nil
           /\ answer' = "none" /\ avail' = 0

CompleteWorker ==
  /\ pc = "complete"
  /\ \/ /\ task = "ready" /\ Collect /\ pc' = "connect"
        /\ UNCHANGED <<loop, connected>>
     \/ task = "failed" /\ Exit /\ UNCHANGED <<jobs, pub>>
     \/ /\ task \notin {"ready", "failed"} /\ pc' = "connect"
        /\ UNCHANGED <<jobs, memory, pub>>
  /\ UNCHANGED <<stream, sessions, lease, file, vpp, now, spent, answered>>

(* The loop body runs only with a usable connection; otherwise the thread  *)
(* sleeps and starts over.                                                 *)
Connect ==
  /\ pc = "connect" /\ connected
  /\ IF now # lastCleanup
       THEN pc' = "cleanup" /\ todo' = {s \in sessions : lease[s] <= now}
       ELSE pc' = "register" /\ UNCHANGED todo
  /\ UNCHANGED <<stream, disk, vpp, locals, lastCleanup, connected, worker,
                 now, spent, history>>

Reconnect ==
  /\ pc = "connect" /\ ~connected /\ connected' = TRUE
  /\ UNCHANGED <<stream, disk, vpp, pc, loop, worker, now, spent, history>>

ConnectFails ==
  /\ pc = "connect" /\ ~connected /\ pc' = "complete"
  /\ UNCHANGED <<stream, disk, vpp, memory, now, spent, history>>

(* An expired session is dropped unless its job is with the worker.        *)
NeverKept(s) == FALSE
Kept(s) == active # Nil /\ active[1] = s

Cleanup ==
  /\ pc = "cleanup"
  /\ \/ /\ todo = {} /\ pc' = "register" /\ lastCleanup' = now
        /\ UNCHANGED <<todo, sid>>
     \/ \E s \in todo :
          /\ todo' = todo \ {s} /\ UNCHANGED lastCleanup
          /\ IF Kept(s) THEN UNCHANGED <<pc, sid>>
                        ELSE pc' = "unlink" /\ sid' = s
  /\ UNCHANGED <<stream, disk, vpp, id, n, connected, worker, now, spent,
                 history>>

Unlink ==
  /\ pc = "unlink"
  /\ \E k \in JobsOf(sid) : file[k].out # "absent" /\ Write(k, Absent)
  /\ UNCHANGED <<stream, journal, vpp, pc, memory, now, spent, history>>

DropStreams ==
  /\ pc = "unlink" /\ \A k \in JobsOf(sid) : file[k].out = "absent"
  /\ pc' = "forget"
  /\ \/ ~connected /\ Heard /\ UNCHANGED stream
     \/ /\ connected /\ (Heard \/ Unheard)
        /\ stream' = [stream EXCEPT ![sid] = Dropped(@)]
  /\ UNCHANGED <<disk, vpp, loop, worker, now, history>>

(* DELETE FROM sessions, which cascades to jobs.                           *)
Forget ==
  LET gone == {sid} \X Ids
      Cleared(f, v) == [k \in Keys |-> IF k \in gone THEN v ELSE f[k]]
  IN
  /\ pc = "forget" /\ Goto("cleanup") /\ sessions' = sessions \ {sid}
  /\ state' = Cleared(state, "none") /\ body' = Cleared(body, Nil)
  /\ before' = [k \in Keys |-> IF k \in gone THEN {} ELSE before[k] \ gone]
  /\ offset' = Cleared(offset, 0) /\ size' = Cleared(size, 0)
  /\ pub' = Cleared(pub, 0)
  /\ UNCHANGED <<stream, lease, file, vpp, todo, lastCleanup, connected,
                 worker, now, spent, answered>>

(* Register, as far as the request path depends on it: a client may have   *)
(* asked for a session.  The loop then lists the sessions it will read.    *)
Register ==
  /\ pc = "register" /\ pc' = "receive"
  /\ \/ UNCHANGED <<sessions, lease>>
     \/ \E s \in Sids :
          /\ lease[s] = 0 /\ Cardinality(sessions) < KSessions
          /\ sessions' = sessions \cup {s}
          /\ lease' = [lease EXCEPT ![s] = now + LeaseTime]
  /\ todo' = {s \in sessions' : lease'[s] > now}
  /\ UNCHANGED <<stream, jobs, file, vpp, locals, lastCleanup, connected,
                 worker, now, spent, history>>

-----------------------------------------------------------------------------
(* Receive: the oldest entry of each session's request stream.             *)

(* What the gateway decides about message m of session s.  Upload chunks   *)
(* are answered at once, like everything it rejects, and never journaled.  *)
Verdict(s, m) ==
  LET old == state[<<s, m.id>>]
      target == IF m.arg = Nil THEN "none" ELSE state[<<s, m.arg>>]
  IN
  CASE m.method \in {"invalid", "chunk"} -> "answer"
    [] m.method \notin {"invalid", "chunk"} /\ old # "none" ->
         IF body[<<s, m.id>>] = m THEN "ignore" ELSE "answer"
    [] m.method = "replay" /\ old = "none" ->
         IF target = "none" THEN "answer"
         ELSE IF target = "done" THEN "rewind" ELSE "ignore"
    [] OTHER ->
         IF \/ Cardinality(JobsOf(s)) >= KJobsPerSession
            \/ Cardinality(Journaled) + 1 > KBodies
         THEN "answer" ELSE "admit"

Read(s) ==
  LET i == stream[s].head + 1
      m == stream[s].log[i]
      v == Verdict(s, m)
  IN
  /\ connected /\ i <= Len(stream[s].log)
  /\ sid' = s /\ n' = i
  /\ pc' = IF v = "answer" THEN "publish" ELSE "remove"
  /\ \/ /\ stream' = [stream EXCEPT ![s].reqTTL = now + LeaseTime]  \* EXPIRE
        /\ Heard \/ Unheard
     \/ Unheard /\ UNCHANGED stream
  /\ \/ v = "admit" /\ Insert(<<s, m.id>>, m)
     \/ v = "rewind" /\ Rewind(<<s, m.arg>>)
                     /\ UNCHANGED <<state, body, before, size>>
     \/ v \notin {"admit", "rewind"} /\ UNCHANGED <<jobs, pub>>

Receive ==
  /\ pc = "receive"
  /\ \E s \in todo :
       /\ todo' = todo \ {s}
       /\ \/ Read(s)
          \/ /\ ~connected \/ stream[s].head >= Len(stream[s].log)
             /\ UNCHANGED <<stream, jobs, pc, sid, n, connected, spent, pub>>
  /\ UNCHANGED <<sessions, lease, file, vpp, id, lastCleanup, worker, now,
                 answered>>

ReceiveEnds ==
  /\ pc = "receive" /\ todo = {} /\ pc' = "deliver" /\ todo' = sessions
  /\ UNCHANGED <<stream, disk, vpp, locals, lastCleanup, connected, worker,
                 now, spent, history>>

(* The direct reply of Receive.  Without a confirmed publication the entry *)
(* stays and is read again on the next turn.                               *)
RemoveAnyway == pc' = "remove" /\ UNCHANGED locals
KeepEntry == Goto("receive")

PublishReply ==
  /\ pc = "publish"
  /\ \/ /\ CanPublish(sid) /\ Publish(sid)
        /\ answered' = answered \cup {<<sid, n>>}
        /\ \/ Heard /\ pc' = "remove" /\ UNCHANGED locals
           \/ Unheard /\ KeepEntry
     \/ ~CanPublish(sid) /\ KeepEntry /\ Heard /\ UNCHANGED <<stream, answered>>
  /\ UNCHANGED <<disk, vpp, todo, lastCleanup, worker, now, pub>>

Remove ==
  /\ pc = "remove" /\ Goto("receive")
  /\ \/ ~connected /\ Heard /\ UNCHANGED stream
     \/ connected /\ Xdel(sid, n) /\ (Heard \/ Unheard)
  /\ UNCHANGED <<disk, vpp, todo, lastCleanup, worker, now, history>>

-----------------------------------------------------------------------------
(* Deliver: one frame of the oldest undelivered response of each session.  *)

DeliverOne(s, k) ==
  \/ /\ file[k].len <= offset[k]       \* Fail: cannot read retained response
     /\ Exit /\ UNCHANGED <<stream, spent, pub>>
  \/ /\ file[k].len > offset[k] /\ CanPublish(s) /\ Publish(s)
     /\ pub' = [pub EXCEPT ![k] = IF @ = offset[k] THEN @ + 1 ELSE @]
     /\ \/ Heard /\ pc' = "offset" /\ sid' = s /\ id' = k[2]
        \/ Unheard /\ UNCHANGED <<pc, sid, id>>
     /\ todo' = todo \ {s} /\ UNCHANGED <<n, lastCleanup, worker>>
  \/ /\ file[k].len > offset[k] /\ ~CanPublish(s) /\ todo' = todo \ {s}
     /\ UNCHANGED <<stream, pc, locals, lastCleanup, connected, worker, spent,
                    pub>>

Deliver ==
  /\ pc = "deliver"
  /\ \E s \in todo :
       \/ \E k \in Keys : IsFirst(k, Undelivered(s)) /\ DeliverOne(s, k)
       \/ /\ Undelivered(s) = {} /\ todo' = todo \ {s}
          /\ UNCHANGED <<stream, pc, locals, lastCleanup, connected, worker,
                         spent, pub>>
  /\ UNCHANGED <<disk, vpp, now, answered>>

DeliverEnds ==
  /\ pc = "deliver" /\ todo = {} /\ pc' = "start"
  /\ UNCHANGED <<stream, disk, vpp, memory, now, spent, history>>

SkipsOne(k) == offset[k] + 2
NextOffset(k) == offset[k] + 1

StoreOffset ==
  /\ pc = "offset" /\ Goto("deliver")
  /\ offset' = [offset EXCEPT ![<<sid, id>>] = NextOffset(<<sid, id>>)]
  /\ UNCHANGED <<stream, sessions, lease, state, body, before, size, file, vpp,
                 todo, lastCleanup, connected, worker, now, spent, history>>

-----------------------------------------------------------------------------
(* StartJob: the oldest queued job of any session, one at a time.          *)

NeverBusy == FALSE
WorkerBusy == task # "none"

StartJob ==
  /\ pc = "start"
  /\ \/ /\ WorkerBusy \/ Queued = {}
        /\ pc' = "complete" /\ UNCHANGED <<state, sid, id>>
     \/ /\ ~WorkerBusy
        /\ \E k \in Keys : /\ IsFirst(k, Queued)
                           /\ state' = [state EXCEPT ![k] = "running"]
                           /\ sid' = k[1] /\ id' = k[2] /\ pc' = "launch"
  /\ UNCHANGED <<stream, sessions, lease, body, before, offset, size, file, vpp,
                 todo, n, lastCleanup, connected, worker, now, spent, history>>

(* Methods the main thread answers itself, and a params_ref that does not  *)
(* resolve.                                                                *)
LaunchLocal ==
  LET k == <<sid, id>>  m == body[<<sid, id>>].method IN
  /\ pc = "launch" /\ pc' = "mark"
  /\ \/ /\ m = "renew" /\ Write(k, Reply("result", 1))
        /\ lease' = [lease EXCEPT ![sid] = now + LeaseTime]
     \/ /\ m = "local" /\ UNCHANGED lease
        /\ \E o \in {"result", "error"} : Write(k, Reply(o, 1))
     \/ m \in {"backend", "catalog"} /\ UNCHANGED lease
        /\ Write(k, Reply("error", 1))
  /\ UNCHANGED <<stream, sessions, jobs, vpp, memory, now, spent, history>>

MarkLocal ==
  /\ pc = "mark" /\ MarkDone(<<sid, id>>) /\ Goto("complete")
  /\ UNCHANGED <<stream, sessions, lease, file, vpp, todo, lastCleanup,
                 connected, worker, now, spent, answered>>

Submit ==
  /\ pc = "launch" /\ body[<<sid, id>>].method \in {"backend", "catalog"}
  /\ task' = "queued" /\ active' = <<sid, id>> /\ avail' = Available(sid)
  /\ Goto("complete")
  /\ UNCHANGED <<stream, disk, vpp, todo, lastCleanup, connected, answer, now,
                 spent, history>>

-----------------------------------------------------------------------------
(* The worker thread and VPP.                                              *)

Finish(o, l) ==
  /\ Write(active, Reply(o, l)) /\ task' = "ready"
  /\ UNCHANGED <<stream, journal, vpp, pc, loop, connected, active, answer,
                 avail, now, spent, history>>

(* No message leaves the gateway: no storage left for a response, bad      *)
(* parameters, unknown method, or no connection to VPP.                    *)
WorkerRefuses == task = "queued" /\ Finish("error", 1)

(* Answered from the generated catalog.                                    *)
WorkerDescribes ==
  /\ task = "queued" /\ avail >= MinAvailable
  /\ body[active].method = "catalog"
  /\ \E l \in 1..MaxFrames : l <= avail /\ Finish("result", l)

WorkerSends ==
  /\ task = "queued" /\ avail >= MinAvailable /\ task' = "sent"
  /\ body[active].method = "backend"
  /\ inflight' = inflight \cup {active} /\ Write(active, Partial)
  /\ UNCHANGED <<stream, journal, effects, pc, loop, connected, active, answer,
                 avail, now, spent, history>>

(* VPP's reply arrived.  It may still be turned into an error, when it     *)
(* does not decode or outgrows the spool budget.                           *)
WorkerAnswers ==
  /\ task = "sent"
  /\ \E l \in 1..MaxFrames :
       /\ l <= avail
       /\ \/ answer = "ok" /\ Finish("result", l)
          \/ answer \in {"ok", "rejected"} /\ Finish("error", l)

(* Deadline or broken VAPI connection: the operation may or may not have   *)
(* been, or may yet be, carried out.  An interface dump, which changes     *)
(* nothing, ends in an ordinary error.                                     *)
AssumesSuccess == task = "sent" /\ Finish("result", 1)
WorkerGivesUp ==
  /\ task = "sent"
  /\ \E o \in {"unknown", "error"}, l \in 1..MaxFrames :
       l <= avail /\ Finish(o, l)

(* The spool cannot be written or synced: the main thread will exit.       *)
WorkerFails ==
  /\ task \in {"queued", "sent"} /\ task' = "failed" /\ Spend("crash")
  /\ UNCHANGED <<stream, disk, vpp, pc, loop, connected, active, answer, avail,
                 now, history>>

VppActs(k, a) ==
  /\ inflight' = inflight \ {k}
  /\ answer' = IF task = "sent" /\ active = k THEN a ELSE answer
  /\ UNCHANGED <<stream, disk, pc, loop, connected, task, active, avail, now,
                 spent, history>>
VppApplies == \E k \in inflight :
  VppActs(k, "ok") /\ effects' = [effects EXCEPT ![k] = @ + 1]
VppRejects == \E k \in inflight : VppActs(k, "rejected") /\ UNCHANGED effects

-----------------------------------------------------------------------------
(* The environment: clients, time, failures, the administrator.            *)

Send ==
  /\ \E s \in Sids, m \in Messages :
       /\ lease[s] > 0 /\ Len(stream[s].log) < MaxSends
       /\ stream' = [stream EXCEPT ![s].log = Append(@, m)]
  /\ UNCHANGED <<disk, vpp, pc, memory, now, spent, history>>

(* A client has read a frame and deletes it from its response stream.      *)
Acknowledge(s) ==
  /\ stream[s].len > 0 /\ stream' = [stream EXCEPT ![s].len = @ - 1]
  /\ UNCHANGED <<disk, vpp, pc, memory, now, spent, history>>

(* Time passes; Redis drops the streams whose TTL has run out.             *)
Over(ttl) == ttl > 0 /\ ttl <= now + 1
Aged(r) == [r EXCEPT !.head = IF Over(r.reqTTL) THEN Len(r.log) ELSE @,
                     !.reqTTL = IF Over(@) THEN 0 ELSE @,
                     !.len = IF Over(r.respTTL) THEN 0 ELSE @,
                     !.respTTL = IF Over(@) THEN 0 ELSE @]
Tick ==
  /\ now < MaxTime /\ now' = now + 1
  /\ stream' = [s \in Sids |-> Aged(stream[s])]
  /\ UNCHANGED <<disk, vpp, pc, memory, spent, history>>

Disconnect ==
  /\ connected /\ Unheard
  /\ UNCHANGED <<stream, disk, vpp, pc, loop, worker, now, history>>

Crash ==
  /\ pc # "down" /\ Exit /\ Spend("crash")
  /\ UNCHANGED <<stream, disk, vpp, now, history>>

(* SIGTERM: the loop ends at its head, and the result of the job that is   *)
(* with the worker is retained before the process exits.                   *)
Stop ==
  /\ pc = "complete" /\ pc' = "stopping" /\ Spend("stop")
  /\ UNCHANGED <<stream, disk, vpp, memory, now, history>>

NoWait == TRUE
WorkerEnded == task \in {"none", "ready", "failed"}
StopEnds ==
  /\ pc = "stopping" /\ WorkerEnded /\ Exit
  /\ IF task = "ready" THEN MarkDone(active) ELSE UNCHANGED <<jobs, pub>>
  /\ UNCHANGED <<stream, sessions, lease, file, vpp, now, spent, answered>>

(* A retained response file disappears (disk fault, operator error), other *)
(* than the one that Recover has this moment rewritten.                    *)
LoseFile ==
  /\ pc # "recovered" /\ Spend("loss")
  /\ \E k \in Keys :
       state[k] = "done" /\ file[k].out # "absent" /\ Write(k, Absent)
  /\ UNCHANGED <<stream, journal, vpp, pc, memory, now, history>>

-----------------------------------------------------------------------------
Recovery == RecoverWrites \/ RecoverMarks \/ RecoverEnds
Loop ==
  \/ CompleteWorker \/ Connect \/ Reconnect \/ ConnectFails
  \/ Cleanup \/ Unlink \/ DropStreams \/ Forget \/ Register
  \/ Receive \/ ReceiveEnds \/ PublishReply \/ Remove
  \/ Deliver \/ DeliverEnds \/ StoreOffset
  \/ StartJob \/ LaunchLocal \/ MarkLocal \/ Submit \/ StopEnds
WorkerStep == \/ WorkerRefuses \/ WorkerDescribes \/ WorkerSends
              \/ WorkerAnswers \/ WorkerGivesUp
Vpp == VppApplies \/ VppRejects
Client == Send \/ \E s \in Sids : Acknowledge(s)
Failure == \/ Tick \/ Disconnect \/ Crash \/ RecoverDies \/ Stop \/ LoseFile
           \/ WorkerFails

Next == Restart \/ Recovery \/ Loop \/ WorkerStep \/ Vpp \/ Client \/ Failure
Spec == Init /\ [][Next]_vars
Fairness ==
  /\ WF_vars(Restart) /\ WF_vars(Recovery) /\ WF_vars(Loop)
  /\ SF_vars(Reconnect) /\ WF_vars(WorkerStep)
  /\ \A s \in Sids : WF_vars(Acknowledge(s))
FairSpec == Spec /\ Fairness

-----------------------------------------------------------------------------
(* What must hold.                                                         *)

(* A request is carried out by VPP at most once, and no second message for *)
(* it is ever under way, whatever crashes, lost replies and re-read        *)
(* entries do ("the durable journal prevents a second execution").         *)
AtMostOnce ==
  \A k \in Keys : effects[k] <= 1 /\ (k \in inflight => effects[k] = 0)

(* A retained result of a VPP call means that VPP carried the call out     *)
(* exactly once: recovery, timeouts and late replies never fake one.       *)
ResultHonest ==
  \A k \in Journaled :
    file[k].out = "result" /\ body[k].method = "backend" => effects[k] = 1

(* The delivery offset never passes a frame that was not published since   *)
(* delivery started or was last rewound: a client sees no gap.             *)
NoGap == \A k \in Keys : offset[k] <= pub[k]

(* Receive deletes an entry only after the request was journaled, was      *)
(* answered on the response stream, or was a replay of a retained job.     *)
Handled(s, i) ==
  LET m == stream[s].log[i] IN
  \/ <<s, i>> \in answered
  \/ state[<<s, m.id>>] # "none" /\ body[<<s, m.id>>] = m
  \/ m.method = "replay" /\ m.arg # Nil /\ state[<<s, m.arg>>] # "none"
RemovedOnlyIfHandled ==
  [][\A s \in Sids :
       pc = "remove" /\ now' = now /\ stream'[s].head # stream[s].head
         => Handled(s, stream[s].head + 1)]_vars

(* Once a job is done, its response stays as it is for as long as the      *)
(* lease of its session runs; only the disk itself may lose it.            *)
StableOutcome ==
  [][\A k \in Keys :
       /\ state[k] = "done" /\ lease[k[1]] > now
       /\ file[k].out # "absent" /\ spent'["loss"] = spent["loss"]
       => file'[k] = file[k]]_vars

(* Only one job is ever past "queued" and not yet done, and while the      *)
(* gateway is up it is the one its main thread or its worker holds.        *)
OneRunning ==
  \A j, k \in Keys : state[j] = "running" /\ state[k] = "running" => j = k

(* The job that is with the worker keeps its row and its session: cleanup  *)
(* never pulls them, so that CompleteWorker's MarkDone finds them.         *)
ActiveRetained ==
  task # "none" => /\ active # Nil
                   /\ active[1] \in sessions /\ state[active] = "running"

(* The fatal exits of Deliver and MarkDone for a missing or short response *)
(* file are not reached unless the disk loses a file.                      *)
NoFatalExit ==
  spent["loss"] = 0 =>
    /\ pc = "deliver" =>
         \A s \in todo : \A k \in Undelivered(s) : offset[k] < file[k].len
    /\ pc \in {"mark", "recovered"} => file[<<sid, id>>].out # "absent"
    /\ task = "ready" => file[active].out \notin {"absent", "partial"}

(* Jobs leave the queue in the order in which they were admitted, over all *)
(* sessions, across restarts and deletions.                                *)
AdmissionOrder ==
  \A k \in Keys : \A j \in before[k] :
    state[j] = "queued" => state[k] = "queued"

(* Retained responses stay within the budgets for all sessions and for one *)
(* session, but for one frame each for jobs with a single-frame response.  *)
BudgetHeld ==
  LET Small(S) == Cardinality({k \in S : size[k] = 1})
      Held(S) == Cardinality(Retained(S))
  IN  /\ Held(Keys) <= Budget + Small(Keys)
      /\ \A s \in Sids :
           Held({s} \X Ids) <= SessionBudget + Small({s} \X Ids)

(* A gateway that was only ever stopped, never killed, leaves no job whose *)
(* outcome it has to declare unknown at its next start.                    *)
CleanStop ==
  spent["crash"] = 0 /\ spent["loss"] = 0 /\ pc = "recover" =>
    \A k \in Keys : ~NeedsRecovery(k)

(* After start-up, the journal's size of each retained response of a live  *)
(* session is the size of its file, also when the file had been lost: a    *)
(* missing response is reported as unknown, and can be delivered.          *)
LostReported ==
  pc \notin {"down", "recover", "recovered"} =>
    \A k \in Keys :
      state[k] = "done" /\ lease[k[1]] > now /\ file[k].out # "absent"
        => file[k].len = size[k]

(* Every entry a live session appends is consumed, or the session ends.    *)
RequestsConsumed ==
  \A s \in Sids, i \in 1..MaxSends :
    (s \in sessions /\ Len(stream[s].log) >= i)
      ~> (stream[s].head >= i \/ s \notin sessions)

(* Every admitted job gets a response, and every response is handed over   *)
(* to its last frame, whatever is replayed, once clients read.             *)
ResponsesDelivered ==
  \A k \in Keys :
    (state[k] # "none") ~> \/ state[k] = "none"
                           \/ state[k] = "done" /\ offset[k] = size[k]
=============================================================================
