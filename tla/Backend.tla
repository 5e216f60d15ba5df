------------------------------ MODULE Backend ------------------------------
(***************************************************************************)
(* The worker thread (class Worker of src/main.cc) and the VAPI backend    *)
(* that only this thread touches (src/vapi_backend.cc), with the callbacks *)
(* that tools/schema_generator.cc writes for generated calls.              *)
(*                                                                         *)
(* An operation waits for VPP in frames of its own: callbacks registered   *)
(* with the VAPI context point into the worker's stack.  VPP answers when  *)
(* it likes, may change its interfaces at any time, and may go away.       *)
(***************************************************************************)
EXTENDS Integers, Sequences, FiniteSets

CONSTANTS
  Ops,          \* operations, [kind : Kinds, name : Names]
  Idx, Names,   \* interface indexes and names
  Tables,       \* the interfaces VPP may have at the start
  Cursors,      \* what VPP may return as the cursor of the next page
  First,        \* UINT32_MAX, the cursor of the first page
  Nil,
  PageLimit,    \* the 1024 pages of one operation
  SpoolItems,   \* items the spool has room for
  MaxOps, MaxChanges, MaxBreaks   \* bounds: operations, events in VPP

(* list: interface.list; set: interface.set_state; call: a generated call  *)
(* that takes a name and returns an interface; stream: a generated call    *)
(* with details, a completion and an automatic cursor.                     *)
Kinds == {"list", "set", "call", "stream"}

ASSUME BackendAssumption ==
  /\ Ops \subseteq [kind : Kinds, name : Names]
  /\ IsFiniteSet(Idx) /\ Nil \notin Names \cup Idx /\ Nil \notin Ops
  /\ First \notin Cursors /\ Tables \subseteq [Idx -> Names \cup {Nil}]
  /\ {PageLimit, MaxOps} \subseteq Nat \ {0}
  /\ {SpoolItems, MaxChanges, MaxBreaks} \subseteq Nat

VARIABLES
  slot, future, stopping,  \* Worker: task_, the future of Submit, stopping_
  w,          \* worker thread: position
  op, stage,  \* the operation; what the dump under way is for
  context, link,  \* context_ exists; its socket is intact
  pending,    \* callbacks registered with the context
  done, error,    \* DumpState / ReplyState / GeneratedCall of the frame
  reply,      \* GeneratedCall: retval and payload
  names,      \* names_, or the matches of DumpState
  cursor, page,
  spooled, full, bad,  \* Spool; reply_status of an item
  requests,   \* VPP: messages it may still act on
  inbox,      \* messages from VPP that the context has not dispatched
  table,      \* VPP: names of its interfaces
  count,      \* operations so far
  outcome, effects,   \* per operation: what was reported, what VPP did
  said, ended,    \* history: items VPP sent for the operation, its last word
  held,       \* history: <<index, name>> pairs of VPP since the operation began
  used,       \* history: pairs the operation relied on
  changes, breaks

thread == <<slot, future, stopping>>
frame  == <<done, error, reply>>
locals == <<op, stage, cursor, page, spooled, full, bad>>
vapi   == <<context, link, pending, inbox>>
vpp    == <<requests, table, effects, said, ended, held, changes, breaks>>
vars == <<thread, w, frame, locals, vapi, vpp, names, count, outcome, used>>

Outcomes == {"none", "result", "complete", "error", "refused", "rejected",
             "undecoded", "unknown"}
Retvals == {"ok", "rejected", "continue"}
NoReply == [retval |-> "ok", arg |-> Nil]
Slots == {"dump", "reply", "details"}
Unresolved == [i \in Idx |-> Nil]
Pairs(t) == {<<i, t[i]>> : i \in {k \in Idx : t[k] # Nil}}

Init ==
  /\ slot = Nil /\ future = "none" /\ stopping = FALSE /\ w = "wait"
  /\ op = Nil /\ stage = "none" /\ context = FALSE /\ link = FALSE
  /\ pending = {} /\ done = FALSE /\ error = FALSE /\ reply = NoReply
  /\ names = Unresolved /\ cursor = First /\ page = 0
  /\ spooled = 0 /\ full = FALSE /\ bad = FALSE
  /\ requests = {} /\ inbox = << >> /\ table \in Tables
  /\ count = 0 /\ outcome = [o \in 1..MaxOps |-> "none"]
  /\ effects = [o \in 1..MaxOps |-> 0] /\ said = 0 /\ ended = FALSE
  /\ held = {} /\ used = {} /\ changes = 0 /\ breaks = 0

-----------------------------------------------------------------------------
(* VAPI as this code uses it.                                              *)

(* What VPP may still act on when nobody hears its answers any more; dumps *)
(* change nothing and are forgotten.                                       *)
Orphans(S) == {[m EXCEPT !.live = FALSE] :
                 m \in {r \in S : r.type \in {"set", "call"}}}

(* vapi_disconnect and vapi_ctx_free: no callback runs any more.           *)
KeepContext == UNCHANGED <<context, link, pending, inbox, requests>>
Reset ==
  /\ context' = FALSE /\ link' = FALSE /\ pending' = {} /\ inbox' = << >>
  /\ requests' = Orphans(requests)

Message(t, i) == [op |-> count, type |-> t, idx |-> i, live |-> TRUE]

(* A message is handed to VPP and its callbacks are registered.            *)
Register(m, slots) ==
  /\ link /\ requests' = requests \cup {m}
  /\ pending' = pending \cup slots /\ UNCHANGED <<context, link, inbox>>

(* The send fails: VPP may have the message or not.                        *)
SendFails(m) ==
  /\ context' = FALSE /\ link' = FALSE /\ pending' = {} /\ inbox' = << >>
  /\ \E sent \in {{}, {m}} :
       /\ sent = {m} => link
       /\ requests' = Orphans(requests \cup sent)

-----------------------------------------------------------------------------
(* class Worker.                                                           *)

(* Submit, called by the main thread only while no future is outstanding.  *)
Submit ==
  /\ ~stopping /\ future = "none" /\ count < MaxOps
  /\ \E o \in Ops : slot' = o
  /\ future' = "pending"
  /\ UNCHANGED <<stopping, w, frame, locals, vapi, vpp, names, count, outcome,
                 used>>

Collect ==
  /\ future = "ready" /\ future' = "none"
  /\ UNCHANGED <<slot, stopping, w, frame, locals, vapi, vpp, names, count,
                 outcome, used>>

(* ~Worker, after the last future was collected.                           *)
Stop ==
  /\ ~stopping /\ future = "none" /\ stopping' = TRUE
  /\ UNCHANGED <<slot, future, w, frame, locals, vapi, vpp, names, count,
                 outcome, used>>

Leaves == w = "wait" /\ slot = Nil /\ stopping /\ w' = "exited" /\ Reset

(* The wait ends: with a task, with the stop flag, or after 100 ms.        *)
Wait ==
  \/ /\ Leaves
     /\ UNCHANGED <<thread, frame, locals, table, effects, said, ended, held,
                    changes, breaks, names, count, outcome, used>>
  \/ /\ w = "wait" /\ slot = Nil /\ ~stopping /\ w' = "poll"
     /\ UNCHANGED <<thread, frame, locals, vapi, vpp, names, count, outcome,
                    used>>
  \/ /\ w = "wait" /\ slot # Nil /\ w' = "connect"
     /\ op' = slot /\ slot' = Nil /\ count' = count + 1
     /\ stage' = "names" /\ cursor' = First /\ page' = 0
     /\ spooled' = 0 /\ full' = FALSE /\ bad' = FALSE
     /\ said' = 0 /\ ended' = FALSE /\ held' = Pairs(table) /\ used' = {}
     /\ UNCHANGED <<future, stopping, frame, vapi, requests, table, effects,
                    changes, breaks, names, outcome>>

(* Poll: one message, or the news that the connection is gone.             *)
Poll ==
  /\ w = "poll" /\ w' = "wait"
  /\ \/ /\ context /\ inbox # << >> /\ inbox' = Tail(inbox)
        /\ UNCHANGED <<context, link, pending, requests>>
     \/ context /\ inbox = << >> /\ ~link /\ Reset
     \/ (~context \/ link) /\ inbox = << >> /\ UNCHANGED <<vapi, requests>>
  /\ UNCHANGED <<thread, frame, locals, table, effects, said, ended, held,
                 changes, breaks, names, count, outcome, used>>

(* The operation ends with outcome o.                                      *)
End(o) ==
  /\ outcome' = [outcome EXCEPT ![count] = o] /\ w' = "wait"
  /\ future' = "ready" /\ done' = FALSE /\ error' = FALSE /\ reply' = NoReply
Goto(l) == w' = l /\ UNCHANGED <<outcome, future>>

quiet == <<slot, stopping, op, cursor, spooled, full, bad, table, effects,
           said, ended, held, changes, breaks, count>>

-----------------------------------------------------------------------------
(* Connect, with a context already there or not.  Parameters or messages   *)
(* that are not accepted end the operation, too.                           *)
Connect ==
  /\ w = "connect" /\ UNCHANGED <<pending, inbox, requests>>
  /\ \/ context /\ Goto("dump") /\ UNCHANGED <<context, link, frame>>
     \/ ~context /\ context' = TRUE /\ link' = TRUE /\ Goto("dump")
        /\ UNCHANGED frame
     \/ End("refused") /\ UNCHANGED <<context, link>>
  /\ UNCHANGED <<quiet, stage, page, names, used>>

(* What a dump that fails means for its operation.                         *)
NeverUnknown == IF op.kind = "list" THEN "error" ELSE "refused"
Failed == IF stage = "again" THEN "unknown"
          ELSE IF op.kind = "list" THEN "error" ELSE "refused"

(* Dump: every interface, through OnDump.  RefreshNames clears names_;     *)
(* SetState has a DumpState of its own.  A dump that VPP does not offer,   *)
(* or that finds no memory, fails without a word to VPP.                   *)
NotCleared == names
Cleared == Unresolved

StartDump ==
  /\ w = "dump" /\ names' = Cleared
  /\ \/ /\ Register(Message("dump", Nil), {"dump"}) /\ Goto("dumping")
        /\ done' = FALSE /\ error' = FALSE /\ UNCHANGED reply
     \/ SendFails(Message("dump", Nil)) /\ End(Failed)
     \/ KeepContext /\ End(Failed)
  /\ UNCHANGED <<quiet, stage, page, used>>

(* Spool::Add, once for each item until one is refused.                    *)
Add == IF full \/ bad THEN UNCHANGED <<spooled, full>>
       ELSE IF spooled < SpoolItems THEN spooled' = spooled + 1 /\ UNCHANGED full
       ELSE full' = TRUE /\ UNCHANGED spooled

OnDump(m) ==
  \/ /\ m.type = "detail" /\ names' = [names EXCEPT ![m.idx] = m.name]
     /\ IF op.kind = "list" THEN Add ELSE UNCHANGED <<spooled, full>>
     /\ UNCHANGED <<done, error, pending>>
  \/ /\ m.type = "last" /\ done' = TRUE /\ pending' = pending \ {"dump"}
     /\ UNCHANGED <<error, names, spooled, full>>
  \/ /\ m.type = "noresp" /\ done' = TRUE /\ error' = TRUE
     /\ pending' = pending \ {"dump"} /\ UNCHANGED <<names, spooled, full>>

(* Dispatch, the loop around vapi_dispatch_one: a callback runs ...        *)
DispatchDump ==
  /\ w = "dumping" /\ ~done /\ inbox # << >> /\ OnDump(Head(inbox))
  /\ inbox' = Tail(inbox)
  /\ UNCHANGED <<thread, w, reply, op, stage, cursor, page, bad, context, link,
                 vpp, count, outcome, used>>

(* ... or the connection turns out to be broken, or 30 seconds are over,   *)
(* which is noticed even right after the callback that was waited for.     *)
Gone == inbox = << >> /\ ~link /\ ~done
Abandon(o) ==
  /\ Reset /\ End(o) /\ UNCHANGED <<quiet, stage, page, names, used>>

DumpEnds ==
  \/ w = "dumping" /\ Gone /\ Abandon(Failed)
  \/ w = "dumping" /\ Abandon(Failed)
  \/ w = "dumping" /\ done /\ error /\ Abandon(Failed)

-----------------------------------------------------------------------------
(* After the dump: interface.list is complete; the others resolve the name *)
(* and send; a call that has returned an interface decodes it.             *)
Matches == {i \in Idx : names[i] = op.name}

AfterDump ==
  /\ w = "dumping" /\ done /\ ~error /\ KeepContext
  /\ \/ /\ op.kind = "list" /\ End(IF full THEN "error" ELSE "complete")
        /\ UNCHANGED <<stage, used>>
     \/ /\ op.kind # "list" /\ stage = "names" /\ Goto("send")
        /\ UNCHANGED <<stage, used, frame>>
     \/ /\ stage = "again" /\ UNCHANGED stage
        /\ LET i == reply.arg IN
           IF names[i] = Nil THEN End("undecoded") /\ UNCHANGED used
           ELSE End("result") /\ used' = used \cup {<<i, names[i]>>}
  /\ UNCHANGED <<quiet, page, names>>

(* Encode needs exactly one index for the name.  A message that cannot be  *)
(* built, or a socket that cannot be prepared, refuses the operation.      *)
Send ==
  /\ w = "send"
  /\ \/ KeepContext /\ End("refused") /\ UNCHANGED used
     \/ op.kind # "set" /\ Reset /\ End("refused") /\ UNCHANGED used
     \/ \E i \in Matches : LET m == Message(op.kind, i) IN
          /\ Cardinality(Matches) = 1
          /\ used' = used \cup {<<i, op.name>>}
          /\ \/ /\ Register(m, IF op.kind = "stream" THEN {"reply", "details"}
                               ELSE {"reply"})
                /\ Goto("dispatch") /\ done' = FALSE /\ error' = FALSE
                /\ reply' = NoReply
             \/ SendFails(m) /\ End("unknown")
  /\ UNCHANGED <<quiet, stage, page, names>>

(* The callbacks of a call: Reply_ ends it, Details_ (an item) does not,   *)
(* except with an error.                                                   *)
OnMessage(m) ==
  \/ /\ m.type = "item" /\ \E ok \in BOOLEAN :
          IF ok \/ bad \/ full THEN Add /\ UNCHANGED bad
          ELSE bad' = TRUE /\ UNCHANGED <<spooled, full>>
     /\ UNCHANGED <<done, error, reply, pending>>
  \/ /\ m.type = "reply" /\ done' = TRUE
     /\ reply' = [retval |-> m.retval, arg |-> m.arg]
     /\ pending' = pending \ {"reply", "details"}
     /\ UNCHANGED <<error, spooled, full, bad>>
  \/ /\ m.type = "noresp" /\ done' = TRUE /\ error' = TRUE
     /\ \E s \in pending : pending' = pending \ {s}
     /\ UNCHANGED <<reply, spooled, full, bad>>

Dispatch ==
  /\ w = "dispatch" /\ ~done /\ inbox # << >> /\ OnMessage(Head(inbox))
  /\ inbox' = Tail(inbox)
  /\ UNCHANGED <<thread, w, op, stage, cursor, page, context, link, vpp, names,
                 count, outcome, used>>

NoDeadline == w = "dispatch" /\ Gone /\ Abandon("unknown")
DispatchEnds ==
  \/ w = "dispatch" /\ Gone /\ Abandon("unknown")
  \/ w = "dispatch" /\ Abandon("unknown")

ResetUnlessSet == IF op.kind = "set" THEN KeepContext ELSE Reset
ReplyFailed ==
  /\ w = "dispatch" /\ done /\ error /\ ResetUnlessSet /\ End("unknown")
  /\ UNCHANGED <<quiet, stage, page, names, used>>

(* A reply that is too large or does not decode.                           *)
ReplyUnusable ==
  /\ w = "dispatch" /\ done /\ ~error /\ op.kind # "set" /\ KeepContext
  /\ End(IF op.kind = "stream" THEN "error" ELSE "undecoded")
  /\ UNCHANGED <<quiet, stage, page, names, used>>

(* The reply of a single call.                                             *)
Conclude ==
  /\ w = "dispatch" /\ done /\ ~error /\ op.kind # "stream" /\ KeepContext
  /\ \/ reply.retval = "rejected" /\ End("rejected") /\ UNCHANGED stage
     \/ reply.retval = "ok" /\ op.kind = "set" /\ End("result")
        /\ UNCHANGED stage
     \/ /\ reply.retval = "ok" /\ op.kind = "call" /\ Goto("dump")
        /\ stage' = "again" /\ UNCHANGED frame
  /\ UNCHANGED <<quiet, page, names, used>>

(* The completion of a page: the next one, the end, or an error.           *)
Stuck == reply.arg = cursor
OnePageMore == page = PageLimit
LastPage == page + 1 = PageLimit
NextPage ==
  /\ w = "dispatch" /\ done /\ ~error /\ op.kind = "stream" /\ KeepContext
  /\ \/ /\ bad \/ full \/ reply.retval = "rejected"
        /\ End("error") /\ UNCHANGED <<cursor, page>>
     \/ /\ ~bad /\ ~full /\ reply.retval = "ok"
        /\ End("complete") /\ UNCHANGED <<cursor, page>>
     \/ /\ ~bad /\ ~full /\ reply.retval = "continue"
        /\ \/ /\ Stuck \/ LastPage
              /\ End("error") /\ UNCHANGED <<cursor, page>>
           \/ /\ ~Stuck /\ ~LastPage /\ Goto("send") /\ UNCHANGED frame
              /\ cursor' = reply.arg /\ page' = page + 1
  /\ UNCHANGED <<slot, stopping, op, spooled, full, bad, table, effects, said,
                 ended, held, changes, breaks, count, stage, names, used>>

-----------------------------------------------------------------------------
(* VPP.                                                                    *)

Say(m, msgs) == inbox' = IF m.live /\ link THEN inbox \o msgs ELSE inbox
Detail(p) == [type |-> "detail", idx |-> p[1], name |-> p[2]]
Item == [type |-> "item"]
ReplyMsg(r, x) == [type |-> "reply", retval |-> r, arg |-> x]
others == <<thread, w, frame, locals, context, link, pending, names, count,
            outcome, used, breaks>>

(* The interfaces, in some order: nothing here depends on it.              *)
InOrder == CHOOSE s \in [1..Cardinality(Pairs(table)) -> Pairs(table)] :
             {s[i] : i \in DOMAIN s} = Pairs(table)

VppDumps ==
  \E m \in requests :
    /\ m.type = "dump" /\ requests' = requests \ {m}
    /\ Say(m, [i \in DOMAIN InOrder |-> Detail(InOrder[i])]
                \o <<[type |-> "last"]>>)
    /\ said' = IF m.op = count /\ op.kind = "list"
                 THEN Cardinality(Pairs(table)) ELSE said
    /\ ended' = IF m.op = count /\ op.kind = "list" THEN TRUE ELSE ended
    /\ UNCHANGED <<others, table, effects, held, changes>>

(* The operation is carried out; a call returns an interface, old or new.  *)
VppApplies ==
  \E m \in requests :
    /\ m.type \in {"set", "call"} /\ requests' = requests \ {m}
    /\ effects' = [effects EXCEPT ![m.op] = @ + 1]
    /\ \/ /\ m.type = "set" /\ Say(m, <<ReplyMsg("ok", Nil)>>)
          /\ UNCHANGED <<table, held>>
       \/ /\ m.type = "call"
          /\ \E i \in Idx, x \in Names :
               /\ table[i] \in {Nil, x} /\ table' = [table EXCEPT ![i] = x]
               /\ Say(m, <<ReplyMsg("ok", i)>>) /\ held' = held \cup {<<i, x>>}
    /\ UNCHANGED <<others, said, ended, changes>>

VppRejects ==
  \E m \in requests :
    /\ m.type \in {"set", "call", "stream"} /\ requests' = requests \ {m}
    /\ Say(m, <<ReplyMsg("rejected", Nil)>>)
    /\ UNCHANGED <<others, table, effects, said, ended, held, changes>>

VppPages ==
  \E m \in requests, n \in 0..1 :
    /\ m.type = "stream" /\ requests' = requests \ {m}
    /\ said' = IF m.op = count THEN said + n ELSE said
    /\ \/ /\ Say(m, [i \in 1..n |-> Item] \o <<ReplyMsg("ok", Nil)>>)
          /\ ended' = (ended \/ m.op = count)
       \/ /\ \E c \in Cursors :
               Say(m, [i \in 1..n |-> Item] \o <<ReplyMsg("continue", c)>>)
          /\ UNCHANGED ended
    /\ UNCHANGED <<others, table, effects, held, changes>>

(* VAPI reports a missing response.                                        *)
VppSilent ==
  \E m \in requests :
    /\ breaks < MaxBreaks /\ breaks' = breaks + 1
    /\ requests' = requests \ {m} /\ Say(m, <<[type |-> "noresp"]>>)
    /\ UNCHANGED <<thread, w, frame, locals, context, link, pending, names,
                   count, outcome, used, table, effects, said, ended, held,
                   changes>>

(* Other clients of VPP create, delete and rename interfaces.              *)
VppChanges ==
  /\ changes < MaxChanges /\ changes' = changes + 1
  /\ \E i \in Idx, x \in Names \cup {Nil} :
       /\ table[i] # x /\ table' = [table EXCEPT ![i] = x]
       /\ held' = held \cup Pairs(table')
  /\ UNCHANGED <<others, requests, inbox, effects, said, ended>>

(* VPP is restarted, or the socket breaks: what it has not handled is lost *)
(* or, with the socket alone broken, still carried out.                    *)
VppBreaks ==
  /\ breaks < MaxBreaks /\ breaks' = breaks + 1 /\ link /\ link' = FALSE
  /\ requests' \in {{}, Orphans(requests)}
  /\ UNCHANGED <<thread, w, frame, locals, context, pending, inbox, names, count,
                 outcome, used, table, effects, said, ended, held, changes>>

-----------------------------------------------------------------------------
Operation == \/ Connect \/ StartDump \/ DispatchDump \/ DumpEnds \/ AfterDump
             \/ Send \/ Dispatch \/ DispatchEnds \/ ReplyFailed
             \/ ReplyUnusable \/ Conclude \/ NextPage
Thread == Wait \/ Poll \/ Operation
Main == Submit \/ Collect \/ Stop
Vpp == \/ VppDumps \/ VppApplies \/ VppRejects \/ VppPages \/ VppSilent
       \/ VppChanges \/ VppBreaks
Finished == w = "exited" /\ UNCHANGED vars
Next == Thread \/ Main \/ Vpp \/ Finished
Spec == Init /\ [][Next]_vars

(* The thread is scheduled and its deadlines pass, the main thread comes   *)
(* round to its future.  Nothing is assumed of VPP.                        *)
Fairness == WF_vars(Thread) /\ WF_vars(Collect)
FairSpec == Spec /\ Fairness

-----------------------------------------------------------------------------
(* What must hold.                                                         *)

TypeOK ==
  /\ slot \in Ops \cup {Nil} /\ future \in {"none", "pending", "ready"}
  /\ op \in Ops \cup {Nil} /\ stage \in {"none", "names", "again"}
  /\ w \in {"wait", "poll", "connect", "dump", "dumping", "send", "dispatch",
            "exited"}
  /\ stopping \in BOOLEAN /\ context \in BOOLEAN /\ link \in BOOLEAN
  /\ done \in BOOLEAN /\ error \in BOOLEAN /\ full \in BOOLEAN
  /\ bad \in BOOLEAN /\ ended \in BOOLEAN
  /\ link => context
  /\ pending \subseteq Slots
  /\ reply \in [retval : Retvals, arg : Idx \cup Cursors \cup {Nil}]
  /\ names \in [Idx -> Names \cup {Nil}] /\ table \in [Idx -> Names \cup {Nil}]
  /\ cursor \in Cursors \cup {First} /\ page \in 0..PageLimit - 1
  /\ spooled \in 0..SpoolItems /\ said \in Nat /\ count \in 0..MaxOps
  /\ requests \subseteq [op : 1..MaxOps, type : Kinds \cup {"dump"},
                         idx : Idx \cup {Nil}, live : BOOLEAN]
  /\ outcome \in [1..MaxOps -> Outcomes] /\ effects \in [1..MaxOps -> Nat]

(* A callback that is registered with VAPI points into a frame that the    *)
(* worker has not left: whatever ends an operation early, and however late *)
(* VPP answers, no callback finds its DumpState or GeneratedCall gone.     *)
NoDangling ==
  /\ "dump" \in pending => w = "dumping"
  /\ pending \cap {"reply", "details"} # {} => w = "dispatch"
  /\ inbox # << >> => context

(* The reported outcome is true.  A result means that VPP acted once; a    *)
(* refusal or VPP's rejection means that it did not and never will; and a  *)
(* dump is complete only after VPP's last word, with everything it said.   *)
HonestOutcome ==
  \A o \in 1..MaxOps :
    /\ effects[o] <= 1
    /\ outcome[o] = "result" => effects[o] = 1
    /\ outcome[o] \in {"refused", "rejected"} =>
         /\ effects[o] = 0
         /\ \A m \in requests : m.op = o => m.type \in {"dump", "stream"}
    /\ outcome[o] = "complete" /\ o = count => ended /\ spooled = said

(* The indexes an operation sends and the names it returns were looked up  *)
(* in VPP since it began, never left over from an earlier operation or     *)
(* connection.                                                             *)
NamesAreFresh == used \subseteq held

(* Every operation ends, whatever VPP does: pages without end, cursors     *)
(* that repeat, silence, a broken connection; and so does the thread.      *)
OperationEnds ==
  /\ (future = "pending") ~> (future # "pending")
  /\ stopping ~> (w = "exited")
=============================================================================
