--------------------------- MODULE BackendProofs ---------------------------
(***************************************************************************)
(* The worker and the VAPI backend, for every set of operations, every     *)
(* table of interfaces, every limit and whatever VPP does: no callback     *)
(* outlives its frame, the outcome that is reported is true, and what an   *)
(* operation relies on was looked up for it.                               *)
(***************************************************************************)
EXTENDS Backend, FiniteSetTheorems, SequenceTheorems, TLAPS

(* The strengthening.                                                      *)

Running == w \in {"connect", "dump", "dumping", "send", "dispatch"}
Awaiting == w \in {"dumping", "dispatch"} /\ ~done
Effectful == {"set", "call"}

(* Everything VPP can put into the inbox.                                  *)
Replies == [type : {"reply"}, retval : Retvals, arg : Idx \cup Cursors \cup {Nil}]
Messages == [type : {"detail"}, idx : Idx, name : Names] \cup Replies
              \cup [type : {"item", "last", "noresp"}]

(* Where an operation is, and who holds the task.                          *)
Phase ==
  /\ Running => /\ op \in Ops /\ count > 0 /\ slot = Nil
                /\ stage \in {"names", "again"} /\ outcome[count] = "none"
  /\ Running \/ slot # Nil => future = "pending"
  /\ slot # Nil => count < MaxOps
  /\ Running /\ stage = "again" => op.kind = "call" /\ w \in {"dump", "dumping"}
  /\ w \in {"send", "dispatch"} => op.kind # "list"

(* One question at a time: a message whose answer would be heard is the    *)
(* one the thread waits for, and an answer in the inbox is the whole rest  *)
(* of the answer, up to the message that ends it.                          *)
Asked == IF w = "dumping" THEN "dump" ELSE op.kind
Parts == IF w = "dumping" THEN {"detail"} ELSE {"item"}
Lasts == IF w = "dumping" THEN {"last", "noresp"} ELSE {"reply", "noresp"}
Protocol ==
  /\ \A m \in requests :
       IF m.live THEN /\ Awaiting /\ link /\ inbox = << >>
                      /\ m.op = count /\ m.type = Asked
                 ELSE m.type \in Effectful
  /\ \A m, n \in requests : m.live /\ n.live => m = n
  /\ inbox \in Seq(Messages) /\ (inbox # << >> => Awaiting /\ context)
  /\ \A i \in 1..Len(inbox) :
       inbox[i].type \in IF i < Len(inbox) THEN Parts ELSE Lasts

(* The callbacks that are registered.                                      *)
Callbacks ==
  /\ w = "dumping" => pending = IF done THEN {} ELSE {"dump"}
  /\ w = "dispatch" => /\ pending \subseteq {"reply", "details"}
                       /\ done /\ ~error => pending = {}
                       /\ done /\ op.kind = "set" => pending = {}
                       /\ op.kind = "set" => "details" \notin pending
  /\ w \notin {"dumping", "dispatch"} => pending = {}

(* With effects e and requests S, VPP has done nothing for operation o and *)
(* will not.                                                               *)
Clean(S, e, o) == /\ e[o] = 0
                  /\ \A m \in S : m.op = o => m.type \notin Effectful
Untouched(o) == Clean(requests, effects, o)

(* What a reply r to operation n, of kind k, stands for.                   *)
Tells(r, k, n, S, e) ==
  /\ k \in Effectful => r.retval # "continue"
  /\ k \in Effectful /\ r.retval = "ok" => e[n] = 1
  /\ k = "call" /\ r.retval = "ok" => r.arg \in Idx
  /\ k \in Effectful /\ r.retval = "rejected" => Clean(S, e, n)
  /\ k = "stream" /\ r.retval = "continue" => r.arg \in Cursors
ReplyTrue(r) == Tells(r, op.kind, count, requests, effects)

(* An operation reaches VPP at most once, and what the thread knows about  *)
(* that is true.                                                           *)
Once ==
  /\ \A m \in requests : m.op <= count
  /\ \A o \in 1..MaxOps : /\ effects[o] <= 1
                          /\ o > count => effects[o] = 0 /\ outcome[o] = "none"
  /\ \A m, n \in requests : m.type \in Effectful /\ n.type \in Effectful
                              /\ m.op = n.op => m = n
  /\ \A m \in requests : m.type \in Effectful => effects[m.op] = 0
Known ==
  /\ Running /\ stage = "names" /\ (w # "dispatch" \/ op.kind = "stream")
       => Untouched(count)
  /\ Running /\ stage = "again" => effects[count] = 1 /\ reply.arg \in Idx
  /\ w = "dispatch" /\ done /\ ~error => ReplyTrue(reply)
  /\ w = "dispatch" => \A i \in 1..Len(inbox) :
                         inbox[i].type = "reply" => ReplyTrue(inbox[i])
  /\ \A o \in 1..MaxOps :
       /\ outcome[o] = "result" => effects[o] = 1
       /\ outcome[o] \in {"refused", "rejected"} => Untouched(o)

(* The spool has what VPP said, less what is still in the inbox.           *)
Unheard == IF inbox = << >> THEN 0 ELSE Len(inbox) - 1
ListCounted ==
  Running /\ op.kind = "list" =>
    /\ ~bad
    /\ w # "dumping" \/ (inbox = << >> /\ ~done) => spooled = 0 /\ ~full
    /\ w = "dumping" /\ inbox # << >> /\ inbox[Len(inbox)].type = "last" =>
         ended /\ (full \/ said = spooled + Unheard)
    /\ w = "dumping" /\ done /\ ~error => ended /\ (full \/ said = spooled)
StreamCounted ==
  Running /\ op.kind = "stream" =>
    /\ full \/ bad \/ said = spooled + IF w = "dispatch" THEN Unheard ELSE 0
    /\ w = "dispatch" /\ done /\ ~error /\ reply.retval = "ok" => ended
    /\ w = "dispatch" => \A i \in 1..Len(inbox) :
         inbox[i].type = "reply" /\ inbox[i].retval = "ok" => ended
CompleteIsWhole ==
  count > 0 /\ outcome[count] = "complete" => ended /\ spooled = said
Counted == ListCounted /\ StreamCounted /\ CompleteIsWhole

(* What the thread has learned of VPP's interfaces since the operation     *)
(* began.                                                                  *)
Learned ==
  /\ count > 0 => Pairs(table) \subseteq held
  /\ w \in {"dumping", "send", "dispatch"} => Pairs(names) \subseteq held
  /\ \A i \in 1..Len(inbox) :
       inbox[i].type = "detail" => <<inbox[i].idx, inbox[i].name>> \in held
  /\ NamesAreFresh

IInv == /\ TypeOK /\ Phase /\ Protocol /\ Callbacks /\ Once /\ Known
        /\ Counted /\ Learned

-----------------------------------------------------------------------------
(* What the constants give.                                                *)
LEMMA Constants ==
  /\ Nil \notin Idx /\ Nil \notin Names /\ Nil \notin Ops
  /\ PageLimit \in Nat /\ PageLimit > 0 /\ MaxOps \in Nat /\ SpoolItems \in Nat
  /\ MaxBreaks \in Nat /\ MaxChanges \in Nat
  /\ \A o \in Ops : o.kind \in Kinds /\ o.name \in Names
  /\ Tables \subseteq [Idx -> Names \cup {Nil}] /\ IsFiniteSet(Idx)
BY BackendAssumption

Requests == [op : 1..MaxOps, type : Kinds \cup {"dump"}, idx : Idx \cup {Nil},
             live : BOOLEAN]

(* The fields of a request.                                                *)
LEMMA RequestFacts ==
  ASSUME NEW m \in Requests
  PROVE  /\ m.op \in 1..MaxOps /\ m.type \in Kinds \cup {"dump"}
         /\ m.idx \in Idx \cup {Nil} /\ m.live \in BOOLEAN
BY DEF Requests

(* What is left of the requests when the connection is given up.           *)
LEMMA OrphanFacts ==
  ASSUME NEW S \in SUBSET Requests
  PROVE  /\ Orphans(S) \in SUBSET Requests
         /\ \A q \in Orphans(S) : /\ ~q.live /\ q.type \in Effectful
                                  /\ \E m \in S : q = [m EXCEPT !.live = FALSE]
                                       /\ q.op = m.op /\ q.type = m.type
<1> SUFFICES ASSUME NEW q \in Orphans(S)
             PROVE  /\ q \in Requests /\ ~q.live /\ q.type \in Effectful
                    /\ \E m \in S : q = [m EXCEPT !.live = FALSE]
                         /\ q.op = m.op /\ q.type = m.type
  OBVIOUS
<1>1. PICK m \in S : q = [m EXCEPT !.live = FALSE] /\ m.type \in {"set", "call"}
  BY DEF Orphans
<1>2. m \in Requests
  OBVIOUS
<1>3. /\ q \in Requests /\ q.live = FALSE /\ q.op = m.op /\ q.type = m.type
  BY <1>1, <1>2 DEF Requests
<1> QED
  BY <1>1, <1>3 DEF Effectful

(* The message of the operation under way.                                 *)
LEMMA MessageFacts ==
  ASSUME count \in 1..MaxOps, NEW t \in Kinds \cup {"dump"}, NEW i \in Idx \cup {Nil}
  PROVE  /\ Message(t, i) \in Requests /\ Message(t, i).op = count
         /\ Message(t, i).type = t /\ Message(t, i).live = TRUE
BY DEF Message, Requests

(* The fields of a message from VPP.                                       *)
LEMMA MessageFromVpp ==
  ASSUME NEW m \in Messages
  PROVE  /\ m.type = "detail" => m.idx \in Idx /\ m.name \in Names
         /\ m.type = "reply" => /\ m.retval \in Retvals
                                /\ m.arg \in Idx \cup Cursors \cup {Nil}
BY DEF Messages, Replies

(* Taking a message from the inbox.                                        *)
LEMMA TakeFacts ==
  ASSUME NEW s \in Seq(Messages), s # << >>
  PROVE  /\ Head(s) = s[1] /\ Head(s) \in Messages /\ 1 \in 1..Len(s)
         /\ Tail(s) \in Seq(Messages) /\ Len(Tail(s)) = Len(s) - 1
         /\ Len(s) \in Nat /\ Len(s) > 0 /\ (Tail(s) = << >> <=> Len(s) = 1)
         /\ \A i \in 1..Len(Tail(s)) : /\ i + 1 \in 1..Len(s)
                                       /\ Tail(s)[i] = s[i + 1]
                                       /\ i < Len(Tail(s)) <=> i + 1 < Len(s)
<1>1. /\ Head(s) \in Messages /\ Tail(s) \in Seq(Messages)
      /\ Len(Tail(s)) = Len(s) - 1
      /\ \A i \in 1..Len(Tail(s)) : Tail(s)[i] = s[i + 1]
  BY HeadTailProperties
<1>2. Len(s) \in Nat /\ Len(s) > 0
  BY EmptySeq, LenProperties
<1>3. Tail(s) = << >> <=> Len(Tail(s)) = 0
  BY <1>1, EmptySeq
<1>4. Head(s) = s[1]
  BY <1>2
<1> QED
  BY <1>1, <1>2, <1>3, <1>4

(* Messages followed by the one that ends them.                            *)
LEMMA BurstFacts ==
  ASSUME NEW n \in Nat, NEW g \in [1..n -> Messages], NEW t \in Messages
  PROVE  /\ g \o <<t>> \in Seq(Messages) /\ Len(g \o <<t>>) = n + 1
         /\ g \o <<t>> # << >>
         /\ \A i \in 1..n : (g \o <<t>>)[i] = g[i]
         /\ (g \o <<t>>)[n + 1] = t
<1>1. g \in Seq(Messages)
  BY SeqDef
<1>2. Len(g) = n
  BY <1>1, LenProperties
<1>3. <<t>> \in Seq(Messages) /\ Len(<<t>>) = 1 /\ <<t>>[1] = t
  OBVIOUS
<1>4. /\ g \o <<t>> \in Seq(Messages) /\ Len(g \o <<t>>) = n + 1
      /\ \A i \in 1..(n + 1) : (g \o <<t>>)[i] = IF i <= n THEN g[i] ELSE <<t>>[i - n]
  BY <1>1, <1>2, <1>3, ConcatProperties
<1>5. g \o <<t>> # << >>
  BY <1>4, EmptySeq
<1> QED
  BY <1>3, <1>4, <1>5

-----------------------------------------------------------------------------
(* Types, part by part.                                                    *)

ThreadType ==
  /\ slot \in Ops \cup {Nil} /\ future \in {"none", "pending", "ready"}
  /\ op \in Ops \cup {Nil} /\ stage \in {"none", "names", "again"}
  /\ w \in {"wait", "poll", "connect", "dump", "dumping", "send", "dispatch",
            "exited"}
  /\ stopping \in BOOLEAN /\ count \in 0..MaxOps
  /\ outcome \in [1..MaxOps -> Outcomes]
VapiType ==
  /\ context \in BOOLEAN /\ link \in BOOLEAN /\ (link => context)
  /\ pending \subseteq Slots /\ requests \subseteq Requests
FrameType ==
  /\ done \in BOOLEAN /\ error \in BOOLEAN
  /\ reply \in [retval : Retvals, arg : Idx \cup Cursors \cup {Nil}]
  /\ names \in [Idx -> Names \cup {Nil}]
  /\ cursor \in Cursors \cup {First} /\ page \in 0..PageLimit - 1
SpoolType ==
  /\ full \in BOOLEAN /\ bad \in BOOLEAN /\ spooled \in 0..SpoolItems
VppType ==
  /\ table \in [Idx -> Names \cup {Nil}] /\ ended \in BOOLEAN /\ said \in Nat
  /\ effects \in [1..MaxOps -> Nat]

(* TypeOK, in parts that each action disturbs separately.                  *)
LEMMA TypeParts ==
  TypeOK <=> ThreadType /\ VapiType /\ FrameType /\ SpoolType /\ VppType
BY DEF TypeOK, ThreadType, VapiType, FrameType, SpoolType, VppType, Requests

(* The ways an operation can end, and the jumps within it.                 *)
LEMMA EndTypes ==
  ASSUME TypeOK, Phase, Running
  PROVE  /\ count \in 1..MaxOps /\ op \in Ops /\ op.kind \in Kinds
         /\ op.name \in Names /\ slot = Nil
         /\ \A o \in Outcomes : [outcome EXCEPT ![count] = o] \in [1..MaxOps -> Outcomes]
         /\ Failed \in Outcomes
BY Constants DEF TypeOK, Phase, Failed, Outcomes

(* VPP touches nothing that the thread keeps to itself.                    *)
LEMMA VppLeaves ==
  Vpp => UNCHANGED <<thread, w, frame, locals, context, pending, names, count,
                     outcome, used>>
<1>1. VppDumps \/ VppPages => UNCHANGED others
  BY DEF VppDumps, VppPages
<1>2. VppApplies \/ VppRejects => UNCHANGED others
  BY DEF VppApplies, VppRejects
<1>3. VppChanges => UNCHANGED others
  BY DEF VppChanges
<1>4. VppSilent \/ VppBreaks =>
        UNCHANGED <<thread, w, frame, locals, context, pending, names, count,
                    outcome, used>>
  BY DEF VppSilent, VppBreaks
<1> QED
  BY <1>1, <1>2, <1>3, <1>4 DEF Vpp, others

(* The steps of an operation other than its callbacks.                     *)
Stepping == \/ Connect \/ StartDump \/ DumpEnds \/ AfterDump \/ Send
            \/ DispatchEnds \/ ReplyFailed \/ ReplyUnusable \/ Conclude \/ NextPage

(* They go on or end the operation, and leave the rest of the system alone.*)
LEMMA SteppingFacts ==
  ASSUME TypeOK, Phase, Stepping
  PROVE  /\ Running /\ stage' \in {"none", "names", "again"}
         /\ UNCHANGED <<slot, stopping, op, count, spooled, full, bad, table, effects,
                        said, ended, held>>
         /\ \/ \E o \in Outcomes : End(o)
            \/ \E l \in {"dump", "dumping", "send", "dispatch"} : Goto(l)
<1>1. Running
  BY DEF Stepping, Connect, StartDump, DumpEnds, AfterDump, Send, DispatchEnds,
     ReplyFailed, ReplyUnusable, Conclude, NextPage, Running
<1>2. UNCHANGED <<slot, stopping, op, count, spooled, full, bad, table, effects,
                  said, ended, held>>
  BY DEF Stepping, Connect, StartDump, DumpEnds, AfterDump, Send, DispatchEnds, Abandon,
     ReplyFailed, ReplyUnusable, Conclude, NextPage, quiet
<1>3. stage' \in {"none", "names", "again"}
  BY DEF Stepping, Connect, StartDump, DumpEnds, AfterDump, Send, DispatchEnds, Abandon,
     ReplyFailed, ReplyUnusable, Conclude, NextPage, TypeOK
<1>4. \/ \E o \in Outcomes : End(o)
      \/ \E l \in {"dump", "dumping", "send", "dispatch"} : Goto(l)
  <2>1. {"refused", "error", "complete", "result", "undecoded", "unknown",
         "rejected", Failed} \subseteq Outcomes
    BY <1>1, EndTypes DEF Outcomes
  <2>2. CASE Connect
    BY <2>1, <2>2 DEF Connect
  <2>3. CASE StartDump
    BY <2>1, <2>3 DEF StartDump
  <2>4. CASE DumpEnds \/ DispatchEnds
    BY <2>1, <2>4 DEF DumpEnds, DispatchEnds, Abandon
  <2>5. CASE AfterDump
    BY <2>1, <2>5 DEF AfterDump
  <2>6. CASE Send
    BY <2>1, <2>6 DEF Send
  <2>7. CASE ReplyFailed \/ ReplyUnusable
    BY <2>1, <2>7 DEF ReplyFailed, ReplyUnusable
  <2>8. CASE Conclude
    BY <2>1, <2>8 DEF Conclude
  <2>9. CASE NextPage
    BY <2>1, <2>9 DEF NextPage
  <2> QED
    BY <2>2, <2>3, <2>4, <2>5, <2>6, <2>7, <2>8, <2>9 DEF Stepping
<1> QED
  BY <1>1, <1>2, <1>3, <1>4

(* The types of the thread's own state.                                    *)
LEMMA ThreadTypeStep ==
  ASSUME TypeOK, Phase, [Next]_vars
  PROVE  ThreadType'
<1>0. ThreadType
  BY TypeParts
<1> USE <1>0 DEF ThreadType
<1>1. CASE Submit
  BY <1>1 DEF Submit, locals
<1>2. CASE Collect \/ Stop
  BY <1>2 DEF Collect, Stop, locals
<1>3. CASE Wait
  <2>1. slot # Nil => count + 1 \in 0..MaxOps
    BY Constants DEF Phase
  <2> QED
    BY <1>3, <2>1 DEF Wait, Leaves, locals, thread
<1>4. CASE Poll
  BY <1>4 DEF Poll, locals, thread
<1>5. CASE Vpp \/ Finished \/ UNCHANGED vars
  <2>1. Vpp => UNCHANGED <<thread, w, frame, locals, context, pending, names, count,
                           outcome, used>>
    BY VppLeaves
  <2> QED
    BY <1>5, <2>1 DEF Finished, vars, locals, thread
<1>6. CASE DispatchDump \/ Dispatch
  BY <1>6 DEF DispatchDump, Dispatch, thread
<1>7. CASE Stepping
  <2>1. \A o \in Outcomes : End(o) =>
          /\ outcome' \in [1..MaxOps -> Outcomes] /\ w' = "wait" /\ future' = "ready"
    BY <1>7, SteppingFacts, EndTypes DEF End
  <2>2. /\ outcome' \in [1..MaxOps -> Outcomes] /\ future' \in {"none", "pending", "ready"}
        /\ w' \in {"wait", "dump", "dumping", "send", "dispatch"}
    BY <1>7, <2>1, SteppingFacts DEF Goto
  <2> QED
    BY <1>7, <2>2, SteppingFacts
<1> QED
  BY <1>1, <1>2, <1>3, <1>4, <1>5, <1>6, <1>7
  DEF Next, Thread, Main, Operation, Stepping

(* The connection: what registering, failing to send and giving up leave.  *)
LEMMA VapiTypeStep ==
  ASSUME TypeOK, Phase, [Next]_vars
  PROVE  VapiType'
<1>0. VapiType
  BY TypeParts
<1>1. requests \in SUBSET Requests /\ Orphans(requests) \in SUBSET Requests
  BY <1>0, OrphanFacts DEF VapiType
<1>2. CASE Reset
  BY <1>1, <1>2 DEF Reset, VapiType
<1>3. CASE UNCHANGED <<context, link, pending, requests>>
  BY <1>0, <1>3 DEF VapiType
<1>4. ASSUME NEW m \in Requests, SendFails(m) PROVE VapiType'
  <2>1. \A S \in {{}, {m}} : Orphans(requests \cup S) \in SUBSET Requests
    BY <1>1, OrphanFacts
  <2> QED
    BY <1>4, <2>1 DEF SendFails, VapiType
<1>5. ASSUME NEW m \in Requests, NEW S \in SUBSET Slots, Register(m, S) PROVE VapiType'
  BY <1>0, <1>5 DEF Register, VapiType
<1>6. CASE Connect
  <2>1. \/ context' = TRUE /\ link' = TRUE
        \/ UNCHANGED <<context, link>>
    BY <1>6 DEF Connect
  <2>2. UNCHANGED <<pending, requests>>
    BY <1>6 DEF Connect
  <2>3. CASE context' = TRUE /\ link' = TRUE
    BY <1>0, <2>2, <2>3 DEF VapiType
  <2> QED
    BY <1>3, <2>1, <2>2, <2>3
<1>7. CASE StartDump
  <2>1. Message("dump", Nil) \in Requests
    BY <1>7, EndTypes, MessageFacts DEF StartDump, Running
  <2> QED
    BY <1>3, <1>4, <1>5, <1>7, <2>1 DEF StartDump, KeepContext, Slots
<1>8. CASE Send
  <2>1. Running
    BY <1>8 DEF Send, Running
  <2>2. \A i \in Idx : Message(op.kind, i) \in Requests
    BY <2>1, EndTypes, MessageFacts
  <2>3. {"reply", "details"} \in SUBSET Slots /\ {"reply"} \in SUBSET Slots
    BY DEF Slots
  <2> QED
    BY <1>2, <1>3, <1>4, <1>5, <1>8, <2>2, <2>3 DEF Send, KeepContext, Matches
<1>9. CASE \/ DumpEnds \/ DispatchEnds \/ AfterDump \/ ReplyFailed \/ ReplyUnusable
           \/ Conclude \/ NextPage
  BY <1>2, <1>3, <1>9 DEF DumpEnds, DispatchEnds, Abandon, AfterDump, ReplyFailed,
     ReplyUnusable, Conclude, NextPage, KeepContext, ResetUnlessSet
<1>10. CASE Dispatch
  BY <1>0, <1>10 DEF Dispatch, OnMessage, vpp, VapiType
<1>11. CASE DispatchDump
  BY <1>0, <1>11 DEF DispatchDump, OnDump, vpp, VapiType
<1>12. CASE Wait
  BY <1>2, <1>3, <1>12 DEF Wait, Leaves, vapi, vpp
<1>13. CASE Poll
  BY <1>2, <1>3, <1>13 DEF Poll, vapi
<1>14. CASE Main \/ Finished \/ UNCHANGED vars
  BY <1>3, <1>14 DEF Main, Submit, Collect, Stop, Finished, vars, vapi, vpp
<1>15. CASE Vpp
  <2>1. requests' \subseteq Requests
    <3>1. VppDumps => requests' \subseteq requests
      BY DEF VppDumps
    <3>2. VppApplies => requests' \subseteq requests
      BY DEF VppApplies
    <3>3. VppRejects \/ VppPages \/ VppSilent => requests' \subseteq requests
      BY DEF VppRejects, VppPages, VppSilent
    <3>4. VppChanges => requests' = requests
      BY DEF VppChanges
    <3>5. VppBreaks => requests' \subseteq Requests
      BY <1>1 DEF VppBreaks
    <3> QED
      BY <1>1, <1>15, <3>1, <3>2, <3>3, <3>4, <3>5 DEF Vpp
  <2>2. UNCHANGED link \/ link' = FALSE
    BY <1>15 DEF Vpp, VppDumps, VppApplies, VppRejects, VppPages, VppSilent,
       VppChanges, VppBreaks, others
  <2>3. UNCHANGED <<context, pending>>
    BY <1>15, VppLeaves
  <2>4. CASE UNCHANGED link
    BY <1>0, <2>1, <2>3, <2>4 DEF VapiType
  <2>5. CASE link' = FALSE
    BY <1>0, <2>1, <2>3, <2>5 DEF VapiType
  <2> QED
    BY <2>2, <2>4, <2>5
<1> QED
  BY <1>6, <1>7, <1>8, <1>9, <1>10, <1>11, <1>12, <1>13, <1>14, <1>15
  DEF Next, Thread, Operation

(* The frame of the operation, its names and its pages.                    *)
LEMMA FrameTypeStep ==
  ASSUME TypeOK, Phase, Protocol, Known, [Next]_vars
  PROVE  FrameType'
<1>0. FrameType
  BY TypeParts
<1>1. NoReply \in [retval : Retvals, arg : Idx \cup Cursors \cup {Nil}]
  BY DEF NoReply, Retvals
<1>2. inbox # << >> => Head(inbox) \in Messages
  BY TakeFacts DEF Protocol
<1>3. CASE UNCHANGED <<frame, names, cursor, page>>
  BY <1>0, <1>3 DEF frame, FrameType
<1>4. (\E o \in Outcomes : End(o)) => /\ done' = FALSE /\ error' = FALSE
                                      /\ reply' = NoReply
  BY DEF End
<1>5. CASE DispatchDump
  <2>1. names' \in [Idx -> Names \cup {Nil}]
    BY <1>0, <1>2, <1>5, MessageFromVpp DEF DispatchDump, OnDump, FrameType
  <2> QED
    BY <1>0, <1>5, <2>1 DEF DispatchDump, OnDump, FrameType
<1>6. CASE Dispatch
  <2>1. reply' \in [retval : Retvals, arg : Idx \cup Cursors \cup {Nil}]
    BY <1>0, <1>2, <1>6, MessageFromVpp DEF Dispatch, OnMessage, FrameType
  <2> QED
    BY <1>0, <1>6, <2>1 DEF Dispatch, OnMessage, FrameType
<1>7. CASE NextPage
  <2>1. cursor' \in Cursors \cup {First} /\ page' \in 0..PageLimit - 1
    <3>1. CASE UNCHANGED <<cursor, page>>
      BY <1>0, <3>1 DEF FrameType
    <3>2. CASE /\ reply.retval = "continue" /\ ~LastPage
               /\ cursor' = reply.arg /\ page' = page + 1
      <4>1. w = "dispatch" /\ done /\ ~error /\ op.kind = "stream"
        BY <1>7 DEF NextPage
      <4>2. reply.arg \in Cursors
        BY <3>2, <4>1 DEF Known, ReplyTrue, Tells, Untouched, Clean
      <4>3. page + 1 \in 0..PageLimit - 1
        BY <1>0, <3>2, Constants DEF LastPage, FrameType
      <4> QED
        BY <3>2, <4>2, <4>3
    <3> QED
      BY <1>7, <3>1, <3>2 DEF NextPage
  <2>2. UNCHANGED names /\ ((\E o \in Outcomes : End(o)) \/ UNCHANGED frame)
    BY <1>7 DEF NextPage, Outcomes
  <2> QED
    BY <1>0, <1>1, <1>4, <2>1, <2>2 DEF FrameType, frame
<1>8. CASE StartDump
  <2>1. names' \in [Idx -> Names \cup {Nil}] /\ UNCHANGED <<cursor, page>>
    BY <1>8 DEF StartDump, Cleared, Unresolved, quiet
  <2>2. \/ done' = FALSE /\ error' = FALSE /\ UNCHANGED reply
        \/ done' = FALSE /\ error' = FALSE /\ reply' = NoReply
    BY <1>8 DEF StartDump, End
  <2> QED
    BY <1>0, <1>1, <2>1, <2>2 DEF FrameType
<1>9. CASE \/ Connect \/ DumpEnds \/ AfterDump \/ Send \/ DispatchEnds \/ ReplyFailed
           \/ ReplyUnusable \/ Conclude
  <2>1. UNCHANGED <<names, cursor, page>>
    BY <1>9 DEF Connect, DumpEnds, AfterDump, Send, DispatchEnds, Abandon, ReplyFailed,
       ReplyUnusable, Conclude, quiet
  <2>2. \/ UNCHANGED frame
        \/ done' = FALSE /\ error' = FALSE /\ reply' = NoReply
    BY <1>9 DEF Connect, DumpEnds, AfterDump, Send, DispatchEnds, Abandon, ReplyFailed,
       ReplyUnusable, Conclude, End
  <2> QED
    BY <1>0, <1>1, <2>1, <2>2 DEF FrameType, frame
<1>10. CASE Wait
  <2>1. /\ UNCHANGED <<frame, names>> /\ (cursor' = First \/ UNCHANGED cursor)
        /\ (page' = 0 \/ UNCHANGED page)
    BY <1>10 DEF Wait, locals
  <2> QED
    BY <1>0, <2>1, Constants DEF FrameType, frame
<1>11. CASE Main \/ Poll \/ Finished \/ UNCHANGED vars
  BY <1>3, <1>11 DEF Main, Submit, Collect, Stop, Poll, Finished, vars, locals
<1>12. CASE Vpp
  BY <1>3, <1>12, VppLeaves DEF locals
<1> QED
  BY <1>5, <1>6, <1>7, <1>8, <1>9, <1>10, <1>11, <1>12 DEF Next, Thread, Operation

(* The spool.                                                              *)
LEMMA SpoolTypeStep ==
  ASSUME TypeOK, Phase, [Next]_vars
  PROVE  SpoolType'
<1>0. SpoolType
  BY TypeParts
<1>1. CASE UNCHANGED <<spooled, full, bad>>
  BY <1>0, <1>1 DEF SpoolType
<1>2. ASSUME Add PROVE spooled' \in 0..SpoolItems /\ full' \in BOOLEAN
  <2>1. \/ UNCHANGED <<spooled, full>>
        \/ spooled < SpoolItems /\ spooled' = spooled + 1 /\ UNCHANGED full
        \/ full' = TRUE /\ UNCHANGED spooled
    BY <1>2 DEF Add
  <2>2. spooled' \in 0..SpoolItems
    BY <1>0, <2>1, Constants DEF SpoolType
  <2>3. full' \in BOOLEAN
    BY <1>0, <2>1 DEF SpoolType
  <2> QED
    BY <2>2, <2>3
<1>3. CASE DispatchDump
  BY <1>0, <1>2, <1>3 DEF DispatchDump, OnDump, SpoolType
<1>4. CASE Dispatch
  BY <1>0, <1>2, <1>4 DEF Dispatch, OnMessage, SpoolType
<1>5. CASE Stepping
  BY <1>1, <1>5, SteppingFacts
<1>6. CASE Wait
  <2>1. UNCHANGED locals \/ (spooled' = 0 /\ full' = FALSE /\ bad' = FALSE)
    BY <1>6 DEF Wait
  <2>2. spooled' \in 0..SpoolItems
    BY <1>0, <2>1, Constants DEF SpoolType, locals
  <2>3. full' \in BOOLEAN /\ bad' \in BOOLEAN
    BY <1>0, <2>1 DEF SpoolType, locals
  <2> QED
    BY <2>2, <2>3 DEF SpoolType
<1>7. CASE Main \/ Poll \/ Finished \/ UNCHANGED vars
  BY <1>1, <1>7 DEF Main, Submit, Collect, Stop, Poll, Finished, vars, locals
<1>8. CASE Vpp
  BY <1>1, <1>8, VppLeaves DEF locals
<1> QED
  BY <1>3, <1>4, <1>5, <1>6, <1>7, <1>8 DEF Next, Thread, Operation, Stepping

(* VPP, and the history of what it said and did.                           *)
LEMMA PairsFinite ==
  ASSUME NEW t \in [Idx -> Names \cup {Nil}]
  PROVE  IsFiniteSet(Pairs(t)) /\ Cardinality(Pairs(t)) \in Nat
<1> DEFINE S == {k \in Idx : t[k] # Nil}
           f == [k \in S |-> <<k, t[k]>>]
<1>1. IsFiniteSet(S)
  BY Constants, FS_Subset
<1>2. f \in Surjection(S, Pairs(t))
  BY DEF Pairs, Surjection
<1>3. IsFiniteSet(Pairs(t))
  BY <1>1, <1>2, FS_Surjection
<1> QED
  BY <1>3, FS_CardinalityType

(* What VPP holds, and how often it acted, keep their types.               *)
LEMMA VppTypeStep ==
  ASSUME TypeOK, Phase, [Next]_vars
  PROVE  VppType'
<1>0. VppType
  BY TypeParts
<1>1. CASE UNCHANGED <<table, ended, said, effects>>
  BY <1>0, <1>1 DEF VppType
<1>2. CASE VppDumps
  BY <1>0, <1>2, PairsFinite DEF VppDumps, VppType
<1>3. CASE VppPages
  <2>1. UNCHANGED <<table, effects>> /\ said' \in Nat
    BY <1>0, <1>3 DEF VppPages, VppType
  <2>2. ended' \in BOOLEAN
    BY <1>0, <1>3 DEF VppPages, VppType
  <2> QED
    BY <1>0, <2>1, <2>2 DEF VppType
<1>4. CASE VppApplies
  <2>1. PICK m \in requests :
          /\ effects' = [effects EXCEPT ![m.op] = @ + 1]
          /\ \/ UNCHANGED table
             \/ \E i \in Idx, x \in Names : table' = [table EXCEPT ![i] = x]
          /\ UNCHANGED <<said, ended>>
    BY <1>4 DEF VppApplies
  <2>2. effects' \in [1..MaxOps -> Nat]
    <3>1. m.op \in 1..MaxOps
      BY RequestFacts DEF TypeOK, Requests
    <3>2. effects[m.op] + 1 \in Nat
      BY <1>0, <3>1 DEF VppType
    <3> QED
      BY <1>0, <2>1, <3>1, <3>2 DEF VppType
  <2>3. table' \in [Idx -> Names \cup {Nil}]
    BY <1>0, <2>1 DEF VppType
  <2> QED
    BY <1>0, <2>1, <2>2, <2>3 DEF VppType
<1>5. CASE VppChanges
  BY <1>0, <1>5 DEF VppChanges, VppType
<1>6. CASE VppRejects \/ VppSilent \/ VppBreaks
  BY <1>1, <1>6 DEF VppRejects, VppSilent, VppBreaks
<1>7. CASE Stepping
  BY <1>1, <1>7, SteppingFacts
<1>8. CASE Wait
  <2>1. UNCHANGED <<table, effects>> /\ \/ UNCHANGED <<said, ended>>
                                        \/ said' = 0 /\ ended' = FALSE
    BY <1>8 DEF Wait, vpp
  <2>2. said' \in Nat
    BY <1>0, <2>1 DEF VppType
  <2>3. ended' \in BOOLEAN
    BY <1>0, <2>1 DEF VppType
  <2> QED
    BY <1>0, <2>1, <2>2, <2>3 DEF VppType
<1>9. CASE Main \/ Poll \/ Finished \/ UNCHANGED vars \/ Dispatch \/ DispatchDump
  BY <1>1, <1>9 DEF Main, Submit, Collect, Stop, Poll, Finished, vars, vpp, Dispatch,
     DispatchDump
<1> QED
  BY <1>2, <1>3, <1>4, <1>5, <1>6, <1>7, <1>8, <1>9
  DEF Next, Thread, Operation, Stepping, Vpp

(* All parts together.                                                     *)
LEMMA TypeStep ==
  ASSUME IInv, [Next]_vars
  PROVE  TypeOK'
<1>1. TypeOK /\ Phase /\ Protocol /\ Known
  BY DEF IInv
<1>2. ThreadType' /\ VapiType' /\ FrameType' /\ SpoolType' /\ VppType'
  BY <1>1, ThreadTypeStep, VapiTypeStep, FrameTypeStep, SpoolTypeStep, VppTypeStep
<1>3. TypeOK' <=> (ThreadType /\ VapiType /\ FrameType /\ SpoolType /\ VppType)'
  BY DEF TypeOK, ThreadType, VapiType, FrameType, SpoolType, VppType, Requests
<1> QED
  BY <1>2, <1>3

-----------------------------------------------------------------------------
(* Where the operation is.                                                 *)

(* Every step leaves the thread where its phase says it is.                *)
LEMMA PhaseStep ==
  ASSUME IInv, [Next]_vars
  PROVE  Phase'
<1>0. TypeOK /\ Phase /\ Once
  BY DEF IInv
<1>1. CASE UNCHANGED <<w, op, count, slot, stage, outcome, future>>
  BY <1>0, <1>1 DEF Phase, Running
<1>2. CASE Submit
  <2>1. /\ future = "none" /\ count < MaxOps /\ slot' \in Ops /\ future' = "pending"
        /\ UNCHANGED <<w, op, count, stage, outcome>>
    BY <1>2 DEF Submit, locals
  <2>2. ~Running /\ ~Running'
    BY <1>0, <2>1 DEF Phase, Running
  <2> QED
    BY <1>0, <2>1, <2>2 DEF Phase, Running
<1>3. CASE Collect \/ Stop
  <2>1. UNCHANGED <<slot, w, op, count, stage, outcome>>
    BY <1>3 DEF Collect, Stop, locals
  <2>2. UNCHANGED future \/ future = "ready"
    BY <1>3 DEF Collect, Stop
  <2>3. Running' <=> Running
    BY <2>1 DEF Running
  <2> QED
    BY <1>0, <2>1, <2>2, <2>3 DEF Phase
<1>4. CASE Wait
  <2>1. CASE /\ w' \in {"exited", "poll"} /\ slot = Nil /\ UNCHANGED slot
    BY <2>1 DEF Phase, Running
  <2>2. CASE /\ slot # Nil /\ w' = "connect" /\ op' = slot /\ slot' = Nil
             /\ count' = count + 1 /\ stage' = "names" /\ UNCHANGED <<future, outcome>>
    <3>1. /\ slot \in Ops /\ count \in Nat /\ count + 1 \in 1..MaxOps
          /\ future = "pending"
      BY <1>0, <2>2, Constants DEF Phase, TypeOK
    <3>2. outcome[count + 1] = "none"
      BY <1>0, <3>1 DEF Once
    <3> QED
      BY <2>2, <3>1, <3>2 DEF Phase, Running
  <2> QED
    BY <1>4, <2>1, <2>2 DEF Wait, Leaves, thread
<1>5. CASE Poll
  BY <1>0, <1>5 DEF Poll, Phase, Running, thread, locals
<1>6. CASE Stepping
  <2>1. /\ Running /\ UNCHANGED <<slot, op, count>> /\ slot = Nil /\ op \in Ops
        /\ future = "pending" /\ count > 0 /\ outcome[count] = "none"
    BY <1>0, <1>6, SteppingFacts DEF Phase
  <2>2. CASE \E o \in Outcomes : End(o)
    <3>1. w' = "wait" /\ slot' = Nil
      BY <2>1, <2>2 DEF End
    <3> QED
      BY <3>1 DEF Phase, Running
  <2>3. CASE UNCHANGED <<outcome, future>> /\ w' \in {"dump", "dumping", "send", "dispatch"}
    <3>1. stage' \in {"names", "again"}
      BY <1>0, <1>6, <2>1 DEF Phase, Stepping, Connect, StartDump, DumpEnds, AfterDump,
         Send, DispatchEnds, Abandon, ReplyFailed, ReplyUnusable, Conclude, NextPage
    <3>2. w' \in {"send", "dispatch"} => op.kind # "list" /\ stage' = "names"
      <4>1. w' # "wait"
        BY <2>3
      <4>2. CASE AfterDump
        BY <1>0, <4>1, <4>2 DEF AfterDump, Goto, End, Phase
      <4>3. CASE Send
        BY <1>0, <2>1, <4>1, <4>3 DEF Send, Goto, End, Phase
      <4>4. CASE NextPage
        BY <1>0, <2>1, <4>1, <4>4 DEF NextPage, Goto, End, Phase
      <4>5. CASE Conclude \/ Connect \/ StartDump \/ DumpEnds \/ DispatchEnds
                 \/ ReplyFailed \/ ReplyUnusable
        BY <4>1, <4>5 DEF Conclude, Connect, StartDump, DumpEnds, DispatchEnds, Abandon,
           ReplyFailed, ReplyUnusable, Goto, End
      <4> QED
        BY <1>6, <4>2, <4>3, <4>4, <4>5 DEF Stepping
    <3>3. stage' = "again" => op.kind = "call"
      BY <1>0, <1>6, <2>1 DEF Phase, Stepping, Connect, StartDump, DumpEnds, AfterDump,
         Send, DispatchEnds, Abandon, ReplyFailed, ReplyUnusable, Conclude, NextPage
    <3> QED
      BY <2>1, <2>3, <3>1, <3>2, <3>3 DEF Phase, Running
  <2> QED
    BY <1>0, <1>6, <2>2, <2>3, SteppingFacts DEF Goto
<1>7. CASE Dispatch \/ DispatchDump \/ Finished \/ UNCHANGED vars
  BY <1>1, <1>7 DEF Dispatch, DispatchDump, Finished, vars, thread, locals
<1>8. CASE Vpp
  BY <1>1, <1>8, VppLeaves DEF thread, locals
<1> QED
  BY <1>2, <1>3, <1>4, <1>5, <1>6, <1>7, <1>8
  DEF Next, Thread, Operation, Stepping, Main

-----------------------------------------------------------------------------
(* The conversation with VPP.                                              *)

(* Before anything is asked nothing is open.                               *)
LEMMA NothingOpen ==
  ASSUME TypeOK, Protocol, ~Awaiting
  PROVE  inbox = << >> /\ \A m \in requests : ~m.live
BY DEF Protocol

(* An inbox with something in it answers all that was asked.               *)
LEMMA NothingAsked ==
  ASSUME TypeOK, Protocol, inbox # << >>
  PROVE  Awaiting /\ context /\ \A m \in requests : ~m.live
BY DEF Protocol

(* When the connection is given up.                                        *)
LEMMA ProtocolReset ==
  ASSUME NEW S \in SUBSET Requests, requests' \subseteq Orphans(S), inbox' = << >>
  PROVE  Protocol'
<1>1. \A q \in requests' : ~q.live /\ q.type \in Effectful
  BY OrphanFacts
<1>2. inbox' \in Seq(Messages) /\ Len(inbox') = 0
  BY EmptySeq
<1> QED
  BY <1>1, <1>2 DEF Protocol

(* When the thread moves on with nothing open.                             *)
LEMMA ProtocolIdle ==
  ASSUME TypeOK, Protocol, ~Awaiting, UNCHANGED <<requests, inbox>>
  PROVE  Protocol'
<1>1. inbox' = << >> /\ \A m \in requests' : ~m.live /\ m.type \in Effectful
  BY NothingOpen DEF Protocol
<1>2. inbox' \in Seq(Messages) /\ Len(inbox') = 0
  BY <1>1, EmptySeq
<1> QED
  BY <1>1, <1>2 DEF Protocol

(* When something is asked.                                                *)
LEMMA ProtocolAsk ==
  ASSUME TypeOK, Protocol, ~Awaiting, NEW m \in Requests, NEW S, Register(m, S),
         w' \in {"dumping", "dispatch"}, done' = FALSE, m.op = count', m.type = Asked',
         m.live = TRUE
  PROVE  Protocol'
<1>1. /\ inbox' = << >> /\ requests' = requests \cup {m} /\ link' = TRUE
      /\ \A q \in requests : ~q.live /\ q.type \in Effectful
  BY NothingOpen DEF Protocol, Register, TypeOK
<1>2. inbox' \in Seq(Messages) /\ Len(inbox') = 0
  BY <1>1, EmptySeq
<1>3. Awaiting'
  BY DEF Awaiting
<1>4. \A q \in requests' : IF q.live THEN q = m ELSE q.type \in Effectful
  BY <1>1
<1> QED
  BY <1>1, <1>2, <1>3, <1>4 DEF Protocol

(* When a callback takes a message: what ends the answer is its last one.  *)
LEMMA Taken ==
  ASSUME TypeOK, Protocol, inbox # << >>
  PROVE  /\ Head(inbox).type \in Parts \cup Lasts /\ Head(inbox) = inbox[1]
         /\ Head(inbox) \in Messages /\ Len(inbox) \in Nat /\ Len(inbox) > 0
         /\ Head(inbox).type \in Lasts <=> Len(inbox) = 1
         /\ Head(inbox).type \in Parts <=> Len(inbox) > 1
<1>1. /\ Head(inbox) = inbox[1] /\ Head(inbox) \in Messages /\ 1 \in 1..Len(inbox)
      /\ Len(inbox) \in Nat /\ Len(inbox) > 0
  BY TakeFacts DEF Protocol
<1>2. inbox[1].type \in IF 1 < Len(inbox) THEN Parts ELSE Lasts
  BY <1>1 DEF Protocol
<1> DEFINE n == Len(inbox)
           t == Head(inbox).type
<1>3. \A x \in Parts : x \notin Lasts
  BY DEF Parts, Lasts
<1>4. t \in IF 1 < n THEN Parts ELSE Lasts
  BY <1>1, <1>2
<1>5. n \in Nat /\ n > 0
  BY <1>1
<1> HIDE DEF n, t
<1>6. /\ t \in Parts \cup Lasts /\ (t \in Lasts <=> n = 1) /\ (t \in Parts <=> n > 1)
  BY <1>3, <1>4, <1>5
<1> QED
  BY <1>1, <1>6 DEF n, t

(* A callback takes the oldest message VPP sent.                           *)
LEMMA ProtocolTake ==
  ASSUME TypeOK, Protocol, inbox # << >>, inbox' = Tail(inbox),
         UNCHANGED <<requests, context, link, w, op, count>>,
         done' = (done \/ Head(inbox).type \in Lasts)
  PROVE  Protocol'
<1>1. /\ inbox' \in Seq(Messages) /\ Len(inbox') = Len(inbox) - 1
      /\ inbox' = << >> <=> Len(inbox) = 1
      /\ \A i \in 1..Len(inbox') : /\ i + 1 \in 1..Len(inbox)
                                   /\ inbox'[i] = inbox[i + 1]
                                   /\ i < Len(inbox') <=> i + 1 < Len(inbox)
  BY TakeFacts DEF Protocol
<1>2. Awaiting /\ context /\ \A m \in requests : ~m.live /\ m.type \in Effectful
  BY NothingAsked DEF Protocol
<1>3. inbox' # << >> => ~done'
  BY <1>1, <1>2, Taken DEF Awaiting
<1>4. inbox' # << >> => Awaiting' /\ context'
  BY <1>2, <1>3 DEF Awaiting
<1>5. Parts' = Parts /\ Lasts' = Lasts
  BY DEF Parts, Lasts
<1>6. \A i \in 1..Len(inbox') :
        inbox'[i].type \in IF i < Len(inbox') THEN Parts' ELSE Lasts'
  BY <1>1, <1>5 DEF Protocol
<1> QED
  BY <1>1, <1>2, <1>4, <1>6 DEF Protocol

(* When VPP answers: only the one message that is open is heard.           *)
LEMMA ProtocolAnswer ==
  ASSUME TypeOK, Protocol, NEW m \in requests, requests' = requests \ {m},
         NEW s \in Seq(Messages), Say(m, s), UNCHANGED <<context, link, w, done, op, count>>,
         m.live => \A i \in 1..Len(s) : s[i].type \in IF i < Len(s) THEN Parts ELSE Lasts
  PROVE  /\ Protocol'
         /\ inbox' = IF m.live THEN s ELSE inbox
         /\ m.live => m.op = count /\ m.type = Asked /\ Awaiting /\ inbox = << >>
<1>1. /\ m.live \in BOOLEAN /\ link \in BOOLEAN /\ (link => context)
      /\ inbox \in Seq(Messages)
  BY RequestFacts DEF TypeOK, Requests, Protocol
<1>2. Parts' = Parts /\ Lasts' = Lasts /\ (Awaiting' <=> Awaiting) /\ Asked' = Asked
  BY DEF Parts, Lasts, Awaiting, Asked
<1>3. CASE m.live
  <2>1. /\ Awaiting /\ link /\ inbox = << >> /\ m.op = count /\ m.type = Asked
        /\ \A q \in requests' : ~q.live /\ q.type \in Effectful
    BY <1>3 DEF Protocol
  <2>2. inbox' = << >> \o s
    BY <1>3, <2>1 DEF Say
  <2>3. inbox' = s
    BY <2>2, ConcatEmptySeq
  <2> QED
    BY <1>1, <1>2, <1>3, <2>1, <2>3 DEF Protocol
<1>4. CASE ~m.live
  <2>1. inbox' = inbox
    BY <1>4 DEF Say
  <2> QED
    BY <1>1, <1>2, <1>4, <2>1 DEF Protocol
<1> QED
  BY <1>3, <1>4

(* The answers, as sequences of messages.                                  *)
LEMMA DumpAnswer ==
  ASSUME TypeOK
  PROVE  LET s == [i \in DOMAIN InOrder |-> Detail(InOrder[i])] \o <<[type |-> "last"]>>
             n == Cardinality(Pairs(table))
         IN  /\ s \in Seq(Messages) /\ n \in Nat /\ Len(s) = n + 1 /\ s # << >>
             /\ \A i \in 1..n : /\ s[i].type = "detail"
                                /\ <<s[i].idx, s[i].name>> \in Pairs(table)
             /\ s[n + 1].type = "last"
<1> DEFINE n == Cardinality(Pairs(table))
           o == InOrder
           g == [i \in 1..n |-> Detail(o[i])]
           t == [type |-> "last"]
<1>1. n \in Nat /\ ExistsBijection(1..n, Pairs(table))
  BY PairsFinite, FS_CardinalityType DEF TypeOK
<1>2. PICK f \in [1..n -> Pairs(table)] : {f[i] : i \in DOMAIN f} = Pairs(table)
  <2>1. PICK f \in Bijection(1..n, Pairs(table)) : TRUE
    BY <1>1 DEF ExistsBijection
  <2>2. f \in [1..n -> Pairs(table)] /\ \A x \in Pairs(table) : \E i \in 1..n : f[i] = x
    BY <2>1 DEF Bijection, Surjection
  <2>3. {f[i] : i \in DOMAIN f} = Pairs(table)
    BY <2>2
  <2> QED
    BY <2>2, <2>3
<1>3. o \in [1..n -> Pairs(table)]
  BY <1>2 DEF InOrder
<1> HIDE DEF o, n
<1>4. DOMAIN o = 1..n /\ \A i \in 1..n : o[i] \in Pairs(table)
  BY <1>3
<1>5. ASSUME NEW x \in Pairs(table)
      PROVE  /\ Detail(x) \in Messages /\ Detail(x).type = "detail"
             /\ <<Detail(x).idx, Detail(x).name>> = x
  <2>1. PICK i \in Idx : x = <<i, table[i]>> /\ table[i] # Nil
    BY <1>5 DEF Pairs
  <2>2. table[i] \in Names
    BY <2>1 DEF TypeOK
  <2> QED
    BY <2>1, <2>2 DEF Detail, Messages
<1>6. g \in [1..n -> Messages] /\ t \in Messages
  BY <1>4, <1>5 DEF Messages
<1>7. \A i \in 1..n : g[i].type = "detail" /\ <<g[i].idx, g[i].name>> \in Pairs(table)
  BY <1>4, <1>5
<1>8. [i \in DOMAIN InOrder |-> Detail(InOrder[i])] = g
  BY <1>4 DEF o
<1> HIDE DEF g
<1>9. /\ g \o <<t>> \in Seq(Messages) /\ Len(g \o <<t>>) = n + 1 /\ g \o <<t>> # << >>
      /\ \A i \in 1..n : (g \o <<t>>)[i] = g[i]
      /\ (g \o <<t>>)[n + 1] = t
  BY <1>1, <1>6, BurstFacts
<1> QED
  BY <1>1, <1>7, <1>8, <1>9 DEF n

(* The messages of one page: items, then the reply.                        *)
LEMMA PageAnswer ==
  ASSUME NEW n \in 0..1, NEW r \in Retvals, NEW x \in Idx \cup Cursors \cup {Nil}
  PROVE  LET s == [i \in 1..n |-> Item] \o <<ReplyMsg(r, x)>>
         IN  /\ s \in Seq(Messages) /\ Len(s) = n + 1 /\ s # << >>
             /\ \A i \in 1..n : s[i].type = "item"
             /\ s[n + 1].type = "reply" /\ s[n + 1].retval = r /\ s[n + 1].arg = x
<1> DEFINE g == [i \in 1..n |-> Item]
           t == ReplyMsg(r, x)
<1>1. /\ t \in Messages /\ t.type = "reply" /\ t.retval = r /\ t.arg = x
      /\ Item \in Messages /\ Item.type = "item" /\ n \in Nat
  BY DEF ReplyMsg, Messages, Replies, Item
<1>2. g \in [1..n -> Messages] /\ \A i \in 1..n : g[i] = Item
  BY <1>1
<1> HIDE DEF g, t
<1>3. /\ g \o <<t>> \in Seq(Messages) /\ Len(g \o <<t>>) = n + 1 /\ g \o <<t>> # << >>
      /\ \A i \in 1..n : (g \o <<t>>)[i] = g[i]
      /\ (g \o <<t>>)[n + 1] = t
  BY <1>1, <1>2, BurstFacts
<1> QED
  BY <1>1, <1>2, <1>3 DEF g, t

(* The messages of a call that answers with one.                           *)
LEMMA SingleAnswer ==
  /\ \A r \in Retvals, x \in Idx \cup Cursors \cup {Nil} :
       LET s == <<ReplyMsg(r, x)>>
       IN  /\ s \in Seq(Messages) /\ Len(s) = 1 /\ s[1].type = "reply"
           /\ s[1].retval = r /\ s[1].arg = x
  /\ LET s == <<[type |-> "noresp"]>>
     IN  s \in Seq(Messages) /\ Len(s) = 1 /\ s[1].type = "noresp"
<1>1. [type |-> "noresp"] \in Messages
  BY DEF Messages
<1>2. \A r \in Retvals, x \in Idx \cup Cursors \cup {Nil} :
        /\ ReplyMsg(r, x) \in Messages /\ ReplyMsg(r, x).type = "reply"
        /\ ReplyMsg(r, x).retval = r /\ ReplyMsg(r, x).arg = x
  BY DEF ReplyMsg, Messages, Replies
<1> QED
  BY <1>1, <1>2

(* Every step keeps the conversation in order.                             *)
LEMMA ProtocolStep ==
  ASSUME IInv, TypeOK', [Next]_vars
  PROVE  Protocol'
<1>0. TypeOK /\ Phase /\ Protocol /\ requests \in SUBSET Requests
  BY DEF IInv, TypeOK, Requests
<1>1. Reset => Protocol'
  BY <1>0, ProtocolReset DEF Reset
<1>2. ~Awaiting /\ UNCHANGED <<requests, inbox>> => Protocol'
  BY <1>0, ProtocolIdle
<1>3. ASSUME NEW m \in Requests, SendFails(m) PROVE Protocol'
  <2>1. \A S \in {{}, {m}} : requests \cup S \in SUBSET Requests
    BY <1>0
  <2>2. PICK S \in {{}, {m}} : requests' = Orphans(requests \cup S)
    BY <1>3 DEF SendFails
  <2>3. inbox' = << >>
    BY <1>3 DEF SendFails
  <2> QED
    BY <2>1, <2>2, <2>3, ProtocolReset
<1>4. CASE UNCHANGED <<requests, inbox, context, link, w, done, op, count>>
  BY <1>0, <1>4 DEF Protocol, Awaiting, Asked, Parts, Lasts
<1>5. CASE Main \/ Finished \/ UNCHANGED vars \/ VppChanges
  BY <1>4, <1>5 DEF Main, Submit, Collect, Stop, Finished, vars, VppChanges, others,
     thread, frame, locals, vapi, vpp
<1>6. CASE Wait
  <2>1. ~Awaiting
    BY <1>6 DEF Wait, Leaves, Awaiting
  <2> QED
    BY <1>1, <1>2, <1>6, <2>1 DEF Wait, Leaves, vapi, vpp
<1>7. CASE Poll
  <2>1. ~Awaiting
    BY <1>7 DEF Poll, Awaiting
  <2>2. inbox = << >>
    BY <1>0, <2>1, NothingOpen
  <2> QED
    BY <1>1, <1>2, <1>7, <2>1, <2>2 DEF Poll, vapi
<1>8. CASE Connect
  BY <1>2, <1>8 DEF Connect, Awaiting
<1>9. CASE StartDump
  <2>1. ~Awaiting /\ count \in 1..MaxOps /\ UNCHANGED <<op, count>>
    BY <1>0, <1>9, EndTypes DEF StartDump, Awaiting, Running, quiet
  <2> DEFINE m == Message("dump", Nil)
  <2>2. /\ m \in Requests /\ m.op = count /\ m.type = "dump" /\ m.live = TRUE
    BY <2>1, MessageFacts
  <2> HIDE DEF m
  <2>3. CASE Register(m, {"dump"}) /\ Goto("dumping") /\ done' = FALSE
    <3>1. w' = "dumping" /\ m.type = Asked' /\ m.op = count'
      BY <2>1, <2>2, <2>3 DEF Goto, Asked
    <3> QED
      BY <1>0, <2>1, <2>2, <2>3, <3>1, ProtocolAsk
  <2> QED
    BY <1>2, <1>3, <1>9, <2>1, <2>2, <2>3 DEF StartDump, KeepContext, m
<1>10. CASE Send
  <2>1. /\ ~Awaiting /\ count \in 1..MaxOps /\ UNCHANGED <<op, count>>
        /\ op.kind \in Kinds
    BY <1>0, <1>10, EndTypes DEF Send, Awaiting, Running, quiet
  <2>2. CASE KeepContext \/ Reset
    BY <1>1, <1>2, <2>1, <2>2 DEF KeepContext
  <2>3. ASSUME NEW i \in Idx, NEW S,
               \/ SendFails(Message(op.kind, i))
               \/ /\ Register(Message(op.kind, i), S) /\ Goto("dispatch")
                  /\ done' = FALSE
        PROVE  Protocol'
    <3> DEFINE m == Message(op.kind, i)
    <3>1. /\ m \in Requests /\ m.op = count /\ m.type = op.kind /\ m.live = TRUE
      BY <2>1, MessageFacts
    <3> HIDE DEF m
    <3>2. CASE Register(m, S) /\ Goto("dispatch") /\ done' = FALSE
      <4>1. w' = "dispatch" /\ m.type = Asked' /\ m.op = count'
        BY <2>1, <3>1, <3>2 DEF Goto, Asked
      <4> QED
        BY <1>0, <2>1, <3>1, <3>2, <4>1, ProtocolAsk
    <3> QED
      BY <1>3, <2>3, <3>1, <3>2 DEF m
  <2> QED
    BY <1>10, <2>2, <2>3 DEF Send, Matches
<1>11. CASE DumpEnds \/ DispatchEnds
  BY <1>1, <1>11 DEF DumpEnds, DispatchEnds, Abandon
<1>12. CASE AfterDump \/ ReplyFailed \/ ReplyUnusable \/ Conclude \/ NextPage
  <2>1. ~Awaiting /\ (Reset \/ KeepContext)
    BY <1>12 DEF AfterDump, ReplyFailed, ReplyUnusable, Conclude, NextPage, Awaiting,
       ResetUnlessSet
  <2> QED
    BY <1>1, <1>2, <2>1 DEF KeepContext
<1>13. CASE DispatchDump
  <2>1. /\ inbox # << >> /\ inbox' = Tail(inbox) /\ w = "dumping" /\ ~done
        /\ UNCHANGED <<requests, context, link, w, op, count>> /\ OnDump(Head(inbox))
    BY <1>13 DEF DispatchDump, vpp
  <2>2. done' = (done \/ Head(inbox).type \in Lasts)
    BY <1>0, <2>1 DEF OnDump, Lasts, TypeOK
  <2> QED
    BY <1>0, <2>1, <2>2, ProtocolTake
<1>14. CASE Dispatch
  <2>1. /\ inbox # << >> /\ inbox' = Tail(inbox) /\ w = "dispatch" /\ ~done
        /\ UNCHANGED <<requests, context, link, w, op, count>> /\ OnMessage(Head(inbox))
    BY <1>14 DEF Dispatch, vpp
  <2>2. done' = (done \/ Head(inbox).type \in Lasts)
    BY <1>0, <2>1 DEF OnMessage, Lasts, TypeOK
  <2> QED
    BY <1>0, <2>1, <2>2, ProtocolTake
<1>16. ASSUME NEW m \in requests, m.live
       PROVE  \/ w = "dumping" /\ m.type = "dump"
              \/ w = "dispatch" /\ m.type = op.kind /\ op.kind \in Kinds
  <2>1. Awaiting /\ m.type = Asked
    BY <1>0, <1>16 DEF Protocol
  <2>2. Running /\ w \in {"dumping", "dispatch"}
    BY <2>1 DEF Awaiting, Running
  <2> QED
    BY <1>0, <2>1, <2>2, EndTypes DEF Asked
<1>15. CASE VppDumps
  <2> DEFINE s == [i \in DOMAIN InOrder |-> Detail(InOrder[i])] \o <<[type |-> "last"]>>
             n == Cardinality(Pairs(table))
  <2>1. PICK m \in requests : /\ m.type = "dump" /\ requests' = requests \ {m} /\ Say(m, s)
    BY <1>15 DEF VppDumps
  <2>2. UNCHANGED <<context, link, w, done, op, count>>
    BY <1>15 DEF VppDumps, others, frame, locals
  <2>3. /\ s \in Seq(Messages) /\ n \in Nat /\ Len(s) = n + 1
        /\ \A i \in 1..n : s[i].type = "detail"
        /\ s[n + 1].type = "last"
    BY <1>0, DumpAnswer
  <2> HIDE DEF s, n
  <2>4. m.live => w = "dumping"
    BY <1>0, <1>16, <2>1 DEF Kinds
  <2>5. m.live => \A i \in 1..Len(s) :
          s[i].type \in IF i < Len(s) THEN Parts ELSE Lasts
    BY <2>3, <2>4 DEF Parts, Lasts
  <2> QED
    BY <1>0, <2>1, <2>2, <2>3, <2>5, ProtocolAnswer
<1>17. ASSUME NEW m \in requests, NEW s \in Seq(Messages), requests' = requests \ {m},
              Say(m, s), Len(s) = 1, UNCHANGED <<context, link, w, done, op, count>>,
              \/ s[1].type = "noresp"
              \/ s[1].type = "reply" /\ m.type \in Kinds
       PROVE  Protocol'
  <2>1. m.live => s[1].type \in Lasts
    BY <1>16, <1>17 DEF Lasts, Kinds
  <2>2. m.live => \A i \in 1..Len(s) : s[i].type \in IF i < Len(s) THEN Parts ELSE Lasts
    BY <1>17, <2>1
  <2> QED
    BY <1>0, <1>17, <2>2, ProtocolAnswer
<1>18. CASE VppApplies
  <2>1. UNCHANGED <<context, link, w, done, op, count>>
    BY <1>18 DEF VppApplies, others, frame, locals
  <2>2. PICK m \in requests :
          /\ m.type \in {"set", "call"} /\ requests' = requests \ {m}
          /\ \E i \in Idx \cup {Nil} : Say(m, <<ReplyMsg("ok", i)>>)
    BY <1>18 DEF VppApplies
  <2>3. PICK i \in Idx \cup {Nil} : Say(m, <<ReplyMsg("ok", i)>>)
    BY <2>2
  <2> DEFINE s == <<ReplyMsg("ok", i)>>
  <2>4. s \in Seq(Messages) /\ Len(s) = 1 /\ s[1].type = "reply"
    BY SingleAnswer DEF Retvals
  <2> HIDE DEF s
  <2>5. Say(m, s)
    BY <2>3 DEF s
  <2> QED
    BY <1>17, <2>1, <2>2, <2>4, <2>5 DEF Kinds
<1>19. CASE VppRejects
  <2>1. UNCHANGED <<context, link, w, done, op, count>>
    BY <1>19 DEF VppRejects, others, frame, locals
  <2> DEFINE s == <<ReplyMsg("rejected", Nil)>>
  <2>2. PICK m \in requests : /\ m.type \in {"set", "call", "stream"}
                              /\ requests' = requests \ {m} /\ Say(m, s)
    BY <1>19 DEF VppRejects
  <2>3. s \in Seq(Messages) /\ Len(s) = 1 /\ s[1].type = "reply"
    BY SingleAnswer DEF Retvals
  <2> HIDE DEF s
  <2> QED
    BY <1>17, <2>1, <2>2, <2>3 DEF Kinds
<1>20. CASE VppSilent
  <2>1. UNCHANGED <<context, link, w, done, op, count>>
    BY <1>20 DEF VppSilent, frame, locals
  <2> DEFINE s == <<[type |-> "noresp"]>>
  <2>2. PICK m \in requests : requests' = requests \ {m} /\ Say(m, s)
    BY <1>20 DEF VppSilent
  <2>3. s \in Seq(Messages) /\ Len(s) = 1 /\ s[1].type = "noresp"
    BY SingleAnswer
  <2> HIDE DEF s
  <2> QED
    BY <1>17, <2>1, <2>2, <2>3
<1>21. CASE VppPages
  <2>1. UNCHANGED <<context, link, w, done, op, count>>
    BY <1>21 DEF VppPages, others, frame, locals
  <2>2. PICK m \in requests, n \in 0..1, r \in Retvals, x \in Cursors \cup {Nil} :
          /\ m.type = "stream" /\ requests' = requests \ {m}
          /\ Say(m, [i \in 1..n |-> Item] \o <<ReplyMsg(r, x)>>)
    BY <1>21 DEF VppPages, Retvals
  <2> DEFINE s == [i \in 1..n |-> Item] \o <<ReplyMsg(r, x)>>
  <2>3. /\ s \in Seq(Messages) /\ Len(s) = n + 1
        /\ \A i \in 1..n : s[i].type = "item"
        /\ s[n + 1].type = "reply"
    BY <2>2, PageAnswer
  <2>4. Say(m, s)
    BY <2>2
  <2> HIDE DEF s
  <2>5. m.live => w = "dispatch"
    BY <1>16, <2>2
  <2>6. m.live => \A i \in 1..Len(s) :
          s[i].type \in IF i < Len(s) THEN Parts ELSE Lasts
    BY <2>2, <2>3, <2>5 DEF Parts, Lasts
  <2> QED
    BY <1>0, <2>1, <2>2, <2>3, <2>4, <2>6, ProtocolAnswer
<1>22. CASE VppBreaks
  <2>1. UNCHANGED <<context, inbox, w, done, op, count>>
    BY <1>22 DEF VppBreaks, frame, locals
  <2>2. \A q \in requests' : ~q.live /\ q.type \in Effectful
    BY <1>0, <1>22, OrphanFacts DEF VppBreaks
  <2> QED
    BY <1>0, <2>1, <2>2 DEF Protocol, Awaiting, Parts, Lasts
<1> QED
  BY <1>5, <1>6, <1>7, <1>8, <1>9, <1>10, <1>11, <1>12, <1>13, <1>14, <1>15, <1>18,
     <1>19, <1>20, <1>21, <1>22 DEF Next, Thread, Operation, Vpp

-----------------------------------------------------------------------------
(* The callbacks that are registered.                                      *)
LEMMA CallbacksStep ==
  ASSUME IInv, [Next]_vars
  PROVE  Callbacks'
<1>0. TypeOK /\ Phase /\ Protocol /\ Callbacks
  BY DEF IInv
<1>1. CASE UNCHANGED <<w, pending, done, error, op>>
  BY <1>0, <1>1 DEF Callbacks
<1>2. CASE pending' = {} /\ w' \notin {"dumping", "dispatch"}
  BY <1>2 DEF Callbacks
<1>3. \A o : End(o) => w' = "wait"
  BY DEF End
<1>4. Reset => pending' = {}
  BY DEF Reset
<1>5. CASE Wait \/ Poll \/ Connect
  <2>1. w \notin {"dumping", "dispatch"} /\ w' \notin {"dumping", "dispatch"}
    BY <1>5 DEF Wait, Leaves, Poll, Connect, Goto, End
  <2>2. UNCHANGED pending \/ Reset
    BY <1>5 DEF Wait, Leaves, Poll, Connect, vapi
  <2> QED
    BY <1>0, <1>2, <1>4, <2>1, <2>2 DEF Callbacks
<1>6. CASE StartDump
  <2>1. pending = {}
    BY <1>0, <1>6 DEF Callbacks, StartDump
  <2>2. CASE Register(Message("dump", Nil), {"dump"}) /\ Goto("dumping") /\ done' = FALSE
    BY <2>1, <2>2 DEF Register, Goto, Callbacks
  <2>3. CASE SendFails(Message("dump", Nil)) /\ End(Failed)
    BY <1>2, <1>3, <2>3 DEF SendFails
  <2>4. CASE KeepContext /\ End(Failed)
    BY <1>2, <1>3, <2>1, <2>4 DEF KeepContext
  <2> QED
    BY <1>6, <2>2, <2>3, <2>4 DEF StartDump
<1>7. CASE Send
  <2>1. pending = {} /\ UNCHANGED op
    BY <1>0, <1>7 DEF Callbacks, Send, quiet
  <2>2. CASE KeepContext /\ End("refused")
    BY <1>2, <1>3, <2>1, <2>2 DEF KeepContext
  <2>3. CASE Reset /\ End("refused")
    BY <1>2, <1>3, <1>4, <2>3
  <2>4. CASE \E m : SendFails(m) /\ End("unknown")
    BY <1>2, <1>3, <2>4 DEF SendFails
  <2>5. CASE \E m : /\ Register(m, IF op.kind = "stream" THEN {"reply", "details"}
                                   ELSE {"reply"})
                    /\ Goto("dispatch") /\ done' = FALSE
    <3>1. /\ pending' = IF op.kind = "stream" THEN {"reply", "details"} ELSE {"reply"}
          /\ w' = "dispatch" /\ done' = FALSE
      BY <2>1, <2>5 DEF Register, Goto
    <3> QED
      BY <2>1, <3>1 DEF Callbacks
  <2> QED
    BY <1>7, <2>2, <2>3, <2>4, <2>5 DEF Send
<1>8. CASE DumpEnds \/ DispatchEnds
  BY <1>2, <1>3, <1>4, <1>8 DEF DumpEnds, DispatchEnds, Abandon
<1>9. CASE AfterDump \/ ReplyUnusable \/ Conclude \/ NextPage
  <2>1. pending = {} /\ UNCHANGED pending
    BY <1>0, <1>9 DEF Callbacks, AfterDump, ReplyUnusable, Conclude, NextPage, KeepContext
  <2>2. w' \notin {"dumping", "dispatch"}
    BY <1>9 DEF AfterDump, ReplyUnusable, Conclude, NextPage, End, Goto
  <2> QED
    BY <1>2, <2>1, <2>2
<1>10. CASE ReplyFailed
  <2>1. pending' = {} /\ w' = "wait"
    BY <1>0, <1>3, <1>4, <1>10 DEF ReplyFailed, ResetUnlessSet, KeepContext, Callbacks
  <2> QED
    BY <1>2, <2>1
<1>11. CASE DispatchDump
  <2>1. w = "dumping" /\ ~done /\ pending = {"dump"} /\ UNCHANGED <<w, op>>
    BY <1>0, <1>11 DEF DispatchDump, Callbacks
  <2>2. \/ UNCHANGED <<done, error, pending>>
        \/ done' = TRUE /\ pending' = {}
    BY <1>11, <2>1 DEF DispatchDump, OnDump
  <2> QED
    BY <2>1, <2>2 DEF Callbacks
<1>12. CASE Dispatch
  <2>1. /\ w = "dispatch" /\ ~done /\ pending \subseteq {"reply", "details"}
        /\ (op.kind = "set" => "details" \notin pending) /\ UNCHANGED <<w, op>>
    BY <1>0, <1>12 DEF Dispatch, Callbacks
  <2>2. \/ UNCHANGED <<done, error, pending>>
        \/ done' = TRUE /\ pending' = pending \ {"reply", "details"}
        \/ done' = TRUE /\ error' = TRUE /\ \E s \in pending : pending' = pending \ {s}
    BY <1>12 DEF Dispatch, OnMessage
  <2>3. CASE done' = TRUE /\ error' = TRUE /\ \E s \in pending : pending' = pending \ {s}
    <3>1. pending' \subseteq {"reply", "details"}
      BY <2>1, <2>3
    <3>2. op.kind = "set" => pending' = {}
      BY <2>1, <2>3
    <3> QED
      BY <2>1, <2>3, <3>1, <3>2 DEF Callbacks
  <2>4. CASE done' = TRUE /\ pending' = pending \ {"reply", "details"}
    BY <2>1, <2>4 DEF Callbacks
  <2> QED
    BY <1>1, <2>1, <2>2, <2>3, <2>4
<1>13. CASE Main \/ Finished \/ UNCHANGED vars
  BY <1>1, <1>13 DEF Main, Submit, Collect, Stop, Finished, vars, frame, locals, vapi
<1>14. CASE Vpp
  BY <1>1, <1>14, VppLeaves DEF frame, locals
<1> QED
  BY <1>5, <1>6, <1>7, <1>8, <1>9, <1>10, <1>11, <1>12, <1>13, <1>14
  DEF Next, Thread, Operation

-----------------------------------------------------------------------------
(* Each operation reaches VPP once.                                        *)

(* The requests in S, with n operations so far and the effects e.          *)
Sent(S, n, e) ==
  /\ \A m \in S : m.op <= n
  /\ \A m, q \in S : m.type \in Effectful /\ q.type \in Effectful /\ m.op = q.op
                       => m = q
  /\ \A m \in S : m.type \in Effectful => e[m.op] = 0

(* Giving up a connection forgets requests and makes none.                 *)
LEMMA SentOrphans ==
  ASSUME NEW S \in SUBSET Requests, NEW n, NEW e, Sent(S, n, e)
  PROVE  Sent(Orphans(S), n, e)
<1>1. \A q \in Orphans(S) : \E m \in S : /\ q = [m EXCEPT !.live = FALSE]
                                         /\ q.op = m.op /\ q.type = m.type
  BY OrphanFacts
<1>2. ASSUME NEW p \in Orphans(S), NEW q \in Orphans(S), p.type \in Effectful,
             q.type \in Effectful, p.op = q.op
      PROVE  p = q
  <2>1. PICK m \in S : p = [m EXCEPT !.live = FALSE] /\ p.op = m.op /\ p.type = m.type
    BY <1>1
  <2>2. PICK r \in S : q = [r EXCEPT !.live = FALSE] /\ q.op = r.op /\ q.type = r.type
    BY <1>1
  <2>3. m = r
    BY <1>2, <2>1, <2>2 DEF Sent
  <2> QED
    BY <2>1, <2>2, <2>3
<1>3. \A q \in Orphans(S) : q.op <= n /\ (q.type \in Effectful => e[q.op] = 0)
  BY <1>1 DEF Sent
<1> QED
  BY <1>2, <1>3 DEF Sent

(* A request that is added is of an operation VPP has not seen.            *)
LEMMA SentMore ==
  ASSUME NEW S \in SUBSET Requests, NEW n \in Nat, NEW e, Sent(S, n, e),
         NEW m \in Requests, m.op <= n,
         m.type \in Effectful =>
           e[m.op] = 0 /\ \A q \in S : q.op = m.op => q.type \notin Effectful
  PROVE  Sent(S \cup {m}, n, e)
BY DEF Sent

(* The effects of the past stay as they are, and there is one at most.     *)
LEMMA OnceStep ==
  ASSUME IInv, TypeOK', [Next]_vars
  PROVE  Once'
<1>0. /\ TypeOK /\ Phase /\ Protocol /\ Once /\ Known /\ requests \in SUBSET Requests
      /\ count \in Nat /\ MaxOps \in Nat
  <2>1. TypeOK /\ Phase /\ Protocol /\ Once /\ Known
    BY DEF IInv
  <2>2. requests \in SUBSET Requests
    BY <2>1 DEF TypeOK, Requests
  <2>3. count \in Nat /\ MaxOps \in Nat
    BY <2>1, Constants DEF TypeOK
  <2> QED
    BY <2>1, <2>2, <2>3
<1>1. Sent(requests, count, effects)
  BY <1>0 DEF Once, Sent
<1>2. Once' <=> /\ Sent(requests', count', effects')
                /\ \A o \in 1..MaxOps :
                     /\ effects'[o] <= 1
                     /\ (o > count' => effects'[o] = 0 /\ outcome'[o] = "none")
  BY DEF Once, Sent
<1>3. Sent(Orphans(requests), count, effects) /\ Sent({}, count, effects)
  BY <1>0, <1>1, SentOrphans DEF Sent
<1>4. \A S \in SUBSET requests : Sent(S, count, effects)
  BY <1>1 DEF Sent
<1>5. UNCHANGED <<requests, count, effects, outcome>> => Once'
  BY <1>0, <1>1 DEF Once
<1>6. CASE Wait
  <2>1. CASE Reset /\ UNCHANGED <<count, effects, outcome>>
    BY <1>0, <1>2, <1>3, <2>1 DEF Once, Reset
  <2>2. CASE count' = count + 1 /\ UNCHANGED <<requests, effects, outcome>>
    <3>1. Sent(requests', count', effects')
      <4>1. \A m \in requests : m.op <= count + 1
        <5>1. \A m \in requests : m.op \in Nat /\ m.op <= count
          BY <1>0, <1>1, RequestFacts DEF Sent
        <5> QED
          BY <1>0, <5>1
      <4> QED
        BY <1>1, <2>2, <4>1 DEF Sent
    <3>2. \A o \in 1..MaxOps : o > count + 1 => o > count
      BY <1>0
    <3> QED
      BY <1>0, <1>2, <2>2, <3>1, <3>2 DEF Once
  <2> QED
    BY <1>5, <1>6, <2>1, <2>2 DEF Wait, Leaves, vpp
<1>7. CASE Poll
  BY <1>0, <1>2, <1>3, <1>5, <1>7 DEF Poll, Reset, Once
<1>8. CASE Stepping
  <2>1. /\ count \in 1..MaxOps /\ UNCHANGED <<count, effects>> /\ op \in Ops
        /\ op.kind \in Kinds /\ Running
    BY <1>0, <1>8, SteppingFacts, EndTypes
  <2>2. \A o \in 1..MaxOps : o > count => outcome'[o] = outcome[o]
    <3>1. \A o : End(o) => \A i \in 1..MaxOps : i > count => outcome'[i] = outcome[i]
      BY <1>0, <2>1 DEF End, TypeOK
    <3>2. \A l : Goto(l) => outcome' = outcome
      BY DEF Goto
    <3> QED
      BY <1>0, <1>8, <3>1, <3>2, SteppingFacts
  <2>3. SUFFICES Sent(requests', count, effects)
    BY <1>0, <1>2, <2>1, <2>2 DEF Once
  <2>4. CASE Reset \/ UNCHANGED requests
    BY <1>1, <1>3, <2>4 DEF Reset
  <2>5. ASSUME NEW m \in Requests, m.op = count, m.type \in Effectful => Untouched(count),
               SendFails(m) \/ \E S : Register(m, S)
        PROVE  Sent(requests', count, effects)
    <3>1. m.op <= count
      BY <1>0, <2>5
    <3>2. Sent(requests \cup {m}, count, effects)
      BY <1>0, <1>1, <2>5, <3>1, SentMore DEF Untouched, Clean
    <3>3. requests \cup {m} \in SUBSET Requests
      BY <1>0, <2>5
    <3>4. /\ Sent(Orphans(requests \cup {m}), count, effects)
          /\ Sent(Orphans(requests \cup {}), count, effects)
      <4>1. requests \cup {} = requests
        OBVIOUS
      <4> QED
        BY <1>3, <3>2, <3>3, <4>1, SentOrphans
    <3>5. CASE SendFails(m)
      BY <3>4, <3>5 DEF SendFails
    <3>6. CASE \E S : Register(m, S)
      BY <3>2, <3>6 DEF Register
    <3> QED
      BY <2>5, <3>5, <3>6
  <2>6. CASE StartDump
    <3>1. /\ Message("dump", Nil) \in Requests /\ Message("dump", Nil).op = count
          /\ Message("dump", Nil).type \notin Effectful
      <4>1. Message("dump", Nil).type = "dump" /\ Message("dump", Nil) \in Requests
            /\ Message("dump", Nil).op = count
        BY <2>1, MessageFacts
      <4> QED
        BY <4>1 DEF Effectful
    <3> QED
      BY <2>4, <2>5, <2>6, <3>1 DEF StartDump, KeepContext
  <2>7. CASE Send
    <3>1. Untouched(count)
      <4>1. w = "send" /\ stage = "names"
        BY <1>0, <2>1, <2>7 DEF Send, Phase
      <4> QED
        BY <1>0, <2>1, <4>1 DEF Known
    <3>2. \A i \in Idx : /\ Message(op.kind, i) \in Requests
                         /\ Message(op.kind, i).op = count
      BY <2>1, MessageFacts
    <3>3. \A i \in Matches : i \in Idx
      BY DEF Matches
    <3>4. \/ Reset \/ UNCHANGED requests
          \/ \E i \in Matches : \/ SendFails(Message(op.kind, i))
                                \/ \E S : Register(Message(op.kind, i), S)
      BY <2>7 DEF Send, KeepContext
    <3> QED
      BY <2>4, <2>5, <3>1, <3>2, <3>3, <3>4
  <2>8. CASE \/ Connect \/ DumpEnds \/ AfterDump \/ DispatchEnds \/ ReplyFailed
             \/ ReplyUnusable \/ Conclude \/ NextPage
    BY <2>4, <2>8 DEF Connect, DumpEnds, AfterDump, DispatchEnds, Abandon, ReplyFailed,
       ReplyUnusable, Conclude, NextPage, KeepContext, ResetUnlessSet
  <2> QED
    BY <1>8, <2>6, <2>7, <2>8 DEF Stepping
<1>9. CASE Main \/ Dispatch \/ DispatchDump \/ Finished \/ UNCHANGED vars \/ VppChanges
  BY <1>5, <1>9 DEF Main, Submit, Collect, Stop, Dispatch, DispatchDump, Finished, vars,
     VppChanges, others, vpp
<1>10. CASE VppDumps \/ VppRejects \/ VppPages \/ VppSilent \/ VppBreaks
  <2>1. UNCHANGED <<count, effects, outcome>>
    BY <1>10 DEF VppDumps, VppRejects, VppPages, VppSilent, VppBreaks, others
  <2>2. requests' \in SUBSET requests \/ requests' = Orphans(requests)
    BY <1>10 DEF VppDumps, VppRejects, VppPages, VppSilent, VppBreaks
  <2> QED
    BY <1>0, <1>2, <1>3, <1>4, <2>1, <2>2 DEF Once
<1>11. CASE VppApplies
  <2>1. PICK m \in requests : /\ m.type \in Effectful /\ requests' = requests \ {m}
                              /\ effects' = [effects EXCEPT ![m.op] = @ + 1]
    BY <1>11 DEF VppApplies, Effectful
  <2>2. UNCHANGED <<count, outcome>>
    BY <1>11 DEF VppApplies, others
  <2>3. /\ m.op \in 1..MaxOps /\ m.op <= count /\ effects[m.op] = 0
        /\ \A q \in requests' : q.op \in 1..MaxOps
    BY <1>0, <1>1, <2>1, RequestFacts DEF Sent
  <2>4. /\ effects'[m.op] = 1
        /\ \A o \in 1..MaxOps : o # m.op => effects'[o] = effects[o]
    BY <1>0, <2>1, <2>3 DEF TypeOK
  <2>5. \A q \in requests' : q.type \in Effectful => q.op # m.op
    BY <1>1, <2>1 DEF Sent
  <2>6. Sent(requests', count, effects')
    BY <1>1, <2>1, <2>3, <2>4, <2>5 DEF Sent
  <2>7. \A o \in 1..MaxOps : o > count => o # m.op
    BY <1>0, <2>3
  <2>8. \A o \in 1..MaxOps : effects'[o] <= 1
    BY <1>0, <2>4 DEF Once
  <2> QED
    BY <1>0, <1>2, <2>2, <2>4, <2>6, <2>7, <2>8 DEF Once
<1> QED
  BY <1>6, <1>7, <1>8, <1>9, <1>10, <1>11
  DEF Next, Thread, Operation, Stepping, Vpp

-----------------------------------------------------------------------------
(* What the thread knows of what VPP did.                                  *)

(* What a step of the operation may leave with VPP: nothing it did not     *)
(* have before, except a dump or stream, or the operation itself, which is *)
(* then waited for or reported as unknown.                                 *)
LEMMA RequestsStep ==
  ASSUME TypeOK, Phase, Stepping
  PROVE  \A q \in requests' :
           \/ \E m \in requests : q.op = m.op /\ q.type = m.type
           \/ q.op = count /\ q.type \notin Effectful
           \/ /\ w = "send" /\ q.op = count /\ q.type = op.kind
              /\ (w' = "dispatch" \/ outcome'[count] = "unknown")
<1>0. /\ count \in 1..MaxOps /\ op.kind \in Kinds /\ requests \in SUBSET Requests
      /\ outcome \in [1..MaxOps -> Outcomes]
  BY SteppingFacts, EndTypes DEF TypeOK, Requests
<1>1. ASSUME NEW S \in SUBSET Requests
      PROVE  \A q \in Orphans(S) : \E m \in S : q.op = m.op /\ q.type = m.type
  BY OrphanFacts
<1>2. CASE Reset \/ UNCHANGED requests
  BY <1>0, <1>1, <1>2 DEF Reset
<1>3. ASSUME NEW m \in Requests, SendFails(m) \/ \E S : Register(m, S)
      PROVE  \A q \in requests' : \E r \in requests \cup {m} :
                                    q.op = r.op /\ q.type = r.type
  <2>1. \A T \in {{}, {m}} : requests \cup T \in SUBSET Requests
    BY <1>0
  <2>2. CASE SendFails(m)
    <3>1. PICK T \in {{}, {m}} : requests' = Orphans(requests \cup T)
      BY <2>2 DEF SendFails
    <3> QED
      BY <1>1, <2>1, <3>1
  <2>3. CASE \E S : Register(m, S)
    BY <2>3 DEF Register
  <2> QED
    BY <1>3, <2>2, <2>3
<1>4. CASE StartDump
  <2> DEFINE m == Message("dump", Nil)
  <2>1. m \in Requests /\ m.op = count /\ m.type = "dump"
    BY <1>0, MessageFacts
  <2>2. \/ SendFails(m) \/ (\E S : Register(m, S))
        \/ UNCHANGED requests
    BY <1>4 DEF StartDump, KeepContext
  <2> HIDE DEF m
  <2>3. m.type \notin Effectful
    BY <2>1 DEF Effectful
  <2> QED
    BY <1>2, <1>3, <2>1, <2>2, <2>3
<1>5. CASE Send
  <2>1. CASE \E i \in Matches :
               \/ SendFails(Message(op.kind, i)) /\ End("unknown")
               \/ (\E S : Register(Message(op.kind, i), S)) /\ Goto("dispatch")
    <3>1. PICK i \in Idx : \/ SendFails(Message(op.kind, i)) /\ End("unknown")
                           \/ /\ (\E S : Register(Message(op.kind, i), S))
                              /\ Goto("dispatch")
      BY <2>1 DEF Matches
    <3> DEFINE m == Message(op.kind, i)
    <3>2. m \in Requests /\ m.op = count /\ m.type = op.kind
      BY <1>0, MessageFacts
    <3>3. SendFails(m) \/ \E S : Register(m, S)
      BY <3>1
    <3>4. w' = "dispatch" \/ outcome'[count] = "unknown"
      BY <1>0, <3>1 DEF Goto, End
    <3>5. w = "send"
      BY <1>5 DEF Send
    <3> HIDE DEF m
    <3> QED
      BY <1>3, <3>2, <3>3, <3>4, <3>5
  <2> QED
    BY <1>2, <1>5, <2>1 DEF Send, KeepContext
<1>6. CASE \/ Connect \/ DumpEnds \/ AfterDump \/ DispatchEnds \/ ReplyFailed
           \/ ReplyUnusable \/ Conclude \/ NextPage
  BY <1>2, <1>6 DEF Connect, DumpEnds, AfterDump, DispatchEnds, Abandon, ReplyFailed,
     ReplyUnusable, Conclude, NextPage, KeepContext, ResetUnlessSet
<1> QED
  BY <1>4, <1>5, <1>6 DEF Stepping

(* The outcome with which an operation ends is true at that moment.        *)
LEMMA EndTrue ==
  ASSUME IInv, Stepping
  PROVE  \/ \E l \in {"dump", "dumping", "send", "dispatch"} : Goto(l)
         \/ \E o \in Outcomes :
              /\ End(o) /\ (o = "result" => effects[count] = 1)
              /\ (o \in {"refused", "rejected"} => Untouched(count))
<1>0. TypeOK /\ Phase /\ Once /\ Known
  BY DEF IInv
<1>1. Running /\ op \in Ops /\ op.kind \in Kinds
  BY <1>0, SteppingFacts, EndTypes
<1>2. stage = "names" /\ w # "dispatch" => Untouched(count)
  BY <1>0, <1>1 DEF Known
<1>3. w \in {"connect", "send"} \/ op.kind = "list" => stage = "names"
  BY <1>0, <1>1 DEF Phase
<1>4. /\ Failed \in Outcomes /\ Failed # "result"
      /\ (Failed \in {"refused", "rejected"} => stage # "again")
  BY DEF Failed, Outcomes
<1>5. stage \in {"names", "again"}
  BY <1>0, <1>1 DEF Phase
<1> DEFINE Good(o) == /\ (o = "result" => effects[count] = 1)
                      /\ (o \in {"refused", "rejected"} => Untouched(count))
<1>6. {"refused", "error", "complete", "result", "undecoded", "unknown", "rejected"}
        \subseteq Outcomes
  BY DEF Outcomes
<1>7. Good("error") /\ Good("complete") /\ Good("undecoded") /\ Good("unknown")
  OBVIOUS
<1>8. w \in {"dump", "dumping"} => Good(Failed)
  BY <1>2, <1>4, <1>5
<1>9. w \in {"connect", "send"} => Good("refused")
  BY <1>2, <1>3
<1> HIDE DEF Good
<1>10. SUFFICES \/ \E l \in {"dump", "dumping", "send", "dispatch"} : Goto(l)
                \/ \E o \in Outcomes : End(o) /\ Good(o)
  BY DEF Good
<1>11. CASE Connect
  BY <1>6, <1>9, <1>11 DEF Connect
<1>12. CASE StartDump
  BY <1>4, <1>8, <1>12 DEF StartDump
<1>13. CASE DumpEnds
  BY <1>4, <1>8, <1>13 DEF DumpEnds, Abandon
<1>14. CASE DispatchEnds \/ ReplyFailed
  BY <1>6, <1>7, <1>14 DEF DispatchEnds, Abandon, ReplyFailed
<1>15. CASE AfterDump
  <2>1. stage = "again" => Good("result")
    BY <1>0, <1>1 DEF Known, Good
  <2> QED
    BY <1>6, <1>7, <1>15, <2>1 DEF AfterDump
<1>16. CASE Send
  BY <1>6, <1>7, <1>9, <1>16 DEF Send
<1>17. CASE ReplyUnusable
  BY <1>6, <1>7, <1>17 DEF ReplyUnusable
<1>18. CASE Conclude
  <2>1. ReplyTrue(reply) /\ op.kind \in Effectful
    BY <1>0, <1>1, <1>18 DEF Conclude, Known, Phase, Kinds, Effectful
  <2>2. /\ (reply.retval = "rejected" => Good("rejected"))
        /\ (reply.retval = "ok" => Good("result"))
    BY <2>1 DEF ReplyTrue, Tells, Untouched, Clean, Good
  <2> QED
    BY <1>6, <1>18, <2>2 DEF Conclude
<1>19. CASE NextPage
  BY <1>6, <1>7, <1>19 DEF NextPage
<1> QED
  BY <1>11, <1>12, <1>13, <1>14, <1>15, <1>16, <1>17, <1>18, <1>19 DEF Stepping

(* What VPP has not seen it does not see by a step that sends it nothing.  *)
LEMMA UntouchedKept ==
  ASSUME NEW o, Untouched(o), effects'[o] = effects[o],
         \A q \in requests' : q.op = o =>
           \/ \E m \in requests : q.op = m.op /\ q.type = m.type
           \/ q.type \notin Effectful
  PROVE  Untouched(o)'
BY DEF Untouched, Clean

(* The steps of the operation.                                             *)
LEMMA KnownStepping ==
  ASSUME IInv, TypeOK', Stepping
  PROVE  Known'
<1>0. TypeOK /\ Phase /\ Protocol /\ Once /\ Known
  BY DEF IInv
<1>1. /\ Running /\ op \in Ops /\ op.kind \in Kinds /\ count \in 1..MaxOps
      /\ UNCHANGED <<op, count, effects>> /\ outcome \in [1..MaxOps -> Outcomes]
  BY <1>0, SteppingFacts, EndTypes DEF TypeOK
<1>2. \A q \in requests' :
        \/ \E m \in requests : q.op = m.op /\ q.type = m.type
        \/ q.op = count /\ q.type \notin Effectful
        \/ /\ w = "send" /\ q.op = count /\ q.type = op.kind
           /\ (w' = "dispatch" \/ outcome'[count] = "unknown")
  BY <1>0, RequestsStep
<1>3. ASSUME NEW o \in 1..MaxOps, o # count, Untouched(o)
      PROVE  Untouched(o)'
  BY <1>1, <1>2, <1>3, UntouchedKept
<1>4. CASE \E o \in Outcomes : /\ End(o) /\ (o = "result" => effects[count] = 1)
                               /\ (o \in {"refused", "rejected"} => Untouched(count))
  <2>1. PICK u \in Outcomes : /\ End(u) /\ (u = "result" => effects[count] = 1)
                              /\ (u \in {"refused", "rejected"} => Untouched(count))
    BY <1>4
  <2>2. /\ outcome'[count] = u /\ w' = "wait"
        /\ \A o \in 1..MaxOps : o # count => outcome'[o] = outcome[o]
    BY <1>1, <2>1 DEF End
  <2>3. outcome'[count] \in {"refused", "rejected"} => Untouched(count)'
    <3>1. HAVE outcome'[count] \in {"refused", "rejected"}
    <3>2. Untouched(count)
      BY <2>1, <2>2, <3>1
    <3>3. \A q \in requests' : \/ \E m \in requests : q.op = m.op /\ q.type = m.type
                               \/ q.type \notin Effectful
      BY <1>2, <2>2, <3>1
    <3> QED
      BY <1>1, <3>2, <3>3 DEF Untouched, Clean
  <2>4. \A o \in 1..MaxOps :
          /\ (outcome'[o] = "result" => effects'[o] = 1)
          /\ (outcome'[o] \in {"refused", "rejected"} => Untouched(o)')
    <3> SUFFICES ASSUME NEW o \in 1..MaxOps
                 PROVE  /\ (outcome'[o] = "result" => effects'[o] = 1)
                        /\ (outcome'[o] \in {"refused", "rejected"} => Untouched(o)')
      OBVIOUS
    <3>1. CASE o = count
      BY <1>1, <2>1, <2>2, <2>3, <3>1 DEF Untouched, Clean
    <3>2. CASE o # count
      BY <1>0, <1>1, <1>3, <2>2, <3>2 DEF Known
    <3> QED
      BY <3>1, <3>2
  <2>5. ~Running'
    BY <2>2 DEF Running
  <2> QED
    BY <2>2, <2>4, <2>5 DEF Known, Running
<1>5. CASE \E l \in {"dump", "dumping", "send", "dispatch"} : Goto(l)
  <2>1. /\ w' \in {"dump", "dumping", "send", "dispatch"} /\ outcome' = outcome
        /\ outcome[count] = "none"
    BY <1>0, <1>1, <1>5 DEF Goto, Phase
  <2>2. ASSUME NEW o \in 1..MaxOps
        PROVE  /\ (outcome'[o] = "result" => effects'[o] = 1)
               /\ (outcome'[o] \in {"refused", "rejected"} => Untouched(o)')
    <3>1. CASE o = count
      BY <2>1, <3>1
    <3>2. CASE o # count
      BY <1>0, <1>1, <1>3, <2>1, <3>2 DEF Known
    <3> QED
      BY <3>1, <3>2
  <2>3. CASE Conclude
    <3>1. /\ w = "dispatch" /\ done /\ ~error /\ reply.retval = "ok" /\ op.kind = "call"
          /\ w' = "dump" /\ stage' = "again" /\ UNCHANGED reply
      BY <2>1, <2>3 DEF Conclude, End, Goto, frame
    <3>2. effects[count] = 1 /\ reply.arg \in Idx
      BY <1>0, <3>1 DEF Known, ReplyTrue, Tells, Untouched, Clean, Effectful
    <3> QED
      BY <1>1, <2>2, <3>1, <3>2 DEF Known
  <2>4. CASE Send
    <3>1. /\ w = "send" /\ stage = "names" /\ UNCHANGED stage /\ w' = "dispatch"
          /\ done' = FALSE /\ UNCHANGED inbox
      BY <1>0, <1>1, <2>1, <2>4 DEF Send, End, Goto, Phase, Register
    <3>2. Untouched(count) /\ ~Awaiting
      BY <1>0, <1>1, <3>1 DEF Known, Awaiting
    <3>3. inbox' = << >>
      BY <1>0, <3>1, <3>2, NothingOpen
    <3>4. op.kind = "stream" => Untouched(count)'
      <4>1. "stream" \notin Effectful
        BY DEF Effectful
      <4> QED
        BY <1>1, <1>2, <3>2, <4>1 DEF Untouched, Clean
    <3>5. \A i \in 1..Len(inbox') : FALSE
      BY <3>3
    <3> QED
      BY <1>1, <2>2, <3>1, <3>4, <3>5 DEF Known
  <2>5. CASE Connect \/ StartDump \/ AfterDump \/ NextPage
    <3>1. w' \in {"dump", "dumping", "send"} /\ UNCHANGED stage /\ w # "send"
      BY <2>1, <2>5 DEF Connect, StartDump, AfterDump, NextPage, End, Goto
    <3>2. stage = "again" => effects[count] = 1 /\ reply.arg \in Idx /\ UNCHANGED reply
      <4>1. HAVE stage = "again"
      <4>2. w \in {"dump", "dumping"} /\ op.kind = "call"
        BY <1>0, <1>1, <4>1 DEF Phase
      <4>3. UNCHANGED reply
        BY <2>1, <2>5, <4>1, <4>2 DEF Connect, StartDump, AfterDump, NextPage, End, Goto
      <4> QED
        BY <1>0, <1>1, <4>1, <4>3 DEF Known
    <3>3. stage = "names" => Untouched(count)
      <4>1. w = "dispatch" => op.kind = "stream"
        BY <2>5 DEF Connect, StartDump, AfterDump, NextPage
      <4> QED
        BY <1>0, <1>1, <4>1 DEF Known
    <3>4. stage = "names" => Untouched(count)'
      BY <1>1, <1>2, <3>1, <3>3 DEF Untouched, Clean
    <3> QED
      BY <1>1, <2>2, <3>1, <3>2, <3>4 DEF Known
  <2>6. CASE DumpEnds \/ DispatchEnds \/ ReplyFailed \/ ReplyUnusable
    BY <2>1, <2>6 DEF DumpEnds, DispatchEnds, Abandon, ReplyFailed, ReplyUnusable, End
  <2> QED
    BY <2>3, <2>4, <2>5, <2>6 DEF Stepping
<1> QED
  BY <1>4, <1>5, EndTrue

(* What the thread knows stays true while VPP adds to what it says.        *)
LEMMA KnownSame ==
  ASSUME TypeOK, Phase, Known, UNCHANGED <<w, stage, op, count, reply, done, error, outcome>>,
         \A o \in 1..MaxOps : Clean(requests, effects, o) => Clean(requests', effects', o),
         \A o \in 1..MaxOps : effects[o] = 1 => effects'[o] = 1,
         w = "dispatch" => \A i \in 1..Len(inbox') : inbox'[i].type = "reply" =>
           \/ \E j \in 1..Len(inbox) : inbox'[i] = inbox[j]
           \/ Tells(inbox'[i], op.kind, count, requests', effects')
  PROVE  Known'
<1>1. Running => count \in 1..MaxOps
  BY EndTypes
<1>2. Running' <=> Running
  BY DEF Running
<1>3. w = "dispatch" => Running
  BY DEF Running
<1>4. ASSUME NEW r, Running, Tells(r, op.kind, count, requests, effects)
      PROVE  Tells(r, op.kind, count, requests', effects')
  BY <1>1, <1>4 DEF Tells
<1>5. w = "dispatch" => \A i \in 1..Len(inbox') : inbox'[i].type = "reply" =>
                          Tells(inbox'[i], op.kind, count, requests', effects')
  <2> SUFFICES ASSUME w = "dispatch", NEW i \in 1..Len(inbox'), inbox'[i].type = "reply"
               PROVE  Tells(inbox'[i], op.kind, count, requests', effects')
    OBVIOUS
  <2>1. CASE \E j \in 1..Len(inbox) : inbox'[i] = inbox[j]
    <3>1. PICK j \in 1..Len(inbox) : inbox'[i] = inbox[j]
      BY <2>1
    <3>2. Tells(inbox[j], op.kind, count, requests, effects)
      BY <3>1 DEF Known, ReplyTrue
    <3> QED
      BY <1>3, <1>4, <3>1, <3>2
  <2> QED
    BY <2>1
<1>6. w = "dispatch" /\ done /\ ~error =>
        Tells(reply, op.kind, count, requests', effects')
  BY <1>3, <1>4 DEF Known, ReplyTrue
<1> QED
  BY <1>1, <1>2, <1>5, <1>6 DEF Known, ReplyTrue, Untouched

(* All steps.                                                              *)
LEMMA KnownStep ==
  ASSUME IInv, TypeOK', [Next]_vars
  PROVE  Known'
<1>0. /\ TypeOK /\ Phase /\ Protocol /\ Once /\ Known /\ requests \in SUBSET Requests
      /\ inbox \in Seq(Messages)
  BY DEF IInv, TypeOK, Requests, Protocol
<1>1. ASSUME NEW S \in SUBSET requests
      PROVE  \A o : Clean(requests, effects, o) => Clean(S, effects, o)
  BY DEF Clean
<1>2. \A o : Clean(requests, effects, o) => Clean(Orphans(requests), effects, o)
  <2>1. \A q \in Orphans(requests) : \E m \in requests : q.op = m.op /\ q.type = m.type
    BY <1>0, OrphanFacts
  <2> QED
    BY <2>1 DEF Clean
<1>3. CASE Stepping
  BY <1>0, <1>3, KnownStepping
<1>4. CASE /\ UNCHANGED <<w, stage, op, count, reply, done, error, outcome, effects, inbox>>
           /\ requests' \in SUBSET requests \/ requests' = Orphans(requests)
  <2>1. \A o : Clean(requests, effects, o) => Clean(requests', effects', o)
    BY <1>1, <1>2, <1>4
  <2> QED
    BY <1>0, <1>4, <2>1, KnownSame
<1>5. CASE Main \/ Finished \/ UNCHANGED vars \/ VppChanges
  BY <1>4, <1>5 DEF Main, Submit, Collect, Stop, Finished, vars, VppChanges, others,
     thread, frame, locals, vapi, vpp
<1>6. CASE VppBreaks
  BY <1>4, <1>6 DEF VppBreaks, thread, frame, locals
<1>7. CASE Wait \/ Poll
  <2>1. /\ w' \in {"wait", "exited", "poll", "connect"} /\ UNCHANGED <<effects, outcome>>
        /\ UNCHANGED requests \/ Reset
    BY <1>7 DEF Wait, Leaves, Poll, vpp
  <2>2. \A o : Clean(requests, effects, o) => Clean(requests', effects', o)
    BY <1>1, <1>2, <2>1 DEF Reset
  <2>3. w' = "connect" => /\ count' = count + 1 /\ stage' = "names" /\ count + 1 \in 1..MaxOps
                          /\ UNCHANGED requests
    BY <1>0, <1>7, Constants DEF Wait, Leaves, Poll, Phase, TypeOK, vpp
  <2>4. w' = "connect" => Clean(requests', effects', count')
    <3>1. HAVE w' = "connect"
    <3>2. effects[count + 1] = 0
      BY <1>0, <2>3, <3>1 DEF Once, TypeOK
    <3>3. \A m \in requests : m.op # count + 1
      BY <1>0, RequestFacts DEF Once, TypeOK
    <3> QED
      BY <2>1, <2>3, <3>1, <3>2, <3>3 DEF Clean
  <2> QED
    BY <1>0, <2>1, <2>2, <2>3, <2>4 DEF Known, Running, Untouched
<1>8. CASE DispatchDump
  <2>1. /\ w = "dumping" /\ UNCHANGED <<w, stage, op, count, reply, outcome, effects, requests>>
    BY <1>8 DEF DispatchDump, vpp
  <2> QED
    BY <1>0, <2>1 DEF Known, Running, Untouched
<1>9. CASE Dispatch
  <2>1. /\ w = "dispatch" /\ ~done /\ inbox # << >> /\ inbox' = Tail(inbox)
        /\ UNCHANGED <<w, stage, op, count, outcome, effects, requests>>
        /\ OnMessage(Head(inbox))
    BY <1>9 DEF Dispatch, vpp
  <2>2. /\ Head(inbox) = inbox[1] /\ 1 \in 1..Len(inbox)
        /\ \A i \in 1..Len(inbox') : i + 1 \in 1..Len(inbox) /\ inbox'[i] = inbox[i + 1]
    BY <1>0, <2>1, TakeFacts
  <2>3. \A i \in 1..Len(inbox') : inbox'[i].type = "reply" => ReplyTrue(inbox'[i])
    BY <1>0, <2>1, <2>2 DEF Known
  <2>4. done' /\ ~error' => ReplyTrue(reply')
    <3>1. HAVE done' /\ ~error'
    <3>2. /\ Head(inbox).type = "reply"
          /\ reply' = [retval |-> Head(inbox).retval, arg |-> Head(inbox).arg]
      BY <2>1, <3>1 DEF OnMessage
    <3>3. ReplyTrue(Head(inbox))
      BY <1>0, <2>1, <2>2, <3>2 DEF Known
    <3> QED
      BY <3>2, <3>3 DEF ReplyTrue, Tells
  <2>5. stage # "again"
    BY <1>0, <2>1 DEF Phase, Running
  <2> QED
    BY <1>0, <2>1, <2>3, <2>4, <2>5 DEF Known, Running, Untouched, ReplyTrue
<1>10. ASSUME NEW m \in requests, m.live
       PROVE  /\ m.op = count /\ count \in 1..MaxOps
              /\ (w = "dispatch" => m.type = op.kind)
  BY <1>0, <1>10, RequestFacts DEF Protocol, Asked
<1>11. ASSUME NEW m \in requests, NEW s \in Seq(Messages), Say(m, s),
              requests' = requests \ {m}, UNCHANGED effects,
              UNCHANGED <<thread, w, frame, locals, count, outcome>>,
              w = "dispatch" /\ m.live => \A i \in 1..Len(s) : s[i].type = "reply" =>
                 Tells(s[i], op.kind, count, requests \ {m}, effects)
       PROVE  Known'
  <2>1. \A o : Clean(requests, effects, o) => Clean(requests', effects', o)
    BY <1>1, <1>11
  <2>2. inbox' = IF m.live THEN s ELSE inbox
    <3>1. m.live => inbox = << >> /\ link
      BY <1>0 DEF Protocol
    <3>2. << >> \o s = s
      BY <1>11, ConcatEmptySeq
    <3> QED
      BY <1>11, <3>1, <3>2 DEF Say
  <2>3. w = "dispatch" => \A i \in 1..Len(inbox') : inbox'[i].type = "reply" =>
           \/ \E j \in 1..Len(inbox) : inbox'[i] = inbox[j]
           \/ Tells(inbox'[i], op.kind, count, requests', effects')
    BY <1>11, <2>2
  <2>4. UNCHANGED <<w, stage, op, count, reply, done, error, outcome>>
    BY <1>11 DEF frame, locals
  <2> QED
    BY <1>0, <1>11, <2>1, <2>3, <2>4, KnownSame
<1>12. CASE VppDumps
  <2> DEFINE s == [i \in DOMAIN InOrder |-> Detail(InOrder[i])] \o <<[type |-> "last"]>>
             n == Cardinality(Pairs(table))
  <2>1. PICK m \in requests : m.type = "dump" /\ requests' = requests \ {m} /\ Say(m, s)
    BY <1>12 DEF VppDumps
  <2>2. UNCHANGED <<thread, w, frame, locals, count, outcome, effects>>
    BY <1>12 DEF VppDumps, others
  <2>3. /\ s \in Seq(Messages) /\ n \in Nat /\ Len(s) = n + 1
        /\ \A i \in 1..n : s[i].type = "detail"
        /\ s[n + 1].type = "last"
    BY <1>0, DumpAnswer
  <2> HIDE DEF s, n
  <2>4. \A i \in 1..Len(s) : s[i].type # "reply"
    BY <2>3
  <2> QED
    BY <1>11, <2>1, <2>2, <2>3, <2>4
<1>13. CASE VppSilent
  <2> DEFINE s == <<[type |-> "noresp"]>>
  <2>1. PICK m \in requests : requests' = requests \ {m} /\ Say(m, s)
    BY <1>13 DEF VppSilent
  <2>2. UNCHANGED <<thread, w, frame, locals, count, outcome, effects>>
    BY <1>13 DEF VppSilent
  <2>3. s \in Seq(Messages) /\ Len(s) = 1 /\ s[1].type = "noresp"
    BY SingleAnswer
  <2> HIDE DEF s
  <2>4. \A i \in 1..Len(s) : s[i].type # "reply"
    BY <2>3
  <2> QED
    BY <1>11, <2>1, <2>2, <2>3, <2>4
<1>14. CASE VppRejects
  <2> DEFINE s == <<ReplyMsg("rejected", Nil)>>
  <2>1. PICK m \in requests : requests' = requests \ {m} /\ Say(m, s)
    BY <1>14 DEF VppRejects
  <2>2. UNCHANGED <<thread, w, frame, locals, count, outcome, effects>>
    BY <1>14 DEF VppRejects, others
  <2>3. /\ s \in Seq(Messages) /\ Len(s) = 1 /\ s[1].type = "reply"
        /\ s[1].retval = "rejected"
    BY SingleAnswer DEF Retvals
  <2> HIDE DEF s
  <2>4. w = "dispatch" /\ m.live /\ op.kind \in Effectful =>
          Clean(requests \ {m}, effects, count)
    BY <1>0, <1>10 DEF Once, Clean
  <2>5. w = "dispatch" /\ m.live => Tells(s[1], op.kind, count, requests \ {m}, effects)
    BY <2>3, <2>4 DEF Tells, Effectful
  <2>6. w = "dispatch" /\ m.live => \A i \in 1..Len(s) : s[i].type = "reply" =>
          Tells(s[i], op.kind, count, requests \ {m}, effects)
    BY <2>3, <2>5
  <2> QED
    BY <1>11, <2>1, <2>2, <2>3, <2>6
<1>15. CASE VppPages
  <2>1. UNCHANGED <<thread, w, frame, locals, count, outcome, effects>>
    BY <1>15 DEF VppPages, others
  <2>2. PICK m \in requests, n \in 0..1, r \in Retvals, x \in Cursors \cup {Nil} :
          /\ m.type = "stream" /\ requests' = requests \ {m}
          /\ Say(m, [i \in 1..n |-> Item] \o <<ReplyMsg(r, x)>>)
          /\ (r = "continue" => x \in Cursors)
    BY <1>15 DEF VppPages, Retvals
  <2> DEFINE s == [i \in 1..n |-> Item] \o <<ReplyMsg(r, x)>>
  <2>3. /\ s \in Seq(Messages) /\ Len(s) = n + 1
        /\ \A i \in 1..n : s[i].type = "item"
        /\ s[n + 1].retval = r /\ s[n + 1].arg = x
    BY <2>2, PageAnswer
  <2>4. Say(m, s)
    BY <2>2
  <2> HIDE DEF s
  <2>5. w = "dispatch" /\ m.live => Tells(s[n + 1], op.kind, count, requests \ {m}, effects)
    BY <1>10, <2>2, <2>3 DEF Tells, Effectful
  <2>6. \A i \in 1..Len(s) : s[i].type = "reply" => i = n + 1
    BY <2>2, <2>3
  <2> QED
    BY <1>11, <2>1, <2>2, <2>3, <2>4, <2>5, <2>6
<1>16. CASE VppApplies
  <2>1. UNCHANGED <<thread, w, frame, locals, count, outcome>>
    BY <1>16 DEF VppApplies, others
  <2>2. PICK m \in requests :
          /\ m.type \in {"set", "call"} /\ requests' = requests \ {m}
          /\ effects' = [effects EXCEPT ![m.op] = @ + 1]
          /\ \E i \in Idx \cup {Nil} : /\ Say(m, <<ReplyMsg("ok", i)>>)
                                       /\ (m.type = "call" => i \in Idx)
    BY <1>16 DEF VppApplies
  <2>3. PICK i \in Idx \cup {Nil} : /\ Say(m, <<ReplyMsg("ok", i)>>)
                                    /\ (m.type = "call" => i \in Idx)
    BY <2>2
  <2> DEFINE s == <<ReplyMsg("ok", i)>>
  <2>4. /\ s \in Seq(Messages) /\ Len(s) = 1 /\ s[1].type = "reply"
        /\ s[1].retval = "ok" /\ s[1].arg = i
    BY SingleAnswer DEF Retvals
  <2>5. Say(m, s)
    BY <2>3
  <2> HIDE DEF s
  <2>6. m.op \in 1..MaxOps /\ effects[m.op] = 0
    BY <1>0, <2>2, RequestFacts DEF Once, Effectful
  <2>7. /\ effects'[m.op] = 1
        /\ \A o \in 1..MaxOps : o # m.op => effects'[o] = effects[o]
    BY <1>0, <2>2, <2>6 DEF TypeOK
  <2>8. \A o \in 1..MaxOps : effects[o] = 1 => effects'[o] = 1
    BY <2>7
  <2>9. ASSUME NEW o \in 1..MaxOps, Clean(requests, effects, o)
        PROVE  Clean(requests', effects', o)
    <3>1. o # m.op
      BY <2>2, <2>9 DEF Clean, Effectful
    <3> QED
      BY <2>2, <2>7, <2>9, <3>1 DEF Clean
  <2>10. w = "dispatch" /\ m.live => Tells(s[1], op.kind, count, requests', effects')
    BY <1>10, <2>2, <2>3, <2>4, <2>7 DEF Tells, Effectful
  <2>11. inbox' = IF m.live THEN s ELSE inbox
    <3>1. m.live => inbox = << >> /\ link
      BY <1>0 DEF Protocol
    <3>2. << >> \o s = s
      BY <2>4, ConcatEmptySeq
    <3> QED
      BY <2>5, <3>1, <3>2 DEF Say
  <2>12. w = "dispatch" => \A j \in 1..Len(inbox') : inbox'[j].type = "reply" =>
           \/ \E k \in 1..Len(inbox) : inbox'[j] = inbox[k]
           \/ Tells(inbox'[j], op.kind, count, requests', effects')
    <3>1. CASE m.live
      <4>1. inbox' = s /\ Len(s) = 1
        BY <2>4, <2>11, <3>1
      <4>2. \A j \in 1..Len(inbox') : inbox'[j] = s[1]
        BY <4>1
      <4> QED
        BY <2>10, <3>1, <4>2
    <3>2. CASE ~m.live
      <4>1. inbox' = inbox
        BY <2>11, <3>2
      <4> QED
        BY <4>1
    <3> QED
      BY <3>1, <3>2
  <2>13. UNCHANGED <<w, stage, op, count, reply, done, error, outcome>>
    BY <2>1 DEF frame, locals
  <2> QED
    BY <1>0, <2>8, <2>9, <2>12, <2>13, KnownSame
<1> QED
  BY <1>3, <1>5, <1>6, <1>7, <1>8, <1>9, <1>12, <1>13, <1>14, <1>15, <1>16
  DEF Next, Thread, Operation, Stepping, Vpp

-----------------------------------------------------------------------------
(* The items.                                                              *)

(* Whatever waits for an answer is an operation under way.                 *)
LEMMA LiveFacts ==
  ASSUME TypeOK, Phase, Protocol, NEW m \in requests, m.live \/ m.type \notin Effectful
  PROVE  /\ m.live /\ m.op = count /\ Awaiting /\ Running /\ inbox = << >> /\ link
         /\ op \in Ops /\ outcome[count] = "none"
         /\ \/ w = "dumping" /\ m.type = "dump"
            \/ w = "dispatch" /\ m.type = op.kind /\ op.kind # "list"
<1>1. /\ m.live /\ m.op = count /\ Awaiting /\ inbox = << >> /\ link /\ m.type = Asked
  BY DEF Protocol
<1>2. Running /\ w \in {"dumping", "dispatch"}
  BY <1>1 DEF Awaiting, Running
<1> QED
  BY <1>1, <1>2 DEF Phase, Asked

(* The steps of the operation.                                             *)
LEMMA CountedStepping ==
  ASSUME IInv, TypeOK', Stepping
  PROVE  Counted'
<1>0. TypeOK /\ Phase /\ Protocol /\ Once /\ Known /\ Counted
  BY DEF IInv
<1>1. /\ Running /\ op \in Ops /\ op.kind \in Kinds /\ count \in 1..MaxOps
      /\ UNCHANGED <<op, count, spooled, full, bad, said, ended>>
      /\ outcome \in [1..MaxOps -> Outcomes] /\ outcome[count] = "none"
  BY <1>0, SteppingFacts, EndTypes DEF TypeOK, Phase
<1>2. ~Awaiting => inbox = << >> /\ Unheard = 0
  BY <1>0, NothingOpen DEF Unheard
<1>3. CASE \E o \in Outcomes : End(o)
  <2>1. PICK o \in Outcomes : End(o)
    BY <1>3
  <2>2. w' = "wait" /\ outcome'[count] = o /\ ~Running'
    BY <1>1, <2>1 DEF End, Running
  <2>3. o = "complete" => ended /\ spooled = said
    <3>1. HAVE o = "complete"
    <3>2. outcome'[count] = "complete"
      BY <2>2, <3>1
    <3>3. CASE AfterDump
      <4>1. w = "dumping" /\ done /\ ~error /\ op.kind = "list" /\ ~full
        BY <1>1, <3>2, <3>3 DEF AfterDump, End, Goto
      <4> QED
        BY <1>0, <1>1, <4>1 DEF Counted, ListCounted
    <3>4. CASE NextPage
      <4>1. /\ w = "dispatch" /\ done /\ ~error /\ op.kind = "stream" /\ ~bad /\ ~full
            /\ reply.retval = "ok"
        BY <1>1, <3>2, <3>4 DEF NextPage, End, Goto
      <4>2. Unheard = 0
        BY <1>2, <4>1 DEF Awaiting
      <4>3. ended /\ said = spooled + Unheard
        BY <1>0, <1>1, <4>1 DEF Counted, StreamCounted
      <4> QED
        BY <1>0, <4>2, <4>3 DEF TypeOK
    <3>5. CASE \/ Connect \/ StartDump \/ DumpEnds \/ Send \/ DispatchEnds
               \/ ReplyFailed \/ ReplyUnusable \/ Conclude
      BY <1>1, <3>2, <3>5 DEF Connect, StartDump, DumpEnds, Send, DispatchEnds, Abandon,
         ReplyFailed, ReplyUnusable, Conclude, End, Goto, Failed
    <3> QED
      BY <3>3, <3>4, <3>5 DEF Stepping
  <2> QED
    BY <1>1, <2>2, <2>3 DEF Counted, ListCounted, StreamCounted, CompleteIsWhole
<1>4. CASE \E l \in {"dump", "dumping", "send", "dispatch"} : Goto(l)
  <2>1. w' \in {"dump", "dumping", "send", "dispatch"} /\ outcome'[count] = "none"
    BY <1>1, <1>4 DEF Goto
  <2>2. CompleteIsWhole'
    BY <1>1, <2>1 DEF CompleteIsWhole
  <2>3. CASE op.kind = "list"
    <3>1. CASE Connect
      BY <1>0, <1>1, <2>1, <2>2, <2>3, <3>1 DEF Connect, Goto, End, Counted, ListCounted,
         StreamCounted
    <3>2. CASE StartDump
      <4>1. w = "dump" /\ w' = "dumping" /\ done' = FALSE /\ UNCHANGED inbox
        BY <2>1, <3>2 DEF StartDump, Register, Goto, End
      <4>2. inbox' = << >>
        BY <1>2, <4>1 DEF Awaiting
      <4> QED
        BY <1>0, <1>1, <2>2, <2>3, <4>1, <4>2 DEF Counted, ListCounted, StreamCounted
    <3>3. CASE \/ DumpEnds \/ AfterDump \/ Send \/ DispatchEnds
               \/ ReplyFailed \/ ReplyUnusable \/ Conclude \/ NextPage
      BY <1>0, <2>1, <2>3, <3>3 DEF Phase, DumpEnds, AfterDump, Send, DispatchEnds, Abandon,
         ReplyFailed, ReplyUnusable, Conclude, NextPage, End, Goto
    <3> QED
      BY <3>1, <3>2, <3>3 DEF Stepping
  <2>4. CASE op.kind = "stream"
    <3>1. w = "dispatch" => ~Awaiting
      BY <2>1, <2>4 DEF Stepping, Connect, StartDump, DumpEnds, AfterDump, Send,
         DispatchEnds, Abandon, ReplyFailed, ReplyUnusable, Conclude, NextPage, End, Goto,
         Awaiting
    <3>2. full \/ bad \/ said = spooled
      <4>1. full \/ bad \/ said = spooled + IF w = "dispatch" THEN Unheard ELSE 0
        BY <1>0, <1>1, <2>4 DEF Counted, StreamCounted
      <4>2. (IF w = "dispatch" THEN Unheard ELSE 0) = 0
        BY <1>2, <3>1
      <4>3. spooled + 0 = spooled
        BY <1>0 DEF TypeOK
      <4> QED
        BY <4>1, <4>2, <4>3
    <3>3. w' = "dispatch" => inbox' = << >> /\ ~done'
      <4>1. HAVE w' = "dispatch"
      <4>2. CASE Send
        <5>1. w = "send" /\ done' = FALSE /\ UNCHANGED inbox
          BY <4>1, <4>2 DEF Send, End, Goto, Register
        <5> QED
          BY <1>2, <5>1 DEF Awaiting
      <4>3. CASE \/ Connect \/ StartDump \/ DumpEnds \/ AfterDump \/ DispatchEnds
                 \/ ReplyFailed \/ ReplyUnusable \/ Conclude \/ NextPage
        BY <4>1, <4>3 DEF Connect, StartDump, DumpEnds, AfterDump, DispatchEnds, Abandon,
           ReplyFailed, ReplyUnusable, Conclude, NextPage, End, Goto
      <4> QED
        BY <4>2, <4>3 DEF Stepping
    <3>4. (IF w' = "dispatch" THEN Unheard' ELSE 0) = 0
      BY <3>3 DEF Unheard
    <3>5. w' = "dispatch" => \A i \in 1..Len(inbox') : FALSE
      BY <3>3
    <3>6. full' \/ bad' \/ said' = spooled' + IF w' = "dispatch" THEN Unheard' ELSE 0
      BY <1>0, <1>1, <3>2, <3>4 DEF TypeOK
    <3> QED
      BY <1>1, <2>2, <2>4, <3>3, <3>5, <3>6 DEF Counted, ListCounted, StreamCounted
  <2> QED
    BY <1>1, <2>2, <2>3, <2>4 DEF Counted, ListCounted, StreamCounted
<1> QED
  BY <1>0, <1>3, <1>4, SteppingFacts

(* An item is counted unless the spool has refused one.                    *)
LEMMA AddFacts ==
  ASSUME TypeOK, Add
  PROVE  full' \/ bad \/ spooled' = spooled + 1
BY DEF Add, TypeOK

(* The callbacks take the items one by one.                                *)
LEMMA CountedTake ==
  ASSUME IInv, TypeOK', DispatchDump \/ Dispatch
  PROVE  Counted'
<1>0. TypeOK /\ Phase /\ Protocol /\ Counted
  BY DEF IInv
<1>1. /\ inbox # << >> /\ inbox' = Tail(inbox) /\ ~done /\ Running /\ Running'
      /\ UNCHANGED <<w, op, count, outcome, said, ended>>
  BY DEF DispatchDump, Dispatch, vpp, Running
<1>2. op \in Ops /\ outcome[count] = "none" /\ count \in 1..MaxOps
  BY <1>0, <1>1, EndTypes DEF Phase
<1>3. CompleteIsWhole'
  BY <1>1, <1>2 DEF CompleteIsWhole
<1> DEFINE n == Len(inbox)
           h == Head(inbox)
<1>4. /\ n \in Nat /\ n > 0 /\ h = inbox[1] /\ (h.type \in Lasts <=> n = 1)
      /\ h.type \in Parts \cup Lasts
  BY <1>0, <1>1, Taken
<1>5. /\ Len(inbox') = n - 1 /\ (inbox' = << >> <=> n = 1)
      /\ \A i \in 1..Len(inbox') : i + 1 \in 1..n /\ inbox'[i] = inbox[i + 1]
  BY <1>0, <1>1, TakeFacts DEF Protocol
<1>6. Unheard = n - 1 /\ (Unheard' = IF n = 1 THEN 0 ELSE n - 2)
  BY <1>1, <1>4, <1>5 DEF Unheard
<1>7. n > 1 => inbox'[Len(inbox')] = inbox[n]
  BY <1>4, <1>5
<1>8. said \in Nat /\ spooled \in Nat /\ spooled' \in Nat
  BY <1>0, Constants DEF TypeOK
<1> HIDE DEF n, h
<1>9. CASE DispatchDump /\ op.kind = "list"
  <2>1. w = "dumping" /\ OnDump(h) /\ UNCHANGED bad /\ ~bad
    BY <1>0, <1>1, <1>9 DEF DispatchDump, Counted, ListCounted, h
  <2>2. inbox[n].type = "last" => ended /\ (full \/ said = spooled + Unheard)
    BY <1>0, <1>1, <1>9, <2>1 DEF Counted, ListCounted, n
  <2>3. CASE h.type = "detail"
    <3>1. n > 1 /\ UNCHANGED <<done, error>> /\ Add
      BY <1>4, <1>9, <2>1, <2>3 DEF OnDump, Lasts
    <3>2. full' \/ spooled' = spooled + 1
      BY <1>0, <2>1, <3>1, AddFacts
    <3>3. full => full'
      BY <3>1 DEF Add
    <3>4. inbox' # << >> /\ inbox'[Len(inbox')] = inbox[n] /\ Unheard' = n - 2
      BY <1>4, <1>5, <1>6, <1>7, <3>1
    <3>5. inbox'[Len(inbox')].type = "last" =>
            ended' /\ (full' \/ said' = spooled' + Unheard')
      <4>1. said = spooled + Unheard /\ spooled' = spooled + 1 =>
              said' = spooled' + Unheard'
        BY <1>1, <1>4, <1>6, <1>8, <3>4
      <4> QED
        BY <1>1, <2>2, <3>2, <3>3, <3>4, <4>1
    <3> QED
      BY <1>1, <1>3, <1>9, <2>1, <3>1, <3>4, <3>5
      DEF Counted, ListCounted, StreamCounted
  <2>4. CASE h.type = "last"
    <3>1. n = 1 /\ UNCHANGED <<spooled, full>> /\ done' = TRUE
      BY <1>4, <2>1, <2>4 DEF OnDump, Lasts
    <3>2. ended /\ (full \/ said = spooled) /\ inbox' = << >>
      BY <1>4, <1>5, <1>6, <1>8, <2>2, <2>4, <3>1
    <3> QED
      BY <1>1, <1>3, <1>9, <2>1, <3>1, <3>2 DEF Counted, ListCounted, StreamCounted
  <2>5. CASE h.type = "noresp"
    <3>1. n = 1 /\ UNCHANGED <<spooled, full>> /\ done' = TRUE /\ error' = TRUE
      BY <1>4, <2>1, <2>5 DEF OnDump, Lasts
    <3>2. inbox' = << >>
      BY <1>5, <3>1
    <3> QED
      BY <1>1, <1>3, <1>9, <2>1, <3>1, <3>2 DEF Counted, ListCounted, StreamCounted
  <2> QED
    BY <2>1, <2>3, <2>4, <2>5 DEF OnDump
<1>10. CASE DispatchDump /\ op.kind # "list"
  <2>1. w = "dumping" /\ UNCHANGED <<spooled, full, bad>>
    BY <1>10 DEF DispatchDump, OnDump
  <2> QED
    BY <1>0, <1>1, <1>3, <1>10, <2>1 DEF Counted, ListCounted, StreamCounted
<1>11. CASE Dispatch
  <2>1. w = "dispatch" /\ OnMessage(h) /\ op.kind # "list"
    BY <1>0, <1>11 DEF Dispatch, Phase, h
  <2>2. ListCounted'
    BY <1>1, <2>1 DEF ListCounted
  <2>3. CASE op.kind = "stream"
    <3>1. /\ full \/ bad \/ said = spooled + Unheard
          /\ \A i \in 1..n : inbox[i].type = "reply" /\ inbox[i].retval = "ok" => ended
      BY <1>0, <1>1, <2>1, <2>3 DEF Counted, StreamCounted, n
    <3>2. \A i \in 1..Len(inbox') :
            inbox'[i].type = "reply" /\ inbox'[i].retval = "ok" => ended'
      BY <1>1, <1>5, <3>1
    <3>3. h.type = "reply" /\ h.retval = "ok" => ended
      BY <1>4, <3>1
    <3>4. CASE h.type = "item"
      <4>1. n > 1 /\ UNCHANGED <<done, error, reply>>
        BY <1>4, <2>1, <3>4 DEF OnMessage, Lasts
      <4>2. full' \/ bad' \/ (spooled' = spooled + 1 /\ ~full /\ ~bad)
        <5>1. (Add /\ UNCHANGED bad) \/ bad' = TRUE
          BY <2>1, <3>4 DEF OnMessage
        <5>2. Add => (full => full')
          BY DEF Add
        <5> QED
          BY <1>0, <5>1, <5>2, AddFacts
      <4>3. full' \/ bad' \/ said' = spooled' + Unheard'
        <5>1. said = spooled + Unheard /\ spooled' = spooled + 1 =>
                said' = spooled' + Unheard'
          BY <1>1, <1>4, <1>6, <1>8, <4>1
        <5> QED
          BY <3>1, <4>2, <5>1
      <4> QED
        BY <1>1, <1>3, <2>1, <2>2, <3>2, <4>1, <4>3 DEF Counted, StreamCounted
    <3>5. CASE h.type \in {"reply", "noresp"}
      <4>1. n = 1 /\ UNCHANGED <<spooled, full, bad>> /\ Unheard = 0 /\ Unheard' = 0
        BY <1>4, <1>6, <2>1, <3>5 DEF OnMessage, Lasts
      <4>2. full' \/ bad' \/ said' = spooled' + Unheard'
        BY <1>1, <1>8, <3>1, <4>1
      <4>3. done' /\ ~error' /\ reply'.retval = "ok" => ended'
        <5>1. HAVE done' /\ ~error' /\ reply'.retval = "ok"
        <5>2. /\ h.type = "reply"
              /\ reply' = [retval |-> h.retval, arg |-> h.arg]
          BY <2>1, <3>5, <5>1 DEF OnMessage
        <5>3. h.retval = "ok"
          BY <5>1, <5>2
        <5> QED
          BY <1>1, <3>3, <5>2, <5>3
      <4> QED
        BY <1>1, <1>3, <2>1, <2>2, <3>2, <4>2, <4>3 DEF Counted, StreamCounted
    <3> QED
      BY <2>1, <3>4, <3>5 DEF OnMessage
  <2> QED
    BY <1>1, <1>3, <2>2, <2>3 DEF Counted, StreamCounted
<1> QED
  BY <1>9, <1>10, <1>11

(* All steps.                                                              *)
LEMMA CountedStep ==
  ASSUME IInv, TypeOK', [Next]_vars
  PROVE  Counted'
<1>0. /\ TypeOK /\ Phase /\ Protocol /\ Once /\ Counted
  BY DEF IInv
<1>1. CASE UNCHANGED <<w, op, count, outcome, done, error, reply, spooled, full, bad, said,
                       ended, inbox>>
  BY <1>0, <1>1 DEF Counted, ListCounted, StreamCounted, CompleteIsWhole, Running, Unheard
<1>2. CASE Main \/ Finished \/ UNCHANGED vars \/ VppChanges
  BY <1>1, <1>2 DEF Main, Submit, Collect, Stop, Finished, vars, VppChanges, others,
     thread, frame, locals, vapi, vpp
<1>3. CASE VppBreaks
  BY <1>1, <1>3 DEF VppBreaks, thread, frame, locals
<1>4. CASE Stepping
  BY <1>4, CountedStepping
<1>5. CASE DispatchDump \/ Dispatch
  BY <1>5, CountedTake
<1>6. CASE Wait \/ Poll
  <2>1. CASE /\ w' \in {"wait", "exited", "poll"}
             /\ UNCHANGED <<count, outcome, said, ended, spooled>>
    BY <1>0, <2>1 DEF Counted, ListCounted, StreamCounted, CompleteIsWhole, Running
  <2>2. CASE /\ slot # Nil /\ w' = "connect" /\ count' = count + 1 /\ spooled' = 0
             /\ full' = FALSE /\ bad' = FALSE /\ said' = 0 /\ UNCHANGED outcome
    <3>1. outcome'[count'] = "none"
      <4>1. count \in Nat /\ count + 1 \in 1..MaxOps
        BY <1>0, <2>2, Constants DEF Phase, TypeOK
      <4> QED
        BY <1>0, <2>2, <4>1 DEF Once
    <3> QED
      BY <2>2, <3>1 DEF Counted, ListCounted, StreamCounted, CompleteIsWhole
  <2> QED
    BY <1>6, <2>1, <2>2 DEF Wait, Leaves, Poll, locals, vpp
<1>7. ASSUME NEW m \in requests, NEW s \in Seq(Messages), Say(m, s)
      PROVE  inbox' = IF m.live THEN s ELSE inbox
  <2>1. m.live => inbox = << >> /\ link
    BY <1>0 DEF Protocol
  <2>2. << >> \o s = s
    BY <1>7, ConcatEmptySeq
  <2> QED
    BY <1>7, <2>1, <2>2 DEF Say
<1>8. Vpp => UNCHANGED <<w, op, count, outcome, done, error, reply, spooled, full, bad>>
  BY VppLeaves DEF frame, locals
<1>9. ASSUME Vpp, UNCHANGED <<said, ended>>, NEW m \in requests, NEW s \in Seq(Messages),
             Say(m, s), Len(s) = 1, s[1].type \in {"reply", "noresp"},
             s[1].type = "reply" /\ s[1].retval = "ok" => m.type \in Effectful
      PROVE  Counted'
  <2>1. CASE ~m.live
    <3>1. inbox' = inbox
      BY <1>7, <1>9, <2>1
    <3> QED
      BY <1>1, <1>8, <1>9, <3>1
  <2>2. CASE m.live
    <3>1. inbox = << >> /\ inbox' = s /\ inbox' # << >> /\ ~done
      BY <1>0, <1>7, <1>9, <2>2, LiveFacts DEF Awaiting
    <3>2. Unheard = 0 /\ Unheard' = 0
      BY <1>9, <3>1 DEF Unheard
    <3>3. Running' <=> Running
      BY <1>8, <1>9 DEF Running
    <3>4. inbox'[Len(inbox')].type # "last"
      BY <1>9, <3>1
    <3>5. ListCounted'
      BY <1>0, <1>8, <1>9, <3>1, <3>3, <3>4 DEF Counted, ListCounted
    <3>6. StreamCounted'
      <4>1. op.kind = "stream" /\ w = "dispatch" =>
              ~(s[1].type = "reply" /\ s[1].retval = "ok")
        BY <1>0, <1>9, <2>2, LiveFacts DEF Effectful
      <4>2. op.kind = "stream" /\ w = "dispatch" => \A i \in 1..Len(inbox') :
              ~(inbox'[i].type = "reply" /\ inbox'[i].retval = "ok")
        <5>1. \A i \in 1..Len(inbox') : inbox'[i] = s[1]
          <6>1. inbox' = s /\ Len(s) = 1
            BY <1>9, <3>1
          <6> QED
            BY <6>1
        <5> QED
          BY <4>1, <5>1
      <4> QED
        BY <1>0, <1>8, <1>9, <3>1, <3>2, <3>3, <4>2 DEF Counted, StreamCounted
    <3> QED
      BY <1>0, <1>8, <1>9, <3>5, <3>6 DEF Counted, CompleteIsWhole
  <2> QED
    BY <2>1, <2>2
<1>10. CASE VppSilent
  <2> DEFINE s == <<[type |-> "noresp"]>>
  <2>1. (\E m \in requests : Say(m, s)) /\ UNCHANGED <<said, ended>>
    BY <1>10 DEF VppSilent
  <2>2. s \in Seq(Messages) /\ Len(s) = 1 /\ s[1].type = "noresp"
    BY SingleAnswer
  <2> HIDE DEF s
  <2> QED
    BY <1>9, <1>10, <2>1, <2>2 DEF Vpp
<1>11. CASE VppRejects
  <2> DEFINE s == <<ReplyMsg("rejected", Nil)>>
  <2>1. (\E m \in requests : Say(m, s)) /\ UNCHANGED <<said, ended>>
    BY <1>11 DEF VppRejects
  <2>2. /\ s \in Seq(Messages) /\ Len(s) = 1 /\ s[1].type = "reply"
        /\ s[1].retval = "rejected"
    BY SingleAnswer DEF Retvals
  <2> HIDE DEF s
  <2> QED
    BY <1>9, <1>11, <2>1, <2>2 DEF Vpp
<1>12. CASE VppApplies
  <2>1. PICK m \in requests :
          /\ m.type \in {"set", "call"}
          /\ \E i \in Idx \cup {Nil} : Say(m, <<ReplyMsg("ok", i)>>)
    BY <1>12 DEF VppApplies
  <2>2. PICK i \in Idx \cup {Nil} : Say(m, <<ReplyMsg("ok", i)>>)
    BY <2>1
  <2>3. UNCHANGED <<said, ended>>
    BY <1>12 DEF VppApplies
  <2> DEFINE s == <<ReplyMsg("ok", i)>>
  <2>4. s \in Seq(Messages) /\ Len(s) = 1 /\ s[1].type = "reply"
    BY SingleAnswer DEF Retvals
  <2>5. Say(m, s)
    BY <2>2
  <2> HIDE DEF s
  <2> QED
    BY <1>9, <1>12, <2>1, <2>3, <2>4, <2>5 DEF Vpp, Effectful
<1>13. CASE VppDumps
  <2> DEFINE s == [i \in DOMAIN InOrder |-> Detail(InOrder[i])] \o <<[type |-> "last"]>>
             n == Cardinality(Pairs(table))
  <2>1. PICK m \in requests :
          /\ m.type = "dump" /\ Say(m, s)
          /\ said' = IF m.op = count /\ op.kind = "list" THEN n ELSE said
          /\ ended' = IF m.op = count /\ op.kind = "list" THEN TRUE ELSE ended
    BY <1>13 DEF VppDumps
  <2>2. s \in Seq(Messages) /\ n \in Nat /\ Len(s) = n + 1 /\ s # << >>
    BY <1>0, DumpAnswer
  <2> HIDE DEF s, n
  <2>3. /\ m.live /\ m.op = count /\ Awaiting /\ Running /\ inbox = << >> /\ w = "dumping"
        /\ outcome[count] = "none"
    <3>1. "dump" \notin Effectful /\ \A o \in Ops : o.kind # "dump"
      BY Constants DEF Effectful, Kinds
    <3> QED
      BY <1>0, <2>1, <3>1, LiveFacts
  <2>4. inbox' = s /\ inbox' # << >> /\ Unheard' = n /\ ~done /\ w' = "dumping"
    BY <1>7, <1>8, <1>13, <2>1, <2>2, <2>3 DEF Unheard, Awaiting, Vpp
  <2>5. /\ UNCHANGED <<w, op, count, outcome, done, error, reply, spooled, full, bad>>
        /\ Running'
    BY <1>8, <1>13, <2>4 DEF Vpp, Running
  <2>6. CompleteIsWhole'
    BY <2>3, <2>5 DEF CompleteIsWhole
  <2>7. CASE op.kind = "list"
    <3>1. spooled = 0 /\ said' = n /\ ended' = TRUE /\ ~bad
      BY <1>0, <2>1, <2>3, <2>4, <2>7 DEF Counted, ListCounted
    <3>2. said' = spooled' + Unheard'
      BY <2>2, <2>4, <2>5, <3>1
    <3> QED
      BY <2>4, <2>5, <2>6, <2>7, <3>1, <3>2 DEF Counted, ListCounted, StreamCounted
  <2>8. CASE op.kind # "list"
    <3>1. UNCHANGED <<said, ended>>
      BY <2>1, <2>8
    <3> QED
      BY <1>0, <2>3, <2>4, <2>5, <2>6, <2>8, <3>1 DEF Counted, ListCounted, StreamCounted
  <2> QED
    BY <2>7, <2>8
<1>14. CASE VppPages
  <2>1. PICK m \in requests, n \in 0..1, r \in Retvals, x \in Cursors \cup {Nil} :
          /\ m.type = "stream"
          /\ Say(m, [i \in 1..n |-> Item] \o <<ReplyMsg(r, x)>>)
          /\ said' = IF m.op = count THEN said + n ELSE said
          /\ \/ r = "ok" /\ ended' = (ended \/ m.op = count)
             \/ r = "continue" /\ UNCHANGED ended
    BY <1>14 DEF VppPages, Retvals
  <2> DEFINE s == [i \in 1..n |-> Item] \o <<ReplyMsg(r, x)>>
  <2>2. /\ s \in Seq(Messages) /\ Len(s) = n + 1 /\ s # << >>
        /\ \A i \in 1..n : s[i].type = "item"
        /\ s[n + 1].retval = r
    BY <2>1, PageAnswer
  <2>3. Say(m, s)
    BY <2>1
  <2> HIDE DEF s
  <2>4. /\ m.live /\ m.op = count /\ Awaiting /\ Running /\ inbox = << >>
        /\ w = "dispatch" /\ op.kind = "stream" /\ outcome[count] = "none"
    BY <1>0, <2>1, LiveFacts DEF Effectful
  <2>5. inbox' = s /\ Unheard = 0 /\ Unheard' = n /\ ~done
    BY <1>7, <2>1, <2>2, <2>3, <2>4 DEF Unheard, Awaiting
  <2>6. /\ UNCHANGED <<w, op, count, outcome, done, error, reply, spooled, full, bad>>
        /\ Running'
    BY <1>8, <1>14, <2>4 DEF Vpp, Running
  <2>7. CompleteIsWhole' /\ ListCounted'
    BY <2>4, <2>6 DEF CompleteIsWhole, ListCounted
  <2>8. full' \/ bad' \/ said' = spooled' + Unheard'
    <3>1. full \/ bad \/ said = spooled + Unheard
      BY <1>0, <2>4 DEF Counted, StreamCounted
    <3>2. said = spooled + Unheard => said' = spooled' + Unheard'
      BY <1>0, <2>1, <2>4, <2>5, <2>6, Constants DEF TypeOK
    <3> QED
      BY <2>6, <3>1, <3>2
  <2>9. \A i \in 1..Len(inbox') :
          inbox'[i].type = "reply" /\ inbox'[i].retval = "ok" => ended'
    <3>1. r = "ok" => ended'
      BY <2>1, <2>4
    <3>2. \A i \in 1..Len(s) : s[i].type = "reply" => i = n + 1
      BY <2>1, <2>2
    <3> QED
      BY <2>2, <2>5, <3>1, <3>2
  <2> QED
    BY <2>4, <2>5, <2>6, <2>7, <2>8, <2>9 DEF Counted, StreamCounted
<1> QED
  BY <1>2, <1>3, <1>4, <1>5, <1>6, <1>10, <1>11, <1>12, <1>13, <1>14
  DEF Next, Thread, Operation, Stepping, Vpp

-----------------------------------------------------------------------------
(* The names.                                                              *)

(* An entry that is set adds one pair at most.                             *)
LEMMA PairsSet ==
  ASSUME NEW t \in [Idx -> Names \cup {Nil}], NEW i \in Idx, NEW x
  PROVE  Pairs([t EXCEPT ![i] = x]) \subseteq Pairs(t) \cup {<<i, x>>}
BY DEF Pairs

(* The pairs of a table.                                                   *)
LEMMA PairsHave ==
  ASSUME NEW t, NEW i \in Idx, t[i] # Nil
  PROVE  <<i, t[i]>> \in Pairs(t)
BY DEF Pairs

(* What was looked up was so at some moment since the operation began.     *)
LEMMA LearnedStep ==
  ASSUME IInv, TypeOK', [Next]_vars
  PROVE  Learned'
<1>0. TypeOK /\ Phase /\ Protocol /\ Known /\ Learned
  BY DEF IInv
<1>1. CASE UNCHANGED <<count, table, held, w, names, inbox, used>>
  BY <1>0, <1>1 DEF Learned, NamesAreFresh
<1>2. CASE Main \/ Finished \/ UNCHANGED vars
  BY <1>1, <1>2 DEF Main, Submit, Collect, Stop, Finished, vars, vapi, vpp
<1>3. CASE VppBreaks
  BY <1>1, <1>3 DEF VppBreaks
<1>4. CASE Wait \/ Poll
  <2>1. w \in {"wait", "poll"} /\ w' \in {"wait", "exited", "poll", "connect"}
    BY <1>4 DEF Wait, Leaves, Poll
  <2>2. inbox = << >>
    BY <1>0, <2>1, NothingOpen DEF Awaiting
  <2>3. inbox' = << >>
    BY <1>4, <2>2 DEF Wait, Leaves, Poll, Reset, vapi
  <2>4. \/ UNCHANGED <<count, table, held, used>>
        \/ UNCHANGED table /\ held' = Pairs(table) /\ used' = {}
    BY <1>4 DEF Wait, Poll, vpp
  <2>5. \A i \in 1..Len(inbox') : FALSE
    BY <2>3
  <2> QED
    BY <1>0, <2>1, <2>4, <2>5 DEF Learned, NamesAreFresh
<1>5. CASE Stepping
  <2>1. UNCHANGED <<op, count, table, held>> /\ Running /\ op.name \in Names
    BY <1>0, <1>5, SteppingFacts, EndTypes
  <2>2. inbox' = inbox \/ inbox' = << >>
    BY <1>5 DEF Stepping, Connect, StartDump, DumpEnds, AfterDump, Send, DispatchEnds,
       Abandon, ReplyFailed, ReplyUnusable, Conclude, NextPage, Reset, KeepContext,
       Register, SendFails, ResetUnlessSet
  <2>3. \A i \in 1..Len(inbox') :
          inbox'[i].type = "detail" => <<inbox'[i].idx, inbox'[i].name>> \in held
    <3>1. CASE inbox' = << >>
      BY <3>1
    <3>2. CASE inbox' = inbox
      BY <1>0, <3>2 DEF Learned
    <3> QED
      BY <2>2, <3>1, <3>2
  <2>4. w' \in {"dumping", "send", "dispatch"} => Pairs(names') \subseteq held
    <3>1. HAVE w' \in {"dumping", "send", "dispatch"}
    <3>2. CASE StartDump
      BY <3>2 DEF StartDump, Cleared, Unresolved, Pairs
    <3>3. CASE ~StartDump
      <4>1. w \in {"dumping", "send", "dispatch"} /\ UNCHANGED names
        BY <1>5, <3>1, <3>3 DEF Stepping, Connect, DumpEnds, AfterDump, Send,
           DispatchEnds, Abandon, ReplyFailed, ReplyUnusable, Conclude, NextPage, End, Goto
      <4> QED
        BY <1>0, <4>1 DEF Learned
    <3> QED
      BY <3>2, <3>3
  <2>5. used' \subseteq held
    <3>1. CASE UNCHANGED used
      BY <1>0, <3>1 DEF Learned, NamesAreFresh
    <3>2. CASE AfterDump /\ ~UNCHANGED used
      <4>1. /\ w = "dumping" /\ stage = "again" /\ names[reply.arg] # Nil
            /\ used' = used \cup {<<reply.arg, names[reply.arg]>>}
        BY <3>2 DEF AfterDump
      <4>2. reply.arg \in Idx
        BY <1>0, <2>1, <4>1 DEF Known
      <4>3. <<reply.arg, names[reply.arg]>> \in Pairs(names)
        BY <4>1, <4>2, PairsHave
      <4> QED
        BY <1>0, <4>1, <4>3 DEF Learned, NamesAreFresh
    <3>3. CASE Send /\ ~UNCHANGED used
      <4>1. w = "send"
        BY <3>3 DEF Send
      <4>2. PICK i \in Matches : used' = used \cup {<<i, op.name>>}
        BY <3>3 DEF Send
      <4>3. i \in Idx /\ names[i] = op.name
        BY <4>2 DEF Matches
      <4>4. <<i, op.name>> \in Pairs(names)
        BY <2>1, <4>3, Constants, PairsHave
      <4> QED
        BY <1>0, <4>1, <4>2, <4>4 DEF Learned, NamesAreFresh
    <3>4. \/ UNCHANGED used \/ AfterDump \/ Send
      BY <1>5 DEF Stepping, Connect, StartDump, DumpEnds, DispatchEnds, Abandon,
         ReplyFailed, ReplyUnusable, Conclude, NextPage
    <3> QED
      BY <3>1, <3>2, <3>3, <3>4
  <2> QED
    BY <1>0, <2>1, <2>3, <2>4, <2>5 DEF Learned, NamesAreFresh
<1>6. CASE DispatchDump \/ Dispatch
  <2>1. /\ inbox # << >> /\ inbox' = Tail(inbox)
        /\ UNCHANGED <<w, count, table, held, used>>
    BY <1>6 DEF DispatchDump, Dispatch, vpp
  <2>2. /\ \A i \in 1..Len(inbox') : i + 1 \in 1..Len(inbox) /\ inbox'[i] = inbox[i + 1]
        /\ Head(inbox) = inbox[1] /\ 1 \in 1..Len(inbox) /\ Head(inbox) \in Messages
    BY <1>0, <2>1, TakeFacts DEF Protocol
  <2>3. \A i \in 1..Len(inbox') :
          inbox'[i].type = "detail" => <<inbox'[i].idx, inbox'[i].name>> \in held
    BY <1>0, <2>2 DEF Learned
  <2>4. w' \in {"dumping", "send", "dispatch"} => Pairs(names') \subseteq held
    <3>1. \/ UNCHANGED names
          \/ /\ w = "dumping" /\ Head(inbox).type = "detail"
             /\ names' = [names EXCEPT ![Head(inbox).idx] = Head(inbox).name]
      BY <1>6 DEF DispatchDump, Dispatch, OnDump
    <3>2. CASE /\ w = "dumping" /\ Head(inbox).type = "detail"
               /\ names' = [names EXCEPT ![Head(inbox).idx] = Head(inbox).name]
      <4>1. Head(inbox).idx \in Idx
        BY <2>2, <3>2, MessageFromVpp
      <4>2. Pairs(names') \subseteq Pairs(names) \cup {<<Head(inbox).idx, Head(inbox).name>>}
        BY <1>0, <3>2, <4>1, PairsSet DEF TypeOK
      <4>3. <<Head(inbox).idx, Head(inbox).name>> \in held
        BY <1>0, <2>2, <3>2 DEF Learned
      <4> QED
        BY <1>0, <3>2, <4>2, <4>3 DEF Learned
    <3> QED
      BY <1>0, <2>1, <3>1, <3>2 DEF Learned
  <2> QED
    BY <1>0, <2>1, <2>3, <2>4 DEF Learned, NamesAreFresh
<1>7. Vpp => UNCHANGED <<w, count, names, used>>
  BY VppLeaves
<1>8. ASSUME Vpp, held \subseteq held', count > 0 => Pairs(table') \subseteq held',
             \A i \in 1..Len(inbox') : inbox'[i].type = "detail" =>
               <<inbox'[i].idx, inbox'[i].name>> \in held'
      PROVE  Learned'
  BY <1>0, <1>7, <1>8 DEF Learned, NamesAreFresh
<1>9. ASSUME NEW m \in requests, NEW s \in Seq(Messages), Say(m, s)
      PROVE  inbox' = s \/ inbox' = inbox
  <2>1. m.live => inbox = << >> /\ link
    BY <1>0 DEF Protocol
  <2>2. << >> \o s = s
    BY <1>9, ConcatEmptySeq
  <2> QED
    BY <1>9, <2>1, <2>2 DEF Say
<1>10. ASSUME NEW m \in requests, NEW s \in Seq(Messages), Say(m, s), held \subseteq held',
              \A i \in 1..Len(s) : s[i].type = "detail" => <<s[i].idx, s[i].name>> \in held
       PROVE  \A i \in 1..Len(inbox') : inbox'[i].type = "detail" =>
                <<inbox'[i].idx, inbox'[i].name>> \in held'
  BY <1>0, <1>9, <1>10 DEF Learned
<1>11. CASE VppDumps
  <2> DEFINE s == [i \in DOMAIN InOrder |-> Detail(InOrder[i])] \o <<[type |-> "last"]>>
             n == Cardinality(Pairs(table))
  <2>1. PICK m \in requests : m.type = "dump" /\ Say(m, s)
    BY <1>11 DEF VppDumps
  <2>2. UNCHANGED <<table, held>>
    BY <1>11 DEF VppDumps
  <2>3. /\ s \in Seq(Messages) /\ n \in Nat /\ Len(s) = n + 1
        /\ \A i \in 1..n : <<s[i].idx, s[i].name>> \in Pairs(table)
        /\ s[n + 1].type = "last"
    BY <1>0, DumpAnswer
  <2> HIDE DEF s, n
  <2>4. count > 0
    BY <1>0, <2>1, LiveFacts DEF Effectful, Phase
  <2>5. \A i \in 1..Len(s) : s[i].type = "detail" => <<s[i].idx, s[i].name>> \in held
    <3> SUFFICES ASSUME NEW i \in 1..Len(s), s[i].type = "detail"
                 PROVE  <<s[i].idx, s[i].name>> \in held
      OBVIOUS
    <3>1. Pairs(table) \subseteq held
      BY <1>0, <2>4 DEF Learned
    <3>2. i # n + 1
      BY <2>3
    <3>3. i \in 1..n
      BY <2>3, <3>2
    <3> QED
      BY <2>3, <3>1, <3>3
  <2> QED
    BY <1>0, <1>8, <1>10, <1>11, <2>1, <2>2, <2>3, <2>5 DEF Learned, Vpp
<1>12. CASE VppSilent
  <2> DEFINE s == <<[type |-> "noresp"]>>
  <2>1. (\E m \in requests : Say(m, s)) /\ UNCHANGED <<table, held>>
    BY <1>12 DEF VppSilent
  <2>2. s \in Seq(Messages) /\ Len(s) = 1 /\ s[1].type = "noresp"
    BY SingleAnswer
  <2> HIDE DEF s
  <2>3. \A i \in 1..Len(s) : s[i].type # "detail"
    BY <2>2
  <2> QED
    BY <1>0, <1>8, <1>10, <1>12, <2>1, <2>2, <2>3 DEF Learned, Vpp
<1>13. CASE VppRejects
  <2> DEFINE s == <<ReplyMsg("rejected", Nil)>>
  <2>1. (\E m \in requests : Say(m, s)) /\ UNCHANGED <<table, held>>
    BY <1>13 DEF VppRejects
  <2>2. s \in Seq(Messages) /\ Len(s) = 1 /\ s[1].type = "reply"
    BY SingleAnswer DEF Retvals
  <2> HIDE DEF s
  <2>3. \A i \in 1..Len(s) : s[i].type # "detail"
    BY <2>2
  <2> QED
    BY <1>0, <1>8, <1>10, <1>13, <2>1, <2>2, <2>3 DEF Learned, Vpp
<1>14. CASE VppApplies
  <2>1. PICK m \in requests :
          \E i \in Idx \cup {Nil} : Say(m, <<ReplyMsg("ok", i)>>)
    BY <1>14 DEF VppApplies
  <2>2. PICK i \in Idx \cup {Nil} : Say(m, <<ReplyMsg("ok", i)>>)
    BY <2>1
  <2>3. held \subseteq held' /\ (count > 0 => Pairs(table') \subseteq held')
    <3>1. \/ UNCHANGED <<table, held>>
          \/ \E j \in Idx, x \in Names : /\ table' = [table EXCEPT ![j] = x]
                                         /\ held' = held \cup {<<j, x>>}
      BY <1>14 DEF VppApplies
    <3>2. CASE UNCHANGED <<table, held>>
      BY <1>0, <3>2 DEF Learned
    <3>3. CASE \E j \in Idx, x \in Names : /\ table' = [table EXCEPT ![j] = x]
                                           /\ held' = held \cup {<<j, x>>}
      <4>1. PICK j \in Idx, x \in Names : /\ table' = [table EXCEPT ![j] = x]
                                          /\ held' = held \cup {<<j, x>>}
        BY <3>3
      <4>2. Pairs(table') \subseteq Pairs(table) \cup {<<j, x>>}
        BY <1>0, <4>1, PairsSet DEF TypeOK
      <4> QED
        BY <1>0, <4>1, <4>2 DEF Learned
    <3> QED
      BY <3>1, <3>2, <3>3
  <2> DEFINE s == <<ReplyMsg("ok", i)>>
  <2>4. s \in Seq(Messages) /\ Len(s) = 1 /\ s[1].type = "reply"
    BY SingleAnswer DEF Retvals
  <2>5. Say(m, s)
    BY <2>2
  <2> HIDE DEF s
  <2>6. \A k \in 1..Len(s) : s[k].type # "detail"
    BY <2>4
  <2> QED
    BY <1>8, <1>10, <1>14, <2>3, <2>4, <2>5, <2>6 DEF Vpp
<1>15. CASE VppPages
  <2>1. PICK m \in requests, n \in 0..1, r \in Retvals, x \in Cursors \cup {Nil} :
          Say(m, [i \in 1..n |-> Item] \o <<ReplyMsg(r, x)>>)
    BY <1>15 DEF VppPages, Retvals
  <2>2. UNCHANGED <<table, held>>
    BY <1>15 DEF VppPages
  <2> DEFINE s == [i \in 1..n |-> Item] \o <<ReplyMsg(r, x)>>
  <2>3. /\ s \in Seq(Messages) /\ Len(s) = n + 1
        /\ \A i \in 1..n : s[i].type = "item"
        /\ s[n + 1].type = "reply"
    BY <2>1, PageAnswer
  <2>4. Say(m, s)
    BY <2>1
  <2> HIDE DEF s
  <2>5. \A i \in 1..Len(s) : s[i].type # "detail"
    BY <2>1, <2>3
  <2> QED
    BY <1>0, <1>8, <1>10, <1>15, <2>2, <2>3, <2>4, <2>5 DEF Learned, Vpp
<1>16. CASE VppChanges
  <2>1. held' = held \cup Pairs(table') /\ UNCHANGED inbox
    BY <1>16 DEF VppChanges
  <2> QED
    BY <1>0, <1>8, <1>16, <2>1 DEF Learned, Vpp
<1> QED
  BY <1>2, <1>3, <1>4, <1>5, <1>6, <1>11, <1>12, <1>13, <1>14, <1>15, <1>16
  DEF Next, Thread, Operation, Stepping, Vpp

-----------------------------------------------------------------------------
(* The theorems.                                                           *)

(* The thread starts with nothing asked, nothing registered and nothing    *)
(* said.                                                                   *)
LEMMA InitIInv == Init => IInv
<1> SUFFICES ASSUME Init PROVE IInv
  OBVIOUS
<1>1. TypeOK
  <2>1. NoReply \in [retval : Retvals, arg : Idx \cup Cursors \cup {Nil}]
    BY DEF NoReply, Retvals
  <2>2. /\ 0 \in 0..MaxOps /\ 0 \in 0..PageLimit - 1 /\ 0 \in 0..SpoolItems
    BY Constants
  <2>3. outcome \in [1..MaxOps -> Outcomes]
    BY DEF Init, Outcomes
  <2>4. ThreadType
    BY <2>2, <2>3 DEF Init, ThreadType
  <2>5. VapiType
    BY DEF Init, VapiType
  <2>6. FrameType
    BY <2>1, <2>2 DEF Init, FrameType, Unresolved
  <2>7. SpoolType
    BY <2>2 DEF Init, SpoolType
  <2>8. VppType
    BY Constants DEF Init, VppType
  <2> QED
    BY <2>4, <2>5, <2>6, <2>7, <2>8, TypeParts
<1>2. Phase /\ Callbacks
  BY DEF Init, Phase, Running, Callbacks
<1>3. inbox \in Seq(Messages) /\ Len(inbox) = 0
  BY EmptySeq DEF Init
<1>4. Protocol
  BY <1>3 DEF Init, Protocol
<1>5. Once
  BY Constants DEF Init, Once
<1>6. Known
  BY DEF Init, Known, Running
<1>7. Counted
  BY DEF Init, Counted, ListCounted, StreamCounted, CompleteIsWhole, Running
<1>8. Learned
  BY <1>3 DEF Init, Learned, NamesAreFresh
<1> QED
  BY <1>1, <1>2, <1>4, <1>5, <1>6, <1>7, <1>8 DEF IInv

(* The invariant is inductive.                                             *)
THEOREM Inductive == Spec => []IInv
<1>1. IInv /\ [Next]_vars => IInv'
  <2> SUFFICES ASSUME IInv, [Next]_vars PROVE IInv'
    OBVIOUS
  <2>1. TypeOK'
    BY TypeStep
  <2>2. Phase' /\ Protocol' /\ Callbacks'
    BY <2>1, PhaseStep, ProtocolStep, CallbacksStep
  <2>3. Once' /\ Known' /\ Counted' /\ Learned'
    BY <2>1, OnceStep, KnownStep, CountedStep, LearnedStep
  <2> QED
    BY <2>1, <2>2, <2>3 DEF IInv
<1> QED
  BY <1>1, InitIInv, PTL DEF Spec

(* Every variable of the worker, the backend and VPP keeps its type: page  *)
(* stays below the 1024 pages of one operation and the spool within its    *)
(* room.                                                                   *)
THEOREM BackendTypeCorrect == Spec => []TypeOK
<1>1. IInv => TypeOK
  BY DEF IInv
<1> QED
  BY <1>1, Inductive, PTL

(* A callback that is registered with VAPI points into a frame the worker  *)
(* has not left, however an operation ends and however late VPP answers.   *)
THEOREM NoCallbackDangles == Spec => []NoDangling
<1>1. IInv => NoDangling
  <2> SUFFICES ASSUME IInv PROVE NoDangling
    OBVIOUS
  <2>1. TypeOK /\ Callbacks /\ Protocol
    BY DEF IInv
  <2> QED
    BY <2>1 DEF Callbacks, Protocol, NoDangling
<1> QED
  BY <1>1, Inductive, PTL

(* What the backend reports of an operation is what VPP did: once for a    *)
(* result, never for a refusal or a rejection, and completely for a dump   *)
(* that is reported as complete.                                           *)
THEOREM OutcomesAreHonest == Spec => []HonestOutcome
<1>1. IInv => HonestOutcome
  <2> SUFFICES ASSUME IInv, NEW o \in 1..MaxOps
               PROVE  /\ effects[o] <= 1
                      /\ (outcome[o] = "result" => effects[o] = 1)
                      /\ (outcome[o] \in {"refused", "rejected"} =>
                            /\ effects[o] = 0
                            /\ \A m \in requests : m.op = o => m.type \in {"dump", "stream"})
                      /\ (outcome[o] = "complete" /\ o = count => ended /\ spooled = said)
    BY DEF HonestOutcome
  <2>1. TypeOK /\ Protocol /\ Once /\ Known /\ Counted
    BY DEF IInv
  <2>2. \A m \in requests : m.type \in Effectful \/ m.type \in {"dump", "stream", "list"}
    BY <2>1, RequestFacts DEF TypeOK, Requests, Effectful, Kinds
  <2>3. \A m \in requests : m.type # "list"
    <3> SUFFICES ASSUME NEW m \in requests, m.type = "list" PROVE FALSE
      OBVIOUS
    <3>1. m.type \notin Effectful
      BY DEF Effectful
    <3>2. Phase
      BY DEF IInv
    <3> QED
      BY <2>1, <3>1, <3>2, LiveFacts
  <2>4. outcome[o] \in {"refused", "rejected"} =>
          /\ effects[o] = 0
          /\ \A m \in requests : m.op = o => m.type \in {"dump", "stream"}
    BY <2>1, <2>2, <2>3 DEF Known, Untouched, Clean
  <2>5. outcome[o] = "complete" /\ o = count => ended /\ spooled = said
    BY <2>1 DEF Counted, CompleteIsWhole, TypeOK
  <2> QED
    BY <2>1, <2>4, <2>5 DEF Once, Known
<1> QED
  BY <1>1, Inductive, PTL

(* The indexes an operation sends and the names it returns were looked up  *)
(* in VPP after it began.                                                  *)
THEOREM NamesWereLookedUp == Spec => []NamesAreFresh
<1>1. IInv => NamesAreFresh
  BY DEF IInv, Learned
<1> QED
  BY <1>1, Inductive, PTL
=============================================================================
