------------------------------ MODULE Response ------------------------------
(***************************************************************************)
(* One response on its way from the backend to a client: the worker writes *)
(* it to the spool (src/common.cc, class Spool), the main thread publishes *)
(* the retained frames one by one (src/main.cc, Deliver and api.replay),   *)
(* and a client puts the records together again: gateway-client            *)
(* (tools/client.cc, Wait) or the example (example/client.cc, Receive),    *)
(* both with ResponseAssembler of src/common.cc.                           *)
(*                                                                         *)
(* A record is known by its place in the response.  Its length is counted  *)
(* in frames: one, or several fragments.                                   *)
(***************************************************************************)
EXTENDS Integers, Sequences, FiniteSets

CONSTANTS
  Responses,      \* [mode : {"dump", "single"}, sizes : Seq(Nat \ {0})]
  Limit,          \* frames the spool may hold
  Reserve,        \* the 1024 bytes kept for a terminal frame
  RecordFrames,   \* Limits::kRecordBytes, in frames
  Window,         \* Limits::kWindow
  Nil,
  MaxRepeats,     \* bound: publications whose offset is not stored
  MaxRuns,        \* bound: client processes, one after the other
  MaxDrops        \* bound: how often Redis drops the response stream

Kinds == {"chunk", "result", "complete", "error"}
Frames == [seq : Nat, kind : Kinds, rec : Nat, part : Nat, total : Nat,
           first : Nat]

ASSUME ResponseAssumption ==
  /\ Responses \subseteq [mode : {"dump", "single"}, sizes : Seq(Nat \ {0})]
  /\ \A r \in Responses : r.mode = "single" => Len(r.sizes) = 1
  /\ {Limit, Reserve, RecordFrames, Window, MaxRuns} \subseteq Nat \ {0}
  /\ Reserve <= Limit /\ MaxRepeats \in Nat /\ MaxDrops \in Nat
  /\ Nil \notin Frames

VARIABLES
  response,   \* what the backend has to say
  added,      \* items it has handed to the spool
  frames,     \* the spool file
  items,      \* Spool::items_, the records that are complete in the file
  status,     \* Spool::status_
  done,       \* the job is marked done: frames are final
  offset,     \* frames handed to Redis
  wire,       \* the response stream: frames published, not acknowledged
  example,    \* the client is example/client.cc, not gateway-client
  replays,    \* api.replay messages of the client that are not yet handled
  expected,   \* client, locals of Wait
  asm,        \* client, ResponseAssembler: the record it puts together
  shown,      \* client: the records it has printed
  client,     \* "waiting", "finished", "failed"
  repeats, runs, drops

spool == <<response, added, frames, items, status, done>>
waiting == <<expected, asm, shown, client>>
bounds == <<example, repeats, runs, drops>>
vars == <<spool, offset, wire, replays, waiting, bounds>>

(* part: which fragment this is, of how many; first: the seq of the first. *)
Frame(s, k, i, j, t, f) ==
  [seq |-> s, kind |-> k, rec |-> i, part |-> j, total |-> t, first |-> f]

Init ==
  /\ response \in Responses /\ added = 0 /\ frames = << >> /\ items = 0
  /\ status = "ok" /\ done = FALSE /\ offset = 0 /\ wire = << >>
  /\ example \in BOOLEAN /\ replays = (IF example THEN 0 ELSE 1)
  /\ expected = 0 /\ asm = Nil /\ shown = << >> /\ client = "waiting"
  /\ repeats = 0 /\ runs = 1 /\ drops = 0

-----------------------------------------------------------------------------
(* The worker.  Until the job is done nobody else looks at the file.       *)

(* Frames that may still be written without touching the reserve.          *)
Room == Limit - Reserve - Len(frames)

(* WriteRecord: one frame, or as many fragments as there is room for.      *)
Record(k, i, size) ==
  LET n == IF Room <= 0 THEN 0 ELSE IF size <= Room THEN size ELSE Room IN
  [j \in 1..n |-> Frame(Len(frames) + j - 1, k, i, j, size, Len(frames))]

TooLarge(size) == size > RecordFrames
Written(size) == IF TooLarge(size) THEN "payload_too_large"
                 ELSE IF size > Room THEN "quota_exceeded" ELSE "ok"

(* Finish: the terminal frame.                                             *)
Complete == Frame(Len(frames), "complete", items, 1, 1, Len(frames))
Error(s) == Frame(s, "error", 0, 1, 1, s)
AsReported(reported) == reported
Terminal(reported) == IF status = "ok" THEN reported ELSE status

(* Add, called for each item until one is refused; then the items that     *)
(* VPP still sends are dropped.                                            *)
Add ==
  /\ ~done /\ response.mode = "dump" /\ added < Len(response.sizes)
  /\ added' = added + 1
  /\ LET size == response.sizes[added + 1] IN
     IF status # "ok" THEN UNCHANGED <<frames, items, status>>
     ELSE /\ status' = Written(size)
          /\ frames' = frames \o (IF TooLarge(size) THEN << >>
                                  ELSE Record("chunk", added + 1, size))
          /\ items' = IF status' = "ok" THEN items + 1 ELSE items
  /\ UNCHANGED <<response, done, offset, wire, replays, waiting, bounds>>

(* Finish of a dump; the backend may report a failure of its own, then it  *)
(* may come before the last item.                                          *)
FinishDump ==
  /\ ~done /\ response.mode = "dump" /\ done' = TRUE
  /\ \E reported \in {"ok", "failed"} :
       /\ reported = "ok" => added = Len(response.sizes)
       /\ frames' = Append(frames, IF Terminal(reported) = "ok" THEN Complete
                                   ELSE Error(Len(frames)))
  /\ UNCHANGED <<response, added, items, status, offset, wire, replays,
                 waiting, bounds>>

(* Single: one record, and a terminal error where it cannot be written.    *)
Single ==
  /\ ~done /\ response.mode = "single" /\ done' = TRUE
  /\ \E k \in {"result", "error"} :
       LET size == response.sizes[1]
           body == IF TooLarge(size) THEN << >> ELSE Record(k, 1, size)
       IN  /\ status' = Written(size) /\ added' = 1
           /\ frames' = IF Written(size) = "ok" THEN body
                        ELSE Append(body, Error(Len(body)))
  /\ UNCHANGED <<response, items, offset, wire, replays, waiting, bounds>>

-----------------------------------------------------------------------------
(* The main thread.                                                        *)

CanPublish == done /\ offset < Len(frames) /\ Len(wire) < Window
SkipsOne == offset + 2
NextOffset == offset + 1

Deliver ==
  /\ CanPublish /\ wire' = Append(wire, frames[offset + 1])
  /\ offset' = NextOffset
  /\ UNCHANGED <<spool, replays, waiting, bounds>>

(* The frame is in the stream, but Redis' reply is lost, or the process    *)
(* dies before it stores the offset.                                       *)
DeliverUnheard ==
  /\ CanPublish /\ wire' = Append(wire, frames[offset + 1])
  /\ repeats < MaxRepeats /\ repeats' = repeats + 1
  /\ UNCHANGED <<spool, offset, replays, waiting, example, runs, drops>>

(* Receive handles an api.replay of the client.                            *)
Replay ==
  /\ replays > 0 /\ replays' = replays - 1
  /\ offset' = IF done THEN 0 ELSE offset
  /\ UNCHANGED <<spool, wire, waiting, bounds>>

(* The response stream outlives its TTL: unread frames are gone.           *)
Drop ==
  /\ wire # << >> /\ drops < MaxDrops /\ drops' = drops + 1 /\ wire' = << >>
  /\ UNCHANGED <<spool, offset, replays, waiting, example, repeats, runs>>

-----------------------------------------------------------------------------
(* The client: Wait takes the oldest entry, handles and acknowledges it.   *)

(* ResponseAssembler::Accept: a frame that is a record of its own, or the  *)
(* next fragment of the record under way (asm: its last fragment so far).  *)
Plain(f) == f.total = 1 /\ (asm = Nil \/ f.kind = "error")
Fits(f) == /\ f.total > 1
           /\ IF asm = Nil THEN f.part = 1
              ELSE /\ f.part = asm.part + 1
                   /\ <<f.kind, f.rec, f.total, f.first>>
                        = <<asm.kind, asm.rec, asm.total, asm.first>>

EndsWell(f) == f.kind \in {"result", "complete"}
Ends(f) == f.kind # "chunk"
Show(f) == /\ shown' = Append(shown, <<f.kind, f.rec>>) /\ asm' = Nil
           /\ client' = IF Ends(f) THEN "finished" ELSE client

Accept(f) ==
  \/ Plain(f) /\ Show(f)
  \/ Fits(f) /\ f.part = f.total /\ Show(f)
  \/ Fits(f) /\ f.part < f.total /\ asm' = f /\ UNCHANGED <<shown, client>>
  \/ ~Plain(f) /\ ~Fits(f) /\ client' = "failed" /\ UNCHANGED <<shown, asm>>

Unseen(f) == f.seq >= expected
IsNext(f) == f.seq = expected
OutOfPlace(f) == f.seq # expected
Gap(f) == f.seq > expected /\ expected # 0

Wait ==
  LET f == Head(wire) IN
  /\ ~example /\ client = "waiting" /\ wire # << >>
  /\ \/ /\ Gap(f) /\ client' = "failed"
        /\ UNCHANGED <<wire, expected, asm, shown>>
     \/ /\ ~Gap(f) /\ ~IsNext(f) /\ wire' = Tail(wire)
        /\ UNCHANGED waiting
     \/ /\ ~Gap(f) /\ IsNext(f) /\ expected' = expected + 1 /\ Accept(f)
        /\ wire' = IF client' = "failed" THEN wire ELSE Tail(wire)
  /\ UNCHANGED <<spool, offset, replays, bounds>>

(* Receive of example/client.cc: every frame must be the next one.         *)
Receive ==
  LET f == Head(wire) IN
  /\ example /\ client = "waiting" /\ wire # << >>
  /\ \/ /\ OutOfPlace(f) /\ client' = "failed"
        /\ UNCHANGED <<wire, expected, asm, shown>>
     \/ /\ ~OutOfPlace(f) /\ expected' = expected + 1 /\ Accept(f)
        /\ wire' = IF client' = "failed" THEN wire ELSE Tail(wire)
  /\ UNCHANGED <<spool, offset, replays, bounds>>

(* The client program is run again with the same request: it sends the     *)
(* request, which is recognised, and an api.replay.  It may also have died *)
(* or given up before.                                                     *)
Rerun ==
  /\ ~example /\ client # "finished" /\ runs < MaxRuns /\ runs' = runs + 1
  /\ expected' = 0 /\ asm' = Nil /\ shown' = << >> /\ client' = "waiting"
  /\ replays' = replays + 1
  /\ UNCHANGED <<spool, offset, wire, example, repeats, drops>>

-----------------------------------------------------------------------------
Worker == Add \/ FinishDump \/ Single
Server == Deliver \/ Replay
Next == Worker \/ Server \/ DeliverUnheard \/ Drop \/ Wait \/ Receive
        \/ Rerun
Spec == Init /\ [][Next]_vars

(* The worker finishes within its deadline, the gateway's loop comes round *)
(* to every session, and the client polls until its own deadline.          *)
Fairness == /\ WF_vars(Worker) /\ WF_vars(Deliver) /\ WF_vars(Replay)
            /\ WF_vars(Wait \/ Receive)
FairSpec == Spec /\ Fairness

-----------------------------------------------------------------------------
(* What must hold.                                                         *)

Last == frames[Len(frames)]

TypeOK ==
  /\ response \in Responses /\ added \in 0..Len(response.sizes)
  /\ items \in 0..added /\ done \in BOOLEAN
  /\ status \in {"ok", "quota_exceeded", "payload_too_large"}
  /\ \A i \in 1..Len(frames) :
       frames[i].kind \in Kinds /\ frames[i].seq = i - 1
  /\ offset \in 0..Len(frames) /\ expected \in 0..Len(frames)
  /\ Len(wire) <= Window /\ replays \in 0..MaxRuns
  /\ client \in {"waiting", "finished", "failed"}

(* A response ends with exactly one terminal frame, and it is "complete"   *)
(* only if every item of the dump is in the file as a whole: a dump that   *)
(* runs out of space ends in an error, never in a false complete, and the  *)
(* file never outgrows its limit, the terminal frame included.             *)
TerminalIsTrue ==
  /\ Len(frames) <= Limit
  /\ done =>
       /\ \A i \in 1..Len(frames) - 1 :
            frames[i].kind = "chunk" \/ frames[i].total > 1
       /\ Last.kind # "chunk"
       /\ Last.kind = "complete" =>
            /\ items = Len(response.sizes) /\ Last.rec = items
            /\ Last.seq = Cardinality(UNION
                 {{i} \X (1..response.sizes[i]) : i \in 1..items})

(* What a client prints is, at any time, an initial piece of the response: *)
(* whole records, in order, none twice and none left out, whatever frames  *)
(* were published twice, replayed, left over from an earlier run of the    *)
(* client, or dropped; and when it stops waiting it has all of them.       *)
Intended ==
  (IF response.mode = "dump" THEN [i \in 1..items |-> <<"chunk", i>>]
                             ELSE << >>)
    \o <<<<Last.kind, Last.rec>>>>
ShownIsExact ==
  /\ shown # << >> => done /\ shown = SubSeq(Intended, 1, Len(shown))
  /\ client = "finished" => shown = Intended

(* Frames that are published twice or replayed never make gateway-client   *)
(* give up: only a dropped stream is a gap.                                *)
NoFalseGap == drops = 0 /\ ~example => client # "failed"

(* gateway-client gets its response, unless Redis dropped a part of it.    *)
ClientFinishes == <>(client = "finished" \/ drops > 0 \/ example)

(* The example, too, survives a frame that is delivered twice: clients are *)
(* told to deduplicate by session, request and sequence number.            *)
ExampleDeduplicates == drops = 0 /\ example => client # "failed"
=============================================================================
