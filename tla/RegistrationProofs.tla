------------------------- MODULE RegistrationProofs -------------------------
(***************************************************************************)
(* Registration and ownership for any number of processes, directories and *)
(* clients, every window and every lease: only one process serves, what is *)
(* handed out is backed by a row for as long as it is valid, and a repeated*)
(* registration yields one session.                                        *)
(***************************************************************************)
EXTENDS Registration, SequenceTheorems, TLAPS

(* The strengthening.                                                      *)

(* A process that runs holds the lock of its directory, and one that is    *)
(* past OwnNamespace has its directory's identity in the owner key.        *)
LocksHeld == \A p \in Procs : pc[p] # "down" => lock[journal[p]] = p
OwnerKept == \A p \in Procs : Serving(p) => owner = journal[p]

(* What the locals of Register stand for.                                  *)
LocalsHold ==
  \A p \in Procs :
    /\ pc[p] \in {"publish", "remove"} => at[p] \in 1..Len(entries)
    /\ pc[p] = "publish" <=> reply[p] # Nil

(* A session identifier names one row, and a registration has one row in a *)
(* journal.                                                                *)
SidsUnique ==
  \A i, j \in Journals : \A r \in sessions[i], s \in sessions[j] :
    r.sid = s.sid => i = j /\ r = s
RegsUnique ==
  \A j \in Journals : \A r, s \in sessions[j] :
    r.client = s.client /\ r.reg = s.reg => r = s

(* With the rows S, some journal has the session that f names, for at least*)
(* as long as f says.                                                      *)
Backed(S, c, f) ==
  f.left > 0 => \E j \in Journals : \E r \in S[j] :
    r.sid = f.sid /\ r.client = c /\ r.reg = f.reg /\ r.left >= f.left

RepliesBacked ==
  \A p \in Procs : reply[p] # Nil /\ reply[p].sid # Nil =>
    Backed(sessions, entries[at[p]].client, reply[p])
FramesBacked ==
  \A c \in Clients : \A i \in 1..Len(bootstrap[c]) :
    bootstrap[c][i].sid # Nil => Backed(sessions, c, bootstrap[c][i])
FilesBacked ==
  \A c \in Clients : file[c] # Nil => file[c].sid # Nil /\ Backed(sessions, c, file[c])

Shape == TypeOK /\ LocalsHold
Ownership == LocksHeld /\ OwnerKept
Unique == SidsUnique /\ RegsUnique
AllBacked == RepliesBacked /\ FramesBacked /\ FilesBacked
IInv == Shape /\ Ownership /\ Unique /\ AllBacked

-----------------------------------------------------------------------------
(* What the constants give.                                                *)
LEMMA Constants ==
  /\ Window \in Nat /\ Window > 0 /\ LeaseTime \in Nat /\ LeaseTime > 0
  /\ MaxFailures \in Nat
  /\ Nil \notin Procs /\ Nil \notin Journals /\ Nil \notin Sids
  /\ Nil \notin Frames
  /\ Placements \subseteq [Procs -> Journals]
  /\ \A c \in Clients : Kinds[c] \subseteq AllKinds
BY RegistrationAssumption

(* The fields of rows and frames.                                          *)
LEMMA RowFacts ==
  ASSUME NEW r \in Rows
  PROVE  /\ r.sid \in Sids /\ r.client \in Clients /\ r.reg \in Regs
         /\ r.left \in 0..LeaseTime
BY DEF Rows

(* The fields of an answer on a bootstrap stream.                          *)
LEMMA FrameFacts ==
  ASSUME NEW f \in Frames
  PROVE  f.reg \in Regs /\ f.sid \in Sids \cup {Nil} /\ f.left \in 0..LeaseTime
BY DEF Frames

(* Ageing changes only what is left, by one and not below zero.            *)
LEMMA AgedRow ==
  ASSUME NEW r \in Rows
  PROVE  /\ Aged(r) \in Rows /\ Aged(r).sid = r.sid /\ Aged(r).reg = r.reg
         /\ Aged(r).client = r.client /\ Aged(r).left = Less(r.left)
<1>1. Less(r.left) \in 0..LeaseTime
  BY RowFacts, Constants DEF Less
<1> QED
  BY <1>1 DEF Aged, Rows

(* The same for an answer.                                                 *)
LEMMA AgedFrame ==
  ASSUME NEW f \in Frames
  PROVE  /\ Aged(f) \in Frames /\ Aged(f).sid = f.sid /\ Aged(f).reg = f.reg
         /\ Aged(f).left = Less(f.left)
<1>1. Less(f.left) \in 0..LeaseTime
  BY FrameFacts, Constants DEF Less
<1> QED
  BY <1>1 DEF Aged, Frames

(* A renewed row.                                                          *)
LEMMA RenewedRow ==
  ASSUME NEW r \in Rows
  PROVE  LET q == [r EXCEPT !.left = LeaseTime] IN
         /\ q \in Rows /\ q.sid = r.sid /\ q.reg = r.reg /\ q.client = r.client
         /\ q.left = LeaseTime
BY Constants DEF Rows

(* Frames put at the places of a sequence make a stream.                   *)
LEMMA StreamOf ==
  ASSUME NEW n \in Nat, NEW g, DOMAIN g = 1..n, \A i \in 1..n : g[i] \in Frames,
         g = [i \in 1..n |-> g[i]]
  PROVE  g \in Seq(Frames) /\ Len(g) = n
<1>1. g \in [1..n -> Frames]
  OBVIOUS
<1>2. g \in Seq(Frames)
  BY <1>1, SeqDef
<1>3. DOMAIN g = 1..Len(g) /\ Len(g) \in Nat
  BY <1>2, LenProperties
<1> QED
  BY <1>2, <1>3

(* An entry and a row written down field by field.                         *)
LEMMA Built ==
  /\ \A c \in Clients, r \in Regs, k \in AllKinds :
       [client |-> c, reg |-> r, kind |-> k] \in Entries
  /\ \A s \in Sids, c \in Clients, r \in Regs, l \in 0..LeaseTime :
       [sid |-> s, client |-> c, reg |-> r, left |-> l] \in Rows
  /\ \A s \in Sids \cup {Nil}, r \in Regs, l \in 0..LeaseTime :
       [reg |-> r, sid |-> s, left |-> l] \in Frames
BY DEF Entries, Rows, Frames

(* An old client's row and the frame it was sent.                          *)
LEMMA OldFacts ==
  ASSUME NEW c \in Clients
  PROVE  OldRow(c) \in Rows /\ FrameOf(OldRow(c)) \in Frames
<1>1. (CHOOSE s \in Sids : TRUE) \in Sids /\ OldReg \in Regs
  BY RegistrationAssumption DEF OldReg
<1>2. OldRow(c) \in Rows
  BY <1>1, Constants DEF OldRow, Rows
<1> QED
  BY <1>2, RowFacts, Built DEF FrameOf

-----------------------------------------------------------------------------
(* Shapes.                                                                 *)

(* The initial state: nothing runs, and every reply that may be unread is  *)
(* backed by the row it was made from.                                     *)
LEMMA InitIInv == Init => IInv
<1> SUFFICES ASSUME Init PROVE IInv
  OBVIOUS
<1>1. /\ entries = << >> /\ entries \in Seq(Entries) /\ Len(entries) = 0
      /\ \A p \in Procs : pc[p] = "down" /\ reply[p] = Nil /\ at[p] = 0
      /\ \A c \in Clients : file[c] = Nil
  BY EmptySeq DEF Init
<1>2. Ownership /\ LocalsHold
  BY <1>1 DEF Ownership, LocksHeld, OwnerKept, LocalsHold, Serving
<1>3. CASE /\ owner = Nil /\ sessions = [j \in Journals |-> {}]
           /\ bootstrap = [c \in Clients |-> << >>] /\ ttl = [c \in Clients |-> 0]
  <2>1. \A c \in Clients : /\ bootstrap[c] = << >> /\ bootstrap[c] \in Seq(Frames)
                           /\ Len(bootstrap[c]) = 0
    BY <1>3, EmptySeq
  <2>2. TypeOK
    <3>1. bootstrap \in [Clients -> Seq(Frames)]
      BY <1>3, <2>1
    <3>2. sessions \in [Journals -> SUBSET Rows] /\ ttl \in [Clients -> 0..LeaseTime]
      BY <1>3, Constants
    <3> QED
      BY <1>1, <1>3, <2>1, <3>1, <3>2, Constants DEF Init, TypeOK, PCs
  <2>3. Unique /\ AllBacked
    BY <1>1, <1>3, <2>1 DEF Unique, SidsUnique, RegsUnique, AllBacked,
       RepliesBacked, FramesBacked, FilesBacked
  <2> QED
    BY <1>2, <2>2, <2>3 DEF IInv, Shape
<1>4. ASSUME NEW d \in Unread,
             owner = CHOOSE j \in Journals : TRUE,
             sessions = [j \in Journals |-> IF j = owner THEN {OldRow(d)} ELSE {}],
             bootstrap = [c \in Clients |->
               IF c = d THEN [i \in 1..Window |-> FrameOf(OldRow(d))] ELSE << >>],
             ttl = [c \in Clients |-> IF c = d THEN LeaseTime ELSE 0]
      PROVE  IInv
  <2> DEFINE o == OldRow(d)
             g == [i \in 1..Window |-> FrameOf(o)]
  <2>1. d \in Clients /\ o \in Rows /\ FrameOf(o) \in Frames /\ owner \in Journals
    BY <1>4, RegistrationAssumption, OldFacts
  <2>2. /\ FrameOf(o).sid = o.sid /\ FrameOf(o).reg = o.reg
        /\ FrameOf(o).left = o.left /\ o.client = d
    BY DEF FrameOf, OldRow
  <2>3. g \in Seq(Frames) /\ Len(g) = Window
    BY <2>1, Constants, StreamOf
  <2>4. \A c \in Clients : bootstrap[c] \in Seq(Frames) /\ Len(bootstrap[c]) <= Window
    BY <1>4, <2>3, EmptySeq, Constants
  <2>5. TypeOK
    <3>1. bootstrap \in [Clients -> Seq(Frames)]
      BY <1>4, <2>4
    <3>2. sessions \in [Journals -> SUBSET Rows] /\ ttl \in [Clients -> 0..LeaseTime]
      BY <1>4, <2>1, Constants
    <3> QED
      BY <1>1, <1>4, <2>1, <2>4, <3>1, <3>2, Constants DEF Init, TypeOK, PCs
  <2>6. Unique
    BY <1>4 DEF Unique, SidsUnique, RegsUnique
  <2>7. \A c \in Clients : \A i \in 1..Len(bootstrap[c]) :
          c = d /\ bootstrap[c][i] = FrameOf(o)
    <3> SUFFICES ASSUME NEW c \in Clients, NEW i \in 1..Len(bootstrap[c])
                 PROVE  c = d /\ bootstrap[c][i] = FrameOf(o)
      OBVIOUS
    <3>1. c = d
      <4>1. ASSUME c # d PROVE FALSE
        <5>1. bootstrap[c] = << >>
          BY <1>4, <4>1
        <5> QED
          BY <5>1, EmptySeq
      <4> QED
        BY <4>1
    <3>2. bootstrap[c] = g
      BY <1>4, <3>1
    <3> QED
      BY <2>3, <3>1, <3>2
  <2>8. Backed(sessions, d, FrameOf(o))
    <3>1. o \in sessions[owner] /\ o.left >= FrameOf(o).left
      BY <1>4, <2>1, <2>2, RowFacts
    <3> QED
      BY <2>1, <2>2, <3>1 DEF Backed
  <2>9. AllBacked
    BY <1>1, <2>7, <2>8 DEF AllBacked, RepliesBacked, FramesBacked, FilesBacked
  <2> QED
    BY <1>2, <2>5, <2>6, <2>9 DEF IInv, Shape
<1> QED
  BY <1>3, <1>4 DEF Init

(* A stream after a tick: dropped, or of the same length with aged frames. *)
LEMMA TickStream ==
  ASSUME TypeOK, Tick, NEW c \in Clients
  PROVE  /\ bootstrap'[c] \in Seq(Frames) /\ Len(bootstrap'[c]) <= Window
         /\ \A i \in 1..Len(bootstrap'[c]) :
              /\ i \in 1..Len(bootstrap[c]) /\ bootstrap[c][i] \in Frames
              /\ bootstrap'[c][i] = Aged(bootstrap[c][i])
<1> DEFINE n == Len(bootstrap[c])
           g == [i \in 1..n |-> Aged(bootstrap[c][i])]
<1>1. n \in Nat /\ n <= Window /\ DOMAIN bootstrap[c] = 1..n
  BY LenProperties DEF TypeOK
<1>2. \A i \in 1..n : bootstrap[c][i] \in Frames
  BY ElementOfSeq DEF TypeOK
<1>3. \A i \in 1..n : g[i] \in Frames /\ g[i] = Aged(bootstrap[c][i])
  BY <1>2, AgedFrame
<1>4. bootstrap'[c] = IF ttl[c] = 1 THEN << >> ELSE g
  BY <1>1 DEF Tick
<1>5. g = [i \in 1..n |-> g[i]] /\ DOMAIN g = 1..n
  OBVIOUS
<1> HIDE DEF g, n
<1>6. g \in Seq(Frames) /\ Len(g) = n
  BY <1>1, <1>3, <1>5, StreamOf
<1>7. CASE ttl[c] = 1
  BY <1>4, <1>7, EmptySeq, Constants
<1>8. CASE ttl[c] # 1
  BY <1>1, <1>2, <1>3, <1>4, <1>6, <1>8 DEF n
<1> QED
  BY <1>7, <1>8

(* One more entry leaves the others where they are.                        *)
LEMMA EntriesGrow ==
  ASSUME TypeOK, NEW e \in Entries, entries' = Append(entries, e)
  PROVE  /\ entries' \in Seq(Entries) /\ Len(entries') = Len(entries) + 1
         /\ Len(entries) \in Nat
         /\ \A i \in 1..Len(entries) : entries'[i] = entries[i]
BY AppendProperties, LenProperties DEF TypeOK

(* The position in the stream, and what is answered.                       *)
LEMMA AnswerFacts ==
  ASSUME TypeOK, NEW p \in Procs, NEW e \in Entries, Answer(p, e)
  PROVE  /\ sessions' \in [Journals -> SUBSET Rows]
         /\ \E f \in Frames : reply' = [reply EXCEPT ![p] = f]
<1>1. journal[p] \in Journals /\ e.client \in Clients /\ e.reg \in Regs
  BY DEF TypeOK, Entries
<1> DEFINE j == journal[p]
           new == [sid |-> RandomId, client |-> e.client, reg |-> e.reg,
                   left |-> LeaseTime]
<1>2. CASE /\ Existing(j, e) = {} /\ Free # {}
           /\ sessions' = [sessions EXCEPT ![j] = @ \cup {new}]
           /\ reply' = [reply EXCEPT ![p] =
                          [reg |-> e.reg, sid |-> new.sid, left |-> LeaseTime]]
  <2>1. RandomId \in Sids
    BY <1>2 DEF RandomId, Free
  <2>2. /\ new \in Rows
        /\ [reg |-> e.reg, sid |-> RandomId, left |-> LeaseTime] \in Frames
    BY <1>1, <2>1, Built, Constants
  <2> QED
    BY <1>1, <1>2, <2>2 DEF TypeOK
<1>3. ASSUME NEW r \in Existing(j, e), UNCHANGED sessions,
             reply' = [reply EXCEPT ![p] =
                         [reg |-> e.reg, sid |-> r.sid, left |-> Expires(r)]]
      PROVE  /\ sessions' \in [Journals -> SUBSET Rows]
             /\ \E f \in Frames : reply' = [reply EXCEPT ![p] = f]
  <2>1. r \in Rows
    BY <1>1 DEF Existing, TypeOK
  <2>2. [reg |-> e.reg, sid |-> r.sid, left |-> Expires(r)] \in Frames
    BY <1>1, <2>1, RowFacts, Built DEF Expires
  <2> QED
    BY <1>3, <2>2 DEF TypeOK
<1>4. CASE UNCHANGED sessions /\ reply' = [reply EXCEPT ![p] =
                                   [reg |-> e.reg, sid |-> Nil, left |-> 0]]
  <2>1. [reg |-> e.reg, sid |-> Nil, left |-> 0] \in Frames
    BY <1>1, Built, Constants
  <2> QED
    BY <1>4, <2>1 DEF TypeOK
<1> QED
  BY <1>2, <1>3, <1>4 DEF Answer

(* A failure is counted within its bound.                                  *)
LEMMA FailureCount ==
  ASSUME TypeOK, Heard \/ Fails
  PROVE  failures' \in 0..MaxFailures
BY Constants DEF TypeOK, Heard, Fails

(* Every step keeps the shapes of the state and of the locals.             *)
LEMMA ShapeStep == IInv /\ [Next]_vars => Shape'
<1> SUFFICES ASSUME TypeOK, LocalsHold, [Next]_vars PROVE TypeOK' /\ LocalsHold'
  BY DEF IInv, Shape
<1> USE DEF TypeOK, LocalsHold, PCs
<1>0. Len(entries) \in Nat /\ \A c \in Clients : Len(bootstrap[c]) \in Nat
  BY LenProperties
<1>1. ASSUME NEW p \in Procs, Start(p) PROVE TypeOK' /\ LocalsHold'
  BY <1>1 DEF Start, Goto, redis, client
<1>2. ASSUME NEW p \in Procs, Own(p) PROVE TypeOK' /\ LocalsHold'
  <2>1. CASE /\ Claimable(journal[p]) /\ owner' = journal[p] /\ UNCHANGED lock
             /\ \/ /\ Heard /\ UNCHANGED <<cleaned, at, reply>>
                   /\ Goto(p, IF cleaned[p] THEN "register" ELSE "cleanup")
                \/ Fails /\ UNCHANGED local
    <3>1. failures' \in 0..MaxFailures
      BY <2>1, FailureCount
    <3>2. UNCHANGED <<journal, sessions, entries, head, bootstrap, ttl, waiting, file>>
      BY <1>2 DEF Own, client
    <3>3. CASE UNCHANGED local
      BY <2>1, <3>1, <3>2, <3>3 DEF local
    <3>4. CASE /\ UNCHANGED <<cleaned, at, reply>>
               /\ Goto(p, IF cleaned[p] THEN "register" ELSE "cleanup")
      BY <1>2, <2>1, <3>1, <3>2, <3>4 DEF Own, Goto
    <3> QED
      BY <2>1, <3>3, <3>4
  <2>2. CASE ~Claimable(journal[p]) /\ Exit(p) /\ Heard /\ UNCHANGED owner
    BY <1>0, <1>2, <2>2 DEF Own, Exit, Goto, Heard, client
  <2> QED
    BY <1>2, <2>1, <2>2 DEF Own
<1>3. ASSUME NEW p \in Procs, Cleanup(p) PROVE TypeOK' /\ LocalsHold'
  BY <1>3 DEF Cleanup, Goto, Expired, redis, client
<1>4. ASSUME NEW p \in Procs, ReadFirst(p) PROVE TypeOK' /\ LocalsHold'
  <2>1. pc[p] = "register" /\ UNCHANGED <<journal, lock, redis, client, cleaned>>
    BY <1>4 DEF ReadFirst
  <2>2. CASE Turn(p) /\ (Heard \/ Fails) /\ UNCHANGED sessions
    BY <1>0, <2>1, <2>2, Constants DEF Turn, Goto, Heard, Fails, redis, client
  <2>3. CASE /\ head < Len(entries) /\ Heard /\ at' = [at EXCEPT ![p] = head + 1]
             /\ IF entries[head + 1].kind = "bad"
                  THEN Goto(p, "remove") /\ UNCHANGED <<sessions, reply>>
                  ELSE Goto(p, "publish") /\ Answer(p, entries[head + 1])
    <3>1. head + 1 \in 1..Len(entries)
      BY <1>0, <2>3
    <3>2. entries[head + 1] \in Entries
      BY <3>1, ElementOfSeq
    <3>3. CASE Goto(p, "remove") /\ UNCHANGED <<sessions, reply>>
      BY <1>0, <2>1, <2>3, <3>1, <3>3 DEF Goto, Heard, redis, client
    <3>4. CASE Goto(p, "publish") /\ Answer(p, entries[head + 1])
      <4>1. PICK f \in Frames : reply' = [reply EXCEPT ![p] = f]
        BY <3>2, <3>4, AnswerFacts
      <4>2. sessions' \in [Journals -> SUBSET Rows]
        BY <3>2, <3>4, AnswerFacts
      <4>3. f # Nil
        BY <4>1, Constants
      <4> QED
        BY <1>0, <2>1, <2>3, <3>1, <3>4, <4>1, <4>2, <4>3
        DEF Goto, Heard, redis, client
    <3> QED
      BY <2>3, <3>3, <3>4
  <2> QED
    BY <1>4, <2>2, <2>3 DEF ReadFirst
<1>5. ASSUME NEW p \in Procs, Publish(p) PROVE TypeOK' /\ LocalsHold'
  <2> DEFINE c == entries[at[p]].client
  <2>1. /\ at[p] \in 1..Len(entries) /\ reply[p] \in Frames
        /\ UNCHANGED <<journal, lock, owner, sessions, entries, head, client, cleaned>>
    BY <1>5 DEF Publish
  <2>2. c \in Clients
    <3>1. entries[at[p]] \in Entries
      BY <2>1, ElementOfSeq
    <3> QED
      BY <3>1 DEF Entries
  <2> HIDE DEF c
  <2>3. /\ bootstrap' \in [Clients -> Seq(Frames)] /\ ttl' \in [Clients -> 0..LeaseTime]
        /\ \A d \in Clients : Len(bootstrap'[d]) <= Window
    <3>1. CASE /\ Len(bootstrap[c]) < Window /\ Expire(c)
               /\ bootstrap' = [bootstrap EXCEPT ![c] = Append(@, reply[p])]
      <4>1. /\ Append(bootstrap[c], reply[p]) \in Seq(Frames)
            /\ Len(Append(bootstrap[c], reply[p])) = Len(bootstrap[c]) + 1
        BY <2>1, <2>2, AppendProperties
      <4>2. Len(bootstrap[c]) + 1 <= Window
        BY <1>0, <2>2, <3>1, Constants
      <4> QED
        BY <2>2, <3>1, <4>1, <4>2, Constants DEF Expire
    <3>2. CASE UNCHANGED <<bootstrap, ttl>>
      BY <3>2
    <3> QED
      BY <1>5, <3>1, <3>2 DEF Publish, CanPublish, c
  <2>4. CASE Turn(p) /\ (Heard \/ Fails)
    BY <1>0, <2>1, <2>3, <2>4, Constants DEF Turn, Goto, Heard, Fails, client
  <2>5. CASE /\ Heard /\ Goto(p, "remove") /\ UNCHANGED at
             /\ reply' = [reply EXCEPT ![p] = Nil]
    BY <1>0, <2>1, <2>3, <2>5 DEF Goto, Heard, client
  <2> QED
    BY <1>5, <2>4, <2>5 DEF Publish
<1>6. ASSUME NEW p \in Procs, Remove(p) PROVE TypeOK' /\ LocalsHold'
  <2>1. at[p] \in 1..Len(entries) /\ Turn(p) /\ (Heard \/ Fails)
    BY <1>6 DEF Remove
  <2>2. head' \in 0..Len(entries)
    BY <1>0, <1>6, <2>1 DEF Remove
  <2> QED
    BY <1>0, <1>6, <2>1, <2>2, Constants DEF Remove, Turn, Goto, Heard, Fails, client
<1>7. ASSUME NEW p \in Procs, Renew(p) PROVE TypeOK' /\ LocalsHold'
  <2>1. PICK r \in sessions[journal[p]] :
          sessions' = [sessions EXCEPT ![journal[p]] =
                         (@ \ {r}) \cup {[r EXCEPT !.left = LeaseTime]}]
    BY <1>7 DEF Renew
  <2>2. [r EXCEPT !.left = LeaseTime] \in Rows
    BY RenewedRow
  <2>3. sessions' \in [Journals -> SUBSET Rows]
    BY <2>1, <2>2
  <2> QED
    BY <1>7, <2>3 DEF Renew, redis, local, client
<1>8. ASSUME NEW p \in Procs, Crash(p) PROVE TypeOK' /\ LocalsHold'
  BY <1>0, <1>8, Constants DEF Crash, Exit, Goto, Fails, redis, client
<1>9. ASSUME NEW c \in Clients, Ask(c) PROVE TypeOK' /\ LocalsHold'
  <2>1. /\ Unused(c) # {}
        /\ UNCHANGED <<journal, lock, owner, head, bootstrap, ttl, sessions, local, file>>
    BY <1>9 DEF Ask
  <2>2. NewId(c) \in Regs
    BY <2>1 DEF NewId, Unused
  <2>3. PICK k \in Kinds[c] :
          /\ entries' = Append(entries, [client |-> c, reg |-> NewId(c), kind |-> k])
          /\ \/ Heard /\ waiting' = [waiting EXCEPT ![c] = NewId(c)]
             \/ Fails /\ UNCHANGED waiting
    BY <1>9 DEF Ask
  <2>4. [client |-> c, reg |-> NewId(c), kind |-> k] \in Entries
    BY <2>2, Built, Constants
  <2>5. entries' \in Seq(Entries) /\ Len(entries') = Len(entries) + 1
    BY <2>3, <2>4, EntriesGrow
  <2>6. waiting' \in [Clients -> Regs \cup {Nil}] /\ failures' \in 0..MaxFailures
    <3>1. waiting' \in [Clients -> Regs \cup {Nil}]
      BY <2>2, <2>3
    <3> QED
      BY <2>3, <3>1, FailureCount
  <2> QED
    BY <1>0, <2>1, <2>5, <2>6 DEF local
<1>10. ASSUME NEW c \in Clients, Repeat(c) PROVE TypeOK' /\ LocalsHold'
  <2>1. PICK i \in DOMAIN entries : entries' = Append(entries, entries[i])
    BY <1>10 DEF Repeat
  <2>2. entries[i] \in Entries
    BY <2>1, LenProperties, ElementOfSeq
  <2>3. entries' \in Seq(Entries) /\ Len(entries') = Len(entries) + 1
    BY <2>1, <2>2, EntriesGrow
  <2> QED
    BY <1>0, <1>10, <2>3 DEF Repeat, local, client
<1>11. ASSUME NEW c \in Clients, Wait(c) PROVE TypeOK' /\ LocalsHold'
  <2>1. /\ bootstrap' = [bootstrap EXCEPT ![c] = Tail(@)] /\ bootstrap[c] # << >>
        /\ UNCHANGED <<journal, lock, owner, entries, head, ttl, sessions, local>>
    BY <1>11 DEF Wait
  <2>2. /\ Head(bootstrap[c]) \in Frames /\ Tail(bootstrap[c]) \in Seq(Frames)
        /\ Len(Tail(bootstrap[c])) = Len(bootstrap[c]) - 1
    BY <2>1, HeadTailProperties
  <2>3. /\ bootstrap' \in [Clients -> Seq(Frames)]
        /\ \A d \in Clients : Len(bootstrap'[d]) <= Window
    BY <1>0, <2>1, <2>2, Constants
  <2>4. /\ waiting' \in [Clients -> Regs \cup {Nil}]
        /\ file' \in [Clients -> Frames \cup {Nil}]
        /\ failures' \in 0..MaxFailures
    <3>1. Heard \/ Fails
      BY <1>11 DEF Wait
    <3>2. /\ waiting' \in [Clients -> Regs \cup {Nil}]
          /\ file' \in [Clients -> Frames \cup {Nil}]
      BY <1>11, <2>2 DEF Wait
    <3> QED
      BY <3>1, <3>2, FailureCount
  <2> QED
    BY <2>1, <2>3, <2>4 DEF local
<1>12. ASSUME NEW c \in Clients, GiveUp(c) PROVE TypeOK' /\ LocalsHold'
  BY <1>12 DEF GiveUp, redis, local
<1>13. CASE Tick
  <2>1. /\ UNCHANGED <<journal, lock, owner, entries, head, pc, at, waiting, failures>>
        /\ \A p \in Procs : reply'[p] = IF reply[p] = Nil THEN Nil ELSE Aged(reply[p])
    BY <1>13 DEF Tick
  <2>2. sessions' \in [Journals -> SUBSET Rows]
    BY <1>13, AgedRow DEF Tick
  <2>3. ttl' \in [Clients -> 0..LeaseTime] /\ cleaned' \in [Procs -> BOOLEAN]
    BY <1>13, Constants DEF Tick, Less
  <2>4. /\ reply' \in [Procs -> Frames \cup {Nil}]
        /\ file' \in [Clients -> Frames \cup {Nil}]
    BY <1>13, AgedFrame DEF Tick
  <2>5. \A c \in Clients : bootstrap'[c] \in Seq(Frames) /\ Len(bootstrap'[c]) <= Window
    BY <1>13, TickStream
  <2>6. bootstrap' \in [Clients -> Seq(Frames)]
    BY <1>13, <2>5 DEF Tick
  <2> QED
    <3>1. \A p \in Procs : reply'[p] # Nil => reply[p] # Nil
      BY <2>1
    <3>2. \A p \in Procs : reply[p] # Nil => reply'[p] # Nil
      <4>1. \A p \in Procs : reply[p] # Nil => Aged(reply[p]) \in Frames
        BY AgedFrame
      <4> QED
        BY <2>1, <4>1, Constants
    <3>3. TypeOK'
      BY <2>1, <2>2, <2>3, <2>4, <2>5, <2>6
    <3>4. LocalsHold'
      BY <2>1, <3>1, <3>2
    <3> QED
      BY <3>3, <3>4
<1>14. CASE Takeover
  BY <1>14, Constants DEF Takeover, Fails, local, client
<1>15. CASE UNCHANGED vars
  BY <1>15 DEF vars, redis, local, client
<1> QED
  BY <1>1, <1>2, <1>3, <1>4, <1>5, <1>6, <1>7, <1>8, <1>9, <1>10, <1>11,
     <1>12, <1>13, <1>14, <1>15 DEF Next, Gateway

-----------------------------------------------------------------------------
(* Who serves.                                                             *)

(* A process that exits takes no other process's lock with it.             *)
LEMMA ExitKeeps ==
  ASSUME TypeOK, LocksHeld, NEW p \in Procs, Exit(p), journal' = journal
  PROVE  /\ LocksHeld' /\ ~Serving(p)'
         /\ \A q \in Procs \ {p} : Serving(q)' <=> Serving(q)
<1>1. /\ pc'[p] = "down" /\ \A q \in Procs \ {p} : pc'[q] = pc[q]
      /\ \A j \in Journals : lock[j] # p => lock'[j] = lock[j]
  BY DEF Exit, Goto, TypeOK
<1>2. \A q \in Procs : journal[q] \in Journals
  BY DEF TypeOK
<1> QED
  BY <1>1, <1>2 DEF LocksHeld, Serving

(* The lock of a directory and the owner key together: no step lets a      *)
(* second process in.                                                      *)
LEMMA OwnershipStep == IInv /\ [Next]_vars => Ownership'
<1> SUFFICES ASSUME TypeOK, LocksHeld, OwnerKept, [Next]_vars
             PROVE  LocksHeld' /\ OwnerKept'
  BY DEF IInv, Shape, Ownership
<1>0. \A p \in Procs : journal[p] \in Journals /\ p # Nil
  BY Constants DEF TypeOK
<1>1. ASSUME NEW p \in Procs, Start(p) PROVE LocksHeld' /\ OwnerKept'
  <2>1. /\ UNCHANGED <<journal, owner>> /\ pc[p] = "down" /\ pc'[p] = "own"
        /\ \A q \in Procs \ {p} : pc'[q] = pc[q]
        /\ lock[journal[p]] = Nil /\ lock'[journal[p]] = p
        /\ \A j \in Journals \ {journal[p]} : lock'[j] = lock[j]
    BY <1>0, <1>1 DEF Start, Goto, Lockable, redis, TypeOK
  <2> QED
    BY <1>0, <2>1 DEF LocksHeld, OwnerKept, Serving
<1>2. ASSUME NEW p \in Procs, Own(p) PROVE LocksHeld' /\ OwnerKept'
  <2>1. journal' = journal /\ pc[p] = "own" /\ lock[journal[p]] = p
    BY <1>2 DEF Own, LocksHeld
  <2>2. CASE Exit(p) /\ UNCHANGED owner
    BY <2>1, <2>2, ExitKeeps DEF OwnerKept
  <2>3. CASE /\ Claimable(journal[p]) /\ owner' = journal[p] /\ UNCHANGED lock
             /\ \A q \in Procs \ {p} : pc'[q] = pc[q]
    <3>1. ASSUME NEW q \in Procs, q # p, Serving(q) PROVE journal[q] = journal[p]
      BY <1>0, <2>1, <2>3, <3>1, Constants DEF OwnerKept, Claimable
    <3>2. ASSUME NEW q \in Procs, q # p PROVE ~Serving(q)
      BY <1>0, <2>1, <3>1, <3>2 DEF LocksHeld, Serving
    <3>3. \A q \in Procs \ {p} : ~Serving(q)'
      BY <2>3, <3>2 DEF Serving
    <3>4. LocksHeld'
      BY <2>1, <2>3 DEF LocksHeld
    <3> QED
      BY <2>1, <2>3, <3>3, <3>4 DEF OwnerKept
  <2> QED
    BY <1>2, <2>2, <2>3 DEF Own, Goto, local, TypeOK
<1>3. ASSUME NEW p \in Procs, Cleanup(p) \/ ReadFirst(p) \/ Publish(p) \/ Remove(p)
      PROVE LocksHeld' /\ OwnerKept'
  <2>1. /\ UNCHANGED <<journal, lock, owner>> /\ Serving(p)
        /\ \A q \in Procs \ {p} : pc'[q] = pc[q]
    BY <1>3 DEF Cleanup, ReadFirst, Publish, Remove, Turn, Goto, redis, Serving,
       TypeOK
  <2>2. lock[journal[p]] = p /\ owner = journal[p]
    BY <2>1 DEF LocksHeld, OwnerKept, Serving
  <2> QED
    BY <2>1, <2>2 DEF LocksHeld, OwnerKept, Serving
<1>4. ASSUME NEW p \in Procs, Crash(p) PROVE LocksHeld' /\ OwnerKept'
  BY <1>4, ExitKeeps DEF Crash, redis, OwnerKept
<1>5. CASE Takeover
  <2>1. /\ owner # Nil /\ lock[owner] = Nil /\ UNCHANGED <<journal, lock, pc>>
    BY <1>5 DEF Takeover, local
  <2>2. \A p \in Procs : ~Serving(p)
    BY <1>0, <2>1 DEF LocksHeld, OwnerKept, Serving
  <2> QED
    BY <2>1, <2>2 DEF LocksHeld, OwnerKept, Serving
<1>6. CASE UNCHANGED <<journal, lock, owner, pc>>
  BY <1>6 DEF LocksHeld, OwnerKept, Serving
<1>7. \A p \in Procs : Renew(p) => UNCHANGED <<journal, lock, owner, pc>>
  BY DEF Renew, redis, local
<1>8. \A c \in Clients : Ask(c) \/ Repeat(c) \/ Wait(c) \/ GiveUp(c) =>
        UNCHANGED <<journal, lock, owner, pc>>
  BY DEF Ask, Repeat, Wait, GiveUp, redis, local
<1>9. Tick \/ UNCHANGED vars => UNCHANGED <<journal, lock, owner, pc>>
  BY DEF Tick, vars, redis, local
<1> QED
  BY <1>1, <1>2, <1>3, <1>4, <1>5, <1>6, <1>7, <1>8, <1>9 DEF Next, Gateway

-----------------------------------------------------------------------------
(* The rows.                                                               *)

(* Every row that is still valid stays, for at least as long.              *)
RowsKept ==
  \A j \in Journals : \A r \in sessions[j] : r.left > 0 =>
    \E q \in sessions'[j] : /\ q.sid = r.sid /\ q.client = r.client
                            /\ q.reg = r.reg /\ q.left >= r.left

(* Then whatever was backed still is.                                      *)
LEMMA BackedStays ==
  ASSUME TypeOK, TypeOK', RowsKept, NEW c \in Clients, NEW f \in Frames,
         Backed(sessions, c, f)
  PROVE  Backed(sessions', c, f)
<1> SUFFICES ASSUME f.left > 0
             PROVE  \E j \in Journals : \E r \in sessions'[j] :
                      /\ r.sid = f.sid /\ r.client = c /\ r.reg = f.reg
                      /\ r.left >= f.left
  BY DEF Backed
<1>1. PICK j \in Journals : \E r \in sessions[j] :
        r.sid = f.sid /\ r.client = c /\ r.reg = f.reg /\ r.left >= f.left
  BY DEF Backed
<1>2. PICK r \in sessions[j] :
        r.sid = f.sid /\ r.client = c /\ r.reg = f.reg /\ r.left >= f.left
  BY <1>1
<1>3. r.left \in 0..LeaseTime /\ f.left \in 0..LeaseTime
  BY RowFacts, FrameFacts DEF TypeOK
<1>4. r.left > 0
  BY <1>2, <1>3, Constants
<1>5. PICK q \in sessions'[j] : /\ q.sid = r.sid /\ q.client = r.client
                                /\ q.reg = r.reg /\ q.left >= r.left
  BY <1>4 DEF RowsKept
<1>6. q.left \in 0..LeaseTime
  BY RowFacts DEF TypeOK
<1>7. q.left >= f.left
  BY <1>2, <1>3, <1>5, <1>6, Constants
<1> QED
  BY <1>2, <1>5, <1>7

(* The row that Register adds, and what it answers.                        *)
LEMMA AnswerRows ==
  ASSUME TypeOK, TypeOK', Unique, NEW p \in Procs, NEW e \in Entries, Answer(p, e)
  PROVE  /\ Unique' /\ RowsKept
         /\ reply'[p].sid # Nil => Backed(sessions', e.client, reply'[p])
<1>1. /\ journal[p] \in Journals /\ e.client \in Clients /\ e.reg \in Regs
      /\ \A j \in Journals : sessions[j] \subseteq Rows
  BY DEF TypeOK, Entries
<1> DEFINE j == journal[p]
           new == [sid |-> RandomId, client |-> e.client, reg |-> e.reg,
                   left |-> LeaseTime]
<1>2. UNCHANGED sessions => Unique' /\ RowsKept
  <2>1. \A i \in Journals : \A r \in sessions[i] : r.left >= r.left
    BY <1>1, RowFacts
  <2> QED
    BY <2>1 DEF Unique, SidsUnique, RegsUnique, RowsKept
<1>3. ASSUME Existing(j, e) = {}, Free # {},
             sessions' = [sessions EXCEPT ![j] = @ \cup {new}],
             reply' = [reply EXCEPT ![p] =
                         [reg |-> e.reg, sid |-> new.sid, left |-> LeaseTime]]
      PROVE  /\ Unique' /\ RowsKept
             /\ reply'[p].sid # Nil => Backed(sessions', e.client, reply'[p])
  <2>1. RandomId \in Sids /\ RandomId \notin InUse
    BY <1>3 DEF RandomId, Free
  <2>2. \A i \in Journals : \A r \in sessions[i] : r.sid # RandomId
    BY <2>1 DEF InUse, Known
  <2>3. /\ new.sid = RandomId /\ new.client = e.client /\ new.reg = e.reg
        /\ new.left = LeaseTime
    OBVIOUS
  <2> HIDE DEF new
  <2>4. /\ sessions'[j] = sessions[j] \cup {new}
        /\ \A i \in Journals \ {j} : sessions'[i] = sessions[i]
    BY <1>1, <1>3 DEF TypeOK
  <2>5. SidsUnique'
    BY <2>2, <2>3, <2>4 DEF SidsUnique, Unique
  <2>6. \A r \in sessions[j] : ~(r.client = e.client /\ r.reg = e.reg)
    BY <1>3 DEF Existing
  <2>7. RegsUnique'
    BY <2>3, <2>4, <2>6 DEF RegsUnique, Unique
  <2>8. RowsKept
    <3>1. \A i \in Journals : \A r \in sessions[i] :
            r \in sessions'[i] /\ r.left >= r.left
      BY <1>1, <2>4, RowFacts
    <3> QED
      BY <3>1 DEF RowsKept
  <2>9. Backed(sessions', e.client, reply'[p])
    <3>1. /\ reply'[p].sid = RandomId /\ reply'[p].reg = e.reg
          /\ reply'[p].left = LeaseTime
      BY <1>3, <2>3 DEF TypeOK
    <3>2. new \in sessions'[j] /\ new.left >= reply'[p].left
      BY <2>3, <2>4, <3>1, Constants
    <3> QED
      BY <1>1, <2>3, <3>1, <3>2 DEF Backed
  <2> QED
    BY <2>5, <2>7, <2>8, <2>9 DEF Unique
<1>4. ASSUME NEW r \in Existing(j, e), UNCHANGED sessions,
             reply' = [reply EXCEPT ![p] =
                         [reg |-> e.reg, sid |-> r.sid, left |-> Expires(r)]]
      PROVE  Backed(sessions', e.client, reply'[p])
  <2>1. /\ r \in sessions'[j] /\ r.client = e.client /\ r.reg = e.reg /\ r \in Rows
    BY <1>1, <1>4 DEF Existing
  <2>2. /\ reply'[p].sid = r.sid /\ reply'[p].reg = e.reg /\ reply'[p].left = r.left
    BY <1>4 DEF TypeOK, Expires
  <2>3. r.left >= reply'[p].left
    BY <2>1, <2>2, RowFacts
  <2> QED
    BY <1>1, <2>1, <2>2, <2>3 DEF Backed
<1>5. reply' = [reply EXCEPT ![p] = [reg |-> e.reg, sid |-> Nil, left |-> 0]] =>
        reply'[p].sid = Nil
  BY DEF TypeOK
<1> QED
  BY <1>2, <1>3, <1>4, <1>5 DEF Answer

(* Rows are kept by every step but a tick, and stay unique.                *)
LEMMA RowsStep ==
  ASSUME IInv, TypeOK', [Next]_vars
  PROVE  Unique' /\ (Tick \/ RowsKept)
<1>0. /\ TypeOK /\ Unique /\ SidsUnique /\ RegsUnique
      /\ \A j \in Journals : \A r \in sessions[j] : r \in Rows /\ r.left >= r.left
  <2>1. \A j \in Journals : \A r \in sessions[j] : r \in Rows
    BY DEF IInv, Shape, TypeOK
  <2> QED
    BY <2>1, RowFacts DEF IInv, Shape, Unique
<1>1. UNCHANGED sessions => Unique' /\ RowsKept
  BY <1>0 DEF Unique, SidsUnique, RegsUnique, RowsKept
<1>2. ASSUME NEW p \in Procs, Cleanup(p) PROVE Unique' /\ RowsKept
  <2> DEFINE j == journal[p]
  <2>1. PICK kept \in SUBSET Expired(j) :
          sessions' = [sessions EXCEPT ![j] = (@ \ Expired(j)) \cup kept]
    BY <1>2 DEF Cleanup
  <2>2. /\ j \in Journals /\ sessions'[j] = (sessions[j] \ Expired(j)) \cup kept
        /\ \A i \in Journals \ {j} : sessions'[i] = sessions[i]
    BY <1>0, <2>1 DEF TypeOK
  <2> HIDE DEF j
  <2>3. \A i \in Journals : sessions'[i] \subseteq sessions[i]
    BY <2>2 DEF Expired
  <2>4. Unique'
    BY <1>0, <2>3 DEF Unique, SidsUnique, RegsUnique
  <2>5. \A i \in Journals : \A r \in sessions[i] : r.left > 0 => r \in sessions'[i]
    <3>1. \A r \in sessions[j] : r.left > 0 => r \notin Expired(j)
      BY DEF Expired
    <3> QED
      BY <2>2, <3>1
  <2> QED
    BY <1>0, <2>4, <2>5 DEF RowsKept
<1>3. ASSUME NEW p \in Procs, ReadFirst(p) PROVE Unique' /\ RowsKept
  <2>1. CASE UNCHANGED sessions
    BY <1>1, <2>1
  <2>2. CASE head < Len(entries) /\ Answer(p, entries[head + 1])
    <3>1. entries[head + 1] \in Entries
      <4>1. entries \in Seq(Entries) /\ Len(entries) \in Nat /\ head \in Nat
        BY <1>0, LenProperties DEF TypeOK
      <4>2. head + 1 \in 1..Len(entries)
        BY <2>2, <4>1
      <4> QED
        BY <4>1, <4>2, ElementOfSeq
    <3> QED
      BY <1>0, <2>2, <3>1, AnswerRows
  <2> QED
    BY <1>3, <2>1, <2>2 DEF ReadFirst
<1>4. ASSUME NEW p \in Procs, Renew(p) PROVE Unique' /\ RowsKept
  <2> DEFINE j == journal[p]
  <2>1. PICK r \in sessions[j] :
          sessions' = [sessions EXCEPT ![j] =
                         (@ \ {r}) \cup {[r EXCEPT !.left = LeaseTime]}]
    BY <1>4 DEF Renew
  <2> DEFINE q == [r EXCEPT !.left = LeaseTime]
  <2>2. /\ j \in Journals /\ sessions'[j] = (sessions[j] \ {r}) \cup {q}
        /\ \A i \in Journals \ {j} : sessions'[i] = sessions[i]
    BY <1>0, <2>1 DEF TypeOK
  <2>3. /\ q \in Rows /\ q.sid = r.sid /\ q.reg = r.reg /\ q.client = r.client
        /\ q.left = LeaseTime /\ r \in Rows
    BY <1>0, <2>2, RenewedRow
  <2> HIDE DEF q, j
  <2>4. q.left >= r.left
    BY <2>3, RowFacts, Constants
  <2>5. SidsUnique'
    BY <1>0, <2>2, <2>3 DEF SidsUnique
  <2>6. RegsUnique'
    BY <1>0, <2>2, <2>3 DEF RegsUnique
  <2>7. RowsKept
    BY <1>0, <2>2, <2>3, <2>4 DEF RowsKept
  <2> QED
    BY <2>5, <2>6, <2>7 DEF Unique
<1>5. CASE Tick
  <2>1. \A i \in Journals : sessions'[i] = {Aged(r) : r \in sessions[i]}
    BY <1>5 DEF Tick
  <2>2. \A i \in Journals : \A r \in sessions'[i] : \E a \in sessions[i] :
          /\ r = Aged(a) /\ r.sid = a.sid /\ r.reg = a.reg /\ r.client = a.client
    BY <1>0, <2>1, AgedRow
  <2>3. SidsUnique'
    BY <1>0, <2>2 DEF SidsUnique
  <2>4. RegsUnique'
    BY <1>0, <2>2 DEF RegsUnique
  <2> QED
    BY <1>5, <2>3, <2>4 DEF Unique
<1>6. \A p \in Procs : Start(p) \/ Own(p) \/ Publish(p) \/ Remove(p) \/ Crash(p) =>
        UNCHANGED sessions
  BY DEF Start, Own, Publish, Remove, Crash
<1>7. \A c \in Clients : Ask(c) \/ Repeat(c) \/ Wait(c) \/ GiveUp(c) =>
        UNCHANGED sessions
  BY DEF Ask, Repeat, Wait, GiveUp
<1>8. Takeover \/ UNCHANGED vars => UNCHANGED sessions
  BY DEF Takeover, vars
<1> QED
  BY <1>1, <1>2, <1>3, <1>4, <1>5, <1>6, <1>7, <1>8 DEF Next, Gateway

(* A tick ages rows and what was handed out alike.                         *)
LEMMA BackedAges ==
  ASSUME TypeOK, Tick, NEW c \in Clients, NEW f \in Frames, Backed(sessions, c, f)
  PROVE  Backed(sessions', c, Aged(f))
<1> SUFFICES ASSUME Aged(f).left > 0
             PROVE  \E j \in Journals : \E r \in sessions'[j] :
                      /\ r.sid = Aged(f).sid /\ r.client = c
                      /\ r.reg = Aged(f).reg /\ r.left >= Aged(f).left
  BY DEF Backed
<1>1. /\ Aged(f).sid = f.sid /\ Aged(f).reg = f.reg /\ Aged(f).left = Less(f.left)
      /\ f.left \in 0..LeaseTime
  BY AgedFrame, FrameFacts
<1>2. f.left > 0
  BY <1>1, Constants DEF Less
<1>j. PICK j \in Journals : \E r \in sessions[j] :
        r.sid = f.sid /\ r.client = c /\ r.reg = f.reg /\ r.left >= f.left
  BY <1>2 DEF Backed
<1>3. PICK r \in sessions[j] :
        r.sid = f.sid /\ r.client = c /\ r.reg = f.reg /\ r.left >= f.left
  BY <1>j
<1>4. r \in Rows
  BY DEF TypeOK
<1>5. /\ Aged(r).sid = r.sid /\ Aged(r).reg = r.reg /\ Aged(r).client = r.client
      /\ Aged(r).left = Less(r.left) /\ r.left \in 0..LeaseTime
  BY <1>4, AgedRow, RowFacts
<1>6. Aged(r).left >= Aged(f).left
  BY <1>1, <1>3, <1>5, Constants DEF Less
<1>7. Aged(r) \in sessions'[j]
  BY DEF Tick
<1> QED
  BY <1>1, <1>3, <1>5, <1>6, <1>7

(* Everything handed out stays backed.                                     *)
LEMMA BackedStep ==
  ASSUME IInv, TypeOK', LocalsHold', [Next]_vars
  PROVE  AllBacked'
<1>0. TypeOK /\ LocalsHold /\ RepliesBacked /\ FramesBacked /\ FilesBacked
  BY DEF IInv, Shape, AllBacked
<1>1. /\ \A p \in Procs : reply[p] # Nil => /\ reply[p] \in Frames
                                            /\ at[p] \in 1..Len(entries)
      /\ \A c \in Clients : /\ file[c] # Nil => file[c] \in Frames
                            /\ bootstrap[c] \in Seq(Frames)
                            /\ \A i \in 1..Len(bootstrap[c]) : bootstrap[c][i] \in Frames
      /\ \A i \in 1..Len(entries) : entries[i].client \in Clients
  <2>1. \A c \in Clients : \A i \in 1..Len(bootstrap[c]) : bootstrap[c][i] \in Frames
    BY <1>0, ElementOfSeq DEF TypeOK
  <2>2. \A i \in 1..Len(entries) : entries[i] \in Entries
    BY <1>0, ElementOfSeq DEF TypeOK
  <2> QED
    BY <1>0, <2>1, <2>2 DEF TypeOK, LocalsHold, Entries
<1>2. CASE Tick
  <2>1. RepliesBacked'
    <3>1. /\ UNCHANGED <<entries, at>>
          /\ \A p \in Procs : reply'[p] = IF reply[p] = Nil THEN Nil ELSE Aged(reply[p])
      BY <1>2 DEF Tick
    <3> SUFFICES ASSUME NEW p \in Procs, reply'[p] # Nil, reply'[p].sid # Nil
                 PROVE  Backed(sessions', entries'[at'[p]].client, reply'[p])
      BY DEF RepliesBacked
    <3> DEFINE f == reply[p]
               c == entries[at[p]].client
    <3>2. f # Nil /\ f \in Frames /\ c \in Clients
      BY <1>1, <3>1
    <3>3. f.sid # Nil
      BY <3>1, <3>2, AgedFrame
    <3>4. Backed(sessions, c, f)
      BY <1>0, <3>2, <3>3 DEF RepliesBacked
    <3> HIDE DEF f, c
    <3>5. Backed(sessions', c, Aged(f))
      BY <1>0, <1>2, <3>2, <3>4, BackedAges
    <3>6. reply'[p] = Aged(f) /\ entries'[at'[p]].client = c
      BY <3>1, <3>2 DEF f, c
    <3> QED
      BY <3>5, <3>6
  <2>2. FramesBacked'
    <3> SUFFICES ASSUME NEW c \in Clients, NEW i \in 1..Len(bootstrap'[c]),
                        bootstrap'[c][i].sid # Nil
                 PROVE  Backed(sessions', c, bootstrap'[c][i])
      BY DEF FramesBacked
    <3> DEFINE f == bootstrap[c][i]
    <3>1. f \in Frames /\ bootstrap'[c][i] = Aged(f) /\ i \in 1..Len(bootstrap[c])
      BY <1>0, <1>2, TickStream
    <3>2. f.sid # Nil
      BY <3>1, AgedFrame
    <3>3. Backed(sessions, c, f)
      BY <1>0, <3>1, <3>2 DEF FramesBacked
    <3> HIDE DEF f
    <3>4. Backed(sessions', c, Aged(f))
      BY <1>0, <1>2, <3>1, <3>3, BackedAges
    <3> QED
      BY <3>1, <3>4
  <2>3. FilesBacked'
    <3> SUFFICES ASSUME NEW c \in Clients, file'[c] # Nil
                 PROVE  file'[c].sid # Nil /\ Backed(sessions', c, file'[c])
      BY DEF FilesBacked
    <3>1. file'[c] = IF file[c] = Nil THEN Nil ELSE Aged(file[c])
      BY <1>2 DEF Tick
    <3> DEFINE f == file[c]
    <3>2. f # Nil /\ f \in Frames /\ file'[c] = Aged(f)
      BY <1>1, <3>1
    <3>3. f.sid # Nil /\ Backed(sessions, c, f)
      BY <1>0, <3>2 DEF FilesBacked
    <3>4. file'[c].sid # Nil
      BY <3>2, <3>3, AgedFrame
    <3> HIDE DEF f
    <3>5. Backed(sessions', c, Aged(f))
      BY <1>0, <1>2, <3>2, <3>3, BackedAges
    <3> QED
      BY <3>2, <3>4, <3>5
  <2> QED
    BY <2>1, <2>2, <2>3 DEF AllBacked
<1>3. CASE ~Tick
  <2>1. RowsKept
    BY <1>3, RowsStep
  <2>2. \A c \in Clients, f \in Frames : Backed(sessions, c, f) => Backed(sessions', c, f)
    BY <1>0, <2>1, BackedStays
  (* What is kept of the three kinds of replies.                           *)
  <2>3. /\ \A i \in 1..Len(entries) : entries'[i] = entries[i]
        /\ \A i \in 1..Len(entries) : i \in 1..Len(entries')
    <3>1. CASE UNCHANGED entries
      BY <3>1
    <3>2. ASSUME NEW e \in Entries, entries' = Append(entries, e)
          PROVE  /\ \A i \in 1..Len(entries) : entries'[i] = entries[i]
                 /\ \A i \in 1..Len(entries) : i \in 1..Len(entries')
      BY <1>0, <3>2, EntriesGrow
    <3>3. \A c \in Clients : Ask(c) => \E e \in Entries : entries' = Append(entries, e)
      <4> SUFFICES ASSUME NEW c \in Clients, Ask(c)
                   PROVE  \E e \in Entries : entries' = Append(entries, e)
        OBVIOUS
      <4>1. NewId(c) \in Regs
        BY DEF Ask, NewId, Unused
      <4> QED
        BY <4>1, Built, Constants DEF Ask
    <3>4. \A c \in Clients : Repeat(c) => \E e \in Entries : entries' = Append(entries, e)
      <4>1. \A i \in DOMAIN entries : entries[i] \in Entries
        BY <1>0, LenProperties, ElementOfSeq DEF TypeOK
      <4> QED
        BY <4>1 DEF Repeat
    <3>5. \A c \in Clients : Wait(c) \/ GiveUp(c) => UNCHANGED entries
      BY DEF Wait, GiveUp, redis
    <3>6. \A p \in Procs : Start(p) \/ Gateway(p) \/ Renew(p) \/ Crash(p) =>
            UNCHANGED entries
      BY DEF Start, Gateway, Own, Cleanup, ReadFirst, Publish, Remove, Renew,
         Crash, redis
    <3>7. Takeover \/ UNCHANGED vars => UNCHANGED entries
      BY DEF Takeover, vars, redis
    <3> QED
      BY <1>3, <3>1, <3>2, <3>3, <3>4, <3>5, <3>6, <3>7 DEF Next
  <2>4. RepliesBacked'
    <3> SUFFICES ASSUME NEW q \in Procs, reply'[q] # Nil, reply'[q].sid # Nil
                 PROVE  Backed(sessions', entries'[at'[q]].client, reply'[q])
      BY DEF RepliesBacked
    <3>1. CASE reply'[q] = reply[q] /\ at'[q] = at[q]
      <4> DEFINE f == reply[q]
                 c == entries[at[q]].client
      <4>1. f \in Frames /\ c \in Clients /\ at[q] \in 1..Len(entries)
        BY <1>1, <3>1
      <4>2. Backed(sessions, c, f)
        BY <1>0, <3>1 DEF RepliesBacked
      <4>3. Backed(sessions', c, f)
        BY <2>2, <4>1, <4>2
      <4> QED
        BY <2>3, <3>1, <4>1, <4>3
    <3>2. ASSUME NEW p \in Procs, ReadFirst(p), ~(reply'[q] = reply[q] /\ at'[q] = at[q])
          PROVE  Backed(sessions', entries'[at'[q]].client, reply'[q])
      <4>1. p = q
        BY <1>0, <3>2 DEF ReadFirst, Turn, Answer, TypeOK
      <4>2. ~Turn(p)
        BY <1>0, <4>1 DEF Turn, TypeOK
      <4>3. /\ head < Len(entries) /\ at' = [at EXCEPT ![p] = head + 1]
            /\ UNCHANGED entries
            /\ UNCHANGED reply \/ Answer(p, entries[head + 1])
        BY <3>2, <4>2 DEF ReadFirst, redis
      <4>4. pc[p] = "register"
        BY <3>2 DEF ReadFirst
      <4>5. at'[p] = head + 1 /\ head + 1 \in 1..Len(entries)
        <5>1. Len(entries) \in Nat /\ head \in Nat
          BY <1>0, LenProperties DEF TypeOK
        <5> QED
          BY <1>0, <4>3, <5>1 DEF TypeOK
      <4>6. entries[head + 1] \in Entries
        BY <1>0, <4>5, ElementOfSeq DEF TypeOK
      <4>7. CASE Answer(p, entries[head + 1])
        <5>1. Unique
          BY DEF IInv
        <5>2. Backed(sessions', entries[head + 1].client, reply'[p])
          BY <1>0, <4>1, <4>3, <4>6, <4>7, <5>1, AnswerRows
        <5> QED
          BY <4>1, <4>3, <4>5, <5>2
      <4>8. CASE UNCHANGED reply
        BY <1>0, <4>1, <4>4, <4>8 DEF LocalsHold
      <4> QED
        BY <4>3, <4>7, <4>8
    <3>3. \A p \in Procs : Own(p) \/ Publish(p) \/ Remove(p) \/ Crash(p) =>
            reply'[q] = reply[q] /\ at'[q] = at[q]
      BY <1>0 DEF Own, Publish, Remove, Crash, Exit, Turn, local, TypeOK
    <3>4. \A p \in Procs : Start(p) \/ Cleanup(p) \/ Renew(p) =>
            UNCHANGED <<reply, at>>
      BY DEF Start, Cleanup, Renew, local
    <3>5. \A c \in Clients : Ask(c) \/ Repeat(c) \/ Wait(c) \/ GiveUp(c) =>
            UNCHANGED <<reply, at>>
      BY DEF Ask, Repeat, Wait, GiveUp, local
    <3>6. Takeover \/ UNCHANGED vars => UNCHANGED <<reply, at>>
      BY DEF Takeover, vars, local
    <3> QED
      BY <1>3, <3>1, <3>2, <3>3, <3>4, <3>5, <3>6 DEF Next, Gateway
  <2>5. FramesBacked'
    <3> SUFFICES ASSUME NEW c \in Clients, NEW i \in 1..Len(bootstrap'[c]),
                        bootstrap'[c][i].sid # Nil
                 PROVE  Backed(sessions', c, bootstrap'[c][i])
      BY DEF FramesBacked
    <3>1. CASE \E k \in 1..Len(bootstrap[c]) : bootstrap'[c][i] = bootstrap[c][k]
      BY <1>0, <1>1, <2>2, <3>1 DEF FramesBacked
    <3>2. CASE UNCHANGED bootstrap
      BY <3>1, <3>2
    <3>3. ASSUME NEW d \in Clients, Wait(d)
          PROVE  Backed(sessions', c, bootstrap'[c][i])
      <4>1. /\ bootstrap'[c] = IF c = d THEN Tail(bootstrap[c]) ELSE bootstrap[c]
            /\ bootstrap[d] # << >>
        BY <1>0, <3>3 DEF Wait, TypeOK
      <4>2. CASE c # d
        BY <3>1, <4>1, <4>2
      <4>3. CASE c = d
        <5>1. /\ Len(Tail(bootstrap[c])) = Len(bootstrap[c]) - 1
              /\ \A k \in 1..Len(Tail(bootstrap[c])) :
                   Tail(bootstrap[c])[k] = bootstrap[c][k + 1]
          BY <1>1, <4>1, <4>3, HeadTailProperties
        <5>2. Len(bootstrap[c]) \in Nat
          BY <1>1, LenProperties
        <5>3. i + 1 \in 1..Len(bootstrap[c]) /\ bootstrap'[c][i] = bootstrap[c][i + 1]
          BY <4>1, <4>3, <5>1, <5>2
        <5> QED
          BY <3>1, <5>3
      <4> QED
        BY <4>2, <4>3
    <3>4. ASSUME NEW p \in Procs, Publish(p)
          PROVE  Backed(sessions', c, bootstrap'[c][i])
      <4> DEFINE d == entries[at[p]].client
                 f == reply[p]
      <4>1. pc[p] = "publish" /\ f # Nil
        BY <1>0, <3>4 DEF Publish, LocalsHold
      <4>2. f \in Frames /\ d \in Clients
        BY <1>1, <4>1
      <4>3. CASE bootstrap' = [bootstrap EXCEPT ![d] = Append(@, f)] /\ c = d
        <5>1. bootstrap'[c] = Append(bootstrap[c], f)
          BY <1>0, <4>3 DEF TypeOK
        <5>2. /\ Len(bootstrap'[c]) = Len(bootstrap[c]) + 1
              /\ \A k \in 1..Len(bootstrap[c]) : bootstrap'[c][k] = bootstrap[c][k]
              /\ bootstrap'[c][Len(bootstrap[c]) + 1] = f
              /\ Len(bootstrap[c]) \in Nat
          BY <1>1, <4>2, <5>1, AppendProperties, LenProperties
        <5>3. CASE i \in 1..Len(bootstrap[c])
          BY <3>1, <5>2, <5>3
        <5>4. CASE i = Len(bootstrap[c]) + 1
          <6>1. Backed(sessions, c, f)
            BY <1>0, <4>1, <4>3, <5>2, <5>4 DEF RepliesBacked
          <6> QED
            BY <2>2, <4>2, <5>2, <5>4, <6>1
        <5> QED
          BY <5>2, <5>3, <5>4
      <4>4. CASE bootstrap' = [bootstrap EXCEPT ![d] = Append(@, f)] /\ c # d
        BY <1>0, <3>1, <4>4 DEF TypeOK
      <4> QED
        BY <3>2, <3>4, <4>3, <4>4 DEF Publish
    <3>5. \A p \in Procs : Start(p) \/ Own(p) \/ Cleanup(p) \/ ReadFirst(p) \/ Remove(p)
                             \/ Renew(p) \/ Crash(p) => UNCHANGED bootstrap
      BY DEF Start, Own, Cleanup, ReadFirst, Remove, Renew, Crash, redis
    <3>6. \A d \in Clients : Ask(d) \/ Repeat(d) \/ GiveUp(d) => UNCHANGED bootstrap
      BY DEF Ask, Repeat, GiveUp, redis
    <3>7. Takeover \/ UNCHANGED vars => UNCHANGED bootstrap
      BY DEF Takeover, vars, redis
    <3> QED
      BY <1>3, <3>2, <3>3, <3>4, <3>5, <3>6, <3>7 DEF Next, Gateway
  <2>6. FilesBacked'
    <3> SUFFICES ASSUME NEW c \in Clients, file'[c] # Nil
                 PROVE  file'[c].sid # Nil /\ Backed(sessions', c, file'[c])
      BY DEF FilesBacked
    <3>1. CASE file'[c] = file[c]
      BY <1>0, <1>1, <2>2, <3>1 DEF FilesBacked
    <3>2. ASSUME NEW d \in Clients, Wait(d), file'[c] # file[c]
          PROVE  file'[c].sid # Nil /\ Backed(sessions', c, file'[c])
      <4>1. /\ file'[c] = Head(bootstrap[c]) /\ Head(bootstrap[c]).sid # Nil
            /\ bootstrap[c] # << >>
        BY <1>0, <3>2 DEF Wait, TypeOK
      <4>2. Head(bootstrap[c]) = bootstrap[c][1] /\ 1 \in 1..Len(bootstrap[c])
        BY <1>1, <4>1, EmptySeq, LenProperties
      <4> QED
        BY <1>0, <1>1, <2>2, <4>1, <4>2 DEF FramesBacked
    <3>3. \A p \in Procs : Start(p) \/ Gateway(p) \/ Renew(p) \/ Crash(p) =>
            UNCHANGED file
      BY DEF Start, Gateway, Own, Cleanup, ReadFirst, Publish, Remove, Renew,
         Crash, client
    <3>4. \A d \in Clients : Ask(d) \/ Repeat(d) \/ GiveUp(d) => UNCHANGED file
      BY DEF Ask, Repeat, GiveUp, client
    <3>5. Takeover \/ UNCHANGED vars => UNCHANGED file
      BY DEF Takeover, vars, client
    <3> QED
      BY <1>3, <3>1, <3>2, <3>3, <3>4, <3>5 DEF Next
  <2> QED
    BY <2>4, <2>5, <2>6 DEF AllBacked
<1> QED
  BY <1>2, <1>3

-----------------------------------------------------------------------------
(* The results.                                                            *)

(* Everything below follows from this: the strengthening holds in every    *)
(* state of every behaviour.                                               *)
THEOREM Inductive == Spec => []IInv
<1>1. IInv /\ [Next]_vars => IInv'
  <2> SUFFICES ASSUME IInv, [Next]_vars PROVE IInv'
    OBVIOUS
  <2>1. TypeOK' /\ LocalsHold'
    BY ShapeStep DEF Shape
  <2>2. Ownership'
    BY OwnershipStep
  <2>3. Unique' /\ AllBacked'
    BY <2>1, RowsStep, BackedStep
  <2> QED
    BY <2>1, <2>2, <2>3 DEF IInv, Shape
<1> QED
  BY InitIInv, <1>1, PTL DEF Spec

(* Journals, Redis, gateways and clients keep their shapes; in particular  *)
(* no bootstrap stream exceeds the window.                                 *)
THEOREM RegistrationTypeCorrect == Spec => []TypeOK
<1>1. IInv => TypeOK
  BY DEF IInv, Shape
<1> QED
  BY Inductive, <1>1, PTL

(* Only one process ever serves the namespace, however many are started on *)
(* however many directories, through crashes and takeovers.                *)
THEOREM OneProcessServes == Spec => []OneServes
<1>1. IInv => OneServes
  <2> SUFFICES ASSUME IInv, NEW p \in Procs, NEW q \in Procs, Serving(p), Serving(q)
               PROVE  p = q
    BY DEF OneServes
  <2>1. journal[p] = journal[q]
    BY DEF IInv, Ownership, OwnerKept
  <2>2. lock[journal[p]] = p /\ lock[journal[q]] = q
    BY DEF IInv, Ownership, LocksHeld, Serving
  <2> QED
    BY <2>1, <2>2
<1> QED
  BY Inductive, <1>1, PTL

(* A reply, or the session file made from it, names a session that some    *)
(* journal still has, for as long as the client may rely on it.            *)
LEMMA HandedIsBacked ==
  ASSUME IInv, NEW c \in Clients, NEW f \in Handed(c)
  PROVE  f \in Frames /\ Backed(sessions, c, f)
<1>1. CASE f \in InStream(c) /\ f.sid # Nil
  <2>1. bootstrap[c] \in Seq(Frames)
    BY DEF IInv, Shape, TypeOK
  <2>2. PICK i \in 1..Len(bootstrap[c]) : f = bootstrap[c][i]
    BY <1>1, <2>1, LenProperties DEF InStream
  <2>3. f \in Frames
    BY <2>1, <2>2, ElementOfSeq
  <2> QED
    BY <1>1, <2>2, <2>3 DEF IInv, AllBacked, FramesBacked
<1>2. CASE file[c] # Nil /\ f = file[c]
  BY <1>2 DEF IInv, Shape, TypeOK, AllBacked, FilesBacked
<1> QED
  BY <1>1, <1>2 DEF Handed

(* What clients were told is true until it expires: the row is there, for  *)
(* this client and registration, and for at least as long.                 *)
THEOREM HandedOutStaysLive == Spec => []HandedOutIsLive
<1>1. IInv => HandedOutIsLive
  BY HandedIsBacked DEF HandedOutIsLive, Backed
<1> QED
  BY Inductive, <1>1, PTL

(* A repeated or re-read registration never gives a client two sessions in *)
(* one journal at the same time.                                           *)
THEOREM OneSessionPerRegistration == Spec => []RetriesShareSession
<1>1. IInv => RetriesShareSession
  <2> SUFFICES ASSUME IInv, NEW c \in Clients, NEW f \in Handed(c), NEW g \in Handed(c),
                      f.reg = g.reg, f.left > 0, g.left > 0, NEW j \in Journals,
                      {f.sid, g.sid} \subseteq Known(sessions[j])
               PROVE  f.sid = g.sid
    BY DEF RetriesShareSession
  <2>1. PICK r \in sessions[j] : r.sid = f.sid
    BY DEF Known
  <2>2. PICK s \in sessions[j] : s.sid = g.sid
    BY DEF Known
  <2>3. r.client = c /\ r.reg = f.reg
    <3>1. \E i \in Journals : \E a \in sessions[i] :
            a.sid = f.sid /\ a.client = c /\ a.reg = f.reg
      BY HandedIsBacked DEF Backed
    <3> QED
      BY <2>1, <3>1 DEF IInv, Unique, SidsUnique
  <2>4. s.client = c /\ s.reg = g.reg
    <3>1. \E i \in Journals : \E a \in sessions[i] :
            a.sid = g.sid /\ a.client = c /\ a.reg = g.reg
      BY HandedIsBacked DEF Backed
    <3> QED
      BY <2>2, <3>1 DEF IInv, Unique, SidsUnique
  <2>5. r = s
    BY <2>3, <2>4 DEF IInv, Unique, RegsUnique
  <2> QED
    BY <2>1, <2>2, <2>5
<1> QED
  BY Inductive, <1>1, PTL
=============================================================================
