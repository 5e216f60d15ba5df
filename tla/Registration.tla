---------------------------- MODULE Registration ----------------------------
(***************************************************************************)
(* How a client gets a session, and how a gateway gets its namespace:      *)
(* RunMain, OwnNamespace, Cleanup and Register of src/main.cc, and the     *)
(* part of tools/client.cc that registers and keeps the session file.      *)
(*                                                                         *)
(* Several gateway processes may be started, on the same state directory   *)
(* or on different ones.  All clients share one registration stream and    *)
(* each has a bootstrap stream for the replies.  Times are kept as ticks   *)
(* that are left, so the clock itself is not bounded.                      *)
(***************************************************************************)
EXTENDS Integers, Sequences, FiniteSets

CONSTANTS
  Procs,        \* gateway processes
  Journals,     \* state directories, each with its durable owner identity
  Placements,   \* the ways in which processes may be given directories
  Clients,
  Regs,         \* registration identifiers; RandomId never yields one twice
  Sids,         \* session identifiers, free again once nobody knows them
  Unread,       \* clients that may have left old replies unread
  Kinds,        \* Kinds[c]: the kinds of entries client c sends
  Nil,
  Window,       \* Limits::kWindow
  KSessions,    \* Limits::kSessions
  LeaseTime,    \* Limits::kLeaseSeconds, in ticks
  MaxSends,     \* bound: entries of the registration stream
  MaxFailures   \* bound: kills, stops and lost Redis replies

(* good: accepted; old: another protocol version, refused with a reply;    *)
(* bad: text, client or token the gateway does not accept.                 *)
AllKinds == {"good", "old", "bad"}

Entries == [client : Clients, reg : Regs, kind : AllKinds]
Rows == [sid : Sids, client : Clients, reg : Regs, left : 0..LeaseTime]
(* A reply on a bootstrap stream; sid is Nil in an error.  A session file  *)
(* is the reply it was made from.                                          *)
Frames == [reg : Regs, sid : Sids \cup {Nil}, left : 0..LeaseTime]

ASSUME RegistrationAssumption ==
  /\ IsFiniteSet(Sids) /\ IsFiniteSet(Journals)
  /\ Sids # {} /\ Journals # {} /\ Regs # {}
  /\ {Window, KSessions, LeaseTime} \subseteq Nat \ {0}
  /\ MaxSends \in Nat /\ MaxFailures \in Nat
  /\ Placements \subseteq [Procs -> Journals]
  /\ Kinds \in [Clients -> SUBSET AllKinds] /\ Unread \subseteq Clients
  /\ Nil \notin Procs \cup Journals \cup Regs \cup Sids \cup Frames

VARIABLES
  journal,    \* journal[p]: the state directory p was given
  lock,       \* lock[j]: the process that holds server.lock
  owner,      \* the owner key of the namespace in Redis
  sessions,   \* sessions[j]: table sessions
  entries, head,  \* registration stream: all entries ever, how many are gone
  bootstrap, ttl, \* bootstrap streams and when Redis drops them
  pc, cleaned, at, reply,  \* gateway: position, last_cleanup_, locals
  waiting,    \* client: the registration it waits for
  file,       \* client: the session file
  failures

redis   == <<owner, entries, head, bootstrap, ttl>>
local   == <<pc, cleaned, at, reply>>
client  == <<waiting, file>>
vars == <<journal, lock, redis, sessions, local, client, failures>>

PCs == {"down", "own", "cleanup", "register", "publish", "remove"}

TypeOK ==
  /\ journal \in [Procs -> Journals] /\ lock \in [Journals -> Procs \cup {Nil}]
  /\ owner \in Journals \cup {Nil}
  /\ sessions \in [Journals -> SUBSET Rows]
  /\ entries \in Seq(Entries) /\ head \in 0..Len(entries)
  /\ bootstrap \in [Clients -> Seq(Frames)]
  /\ ttl \in [Clients -> 0..LeaseTime]
  /\ \A c \in Clients : Len(bootstrap[c]) <= Window
  /\ pc \in [Procs -> PCs] /\ cleaned \in [Procs -> BOOLEAN]
  /\ at \in [Procs -> 0..Len(entries)] /\ reply \in [Procs -> Frames \cup {Nil}]
  /\ waiting \in [Clients -> Regs \cup {Nil}]
  /\ file \in [Clients -> Frames \cup {Nil}]
  /\ failures \in 0..MaxFailures

(* An earlier client registered under this identifier and is gone.         *)
OldReg == CHOOSE r \in Regs : TRUE
OldRow(c) == [sid |-> CHOOSE s \in Sids : TRUE, client |-> c, reg |-> OldReg,
              left |-> LeaseTime]
FrameOf(r) == [reg |-> r.reg, sid |-> r.sid, left |-> r.left]

(* A new namespace, or one that a journal owns and in which a client has   *)
(* left as many replies unread as its bootstrap stream holds.              *)
Init ==
  /\ journal \in Placements /\ lock = [j \in Journals |-> Nil]
  /\ \/ /\ owner = Nil /\ sessions = [j \in Journals |-> {}]
        /\ bootstrap = [c \in Clients |-> << >>]
        /\ ttl = [c \in Clients |-> 0]
     \/ \E d \in Unread :
          /\ owner = CHOOSE j \in Journals : TRUE
          /\ sessions = [j \in Journals |-> IF j = owner THEN {OldRow(d)} ELSE {}]
          /\ bootstrap = [c \in Clients |->
               IF c = d THEN [i \in 1..Window |-> FrameOf(OldRow(d))] ELSE << >>]
          /\ ttl = [c \in Clients |-> IF c = d THEN LeaseTime ELSE 0]
  /\ entries = << >> /\ head = 0
  /\ pc = [p \in Procs |-> "down"] /\ cleaned = [p \in Procs |-> FALSE]
  /\ at = [p \in Procs |-> 0] /\ reply = [p \in Procs |-> Nil]
  /\ waiting = [c \in Clients |-> Nil] /\ file = [c \in Clients |-> Nil]
  /\ failures = 0

Goto(p, l) == pc' = [pc EXCEPT ![p] = l]
Turn(p) == /\ Goto(p, "own") /\ at' = [at EXCEPT ![p] = 0]
           /\ reply' = [reply EXCEPT ![p] = Nil]

(* The process is gone, and the kernel releases its lock.                  *)
Exit(p) ==
  /\ Goto(p, "down") /\ cleaned' = [cleaned EXCEPT ![p] = FALSE]
  /\ at' = [at EXCEPT ![p] = 0] /\ reply' = [reply EXCEPT ![p] = Nil]
  /\ lock' = [j \in Journals |-> IF lock[j] = p THEN Nil ELSE lock[j]]

Fails == failures < MaxFailures /\ failures' = failures + 1
Heard == UNCHANGED failures

-----------------------------------------------------------------------------
(* RunMain: the lock of the state directory, or exit.                      *)
Lockable(j) == lock[j] = Nil
Start(p) ==
  /\ pc[p] = "down" /\ Lockable(journal[p])
  /\ lock' = [lock EXCEPT ![journal[p]] = p] /\ Goto(p, "own")
  /\ UNCHANGED <<journal, redis, sessions, cleaned, at, reply, client, failures>>

(* OwnNamespace, on every turn: one atomic script.  A lost reply ends the  *)
(* turn, as it breaks the connection; a foreign owner ends the process.    *)
AnyOwner(j) == TRUE
Claimable(j) == owner \in {Nil, j}

Own(p) ==
  LET j == journal[p] IN
  /\ pc[p] = "own"
  /\ \/ /\ Claimable(j) /\ owner' = j /\ UNCHANGED lock
        /\ \/ /\ Heard /\ UNCHANGED <<cleaned, at, reply>>
              /\ Goto(p, IF cleaned[p] THEN "register" ELSE "cleanup")
           \/ Fails /\ UNCHANGED local
     \/ ~Claimable(j) /\ Exit(p) /\ Heard /\ UNCHANGED owner
  /\ UNCHANGED <<journal, sessions, entries, head, bootstrap, ttl, client>>

(* Cleanup, once a second: expired rows go, but for the session whose job  *)
(* the worker holds, which may be any one of them.                         *)
Expired(j) == {r \in sessions[j] : r.left = 0}
Cleanup(p) ==
  LET j == journal[p] IN
  /\ pc[p] = "cleanup" /\ Goto(p, "register")
  /\ cleaned' = [cleaned EXCEPT ![p] = TRUE]
  /\ \E kept \in SUBSET Expired(j) :
       /\ Cardinality(kept) <= 1
       /\ sessions' = [sessions EXCEPT ![j] = (@ \ Expired(j)) \cup kept]
  /\ UNCHANGED <<journal, lock, redis, at, reply, client, failures>>

-----------------------------------------------------------------------------
(* Register: the oldest entry, if any.                                     *)

Known(S) == {f.sid : f \in S}
InStream(c) == {bootstrap[c][i] : i \in DOMAIN bootstrap[c]}
InUse == Known(UNION {sessions[j] : j \in Journals})
           \cup Known(UNION {InStream(c) : c \in Clients})
           \cup {file[c].sid : c \in {d \in Clients : file[d] # Nil}}
           \cup {reply[p].sid : p \in {q \in Procs : reply[q] # Nil}}
Free == Sids \ InUse   \* bound: the model runs only as long as one is free
RandomId == CHOOSE s \in Free : TRUE

NoneFound(j, e) == {}
Existing(j, e) == {r \in sessions[j] : r.client = e.client /\ r.reg = e.reg}
NewLease(r) == LeaseTime
Expires(r) == r.left

(* The row that the reply will name: the one this registration made        *)
(* before, or a new one.                                                   *)
Answer(p, e) ==
  LET j == journal[p]
      new == [sid |-> RandomId, client |-> e.client, reg |-> e.reg,
              left |-> LeaseTime]
      Say(s, l) == reply' = [reply EXCEPT ![p] =
                               [reg |-> e.reg, sid |-> s, left |-> l]]
  IN
  \/ /\ e.kind = "good" /\ Existing(j, e) = {}
     /\ Cardinality(sessions[j]) < KSessions /\ Free # {}
     /\ sessions' = [sessions EXCEPT ![j] = @ \cup {new}]
     /\ Say(new.sid, LeaseTime)
  \/ /\ e.kind = "good" /\ UNCHANGED sessions
     /\ \E r \in Existing(j, e) : Say(r.sid, Expires(r))
  \/ /\ UNCHANGED sessions /\ Say(Nil, 0)
     /\ \/ e.kind = "old"
        \/ /\ e.kind = "good" /\ Existing(j, e) = {}
           /\ Cardinality(sessions[j]) >= KSessions

ReadFirst(p) ==
  /\ pc[p] = "register" /\ UNCHANGED cleaned
  /\ \/ /\ head = Len(entries) /\ Turn(p) /\ Heard /\ UNCHANGED sessions
     \/ /\ head < Len(entries) /\ Heard
        /\ at' = [at EXCEPT ![p] = head + 1]
        /\ IF entries[head + 1].kind = "bad"
             THEN Goto(p, "remove") /\ UNCHANGED <<sessions, reply>>
             ELSE Goto(p, "publish") /\ Answer(p, entries[head + 1])
     \/ Fails /\ Turn(p) /\ UNCHANGED sessions
  /\ UNCHANGED <<journal, lock, redis, client>>

(* Publish to the client's bootstrap stream.  While the window is full the *)
(* entry stays at the head of the stream that all clients share.           *)
Forever(c) == UNCHANGED ttl
Expire(c) == ttl' = [ttl EXCEPT ![c] = LeaseTime]
OneOver(c) == Len(bootstrap[c]) <= Window
CanPublish(c) == Len(bootstrap[c]) < Window

Publish(p) ==
  LET c == entries[at[p]].client IN
  /\ pc[p] = "publish" /\ UNCHANGED cleaned
  /\ \/ /\ CanPublish(c) /\ Expire(c)
        /\ bootstrap' = [bootstrap EXCEPT ![c] = Append(@, reply[p])]
        /\ \/ /\ Heard /\ Goto(p, "remove") /\ UNCHANGED at
              /\ reply' = [reply EXCEPT ![p] = Nil]
           \/ Fails /\ Turn(p)
     \/ /\ ~CanPublish(c) /\ Heard /\ Turn(p)
        /\ UNCHANGED <<bootstrap, ttl>>
     \/ Fails /\ Turn(p) /\ UNCHANGED <<bootstrap, ttl>>
  /\ UNCHANGED <<journal, lock, owner, sessions, entries, head, client>>

Remove(p) ==
  /\ pc[p] = "remove" /\ Turn(p) /\ UNCHANGED cleaned
  /\ \/ /\ head' = IF head = at[p] - 1 THEN at[p] ELSE head
        /\ Heard \/ Fails
     \/ Fails /\ UNCHANGED head
  /\ UNCHANGED <<journal, lock, owner, sessions, entries, bootstrap, ttl, client>>

(* session.renew of a session that has a row, carried out by StartJob of   *)
(* the gateway that serves the namespace.                                  *)
Renew(p) ==
  /\ pc[p] = "register"
  /\ \E r \in sessions[journal[p]] :
       /\ r.left < LeaseTime
       /\ sessions' = [sessions EXCEPT ![journal[p]] =
                         (@ \ {r}) \cup {[r EXCEPT !.left = LeaseTime]}]
  /\ UNCHANGED <<journal, lock, redis, local, client, failures>>

-----------------------------------------------------------------------------
(* Clients.                                                                *)

Sent(c) == {entries[i].reg : i \in {k \in DOMAIN entries :
                                      entries[k].client = c}}
Unused(c) == Regs \ (Sent(c) \cup {OldReg})
NewId(c) == CHOOSE r \in Unused(c) : TRUE

(* A run of gateway-client without a usable session file: register under a *)
(* new identifier and wait.  Without a reply to XADD it gives up.          *)
Ask(c) ==
  /\ waiting[c] = Nil /\ Len(entries) < MaxSends /\ Unused(c) # {}
  /\ file[c] # Nil => file[c].left = 0
  /\ \E k \in Kinds[c] : LET r == NewId(c) IN
       /\ entries' = Append(entries, [client |-> c, reg |-> r, kind |-> k])
       /\ \/ Heard /\ waiting' = [waiting EXCEPT ![c] = r]
          \/ Fails /\ UNCHANGED waiting
  /\ UNCHANGED <<journal, lock, owner, head, bootstrap, ttl, sessions, local,
                 file>>

(* Another program repeats a registration it is unsure of.                 *)
Repeat(c) ==
  /\ Len(entries) < MaxSends
  /\ \E i \in DOMAIN entries : /\ entries[i].client = c
                               /\ entries' = Append(entries, entries[i])
  /\ UNCHANGED <<journal, lock, owner, head, bootstrap, ttl, sessions, local,
                 client, failures>>

(* Wait: every frame is acknowledged; the awaited one ends the waiting,    *)
(* and becomes the session file unless it is an error, or the client dies  *)
(* or misses the reply to XDEL.                                            *)
Wait(c) ==
  LET f == Head(bootstrap[c]) IN
  /\ waiting[c] # Nil /\ bootstrap[c] # << >>
  /\ bootstrap' = [bootstrap EXCEPT ![c] = Tail(@)]
  /\ \/ f.reg # waiting[c] /\ Heard /\ UNCHANGED <<waiting, file>>
     \/ /\ f.reg = waiting[c] /\ Heard
        /\ waiting' = [waiting EXCEPT ![c] = Nil]
        /\ file' = IF f.sid = Nil THEN file ELSE [file EXCEPT ![c] = f]
     \/ /\ Fails /\ waiting' = [waiting EXCEPT ![c] = Nil] /\ UNCHANGED file
  /\ UNCHANGED <<journal, lock, owner, entries, head, ttl, sessions, local>>

(* The client gives up, after 15 minutes or because it is killed.          *)
GiveUp(c) ==
  /\ waiting[c] # Nil /\ waiting' = [waiting EXCEPT ![c] = Nil]
  /\ UNCHANGED <<journal, lock, redis, sessions, local, file, failures>>

-----------------------------------------------------------------------------
(* The environment.                                                        *)

Less(x) == IF x = 0 THEN 0 ELSE x - 1
Aged(f) == [f EXCEPT !.left = Less(@)]

Tick ==
  /\ sessions' = [j \in Journals |-> {Aged(r) : r \in sessions[j]}]
  /\ ttl' = [c \in Clients |-> Less(ttl[c])]
  /\ bootstrap' = [c \in Clients |->
       IF ttl[c] = 1 THEN << >>
       ELSE [i \in DOMAIN bootstrap[c] |-> Aged(bootstrap[c][i])]]
  /\ cleaned' = [p \in Procs |-> FALSE]
  /\ reply' = [p \in Procs |-> IF reply[p] = Nil THEN Nil ELSE Aged(reply[p])]
  /\ file' = [c \in Clients |-> IF file[c] = Nil THEN Nil ELSE Aged(file[c])]
  /\ UNCHANGED <<journal, lock, owner, entries, head, pc, at, waiting, failures>>

Crash(p) ==
  /\ pc[p] # "down" /\ Fails /\ Exit(p)
  /\ UNCHANGED <<journal, redis, sessions, client>>

(* The operator removes the owner key once the former owner is stopped.    *)
Takeover ==
  /\ owner # Nil /\ lock[owner] = Nil /\ Fails /\ owner' = Nil
  /\ UNCHANGED <<journal, lock, entries, head, bootstrap, ttl, sessions, local,
                 client>>

-----------------------------------------------------------------------------
Gateway(p) == \/ Own(p) \/ Cleanup(p) \/ ReadFirst(p) \/ Publish(p)
              \/ Remove(p)
Next ==
  \/ \E p \in Procs : Start(p) \/ Gateway(p) \/ Renew(p) \/ Crash(p)
  \/ \E c \in Clients : Ask(c) \/ Repeat(c) \/ Wait(c) \/ GiveUp(c)
  \/ Tick \/ Takeover
Spec == Init /\ [][Next]_vars

(* Processes are restarted and keep turning, and time passes.  Nothing is  *)
(* assumed of the clients: they need not read their bootstrap streams.     *)
Fairness ==
  /\ \A p \in Procs : SF_vars(Start(p)) /\ WF_vars(Gateway(p))
  /\ WF_vars(Tick)
FairSpec == Spec /\ Fairness

-----------------------------------------------------------------------------
(* What must hold.                                                         *)

Serving(p) == pc[p] \notin {"down", "own"}

(* Only one process ever serves the namespace, whatever processes are      *)
(* started on whatever directories: the lock excludes a second process on  *)
(* one directory, the owner key a process on another one.                  *)
OneServes == \A p, q \in Procs : Serving(p) /\ Serving(q) => p = q

(* All that clients may believe: replies published or saved.               *)
Handed(c) == {f \in InStream(c) : f.sid # Nil}
               \cup (IF file[c] = Nil THEN {} ELSE {file[c]})

(* A reply or a session file whose time is not over names a session that   *)
(* a journal has for this client and registration, for at least as long.   *)
HandedOutIsLive ==
  \A c \in Clients : \A f \in Handed(c) :
    f.left > 0 => \E j \in Journals : \E r \in sessions[j] :
      /\ r.sid = f.sid /\ r.client = c /\ r.reg = f.reg /\ r.left >= f.left

(* A registration that is repeated, read again after a lost deletion, or   *)
(* answered twice yields one session for as long as the first one lives,   *)
(* unless an operator moved the namespace to another journal.              *)
RetriesShareSession ==
  \A c \in Clients : \A f, g \in Handed(c) :
    /\ f.reg = g.reg /\ f.left > 0 /\ g.left > 0
    /\ \E j \in Journals : {f.sid, g.sid} \subseteq Known(sessions[j])
    => f.sid = g.sid

(* The registration stream is emptied time and again, although the full    *)
(* bootstrap stream of a client that does not read holds up the entries of *)
(* all others: Redis drops that stream in the end.                         *)
RegistrationsAnswered == []<>(head = Len(entries))
=============================================================================
