----------------------------- MODULE Transfer ------------------------------
(***************************************************************************)
(* Resumable uploads (src/transfer.cc, class TransferManager).  A transfer *)
(* is two files: the data, written in place chunk by chunk, and the        *)
(* manifest, replaced atomically.  Every call runs on the gateway's main   *)
(* thread, so calls do not interleave; but the process may die, or the     *)
(* disk may refuse, between any two writes of a call, and a chunk whose    *)
(* acknowledgment was lost is handled again.                               *)
(*                                                                         *)
(* Contents are sequences over Bytes.  SHA-256 is taken to be injective: a *)
(* digest is the content it is the digest of.                              *)
(***************************************************************************)
EXTENDS Integers, Sequences, FiniteSets

CONSTANTS
  Sids, Tids,     \* sessions; transfer identifiers, chosen by the clients
  Bytes,
  Begins,         \* what clients declare: [total : Nat, sha256 : content]
  Chunks,         \* what clients send: [seq : Nat, data : content]
  Nil,
  UploadBytes,    \* Limits::kUploadBytes, the longest transfer
  ParamsBytes,    \* Limits::kParamsBytes, the longest that a request may use
  PerSession,     \* 4 transfers of a session
  Reservable,     \* 256 MiB over all transfers
  Lifetime,       \* 600 seconds, in ticks
  MaxCrashes      \* bound: deaths of the process and failed writes

Keys == Sids \X Tids
Contents == Seq(Bytes)

(* left: what remains of the lifetime (expires - Now()).                   *)
Manifests == [total : Nat, sha256 : Contents, bytes : Nat, next_seq : Nat,
              last_hash : Contents, left : 0..Lifetime, committed : BOOLEAN]

ASSUME TransferAssumption ==
  /\ IsFiniteSet(Sids) /\ IsFiniteSet(Tids)
  /\ Begins \subseteq [total : Nat, sha256 : Contents]
  /\ Chunks \subseteq [seq : Nat, data : Contents \ {<< >>}]
  /\ Nil \notin Contents /\ Nil \notin Keys /\ Nil \notin Manifests
  /\ {UploadBytes, ParamsBytes, PerSession, Reservable, Lifetime} \subseteq Nat \ {0}
  /\ MaxCrashes \in Nat

VARIABLES
  manifest,   \* the .json files; Nil: there is none
  data,       \* the .data files; Nil: there is none
  pc,         \* the main thread: "idle", "write", "save", "sweep", "unlink"
  cur,        \* the transfer of the call that is under way
  pending,    \* the manifest it will save
  todo,       \* manifests the sweep has yet to visit
  crashes

vars == <<manifest, data, pc, cur, pending, todo, crashes>>
files == <<manifest, data>>
call == <<pc, cur, pending>>

TypeOK ==
  /\ manifest \in [Keys -> Manifests \cup {Nil}]
  /\ data \in [Keys -> Contents \cup {Nil}]
  /\ pc \in {"idle", "write", "save", "sweep", "unlink"}
  /\ cur \in Keys \cup {Nil} /\ pending \in Manifests \cup {Nil}
  /\ todo \subseteq Keys /\ crashes \in Nat

Init ==
  /\ manifest = [k \in Keys |-> Nil] /\ data = [k \in Keys |-> Nil]
  /\ pc = "idle" /\ cur = Nil /\ pending = Nil
  /\ todo = {} /\ crashes = 0

-----------------------------------------------------------------------------
Known == {k \in Keys : manifest[k] # Nil}

(* Load succeeds: there is a manifest and it has not expired.              *)
Exists(k) == manifest[k] # Nil
Live(k) == manifest[k] # Nil /\ manifest[k].left > 0

(* The call is over; nothing of it stays in memory.                        *)
Return == pc' = "idle" /\ cur' = Nil /\ pending' = Nil

Save(k, m) == pc' = "save" /\ cur' = k /\ pending' = m

-----------------------------------------------------------------------------
(* transfer.begin.  A transfer that exists is left alone, whether its      *)
(* declaration matches (acknowledged) or not (id_conflict).                *)

(* One element for each byte the manifests in S reserve.                   *)
Reserved(S) == {p \in S \X (1..UploadBytes) : p[2] <= manifest[p[1]].total}

OneOver(k, total) == Cardinality({j \in Known : j[1] = k[1]}) > PerSession
OverQuota(k, total) ==
  \/ Cardinality({j \in Known : j[1] = k[1]}) >= PerSession
  \/ Cardinality(Reserved(Known)) + total > Reservable

NoneExists(k) == TRUE
IsNew(k) == manifest[k] = Nil

Begin(k, b) ==
  /\ pc = "idle" /\ b.total <= UploadBytes
  /\ IsNew(k) /\ ~OverQuota(k, b.total)
  /\ data' = [data EXCEPT ![k] = << >>]
  /\ Save(k, [total |-> b.total, sha256 |-> b.sha256, bytes |-> 0,
              next_seq |-> 0, last_hash |-> << >>, left |-> Lifetime,
              committed |-> FALSE])
  /\ UNCHANGED <<manifest, todo, crashes>>

-----------------------------------------------------------------------------
(* transfer.chunk.                                                         *)

(* The most recently accepted chunk again: acknowledged, nothing changes.  *)
IsRetry(k, c) == manifest[k].next_seq > 0 /\ c.seq = manifest[k].next_seq - 1
                 /\ c.data = manifest[k].last_hash

AtTheEnd(k, c) == Len(data[k])
Offset(k, c) == manifest[k].bytes

Full(k, c) == manifest[k].bytes = manifest[k].total
TooLarge(k, c) == manifest[k].bytes + Len(c.data) > manifest[k].total

Counted(m, c) == [m EXCEPT !.bytes = @ + Len(c.data), !.next_seq = @ + 1,
                           !.last_hash = c.data]

(* pwrite at the recorded offset; what an interrupted call left beyond it  *)
(* is overwritten as far as the new bytes reach.                           *)
Overwrite(old, at, new) ==
  SubSeq(old, 1, at) \o new
    \o SubSeq(old, at + Len(new) + 1, Len(old))

Accepts(k, c) ==
  /\ Live(k) /\ ~IsRetry(k, c) /\ ~manifest[k].committed
  /\ c.seq = manifest[k].next_seq /\ ~TooLarge(k, c) /\ data[k] # Nil

WriteChunk(k, c) ==
  /\ pc = "idle" /\ Accepts(k, c)
  /\ data' = [data EXCEPT ![k] = Overwrite(@, Offset(k, c), c.data)]
  /\ pc' = "write" /\ cur' = k /\ pending' = Counted(manifest[k], c)
  /\ UNCHANGED <<manifest, todo, crashes>>

(* Only part of the chunk reaches the file: storage_error.                 *)
WriteFails(k, c) ==
  /\ pc = "idle" /\ Accepts(k, c) /\ crashes < MaxCrashes
  /\ \E i \in 0..(Len(c.data) - 1) :
       data' = [data EXCEPT ![k] =
                  Overwrite(@, Offset(k, c), SubSeq(c.data, 1, i))]
  /\ crashes' = crashes + 1
  /\ UNCHANGED <<manifest, call, todo>>

(* ftruncate and fsync.                                                    *)
Truncate ==
  /\ pc = "write"
  /\ data' = [data EXCEPT ![cur] = SubSeq(@, 1, pending.bytes)]
  /\ pc' = "save"
  /\ UNCHANGED <<manifest, cur, pending, todo, crashes>>

-----------------------------------------------------------------------------
(* transfer.commit, and the WriteAtomic that ends each accepted call;      *)
(* transfer.status saves the manifest as it is.                            *)

AnyContent(k) == manifest[k].bytes = manifest[k].total
Verified(k) == /\ manifest[k].bytes = manifest[k].total
               /\ data[k] = manifest[k].sha256

Commit(k) ==
  /\ pc = "idle" /\ Live(k) /\ Verified(k)
  /\ Save(k, [manifest[k] EXCEPT !.committed = TRUE])
  /\ UNCHANGED <<files, todo, crashes>>

TransferStatus(k) ==
  /\ pc = "idle" /\ Live(k) /\ Save(k, manifest[k])
  /\ UNCHANGED <<files, todo, crashes>>

SaveManifest ==
  /\ pc = "save" /\ manifest' = [manifest EXCEPT ![cur] = pending]
  /\ Return /\ UNCHANGED <<data, todo, crashes>>

(* The process dies, or the manifest cannot be replaced.                   *)
Interrupt ==
  /\ pc # "idle" /\ crashes < MaxCrashes /\ crashes' = crashes + 1
  /\ Return /\ todo' = {} /\ UNCHANGED files

(* Resolve: the parameters a request with params_ref is given, or Nil for  *)
(* an error: not committed, or too large.                                  *)
Usable(k) ==
  Live(k) /\ manifest[k].committed /\ manifest[k].total <= ParamsBytes
Resolve(k) == IF Usable(k) THEN data[k] ELSE Nil

-----------------------------------------------------------------------------
(* Expire: for each manifest that is over, its data, then the manifest.    *)

Sweep ==
  /\ pc = "idle" /\ pc' = "sweep" /\ todo' = Known
  /\ UNCHANGED <<files, cur, pending, crashes>>

OnlyUnfinished(k) == manifest[k].left = 0 /\ ~manifest[k].committed
Expired(k) == manifest[k].left = 0

SweepOne ==
  /\ pc = "sweep"
  /\ \E k \in todo :
       /\ todo' = todo \ {k}
       /\ \/ ~Expired(k) /\ UNCHANGED <<data, pc, cur>>
          \/ /\ Expired(k) /\ data' = [data EXCEPT ![k] = Nil]
             /\ pc' = "unlink" /\ cur' = k
  /\ UNCHANGED <<manifest, pending, crashes>>

UnlinkManifest ==
  /\ pc = "unlink" /\ manifest' = [manifest EXCEPT ![cur] = Nil]
  /\ pc' = "sweep" /\ cur' = Nil
  /\ UNCHANGED <<data, pending, todo, crashes>>

SweepEnds ==
  /\ pc = "sweep" /\ todo = {} /\ pc' = "idle"
  /\ UNCHANGED <<files, cur, pending, todo, crashes>>

(* Time passes between calls: the expiry is read once, when a call starts. *)
Older(m) == [m EXCEPT !.left = @ - 1]
Tick ==
  /\ pc = "idle" /\ \E k \in Keys : Live(k)
  /\ manifest' = [k \in Keys |-> IF Live(k) THEN Older(manifest[k])
                                           ELSE manifest[k]]
  /\ UNCHANGED <<data, call, todo, crashes>>

-----------------------------------------------------------------------------
Handle ==
  \E k \in Keys :
    \/ \E b \in Begins : Begin(k, b)
    \/ \E c \in Chunks : WriteChunk(k, c) \/ WriteFails(k, c)
    \/ Commit(k) \/ TransferStatus(k)
Finish == Truncate \/ SaveManifest
Expire == Sweep \/ SweepOne \/ UnlinkManifest \/ SweepEnds

Next == Handle \/ Finish \/ Expire \/ Interrupt \/ Tick
Spec == Init /\ [][Next]_vars

(* The main thread finishes what it starts, and sweeps whenever the clock  *)
(* has moved, before it handles anything else; time passes.                *)
Fairness == /\ WF_vars(Finish) /\ SF_vars(Sweep) /\ SF_vars(Tick)
            /\ WF_vars(SweepOne \/ UnlinkManifest \/ SweepEnds)
FairSpec == Spec /\ Fairness

-----------------------------------------------------------------------------
(* What must hold.                                                         *)

(* A committed upload holds, for as long as the transfer lives, exactly    *)
(* the content that was declared when it began: the length and the digest  *)
(* are those of the manifest.  Resolve hands it to a request unless it is  *)
(* too large for one, and then nothing.                                    *)
ResolvedIsDeclared ==
  \A k \in Keys : Live(k) /\ manifest[k].committed =>
    /\ data[k] = manifest[k].sha256 /\ Len(data[k]) = manifest[k].total
    /\ Resolve(k) = IF Len(data[k]) <= ParamsBytes THEN manifest[k].sha256 ELSE Nil

(* The bytes a client was told have arrived are not changed by anything    *)
(* that happens later: a retry, another begin, a failed or an interrupted  *)
(* write, a restart.                                                       *)
Arrived(k) == SubSeq(data[k], 1, manifest[k].bytes)
ArrivedIsKept ==
  [][\A k \in Keys : Live(k) /\ manifest'[k] # Nil =>
       /\ manifest'[k].bytes >= manifest[k].bytes
       /\ data'[k] # Nil /\ Len(data'[k]) >= manifest[k].bytes
       /\ SubSeq(data'[k], 1, manifest[k].bytes) = Arrived(k)]_vars

(* The manifest never runs ahead of the data: the chunk it records as the  *)
(* last one is on disk, at its place, whatever an interrupted call had     *)
(* left there before.                                                      *)
LastIsStored ==
  \A k \in Keys : Live(k) =>
    /\ data[k] # Nil /\ Len(data[k]) >= manifest[k].bytes
    /\ LET last == manifest[k].last_hash IN
       SubSeq(data[k], manifest[k].bytes - Len(last) + 1, manifest[k].bytes)
         = last

(* Reservations stay within four for each session and the total.           *)
QuotaHeld ==
  /\ \A s \in Sids : Cardinality({k \in Known : k[1] = s}) <= PerSession
  /\ Cardinality(Reserved(Known)) <= Reservable

(* A transfer never occupies more of the disk than it has reserved, also   *)
(* after interrupted calls; data without a manifest, which no sweep will   *)
(* find, is empty.                                                         *)
DiskWithinReservation ==
  \A k \in Keys : data[k] # Nil =>
    Len(data[k]) <= IF manifest[k] = Nil THEN 0 ELSE manifest[k].total

(* Every reservation is given back in the end, renewed or committed or not.*)
Released == \A k \in Keys : manifest[k] # Nil ~> manifest[k] = Nil
=============================================================================
