--------------------------- MODULE RequestLedger ---------------------------
(***************************************************************************)
(* What the gateway promises about requests, whatever happens inside it: a *)
(* request is accepted at most once, runs alone, is handed to VPP only     *)
(* while it runs, and gets one verdict that never becomes better than it   *)
(* was.  Nothing of Redis, the journal, the spool, the worker, crashes or  *)
(* recovery is visible.                                                    *)
(***************************************************************************)
EXTENDS Integers

CONSTANTS Sids, Ids

Keys == Sids \X Ids

VARIABLES
  phase,      \* phase[k]: the life of request k
  asked,      \* what it asks for: a call of VPP, or something else
  pending,    \* the requests that VPP has been handed and may yet carry out
  executed,   \* how often VPP has carried it out
  told        \* the verdict the client can read

vars == <<phase, asked, pending, executed, told>>

Verdicts == {"result", "error", "unknown"}
TypeOK ==
  /\ phase \in [Keys -> {"new", "queued", "running", "done", "gone"}]
  /\ asked \in [Keys -> {"nothing", "call", "other"}]
  /\ pending \subseteq Keys /\ executed \in [Keys -> Nat]
  /\ told \in [Keys -> Verdicts \cup {"nothing"}]

Init ==
  /\ phase = [k \in Keys |-> "new"] /\ asked = [k \in Keys |-> "nothing"]
  /\ pending = {} /\ executed = [k \in Keys |-> 0]
  /\ told = [k \in Keys |-> "nothing"]

(* A request enters the journal.                                           *)
Admit(k) ==
  /\ phase[k] = "new" /\ phase' = [phase EXCEPT ![k] = "queued"]
  /\ \E a \in {"call", "other"} : asked' = [asked EXCEPT ![k] = a]
  /\ UNCHANGED <<pending, executed, told>>

Start(k) ==
  /\ phase[k] = "queued" /\ \A j \in Keys : phase[j] # "running"
  /\ phase' = [phase EXCEPT ![k] = "running"]
  /\ UNCHANGED <<asked, pending, executed, told>>

(* A call that runs is handed to VPP.                                      *)
Send(k) ==
  /\ phase[k] = "running" /\ asked[k] = "call" /\ executed[k] = 0
  /\ k \notin pending /\ pending' = pending \cup {k}
  /\ UNCHANGED <<phase, asked, executed, told>>

(* VPP carries it out, perhaps long after the gateway gave up on it or     *)
(* forgot it, or does not.                                                 *)
Execute(k) ==
  /\ k \in pending /\ pending' = pending \ {k}
  /\ executed' = [executed EXCEPT ![k] = @ + 1] /\ UNCHANGED <<phase, asked, told>>
Refuse(k) ==
  /\ k \in pending /\ pending' = pending \ {k}
  /\ UNCHANGED <<phase, asked, executed, told>>

(* The verdict.                                                            *)
Finish(k, v) ==
  /\ phase[k] = "running" /\ phase' = [phase EXCEPT ![k] = "done"]
  /\ v = "result" /\ asked[k] = "call" => executed[k] = 1
  /\ told' = [told EXCEPT ![k] = v] /\ UNCHANGED <<asked, pending, executed>>

(* A retained verdict is lost, and only ever known as unknown again.       *)
Lose(k) ==
  /\ phase[k] = "done" /\ told' = [told EXCEPT ![k] = "unknown"]
  /\ UNCHANGED <<phase, asked, pending, executed>>

(* The session of s ends; none of its requests is under way.               *)
Expire(s) ==
  LET Of(f, v) == [k \in Keys |-> IF k[1] = s THEN v ELSE f[k]] IN
  /\ \A k \in Keys : k[1] = s => phase[k] # "running"
  /\ phase' = Of(phase, "gone") /\ asked' = Of(asked, "nothing")
  /\ told' = Of(told, "nothing") /\ UNCHANGED <<pending, executed>>

Next ==
  \/ \E k \in Keys : \/ Admit(k) \/ Start(k) \/ Send(k)
                     \/ Execute(k) \/ Refuse(k) \/ Lose(k)
                     \/ \E v \in Verdicts : Finish(k, v)
  \/ \E s \in Sids : Expire(s)
Spec == Init /\ [][Next]_vars

-----------------------------------------------------------------------------
(* What a client may rely on at any time: at most one request runs; VPP    *)
(* carries out only calls, each at most once and none that still waits; a  *)
(* call whose result is told was carried out and is no longer with VPP;    *)
(* and there is a verdict exactly for what is done.                        *)
Promises ==
  /\ \A j, k \in Keys : phase[j] = "running" /\ phase[k] = "running" => j = k
  /\ \A k \in Keys :
       /\ executed[k] <= 1
       /\ k \in pending \/ executed[k] > 0 =>
            phase[k] \in {"running", "done", "gone"} /\ asked[k] # "other"
       /\ k \in pending => executed[k] = 0
       /\ told[k] = "result" /\ asked[k] = "call" => executed[k] = 1
       /\ told[k] # "nothing" <=> phase[k] = "done"

(* How a request lives: it goes through its phases in order, is never run  *)
(* again, and never comes back once it is gone; what it asks for stays; a  *)
(* verdict only ever becomes unknown.                                      *)
Later == [new |-> {"queued", "gone"}, queued |-> {"running", "gone"},
          running |-> {"done"}, done |-> {"gone"}, gone |-> {}]
Life ==
  \A k \in Keys :
    /\ phase'[k] \in Later[phase[k]] \cup {phase[k]}
    /\ phase[k] \notin {"new", "gone"} /\ phase'[k] # "gone" => asked'[k] = asked[k]
    /\ phase[k] = "done" /\ phase'[k] = "done" => told'[k] \in {told[k], "unknown"}
    /\ executed'[k] # executed[k] => k \in pending
    /\ k \in pending' \ pending => phase[k] = "running" /\ executed[k] = 0
Lives == [][Life]_vars
=============================================================================
