------------------------- MODULE GatewayRefinement -------------------------
(* Gateway implements RequestLedger.                                       *)
EXTENDS Gateway

(* Where the journal has no row, the request is new for as long as its     *)
(* session may still be handed out or has a row.                           *)
LedgerPhase ==
  [k \in Keys |->
     IF state[k] # "none" THEN state[k]
     ELSE IF k[1] \in sessions \/ lease[k[1]] = 0 THEN "new" ELSE "gone"]
LedgerAsked ==
  [k \in Keys |-> IF state[k] = "none" THEN "nothing"
                  ELSE IF body[k].method = "backend" THEN "call" ELSE "other"]

(* The verdict is what the retained file says; of a response whose file is *)
(* gone, or was emptied by a recovery that died, nothing is known.         *)
LedgerTold ==
  [k \in Keys |-> IF state[k] # "done" THEN "nothing"
                  ELSE IF file[k].out \in {"absent", "partial"} THEN "unknown"
                  ELSE file[k].out]

Ledger == INSTANCE RequestLedger WITH
            phase <- LedgerPhase, asked <- LedgerAsked,
            pending <- inflight, executed <- effects, told <- LedgerTold

(* Every step of the main thread, the worker, VPP, recovery, cleanup, a    *)
(* crash or a lost file is one of the few things the ledger allows to      *)
(* happen to a request, or changes nothing a client can tell.              *)
LedgerSpec == Ledger!Spec

(* The session of k was handed out and has no row any more.                *)
Gone(k) == k[1] \notin sessions /\ lease[k[1]] # 0

(* What the ledger says of the journal: a row goes from queued to running  *)
(* to done, whatever crashes and recoveries lie between; it disappears     *)
(* only with its session, never while it runs, and never returns; VPP is   *)
(* handed a request only while its row is running and it had no effect,    *)
(* and acts only on what it was handed.                                    *)
RowLife ==
  \A k \in Keys :
    /\ state'[k] # state[k] =>
         \/ <<state[k], state'[k]>> \in {<<"none", "queued">>, <<"queued", "running">>,
                                        <<"running", "done">>}
         \/ state[k] \in {"queued", "done"} /\ state'[k] = "none" /\ Gone(k)'
    /\ Gone(k) => Gone(k)'
    /\ k \in inflight' \ inflight => state[k] = "running" /\ effects[k] = 0
    /\ effects'[k] # effects[k] => k \in inflight
RowsLive == [][RowLife]_vars
=============================================================================
