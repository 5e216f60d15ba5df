----------------------------- MODULE MCGateway -----------------------------
(* Small instances of Gateway for TLC: the messages clients may send.      *)
EXTENDS GatewayRefinement, TLC

CONSTANTS i1, i2

Msg(i, m, a) == [id |-> i, method |-> m, arg |-> a]

(* A call, the same identifier with another body, a second call that does  *)
(* not fit the quota, a replay of the first call.                          *)
Duplicates == {Msg(i1, "backend", Nil), Msg(i1, "backend", i1),
               Msg(i2, "backend", Nil), Msg(i2, "replay", i1)}

(* The same without the conflict: a call, one over quota, a replay.        *)
Progress == Duplicates \ {Msg(i1, "backend", i1)}

(* Calls that meet the end of a lease: a call of VPP and a renewal.        *)
Renewals == {Msg(i1, "backend", Nil), Msg(i2, "renew", Nil)}

(* Every other kind of entry: upload chunks, malformed text, a replay      *)
(* without its parameter, methods the gateway answers itself.              *)
Others == {Msg(i1, "backend", Nil), Msg(i2, "local", Nil),
           Msg(i2, "catalog", Nil), Msg(i2, "replay", Nil), Msg(i1, "chunk", Nil),
           Msg(i1, "invalid", Nil)}

(* Calls of VPP only.                                                      *)
Calls == {Msg(i1, "backend", Nil), Msg(i2, "backend", Nil)}

(* How often the process may be killed, be stopped, miss a Redis reply or  *)
(* lose a response file.                                                   *)
Failing(c, s, f, l) ==
  [x \in Failures |-> CASE x = "crash" -> c [] x = "stop" -> s
                        [] x = "fault" -> f [] OTHER -> l]
OneCrash == Failing(1, 0, 0, 0)
TwoCrashes == Failing(2, 0, 0, 0)
CrashAndFault == Failing(1, 0, 1, 0)
StopAndLoss == Failing(0, 1, 0, 1)
CrashAndLoss == Failing(1, 0, 0, 1)

(* Sessions are interchangeable: no message and no bound names one.        *)
SessionSymmetry == Permutations(Sids)
=============================================================================
