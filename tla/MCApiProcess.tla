----------------------------- MODULE MCApiProcess -----------------------------
(* Bounds for model checking ApiProcess: see ApiProcess.cfg.               *)
EXTENDS ApiProcess, TLC
CONSTANTS r1, r2, extra

(* A request of every shape, beside one that holds the drain up.           *)
MCRequest == {r1, r2}
MCSends ==
    r1 :> {<<"delete", "good">>, <<"removeScheduler", "good">>,
           <<"update", "invalid">>, <<"create", "malformed">>, <<"unknownPost", "good">>,
           <<"healthcheck", "good">>, <<"readyz", "good">>}
    @@ r2 :> {<<"show", "good">>}

(* One short request: enough to see a shutdown.                            *)
MCShow == r1 :> {<<"show", "good">>}

MCVisitors == {<<"item.deleted", extra>>}
===============================================================================
