----------------------------- MODULE MCRateLimit ------------------------------
(* Bounds for model checking RateLimit: see RateLimit.cfg.                 *)
EXTENDS RateLimit, TLC
CONSTANTS p1, p2, p3, ip, balancer, alice

Claims(read, sub, userId) == [read |-> read, sub |-> sub, userId |-> userId, id |-> Nobody]
Anonymous(p, kind) ==
    [proc |-> p, kind |-> kind, token |-> Claims("absent", Nobody, Nobody),
     peer |-> IF p = p2 THEN balancer ELSE ip, forwarded |-> IF p = p2 THEN ip ELSE Unforwarded]
As(p, token) ==
    [proc |-> p, kind |-> "authenticated", token |-> token, peer |-> ip,
     forwarded |-> Unforwarded]

(* Two processes that initialize share one address, which the second sees  *)
(* through a load balancer, and one user; a third never initializes.       *)
MCSends == {Anonymous(p1, "public"), Anonymous(p2, "public"), Anonymous(p1, "global"),
            As(p2, Claims("decoded", Nobody, alice)),
            As(p1, Claims("decoded", Nobody, Nobody)), Anonymous(p3, "public")}

MCPoints == [kind \in Kind |-> IF kind = "global" THEN 2 ELSE 1]
===============================================================================
