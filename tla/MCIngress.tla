----------------------------- MODULE MCIngress -----------------------------
(* Instances of Ingress for TLC: what agents publish in each run.            *)
EXTENDS Ingress

Request(s, r) == [type |-> "request", sch |-> s, replace |-> r]
Other(t) == [type |-> t]

OneSchedule == {"s"}
Everything == {Request("s", TRUE), Request("s", FALSE), Other("foreign"),
               Other("invalid"), Other("poison")}
NoCaution == Everything \ {Request("s", FALSE)}
Upserts == {Request("s", TRUE)}
Cautious == {Request("s", FALSE)}
=============================================================================
