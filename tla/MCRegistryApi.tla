--------------------------- MODULE MCRegistryApi ---------------------------
(* The instance of RegistryApi for TLC: which requests arrive.               *)
EXTENDS RegistryApi, TLC

\* New schedules are not paused; with one trigger and one datum a PATCH that
\* leaves them as they are writes what one that gives them does.
Contended == {r \in Requests :
  /\ r.op \in {"create", "bus", "busNew"} => ~r.new.paused
  /\ r.op = "update" => r.trig # Keep
  /\ r.op = "updateBinding" => r.data # Keep}

\* Requests, handlers and hashes treat all ids alike.
Alike == Permutations(Clients) \cup Permutations(Schedules) \cup Permutations(Bindings)
=============================================================================
