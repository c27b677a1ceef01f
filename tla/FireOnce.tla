------------------------------ MODULE FireOnce ------------------------------
(* What the dedupe guard of tasks.py promises the consumers of a stream, for *)
(* each key (unit, producer, minute): one claim, at most one guarded publish.*)
(* There is no second chance: a key whose claimant crashed or failed stays   *)
(* closed.  FirePath implements this specification (FirePath!FiresOnce).     *)
CONSTANT Keys

VARIABLE phase  \* key -> how far its fire has got

Init == phase = [k \in Keys |-> "free"]

Move(k, from, to) == phase[k] = from /\ phase' = [phase EXCEPT ![k] = to]

Claim(k) == Move(k, "free", "claimed")

Publish(k) == Move(k, "claimed", "published")

(* The key was set but its setter never learnt it won: it fails open, and    *)
(* publishes without the guard.                                              *)
Forfeit(k) == Move(k, "free", "closed")

Claimed == {k \in Keys : phase[k] = "claimed"}

(* The claimants of some keys fail, or the process crashes.                  *)
Drop(S) ==
  /\ S # {}
  /\ phase' = [k \in Keys |-> IF k \in S THEN "closed" ELSE phase[k]]

Next ==
  \/ \E k \in Keys : Claim(k) \/ Publish(k) \/ Forfeit(k)
  \/ \E S \in SUBSET Claimed : Drop(S)

Spec == Init /\ [][Next]_phase
=============================================================================
