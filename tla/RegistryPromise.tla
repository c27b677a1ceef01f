--------------------------- MODULE RegistryPromise ---------------------------
(* What a user of the schedules and bindings API may expect of the registry.  *)
(* A request that overlaps no other takes effect at once, on what is there    *)
(* and as it asks, or is refused for the reason the API names, or a call it   *)
(* makes raises.  Requests that overlap may do to the schedules they contest  *)
(* anything, and to no other; when nobody has a request left all is as new.   *)
EXTENDS Naturals

CONSTANTS Clients, Schedules, Bindings, Triggers, Data, Absent, Keep, Bad, Requests, NoRequest

VARIABLES
  schedules,  \* schedule id -> Schedule or Absent
  bindings,   \* binding id -> Binding or Absent
  asked,      \* client -> its request, or NoRequest
  contested,  \* the schedules on which requests have overlapped
  faults      \* how many calls have raised

vars == <<schedules, bindings, asked, contested, faults>>

Schedule == [paused : BOOLEAN, trig : Triggers]
Binding == [sch : Schedules, data : Data]

TypeOK ==
  /\ schedules \in [Schedules -> Schedule \cup {Absent}]
  /\ bindings \in [Bindings -> Binding \cup {Absent}]

Init ==
  /\ schedules = [s \in Schedules |-> Absent] /\ bindings = [b \in Bindings |-> Absent]
  /\ asked = [c \in Clients |-> NoRequest] /\ contested = {} /\ faults = 0

Of(s) == {b \in Bindings : bindings[b] # Absent /\ bindings[b].sch = s}
Named(r) == IF "bnd" \in DOMAIN r THEN {r.bnd} ELSE {}
Touched(r) == {r.sch} \cup {bindings[b].sch : b \in {x \in Named(r) : bindings[x] # Absent}}

Asks(c, ops) == asked[c].op \in ops
Over(c) == asked' = [asked EXCEPT ![c] = NoRequest]
HalfOver(c) == asked' = [asked EXCEPT ![c].op = "attach"]  \* the binding is to come

-----------------------------------------------------------------------------
Meets(r, q) ==
  Touched(r) \cap Touched(q) # {} \/ Named(r) \cap Named(q) # {} \/ Touched(q) \subseteq contested

(* A request arrives, alone or beside others.  What it touches and those it   *)
(* meets touch may be contested from then on; a delete among them may already *)
(* have dropped bindings.                                                    *)
Ask(c, r) ==
  /\ asked[c] = NoRequest /\ r \in Requests /\ asked' = [asked EXCEPT ![c] = r]
  /\ LET with == {asked[d] : d \in {x \in Clients : asked[x] # NoRequest /\ Meets(r, asked[x])}} IN
     contested' \subseteq contested \cup IF with = {} THEN {} ELSE UNION {Touched(q) : q \in with \cup {r}}
  /\ IF \A d \in Clients : asked[d] = NoRequest THEN contested' = {} ELSE contested \subseteq contested'
  /\ \A b \in Bindings : \/ bindings'[b] = bindings[b]
                         \/ bindings'[b] = Absent /\ bindings[b].sch \in contested' \ contested
  /\ TypeOK' /\ UNCHANGED <<schedules, faults>>

Register(c) ==  \* create, or the bus' upsert, which has its binding to add
  /\ Asks(c, {"create", "bus", "busNew"})
  /\ Asks(c, {"bus"}) \/ schedules[asked[c].sch] = Absent
  /\ schedules' = [schedules EXCEPT ![asked[c].sch] = asked[c].new]
  /\ IF Asks(c, {"create"}) THEN Over(c) ELSE HalfOver(c)
  /\ UNCHANGED bindings

Changed(r, v) ==
  CASE r.op = "update" -> IF r.trig = Keep THEN v ELSE [v EXCEPT !.trig = r.trig]
    [] OTHER -> [v EXCEPT !.paused = (r.op = "pause")]

Change(c) ==
  /\ Asks(c, {"update", "pause", "resume"}) /\ schedules[asked[c].sch] # Absent
  /\ Asks(c, {"update"}) => asked[c].trig # Bad
  /\ schedules' = [schedules EXCEPT ![asked[c].sch] = Changed(asked[c], @)]
  /\ Over(c) /\ UNCHANGED bindings

Drop(S) == bindings' = [b \in Bindings |-> IF b \in S THEN Absent ELSE bindings[b]]

Cancel(c) ==  \* the schedule goes, and all of its bindings
  /\ Asks(c, {"delete"}) /\ schedules[asked[c].sch] # Absent
  /\ schedules' = [schedules EXCEPT ![asked[c].sch] = Absent]
  /\ Drop(Of(asked[c].sch)) /\ Over(c)

Attach(c) ==  \* to a schedule that exists
  /\ Asks(c, {"createBinding", "attach"}) /\ schedules[asked[c].sch] # Absent
  /\ Asks(c, {"attach"}) \/ bindings[asked[c].bnd] = Absent
  /\ bindings' = [bindings EXCEPT ![asked[c].bnd] = [sch |-> asked[c].sch, data |-> asked[c].data]]
  /\ Over(c) /\ UNCHANGED schedules

Bound(r) == bindings[r.bnd] # Absent /\ bindings[r.bnd].sch = r.sch

Rewrite(c) ==
  /\ Asks(c, {"updateBinding"}) /\ Bound(asked[c])
  /\ bindings' = IF asked[c].data = Keep THEN bindings
                 ELSE [bindings EXCEPT ![asked[c].bnd].data = asked[c].data]
  /\ Over(c) /\ UNCHANGED schedules

Detach(c) ==
  /\ Asks(c, {"deleteBinding"}) /\ Bound(asked[c])
  /\ bindings' = [bindings EXCEPT ![asked[c].bnd] = Absent]
  /\ Over(c) /\ UNCHANGED schedules

-----------------------------------------------------------------------------
Refuse(c) ==  \* 404, 409, 422, or the bus' request for what is there already
  /\ \/ Asks(c, {"create", "busNew"}) /\ schedules[asked[c].sch] # Absent
     \/ Asks(c, {"update", "pause", "resume", "delete", "createBinding"})
        /\ schedules[asked[c].sch] = Absent
     \/ Asks(c, {"update"}) /\ asked[c].trig = Bad
     \/ Asks(c, {"createBinding"}) /\ bindings[asked[c].bnd] # Absent
     \/ Asks(c, {"updateBinding", "deleteBinding"}) /\ ~Bound(asked[c])
  /\ Over(c) /\ UNCHANGED <<schedules, bindings>>

Fault(c) ==  \* a delete may then have lost some of the bindings, and no more
  /\ asked[c] # NoRequest /\ faults' = faults + 1 /\ Over(c)
  /\ UNCHANGED <<schedules, contested>>
  /\ \/ UNCHANGED bindings
     \/ Asks(c, {"delete"}) /\ \E S \in SUBSET Of(asked[c].sch) : Drop(S)

(* A contested request may read what another is about to overwrite.          *)
Clash(c) ==
  /\ asked[c] # NoRequest /\ Touched(asked[c]) \subseteq contested
  /\ asked' = asked \/ Over(c) \/ (Asks(c, {"bus", "busNew"}) /\ HalfOver(c))
  /\ \A s \in Schedules : schedules'[s] # schedules[s] => s \in contested
  /\ \A b \in Bindings : bindings'[b] # bindings[b] =>
       \A x \in {bindings[b], bindings'[b]} \ {Absent} : x.sch \in contested
  /\ TypeOK'

Carry(c) ==
  \/ Register(c) \/ Change(c) \/ Cancel(c) \/ Attach(c) \/ Rewrite(c) \/ Detach(c)
  \/ Refuse(c) \/ Clash(c)

Next == \E c \in Clients :
  \/ Ask(c, asked'[c])
  \/ UNCHANGED <<contested, faults>> /\ Carry(c)
  \/ Fault(c)

Spec == Init /\ [][Next]_vars
=============================================================================
