----------------------------- MODULE RegistryApi -----------------------------
(* The handlers that write schedules and bindings: the admin API's routes    *)
(* (api.py) and the bus' upsert (ingress.py handle_request), interleaved at  *)
(* every awaited registry command (registry.py), any of which may fail.      *)
(*                                                                           *)
(* A handler reads, decides and writes back what it read; a Redis command is *)
(* atomic, a handler is not, and nothing keeps two of them apart.  What is    *)
(* promised all the same, of the requests that happen to overlap no other and *)
(* of the schedules no overlapping ones touch, is RegistryPromise.            *)
EXTENDS FiniteSets, Naturals

CONSTANTS
  Clients,              \* handlers that may run at once
  Schedules, Bindings,  \* ids
  Triggers, Data,       \* what a schedule, a binding carries
  Absent,               \* no such field in the hash
  Keep, Bad,            \* in a PATCH: not given; not acceptable (422)
  Asked,                \* the requests that arrive, a set of Requests
  MaxFailures           \* bound

VARIABLES
  schedules,  \* the schedules hash
  bindings,   \* the bindings hash
  h,          \* the running handlers
  raced,      \* history: schedules a delete of which overlapped another request
  met,        \* history: schedules of overlapping requests, since all was quiet
  failures    \* history: calls that raised

vars == <<schedules, bindings, h, raced, met, failures>>

-----------------------------------------------------------------------------
Schedule == [paused : BOOLEAN, trig : Triggers]
Binding == [sch : Schedules, data : Data]

(* A request names its operation and a schedule, and what else it needs.  The *)
(* bus' requests are bus, which replaces, and busNew, which does not.        *)
Requests ==
  [op : {"pause", "resume", "delete"}, sch : Schedules]
  \cup [op : {"create"}, sch : Schedules, new : Schedule]
  \cup [op : {"update"}, sch : Schedules, trig : Triggers \cup {Keep, Bad}]
  \cup [op : {"bus", "busNew"}, sch : Schedules, new : Schedule, bnd : Bindings, data : Data]
  \cup [op : {"createBinding"}, sch : Schedules, bnd : Bindings, data : Data]
  \cup [op : {"updateBinding"}, sch : Schedules, bnd : Bindings, data : Data \cup {Keep}]
  \cup [op : {"deleteBinding"}, sch : Schedules, bnd : Bindings]

ASSUME ConstantsAssumption ==
  /\ Asked \subseteq Requests /\ MaxFailures \in Nat
  /\ Absent \notin [paused : BOOLEAN, trig : Triggers] \cup [sch : Schedules, data : Data]
  /\ {Keep, Bad} \cap (Triggers \cup Data) = {} /\ Keep # Bad

NoRequest == [op |-> "none"]
Idle == [pc |-> "idle", req |-> NoRequest, copy |-> Absent, listed |-> <<>>,
         todo |-> {}]
Req(c) == h[c].req
Busy == {c \in Clients : h[c].pc # "idle"}
At(c, pc, ops) == h[c].pc = pc /\ Req(c).op \in ops

BindingsFor(s) == {b \in Bindings : bindings[b] # Absent /\ bindings[b].sch = s}

(* What a request touches: its schedule and its binding, with the schedule   *)
(* that binding is on; a delete also the bindings it has listed.             *)
Names(r) == IF "bnd" \in DOMAIN r THEN {r.bnd} ELSE {}
Touches(r) == {r.sch} \cup {bindings[b].sch : b \in {x \in Names(r) : bindings[x] # Absent}}
Overlaps(r, c) ==
  \/ Touches(r) \cap Touches(Req(c)) # {}
  \/ Names(r) \cap (Names(Req(c)) \cup DOMAIN h[c].listed) # {}

Goto(c, pc) == h' = [h EXCEPT ![c].pc = pc]
Answer(c) == h' = [h EXCEPT ![c] = Idle]

Init ==
  /\ schedules = [s \in Schedules |-> Absent] /\ bindings = [b \in Bindings |-> Absent]
  /\ h = [c \in Clients |-> Idle]
  /\ raced = {} /\ met = {} /\ failures = 0

-----------------------------------------------------------------------------
(* A request arrives; the bus' upsert with replace begins with its put.      *)
Begin(c, r) ==
  /\ h[c].pc = "idle"
  /\ h' = [h EXCEPT ![c] = [Idle EXCEPT !.pc = IF r.op = "bus" THEN "put" ELSE "check",
                                        !.req = r]]
  /\ LET with == {Req(d) : d \in {x \in Busy : Overlaps(r, x)}}
         theirs == IF with = {} THEN {} ELSE UNION {Touches(q) : q \in with \cup {r}} IN
     /\ raced' = raced \cup (IF \E q \in with \cup {r} : q.op = "delete" THEN theirs ELSE {})
     /\ met' = IF Busy = {} THEN {} ELSE met \cup theirs
  /\ UNCHANGED <<schedules, bindings, failures>>

(* A call raises: 500, and no later step of the handler happens.             *)
Fail(c) ==
  /\ h[c].pc # "idle" /\ failures < MaxFailures
  /\ failures' = failures + 1 /\ Answer(c)
  /\ UNCHANGED <<schedules, bindings, raced, met>>

(* schedule_exists, before a create: 409, or for the bus left as it is.      *)
CheckNew(c) ==
  /\ At(c, "check", {"create", "busNew"})
  /\ IF schedules[Req(c).sch] # Absent THEN Answer(c) ELSE Goto(c, "put")
  /\ UNCHANGED <<schedules, bindings, raced, met, failures>>

(* Mutant: a default schedule for _schedule_or_404.                          *)
GetOrDefault(c) ==
  /\ At(c, "check", {"update", "pause", "resume", "delete", "createBinding"})
  /\ LET r == Req(c)
         dflt == [paused |-> FALSE, trig |-> CHOOSE t \in Triggers : TRUE] IN
     h' = [h EXCEPT ![c].copy = IF schedules[r.sch] = Absent THEN dflt ELSE schedules[r.sch],
                    ![c].pc = CASE r.op = "delete" -> "list"
                                [] r.op = "createBinding" -> "exists"
                                [] OTHER -> "put"]
  /\ UNCHANGED <<schedules, bindings, raced, met, failures>>

(* _schedule_or_404; an update then checks its trigger (422).                *)
GetSchedule(c) ==
  /\ At(c, "check", {"update", "pause", "resume", "delete", "createBinding"})
  /\ LET r == Req(c) IN
     IF schedules[r.sch] = Absent \/ (r.op = "update" /\ r.trig = Bad) THEN Answer(c)
     ELSE h' = [h EXCEPT ![c].copy = schedules[r.sch],
                         ![c].pc = CASE r.op = "delete" -> "list"
                                     [] r.op = "createBinding" -> "exists"
                                     [] OTHER -> "put"]
  /\ UNCHANGED <<schedules, bindings, raced, met, failures>>

NewSchedule(r, copy) ==
  CASE r.op \in {"create", "bus", "busNew"} -> r.new
    [] r.op = "update" -> IF r.trig = Keep THEN copy ELSE [copy EXCEPT !.trig = r.trig]
    [] r.op = "pause" -> [copy EXCEPT !.paused = TRUE]
    [] r.op = "resume" -> [copy EXCEPT !.paused = FALSE]

PutSchedule(c) ==
  /\ At(c, "put", {"create", "update", "pause", "resume", "bus", "busNew"})
  /\ schedules' = [schedules EXCEPT ![Req(c).sch] = NewSchedule(Req(c), h[c].copy)]
  /\ IF Req(c).op \in {"bus", "busNew"} THEN Goto(c, "bind") ELSE Answer(c)
  /\ UNCHANGED <<bindings, raced, met, failures>>

(* Mutant: list_bindings for bindings_for.                                   *)
ListAll(c) ==
  /\ At(c, "list", {"delete"})
  /\ LET S == {b \in Bindings : bindings[b] # Absent} IN
     h' = [h EXCEPT ![c].listed = [b \in S |-> bindings[b]],
                    ![c].todo = S, ![c].pc = IF S = {} THEN "last" ELSE "cascade"]
  /\ UNCHANGED <<schedules, bindings, raced, met, failures>>

(* delete_schedule: list the bindings, drop each, drop the schedule.         *)
ListBindings(c) ==
  /\ At(c, "list", {"delete"})
  /\ LET S == BindingsFor(Req(c).sch) IN
     h' = [h EXCEPT ![c].listed = [b \in S |-> bindings[b]],
                    ![c].todo = S, ![c].pc = IF S = {} THEN "last" ELSE "cascade"]
  /\ UNCHANGED <<schedules, bindings, raced, met, failures>>

(* Mutant: the last binding does not end the loop.                           *)
CascadeOn(c, b) ==
  /\ At(c, "cascade", {"delete"}) /\ b \in h[c].todo
  /\ bindings' = [bindings EXCEPT ![b] = Absent]
  /\ h' = [h EXCEPT ![c].todo = @ \ {b}]
  /\ UNCHANGED <<schedules, raced, met, failures>>

(* Mutant: the schedule is deleted after the first binding.                  *)
CascadeOnce(c, b) ==
  /\ At(c, "cascade", {"delete"}) /\ b \in h[c].todo
  /\ bindings' = [bindings EXCEPT ![b] = Absent]
  /\ h' = [h EXCEPT ![c].todo = {}, ![c].pc = "last"]
  /\ UNCHANGED <<schedules, raced, met, failures>>

Cascade(c, b) ==
  /\ At(c, "cascade", {"delete"}) /\ b \in h[c].todo
  /\ bindings' = [bindings EXCEPT ![b] = Absent]
  /\ h' = [h EXCEPT ![c].todo = @ \ {b},
                    ![c].pc = IF h[c].todo = {b} THEN "last" ELSE "cascade"]
  /\ UNCHANGED <<schedules, raced, met, failures>>

DeleteSchedule(c) ==
  /\ At(c, "last", {"delete"})
  /\ schedules' = [schedules EXCEPT ![Req(c).sch] = Absent] /\ Answer(c)
  /\ UNCHANGED <<bindings, raced, met, failures>>

-----------------------------------------------------------------------------
CheckNewBinding(c) ==  \* binding_exists: 409
  /\ At(c, "exists", {"createBinding"})
  /\ IF bindings[Req(c).bnd] # Absent THEN Answer(c) ELSE Goto(c, "bind")
  /\ UNCHANGED <<schedules, bindings, raced, met, failures>>

GetBinding(c) ==  \* _binding_or_404
  /\ At(c, "check", {"updateBinding", "deleteBinding"})
  /\ LET b == bindings[Req(c).bnd] IN
     IF b = Absent \/ b.sch # Req(c).sch THEN Answer(c)
     ELSE h' = [h EXCEPT ![c].copy = b, ![c].pc = "bind"]
  /\ UNCHANGED <<schedules, bindings, raced, met, failures>>

NewBinding(r, copy) ==
  IF r.op = "updateBinding" /\ r.data = Keep THEN copy
  ELSE [sch |-> r.sch, data |-> r.data]

PutBinding(c) ==
  /\ At(c, "bind", {"createBinding", "updateBinding", "bus", "busNew"})
  /\ bindings' = [bindings EXCEPT ![Req(c).bnd] = NewBinding(Req(c), h[c].copy)]
  /\ Answer(c)
  /\ UNCHANGED <<schedules, raced, met, failures>>

DeleteBinding(c) ==
  /\ At(c, "bind", {"deleteBinding"})
  /\ bindings' = [bindings EXCEPT ![Req(c).bnd] = Absent] /\ Answer(c)
  /\ UNCHANGED <<schedules, raced, met, failures>>

Step(c) ==
  \/ CheckNew(c) \/ GetSchedule(c) \/ PutSchedule(c) \/ ListBindings(c)
  \/ \E b \in Bindings : Cascade(c, b)
  \/ DeleteSchedule(c) \/ CheckNewBinding(c) \/ GetBinding(c) \/ PutBinding(c)
  \/ DeleteBinding(c)

Next == \E c \in Clients : Step(c) \/ Fail(c) \/ \E r \in Asked : Begin(c, r)

Spec == Init /\ [][Next]_vars

-----------------------------------------------------------------------------
Pcs == {"idle", "check", "list", "cascade", "last", "exists", "put", "bind"}

TypeOK ==
  /\ schedules \in [Schedules -> Schedule \cup {Absent}]
  /\ bindings \in [Bindings -> Binding \cup {Absent}]
  /\ \A c \in Clients :
       /\ h[c].pc \in Pcs /\ h[c].req \in Asked \cup {NoRequest}
       /\ (h[c].pc = "idle") = (h[c].req = NoRequest)
       /\ h[c].copy \in Schedule \cup Binding \cup {Absent}
       /\ h[c].todo \subseteq DOMAIN h[c].listed
       /\ DOMAIN h[c].listed \subseteq Bindings
       /\ (h[c].pc = "cascade") = (h[c].todo # {})
  /\ raced \subseteq Schedules /\ met \subseteq Schedules /\ failures \in Nat

Orphan(b) == bindings[b] # Absent /\ schedules[bindings[b].sch] = Absent

(* Only a delete that overlaps another request for the same schedule can     *)
(* orphan a binding: no failure in mid-cascade, no move of a binding by the  *)
(* bus, no other overlap of handlers does.                                   *)
OnlyRacesOrphan == \A b \in Bindings : Orphan(b) => bindings[b].sch \in raced

(* Only such a delete can be undone by a pause, resume or update that writes *)
(* back the schedule it had read.                                            *)
OnlyRacesRevive ==
  [][\A c \in Clients :
       At(c, "put", {"update", "pause", "resume"}) /\ schedules' # schedules
         /\ h'[c].pc = "idle" /\ schedules[Req(c).sch] = Absent
       => Req(c).sch \in raced]_vars

(* What the API's handlers keep of RegistryPromise: all of it.  A delete that *)
(* no request overlaps has, to everyone else, not begun until it ends.       *)
Hidden(c) == {b \in DOMAIN h[c].listed \ h[c].todo : Req(c).sch \notin met}
Shown == [b \in Bindings |->
  IF \E c \in Clients : b \in Hidden(c)
  THEN h[CHOOSE c \in Clients : b \in Hidden(c)].listed[b] ELSE bindings[b]]

(* The bus' upsert has its binding still to put.                             *)
Pending == [c \in Clients |->
  IF At(c, "bind", {"bus", "busNew"}) THEN [Req(c) EXCEPT !.op = "attach"] ELSE Req(c)]

Promise == INSTANCE RegistryPromise
  WITH bindings <- Shown, asked <- Pending, contested <- met, faults <- failures
KeepsPromise == Promise!Spec
=============================================================================
