--------------------------- MODULE JobFacadeProofs ---------------------------
(* What holds of JobFacade for any units, any number of clients with any      *)
(* requests and of failing calls.                                             *)
EXTENDS JobFacade, TLAPS

(* Whatever a hash, a poll or a handler holds of a unit is well formed.      *)
Good(u) == u = Absent \/ (u \in Unit /\ Valid(u.type, u.args))
GoodHash(f) == f \in [Ids -> Unit \cup {Absent}] /\ \A i \in Ids : Good(f[i])
ShapeOK ==
  /\ TypeOK /\ GoodHash(snap)
  /\ \A c \in Clients : h[c].req \in Asked[c] \cup {NoRequest} /\ GoodHash(h[c].copy)

(* Which requests come to which step, and what they hold there.              *)
Changes == {"update", "pause", "resume"}
OpsAt ==
  [idle |-> {"none"}, exists |-> {"create"}, get |-> Changes \cup {"delete"},
   put |-> {"create"} \cup Changes, del |-> {"delete"}, list |-> {"migrate"},
   schedule |-> {"migrate"}, bind |-> {"migrate"}, drop |-> {"migrate"}]

HandlerOK(c) ==
  /\ Req(c).op \in OpsAt[h[c].pc]
  /\ Req(c).op = "create" => Valid(Req(c).new.type, Req(c).new.args)
  /\ At(c, "put", Changes) => h[c].copy[Req(c).id] # Absent /\ ~Refused(Req(c))
  /\ h[c].pc \notin {"schedule", "bind", "drop"} => h[c].todo = {}
  /\ h[c].pc \notin {"bind", "drop"} => h[c].cur = {}
  /\ h[c].pc \in {"bind", "drop"} => \E i \in Ids \ h[c].todo : h[c].cur = {i}
  /\ \A i \in h[c].todo \cup h[c].cur : h[c].copy[i] # Absent
HandlersOK == \A c \in Clients : HandlerOK(c)

(* What a poll has read of a unit that has stayed where it was.              *)
PollOK ==
  phase = "jobs" =>
    \A i \in Ids : steady[i] # Moved =>
      /\ steady[i] = Standing(i)
      /\ schedules[i] = Absent <=> snap[i] = Absent
      /\ snap[i] # Absent => steady[i][2] = ~snap[i].paused

(* Two handlers that touch a unit have it excused; what a handler has read   *)
(* of any other is so.                                                       *)
OverlapsExcused ==
  \A c, d \in Clients : c # d => Touches(c) \cap Touches(d) \subseteq excused
HeldIsSo(c, i) ==
  /\ At(c, "put", Changes) /\ i = Req(c).id => h[c].copy[i] = jobs[i]
  /\ i \in h[c].todo \cup h[c].cur => h[c].copy[i] = jobs[i]
  /\ i \in h[c].cur => schedules[i] # Absent
HeldOK == \A c \in Clients : \A i \in Ids \ excused : HeldIsSo(c, i)

(* A migration has its job until it drops it, and drops none whose schedule  *)
(* is without a binding.                                                     *)
MutedOK ==
  \A i \in Ids \ (excused \cup bare) : Muted(i) /\ ~Half(i) =>
    jobs[i] # Absent /\ \A c \in Clients : h[c].pc = "drop" => i \notin h[c].cur

(* RegistryObeys, without the pair of Standing.                              *)
Gone(i) == schedules[i] = Absent /\ jobs[i] = Absent
On(i) == IF schedules[i] # Absent THEN ~schedules[i].paused ELSE ~Gone(i) /\ ~jobs[i].paused
Obeys(i) ==
  /\ wanted[i] = "on" => On(i)
  /\ wanted[i] = "off" => ~Gone(i) /\ ~On(i)
  /\ wanted[i] = "gone" => Gone(i)
ObeysOK == \A i \in Ids \ excused : Obeys(i)

IInv == ShapeOK /\ HandlersOK
ObeyInv == OverlapsExcused /\ HeldOK /\ ObeysOK

-----------------------------------------------------------------------------
LEMMA RequestShape ==
  ASSUME NEW c \in Clients, NEW r \in Asked[c]
  PROVE  /\ r \in Requests /\ r # NoRequest
         /\ r.op \in {"create", "update", "pause", "resume", "delete", "migrate"}
         /\ r.op # "migrate" => r.id \in Ids
         /\ r.op = "create" => r.new \in Unit
         /\ r.op = "update" => r.type \in Types \cup {Keep} /\ r.args \in Args \cup {Keep}
<1>1. r \in Requests
  BY ConstantsAssumption
<1> QED BY <1>1 DEF Requests, NoRequest

LEMMA CreateShape == \A r \in Creates : r.new \in Unit
<1>1. \A r \in Creates : r \in Requests /\ r.op = "create"
  BY ConstantsAssumption DEF Creates
<1> QED BY <1>1 DEF Requests

LEMMA HandlerRequest ==
  ASSUME IInv, NEW c \in Clients
  PROVE  /\ h[c].pc # "idle" => Req(c) \in Asked[c]
         /\ h[c].pc \notin {"idle", "list", "schedule", "bind", "drop"} => Req(c).id \in Ids
         /\ h[c] \in Handler /\ HandlerOK(c) /\ GoodHash(h[c].copy)
<1>1. Req(c) \in Asked[c] \cup {NoRequest} /\ h[c] \in Handler /\ HandlerOK(c)
      /\ GoodHash(h[c].copy)
  BY DEF IInv, ShapeOK, TypeOK, HandlersOK, Req
<1>2. h[c].pc # "idle" => Req(c).op # "none"
  BY <1>1 DEF HandlerOK, Handler, OpsAt, Changes
<1>3. h[c].pc # "idle" => Req(c) \in Asked[c]
  BY <1>1, <1>2 DEF NoRequest
<1>4. h[c].pc \notin {"idle", "list", "schedule", "bind", "drop"} => Req(c).op # "migrate"
  BY <1>1 DEF HandlerOK, Handler, OpsAt, Changes
<1> QED BY <1>1, <1>3, <1>4, RequestShape

LEMMA GoodNothing == GoodHash(Nothing)
BY DEF GoodHash, Good, Nothing

LEMMA IdleType == Idle \in Handler
BY GoodNothing DEF Idle, Handler, NoRequest, GoodHash

LEMMA GoodWrite ==
  ASSUME NEW f, GoodHash(f), NEW i \in Ids, NEW u, Good(u)
  PROVE  GoodHash([f EXCEPT ![i] = u])
BY DEF GoodHash, Good

LEMMA TypeIsGood == ShapeOK => GoodHash(jobs) /\ GoodHash(schedules)
BY DEF ShapeOK, TypeOK, GoodHash, Good

(* The part of TypeOK that a step may disturb, put together again.           *)
LEMMA GoodIsType ==
  ASSUME GoodHash(jobs), GoodHash(schedules)
  PROVE  /\ jobs \in [Ids -> Unit \cup {Absent}] /\ schedules \in [Ids -> Unit \cup {Absent}]
         /\ \A i \in Ids : \A u \in {jobs[i], schedules[i]} \ {Absent} : Valid(u.type, u.args)
BY DEF GoodHash, Good

-----------------------------------------------------------------------------
LEMMA InitInv == Init => IInv /\ PollOK /\ ObeyInv /\ MutedOK
<1> SUFFICES ASSUME Init PROVE IInv /\ PollOK /\ ObeyInv /\ MutedOK
  OBVIOUS
<1>1. GoodHash(jobs) /\ GoodHash(schedules) /\ GoodHash(snap)
  BY CreateShape, GoodNothing DEF Init, GoodHash, Good
<1>2. wanted \in [Ids -> {"on", "off", "gone"}]
  BY DEF Init, OnOff
<1>3. TypeOK
  BY <1>1, <1>2, GoodIsType, IdleType DEF Init, TypeOK, GoodHash
<1>4. IInv
  BY <1>1, <1>3, GoodNothing DEF Init, IInv, ShapeOK, HandlersOK, HandlerOK, OpsAt, Req, At,
                                 Idle, NoRequest, Changes
<1>5. ObeysOK
  <2>1. \A i \in Ids : schedules[i] = Absent
    BY DEF Init, Nothing
  <2> QED BY <2>1 DEF Init, ObeysOK, Obeys, On, Gone, OnOff
<1>6. OverlapsExcused /\ HeldOK
  BY DEF Init, OverlapsExcused, Touches, HeldOK, HeldIsSo, At, Req, Idle
<1>7. MutedOK
  BY DEF Init, MutedOK, Muted, Nothing
<1> QED BY <1>4, <1>5, <1>6, <1>7 DEF ObeyInv, PollOK, Init

(* Every handler's step is its own: it ends or goes on with its request.     *)
OneHandler(c) ==
  /\ phase' = phase /\ snap' = snap /\ list' = list /\ half' = half /\ h[c].pc # "idle"
  /\ h' \in [Clients -> Handler] /\ \A d \in Clients \ {c} : h'[d] = h[d]
  /\ h'[c] = Idle \/ (h'[c].req = h[c].req /\ h'[c].pc # "idle")

(* What the two writes of jobs by a request put there.                       *)
LEMMA NewJobType ==
  ASSUME IInv, NEW c \in Clients, Put(c)
  PROVE  /\ NewJob(Req(c), h[c].copy[Req(c).id]) \in Unit
         /\ Good(NewJob(Req(c), h[c].copy[Req(c).id]))
         /\ Req(c).id \in Ids
<1> DEFINE r == Req(c)
           old == h[c].copy[Req(c).id]
<1>1. r \in Asked[c] /\ r.id \in Ids /\ HandlerOK(c) /\ GoodHash(h[c].copy) /\ h[c].pc = "put"
      /\ r.op \in {"create"} \cup Changes
  BY HandlerRequest DEF Put, At, Changes
<1>2. CASE r.op = "create"
  BY <1>1, <1>2, RequestShape DEF NewJob, HandlerOK, Good
<1>3. CASE r.op = "update"
  <2>1. old \in Unit /\ Valid(old.type, old.args) /\ ~Refused(r)
    BY <1>1, <1>3 DEF GoodHash, Good, HandlerOK, At, Changes
  <2>2. r.type \in Types \cup {Keep} /\ r.args \in Args \cup {Keep}
    BY <1>1, <1>3, RequestShape
  <2>3. NewJob(r, old) = [paused |-> old.paused, type |-> IF r.type = Keep THEN old.type ELSE r.type,
                          args |-> IF r.args = Keep THEN old.args ELSE r.args]
    BY <1>3 DEF NewJob
  <2>4. CASE r.type = Keep /\ r.args = Keep
    BY <1>1, <2>1, <2>3, <2>4 DEF Unit, Good
  <2>5. CASE r.type # Keep /\ r.args # Keep
    BY <1>1, <1>3, <2>1, <2>2, <2>3, <2>5 DEF Unit, Good, Refused
  <2> QED BY <1>3, <2>1, <2>4, <2>5 DEF Refused
<1>4. CASE r.op \in {"pause", "resume"}
  <2>1. old \in Unit /\ Valid(old.type, old.args)
    BY <1>1, <1>4 DEF GoodHash, Good, HandlerOK, At, Changes
  <2>2. NewJob(r, old) = [old EXCEPT !.paused = (r.op = "pause")]
    BY <1>4 DEF NewJob
  <2>3. NewJob(r, old) \in Unit /\ NewJob(r, old).type = old.type /\ NewJob(r, old).args = old.args
    BY <2>1, <2>2 DEF Unit
  <2> QED BY <1>1, <2>1, <2>3 DEF Good
<1> QED BY <1>1, <1>2, <1>3, <1>4 DEF Changes

(* A handler that is put in the place of one.                                *)
LEMMA Placed ==
  ASSUME IInv, NEW c \in Clients, NEW x \in Handler, h' = [h EXCEPT ![c] = x]
  PROVE  /\ h' \in [Clients -> Handler] /\ h'[c] = x
         /\ \A d \in Clients \ {c} : h'[d] = h[d]
BY DEF IInv, ShapeOK, TypeOK

(* What the next unit of a migration leaves in hand.                         *)
LEMMA Next1Type ==
  ASSUME IInv, NEW c \in Clients, Next1(c, h[c].todo)
  PROVE  /\ h' \in [Clients -> Handler]
         /\ \A d \in Clients \ {c} : h'[d] = h[d]
         /\ \/ h'[c] = Idle
            \/ /\ h'[c].pc = "schedule" /\ h'[c].req = h[c].req /\ h'[c].copy = h[c].copy
               /\ h'[c].todo = h[c].todo /\ h'[c].cur = {}
<1> DEFINE x == [h[c] EXCEPT !.pc = "schedule", !.cur = {}]
<1>1. x \in Handler /\ Idle \in Handler
  BY HandlerRequest, IdleType DEF Handler
<1>2. h' = [h EXCEPT ![c] = IF h[c].todo = {} THEN Idle ELSE x]
  BY DEF Next1, IInv, ShapeOK, TypeOK
<1>3. (IF h[c].todo = {} THEN Idle ELSE x) \in Handler
  BY <1>1
<1>4. /\ x.pc = "schedule" /\ x.req = h[c].req /\ x.copy = h[c].copy
      /\ x.todo = h[c].todo /\ x.cur = {}
  BY HandlerRequest DEF Handler
<1> HIDE DEF x
<1> QED BY <1>1, <1>2, <1>3, <1>4, Placed

(* Where each step of a handler takes it.                                    *)
LEMMA Lookups ==
  ASSUME IInv, NEW c \in Clients, Exists(c) \/ Get(c) \/ Fail(c)
  PROVE  /\ h' \in [Clients -> Handler] /\ \A d \in Clients \ {c} : h'[d] = h[d]
         /\ UNCHANGED <<hashes, wanted, excused>>
         /\ \/ h'[c] = Idle
            \/ /\ h'[c].req = h[c].req /\ h'[c].todo = h[c].todo /\ h'[c].cur = h[c].cur
               /\ \/ h[c].pc = "exists" /\ h'[c].pc = "put" /\ h'[c].copy = h[c].copy
                  \/ /\ h[c].pc = "get" /\ jobs[Req(c).id] # Absent /\ ~Refused(Req(c))
                     /\ h'[c].pc = (IF Req(c).op = "delete" THEN "del" ELSE "put")
                     /\ h'[c].copy = [h[c].copy EXCEPT ![Req(c).id] = jobs[Req(c).id]]
<1>1. CASE Fail(c)
  BY <1>1, IdleType, Placed DEF Fail, Answer, asks
<1>2. CASE Exists(c)
  <2> DEFINE x == [h[c] EXCEPT !.pc = "put"]
  <2>1. x \in Handler /\ x.req = h[c].req /\ x.todo = h[c].todo /\ x.cur = h[c].cur
        /\ x.pc = "put" /\ x.copy = h[c].copy
    BY HandlerRequest DEF Handler
  <2>2. h' = [h EXCEPT ![c] = Idle] \/ h' = [h EXCEPT ![c] = x]
    BY <1>2 DEF Exists, Goto, Answer, IInv, ShapeOK, TypeOK
  <2> HIDE DEF x
  <2> QED BY <1>2, <2>1, <2>2, IdleType, Placed DEF Exists, At, asks
<1>3. CASE Get(c)
  <2> DEFINE i == Req(c).id
             k == [h[c].copy EXCEPT ![i] = jobs[i]]
             p == IF Req(c).op = "delete" THEN "del" ELSE "put"
             x == [h[c] EXCEPT !.copy = k, !.pc = p]
  <2>0. h[c].pc = "get" /\ i \in Ids
    BY <1>3, HandlerRequest DEF Get, At
  <2>1. k \in [Ids -> Unit \cup {Absent}] /\ p \in {"del", "put"}
    BY <2>0, HandlerRequest DEF Handler, IInv, ShapeOK, TypeOK
  <2>2. /\ x \in Handler /\ x.req = h[c].req /\ x.todo = h[c].todo /\ x.cur = h[c].cur
        /\ x.pc = p /\ x.copy = k
    <3> HIDE DEF k, p
    <3> QED BY <2>1, HandlerRequest DEF Handler
  <2>3. \/ h' = [h EXCEPT ![c] = Idle]
        \/ h' = [h EXCEPT ![c] = x] /\ jobs[i] # Absent /\ ~Refused(Req(c))
    BY <1>3 DEF Get, Answer, IInv, ShapeOK, TypeOK
  <2> HIDE DEF x
  <2> QED BY <1>3, <2>0, <2>2, <2>3, IdleType, Placed DEF Get, asks
<1> QED BY <1>1, <1>2, <1>3

LEMMA JobWrites ==
  ASSUME IInv, NEW c \in Clients, Put(c) \/ Del(c)
  PROVE  /\ h' \in [Clients -> Handler] /\ h'[c] = Idle
         /\ \A d \in Clients \ {c} : h'[d] = h[d]
BY IdleType, Placed DEF Put, Del, Answer

LEMMA ListingJobs ==
  ASSUME IInv, NEW c \in Clients, ListJobs(c)
  PROVE  /\ h' \in [Clients -> Handler] /\ \A d \in Clients \ {c} : h'[d] = h[d]
         /\ UNCHANGED <<hashes, wanted, excused>>
         /\ \/ h'[c] = Idle
            \/ /\ h'[c].pc = "schedule" /\ h'[c].req = h[c].req /\ h'[c].copy = jobs
               /\ h'[c].todo = {i \in Ids : jobs[i] # Absent} /\ h'[c].cur = h[c].cur
<1> DEFINE S == {i \in Ids : jobs[i] # Absent}
           x == [h[c] EXCEPT !.pc = "schedule", !.copy = jobs, !.todo = S]
<1>1. /\ x \in Handler /\ x.pc = "schedule" /\ x.req = h[c].req /\ x.copy = jobs
      /\ x.todo = S /\ x.cur = h[c].cur
  BY HandlerRequest DEF Handler, IInv, ShapeOK, TypeOK
<1>2. h' = [h EXCEPT ![c] = IF S = {} THEN Idle ELSE x]
  BY DEF ListJobs, IInv, ShapeOK, TypeOK
<1>3. (IF S = {} THEN Idle ELSE x) \in Handler
  BY <1>1, IdleType
<1>4. UNCHANGED <<hashes, wanted, excused>>
  BY DEF ListJobs, asks
<1> HIDE DEF x, S
<1>5. h' \in [Clients -> Handler] /\ \A d \in Clients \ {c} : h'[d] = h[d]
  BY <1>2, <1>3, Placed
<1>6. h'[c] = Idle \/ h'[c] = x
  BY <1>2, <1>3, Placed
<1> QED BY <1>1, <1>4, <1>5, <1>6 DEF S

LEMMA Migrates ==
  ASSUME IInv, NEW c \in Clients, NEW i \in Ids, MigrateSchedule(c, i)
  PROVE  /\ h' \in [Clients -> Handler] /\ \A d \in Clients \ {c} : h'[d] = h[d]
         /\ h'[c].pc = "bind" /\ h'[c].req = h[c].req /\ h'[c].copy = h[c].copy
         /\ h'[c].todo = h[c].todo \ {i} /\ h'[c].cur = {i}
         /\ h[c].pc = "schedule" /\ i \in h[c].todo /\ h[c].copy[i] # Absent
<1> DEFINE x == [h[c] EXCEPT !.pc = "bind", !.todo = h[c].todo \ {i}, !.cur = {i}]
<1>1. /\ x \in Handler /\ x.pc = "bind" /\ x.req = h[c].req /\ x.copy = h[c].copy
      /\ x.todo = h[c].todo \ {i} /\ x.cur = {i}
  BY HandlerRequest DEF Handler
<1>2. h' = [h EXCEPT ![c] = x]
  BY DEF MigrateSchedule, IInv, ShapeOK, TypeOK
<1>3. h[c].pc = "schedule" /\ i \in h[c].todo /\ h[c].copy[i] # Absent
  BY HandlerRequest DEF MigrateSchedule, At, HandlerOK
<1> HIDE DEF x
<1> QED BY <1>1, <1>2, <1>3, Placed

LEMMA Binds ==
  ASSUME IInv, NEW c \in Clients, MigrateBinding(c) \/ MigrateDrop(c)
  PROVE  /\ h' \in [Clients -> Handler] /\ \A d \in Clients \ {c} : h'[d] = h[d]
         /\ h[c].pc \in {"bind", "drop"}
         /\ \/ h'[c] = Idle
            \/ /\ h'[c].req = h[c].req /\ h'[c].copy = h[c].copy /\ h'[c].todo = h[c].todo
               /\ \/ h'[c].pc = "schedule" /\ h'[c].cur = {}
                  \/ h[c].pc = "bind" /\ h'[c].pc = "drop" /\ h'[c].cur = h[c].cur
<1> DEFINE x == [h[c] EXCEPT !.pc = "drop"]
<1>1. /\ x \in Handler /\ x.pc = "drop" /\ x.req = h[c].req /\ x.copy = h[c].copy
      /\ x.todo = h[c].todo /\ x.cur = h[c].cur
  BY HandlerRequest DEF Handler
<1>2. h[c].pc \in {"bind", "drop"}
  BY DEF MigrateBinding, MigrateDrop, At
<1>3. CASE Next1(c, h[c].todo)
  BY <1>2, <1>3, Next1Type
<1>4. CASE h[c].pc = "bind" /\ Goto(c, "drop")
  <2>1. h' = [h EXCEPT ![c] = x]
    BY <1>4 DEF Goto, IInv, ShapeOK, TypeOK
  <2> HIDE DEF x
  <2> QED BY <1>1, <1>4, <2>1, Placed
<1> QED BY <1>3, <1>4 DEF MigrateBinding, MigrateDrop, At

LEMMA StepsOne ==
  ASSUME IInv, NEW c \in Clients, Step(c) \/ Fail(c)
  PROVE  OneHandler(c)
<1>1. phase' = phase /\ snap' = snap /\ list' = list /\ half' = half /\ h[c].pc # "idle"
  BY DEF Step, Fail, Exists, Get, Put, Del, ListJobs, MigrateSchedule, MigrateBinding,
         MigrateDrop, At, poll, routes
<1>2. CASE Exists(c) \/ Get(c) \/ Fail(c)
  BY <1>1, <1>2, Lookups DEF OneHandler
<1>3. CASE Put(c) \/ Del(c)
  BY <1>1, <1>3, JobWrites DEF OneHandler
<1>4. CASE ListJobs(c)
  BY <1>1, <1>4, ListingJobs DEF OneHandler
<1>5. CASE MigrateBinding(c) \/ MigrateDrop(c)
  BY <1>1, <1>5, Binds DEF OneHandler
<1>6. ASSUME NEW i \in Ids, MigrateSchedule(c, i) PROVE OneHandler(c)
  BY <1>1, <1>6, Migrates DEF OneHandler
<1> QED BY <1>2, <1>3, <1>4, <1>5, <1>6 DEF Step

LEMMA BeginsOne ==
  ASSUME IInv, NEW c \in Clients, NEW r \in Asked[c], Begin(c, r)
  PROVE  /\ h' \in [Clients -> Handler] /\ \A d \in Clients \ {c} : h'[d] = h[d]
         /\ h'[c].pc = (CASE r.op = "create" -> "exists" [] r.op = "migrate" -> "list"
                          [] OTHER -> "get")
         /\ h[c].pc = "idle" /\ h'[c].req = r /\ h'[c].copy = Nothing
         /\ h'[c].todo = {} /\ h'[c].cur = {}
<1> DEFINE p == CASE r.op = "create" -> "exists" [] r.op = "migrate" -> "list" [] OTHER -> "get"
           x == [Idle EXCEPT !.req = r, !.pc = p]
<1>1. p \in {"exists", "list", "get"}
  OBVIOUS
<1>2. /\ x \in Handler /\ x.pc = p /\ x.req = r /\ x.copy = Nothing
      /\ x.todo = {} /\ x.cur = {}
  <2> HIDE DEF p
  <2> QED BY <1>1, IdleType, RequestShape DEF Idle, Handler
<1>3. h' = [h EXCEPT ![c] = x]
  BY DEF Begin
<1> HIDE DEF x
<1> QED BY <1>2, <1>3, Placed DEF Begin

(* What a step writes to the hashes is well formed.                          *)
LEMMA HashesStep ==
  ASSUME IInv, NEW c \in Clients, Step(c) \/ Fail(c)
  PROVE  GoodHash(jobs') /\ GoodHash(schedules') /\ bindings' \subseteq Ids
<1>0. GoodHash(jobs) /\ GoodHash(schedules) /\ bindings \subseteq Ids
  BY TypeIsGood DEF IInv, ShapeOK, TypeOK
<1>1. CASE Put(c)
  BY <1>0, <1>1, NewJobType, GoodWrite DEF Put
<1>2. CASE Del(c)
  <2>1. Req(c).id \in Ids
    BY <1>2, HandlerRequest DEF Del, At
  <2> QED BY <1>0, <1>2, <2>1, GoodWrite DEF Del, Good
<1>3. ASSUME NEW i \in Ids, MigrateSchedule(c, i)
      PROVE  GoodHash(jobs') /\ GoodHash(schedules') /\ bindings' \subseteq Ids
  <2>1. Good(h[c].copy[i])
    BY HandlerRequest DEF GoodHash
  <2> QED BY <1>0, <1>3, <2>1, GoodWrite DEF MigrateSchedule
<1>4. CASE MigrateBinding(c)
  <2>1. h[c].cur \subseteq Ids
    BY HandlerRequest DEF Handler
  <2> QED BY <1>0, <1>4, <2>1 DEF MigrateBinding
<1>5. CASE MigrateDrop(c)
  BY <1>0, <1>5 DEF MigrateDrop, GoodHash, Good
<1>6. CASE UNCHANGED hashes
  BY <1>0, <1>6 DEF hashes
<1> QED BY <1>1, <1>2, <1>3, <1>4, <1>5, <1>6 DEF Step, Fail, Exists, Get, ListJobs

LEMMA AsksStep ==
  ASSUME IInv, NEW c \in Clients, Step(c) \/ Fail(c)
  PROVE  /\ wanted' \in [Ids -> {"on", "off", "gone"}] /\ failures' \in Nat
         /\ excused' \subseteq Ids /\ excused \subseteq excused' /\ bare' \subseteq Ids
<1>0. /\ wanted \in [Ids -> {"on", "off", "gone"}] /\ excused \subseteq Ids /\ failures \in Nat
      /\ bare' \subseteq Ids
  BY DEF IInv, ShapeOK, TypeOK, Step, Fail, Exists, Get, Put, Del, ListJobs, MigrateSchedule,
         MigrateBinding, MigrateDrop, routes
<1>1. ASSUME NEW i \in Ids, NEW w \in {"on", "off", "gone"}, Heard(i, w), failures' = failures
      PROVE  /\ wanted' \in [Ids -> {"on", "off", "gone"}] /\ failures' \in Nat
             /\ excused' \subseteq Ids /\ excused \subseteq excused'
  BY <1>0, <1>1 DEF Heard, Want, Excuse
<1>2. CASE Put(c)
  <2>1. Req(c).id \in Ids
    BY <1>2, NewJobType
  <2>2. wanted[Req(c).id] \in {"on", "off", "gone"} /\ \A p : OnOff(p) \in {"on", "off", "gone"}
    BY <1>0, <2>1 DEF OnOff
  <2>3. \E w \in {"on", "off", "gone"} : Heard(Req(c).id, w)
    BY <1>2, <2>2 DEF Put
  <2>4. failures' = failures
    BY <1>2 DEF Put
  <2> QED BY <1>0, <1>1, <2>1, <2>3, <2>4
<1>3. CASE Del(c)
  <2>1. Req(c).id \in Ids
    BY <1>3, HandlerRequest DEF Del, At
  <2>2. failures' = failures /\ Heard(Req(c).id, "gone")
    BY <1>3 DEF Del
  <2> QED BY <1>0, <1>1, <2>1, <2>2
<1>4. ASSUME NEW i \in Ids, MigrateSchedule(c, i)
      PROVE  /\ wanted' \in [Ids -> {"on", "off", "gone"}] /\ failures' \in Nat
             /\ excused' \subseteq Ids /\ excused \subseteq excused'
  BY <1>0, <1>4 DEF MigrateSchedule, Excuse
<1>5. CASE UNCHANGED asks /\ failures' \in Nat
  BY <1>0, <1>5 DEF asks
<1> QED BY <1>0, <1>2, <1>3, <1>4, <1>5 DEF Step, Fail, Exists, Get, ListJobs, MigrateBinding, MigrateDrop

(* Every handler keeps to its path and holds well-formed copies.             *)
LEMMA HandlerStep ==
  ASSUME IInv, NEW c \in Clients, Step(c) \/ Fail(c)
  PROVE  HandlerOK(c)' /\ GoodHash(h'[c].copy)
<1> USE DEF At, Req
<1>0. HandlerOK(c) /\ h[c] \in Handler /\ GoodHash(h[c].copy) /\ GoodHash(jobs)
  BY HandlerRequest, TypeIsGood DEF IInv
<1>1. h'[c] = Idle => HandlerOK(c)' /\ GoodHash(h'[c].copy)
  BY GoodNothing DEF HandlerOK, Idle, OpsAt, NoRequest, Changes
<1>2. CASE Exists(c) \/ Get(c) \/ Fail(c)
  <2>1. CASE h'[c] = Idle
    BY <1>1, <2>1
  <2>2. CASE h[c].pc = "exists" /\ h'[c].pc = "put" /\ h'[c].copy = h[c].copy
             /\ h'[c].req = h[c].req /\ h'[c].todo = h[c].todo /\ h'[c].cur = h[c].cur
    BY <1>0, <2>2 DEF HandlerOK, OpsAt, Changes
  <2>3. CASE /\ h[c].pc = "get" /\ jobs[Req(c).id] # Absent /\ ~Refused(Req(c))
             /\ h'[c].req = h[c].req /\ h'[c].todo = h[c].todo /\ h'[c].cur = h[c].cur
             /\ h'[c].pc = (IF Req(c).op = "delete" THEN "del" ELSE "put")
             /\ h'[c].copy = [h[c].copy EXCEPT ![Req(c).id] = jobs[Req(c).id]]
    <3>1. Req(c).id \in Ids
      BY <2>3, HandlerRequest
    <3>2. GoodHash(h'[c].copy) /\ h'[c].copy[Req(c).id] # Absent
      BY <1>0, <2>3, <3>1, GoodWrite DEF GoodHash
    <3>3. h'[c].todo = {} /\ h'[c].cur = {}
      BY <1>0, <2>3 DEF HandlerOK
    <3> QED BY <1>0, <2>3, <3>2, <3>3 DEF HandlerOK, OpsAt, Changes
  <2> QED BY <1>2, <2>1, <2>2, <2>3, Lookups
<1>3. CASE Put(c) \/ Del(c)
  BY <1>1, <1>3, JobWrites
<1>4. CASE ListJobs(c)
  <2>1. h[c].pc = "list" /\ h[c].cur = {}
    BY <1>0, <1>4 DEF ListJobs, HandlerOK
  <2>2. CASE h'[c] # Idle
    BY <1>0, <1>4, <2>1, <2>2, ListingJobs DEF HandlerOK, OpsAt
  <2> QED BY <1>1, <2>2
<1>5. ASSUME NEW i \in Ids, MigrateSchedule(c, i) PROVE HandlerOK(c)' /\ GoodHash(h'[c].copy)
  BY <1>0, <1>5, Migrates DEF HandlerOK, OpsAt
<1>6. CASE MigrateBinding(c) \/ MigrateDrop(c)
  <2>1. CASE h'[c] # Idle
    BY <1>0, <1>6, <2>1, Binds DEF HandlerOK, OpsAt
  <2> QED BY <1>1, <2>1
<1> QED BY <1>2, <1>3, <1>4, <1>5, <1>6 DEF Step

LEMMA HandlersInv ==
  ASSUME IInv, NEW c \in Clients, Step(c) \/ Fail(c)
  PROVE  IInv'
<1>1. OneHandler(c) /\ HandlerOK(c)' /\ GoodHash(h'[c].copy)
  BY StepsOne, HandlerStep
<1>2. \A d \in Clients : h'[d].req \in Asked[d] \cup {NoRequest} /\ GoodHash(h'[d].copy)
  BY <1>1 DEF OneHandler, IInv, ShapeOK, Idle
<1>3. \A d \in Clients : HandlerOK(d)'
  BY <1>1 DEF OneHandler, IInv, HandlersOK, HandlerOK, At, Req
<1>4. TypeOK'
  <2>1. /\ jobs' \in [Ids -> Unit \cup {Absent}] /\ schedules' \in [Ids -> Unit \cup {Absent}]
        /\ \A i \in Ids : \A u \in {jobs'[i], schedules'[i]} \ {Absent} : Valid(u.type, u.args)
    BY HashesStep DEF GoodHash, Good
  <2>2. phase' = phase /\ snap' = snap /\ list' = list /\ h' \in [Clients -> Handler]
    BY <1>1 DEF OneHandler
  <2>3. half' = half
    BY DEF Step, Fail, Exists, Get, Put, Del, ListJobs, MigrateSchedule, MigrateBinding,
           MigrateDrop, routes
  <2> QED BY <2>1, <2>2, <2>3, HashesStep, AsksStep DEF IInv, ShapeOK, TypeOK
<1>5. GoodHash(snap)'
  BY <1>1 DEF OneHandler, IInv, ShapeOK, GoodHash, Good
<1> QED BY <1>2, <1>3, <1>4, <1>5 DEF IInv, ShapeOK, HandlersOK

LEMMA BeginInv ==
  ASSUME IInv, NEW c \in Clients, NEW r \in Asked[c], Begin(c, r)
  PROVE  IInv'
<1>1. UNCHANGED <<hashes, routes, poll, wanted, failures>>
  BY DEF Begin
<1>2. excused' \subseteq Ids
  <2>1. Names(r) \subseteq Ids
    BY RequestShape DEF Names
  <2> QED BY <2>1 DEF Begin, Excuse, IInv, ShapeOK, TypeOK
<1>3. TypeOK'
  BY <1>1, <1>2, BeginsOne DEF IInv, ShapeOK, TypeOK, hashes, routes, poll
<1>4. \A d \in Clients : h'[d].req \in Asked[d] \cup {NoRequest} /\ GoodHash(h'[d].copy)
  BY BeginsOne, GoodNothing DEF IInv, ShapeOK
<1>5. HandlerOK(c)'
  <2>1. h'[c].pc \in {"exists", "list", "get"} /\ r.op \in OpsAt[h'[c].pc]
    BY BeginsOne, RequestShape DEF OpsAt, Changes
  <2>2. r.op = "create" => Valid(r.new.type, r.new.args)
    BY DEF Begin
  <2> QED BY <2>1, <2>2, BeginsOne DEF HandlerOK, At, Req
<1>6. \A d \in Clients \ {c} : HandlerOK(d)'
  BY BeginsOne DEF IInv, HandlersOK, HandlerOK, At, Req
<1>7. GoodHash(snap)'
  BY <1>1 DEF IInv, ShapeOK, GoodHash, Good, poll
<1> QED BY <1>3, <1>4, <1>5, <1>6, <1>7 DEF IInv, ShapeOK, HandlersOK

(* The schedule routes and the poll leave the handlers alone.                *)
LEMMA Aside ==
  ASSUME IInv, h' = h, TypeOK', GoodHash(snap)'
  PROVE  IInv'
BY DEF IInv, ShapeOK, HandlersOK, HandlerOK, At, Req

(* What the schedule routes and the bus write: a schedule they were asked    *)
(* for, or one that was there with its pause as it was; or none.             *)
PutsSchedule(i) ==
  /\ excused' = excused
  /\ \E v \in Unit :
       /\ Valid(v.type, v.args) /\ schedules' = [schedules EXCEPT ![i] = v]
       /\ \/ Want(i, OnOff(v.paused))
          \/ wanted' = wanted /\ schedules[i] # Absent /\ v.paused = schedules[i].paused
LeavesSchedules == UNCHANGED <<schedules, wanted, excused>>

LEMMA Routes ==
  ASSUME IInv, Schedules
  PROVE  /\ \E i \in Ids : Cancel(i) \/ PutsSchedule(i) \/ LeavesSchedules
         /\ UNCHANGED <<jobs, h, poll>> /\ failures' \in Nat
         /\ bindings' \subseteq Ids /\ bare' \subseteq Ids
         /\ half' \subseteq [id : Ids, by : {"bus", "delete"}]
<1> DEFINE Typed == /\ UNCHANGED <<jobs, h, poll>> /\ failures' \in Nat
                    /\ bindings' \subseteq Ids /\ bare' \subseteq Ids
                    /\ half' \subseteq [id : Ids, by : {"bus", "delete"}]
<1>0. GoodHash(schedules) /\ TypeOK
  BY TypeIsGood DEF IInv, ShapeOK
<1>1. ASSUME NEW i \in Ids, NEW r \in Creates, Valid(r.new.type, r.new.args),
             CreateSchedule(i, r.new) \/ Register(i, r.new)
      PROVE  PutsSchedule(i) /\ Typed
  BY <1>0, <1>1, CreateShape
     DEF CreateSchedule, Register, SetSchedule, LeftBare, PutsSchedule, TypeOK
<1>2. ASSUME NEW i \in Ids, NEW r \in Creates, Valid(r.new.type, r.new.args),
             UpdateSchedule(i, r.new)
      PROVE  PutsSchedule(i) /\ Typed
  <2> DEFINE u == [r.new EXCEPT !.paused = schedules[i].paused]
  <2>1. /\ u \in Unit /\ u.type = r.new.type /\ u.args = r.new.args
        /\ u.paused = schedules[i].paused
    BY <1>0, <1>2, CreateShape DEF UpdateSchedule, GoodHash, Good, Unit
  <2>2. schedules' = [schedules EXCEPT ![i] = u] /\ UNCHANGED asks /\ schedules[i] # Absent
    BY <1>2 DEF UpdateSchedule
  <2>3. Typed
    BY <1>0, <1>2 DEF UpdateSchedule, TypeOK, routes
  <2> HIDE DEF u
  <2> QED BY <1>2, <2>1, <2>2, <2>3 DEF PutsSchedule, asks
<1>3. ASSUME NEW i \in Ids, NEW p \in BOOLEAN, SetPaused(i, p) PROVE PutsSchedule(i) /\ Typed
  <2> DEFINE u == [schedules[i] EXCEPT !.paused = p]
  <2>1. u \in Unit /\ Valid(u.type, u.args)
    BY <1>0, <1>3 DEF SetPaused, GoodHash, Good, Unit
  <2>2. schedules' = [schedules EXCEPT ![i] = u] /\ Want(i, OnOff(u.paused)) /\ excused' = excused
    BY <1>3 DEF SetPaused, SetSchedule
  <2>3. Typed
    BY <1>0, <1>3 DEF SetPaused, TypeOK, routes
  <2> HIDE DEF u
  <2> QED BY <2>1, <2>2, <2>3 DEF PutsSchedule
<1>4. ASSUME NEW i \in Ids, Bind(i) \/ Unbind(i) \/ RegisterBinding(i) \/ Cascade(i)
      PROVE  LeavesSchedules /\ Typed
  BY <1>0, <1>4 DEF Bind, Unbind, RegisterBinding, Cascade, LeftBare, LeavesSchedules, asks, TypeOK
<1>5. ASSUME NEW i \in Ids, Cancel(i) PROVE Typed
  BY <1>0, <1>5 DEF Cancel, TypeOK
<1>6. ASSUME NEW x \in half, HalfFails(x) PROVE x.id \in Ids /\ LeavesSchedules /\ Typed
  BY <1>0, <1>6 DEF HalfFails, LeftBare, LeavesSchedules, hashes, asks, TypeOK
<1> QED BY <1>1, <1>2, <1>3, <1>4, <1>5, <1>6 DEF Schedules

LEMMA RoutesInv ==
  ASSUME IInv, Schedules
  PROVE  IInv'
<1>0. GoodHash(jobs) /\ GoodHash(schedules) /\ TypeOK /\ \A p : OnOff(p) \in {"on", "off", "gone"}
  BY TypeIsGood DEF IInv, ShapeOK, OnOff
<1>1. PICK i \in Ids : Cancel(i) \/ PutsSchedule(i) \/ LeavesSchedules
  BY Routes
<1>2. GoodHash(schedules')
  <2>1. CASE Cancel(i)
    BY <1>0, <2>1, GoodWrite DEF Cancel, Good
  <2>2. CASE PutsSchedule(i)
    <3>1. PICK v \in Unit : schedules' = [schedules EXCEPT ![i] = v] /\ Valid(v.type, v.args)
      BY <2>2 DEF PutsSchedule
    <3> QED BY <1>0, <3>1, GoodWrite DEF Good
  <2> QED BY <1>0, <1>1, <2>1, <2>2 DEF LeavesSchedules
<1>3. wanted' \in [Ids -> {"on", "off", "gone"}] /\ excused' \subseteq Ids
  BY <1>0, <1>1 DEF Cancel, PutsSchedule, LeavesSchedules, Want, Excuse, TypeOK
<1>4. TypeOK'
  <2>1. /\ schedules' \in [Ids -> Unit \cup {Absent}]
        /\ \A j \in Ids : \A u \in {jobs[j], schedules'[j]} \ {Absent} : Valid(u.type, u.args)
    BY <1>0, <1>2 DEF GoodHash, Good
  <2> QED BY <1>0, <1>3, <2>1, Routes DEF TypeOK, poll
<1>5. GoodHash(snap)'
  BY Routes DEF IInv, ShapeOK, GoodHash, Good, poll
<1> QED BY <1>4, <1>5, Routes, Aside

LEMMA PollInv ==
  ASSUME IInv, PollSchedules \/ PollJobs \/ PollFails
  PROVE  IInv'
<1>0. TypeOK /\ GoodHash(schedules) /\ GoodHash(snap)
  BY TypeIsGood DEF IInv, ShapeOK
<1>1. UNCHANGED <<hashes, h, routes, asks>> /\ phase' \in {"idle", "jobs"} /\ failures' \in Nat
  BY <1>0 DEF PollSchedules, PollJobs, PollFails, TypeOK
<1>2. GoodHash(snap)'
  <2>1. snap' \in {schedules, Nothing}
    BY DEF PollSchedules, PollJobs, PollFails
  <2> QED BY <1>0, <2>1, GoodNothing DEF GoodHash, Good
<1>3. list' \subseteq [id : Ids, mode : {"schedule", "job"}]
  BY <1>0 DEF PollSchedules, PollJobs, PollFails, TypeOK, Tasks
<1>4. TypeOK'
  BY <1>0, <1>1, <1>2, <1>3 DEF TypeOK, GoodHash, hashes, routes, asks
<1> QED BY <1>1, <1>2, <1>4, Aside

LEMMA StepInv == IInv /\ [Next]_vars => IInv'
<1> SUFFICES ASSUME IInv, [Next]_vars PROVE IInv'
  OBVIOUS
<1>1. CASE UNCHANGED vars
  <2>1. TypeOK' /\ GoodHash(snap)'
    BY <1>1 DEF vars, hashes, routes, poll, asks, IInv, ShapeOK, TypeOK, GoodHash, Good
  <2> QED BY <1>1, <2>1, Aside DEF vars
<1> QED BY <1>1, HandlersInv, BeginInv, RoutesInv, PollInv DEF Next, Handlers

(* Whatever a hash, a poll or a handler of the job routes and the migration  *)
(* holds is well formed, and belongs to the step the handler is at.          *)
THEOREM Invariant == Spec => []IInv
BY InitInv, StepInv, PTL DEF Spec

(* Every variable keeps its type, and a trigger that a hash holds, whatever  *)
(* path of requests and migrations it took there, is one the API accepts.    *)
THEOREM TypeCorrect == Spec => []TypeOK
<1>1. IInv => TypeOK
  BY DEF IInv, ShapeOK
<1> QED BY <1>1, Invariant, PTL

-----------------------------------------------------------------------------
(* get_schedules lists a job only when no schedule shadows it, so no unit is *)
(* listed twice: a migration between the two reads cannot make it kick twice.*)
THEOREM NoDuplicates == Spec => []OncePerPoll
<1>1. Init => OncePerPoll
  BY DEF Init, OncePerPoll
<1>2. OncePerPoll /\ [Next]_vars => OncePerPoll'
  <2> SUFFICES ASSUME OncePerPoll, [Next]_vars, list' # list PROVE OncePerPoll'
    BY DEF OncePerPoll
  <2>1. PollJobs \/ list' = {}
    BY DEF Next, Handlers, Step, Schedules, vars, poll, Begin, Fail, Exists, Get, Put, Del,
           ListJobs, MigrateSchedule, MigrateBinding, MigrateDrop, CreateSchedule, UpdateSchedule,
           SetPaused, Bind, Unbind, Register, RegisterBinding, Cascade, Cancel, HalfFails,
           PollSchedules, PollFails
  <2>2. CASE PollJobs
    BY <2>2 DEF PollJobs, OncePerPoll, Tasks, Fires
  <2> QED BY <2>1, <2>2 DEF OncePerPoll
<1> QED BY <1>1, <1>2, PTL DEF Spec

(* Good triggers are ones Taskiq can schedule: no unit is left out by them.  *)
LEMMA GoodFires ==
  ASSUME NEW u, Good(u), u # Absent
  PROVE  Fires(u) = ~u.paused
<1>1. Schedulable(u.type, u.args) /\ u.paused \in BOOLEAN
  BY DEF Good, Valid, Schedulable, Unit
<1> QED BY <1>1 DEF Fires

(* What happens outside of the poll leaves what it has read.                 *)
LEMMA OnlyThePoll ==
  ASSUME IInv, [Next]_vars, phase' # phase \/ snap' # snap \/ list' # list
  PROVE  PollSchedules \/ PollJobs \/ PollFails
<1>1. ASSUME Handlers PROVE FALSE
  <2>1. PICK c \in Clients : Step(c) \/ Fail(c) \/ \E r \in Asked[c] : Begin(c, r)
    BY <1>1 DEF Handlers
  <2>2. CASE Step(c) \/ Fail(c)
    BY <2>2, StepsOne DEF OneHandler
  <2> QED BY <2>1, <2>2 DEF Begin, poll
<1>2. Schedules => FALSE
  BY Routes DEF poll
<1> QED BY <1>1, <1>2 DEF Next, vars, poll

LEMMA PollStep == IInv /\ PollOK /\ [Next]_vars => PollOK'
<1> SUFFICES ASSUME IInv, PollOK, [Next]_vars, phase' = "jobs", NEW i \in Ids, steady'[i] # Moved
             PROVE  /\ steady'[i] = Standing(i)'
                    /\ schedules'[i] = Absent <=> snap'[i] = Absent
                    /\ snap'[i] # Absent => steady'[i][2] = ~snap'[i].paused
  BY DEF PollOK
<1>1. CASE UNCHANGED vars
  BY <1>1 DEF vars, hashes, poll, PollOK, Standing
<1>2. CASE Watch
  <2>1. phase \in {"idle", "jobs"}
    BY DEF IInv, ShapeOK, TypeOK
  <2>2. CASE phase = "idle"
    <3>1. PollSchedules
      BY <2>2, OnlyThePoll DEF PollJobs, PollFails
    <3>2. steady'[i] = Standing(i)'
      BY <1>2, <2>2 DEF Watch
    <3>3. schedules' = schedules /\ snap' = schedules
      BY <3>1 DEF PollSchedules, hashes
    <3>4. schedules'[i] # Absent => Standing(i)' = <<"schedule", ~schedules'[i].paused>>
      BY DEF Standing
    <3>5. snap'[i] # Absent => steady'[i][2] = ~snap'[i].paused
      BY <3>2, <3>3, <3>4
    <3> QED BY <3>2, <3>3, <3>5
  <2>3. CASE phase = "jobs"
    <3>1. snap' = snap
      BY <2>3, OnlyThePoll DEF PollSchedules, PollJobs, PollFails
    <3>2. steady'[i] = steady[i] /\ steady[i] = Standing(i)'
      BY <1>2, <2>3 DEF Watch
    <3>3. steady[i] = Standing(i) /\ (schedules[i] = Absent <=> snap[i] = Absent)
          /\ (snap[i] # Absent => steady[i][2] = ~snap[i].paused)
      BY <2>3, <3>2 DEF PollOK
    <3>4. schedules'[i] = Absent <=> schedules[i] = Absent
      BY <3>2, <3>3 DEF Standing
    <3> QED BY <3>1, <3>2, <3>3, <3>4
  <2> QED BY <2>1, <2>2, <2>3
<1> QED BY <1>1, <1>2 DEF Next

(* What a poll answers is so of every unit that kept its standing between    *)
(* its two reads: requests and migrations that interleave with it do not     *)
(* make it skip a unit, or list one that is paused or gone.                  *)
THEOREM PollTellsTheTruth == Spec => PollIsFaithful
<1>1. IInv /\ PollOK /\ [Next]_vars =>
        [phase = "jobs" /\ phase' = "idle" /\ failures' = failures =>
           \A i \in Ids \ {j \in Ids : steady[j] = Moved} :
             (i \in Listed)' <=> steady[i][2]]_vars
  <2> SUFFICES ASSUME IInv, PollOK, [Next]_vars, phase = "jobs", phase' = "idle",
                      failures' = failures, NEW i \in Ids, steady[i] # Moved
               PROVE  (i \in Listed)' <=> steady[i][2]
    OBVIOUS
  <2>1. PollJobs
    <3>1. PollSchedules \/ PollJobs \/ PollFails
      BY OnlyThePoll
    <3>2. failures \in Nat
      BY DEF IInv, ShapeOK, TypeOK
    <3> QED BY <3>1, <3>2 DEF PollSchedules, PollFails
  <2>2. (i \in Listed)' <=> Fires(snap[i]) \/ (snap[i] = Absent /\ Fires(jobs[i]))
    <3> DEFINE S == {j \in Ids : Fires(snap[j])}
               T == {j \in Ids : snap[j] = Absent /\ Fires(jobs[j])}
    <3>1. list' = [id : S, mode : {"schedule"}] \cup [id : T, mode : {"job"}]
      BY <2>1 DEF PollJobs, Tasks
    <3>2. ASSUME i \in S \cup T PROVE \E t \in list' : t.id = i
      <4>1. [id |-> i, mode |-> "schedule"] \in list' \/ [id |-> i, mode |-> "job"] \in list'
        BY <3>1, <3>2
      <4> QED BY <4>1
    <3>3. ASSUME NEW t \in list', t.id = i PROVE i \in S \cup T
      BY <3>1, <3>3
    <3>4. (i \in Listed)' <=> \E t \in list' : t.id = i
      BY DEF Listed
    <3> QED BY <3>2, <3>3, <3>4
  <2>3. Good(snap[i]) /\ Good(jobs[i])
    BY TypeIsGood DEF IInv, ShapeOK, GoodHash
  <2>4. /\ steady[i] = Standing(i) /\ (schedules[i] = Absent <=> snap[i] = Absent)
        /\ snap[i] # Absent => steady[i][2] = ~snap[i].paused
    BY DEF PollOK
  <2>5. CASE snap[i] # Absent
    BY <2>2, <2>3, <2>4, <2>5, GoodFires
  <2>6. CASE snap[i] = Absent /\ jobs[i] # Absent
    <3>1. steady[i] = <<"job", ~jobs[i].paused>> /\ Fires(jobs[i]) = ~jobs[i].paused
      BY <2>3, <2>4, <2>6, GoodFires DEF Standing
    <3>2. steady[i][2] = Fires(jobs[i])
      BY <3>1
    <3> QED BY <2>2, <2>6, <3>2 DEF Fires
  <2>7. CASE snap[i] = Absent /\ jobs[i] = Absent
    BY <2>2, <2>4, <2>7 DEF Standing, Fires
  <2> QED BY <2>5, <2>6, <2>7
<1> QED BY <1>1, InitInv, StepInv, PollStep, PTL DEF Spec, PollIsFaithful

-----------------------------------------------------------------------------
LEMMA ObeysIs ==
  ASSUME IInv, ObeysOK
  PROVE  RegistryObeys
<1> SUFFICES ASSUME NEW i \in Ids \ excused
             PROVE  CASE wanted[i] = "on" -> Standing(i)[2]
                      [] wanted[i] = "off" -> Standing(i)[1] # "nowhere" /\ ~Standing(i)[2]
                      [] wanted[i] = "gone" -> Standing(i)[1] = "nowhere"
  BY DEF RegistryObeys
<1>1. Obeys(i) /\ wanted[i] \in {"on", "off", "gone"}
  BY DEF ObeysOK, IInv, ShapeOK, TypeOK
<1>2. Standing(i)[2] = On(i) /\ (Standing(i)[1] = "nowhere" <=> Gone(i))
  <2>1. CASE schedules[i] # Absent
    <3>1. Standing(i) = <<"schedule", ~schedules[i].paused>>
      BY <2>1 DEF Standing
    <3> QED BY <2>1, <3>1 DEF On, Gone
  <2>2. CASE schedules[i] = Absent /\ jobs[i] # Absent
    <3>1. Standing(i) = <<"job", ~jobs[i].paused>> /\ On(i) = ~jobs[i].paused
      BY <2>2 DEF Standing, On, Gone
    <3> QED BY <2>2, <3>1 DEF Gone
  <2>3. CASE schedules[i] = Absent /\ jobs[i] = Absent
    <3>1. Standing(i) = <<"nowhere", FALSE>> /\ On(i) = FALSE
      BY <2>3 DEF Standing, On, Gone
    <3>2. Standing(i)[1] = "nowhere" /\ Standing(i)[2] = FALSE
      BY <3>1
    <3> QED BY <2>3, <3>1, <3>2 DEF Gone
  <2> QED BY <2>1, <2>2, <2>3
<1> QED BY <1>1, <1>2 DEF Obeys

(* Touches is a matter of a handler's own state; its steps never add to it.  *)
LEMMA TouchesLess ==
  ASSUME IInv, NEW c \in Clients, Step(c) \/ Fail(c)
  PROVE  /\ Touches(c)' \subseteq Touches(c)
         /\ \A d \in Clients \ {c} : Touches(d)' = Touches(d)
<1> USE DEF Req
<1>0. OneHandler(c) /\ HandlerOK(c) /\ h[c] \in Handler
  BY StepsOne, HandlerRequest
<1>1. \A d \in Clients \ {c} : Touches(d)' = Touches(d)
  BY <1>0 DEF OneHandler, Touches, Names
<1>2. h'[c] = Idle => Touches(c)' = {}
  BY DEF Touches, Idle
<1> SUFFICES Touches(c)' \subseteq Touches(c)
  BY <1>1
<1>3. CASE Exists(c) \/ Get(c) \/ Fail(c)
  <2>1. CASE h'[c] # Idle
    <3>1. h'[c].req = h[c].req /\ h[c].pc \in {"exists", "get"} /\ h'[c].pc \in {"put", "del"}
      BY <1>3, <2>1, Lookups
    <3> QED BY <3>1 DEF Touches, Names
  <2> QED BY <1>2, <2>1
<1>4. CASE Put(c) \/ Del(c)
  BY <1>2, <1>4, JobWrites
<1>5. CASE ListJobs(c)
  <2>1. h[c].pc = "list" /\ h[c].req.op = "migrate" /\ h[c].cur = {}
    BY <1>0, <1>5 DEF ListJobs, At, HandlerOK
  <2>2. Touches(c) = Ids
    BY <2>1 DEF Touches, Names
  <2>3. CASE h'[c] # Idle
    BY <1>5, <2>1, <2>2, <2>3, ListingJobs DEF Touches
  <2> QED BY <1>2, <2>3
<1>6. ASSUME NEW i \in Ids, MigrateSchedule(c, i) PROVE Touches(c)' \subseteq Touches(c)
  BY <1>6, Migrates DEF Touches
<1>7. CASE MigrateBinding(c) \/ MigrateDrop(c)
  <2>1. CASE h'[c] # Idle
    BY <1>7, <2>1, Binds DEF Touches
  <2> QED BY <1>2, <2>1
<1> QED BY <1>1, <1>3, <1>4, <1>5, <1>6, <1>7 DEF Step

LEMMA OverlapsStep ==
  ASSUME IInv, OverlapsExcused, NEW c \in Clients, Step(c) \/ Fail(c)
  PROVE  OverlapsExcused'
<1>1. \A d \in Clients : Touches(d)' \subseteq Touches(d)
  BY TouchesLess
<1> QED BY <1>1, AsksStep DEF OverlapsExcused

LEMMA OverlapsBegin ==
  ASSUME IInv, OverlapsExcused, NEW c \in Clients, NEW r \in Asked[c], Begin(c, r)
  PROVE  OverlapsExcused'
<1>1. \A d \in Clients \ {c} : Touches(d)' = Touches(d)
  BY BeginsOne DEF Touches, Names, Req
<1>2. Touches(c)' = Names(r)
  BY BeginsOne, RequestShape DEF Touches, Names, Req
<1>3. excused' = excused \cup (Names(r) \cap UNION {Touches(d) : d \in Clients})
  BY DEF Begin, Excuse
<1>4. \A d \in Clients : Names(r) \cap Touches(d) \subseteq excused'
  BY <1>3
<1> QED BY <1>1, <1>2, <1>3, <1>4 DEF OverlapsExcused

(* A handler touches all it holds, and writes only what it touches; only a   *)
(* delete of a schedule takes one away.                                      *)
LEMMA HoldsTouched ==
  ASSUME IInv, NEW c \in Clients
  PROVE  /\ h[c].pc \in {"put", "del"} => Req(c).id \in Touches(c) /\ Req(c).op # "migrate"
         /\ h[c].todo \cup h[c].cur \subseteq Touches(c)
<1>1. HandlerOK(c)
  BY HandlerRequest
<1> QED BY <1>1 DEF HandlerOK, OpsAt, Changes, Touches, Names

LEMMA WritesTouched ==
  ASSUME IInv, NEW c \in Clients, Step(c) \/ Fail(c), NEW i \in Ids
  PROVE  /\ i \notin Touches(c) => jobs'[i] = jobs[i]
         /\ schedules[i] # Absent => schedules'[i] # Absent
<1>0. jobs \in [Ids -> Unit \cup {Absent}] /\ schedules \in [Ids -> Unit \cup {Absent}]
  BY DEF IInv, ShapeOK, TypeOK
<1>1. CASE Put(c) \/ Del(c)
  BY <1>0, <1>1, HoldsTouched DEF Put, Del, At
<1>2. CASE MigrateDrop(c)
  BY <1>2, HoldsTouched DEF MigrateDrop
<1>3. ASSUME NEW j \in Ids, MigrateSchedule(c, j)
      PROVE  jobs'[i] = jobs[i] /\ (schedules[i] # Absent => schedules'[i] # Absent)
  <2>1. /\ jobs' = jobs /\ schedules' = [schedules EXCEPT ![j] = h[c].copy[j]]
        /\ h[c].copy[j] # Absent
    BY <1>3, Migrates DEF MigrateSchedule
  <2> QED BY <1>0, <2>1
<1>4. CASE UNCHANGED <<jobs, schedules>>
  BY <1>4
<1> QED BY <1>1, <1>2, <1>3, <1>4
        DEF Step, Fail, Exists, Get, ListJobs, MigrateBinding, hashes

(* What a handler has just read, or still holds, of a unit is so ...         *)
LEMMA OwnHeld ==
  ASSUME IInv, HeldOK, NEW c \in Clients, Step(c) \/ Fail(c), NEW i \in Ids \ excused
  PROVE  HeldIsSo(c, i)'
<1> USE DEF At, Req
<1>0. /\ HandlerOK(c) /\ h[c] \in Handler /\ HeldIsSo(c, i)
      /\ jobs \in [Ids -> Unit \cup {Absent}] /\ schedules \in [Ids -> Unit \cup {Absent}]
  BY HandlerRequest DEF HeldOK, IInv, ShapeOK, TypeOK
<1>1. h'[c] = Idle => HeldIsSo(c, i)'
  BY DEF HeldIsSo, Idle
<1>2. CASE Exists(c) \/ Get(c) \/ Fail(c)
  <2>1. CASE h'[c] # Idle
    <3>1. /\ h'[c].req = h[c].req /\ h'[c].todo = h[c].todo /\ h'[c].cur = h[c].cur
          /\ UNCHANGED <<jobs, schedules>> /\ h[c].pc \in {"exists", "get"}
      BY <1>2, <2>1, Lookups DEF hashes
    <3>2. h'[c].todo = {} /\ h'[c].cur = {}
      BY <1>0, <3>1 DEF HandlerOK
    <3>3. CASE h[c].pc = "exists"
      BY <1>0, <3>1, <3>2, <3>3 DEF HandlerOK, OpsAt, HeldIsSo, Changes
    <3>4. CASE h[c].pc = "get"
      <4>1. h'[c].copy = [h[c].copy EXCEPT ![h[c].req.id] = jobs[h[c].req.id]]
        BY <1>2, <2>1, <3>4, Lookups
      <4>2. h[c].copy \in [Ids -> Unit \cup {Absent}]
        BY <1>0 DEF Handler
      <4> QED BY <3>1, <3>2, <4>1, <4>2 DEF HeldIsSo
    <3> QED BY <3>1, <3>3, <3>4
  <2> QED BY <1>1, <2>1
<1>3. CASE Put(c) \/ Del(c)
  BY <1>1, <1>3, JobWrites
<1>4. CASE ListJobs(c)
  <2>1. h[c].cur = {}
    BY <1>0, <1>4 DEF ListJobs, HandlerOK
  <2>2. CASE h'[c] # Idle
    BY <1>4, <2>1, <2>2, ListingJobs DEF HeldIsSo, hashes
  <2> QED BY <1>1, <2>2
<1>5. ASSUME NEW j \in Ids, MigrateSchedule(c, j) PROVE HeldIsSo(c, i)'
  <2>1. jobs' = jobs /\ schedules' = [schedules EXCEPT ![j] = h[c].copy[j]]
    BY <1>5 DEF MigrateSchedule
  <2> QED BY <1>0, <1>5, <2>1, Migrates DEF HeldIsSo
<1>6. CASE MigrateBinding(c) \/ MigrateDrop(c)
  <2>1. CASE h'[c] # Idle
    <3>1. h'[c].copy = h[c].copy /\ h'[c].todo = h[c].todo /\ h'[c].pc \in {"schedule", "drop"}
          /\ h'[c].cur \subseteq h[c].cur
      BY <1>6, <2>1, Binds
    <3>2. CASE MigrateBinding(c)
      <4>1. UNCHANGED <<jobs, schedules>>
        BY <3>2 DEF MigrateBinding
      <4> QED BY <1>0, <3>1, <4>1 DEF HeldIsSo
    <3>3. CASE MigrateDrop(c)
      <4>1. h[c].pc = "drop" /\ h'[c].cur = {}
        BY <2>1, <3>3, Binds DEF MigrateDrop
      <4>2. i \notin h[c].cur => jobs'[i] = jobs[i]
        BY <3>3 DEF MigrateDrop
      <4>3. h[c].cur \cap h[c].todo = {}
        BY <1>0, <4>1 DEF HandlerOK
      <4> QED BY <1>0, <3>1, <4>1, <4>2, <4>3 DEF HeldIsSo
    <3> QED BY <1>6, <3>2, <3>3
  <2> QED BY <1>1, <2>1
<1> QED BY <1>2, <1>3, <1>4, <1>5, <1>6 DEF Step

(* ... and no other handler makes it otherwise.                              *)
LEMMA HeldStep ==
  ASSUME IInv, OverlapsExcused, HeldOK, NEW c \in Clients, Step(c) \/ Fail(c)
  PROVE  HeldOK'
<1>1. excused \subseteq excused' /\ OneHandler(c)
  BY AsksStep, StepsOne
<1>2. ASSUME NEW i \in Ids \ excused, NEW d \in Clients \ {c} PROVE HeldIsSo(d, i)'
  <2>1. h'[d] = h[d] /\ HeldIsSo(d, i)
    BY <1>1 DEF OneHandler, HeldOK
  <2>2. i \in Touches(d) => jobs'[i] = jobs[i]
    BY WritesTouched DEF OverlapsExcused
  <2>3. schedules[i] # Absent => schedules'[i] # Absent
    BY WritesTouched
  <2>4. /\ At(d, "put", Changes) /\ i = Req(d).id => i \in Touches(d)
        /\ i \in h[d].todo \cup h[d].cur => i \in Touches(d)
    BY HoldsTouched DEF At
  <2> QED BY <2>1, <2>2, <2>3, <2>4 DEF HeldIsSo, At, Req
<1> QED BY <1>1, <1>2, OwnHeld DEF HeldOK

LEMMA HeldBegin ==
  ASSUME IInv, HeldOK, NEW c \in Clients, NEW r \in Asked[c], Begin(c, r)
  PROVE  HeldOK'
<1>1. UNCHANGED <<jobs, schedules>> /\ excused \subseteq excused'
  BY DEF Begin, hashes, Excuse
<1>2. ASSUME NEW i \in Ids PROVE HeldIsSo(c, i)'
  BY BeginsOne DEF HeldIsSo, At
<1>3. ASSUME NEW i \in Ids \ excused, NEW d \in Clients \ {c} PROVE HeldIsSo(d, i)'
  BY <1>1, BeginsOne DEF HeldOK, HeldIsSo, At, Req
<1> QED BY <1>1, <1>2, <1>3 DEF HeldOK

-----------------------------------------------------------------------------
(* What a request leaves, of a unit it had to itself, is what it asked for.  *)
LEMMA PutObeys ==
  ASSUME IInv, HeldOK, ObeysOK, NEW c \in Clients, Put(c)
  PROVE  ObeysOK'
<1> PICK i \in Ids : i = Req(c).id
  BY NewJobType
<1> DEFINE r == Req(c)
           new == NewJob(Req(c), h[c].copy[i])
           w == IF r.op = "update" THEN wanted[i] ELSE OnOff(new.paused)
<1>0. /\ wanted \in [Ids -> {"on", "off", "gone"}] /\ jobs \in [Ids -> Unit \cup {Absent}]
      /\ Absent \notin Unit
  BY ConstantsAssumption DEF IInv, ShapeOK, TypeOK
<1>1. /\ jobs' = [jobs EXCEPT ![i] = new] /\ schedules' = schedules /\ i \in Ids /\ new \in Unit
      /\ wanted' = [wanted EXCEPT ![i] = w]
      /\ excused' = excused \cup (IF schedules[i] # Absent /\ w # wanted[i] THEN {i} ELSE {})
  BY NewJobType DEF Put, Heard, Want, Excuse
<1>2. HandlerOK(c) /\ h[c].pc = "put" /\ r.op \in {"create"} \cup Changes
  BY HandlerRequest DEF Put, At, Changes
<1>3. ASSUME NEW j \in Ids \ excused, j # i PROVE Obeys(j)'
  <2>1. jobs'[j] = jobs[j] /\ wanted'[j] = wanted[j]
    BY <1>0, <1>1, <1>3
  <2> QED BY <1>1, <2>1 DEF ObeysOK, Obeys, On, Gone
<1>4. ASSUME i \notin excused' PROVE Obeys(i)'
  <2>1. Obeys(i) /\ jobs'[i] = new /\ wanted'[i] = w /\ new # Absent
    BY <1>0, <1>1, <1>4 DEF ObeysOK
  <2>2. CASE schedules[i] # Absent
    <3>1. w = wanted[i]
      BY <1>1, <1>4, <2>2
    <3>2. On(i)' = On(i) /\ ~Gone(i) /\ ~Gone(i)'
      BY <1>1, <2>1, <2>2 DEF On, Gone
    <3> QED BY <2>1, <3>1, <3>2 DEF Obeys
  <2>3. CASE schedules[i] = Absent /\ r.op # "update"
    <3>1. w = IF new.paused THEN "off" ELSE "on"
      BY <2>3 DEF OnOff
    <3>2. On(i)' = ~new.paused /\ ~Gone(i)'
      BY <1>1, <2>1, <2>3 DEF On, Gone
    <3> QED BY <2>1, <3>1, <3>2 DEF Obeys
  <2>4. CASE schedules[i] = Absent /\ r.op = "update"
    <3>1. h[c].copy[i] = jobs[i] /\ jobs[i] # Absent
      BY <1>1, <1>2, <1>4, <2>4 DEF HeldOK, HeldIsSo, HandlerOK, At, Changes
    <3>2. new.paused = jobs[i].paused /\ w = wanted[i]
      BY <2>4, <3>1 DEF NewJob
    <3>3. On(i)' = On(i) /\ ~Gone(i) /\ ~Gone(i)'
      BY <1>1, <2>1, <2>4, <3>1, <3>2 DEF On, Gone
    <3> QED BY <2>1, <3>2, <3>3 DEF Obeys
  <2> QED BY <2>2, <2>3, <2>4
<1>5. excused \subseteq excused'
  BY <1>1
<1> QED BY <1>3, <1>4, <1>5 DEF ObeysOK

LEMMA DelObeys ==
  ASSUME IInv, ObeysOK, NEW c \in Clients, Del(c)
  PROVE  ObeysOK'
<1> PICK i \in Ids : i = Req(c).id
  BY HandlerRequest DEF Del, At
<1>0. wanted \in [Ids -> {"on", "off", "gone"}] /\ jobs \in [Ids -> Unit \cup {Absent}]
  BY DEF IInv, ShapeOK, TypeOK
<1>1. /\ jobs' = [jobs EXCEPT ![i] = Absent] /\ schedules' = schedules
      /\ wanted' = [wanted EXCEPT ![i] = "gone"]
      /\ excused' = excused \cup (IF schedules[i] # Absent /\ "gone" # wanted[i] THEN {i} ELSE {})
  BY DEF Del, Heard, Want, Excuse
<1>2. ASSUME NEW j \in Ids \ excused, j # i PROVE Obeys(j)'
  <2>1. jobs'[j] = jobs[j] /\ wanted'[j] = wanted[j]
    BY <1>0, <1>1, <1>2
  <2> QED BY <1>1, <2>1 DEF ObeysOK, Obeys, On, Gone
<1>3. ASSUME i \notin excused' PROVE Obeys(i)'
  <2>1. Obeys(i) /\ jobs'[i] = Absent /\ wanted'[i] = "gone"
    BY <1>0, <1>1, <1>3 DEF ObeysOK
  <2>2. schedules[i] = Absent
    BY <1>1, <1>3, <2>1 DEF Obeys, Gone
  <2> QED BY <1>1, <2>1, <2>2 DEF Obeys, Gone
<1> QED BY <1>1, <1>2, <1>3 DEF ObeysOK

(* A migration moves a unit from hash to hash as it is.                      *)
LEMMA MigrateObeys ==
  ASSUME IInv, HeldOK, ObeysOK, NEW c \in Clients,
         MigrateDrop(c) \/ \E i \in Ids : MigrateSchedule(c, i)
  PROVE  ObeysOK'
<1>0. /\ schedules \in [Ids -> Unit \cup {Absent}] /\ wanted' = wanted /\ HandlerOK(c)
  BY HandlerRequest DEF IInv, ShapeOK, TypeOK, MigrateDrop, MigrateSchedule, asks
<1>1. CASE MigrateDrop(c)
  <2>1. schedules' = schedules /\ excused' = excused
    BY <1>1 DEF MigrateDrop, asks
  <2>2. ASSUME NEW i \in Ids \ excused PROVE Obeys(i)'
    <3>1. CASE i \in h[c].cur
      <4>1. schedules[i] # Absent
        BY <3>1 DEF HeldOK, HeldIsSo
      <4> QED BY <1>0, <2>1, <4>1 DEF ObeysOK, Obeys, On, Gone
    <3>2. CASE i \notin h[c].cur
      <4>1. jobs'[i] = jobs[i]
        BY <1>1, <3>2 DEF MigrateDrop
      <4> QED BY <1>0, <2>1, <4>1 DEF ObeysOK, Obeys, On, Gone
    <3> QED BY <3>1, <3>2
  <2> QED BY <2>1, <2>2 DEF ObeysOK
<1>2. ASSUME NEW j \in Ids, MigrateSchedule(c, j) PROVE ObeysOK'
  <2>1. /\ jobs' = jobs /\ schedules' = [schedules EXCEPT ![j] = h[c].copy[j]]
        /\ excused' = excused \cup (IF schedules[j] \notin {Absent, h[c].copy[j]} THEN {j} ELSE {})
        /\ j \in h[c].todo /\ h[c].copy[j] # Absent
    BY <1>2, Migrates DEF MigrateSchedule, Excuse
  <2>2. ASSUME NEW i \in Ids \ excused' PROVE Obeys(i)'
    <3>1. CASE i # j
      <4>1. schedules'[i] = schedules[i]
        BY <1>0, <2>1, <3>1
      <4> QED BY <1>0, <2>1, <4>1 DEF ObeysOK, Obeys, On, Gone
    <3>2. CASE i = j
      <4>1. h[c].copy[i] = jobs[i] /\ schedules[i] \in {Absent, jobs[i]}
            /\ schedules'[i] = jobs[i] /\ jobs[i] # Absent
        BY <1>0, <2>1, <2>2, <3>2 DEF HeldOK, HeldIsSo
      <4>2. On(i)' = On(i) /\ ~Gone(i) /\ ~Gone(i)'
        BY <2>1, <4>1 DEF On, Gone
      <4> QED BY <1>0, <2>1, <2>2, <4>2 DEF ObeysOK, Obeys
    <3> QED BY <3>1, <3>2
  <2> QED BY <2>2 DEF ObeysOK
<1> QED BY <1>1, <1>2

(* The schedule routes do as they are asked, but for a job that a deleted    *)
(* schedule shadowed.                                                        *)
LEMMA RoutesObey ==
  ASSUME IInv, OverlapsExcused, HeldOK, ObeysOK, Schedules
  PROVE  OverlapsExcused' /\ HeldOK' /\ ObeysOK'
<1> PICK i \in Ids : Cancel(i) \/ PutsSchedule(i) \/ LeavesSchedules
  BY Routes
<1>0. /\ schedules \in [Ids -> Unit \cup {Absent}] /\ wanted \in [Ids -> {"on", "off", "gone"}]
      /\ Absent \notin Unit
  BY ConstantsAssumption DEF IInv, ShapeOK, TypeOK
<1>1. /\ UNCHANGED <<jobs, h>> /\ excused \subseteq excused'
      /\ \A j \in Ids : j # i => schedules'[j] = schedules[j] /\ wanted'[j] = wanted[j]
  BY <1>0, Routes DEF Cancel, PutsSchedule, LeavesSchedules, Want, Excuse
<1>2. OverlapsExcused'
  BY <1>1 DEF OverlapsExcused, Touches, Names, Req
<1>3. schedules'[i] # Absent \/ schedules' = schedules \/ (jobs[i] # Absent => i \in excused')
  <2>1. CASE Cancel(i)
    BY <2>1 DEF Cancel, Excuse
  <2>2. CASE PutsSchedule(i)
    BY <1>0, <2>2 DEF PutsSchedule
  <2> QED BY <2>1, <2>2 DEF LeavesSchedules
<1>4. HeldOK'
  <2>1. ASSUME NEW c \in Clients, NEW j \in Ids \ excused' PROVE HeldIsSo(c, j)'
    <3>1. HeldIsSo(c, j)
      BY <1>1 DEF HeldOK
    <3>2. j \in h[c].cur => h[c].copy[j] # Absent
      BY HandlerRequest DEF HandlerOK
    <3>3. j \in h[c].cur => schedules'[j] # Absent
      BY <1>1, <1>3, <3>1, <3>2 DEF HeldIsSo
    <3> QED BY <1>1, <3>1, <3>3 DEF HeldIsSo, At, Req
  <2> QED BY <2>1 DEF HeldOK
<1>5. ASSUME NEW j \in Ids \ excused', j # i PROVE Obeys(j)'
  BY <1>1, <1>5 DEF ObeysOK, Obeys, On, Gone
<1>6. ASSUME i \notin excused' PROVE Obeys(i)'
  <2>1. CASE Cancel(i)
    <3>1. schedules'[i] = Absent /\ jobs'[i] = Absent /\ wanted'[i] = "gone"
      BY <1>0, <1>6, <2>1 DEF Cancel, Want, Excuse
    <3> QED BY <3>1 DEF Obeys, Gone
  <2>2. CASE PutsSchedule(i)
    <3>1. PICK v \in Unit :
            /\ schedules' = [schedules EXCEPT ![i] = v]
            /\ \/ Want(i, OnOff(v.paused))
               \/ wanted' = wanted /\ schedules[i] # Absent /\ v.paused = schedules[i].paused
      BY <2>2 DEF PutsSchedule
    <3>2. schedules'[i] = v /\ v # Absent
      BY <1>0, <3>1
    <3>3. CASE Want(i, OnOff(v.paused))
      <4>1. wanted'[i] = IF v.paused THEN "off" ELSE "on"
        BY <1>0, <3>3 DEF Want, OnOff
      <4> QED BY <3>2, <4>1 DEF Obeys, On, Gone
    <3>4. CASE wanted' = wanted /\ schedules[i] # Absent /\ v.paused = schedules[i].paused
      <4>1. Obeys(i)
        BY <1>1, <1>6 DEF ObeysOK
      <4> QED BY <3>2, <3>4, <4>1 DEF Obeys, On, Gone
    <3> QED BY <3>1, <3>3, <3>4
  <2>3. CASE LeavesSchedules
    BY <1>1, <1>6, <2>3 DEF LeavesSchedules, ObeysOK, Obeys, On, Gone
  <2> QED BY <2>1, <2>2, <2>3
<1> QED BY <1>2, <1>4, <1>5, <1>6 DEF ObeysOK

LEMMA ObeyStep == IInv /\ ObeyInv /\ [Next]_vars => ObeyInv'
<1> SUFFICES ASSUME IInv, ObeyInv, [Next]_vars PROVE ObeyInv'
  OBVIOUS
<1> USE DEF ObeyInv
<1>1. ASSUME NEW c \in Clients, Step(c) \/ Fail(c) PROVE ObeyInv'
  <2>1. CASE UNCHANGED <<jobs, schedules, wanted, excused>>
    <3>1. ObeysOK'
      BY <2>1 DEF ObeysOK, Obeys, On, Gone
    <3> QED BY <1>1, <3>1, OverlapsStep, HeldStep
  <2>2. CASE Put(c) \/ Del(c) \/ MigrateDrop(c) \/ \E i \in Ids : MigrateSchedule(c, i)
    BY <1>1, <2>2, OverlapsStep, HeldStep, PutObeys, DelObeys, MigrateObeys
  <2> QED BY <1>1, <2>1, <2>2
       DEF Step, Fail, Exists, Get, ListJobs, MigrateBinding, hashes, asks
<1>2. ASSUME NEW c \in Clients, NEW r \in Asked[c], Begin(c, r) PROVE ObeyInv'
  <2>1. ObeysOK'
    BY <1>2 DEF Begin, hashes, Excuse, ObeysOK, Obeys, On, Gone
  <2> QED BY <1>2, <2>1, OverlapsBegin, HeldBegin
<1>3. CASE UNCHANGED <<jobs, schedules, h, wanted, excused>>
  BY <1>3 DEF OverlapsExcused, Touches, Names, HeldOK, HeldIsSo, ObeysOK, Obeys, On, Gone, At, Req
<1>4. PollSchedules \/ PollJobs \/ PollFails \/ UNCHANGED vars =>
        UNCHANGED <<jobs, schedules, h, wanted, excused>>
  BY DEF PollSchedules, PollJobs, PollFails, vars, hashes, asks
<1> QED BY <1>1, <1>2, <1>3, <1>4, RoutesObey DEF Next, Handlers

(* The registry ends up with what the requests that took effect asked for,   *)
(* whichever hash a migration has left a unit in: but for overlapping        *)
(* requests, one about a shadowed job, the deletion of a schedule that       *)
(* shadows one, and a migration over a changed schedule, nothing that        *)
(* interleaves or fails in the middle makes a unit stand otherwise.          *)
THEOREM RegistryDoesAsAsked == Spec => []RegistryObeys
<1>1. IInv /\ ObeyInv => RegistryObeys
  BY ObeysIs DEF ObeyInv
<1> QED BY <1>1, InitInv, StepInv, ObeyStep, PTL DEF Spec

-----------------------------------------------------------------------------
(* A step of a handler leaves no schedule without its binding, but the one   *)
(* whose job it still has.                                                   *)
LEMMA MutedHandler ==
  ASSUME IInv, ObeyInv, MutedOK, NEW c \in Clients,
         Step(c) \/ Fail(c) \/ \E r \in Asked[c] : Begin(c, r)
  PROVE  MutedOK'
<1> USE DEF Req
<1>0. /\ half' = half /\ excused \subseteq excused' /\ \A d \in Clients \ {c} : h'[d] = h[d]
      /\ schedules \in [Ids -> Unit \cup {Absent}] /\ jobs \in [Ids -> Unit \cup {Absent}]
  BY StepsOne, BeginsOne, AsksStep DEF OneHandler, IInv, ShapeOK, TypeOK, Begin, Excuse, routes
<1> SUFFICES ASSUME NEW i \in Ids \ (excused' \cup bare'), Muted(i)', ~Half(i)
             PROVE  jobs'[i] # Absent /\ \A d \in Clients : h'[d].pc = "drop" => i \notin h'[d].cur
  BY <1>0 DEF MutedOK, Half
<1>1. CASE \/ Exists(c) \/ Get(c) \/ Fail(c) \/ ListJobs(c)
           \/ \E r \in Asked[c] : Begin(c, r)
  <2>1. UNCHANGED <<jobs, schedules, bindings, bare>>
    BY <1>1 DEF Exists, Get, Fail, ListJobs, Begin, hashes, routes
  <2>2. h'[c].pc # "drop"
    <3>1. CASE Exists(c) \/ Get(c) \/ Fail(c)
      <4>1. h'[c] = Idle => h'[c].pc # "drop"
        BY DEF Idle
      <4>2. h'[c] # Idle => h'[c].pc \in {"put", "del"}
        BY <3>1, Lookups
      <4> QED BY <4>1, <4>2
    <3>2. CASE ListJobs(c)
      BY <3>2, ListingJobs DEF Idle
    <3>3. ASSUME NEW r \in Asked[c], Begin(c, r) PROVE h'[c].pc # "drop"
      BY <3>3, BeginsOne
    <3> QED BY <1>1, <3>1, <3>2, <3>3
  <2> QED BY <1>0, <2>1, <2>2 DEF MutedOK, Muted
<1>2. CASE Put(c)
  <2>1. /\ UNCHANGED <<schedules, bindings, bare>> /\ h'[c] = Idle
        /\ jobs' = [jobs EXCEPT ![h[c].req.id] = NewJob(h[c].req, h[c].copy[h[c].req.id])]
    BY <1>2, JobWrites DEF Put, routes
  <2>2. NewJob(h[c].req, h[c].copy[h[c].req.id]) # Absent
    BY <1>2, NewJobType, ConstantsAssumption
  <2>3. jobs[i] # Absent /\ \A d \in Clients : h[d].pc = "drop" => i \notin h[d].cur
    BY <1>0, <2>1 DEF MutedOK, Muted
  <2> QED BY <1>0, <2>1, <2>2, <2>3 DEF Idle
<1>3. CASE Del(c)
  <2>1. /\ UNCHANGED <<schedules, bindings, bare>> /\ h'[c] = Idle /\ h[c].req.id \in Ids
        /\ jobs' = [jobs EXCEPT ![h[c].req.id] = Absent] /\ Heard(h[c].req.id, "gone")
    BY <1>3, JobWrites, HandlerRequest DEF Del, At, routes
  <2>2. jobs[i] # Absent /\ \A d \in Clients : h[d].pc = "drop" => i \notin h[d].cur
    BY <1>0, <2>1 DEF MutedOK, Muted
  <2>3. i # h[c].req.id
    <3>1. SUFFICES ASSUME i = h[c].req.id PROVE FALSE
      OBVIOUS
    <3>2. schedules[i] # Absent
      BY <2>1 DEF Muted
    <3>3. wanted[i] = "gone"
      BY <2>1, <3>1, <3>2 DEF Heard, Excuse
    <3> QED BY <1>0, <3>2, <3>3 DEF ObeyInv, ObeysOK, Obeys, Gone
  <2> QED BY <1>0, <2>1, <2>2, <2>3 DEF Idle
<1>4. ASSUME NEW j \in Ids, MigrateSchedule(c, j)
      PROVE  jobs'[i] # Absent /\ \A d \in Clients : h'[d].pc = "drop" => i \notin h'[d].cur
  <2>1. /\ UNCHANGED <<jobs, bindings, bare>> /\ schedules' = [schedules EXCEPT ![j] = h[c].copy[j]]
        /\ h'[c].pc = "bind" /\ j \in h[c].todo /\ h[c].copy[j] # Absent
    BY <1>4, Migrates DEF MigrateSchedule, routes
  <2>2. CASE i # j
    BY <1>0, <2>1, <2>2 DEF MutedOK, Muted
  <2>3. CASE i = j
    <3>1. jobs[i] # Absent
      BY <1>0, <2>1, <2>3 DEF ObeyInv, HeldOK, HeldIsSo
    <3>2. ASSUME NEW d \in Clients \ {c}, h[d].pc = "drop", i \in h[d].cur PROVE FALSE
      <4>1. i \in Touches(c) /\ i \in Touches(d)
        BY <2>1, <2>3, <3>2, HoldsTouched
      <4> QED BY <1>0, <4>1 DEF ObeyInv, OverlapsExcused
    <3> QED BY <1>0, <2>1, <3>1, <3>2
  <2> QED BY <2>2, <2>3
<1>5. CASE MigrateBinding(c)
  <2>1. /\ UNCHANGED <<jobs, schedules>> /\ bindings' = bindings \cup h[c].cur
        /\ bare' = bare \ h[c].cur
    BY <1>5 DEF MigrateBinding
  <2>2. i \notin h[c].cur
    BY <2>1 DEF Muted
  <2>3. h'[c] = Idle \/ h'[c].cur \subseteq h[c].cur
    BY <1>5, Binds
  <2> QED BY <1>0, <2>1, <2>2, <2>3 DEF MutedOK, Muted, Idle
<1>6. CASE MigrateDrop(c)
  <2>1. /\ UNCHANGED <<schedules, bindings, bare>> /\ h[c].pc = "drop"
        /\ jobs' = [k \in Ids |-> IF k \in h[c].cur THEN Absent ELSE jobs[k]]
    BY <1>6 DEF MigrateDrop, At, routes
  <2>2. jobs[i] # Absent /\ \A d \in Clients : h[d].pc = "drop" => i \notin h[d].cur
    BY <1>0, <2>1 DEF MutedOK, Muted
  <2>3. h'[c].pc # "drop"
    BY <1>6, <2>1, Binds DEF Idle
  <2> QED BY <1>0, <2>1, <2>2, <2>3
<1> QED BY <1>1, <1>2, <1>3, <1>4, <1>5, <1>6 DEF Step

(* A route, and the bus, leave no schedule unbound that they do not own up to. *)
LEMMA MutedRoutes ==
  ASSUME IInv, MutedOK, Schedules
  PROVE  MutedOK'
<1>0. /\ UNCHANGED <<jobs, h>> /\ schedules \in [Ids -> Unit \cup {Absent}]
      /\ Absent \notin Unit
  BY Routes, ConstantsAssumption DEF IInv, ShapeOK, TypeOK
<1> DEFINE Owned(i) == i \in excused \cup bare \/ ~Muted(i) \/ Half(i)
<1>1. SUFFICES \A i \in Ids : Owned(i) => Owned(i)'
  BY <1>0 DEF MutedOK
<1> SUFFICES ASSUME NEW i \in Ids, Owned(i), i \notin excused', i \notin bare', Muted(i)'
             PROVE  Half(i)'
  OBVIOUS
<1>2. ASSUME NEW j \in Ids, NEW v \in Unit, CreateSchedule(j, v) PROVE Half(i)'
  BY <1>0, <1>2 DEF CreateSchedule, SetSchedule, LeftBare, Muted, Half
<1>3. ASSUME NEW j \in Ids, NEW v \in Unit, UpdateSchedule(j, v) PROVE Half(i)'
  BY <1>0, <1>3 DEF UpdateSchedule, Muted, Half, routes, asks
<1>4. ASSUME NEW j \in Ids, NEW p \in BOOLEAN, SetPaused(j, p) PROVE Half(i)'
  BY <1>0, <1>4 DEF SetPaused, SetSchedule, Muted, Half, routes
<1>5. ASSUME NEW j \in Ids, Bind(j) \/ Unbind(j) PROVE Half(i)'
  BY <1>5 DEF Bind, Unbind, LeftBare, Muted, Half, asks
<1>6. ASSUME NEW j \in Ids, NEW v \in Unit, Register(j, v) PROVE Half(i)'
  <2>1. i = j => Half(i)'
    <3>1. half' = half \cup {[id |-> j, by |-> "bus"]}
      BY <1>6 DEF Register
    <3>2. [id |-> j, by |-> "bus"] \in half' /\ [id |-> j, by |-> "bus"].id = j
      BY <3>1
    <3> QED BY <3>2 DEF Half
  <2> QED BY <1>0, <1>6, <2>1 DEF Register, SetSchedule, Muted, Half
<1>7. ASSUME NEW j \in Ids, RegisterBinding(j) \/ Cascade(j) PROVE Half(i)'
  <2>1. CASE RegisterBinding(j)
    <3>1. i # j
      BY <2>1 DEF RegisterBinding, Muted
    <3> QED BY <2>1, <3>1 DEF RegisterBinding, Muted, Half, asks
  <2>2. CASE Cascade(j)
    <3>1. i = j => Half(i)'
      <4>1. half' = half \cup {[id |-> j, by |-> "delete"]}
        BY <2>2 DEF Cascade
      <4>2. [id |-> j, by |-> "delete"] \in half' /\ [id |-> j, by |-> "delete"].id = j
        BY <4>1
      <4> QED BY <4>2 DEF Half
    <3> QED BY <2>2, <3>1 DEF Cascade, Muted, Half, asks
  <2> QED BY <1>7, <2>1, <2>2
<1>8. ASSUME NEW j \in Ids, Cancel(j) PROVE Half(i)'
  <2>1. i # j
    BY <1>0, <1>8 DEF Cancel, Muted
  <2>2. excused \subseteq excused'
    BY <1>8 DEF Cancel, Excuse
  <2> QED BY <1>0, <1>8, <2>1, <2>2 DEF Cancel, Muted, Half
<1>9. ASSUME NEW x \in half, HalfFails(x) PROVE Half(i)'
  <2>1. i # x.id
    BY <1>9 DEF HalfFails, LeftBare, Muted, hashes
  <2> QED BY <1>9, <2>1 DEF HalfFails, LeftBare, Muted, Half, hashes, asks
<1> QED BY <1>2, <1>3, <1>4, <1>5, <1>6, <1>7, <1>8, <1>9, CreateShape DEF Schedules

LEMMA MutedStep == IInv /\ ObeyInv /\ MutedOK /\ [Next]_vars => MutedOK'
<1> SUFFICES ASSUME IInv, ObeyInv, MutedOK, [Next]_vars PROVE MutedOK'
  OBVIOUS
<1>1. CASE PollSchedules \/ PollJobs \/ PollFails \/ UNCHANGED vars
  <2>1. UNCHANGED <<jobs, schedules, bindings, h, half, bare, excused>>
    BY <1>1 DEF PollSchedules, PollJobs, PollFails, vars, hashes, routes, asks
  <2> QED BY <2>1 DEF MutedOK, Muted, Half
<1> QED BY <1>1, MutedHandler, MutedRoutes DEF Next, Handlers

(* Whatever fails or interleaves, a schedule without a binding that neither a *)
(* route nor the bus left so has its job beside it: a migration, however     *)
(* many run at once, drops a job only once its schedule can fire for it.     *)
THEOREM MutedIsMendable == Spec => []MutedKeepsJob
<1>1. MutedOK => MutedKeepsJob
  BY DEF MutedOK, MutedKeepsJob
<1> QED BY <1>1, InitInv, StepInv, ObeyStep, MutedStep, PTL DEF Spec
=============================================================================
