------------------------------ MODULE JobFacade ------------------------------
(* The legacy jobs beside the schedules they are migrated to, and the poll   *)
(* that decides which of either fire: the job routes and the migration       *)
(* (api.py), the schedule source's get_schedules (tasks.py), the hashes they *)
(* share (registry.py).  A unit is an id: it may be a job, a schedule, both  *)
(* (a migration that keeps the jobs) or neither; as both, the schedule rules *)
(* and the job is shadowed.                                                  *)
(*                                                                           *)
(* Every Redis command of a job route, a migration or a poll is a step.      *)
(* RegistryApi has the schedule routes in that detail; here what a route     *)
(* reads and the first thing it writes happen at once, but the bus' upsert   *)
(* and the delete of a schedule, which write twice, have two steps.  What a  *)
(* unit fires is not told apart, only whether it fires; of the bindings of a *)
(* schedule it is known whether there are any.                               *)
EXTENDS Triggers, FiniteSets

CONSTANTS
  Ids, Clients,
  Absent,       \* no such field in the hash
  Keep,         \* in a PATCH: not given
  Asked,        \* the requests each client makes
  MaxHalf,      \* bound: schedule routes and upserts between their writes
  MaxFailures   \* bound

VARIABLES
  jobs, schedules,  \* the two hashes: id -> Unit or Absent
  bindings,         \* the ids under which bindings are stored
  half,             \* the upserts and schedule deletes between their writes
  h,                \* the running handlers
  phase, snap,      \* get_schedules: is it between its reads, what the first returned
  list,             \* the scheduler's tasks: what its last poll returned
  steady,           \* history: where each unit has been since the poll began
  wanted,           \* history: what the last write took effect for asked of a unit
  excused,          \* history: units whose requests the code may not keep to
  bare,             \* history: units whose schedule a route or the bus left unbound
  failures          \* history: calls that raised

hashes == <<jobs, schedules, bindings>>
routes == <<half, bare>>
poll == <<phase, snap, list>>
asks == <<wanted, excused>>
vars == <<hashes, h, routes, poll, steady, asks, failures>>

-----------------------------------------------------------------------------
(* JobDefinition and Schedule, without the payload.                          *)
Unit == [paused : BOOLEAN, type : Types, args : Args]

Requests ==
  [op : {"create"}, id : Ids, new : Unit]
  \cup [op : {"update"}, id : Ids, type : Types \cup {Keep}, args : Args \cup {Keep}]
  \cup [op : {"pause", "resume", "delete"}, id : Ids]
  \cup [op : {"migrate"}, drop : BOOLEAN]

ASSUME ConstantsAssumption ==
  /\ Asked \in [Clients -> SUBSET Requests] /\ MaxHalf \in Nat /\ MaxFailures \in Nat
  /\ Keep \notin Types \cup Args /\ Absent \notin Unit

Creates == {r \in UNION {Asked[c] : c \in Clients} : r.op = "create"}
Nothing == [i \in Ids |-> Absent]
NoRequest == [op |-> "none"]
Idle == [pc |-> "idle", req |-> NoRequest, copy |-> Nothing, todo |-> {}, cur |-> {}]
Req(c) == h[c].req
At(c, pc, ops) == h[c].pc = pc /\ Req(c).op \in ops
Goto(c, pc) == h' = [h EXCEPT ![c].pc = pc]
Answer(c) == h' = [h EXCEPT ![c] = Idle]

(* The units a request touches, and those a running handler still works on.  *)
Names(r) == IF r.op = "migrate" THEN Ids ELSE {r.id}
Touches(c) ==
  IF h[c].pc = "idle" THEN {}
  ELSE IF h[c].pc \in {"schedule", "bind", "drop"} THEN h[c].todo \cup h[c].cur
  ELSE Names(Req(c))

(* Which hash rules a unit, and whether the unit fires.                      *)
Standing(i) ==
  IF schedules[i] # Absent THEN <<"schedule", ~schedules[i].paused>>
  ELSE IF jobs[i] # Absent THEN <<"job", ~jobs[i].paused>>
  ELSE <<"nowhere", FALSE>>
Moved == <<"moved", FALSE>>

Want(i, what) == wanted' = [wanted EXCEPT ![i] = what]
OnOff(paused) == IF paused THEN "off" ELSE "on"
Excuse(S) == excused' = excused \cup S

(* The registry persists: the service may start with jobs in it.             *)
Init ==
  /\ jobs \in [Ids -> {r.new : r \in Creates} \cup {Absent}]
  /\ \A i \in Ids : jobs[i] # Absent => Valid(jobs[i].type, jobs[i].args)
  /\ schedules = Nothing /\ bindings = {} /\ half = {} /\ bare = {}
  /\ h = [c \in Clients |-> Idle]
  /\ phase = "idle" /\ snap = Nothing /\ list = {}
  /\ steady = [i \in Ids |-> Moved]
  /\ wanted = [i \in Ids |-> IF jobs[i] = Absent THEN "gone" ELSE OnOff(jobs[i].paused)]
  /\ excused = {} /\ failures = 0

-----------------------------------------------------------------------------
(* A request arrives.  create validates its trigger before it reads (422).   *)
Begin(c, r) ==
  /\ h[c].pc = "idle"
  /\ r.op = "create" => Valid(r.new.type, r.new.args)
  /\ h' = [h EXCEPT ![c] = [Idle EXCEPT !.req = r,
             !.pc = CASE r.op = "create" -> "exists" [] r.op = "migrate" -> "list"
                      [] OTHER -> "get"]]
  /\ Excuse(Names(r) \cap UNION {Touches(d) : d \in Clients})
  /\ UNCHANGED <<hashes, routes, poll, wanted, failures>>

Fail(c) ==  \* a call raises: 500, and no later step of the handler happens
  /\ h[c].pc # "idle" /\ failures < MaxFailures
  /\ failures' = failures + 1 /\ Answer(c)
  /\ UNCHANGED <<hashes, routes, poll, asks>>

Exists(c) ==  \* registry.exists, 409
  /\ At(c, "exists", {"create"})
  /\ IF jobs[Req(c).id] # Absent THEN Answer(c) ELSE Goto(c, "put")
  /\ UNCHANGED <<hashes, routes, poll, asks, failures>>

(* An update gives both parts of a trigger, a valid one, or neither (422).   *)
Refused(r) ==
  /\ r.op = "update" /\ ~(r.type = Keep /\ r.args = Keep)
  /\ (r.type = Keep \/ r.args = Keep \/ ~Valid(r.type, r.args))

GetLax(c) ==  \* mutant: an update may give one part of a trigger
  /\ At(c, "get", {"update", "pause", "resume", "delete"})
  /\ LET i == Req(c).id IN
     IF jobs[i] = Absent THEN Answer(c)
     ELSE h' = [h EXCEPT ![c].copy[i] = jobs[i],
                         ![c].pc = IF Req(c).op = "delete" THEN "del" ELSE "put"]
  /\ UNCHANGED <<hashes, routes, poll, asks, failures>>

Get(c) ==  \* _job_or_404
  /\ At(c, "get", {"update", "pause", "resume", "delete"})
  /\ LET i == Req(c).id IN
     IF jobs[i] = Absent \/ Refused(Req(c)) THEN Answer(c)
     ELSE h' = [h EXCEPT ![c].copy[i] = jobs[i],
                         ![c].pc = IF Req(c).op = "delete" THEN "del" ELSE "put"]
  /\ UNCHANGED <<hashes, routes, poll, asks, failures>>

NewJob(r, old) ==
  CASE r.op = "create" -> r.new
    [] r.op = "update" -> [paused |-> old.paused,
                           type |-> IF r.type = Keep THEN old.type ELSE r.type,
                           args |-> IF r.args = Keep THEN old.args ELSE r.args]
    [] OTHER -> [old EXCEPT !.paused = (r.op = "pause")]

(* What the write was asked to do; it does nothing, for a shadowed job.      *)
Heard(i, what) ==
  /\ Want(i, what)
  /\ Excuse(IF schedules[i] # Absent /\ what # wanted[i] THEN {i} ELSE {})

PutForgets(c) ==  \* mutant: an update builds a new job, not paused
  /\ At(c, "put", {"create", "update", "pause", "resume"})
  /\ LET r == Req(c)
         new == [NewJob(r, h[c].copy[r.id]) EXCEPT
                   !.paused = IF r.op = "update" THEN FALSE ELSE @]
     IN /\ jobs' = [jobs EXCEPT ![r.id] = new]
        /\ Heard(r.id, IF r.op = "update" THEN wanted[r.id] ELSE OnOff(new.paused))
  /\ Answer(c)
  /\ UNCHANGED <<schedules, bindings, routes, poll, failures>>

Put(c) ==  \* registry.put
  /\ At(c, "put", {"create", "update", "pause", "resume"})
  /\ LET r == Req(c)
         new == NewJob(r, h[c].copy[r.id])
     IN /\ jobs' = [jobs EXCEPT ![r.id] = new]
        /\ Heard(r.id, IF r.op = "update" THEN wanted[r.id] ELSE OnOff(new.paused))
  /\ Answer(c)
  /\ UNCHANGED <<schedules, bindings, routes, poll, failures>>

Del(c) ==  \* registry.delete; what becomes of the job's stream is Service's
  /\ At(c, "del", {"delete"})
  /\ jobs' = [jobs EXCEPT ![Req(c).id] = Absent]
  /\ Heard(Req(c).id, "gone")
  /\ Answer(c)
  /\ UNCHANGED <<schedules, bindings, routes, poll, failures>>

-----------------------------------------------------------------------------
(* migrate_jobs_to_schedules: one read of the jobs, then for each a schedule,*)
(* a binding and, if asked, the end of the job.                              *)
Next1(c, todo) ==
  h' = [h EXCEPT ![c] = IF todo = {} THEN Idle
                        ELSE [@ EXCEPT !.pc = "schedule", !.cur = {}]]

ListJobs(c) ==
  /\ At(c, "list", {"migrate"})
  /\ LET S == {i \in Ids : jobs[i] # Absent} IN
     h' = [h EXCEPT ![c] = IF S = {} THEN Idle
             ELSE [@ EXCEPT !.pc = "schedule", !.copy = jobs, !.todo = S]]
  /\ UNCHANGED <<hashes, routes, poll, asks, failures>>

MigrateEarlyDrop(c, i) ==  \* mutant: the job is dropped before the binding is put
  /\ At(c, "schedule", {"migrate"}) /\ i \in h[c].todo
  /\ schedules' = [schedules EXCEPT ![i] = h[c].copy[i]]
  /\ Excuse(IF schedules[i] \notin {Absent, h[c].copy[i]} THEN {i} ELSE {})
  /\ jobs' = [jobs EXCEPT ![i] = IF Req(c).drop THEN Absent ELSE @]
  /\ h' = [h EXCEPT ![c].pc = "bind", ![c].todo = @ \ {i}, ![c].cur = {i}]
  /\ UNCHANGED <<bindings, routes, poll, wanted, failures>>

MigrateSchedule(c, i) ==
  /\ At(c, "schedule", {"migrate"}) /\ i \in h[c].todo
  /\ schedules' = [schedules EXCEPT ![i] = h[c].copy[i]]
  /\ Excuse(IF schedules[i] \notin {Absent, h[c].copy[i]} THEN {i} ELSE {})
  /\ h' = [h EXCEPT ![c].pc = "bind", ![c].todo = @ \ {i}, ![c].cur = {i}]
  /\ UNCHANGED <<jobs, bindings, routes, poll, wanted, failures>>

MigrateBinding(c) ==
  /\ At(c, "bind", {"migrate"})
  /\ bindings' = bindings \cup h[c].cur /\ bare' = bare \ h[c].cur
  /\ IF Req(c).drop THEN Goto(c, "drop") ELSE Next1(c, h[c].todo)
  /\ UNCHANGED <<jobs, schedules, half, poll, asks, failures>>

MigrateDrop(c) ==
  /\ At(c, "drop", {"migrate"})
  /\ jobs' = [i \in Ids |-> IF i \in h[c].cur THEN Absent ELSE jobs[i]]
  /\ Next1(c, h[c].todo)
  /\ UNCHANGED <<schedules, bindings, routes, poll, asks, failures>>

-----------------------------------------------------------------------------
(* The schedule routes and the bus' upsert (see RegistryApi).                *)
Half(i) == \E x \in half : x.id = i
MayHalve == Cardinality(half) < MaxHalf
SetSchedule(i, v) == schedules' = [schedules EXCEPT ![i] = v] /\ Want(i, OnOff(v.paused))
LeftBare(i) == bare' = IF schedules'[i] # Absent /\ i \notin bindings' THEN bare \cup {i} ELSE bare

CreateSchedule(i, v) ==
  /\ schedules[i] = Absent /\ SetSchedule(i, v)
  /\ UNCHANGED <<jobs, bindings, h, half, poll, excused, failures>>
  /\ LeftBare(i)

UpdateSchedule(i, v) ==  \* the trigger of v, and paused as it is
  /\ schedules[i] # Absent
  /\ schedules' = [schedules EXCEPT ![i] = [v EXCEPT !.paused = schedules[i].paused]]
  /\ UNCHANGED <<jobs, bindings, h, routes, poll, asks, failures>>

SetPaused(i, p) ==
  /\ schedules[i] # Absent /\ SetSchedule(i, [schedules[i] EXCEPT !.paused = p])
  /\ UNCHANGED <<jobs, bindings, h, routes, poll, excused, failures>>

Bind(i) ==
  /\ schedules[i] # Absent
  /\ bindings' = bindings \cup {i} /\ bare' = bare \ {i}
  /\ UNCHANGED <<jobs, schedules, h, half, poll, asks, failures>>

Unbind(i) ==  \* the last binding is deleted
  /\ i \in bindings
  /\ bindings' = bindings \ {i}
  /\ UNCHANGED <<jobs, schedules, h, half, poll, asks, failures>>
  /\ LeftBare(i)

(* The bus: its one task puts the schedule, then the binding.                *)
Register(i, v) ==
  /\ MayHalve /\ (\A x \in half : x.by # "bus") /\ SetSchedule(i, v)
  /\ half' = half \cup {[id |-> i, by |-> "bus"]}
  /\ UNCHANGED <<jobs, bindings, h, bare, poll, excused, failures>>

RegisterBinding(i) ==
  /\ [id |-> i, by |-> "bus"] \in half
  /\ half' = half \ {[id |-> i, by |-> "bus"]}
  /\ bindings' = bindings \cup {i} /\ bare' = bare \ {i}
  /\ UNCHANGED <<jobs, schedules, h, poll, asks, failures>>

(* DELETE: the bindings, then the schedule; the job it shadowed comes back.  *)
Cascade(i) ==
  /\ MayHalve /\ schedules[i] # Absent
  /\ half' = half \cup {[id |-> i, by |-> "delete"]}
  /\ bindings' = bindings \ {i}
  /\ UNCHANGED <<jobs, schedules, h, bare, poll, asks, failures>>

Cancel(i) ==
  /\ [id |-> i, by |-> "delete"] \in half
  /\ half' = half \ {[id |-> i, by |-> "delete"]}
  /\ schedules' = [schedules EXCEPT ![i] = Absent] /\ bare' = bare \ {i}
  /\ Want(i, "gone") /\ Excuse(IF jobs[i] # Absent THEN {i} ELSE {})
  /\ UNCHANGED <<jobs, bindings, h, poll, failures>>

(* A call raises between the two.                                            *)
HalfFails(x) ==
  /\ failures < MaxFailures /\ failures' = failures + 1
  /\ half' = half \ {x}
  /\ UNCHANGED <<hashes, h, poll, asks>>
  /\ LeftBare(x.id)

-----------------------------------------------------------------------------
(* get_schedules: the schedules, then the jobs that no schedule shadows.     *)
Fires(u) == u # Absent /\ ~u.paused /\ Schedulable(u.type, u.args)
Tasks(mode, S) == [id : S, mode : {mode}]
Listed == {t.id : t \in list}

PollCached ==  \* mutant: once it has found something the source reads no more
  /\ phase = "idle" /\ list = {}
  /\ phase' = "jobs" /\ snap' = schedules
  /\ UNCHANGED <<hashes, h, routes, list, asks, failures>>

PollSchedules ==
  /\ phase = "idle"
  /\ phase' = "jobs" /\ snap' = schedules
  /\ UNCHANGED <<hashes, h, routes, list, asks, failures>>

PollShadowsActive ==  \* mutant: only a schedule that fires shadows its job
  /\ phase = "jobs"
  /\ list' = Tasks("schedule", {i \in Ids : Fires(snap[i])})
             \cup Tasks("job", {i \in Ids : ~Fires(snap[i]) /\ Fires(jobs[i])})
  /\ phase' = "idle" /\ snap' = Nothing
  /\ UNCHANGED <<hashes, h, routes, asks, failures>>

PollAll ==  \* mutant: a job is listed beside its schedule
  /\ phase = "jobs"
  /\ list' = Tasks("schedule", {i \in Ids : Fires(snap[i])})
             \cup Tasks("job", {i \in Ids : Fires(jobs[i])})
  /\ phase' = "idle" /\ snap' = Nothing
  /\ UNCHANGED <<hashes, h, routes, asks, failures>>

PollJobs ==
  /\ phase = "jobs"
  /\ list' = Tasks("schedule", {i \in Ids : Fires(snap[i])})
             \cup Tasks("job", {i \in Ids : snap[i] = Absent /\ Fires(jobs[i])})
  /\ phase' = "idle" /\ snap' = Nothing
  /\ UNCHANGED <<hashes, h, routes, asks, failures>>

(* A read raises: the scheduler keeps what it has or works with nothing.     *)
PollFails ==
  /\ failures < MaxFailures /\ failures' = failures + 1
  /\ phase' = "idle" /\ snap' = Nothing
  /\ list' \in {list, {}}
  /\ UNCHANGED <<hashes, h, routes, asks>>

(* What steady records: a unit that changed its standing during a poll.      *)
Watch ==
  steady' = [i \in Ids |->
    IF phase' = "idle" THEN Moved
    ELSE IF phase = "idle" THEN Standing(i)'
    ELSE IF Standing(i)' = steady[i] THEN steady[i] ELSE Moved]

Step(c) ==
  \/ Exists(c) \/ Get(c) \/ Put(c) \/ Del(c)
  \/ ListJobs(c) \/ MigrateBinding(c) \/ MigrateDrop(c)
  \/ \E i \in Ids : MigrateSchedule(c, i)

Handlers == \E c \in Clients : Step(c) \/ Fail(c) \/ \E r \in Asked[c] : Begin(c, r)
Schedules ==
  \/ \E i \in Ids :
       \/ \E r \in Creates :
            /\ Valid(r.new.type, r.new.args)
            /\ CreateSchedule(i, r.new) \/ UpdateSchedule(i, r.new) \/ Register(i, r.new)
       \/ \E p \in BOOLEAN : SetPaused(i, p)
       \/ Bind(i) \/ Unbind(i) \/ RegisterBinding(i) \/ Cascade(i) \/ Cancel(i)
  \/ \E x \in half : HalfFails(x)

Next == (Handlers \/ Schedules \/ PollSchedules \/ PollJobs \/ PollFails) /\ Watch

Spec == Init /\ [][Next]_vars

(* The scheduler polls every update_interval for as long as it lives.        *)
FairSpec == Spec /\ WF_vars(PollSchedules /\ Watch) /\ WF_vars(PollJobs /\ Watch)

-----------------------------------------------------------------------------
Handler ==
  [pc : {"idle", "exists", "get", "put", "del", "list", "schedule", "bind", "drop"},
   req : Requests \cup {NoRequest}, copy : [Ids -> Unit \cup {Absent}],
   todo : SUBSET Ids, cur : SUBSET Ids]

(* The variables have their types, and whatever path a trigger took into a   *)
(* hash, it is one the API accepts and Taskiq can schedule.                  *)
TypeOK ==
  /\ jobs \in [Ids -> Unit \cup {Absent}] /\ schedules \in [Ids -> Unit \cup {Absent}]
  /\ \A i \in Ids : \A u \in {jobs[i], schedules[i]} \ {Absent} : Valid(u.type, u.args)
  /\ bindings \subseteq Ids /\ half \subseteq [id : Ids, by : {"bus", "delete"}]
  /\ h \in [Clients -> Handler]
  /\ phase \in {"idle", "jobs"} /\ snap \in [Ids -> Unit \cup {Absent}]
  /\ list \subseteq [id : Ids, mode : {"schedule", "job"}]
  /\ wanted \in [Ids -> {"on", "off", "gone"}]
  /\ excused \subseteq Ids /\ bare \subseteq Ids /\ failures \in Nat

(* "avoid a duplicate ScheduledTask" (tasks.py): a unit that is a job and a  *)
(* schedule, or becomes one between the two reads, is not kicked twice.      *)
OncePerPoll == \A t, u \in list : t.id = u.id => t = u

(* A poll tells the truth about every unit that has not changed its standing *)
(* between the poll's two reads, whatever else was written meanwhile.        *)
PollIsFaithful ==
  [][phase = "jobs" /\ phase' = "idle" /\ failures' = failures =>
       \A i \in Ids \ {j \in Ids : steady[j] = Moved} :
         (i \in Listed)' <=> steady[i][2]]_vars

(* What the requests that took effect last asked for is what the registry    *)
(* holds, job or schedule, migrated or not, but for four ways to lose track  *)
(* of a unit: overlapping requests, a request about a job that a schedule    *)
(* shadows, the deletion of such a schedule, and a migration over a schedule *)
(* changed since.                                                            *)
RegistryObeys ==
  \A i \in Ids \ excused :
    CASE wanted[i] = "on" -> Standing(i)[2]
      [] wanted[i] = "off" -> Standing(i)[1] # "nowhere" /\ ~Standing(i)[2]
      [] wanted[i] = "gone" -> Standing(i)[1] = "nowhere"

(* A schedule without a binding fires nothing, and shadows its job.  Where   *)
(* neither a route nor the bus has left it so, a migration has, in progress  *)
(* or cut short; then the job is still there, and the migration, which the   *)
(* API calls idempotent and reversible, can be run again to mend it.         *)
Muted(i) == schedules[i] # Absent /\ i \notin bindings
MutedKeepsJob ==
  \A i \in Ids \ (excused \cup bare) : Muted(i) /\ ~Half(i) => jobs[i] # Absent

(* In the end the scheduler does what was asked of a unit last.              *)
PollCatchesUp ==
  \A i \in Ids :
    /\ <>[](wanted[i] = "on" /\ i \notin excused) => <>[](i \in Listed)
    /\ <>[](wanted[i] # "on" /\ i \notin excused) => <>[](i \notin Listed)

-----------------------------------------------------------------------------
(* interface_specification.md, POST /jobs/{id}/pause: "Pause (stop firing,   *)
(* keep definition)".  A unit that stays paused stops being listed.          *)
PausedGoesQuiet == \A i \in Ids : <>[](wanted[i] = "off") => <>[](i \notin Listed)
=============================================================================
