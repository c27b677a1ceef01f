------------------------------ MODULE FirePath ------------------------------
(* How a due schedule or job becomes envelopes on the bus (tasks.py).        *)
(*                                                                           *)
(* The Taskiq scheduler kicks one message per due unit onto the broker's     *)
(* Redis stream; the embedded worker reads it through a consumer group, runs *)
(* emit_trigger as one asyncio task per message and acks it when the task    *)
(* returns or raises.  emit_trigger captures the wall-clock minute, resolves *)
(* the bindings, and for each claims a per-minute key in Redis (SET NX EX)   *)
(* before it publishes.  Every await of emit_trigger is a step of its own,   *)
(* so tasks interleave there; the process may crash between any two steps.   *)
(*                                                                           *)
(* An id is a sequence of ':'-separated segments (the id pattern allows ':') *)
(* and a dedupe key's name is the concatenation the f-string makes of them.  *)
EXTENDS Integers, Sequences, FiniteSets

CONSTANTS
  Schedules, Jobs, Bindings, \* the ids in use: sequences of segments
  NoSchedule,                \* the schedule of a binding that does not exist
  TicksPerMinute,            \* clock resolution
  DedupeTtl,                 \* settings.dedupe_ttl_s, in ticks
  MaxLag,                    \* longest time from a task's start to its last SET NX
  IdleTimeout,               \* how long the broker leaves a pending entry alone
  MaxTick, MaxSends,         \* bounds: clock, broker messages
  MaxCrashes, MaxFailures, MaxGlitches  \* bounds: faults of each kind

ASSUME ConstantsAssumption ==
  /\ TicksPerMinute \in Nat \ {0} /\ DedupeTtl \in Nat \ {0}
  /\ MaxLag \in Nat /\ IdleTimeout \in Nat /\ MaxTick \in Nat /\ MaxSends \in Nat
  /\ MaxCrashes \in Nat /\ MaxFailures \in Nat /\ MaxGlitches \in Nat
  /\ NoSchedule \notin Schedules

VARIABLES
  now,      \* the wall clock, in ticks
  bound,    \* binding id -> the schedule it is attached to (the bindings hash)
  expires,  \* dedupe key -> the tick at which it expires, 0 if never set
  stream,   \* the broker's stream: the messages kicked so far
  lastId,   \* the consumer group's last-delivered id
  pending,  \* the group's pending entries: delivered, not acked
  task,     \* message -> the emit_trigger call running on it
  up,       \* is the process running?
  log,      \* history: the envelopes published ...
  again,    \* ... and the ones published more than once
  won,      \* history: the fires that claimed their key
  spent     \* history: the faults that have happened, by kind

vars == <<now, bound, expires, stream, lastId, pending, task, up, log, again, won, spent>>
brokerVars == <<stream, lastId>>
histVars == <<log, again, won, spent>>

-----------------------------------------------------------------------------
MinuteOf(t) == t \div TicksPerMinute
Minutes == 0..MinuteOf(MaxTick)
Messages == 1..MaxSends

(* A unit is what the scheduler kicks; a producer is what emit_trigger       *)
(* passes as job_id: the binding in schedule mode, the job in welded mode.   *)
Units == [mode : {"schedule"}, id : Schedules] \cup [mode : {"job"}, id : Jobs]
Producers == Bindings \cup Jobs
KeyNames == {s \o b : s \in Schedules, b \in Bindings} \cup Jobs
Keys == KeyNames \X Minutes
KeyName(u, p) == IF u.mode = "schedule" THEN u.id \o p ELSE u.id

Fires == [unit : Units, producer : Producers, minute : Minutes]
FireKey(f) == <<KeyName(f.unit, f.producer), f.minute>>
Envelopes == [fire : Fires, msg : Messages, guarded : BOOLEAN]

(* A call of emit_trigger: where it is, the tick it captured its minute at,  *)
(* the fan-out set it read and what is left of it, the producer it is        *)
(* publishing for and whether that one's SET NX won.                         *)
Call(pc, start, snap, todo, cur, guarded) ==
  [pc |-> pc, start |-> start, snap |-> snap, todo |-> todo,
   cur |-> cur, guarded |-> guarded]
NoCall(start) == Call("idle", start, {}, {}, {}, FALSE)
Unit(m) == stream[m].unit
Minute(m) == MinuteOf(task[m].start)
FireOf(m, p) == [unit |-> Unit(m), producer |-> p, minute |-> Minute(m)]
BindingsFor(s) == {b \in Bindings : bound[b] = s}
Live(k) == expires[k] > now

Init ==
  /\ now = 0
  /\ bound \in [Bindings -> Schedules \cup {NoSchedule}]
  /\ expires = [k \in Keys |-> 0]
  /\ stream = <<>> /\ lastId = 0 /\ pending = {}
  /\ task = [m \in Messages |-> NoCall(0)]
  /\ up = TRUE
  /\ log = {} /\ again = {} /\ won = {}
  /\ spent = [crash |-> 0, failure |-> 0, glitch |-> 0]

Goto(m, pc, todo, cur, guarded) ==
  task' = [task EXCEPT ![m] =
             Call(pc, task[m].start, task[m].snap, todo, cur, guarded)]
Continue(m, todo) ==  \* the rest of the fan-out, or the end of the task
  Goto(m, IF todo = {} THEN "ack" ELSE "set", todo, {}, FALSE)

Spend(kind, max) ==
  /\ spent[kind] < max
  /\ spent' = [spent EXCEPT ![kind] = @ + 1]

-----------------------------------------------------------------------------
(* The scheduler: a unit due now is kicked.  It may be due several times in a*)
(* minute, and nothing stops a second kick for one instant (Taskiq's         *)
(* double-send, #296).                                                       *)
Kick(u) ==
  /\ up /\ Len(stream) < MaxSends
  /\ stream' = Append(stream, [unit |-> u, due |-> now])
  /\ UNCHANGED <<now, bound, expires, lastId, pending, task, up, histVars>>

(* emit_trigger starts: it captures the minute, once.                        *)
Begin(m) ==
  task' = [task EXCEPT ![m] =
             IF Unit(m).mode = "schedule" THEN Call("read", now, {}, {}, {}, FALSE)
             ELSE Call("set", now, {Unit(m).id}, {Unit(m).id}, {}, FALSE)]

DeliverAcked ==  \* mutant: the broker acks a message as it hands it over
  /\ up /\ lastId < Len(stream)
  /\ lastId' = lastId + 1
  /\ Begin(lastId + 1)
  /\ UNCHANGED <<now, bound, expires, stream, pending, up, histVars>>

Deliver ==
  /\ up /\ lastId < Len(stream)
  /\ lastId' = lastId + 1
  /\ pending' = pending \cup {lastId + 1}
  /\ Begin(lastId + 1)
  /\ UNCHANGED <<now, bound, expires, stream, up, histVars>>

(* The broker claims an entry a crash left pending and runs it afresh.       *)
Redeliver(m) ==
  /\ up /\ m \in pending /\ task[m].pc = "idle"
  /\ now - task[m].start >= IdleTimeout
  /\ Begin(m)
  /\ UNCHANGED <<now, bound, expires, brokerVars, pending, up, histVars>>

ReadBindingsWaits(m) ==  \* mutant: no return on an empty fan-out set
  LET bs == BindingsFor(Unit(m).id) IN
  /\ task[m].pc = "read" /\ bs # {}
  /\ task' = [task EXCEPT ![m] = Call("set", task[m].start, bs, bs, {}, FALSE)]
  /\ UNCHANGED <<now, bound, expires, brokerVars, pending, up, histVars>>

(* Schedule mode: the fan-out set is read once; an empty one fires nothing.  *)
ReadBindings(m) ==
  /\ task[m].pc = "read"
  /\ LET bs == BindingsFor(Unit(m).id)
     IN task' = [task EXCEPT ![m] =
          Call(IF bs = {} THEN "ack" ELSE "set", task[m].start, bs, bs, {}, FALSE)]
  /\ UNCHANGED <<now, bound, expires, brokerVars, pending, up, histVars>>

ClaimBlind(m, p) ==  \* mutant: SET without NX
  /\ task[m].pc = "set" /\ p \in task[m].todo
  /\ expires' = [expires EXCEPT ![FireKey(FireOf(m, p))] = now + DedupeTtl]
  /\ won' = won \cup {FireOf(m, p)}
  /\ Goto(m, "emit", task[m].todo \ {p}, {p}, TRUE)
  /\ UNCHANGED <<now, bound, brokerVars, pending, up, log, again, spent>>

SkipRest(m, p) ==  \* mutant: a duplicate returns where it should continue
  /\ task[m].pc = "set" /\ p \in task[m].todo
  /\ Live(FireKey(FireOf(m, p)))
  /\ Continue(m, {})
  /\ UNCHANGED <<now, bound, expires, brokerVars, pending, up, histVars>>

FailClosed(m, p) ==  \* mutant: a SET that raised counts as a duplicate
  /\ task[m].pc = "set" /\ p \in task[m].todo
  /\ Spend("glitch", MaxGlitches)
  /\ Continue(m, task[m].todo \ {p})
  /\ UNCHANGED <<now, bound, expires, brokerVars, pending, up, log, again, won>>

(* The outcomes of _dedupe_first_fire for the next producer of the fan-out.  *)
Claim(m, p) ==
  LET k == FireKey(FireOf(m, p)) IN
  /\ task[m].pc = "set" /\ p \in task[m].todo
  /\ ~Live(k)
  /\ expires' = [expires EXCEPT ![k] = now + DedupeTtl]
  /\ won' = won \cup {FireOf(m, p)}
  /\ Goto(m, "emit", task[m].todo \ {p}, {p}, TRUE)
  /\ UNCHANGED <<now, bound, brokerVars, pending, up, log, again, spent>>

SkipDuplicate(m, p) ==
  /\ task[m].pc = "set" /\ p \in task[m].todo
  /\ Live(FireKey(FireOf(m, p)))
  /\ Continue(m, task[m].todo \ {p})
  /\ UNCHANGED <<now, bound, expires, brokerVars, pending, up, histVars>>

(* The SET raised: it may have been applied or not; the fire is not dropped. *)
FailOpen(m, p) ==
  LET k == FireKey(FireOf(m, p)) IN
  /\ task[m].pc = "set" /\ p \in task[m].todo
  /\ Spend("glitch", MaxGlitches)
  /\ \/ /\ ~Live(k)
        /\ expires' = [expires EXCEPT ![k] = now + DedupeTtl]
        /\ won' = won \cup {FireOf(m, p)}
     \/ UNCHANGED <<expires, won>>
  /\ Goto(m, "emit", task[m].todo \ {p}, {p}, FALSE)
  /\ UNCHANGED <<now, bound, brokerVars, pending, up, log, again>>

Publish(m) ==
  \E p \in task[m].cur :
    LET e == [fire |-> FireOf(m, p), msg |-> m, guarded |-> task[m].guarded]
    IN /\ log' = log \cup {e}
       /\ again' = again \cup (log \cap {e})

EmitTwice(m) ==  \* mutant: a publish that went through may be retried
  /\ task[m].pc = "emit"
  /\ Publish(m)
  /\ task' = task \/ Continue(m, task[m].todo)
  /\ UNCHANGED <<now, bound, expires, brokerVars, pending, up, won, spent>>

Emit(m) ==
  /\ task[m].pc = "emit"
  /\ Publish(m)
  /\ Continue(m, task[m].todo)
  /\ UNCHANGED <<now, bound, expires, brokerVars, pending, up, won, spent>>

(* A registry read or a bus call raised: the task ends there, the rest of    *)
(* the fan-out with it.  A failed publish may still have reached the stream. *)
Raise(m) ==
  /\ task[m].pc \in {"read", "emit"}
  /\ Spend("failure", MaxFailures)
  /\ \/ task[m].pc = "emit" /\ Publish(m)
     \/ UNCHANGED <<log, again>>
  /\ Goto(m, "ack", {}, {}, FALSE)
  /\ UNCHANGED <<now, bound, expires, brokerVars, pending, up, won>>

(* Returned or raised, the message is acked.                                 *)
Ack(m) ==
  /\ task[m].pc = "ack"
  /\ pending' = pending \ {m}
  /\ task' = [task EXCEPT ![m] = NoCall(0)]
  /\ UNCHANGED <<now, bound, expires, brokerVars, up, histVars>>

TaskStep(m) ==
  \/ ReadBindings(m) \/ Emit(m) \/ Raise(m) \/ Ack(m)
  \/ \E p \in task[m].todo : Claim(m, p) \/ SkipDuplicate(m, p) \/ FailOpen(m, p)

-----------------------------------------------------------------------------
(* The process dies with every task in it; Redis keeps the rest.             *)
Crash ==
  /\ up /\ Spend("crash", MaxCrashes)
  /\ up' = FALSE
  /\ task' = [m \in Messages |-> NoCall(task[m].start)]
  /\ UNCHANGED <<now, bound, expires, brokerVars, pending, log, again, won>>

Restart ==
  /\ ~up /\ up' = TRUE
  /\ UNCHANGED <<now, bound, expires, brokerVars, pending, task, histVars>>

(* The clock advances unless a task with a SET NX still to go would then hold*)
(* the minute it captured beyond MaxLag; a publish may take as long as it may.*)
SetsToGo(m) == task[m].pc \in {"read", "set"} \/ task[m].todo # {}
InLag(m) == SetsToGo(m) => now - task[m].start < MaxLag

Tick ==
  /\ now < MaxTick
  /\ \A m \in Messages : InLag(m)
  /\ now' = now + 1
  /\ UNCHANGED <<bound, expires, brokerVars, pending, task, up, histVars>>

(* The API, the ingress or a migration attaches, moves or drops a binding.   *)
SetBinding(b, s) ==
  /\ bound[b] # s
  /\ bound' = [bound EXCEPT ![b] = s]
  /\ UNCHANGED <<now, expires, brokerVars, pending, task, up, histVars>>

Next ==
  \/ \E u \in Units : Kick(u)
  \/ Deliver
  \/ \E m \in Messages : Redeliver(m) \/ TaskStep(m)
  \/ Crash \/ Restart \/ Tick
  \/ \E b \in Bindings, s \in Schedules \cup {NoSchedule} : SetBinding(b, s)

Spec == Init /\ [][Next]_vars

(* The event loop runs every ready task and the broker redelivers what is    *)
(* pending; the supervisor restarts a dead process.  Kicks, faults, the clock*)
(* and the registry's writers are the environment: no fairness.              *)
Fairness ==
  /\ WF_vars(Deliver) /\ WF_vars(Restart)
  /\ \A m \in Messages : WF_vars(Redeliver(m)) /\ WF_vars(TaskStep(m))

FairSpec == Spec /\ Fairness

-----------------------------------------------------------------------------
TaskType == [pc : {"idle", "read", "set", "emit", "ack"}, start : 0..MaxTick,
             snap : SUBSET Producers, todo : SUBSET Producers,
             cur : SUBSET Producers, guarded : BOOLEAN]

(* The variables have their types; a message runs only while it is pending.  *)
TypeOK ==
  /\ now \in 0..MaxTick
  /\ bound \in [Bindings -> Schedules \cup {NoSchedule}]
  /\ expires \in [Keys -> Nat]
  /\ stream \in Seq([unit : Units, due : 0..MaxTick]) /\ Len(stream) <= MaxSends
  /\ lastId \in 0..Len(stream) /\ pending \subseteq 1..lastId
  /\ task \in [Messages -> TaskType]
  /\ \A m \in Messages : task[m].pc # "idle" => m \in pending
  /\ up \in BOOLEAN
  /\ log \subseteq Envelopes /\ again \subseteq log
  /\ won \subseteq Fires
  /\ spent \in [{"crash", "failure", "glitch"} -> Nat]

(* Whatever the double-sends, redeliveries and crashes, a (unit, producer,   *)
(* minute) whose claim went through is published at most once: only a fire   *)
(* whose SET raised may repeat.  Needs Timely (below) as well as the guard.  *)
AtMostOnce ==
  \A e, f \in log :
    e.guarded /\ f.guarded /\ FireKey(e.fire) = FireKey(f.fire)
      => e = f /\ e \notin again

(* A claim outlives every task that can still ask for the same key.          *)
Timely == DedupeTtl >= TicksPerMinute + MaxLag

Acked == (1..lastId) \ pending
Published(f) == \E e \in log : e.fire = f
InFlight(f) == \E m \in Messages, p \in Producers :
                 task[m].pc = "emit" /\ p \in task[m].cur /\ FireOf(m, p) = f
Settled(m) == \A p \in task[m].snap :
                Published(FireOf(m, p)) \/ InFlight(FireOf(m, p))

(* Without a crash or a raising bus call, no fire is lost, glitches of the   *)
(* dedupe store included: when a message is acked, whatever it fanned out to *)
(* has been published for its minute, or the duplicate that won it is about  *)
(* to publish it.                                                            *)
NothingLost ==
  [][\A m \in pending \ pending' :
       spent.crash = 0 /\ spent.failure = 0 => Settled(m)]_vars

(* Bindings are deduped independently: a step that drops a producer from a   *)
(* fan-out without emitting it does so because the same unit, for the same   *)
(* producer and minute, had claimed it, never because of another's fire.     *)
IndependentDedupe ==
  [][\A m \in Messages :
       task[m].pc = "set" /\ task'[m].pc \in {"set", "ack"}
         => \A p \in task[m].todo \ task'[m].todo : FireOf(m, p) \in won]_vars

(* Every message the scheduler kicks is eventually delivered, run and acked, *)
(* whatever finitely many crashes come between.                              *)
EveryKickFinishes == \A m \in Messages : (m <= Len(stream)) ~> (m \in Acked)

(* The abstract promise, FireOnce, with each key's phase read off the state. *)
GuardedFor(k) == {e \in log : e.guarded /\ FireKey(e.fire) = k}
Claiming(k) == \E m \in Messages : \E p \in task[m].cur :
                 task[m].guarded /\ FireKey(FireOf(m, p)) = k
Phase(k) ==
  IF \E e \in GuardedFor(k) : e \in again \/ GuardedFor(k) # {e} THEN "repeated"
  ELSE IF GuardedFor(k) # {} THEN "published"
  ELSE IF Claiming(k) THEN "claimed"
  ELSE IF expires[k] # 0 THEN "closed" ELSE "free"

Promise == INSTANCE FireOnce WITH phase <- [k \in Keys |-> Phase(k)]

(* The fire path implements the promise: a key is claimed by one task, that  *)
(* task alone may publish it, and a key a fault closed is never published.   *)
FiresOnce == Promise!Spec

-----------------------------------------------------------------------------
(* taskiq_migration_plan.md: "each (job, minute) fire exactly once           *)
(* regardless of double-send/redelivery".  At most once, per due minute.     *)
OncePerDueMinute ==
  \A e, f \in log :
    /\ e.fire.unit = f.fire.unit /\ e.fire.producer = f.fire.producer
    /\ MinuteOf(stream[e.msg].due) = MinuteOf(stream[f.msg].due)
    => e = f /\ e \notin again

(* use_cases.md: "Emit a liveness tick every 30 seconds."  Without a fault,  *)
(* when a kick is acked each producer of its fan-out has an envelope for the *)
(* instant that was due, from this kick or another one for that instant.     *)
FiredFor(u, p, due) ==
  \/ \E e \in log : e.fire.unit = u /\ e.fire.producer = p /\ stream[e.msg].due = due
  \/ \E m \in 1..Len(stream) :
       stream[m] = [unit |-> u, due |-> due] /\ task[m].pc = "emit" /\ p \in task[m].cur

EveryDueInstantFires ==
  [][\A m \in pending \ pending' :
       spent.crash = 0 /\ spent.failure = 0
         => \A p \in task[m].snap : FiredFor(Unit(m), p, stream[m].due)]_vars
=============================================================================
