------------------------------- MODULE Service -------------------------------
(* The process: how it opens its connections, starts its background tasks and *)
(* takes both down again (lifespan, api.py), and the emissions that run on    *)
(* the publisher meanwhile, command by command (emitter.py, bus_client.py):   *)
(* those of the worker's tasks, of a run-now request, and the withdrawal of a *)
(* stream when its job is deleted.                                            *)
(*                                                                            *)
(* Each await is a step, and may raise.  A task is that of a welded job;      *)
(* FirePath has the fan-out, the dedupe keys and the redelivery in detail.    *)
EXTENDS Naturals

CONSTANTS
  Jobs, Target, NoTarget,   \* target_stream_id of each job, maybe the id of another
  Tasks, Runs, Deletes,     \* pieces of work: emit tasks, run-now and delete requests
  JobOf,                    \* the job of each
  ConnectRetries, DeleteStreams,        \* settings
  MaxLives, MaxFailures                 \* bounds

VARIABLES
  phase, at,   \* the lifespan: its phase, the resource it opens or closes
  tries,       \* failed attempts to connect to the bus
  open,        \* the resources that are open
  bg,          \* the background tasks
  jobs,        \* the ids in the registry
  pc,          \* each piece of work
  entries,     \* what was published: <<counter, stream>>
  active,      \* the set of active streams
  bare,        \* the counters without a TTL
  unguarded,   \* history: fires whose guard failed for a closed registry
  dropped,     \* history: streams withdrawn by their owner since they were added
  blamed,      \* history: has a call of this life's lifespan, or a task of it, failed
  life, failures

lifespan == <<phase, at, tries, open, bg>>
bus == <<entries, active, bare, dropped>>
store == <<jobs, unguarded>>
counts == <<blamed, life, failures>>
vars == <<lifespan, bus, store, pc, counts>>

Work == Tasks \cup Runs \cup Deletes
Background == {"worker", "scheduler", "ingress"}
Resources == {"registry", "publisher", "broker", "consumer"}

ASSUME ConstantsAssumption ==
  /\ Target \in [Jobs -> Jobs \cup {NoTarget}] /\ NoTarget \notin Jobs
  /\ JobOf \in [Work -> Jobs]
  /\ DeleteStreams \in BOOLEAN
  /\ ConnectRetries \in Nat \ {0} /\ MaxLives \in Nat /\ MaxFailures \in Nat

Off == [t \in Background |-> "none"]

Init ==
  /\ phase = "down" /\ at = "registry" /\ tries = 0 /\ open = {} /\ bg = Off
  /\ jobs = Jobs /\ pc = [w \in Work |-> "idle"]
  /\ entries = {} /\ active = {} /\ bare = {}
  /\ unguarded = {} /\ dropped = {}
  /\ blamed = FALSE /\ life = 0 /\ failures = 0

(* A call raises: in a piece of work, or in the lifespan or a task of its.   *)
Raise == failures < MaxFailures /\ failures' = failures + 1 /\ UNCHANGED <<blamed, life>>
Fault == failures < MaxFailures /\ failures' = failures + 1 /\ blamed' = TRUE /\ UNCHANGED life

-----------------------------------------------------------------------------
(* Start.  Each resource in turn; the connections to the bus are tried up to *)
(* ConnectRetries times.  The worker and the scheduler run from the broker's *)
(* startup on, while the ingress consumer is still connecting.               *)
OpenNext == [registry |-> "publisher", publisher |-> "broker",
             broker |-> "consumer", consumer |-> "group", group |-> "none"]
Spawned == [registry |-> {}, publisher |-> {}, broker |-> {"worker", "scheduler"},
            consumer |-> {}, group |-> {"ingress"}]
Spawn(S) == bg' = [t \in Background |-> IF t \in S THEN "running" ELSE bg[t]]

Launch ==
  /\ phase = "down" /\ life < MaxLives
  /\ phase' = "starting" /\ at' = "registry"
  /\ blamed' = FALSE /\ life' = life + 1
  /\ UNCHANGED <<tries, open, bg, bus, store, pc, failures>>

Open ==
  /\ phase = "starting"
  /\ open' = open \cup ({at} \cap Resources) /\ tries' = 0
  /\ Spawn(Spawned[at])
  /\ at' = OpenNext[at] /\ phase' = IF at = "group" THEN "up" ELSE phase
  /\ UNCHANGED <<bus, store, pc, counts>>

RetryOneMore ==  \* mutant: the attempts are counted from 0
  /\ phase = "starting" /\ at \in {"publisher", "consumer"}
  /\ tries' = tries + 1
  /\ phase' = IF tries' > ConnectRetries THEN "failed" ELSE phase
  /\ blamed' = (blamed \/ phase' = "failed")
  /\ UNCHANGED <<at, open, bg, bus, store, pc, life, failures>>

RetryForever ==  \* mutant: an unreachable bus is waited for
  /\ phase = "starting" /\ at \in {"publisher", "consumer"}
  /\ tries' = IF tries + 1 < ConnectRetries THEN tries + 1 ELSE 0
  /\ UNCHANGED <<phase, at, open, bg, bus, store, pc, counts>>

Retry ==  \* the bus cannot be reached
  /\ phase = "starting" /\ at \in {"publisher", "consumer"}
  /\ tries' = tries + 1
  /\ phase' = IF tries' >= ConnectRetries THEN "failed" ELSE phase
  /\ blamed' = (blamed \/ phase' = "failed")
  /\ UNCHANGED <<at, open, bg, bus, store, pc, life, failures>>

(* The registry keeps the client whose ping failed.  No start is undone.     *)
StartFails ==
  /\ phase = "starting" /\ at \in {"registry", "broker", "group"} /\ Fault
  /\ phase' = "failed" /\ open' = open \cup (IF at = "registry" THEN {at} ELSE {})
  /\ UNCHANGED <<at, tries, bg, bus, store, pc>>

-----------------------------------------------------------------------------
(* Stop.  uvicorn has let the requests finish.  Every background task is     *)
(* cancelled, then awaited in the order of their start, then the resources   *)
(* are closed one by one.  Any exception ends it there, but a cancellation.  *)
Before == [worker |-> {}, scheduler |-> {"worker"}, ingress |-> {"worker", "scheduler"}]
CloseNextSwapped ==  \* mutant: the registry is closed before the publisher
  [consumer |-> "broker", broker |-> "registry", registry |-> "publisher", publisher |-> "none"]
CloseNext ==
  [consumer |-> "broker", broker |-> "publisher", publisher |-> "registry", registry |-> "none"]

StopUncancelled ==  \* mutant: only the ingress is told to stop
  /\ phase = "up" /\ \A r \in Runs \cup Deletes : pc[r] \in {"idle", "done"}
  /\ phase' = "stopping"
  /\ bg' = [bg EXCEPT !["ingress"] = IF @ = "running" THEN "cancelled" ELSE @]
  /\ UNCHANGED <<at, tries, open, bus, store, pc, counts>>

Stop ==
  /\ phase = "up" /\ \A r \in Runs \cup Deletes : pc[r] \in {"idle", "done"}
  /\ phase' = "stopping"
  /\ bg' = [t \in Background |-> IF bg[t] = "running" THEN "cancelled" ELSE bg[t]]
  /\ UNCHANGED <<at, tries, open, bus, store, pc, counts>>

Unfinished(S) == {w \in S : pc[w] \notin {"idle", "done"}}

(* A cancelled task ends.  The tasks a cancelled worker was executing may or *)
(* may not be cancelled with it; those that are stay on the broker's queue.  *)
TaskEnds(t) ==
  /\ bg[t] = "cancelled"
  /\ bg' = [bg EXCEPT ![t] = "ended"]
  /\ \E S \in SUBSET (IF t = "worker" THEN Unfinished(Tasks) ELSE {}) :
       pc' = [w \in Work |-> IF w \in S THEN "idle" ELSE pc[w]]
  /\ UNCHANGED <<phase, at, tries, open, bus, store, counts>>

TaskDies(t) ==  \* an exception nobody looks at before the stop
  /\ bg[t] \in {"running", "cancelled"} /\ Fault
  /\ bg' = [bg EXCEPT ![t] = "dead"]
  /\ UNCHANGED <<phase, at, tries, open, bus, store, pc>>

AwaitNone ==  \* mutant: the cancelled tasks are not awaited
  /\ phase = "stopping" /\ phase' = "closing" /\ at' = "consumer"
  /\ UNCHANGED <<tries, open, bg, bus, store, pc, counts>>

AwaitStrict ==  \* mutant: the CancelledError is not caught
  /\ phase = "stopping"
  /\ \E t \in Background :
       bg[t] \in {"ended", "dead"} /\ \A u \in Before[t] : bg[u] = "ended"
  /\ phase' = "failed" /\ UNCHANGED at
  /\ UNCHANGED <<tries, open, bg, bus, store, pc, counts>>

Await ==
  /\ phase = "stopping"
  /\ \/ /\ \A t \in Background : bg[t] = "ended"
        /\ phase' = "closing" /\ at' = "consumer"
     \/ /\ \E t \in Background : bg[t] = "dead" /\ \A u \in Before[t] : bg[u] = "ended"
        /\ phase' = "failed" /\ UNCHANGED at
  /\ UNCHANGED <<tries, open, bg, bus, store, pc, counts>>

Close ==
  /\ phase = "closing"
  /\ open' = open \ {at} /\ at' = CloseNext[at]
  /\ phase' = IF at' = "none" THEN "stopped" ELSE phase
  /\ UNCHANGED <<tries, bg, bus, store, pc, counts>>

CloseFails ==
  /\ phase = "closing" /\ Fault /\ phase' = "failed"
  /\ UNCHANGED <<at, tries, open, bg, bus, store, pc>>

(* The process ends, or dies: what was in memory is gone, a task that was    *)
(* not acked will be delivered again, a request is lost.                     *)
Dead ==
  /\ phase' = "down" /\ at' = "registry" /\ tries' = 0 /\ open' = {} /\ bg' = Off
  /\ pc' = [w \in Work |-> IF w \notin Unfinished(Work) THEN pc[w]
                           ELSE IF w \in Tasks THEN "idle" ELSE "done"]
  /\ UNCHANGED <<bus, store, counts>>
Exit == phase \in {"stopped", "failed"} /\ Dead
Crash == phase \notin {"down", "stopped", "failed"} /\ Dead

-----------------------------------------------------------------------------
(* Emission.                                                                 *)
Counter(w) == <<w, life>>  \* sid:<cid>, a new cid each time
StreamId(j) == IF Target[j] = NoTarget THEN j ELSE Target[j]
Stream(w) == StreamId(JobOf[w])

EmitNextLate ==  \* mutant: the counter's TTL is set after the publish
  [incr |-> "sadd", sadd |-> "xadd", xadd |-> "expire", expire |-> "done"]
EmitNext == [incr |-> "expire", expire |-> "sadd", sadd |-> "xadd", xadd |-> "done"]
Emitting(w) == pc[w] \in {"incr", "expire", "sadd", "xadd"}
Goto(w, p) == pc' = [pc EXCEPT ![w] = p]

Receive(t) ==  \* the worker takes a task from the broker
  /\ bg["worker"] = "running" /\ pc[t] = "idle" /\ Goto(t, "guard")
  /\ UNCHANGED <<lifespan, bus, store, counts>>

(* _dedupe_first_fire: won or lost; an exception, also that of the closed    *)
(* registry, lets the fire through.                                          *)
Guard(t) ==
  /\ pc[t] = "guard"
  /\ \/ "registry" \in open /\ (Goto(t, "incr") \/ Goto(t, "done")) /\ UNCHANGED <<unguarded, counts>>
     \/ "registry" \in open /\ Raise /\ Goto(t, "incr") /\ UNCHANGED unguarded
     \/ "registry" \notin open /\ Goto(t, "incr") /\ UNCHANGED counts
        /\ unguarded' = unguarded \cup {Counter(t)}
  /\ UNCHANGED <<lifespan, bus, jobs>>

RunNow(r) ==  \* POST /jobs/{id}/run: no guard
  /\ phase = "up" /\ pc[r] = "idle"
  /\ Goto(r, IF JobOf[r] \in jobs THEN "incr" ELSE "done")
  /\ UNCHANGED <<lifespan, bus, store, counts>>

Applied(w) ==  \* what the command does to the bus
  CASE pc[w] = "incr" -> bare' = bare \cup {Counter(w)} /\ UNCHANGED <<entries, active, dropped>>
    [] pc[w] = "expire" -> bare' = bare \ {Counter(w)} /\ UNCHANGED <<entries, active, dropped>>
    [] pc[w] = "sadd" -> /\ active' = active \cup {Stream(w)} /\ dropped' = dropped \ {Stream(w)}
                         /\ UNCHANGED <<entries, bare>>
    [] pc[w] = "xadd" -> /\ entries' = entries \cup {<<Counter(w), Stream(w)>>}
                         /\ UNCHANGED <<active, bare, dropped>>

Command(w) ==
  /\ Emitting(w) /\ "publisher" \in open
  /\ Applied(w) /\ Goto(w, EmitNext[pc[w]])
  /\ UNCHANGED <<lifespan, store, counts>>

CommandRaises(w) ==  \* logged and raised again; a task is acked all the same
  /\ Emitting(w) /\ Goto(w, "done")
  /\ IF "publisher" \in open THEN Raise /\ (Applied(w) \/ UNCHANGED bus)
                             ELSE UNCHANGED <<bus, counts>>
  /\ UNCHANGED <<lifespan, store>>

(* DELETE /jobs/{id}: the record, and then, for a stream that is the job's   *)
(* own, its place in the active set and, if so set, the stream itself.       *)
WithdrawsAny(j) == TRUE  \* mutant: also with an explicit target
Withdraws(j) == Target[j] = NoTarget

Find(d) ==  \* _job_or_404
  /\ phase = "up" /\ pc[d] = "idle" /\ Goto(d, IF JobOf[d] \in jobs THEN "hdel" ELSE "done")
  /\ UNCHANGED <<lifespan, bus, store, counts>>

Delete(d) ==
  /\ pc[d] = "hdel"
  /\ jobs' = jobs \ {JobOf[d]} /\ Goto(d, IF Withdraws(JobOf[d]) THEN "srem" ELSE "done")
  /\ UNCHANGED <<lifespan, bus, unguarded, counts>>

Removed(j) == active' = active \ {j} /\ dropped' = dropped \cup {k \in {j} : Target[k] = NoTarget}

Withdraw(d) ==
  /\ pc[d] = "srem"
  /\ IF "publisher" \in open
     THEN Removed(JobOf[d]) /\ Goto(d, IF DeleteStreams THEN "delete" ELSE "done")
     ELSE UNCHANGED <<active, dropped>> /\ Goto(d, "done")
  /\ UNCHANGED <<lifespan, store, counts, entries, bare>>

DeleteStream(d) ==
  /\ pc[d] = "delete" /\ "publisher" \in open
  /\ entries' = {e \in entries : e[2] # JobOf[d]} /\ Goto(d, "done")
  /\ UNCHANGED <<lifespan, store, counts, active, dropped, bare>>

DeleteRaises(d) ==
  /\ pc[d] = "hdel" /\ Raise /\ Goto(d, "done")
  /\ jobs' \in {jobs, jobs \ {JobOf[d]}}
  /\ UNCHANGED <<lifespan, bus, unguarded>>

WithdrawRaises(d) ==
  /\ pc[d] \in {"srem", "delete"} /\ Raise /\ Goto(d, "done")
  /\ (pc[d] = "srem" /\ Removed(JobOf[d])) \/ UNCHANGED <<active, dropped>>
  /\ UNCHANGED <<lifespan, store, entries, bare>>

-----------------------------------------------------------------------------
Starting == Launch \/ Open \/ Retry \/ StartFails
Stopping == Stop \/ Await \/ Close \/ CloseFails
Working ==
  \/ \E t \in Tasks : Receive(t) \/ Guard(t)
  \/ \E r \in Runs : RunNow(r)
  \/ \E w \in Tasks \cup Runs : Command(w) \/ CommandRaises(w)
  \/ \E d \in Deletes : \/ Find(d) \/ Delete(d) \/ DeleteRaises(d)
                        \/ Withdraw(d) \/ DeleteStream(d) \/ WithdrawRaises(d)

Next ==
  \/ Starting \/ Stopping \/ Working \/ Exit \/ Crash
  \/ \E t \in Background : TaskEnds(t) \/ TaskDies(t)

Spec == Init /\ [][Next]_vars

(* Each await of the lifespan returns or raises, and a cancelled task ends.  *)
(* A launch, a stop and a crash come from outside and need not come at all.  *)
FairSpec ==
  /\ Spec
  /\ WF_vars(Open \/ Retry) /\ WF_vars(Await) /\ WF_vars(Close)
  /\ WF_vars(\E t \in Background : TaskEnds(t))

-----------------------------------------------------------------------------
Points == {"idle", "done", "guard", "incr", "expire", "sadd", "xadd", "hdel", "srem",
           "delete"}
Counters == (Tasks \cup Runs) \X (1..MaxLives)

(* The variables keep their types: no start makes more than ConnectRetries    *)
(* attempts on a connection, and no counter is left that no emission drew.    *)
TypeOK ==
  /\ phase \in {"down", "starting", "up", "stopping", "closing", "stopped", "failed"}
  /\ at \in Resources \cup {"group", "none"} /\ tries \in 0..ConnectRetries
  /\ open \subseteq Resources
  /\ bg \in [Background -> {"none", "running", "cancelled", "ended", "dead"}]
  /\ jobs \subseteq Jobs /\ pc \in [Work -> Points]
  /\ entries \subseteq Counters \X Jobs /\ active \subseteq Jobs /\ dropped \subseteq Jobs
  /\ bare \subseteq Counters /\ unguarded \subseteq Counters
  /\ blamed \in BOOLEAN /\ life \in 0..MaxLives /\ failures \in 0..MaxFailures

(* A background task finds its connections open for as long as it runs, also *)
(* while a start goes on, or fails, beside it and while it is being          *)
(* cancelled: the stop awaits every task before it closes the first resource.*)
Needs == [worker |-> {"registry", "publisher", "broker"}, scheduler |-> {"registry", "broker"},
          ingress |-> {"registry", "consumer"}]
TasksFindConnections ==
  \A t \in Background : bg[t] \in {"running", "cancelled"} => Needs[t] \subseteq open

(* The guard lets a fire through when its store raises, and a closed registry *)
(* raises: a task that outlives its worker must not publish past a guard that *)
(* was closed under it.  The order of the closes keeps it from doing so.      *)
ClosedGuardPublishesNothing == \A e \in entries : e[1] \notin unguarded

(* A counter without TTL belongs to an emission about to set it, or to one   *)
(* that was cut off there: nothing was ever published with it.               *)
PublishedCountersExpire == \A e \in entries : e[1] \notin bare

(* A stream with entries is in the active set, where discovery and the reaper *)
(* look, unless the job it derives from withdrew it after it was last added.  *)
StreamsAreListed == \A e \in entries : e[2] \in active \cup dropped

(* A stop leaves nothing open, and only ends early for a close that raised   *)
(* or a background task that had died, whatever failed in the work itself.   *)
StopsClean == (phase = "stopped" => open = {}) /\ (phase = "failed" => blamed)

(* A start comes to an end, with a bus that is never reached too.            *)
StartSettles == phase = "starting" ~> phase # "starting"

(* A stop comes to an end.                                                   *)
StopSettles == phase \in {"stopping", "closing"} ~> phase \in {"stopped", "failed", "down"}
=============================================================================
