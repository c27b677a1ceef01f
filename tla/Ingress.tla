------------------------------- MODULE Ingress -------------------------------
(* The bus ingress (ingress.py over bus_consumer.py): a consumer group's     *)
(* tail on the control stream that registers a Schedule and a Binding for    *)
(* each schedule.requested entry.                                            *)
(*                                                                           *)
(* One loop reads a batch, handles its entries in order and acks each in a   *)
(* `finally`; on startup it first claims what earlier runs left pending and  *)
(* idle.  Every awaited call on the bus or the registry is a step, may fail, *)
(* and may be where a shutdown cancels the loop.  The value the registry     *)
(* holds for a schedule is the stream id of the request that wrote it.       *)
EXTENDS Integers, Sequences, FiniteSets

CONSTANTS
  Schedules,        \* schedule ids requests name
  Payloads,         \* what agents may publish, a set of Payload
  ReadCount,        \* settings.ingress_count
  ReclaimCount,     \* reclaim's default count
  PatientRestart,   \* is a restart later than reclaim_min_idle_ms?
  MaxEntries, MaxCrashes, MaxShutdowns, MaxFailures, MaxTrims  \* bounds

Payload == [type : {"request"}, sch : Schedules, replace : BOOLEAN]
           \cup [type : {"foreign", "invalid", "poison"}]

ASSUME ConstantsAssumption ==
  /\ Payloads \subseteq Payload /\ {ReadCount, ReclaimCount} \subseteq Nat \ {0}
  /\ PatientRestart \in BOOLEAN /\ MaxEntries \in Nat
  /\ {MaxCrashes, MaxShutdowns, MaxFailures, MaxTrims} \subseteq Nat

VARIABLES
  stream,   \* the control stream: the entries agents published
  trimmed,  \* entries no longer in the stream
  lastId,   \* the group's last-delivered id
  pending,  \* the group's pending entries
  idle,     \* those of them idle for reclaim_min_idle_ms
  dlq,      \* entries routed to the dead-letter stream
  pc,       \* where the ingress task is
  startup,  \* are the deliveries in hand those of the reclaim?
  bad,      \* entries of the batch read_group or reclaim has yet to dispose of
  batch,    \* deliveries yet to be processed
  sched,    \* the schedules hash: schedule id -> version, 0 if absent
  bind,     \* the bindings hash, one default binding per schedule
  passed,   \* history: entries left pending when the task took newer ones
  done,     \* history: what handling each entry amounted to
  spent     \* history: faults by kind

vars == <<stream, trimmed, lastId, pending, idle, dlq, pc, startup, bad, batch,
          sched, bind, passed, done, spent>>
groupVars == <<lastId, pending, idle>>
localVars == <<startup, bad, batch>>
registryVars == <<sched, bind>>

-----------------------------------------------------------------------------
Ids == 1..MaxEntries
Versions == 0..MaxEntries
FaultKinds == {"crash", "shutdown", "failure", "trim"}
Outcomes == {"ignored", "left", "schedule", "binding"}

Req(e) == stream[e]
Unusable(e) == e \in trimmed \/ Req(e).type = "poison"
Least(e, S) == e \in S /\ \A f \in S : e <= f
Pcs == {"down", "reclaim", "tail", "scan", "scanAck", "handle", "put", "bind", "ack",
        "lastAck", "dead"}

Init ==
  /\ stream = <<>> /\ trimmed = {} /\ lastId = 0 /\ pending = {} /\ idle = {}
  /\ dlq = {} /\ pc = "down" /\ startup = FALSE /\ bad = {} /\ batch = {}
  /\ sched = [s \in Schedules |-> 0] /\ bind = [s \in Schedules |-> 0]
  /\ passed = {} /\ done = [e \in Ids |-> {}]
  /\ spent = [k \in FaultKinds |-> 0]

Spend(kind, max) == spent[kind] < max /\ spent' = [spent EXCEPT ![kind] = @ + 1]
Record(e, outcome) == done' = [done EXCEPT ![e] = @ \cup {outcome}]

-----------------------------------------------------------------------------
(* The environment: agents publish, the stream is trimmed, an operator       *)
(* deletes a schedule with its bindings, pending entries grow old (only a    *)
(* restart looks, so they do it while the process is down).                  *)
Publish(p) ==
  /\ Len(stream) < MaxEntries
  /\ stream' = Append(stream, p)
  /\ UNCHANGED <<trimmed, groupVars, dlq, pc, localVars, registryVars, passed, done, spent>>

Trim(e) ==
  /\ e \in 1..Len(stream) /\ e \notin trimmed /\ \A f \in 1..(e - 1) : f \in trimmed
  /\ e \notin batch \cup bad  \* what was read carries its fields
  /\ Spend("trim", MaxTrims)
  /\ trimmed' = trimmed \cup {e}
  /\ UNCHANGED <<stream, groupVars, dlq, pc, localVars, registryVars, passed, done>>

ApiDelete(s) ==
  /\ pc # "down" /\ sched[s] # 0
  /\ sched' = [sched EXCEPT ![s] = 0] /\ bind' = [bind EXCEPT ![s] = 0]
  /\ UNCHANGED <<stream, trimmed, groupVars, dlq, pc, localVars, passed, done, spent>>

GrowIdle(e) ==
  /\ pc = "down" /\ e \in pending \ idle
  /\ idle' = idle \cup {e}
  /\ UNCHANGED <<stream, trimmed, lastId, pending, dlq, pc, localVars, registryVars,
                 passed, done, spent>>

-----------------------------------------------------------------------------
(* lifespan creates the task; it starts with the reclaim.                    *)
Start ==
  /\ pc = "down" /\ (PatientRestart => pending = idle)
  /\ pc' = "reclaim" /\ startup' = TRUE
  /\ UNCHANGED <<stream, trimmed, groupVars, dlq, bad, batch, registryVars, passed, done, spent>>

(* The task ends, and what it held in memory with it.                        *)
Forget == startup' = FALSE /\ bad' = {} /\ batch' = {}

Crash ==
  /\ pc # "down" /\ Spend("crash", MaxCrashes)
  /\ pc' = "down" /\ Forget
  /\ UNCHANGED <<stream, trimmed, groupVars, dlq, registryVars, passed, done>>

(* Entries were delivered: the usable ones become deliveries, but read_group *)
(* and reclaim first dead-letter and ack the others.                         *)
Receive(S) ==
  /\ bad' = {e \in S : Unusable(e)}
  /\ batch' = {e \in S : ~Unusable(e)}
  /\ pc' = IF \E e \in S : Unusable(e) THEN "scan"
           ELSE IF S # {} THEN "handle" ELSE "tail"
  /\ passed' = passed \cup {e \in pending \ S : \E f \in S : e < f}

(* Mutant: a claim of one entry, never continued.                            *)
ReclaimOne ==
  /\ pc = "reclaim"
  /\ \E S \in SUBSET idle :
       /\ Cardinality(S) <= 1 /\ \A e \in S, f \in idle \ S : e < f
       /\ S = idle \/ Cardinality(S) = 1
       /\ idle' = idle \ S
       /\ Receive(S)
  /\ UNCHANGED <<stream, trimmed, lastId, pending, dlq, startup, registryVars, done, spent>>

(* XAUTOCLAIM: the lowest idle entries, at most ReclaimCount, once.          *)
Claim(S) ==
  /\ Cardinality(S) <= ReclaimCount /\ \A e \in S, f \in idle \ S : e < f
  /\ S = idle \/ Cardinality(S) = ReclaimCount
  /\ idle' = idle \ S

Reclaim ==
  /\ pc = "reclaim"
  /\ \E S \in SUBSET idle : Claim(S) /\ Receive(S)
  /\ UNCHANGED <<stream, trimmed, lastId, pending, dlq, startup, registryVars, done, spent>>

(* Mutant: XREADGROUP with NOACK: delivered is acked.                        *)
ReadNoAck ==
  /\ pc = "tail" /\ lastId < Len(stream)
  /\ lastId' = lastId + 1
  /\ Receive({lastId + 1} \ trimmed)
  /\ startup' = FALSE
  /\ UNCHANGED <<stream, trimmed, pending, idle, dlq, registryVars, done, spent>>

(* XREADGROUP ">": the next entries of the stream; a trimmed one is gone.    *)
Upto(n) == {e \in (lastId + 1)..n : e \notin trimmed}
Deliver(n) ==
  /\ Cardinality(Upto(n)) <= ReadCount
  /\ n = Len(stream) \/ (Cardinality(Upto(n)) = ReadCount /\ n \in Upto(n))
  /\ lastId' = n /\ pending' = pending \cup Upto(n)

Read ==
  /\ pc = "tail"
  /\ \E n \in (lastId + 1)..Len(stream) : Deliver(n) /\ Receive(Upto(n))
  /\ startup' = FALSE
  /\ UNCHANGED <<stream, trimmed, idle, dlq, registryVars, done, spent>>

(* Either call raises though the server carried it out: the entries are the  *)
(* consumer's, pending and not idle, but in nobody's hands.                  *)
ReplyLost ==
  /\ Spend("failure", MaxFailures)
  /\ \/ /\ pc = "reclaim" /\ \E S \in SUBSET idle : Claim(S)
        /\ UNCHANGED <<lastId, pending>>
     \/ /\ pc = "tail" /\ \E n \in (lastId + 1)..Len(stream) : Deliver(n)
        /\ UNCHANGED idle
  /\ pc' = "tail" /\ Forget
  /\ UNCHANGED <<stream, trimmed, dlq, registryVars, passed, done>>

ScanPoison(e) ==
  /\ pc = "scan" /\ Least(e, bad) /\ e \notin trimmed
  /\ dlq' = dlq \cup {e} /\ pc' = "scanAck"
  /\ UNCHANGED <<stream, trimmed, groupVars, localVars, registryVars, passed, done, spent>>

ScanAcks(e) == Least(e, bad) /\ (pc = "scanAck" \/ (pc = "scan" /\ e \in trimmed))

(* Mutant: poison is dead-lettered but stays pending.                        *)
ScanDropsAck(e) ==
  /\ ScanAcks(e)
  /\ bad' = bad \ {e}
  /\ pc' = IF bad # {e} THEN "scan" ELSE IF batch # {} THEN "handle" ELSE "tail"
  /\ UNCHANGED <<stream, trimmed, groupVars, dlq, startup, batch, registryVars, passed, done,
                 spent>>

ScanAck(e) ==
  /\ ScanAcks(e)
  /\ pending' = pending \ {e} /\ bad' = bad \ {e}
  /\ pc' = IF bad # {e} THEN "scan" ELSE IF batch # {} THEN "handle" ELSE "tail"
  /\ UNCHANGED <<stream, trimmed, lastId, idle, dlq, startup, batch, registryVars,
                 passed, done, spent>>

(* A call of the claim or the scan raises: the deliveries read so far are    *)
(* forgotten, but stay pending; the loop carries on with the tail.           *)
ScanFails ==
  /\ pc \in {"reclaim", "scan", "scanAck"} /\ Spend("failure", MaxFailures)
  /\ pc' = "tail" /\ Forget
  /\ UNCHANGED <<stream, trimmed, groupVars, dlq, registryVars, passed, done>>

-----------------------------------------------------------------------------
(* handle_request, for the lowest delivery of the batch.                     *)
HandlingNewest(e, where) ==  \* mutant: the batch is handled from its end
  pc = where /\ e \in batch /\ \A f \in batch : f <= e
Handling(e, where) == pc = where /\ Least(e, batch)
ToAck == pc' = "ack"

Ignore(e) ==
  /\ Handling(e, "handle") /\ Req(e).type = "foreign"
  /\ Record(e, "ignored") /\ ToAck
  /\ UNCHANGED <<stream, trimmed, groupVars, dlq, localVars, registryVars, passed, spent>>

Reject(e) ==
  /\ Handling(e, "handle") /\ Req(e).type = "invalid"
  /\ dlq' = dlq \cup {e} /\ ToAck
  /\ UNCHANGED <<stream, trimmed, groupVars, localVars, registryVars, passed, done, spent>>

(* Mutant: the test of req.replace dropped.                                  *)
ExistsAlways(e) ==
  /\ Handling(e, "handle") /\ Req(e).type = "request"
  /\ IF sched[Req(e).sch] # 0 THEN Record(e, "left") /\ ToAck
                              ELSE pc' = "put" /\ UNCHANGED done
  /\ UNCHANGED <<stream, trimmed, groupVars, dlq, localVars, registryVars, passed, spent>>

Exists(e) ==  \* replace = false asks first
  /\ Handling(e, "handle") /\ Req(e).type = "request" /\ ~Req(e).replace
  /\ IF sched[Req(e).sch] # 0 THEN Record(e, "left") /\ ToAck
                              ELSE pc' = "put" /\ UNCHANGED done
  /\ UNCHANGED <<stream, trimmed, groupVars, dlq, localVars, registryVars, passed, spent>>

PutSchedule(e) ==
  /\ \/ Handling(e, "put")
     \/ Handling(e, "handle") /\ Req(e).type = "request" /\ Req(e).replace
  /\ sched' = [sched EXCEPT ![Req(e).sch] = e]
  /\ Record(e, "schedule") /\ pc' = "bind"
  /\ UNCHANGED <<stream, trimmed, groupVars, dlq, localVars, bind, passed, spent>>

PutBinding(e) ==
  /\ Handling(e, "bind")
  /\ bind' = [bind EXCEPT ![Req(e).sch] = e]
  /\ Record(e, "binding") /\ ToAck
  /\ UNCHANGED <<stream, trimmed, groupVars, dlq, localVars, sched, passed, spent>>

(* A call of the handler raises: logged, and acked all the same.             *)
InHandler(e) == Handling(e, "put") \/ Handling(e, "bind")
                \/ (Handling(e, "handle") /\ Req(e).type # "foreign")

HandlerFails(e) ==
  /\ InHandler(e) /\ Spend("failure", MaxFailures) /\ ToAck
  /\ UNCHANGED <<stream, trimmed, groupVars, dlq, localVars, registryVars, passed, done>>

(* Mutant: the whole batch acked with its first entry.                       *)
AckBatch(e) ==
  /\ Handling(e, "ack")
  /\ pending' = pending \ batch /\ batch' = batch \ {e}
  /\ idle' = idle \ batch
  /\ pc' = IF batch = {e} THEN "tail" ELSE "handle"
  /\ UNCHANGED <<stream, trimmed, lastId, dlq, startup, bad, registryVars, passed, done, spent>>

Ack(e) ==
  /\ Handling(e, "ack")
  /\ pending' = pending \ {e} /\ batch' = batch \ {e}
  /\ pc' = IF batch = {e} THEN "tail" ELSE "handle"
  /\ UNCHANGED <<stream, trimmed, lastId, idle, dlq, startup, bad, registryVars, passed, done,
                 spent>>

(* The ack raises: in the reclaim the rest of the batch is given up, in the  *)
(* tail, where nothing catches it, the task itself.                          *)
AckRaises(e) ==
  /\ Handling(e, "ack") \/ Handling(e, "lastAck")
  /\ pc' = IF pc = "lastAck" THEN "down" ELSE IF startup THEN "tail" ELSE "dead"

AckFails(e) ==
  /\ AckRaises(e) /\ Spend("failure", MaxFailures) /\ Forget
  /\ UNCHANGED <<stream, trimmed, groupVars, dlq, registryVars, passed, done>>

(* This ack, or one of the scan, raises though the server carried it out.    *)
AckReplyLost(e) ==
  /\ AckRaises(e) \/ (ScanAcks(e) /\ pc' = "tail")
  /\ pending' = pending \ {e} /\ Spend("failure", MaxFailures) /\ Forget
  /\ UNCHANGED <<stream, trimmed, lastId, idle, dlq, registryVars, passed, done>>

(* Shutdown cancels the task at its await.  Inside the handler the `finally` *)
(* still acks the entry; anywhere else the task just ends.                   *)
Shutdown ==
  /\ pc # "down" /\ pc # "lastAck" /\ Spend("shutdown", MaxShutdowns)
  /\ IF \E e \in batch : InHandler(e)
     THEN pc' = "lastAck" /\ UNCHANGED localVars
     ELSE pc' = "down" /\ Forget
  /\ UNCHANGED <<stream, trimmed, groupVars, dlq, registryVars, passed, done>>

LastAck(e) ==
  /\ Handling(e, "lastAck")
  /\ pending' = pending \ {e} /\ pc' = "down" /\ Forget
  /\ UNCHANGED <<stream, trimmed, lastId, idle, dlq, registryVars, passed, done, spent>>

-----------------------------------------------------------------------------
Handle(e) ==
  \/ ScanPoison(e) \/ ScanAck(e) \/ Ignore(e) \/ Reject(e) \/ Exists(e)
  \/ PutSchedule(e) \/ PutBinding(e) \/ Ack(e) \/ LastAck(e)
LoopStep == Reclaim \/ Read \/ \E e \in Ids : Handle(e)

Next ==
  \/ LoopStep \/ Start \/ Crash \/ Shutdown \/ ScanFails \/ ReplyLost
  \/ \E e \in Ids : HandlerFails(e) \/ AckFails(e) \/ AckReplyLost(e) \/ Trim(e) \/ GrowIdle(e)
  \/ \E p \in Payloads : Publish(p)
  \/ \E s \in Schedules : ApiDelete(s)

Spec == Init /\ [][Next]_vars

(* The event loop runs the task; the supervisor restarts a process that is   *)
(* down; time passes.                                                        *)
FairSpec ==
  /\ Spec /\ WF_vars(LoopStep) /\ WF_vars(Start)
  /\ \A e \in Ids : WF_vars(GrowIdle(e))
-----------------------------------------------------------------------------
TypeOK ==
  /\ stream \in Seq(Payloads) /\ Len(stream) <= MaxEntries
  /\ trimmed \subseteq Ids /\ lastId \in 0..Len(stream) /\ dlq \subseteq Ids
  /\ pending \subseteq 1..lastId /\ idle \subseteq pending
  /\ pc \in Pcs /\ startup \in BOOLEAN /\ bad \cup batch \subseteq pending
  /\ sched \in [Schedules -> Versions] /\ bind \in [Schedules -> Versions]
  /\ passed \subseteq Ids
  /\ done \in [Ids -> SUBSET Outcomes] /\ spent \in [FaultKinds -> Nat]

Acked == (1..lastId) \ (pending \cup trimmed)
Disposed(e) == e \in dlq \/ done[e] \cap {"ignored", "left", "binding"} # {}
Faultless(kinds) == \A k \in kinds : spent[k] = 0

(* ingress.py acks after the handler, read_group and reclaim only after      *)
(* dead-lettering: a crash loses no entry, and a failing call or a shutdown  *)
(* that cancels the handler at most the one in hand, never the batch.        *)
Lost == {e \in Acked : ~Disposed(e)}
HandledBeforeAck == Cardinality(Lost) <= spent.failure + spent.shutdown

(* handle_request writes the schedule, then its binding: a request that is   *)
(* acked after writing the one has written the other too.                    *)
NoHalfRegistration ==
  Faultless({"failure", "shutdown"}) =>
    \A e \in Acked : "schedule" \in done[e] => "binding" \in done[e]

(* Replays are safe: a request published earlier never replaces what a later *)
(* request registered.                                                       *)
NewestWins ==
  [][\A s \in Schedules : sched'[s] # sched[s] => sched'[s] = 0 \/ sched'[s] > sched[s]]_sched

(* Whatever fails and however soon the process is back: a request replaces   *)
(* what a newer one registered only if it was left pending, by a claim that  *)
(* came too early or a call that raised, when the task took newer entries.   *)
OnlyPassedOverwrite ==
  [][\A s \in Schedules : sched'[s] # sched[s] =>
       sched'[s] = 0 \/ sched'[s] > sched[s] \/ sched'[s] \in passed]_sched

(* Every published request is eventually delivered and acked, through the    *)
(* startup reclaim if the process died on it.                                *)
EveryEntryAcked ==
  \A e \in Ids : (e <= Len(stream)) ~> (e <= lastId /\ e \notin pending)
=============================================================================
