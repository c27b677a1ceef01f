---------------------------- MODULE ServiceProofs ----------------------------
(* What holds of Service for any jobs, targets and pieces of work, any number *)
(* of lives, of failing calls and of attempts to connect.                     *)
EXTENDS Service, TLAPS

Quiet == \A w \in Work : pc[w] \in {"idle", "done"}

(* A process that is down has nothing in memory; one that is up has a life.  *)
LifeOK ==
  /\ phase # "down" => life >= 1
  /\ phase = "down" => open = {} /\ bg = Off /\ tries = 0
  /\ phase = "down" \/ (phase = "starting" /\ at = "registry") => Quiet

(* What a start has opened when it comes to a resource, and what a stop has  *)
(* left open; a stop comes to its closes when every task has ended.          *)
OpenBefore == [registry |-> {}, publisher |-> {"registry"},
               broker |-> {"registry", "publisher"},
               consumer |-> {"registry", "publisher", "broker"}, group |-> Resources]
LeftOpen == [consumer |-> Resources, broker |-> {"registry", "publisher", "broker"},
             publisher |-> {"registry", "publisher"}, registry |-> {"registry"}]
Ended == \A t \in Background : bg[t] = "ended"

OpenOK ==
  /\ phase = "starting" => at \in DOMAIN OpenBefore /\ open = OpenBefore[at]
  /\ phase \in {"up", "stopping"} => open = Resources
  /\ phase = "closing" => at \in DOMAIN LeftOpen /\ open = LeftOpen[at] /\ Ended
  /\ phase = "stopped" => open = {} /\ Ended
  /\ phase = "failed" => "registry" \in open

TriesOK == phase = "starting" => tries < ConnectRetries

(* A dead task, or a failed phase, has somebody to blame.                    *)
BlameOK ==
  /\ phase = "failed" => blamed
  /\ \A t \in Background : bg[t] = "dead" => blamed

(* What is not done has published nothing, since done is the end.            *)
FreshOK == \A w \in Tasks \cup Runs : pc[w] # "done" => \A e \in entries : e[1][1] # w

(* Past its EXPIRE a counter has a TTL; past its SADD a stream is listed.    *)
EmissionOK ==
  \A w \in Tasks \cup Runs :
    /\ pc[w] \in {"sadd", "xadd"} => Counter(w) \notin bare
    /\ pc[w] = "xadd" => Stream(w) \in active \cup dropped

WithdrawOK == \A d \in Deletes : pc[d] \in {"srem", "delete"} => Target[JobOf[d]] = NoTarget

(* A guard that found the registry closed found a process that had stopped.  *)
UnguardedOK ==
  \A c \in unguarded : c[2] <= life /\ (phase # "down" /\ c[2] = life => phase = "stopped")

LifespanInv == LifeOK /\ OpenOK /\ TriesOK /\ TasksFindConnections /\ BlameOK
EmissionInv ==
  /\ FreshOK /\ EmissionOK /\ WithdrawOK /\ UnguardedOK
  /\ PublishedCountersExpire /\ StreamsAreListed /\ ClosedGuardPublishesNothing
IInv == TypeOK /\ LifespanInv /\ EmissionInv

-----------------------------------------------------------------------------
LEMMA InitInv == Init => IInv
<1> SUFFICES ASSUME Init PROVE IInv
  OBVIOUS
<1>1. TypeOK
  <2>1. blamed \in BOOLEAN /\ bg \in [Background -> {"none", "running", "cancelled", "ended", "dead"}]
    BY DEF Init, Off
  <2>2. tries \in 0..ConnectRetries /\ life \in 0..MaxLives /\ failures \in 0..MaxFailures
    BY ConstantsAssumption DEF Init
  <2> QED BY <2>1, <2>2 DEF Init, TypeOK, Resources, Points
<1>2. LifespanInv
  BY DEF Init, LifespanInv, LifeOK, OpenOK, TriesOK, TasksFindConnections, BlameOK, Quiet, Off
<1>3. EmissionInv
  BY DEF Init, Work, EmissionInv, FreshOK, EmissionOK, WithdrawOK, UnguardedOK,
         PublishedCountersExpire, StreamsAreListed, ClosedGuardPublishesNothing
<1> QED BY <1>1, <1>2, <1>3 DEF IInv

-----------------------------------------------------------------------------
(* What one piece of work does to pc.                                        *)
LEMMA GotoType ==
  ASSUME pc \in [Work -> Points], NEW w \in Work, NEW p \in Points, Goto(w, p)
  PROVE  pc' \in [Work -> Points] /\ pc'[w] = p /\ \A v \in Work : v # w => pc'[v] = pc[v]
BY DEF Goto

LEMMA StreamType ==
  ASSUME NEW w \in Tasks \cup Runs
  PROVE  Stream(w) \in Jobs
BY ConstantsAssumption DEF Stream, StreamId, Work

(* An active piece of work has a process with a life.                        *)
LEMMA CounterType ==
  ASSUME TypeOK, LifeOK, NEW w \in Tasks \cup Runs, pc[w] \notin {"idle", "done"}
  PROVE  Counter(w) \in Counters
<1>1. phase # "down" /\ life >= 1
  BY DEF LifeOK, Quiet, Work
<1> QED BY <1>1, ConstantsAssumption DEF TypeOK, Counter, Counters

LEMMA FaultType ==
  ASSUME TypeOK, Fault
  PROVE  failures' \in 0..MaxFailures /\ blamed' \in BOOLEAN /\ life' \in 0..MaxLives
BY ConstantsAssumption DEF TypeOK, Fault

LEMMA RaiseType ==
  ASSUME TypeOK, Raise
  PROVE  failures' \in 0..MaxFailures /\ blamed' \in BOOLEAN /\ life' \in 0..MaxLives
BY ConstantsAssumption DEF TypeOK, Raise

LEMMA StepType == IInv /\ [Next]_vars => TypeOK'
<1> SUFFICES ASSUME IInv, [Next]_vars PROVE TypeOK'
  OBVIOUS
<1> USE ConstantsAssumption DEF lifespan, bus, store, counts
<1>0. TypeOK /\ LifeOK /\ OpenOK /\ TriesOK
  BY DEF IInv, LifespanInv
<1>1. CASE Launch
  <2>1. blamed' \in BOOLEAN
    BY <1>1 DEF Launch
  <2>2. life' \in 0..MaxLives
    BY <1>0, <1>1 DEF Launch, TypeOK
  <2> QED BY <1>0, <1>1, <2>1, <2>2 DEF Launch, TypeOK, Resources
<1>2. CASE Open
  <2>1. at \in DOMAIN OpenNext /\ OpenNext[at] \in Resources \cup {"group", "none"}
    BY <1>0, <1>2 DEF Open, OpenOK, OpenBefore, OpenNext, Resources
  <2>2. bg' \in [Background -> {"none", "running", "cancelled", "ended", "dead"}]
    BY <1>0, <1>2 DEF Open, Spawn, TypeOK
  <2> QED BY <1>0, <1>2, <2>1, <2>2 DEF Open, TypeOK, Resources
<1>3. CASE Retry
  BY <1>0, <1>3 DEF Retry, TypeOK, TriesOK
<1>4. CASE StartFails
  BY <1>0, <1>4, FaultType DEF StartFails, TypeOK, Resources
<1>5. CASE Stop
  <2>1. bg' \in [Background -> {"none", "running", "cancelled", "ended", "dead"}]
    BY <1>0, <1>5 DEF Stop, TypeOK
  <2> QED BY <1>0, <1>5, <2>1 DEF Stop, TypeOK
<1>6. CASE Await
  BY <1>0, <1>6 DEF Await, TypeOK, Resources
<1>7. CASE Close
  BY <1>0, <1>7 DEF Close, CloseNext, TypeOK, OpenOK, LeftOpen, Resources
<1>8. CASE CloseFails
  BY <1>0, <1>8, FaultType DEF CloseFails, TypeOK
<1>9. CASE Dead
  <2>1. pc' \in [Work -> Points]
    BY <1>0, <1>9 DEF Dead, TypeOK, Points
  <2> QED BY <1>0, <1>9, <2>1 DEF Dead, TypeOK, Off, Resources
<1>10. ASSUME NEW t \in Background, TaskEnds(t) PROVE TypeOK'
  <2>1. pc' \in [Work -> Points]
    BY <1>0, <1>10 DEF TaskEnds, TypeOK, Points
  <2> QED BY <1>0, <1>10, <2>1 DEF TaskEnds, TypeOK
<1>11. ASSUME NEW t \in Background, TaskDies(t) PROVE TypeOK'
  BY <1>0, <1>11, FaultType DEF TaskDies, TypeOK
<1>12. ASSUME NEW t \in Tasks, Receive(t) PROVE TypeOK'
  BY <1>0, <1>12 DEF Receive, Goto, TypeOK, Points, Work
<1>13. ASSUME NEW t \in Tasks, Guard(t) PROVE TypeOK'
  <2>1. Counter(t) \in Counters
    BY <1>0, <1>13, CounterType DEF Guard
  <2>2. pc' \in [Work -> Points]
    BY <1>0, <1>13 DEF Guard, Goto, TypeOK, Points, Work
  <2> QED BY <1>0, <1>13, <2>1, <2>2, RaiseType DEF Guard, TypeOK
<1>14. ASSUME NEW r \in Runs, RunNow(r) PROVE TypeOK'
  BY <1>0, <1>14 DEF RunNow, Goto, TypeOK, Points, Work
<1>15. ASSUME NEW w \in Tasks \cup Runs, Applied(w), Emitting(w)
       PROVE  /\ entries' \subseteq Counters \X Jobs /\ active' \subseteq Jobs
              /\ dropped' \subseteq Jobs /\ bare' \subseteq Counters
  <2>1. Counter(w) \in Counters /\ Stream(w) \in Jobs
    BY <1>0, <1>15, CounterType, StreamType DEF Emitting
  <2>2. CASE pc[w] = "incr"
    BY <1>0, <1>15, <2>1, <2>2 DEF Applied, TypeOK
  <2>3. CASE pc[w] = "expire"
    BY <1>0, <1>15, <2>3 DEF Applied, TypeOK
  <2>4. CASE pc[w] = "sadd"
    BY <1>0, <1>15, <2>1, <2>4 DEF Applied, TypeOK
  <2>5. CASE pc[w] = "xadd"
    BY <1>0, <1>15, <2>1, <2>5 DEF Applied, TypeOK
  <2> QED BY <1>15, <2>2, <2>3, <2>4, <2>5 DEF Emitting
<1>16. ASSUME NEW w \in Tasks \cup Runs, Command(w) PROVE TypeOK'
  <2>1. pc' \in [Work -> Points]
    BY <1>0, <1>16 DEF Command, Emitting, EmitNext, Goto, TypeOK, Points, Work
  <2> QED BY <1>0, <1>15, <1>16, <2>1 DEF Command, TypeOK
<1>17. ASSUME NEW w \in Tasks \cup Runs, CommandRaises(w) PROVE TypeOK'
  <2>1. pc' \in [Work -> Points]
    BY <1>0, <1>17 DEF CommandRaises, Goto, TypeOK, Points, Work
  <2> QED BY <1>0, <1>15, <1>17, <2>1, RaiseType DEF CommandRaises, TypeOK
<1>18. ASSUME NEW d \in Deletes, Delete(d) PROVE TypeOK'
  BY <1>0, <1>18 DEF Delete, Goto, TypeOK, Points, Work
<1>19. ASSUME NEW d \in Deletes, Removed(JobOf[d])
       PROVE  active' \subseteq Jobs /\ dropped' \subseteq Jobs
  <2>1. JobOf[d] \in Jobs
    BY DEF Work
  <2> QED BY <1>0, <1>19, <2>1 DEF Removed, TypeOK
<1>20. ASSUME NEW d \in Deletes, Withdraw(d) PROVE TypeOK'
  <2>1. pc' \in [Work -> Points]
    BY <1>0, <1>20 DEF Withdraw, Goto, TypeOK, Points, Work
  <2> QED BY <1>0, <1>19, <1>20, <2>1 DEF Withdraw, TypeOK
<1>21. ASSUME NEW d \in Deletes, DeleteStream(d) PROVE TypeOK'
  BY <1>0, <1>21 DEF DeleteStream, Goto, TypeOK, Points, Work
<1>22. ASSUME NEW d \in Deletes, WithdrawRaises(d) PROVE TypeOK'
  <2>1. pc' \in [Work -> Points]
    BY <1>0, <1>22 DEF WithdrawRaises, Goto, TypeOK, Points, Work
  <2> QED BY <1>0, <1>19, <1>22, <2>1, RaiseType DEF WithdrawRaises, TypeOK
<1>23. ASSUME NEW d \in Deletes, Find(d) PROVE TypeOK'
  BY <1>0, <1>23 DEF Find, Goto, TypeOK, Points, Work
<1>24. ASSUME NEW d \in Deletes, DeleteRaises(d) PROVE TypeOK'
  <2>1. pc' \in [Work -> Points] /\ jobs' \subseteq Jobs
    BY <1>0, <1>24 DEF DeleteRaises, Goto, TypeOK, Points, Work
  <2> QED BY <1>0, <1>24, <2>1, RaiseType DEF DeleteRaises, TypeOK
<1>25. CASE UNCHANGED vars
  BY <1>0, <1>25 DEF vars, TypeOK
<1> QED
  BY <1>1, <1>2, <1>3, <1>4, <1>5, <1>6, <1>7, <1>8, <1>9, <1>10, <1>11, <1>12, <1>13,
     <1>14, <1>16, <1>17, <1>18, <1>20, <1>21, <1>22, <1>23, <1>24, <1>25
  DEF Next, Starting, Stopping, Working, Exit, Crash

-----------------------------------------------------------------------------
(* The lifespan.  No piece of work moves while the process is down, or       *)
(* before its registry is open; none of them opens or closes anything.       *)
LEMMA WorkMovesOpen ==
  ASSUME IInv, NEW w \in Work, pc[w] \notin {"idle", "done"}
  PROVE  phase # "down" /\ ~(phase = "starting" /\ at = "registry")
BY DEF IInv, LifespanInv, LifeOK, Quiet

LEMMA WorkKeepsLifespan ==
  ASSUME IInv, UNCHANGED <<lifespan, life>>, blamed => blamed',
         phase # "down" /\ ~(phase = "starting" /\ at = "registry")
  PROVE  LifespanInv'
BY DEF IInv, LifespanInv, LifeOK, OpenOK, TriesOK, TasksFindConnections, BlameOK, Ended, lifespan

(* A step of the start opens what the next one, and the tasks it spawns, need.*)
LEMMA OpenStep ==
  ASSUME OpenOK, Open
  PROVE  /\ open \subseteq open'
         /\ at = "group" => phase' = "up" /\ open' = Resources
         /\ at # "group" => /\ phase' = "starting" /\ at' \in DOMAIN OpenBefore
                            /\ open' = OpenBefore[at']
         /\ \A t \in Spawned[at] : Needs[t] \subseteq open'
<1>1. /\ at \in {"registry", "publisher", "broker", "consumer", "group"}
      /\ open = OpenBefore[at] /\ open' = open \cup ({at} \cap Resources)
      /\ phase = "starting"
  BY DEF Open, OpenOK, OpenBefore
<1>2. CASE at = "registry"
  BY <1>1, <1>2 DEF Open, OpenBefore, OpenNext, Spawned, Resources
<1>3. CASE at = "publisher"
  BY <1>1, <1>3 DEF Open, OpenBefore, OpenNext, Spawned, Resources
<1>4. CASE at = "broker"
  BY <1>1, <1>4 DEF Open, OpenBefore, OpenNext, Spawned, Needs, Resources
<1>5. CASE at = "consumer"
  BY <1>1, <1>5 DEF Open, OpenBefore, OpenNext, Spawned, Resources
<1>6. CASE at = "group"
  BY <1>1, <1>6 DEF Open, OpenBefore, OpenNext, Spawned, Needs, Resources
<1> QED BY <1>1, <1>2, <1>3, <1>4, <1>5, <1>6

LEMMA StepLifespan == IInv /\ [Next]_vars => LifespanInv'
<1> SUFFICES ASSUME IInv, [Next]_vars PROVE LifespanInv'
  OBVIOUS
<1> USE ConstantsAssumption DEF lifespan, bus, store, counts
<1>0. /\ TypeOK /\ LifeOK /\ OpenOK /\ TriesOK /\ TasksFindConnections /\ BlameOK
  BY DEF IInv, LifespanInv
<1> DEFINE Parts == /\ LifeOK' /\ OpenOK' /\ TriesOK' /\ TasksFindConnections' /\ BlameOK'
<1>a. SUFFICES Parts
  BY DEF LifespanInv
<1>1. CASE Launch
  <2>1. LifeOK'
    BY <1>0, <1>1 DEF Launch, TypeOK, LifeOK, Quiet
  <2>2. OpenOK' /\ TriesOK'
    BY <1>0, <1>1 DEF Launch, LifeOK, OpenOK, TriesOK, OpenBefore
  <2>3. TasksFindConnections' /\ BlameOK'
    BY <1>0, <1>1 DEF Launch, LifeOK, TasksFindConnections, BlameOK, Off
  <2> QED BY <2>1, <2>2, <2>3
<1>2. CASE Open
  <2>1. LifeOK'
    BY <1>0, <1>2 DEF Open, LifeOK, OpenOK, OpenBefore, OpenNext
  <2>2. OpenOK'
    BY <1>0, <1>2, OpenStep DEF OpenOK
  <2>3. TriesOK'
    BY <1>0, <1>2 DEF Open, TriesOK
  <2>4. TasksFindConnections'
    <3> SUFFICES ASSUME NEW t \in Background, bg'[t] \in {"running", "cancelled"}
                 PROVE  Needs[t] \subseteq open'
      BY DEF TasksFindConnections
    <3>1. CASE t \in Spawned[at]
      BY <1>0, <1>2, <3>1, OpenStep
    <3>2. CASE t \notin Spawned[at]
      <4>1. Needs[t] \subseteq open
        BY <1>0, <1>2, <3>2 DEF Open, Spawn, TasksFindConnections
      <4> QED BY <1>0, <1>2, <4>1, OpenStep
    <3> QED BY <3>1, <3>2
  <2>5. BlameOK'
    BY <1>0, <1>2 DEF Open, Spawn, BlameOK
  <2> QED BY <2>1, <2>2, <2>3, <2>4, <2>5
<1>3. CASE Retry
  <2>1. LifeOK' /\ OpenOK' /\ TriesOK' /\ TasksFindConnections'
    BY <1>0, <1>3 DEF Retry, TypeOK, LifeOK, Quiet, OpenOK, OpenBefore, TriesOK, TasksFindConnections
  <2>2. phase # "failed" /\ (blamed => blamed') /\ (phase' = "failed" => blamed') /\ bg' = bg
    BY <1>3 DEF Retry
  <2>3. BlameOK'
    BY <1>0, <2>2 DEF BlameOK
  <2> QED BY <2>1, <2>3
<1>4. CASE StartFails
  BY <1>0, <1>4 DEF StartFails, Fault, LifeOK, OpenOK, OpenBefore, Resources, TriesOK,
     TasksFindConnections, BlameOK
<1>5. CASE Stop
  <2>1. LifeOK' /\ OpenOK' /\ TriesOK'
    BY <1>0, <1>5 DEF Stop, LifeOK, OpenOK, TriesOK
  <2>2. TasksFindConnections' /\ BlameOK'
    BY <1>0, <1>5 DEF Stop, TasksFindConnections, BlameOK
  <2> QED BY <2>1, <2>2
<1>6. CASE Await
  BY <1>0, <1>6 DEF Await, LifeOK, OpenOK, LeftOpen, Ended, Resources, TriesOK,
     TasksFindConnections, BlameOK
<1>7. CASE Close
  BY <1>0, <1>7 DEF Close, CloseNext, LifeOK, OpenOK, LeftOpen, Ended, Resources, TriesOK,
     TasksFindConnections, BlameOK
<1>8. CASE CloseFails
  BY <1>0, <1>8 DEF CloseFails, Fault, LifeOK, OpenOK, LeftOpen, Resources, TriesOK,
     TasksFindConnections, BlameOK
<1>9. CASE Dead
  <2>1. LifeOK'
    BY <1>0, <1>9 DEF Dead, LifeOK, Quiet, Unfinished, Off
  <2> QED BY <2>1, <1>9 DEF Dead, OpenOK, TriesOK, TasksFindConnections, BlameOK, Off
<1>10. ASSUME NEW t \in Background, TaskEnds(t) PROVE Parts
  <2>1. LifeOK'
    BY <1>0, <1>10 DEF TaskEnds, LifeOK, Quiet, Off
  <2>2. OpenOK' /\ TriesOK'
    BY <1>0, <1>10 DEF TaskEnds, OpenOK, TriesOK, Ended, TypeOK
  <2>3. TasksFindConnections' /\ BlameOK'
    BY <1>0, <1>10 DEF TaskEnds, TasksFindConnections, BlameOK, TypeOK
  <2> QED BY <2>1, <2>2, <2>3
<1>11. ASSUME NEW t \in Background, TaskDies(t) PROVE Parts
  <2>1. LifeOK'
    BY <1>0, <1>11 DEF TaskDies, Fault, LifeOK, Quiet, Off
  <2>2. OpenOK' /\ TriesOK'
    BY <1>0, <1>11 DEF TaskDies, Fault, OpenOK, TriesOK, Ended, TypeOK
  <2>3. TasksFindConnections' /\ BlameOK'
    BY <1>0, <1>11 DEF TaskDies, Fault, TasksFindConnections, BlameOK, TypeOK
  <2> QED BY <2>1, <2>2, <2>3
<1>12. CASE Working
  <2>1. UNCHANGED <<lifespan, life>> /\ (blamed => blamed')
    BY <1>12 DEF Working, Receive, Guard, RunNow, Command, CommandRaises, Find, Delete,
       DeleteRaises, Withdraw, DeleteStream, WithdrawRaises, Raise
  <2>2. phase # "down" /\ ~(phase = "starting" /\ at = "registry")
    <3>1. ASSUME NEW t \in Tasks, Receive(t)
          PROVE  phase # "down" /\ ~(phase = "starting" /\ at = "registry")
      BY <1>0, <3>1 DEF Receive, LifeOK, OpenOK, OpenBefore, TasksFindConnections, Needs, Off, Background
    <3>2. ASSUME NEW w \in Work, pc[w] \notin {"idle", "done"}
          PROVE  phase # "down" /\ ~(phase = "starting" /\ at = "registry")
      BY <3>2, WorkMovesOpen
    <3> QED BY <1>12, <3>1, <3>2 DEF Working, Guard, RunNow, Command, CommandRaises, Emitting,
               Find, Delete, DeleteRaises, Withdraw, DeleteStream, WithdrawRaises, Work
  <2> QED BY <2>1, <2>2, WorkKeepsLifespan DEF LifespanInv
<1>13. CASE UNCHANGED vars
  BY <1>0, <1>13 DEF vars, LifeOK, Quiet, OpenOK, Ended, TriesOK, TasksFindConnections, BlameOK
<1> QED
  BY <1>1, <1>2, <1>3, <1>4, <1>5, <1>6, <1>7, <1>8, <1>9, <1>10, <1>11, <1>12, <1>13
  DEF Next, Starting, Stopping, Exit, Crash

-----------------------------------------------------------------------------
(* The emissions.  First the steps that publish nothing.                     *)
LEMMA BusKept ==
  ASSUME EmissionInv, UNCHANGED <<bus, unguarded>>
  PROVE  PublishedCountersExpire' /\ StreamsAreListed' /\ ClosedGuardPublishesNothing'
BY DEF EmissionInv, PublishedCountersExpire, StreamsAreListed, ClosedGuardPublishesNothing, bus

LEMMA WorkKept ==
  ASSUME EmissionInv, UNCHANGED <<bus, unguarded, life>>,
         \A w \in Work : pc'[w] = pc[w] \/ (pc[w] # "done" /\ pc'[w] \in {"idle", "done"}),
         phase' = phase \/ phase \notin {"down", "stopped"} \/ phase' = "down"
  PROVE  EmissionInv'
<1>1. FreshOK' /\ WithdrawOK'
  BY DEF EmissionInv, FreshOK, WithdrawOK, Work, bus
<1>2. EmissionOK'
  BY DEF EmissionInv, EmissionOK, Work, Counter, bus
<1>3. UnguardedOK'
  BY DEF EmissionInv, UnguardedOK
<1> QED BY <1>1, <1>2, <1>3, BusKept DEF EmissionInv

(* A piece of work that starts.                                              *)
LEMMA WorkStarts ==
  ASSUME IInv, NEW w \in Work, UNCHANGED <<bus, unguarded, life, phase>>,
         pc[w] = "idle", NEW p \in {"guard", "incr", "hdel", "done"}, Goto(w, p)
  PROVE  EmissionInv'
<1>1. pc'[w] = p /\ \A v \in Work : v # w => pc'[v] = pc[v]
  BY DEF Goto, IInv, TypeOK
<1>2. FreshOK' /\ WithdrawOK'
  BY <1>1 DEF IInv, EmissionInv, FreshOK, WithdrawOK, Work, bus
<1>3. EmissionOK'
  BY <1>1 DEF IInv, EmissionInv, EmissionOK, Work, Counter, bus
<1>4. UnguardedOK'
  BY DEF IInv, EmissionInv, UnguardedOK
<1> QED BY <1>2, <1>3, <1>4, BusKept DEF EmissionInv, IInv

(* A command that takes effect, whether or not it then raises.               *)
LEMMA CommandApplied ==
  ASSUME IInv, NEW w \in Tasks \cup Runs, Emitting(w), "publisher" \in open, Applied(w),
         NEW p \in {"done", EmitNext[pc[w]]}, Goto(w, p), UNCHANGED <<unguarded, life, phase>>
  PROVE  EmissionInv'
<1> USE DEF IInv, EmissionInv
<1>0. pc'[w] = p /\ \A v \in Work : v # w => pc'[v] = pc[v]
  BY DEF Goto, TypeOK, Work
<1>1. UnguardedOK'
  BY DEF UnguardedOK
<1>2. WithdrawOK'
  BY <1>0 DEF WithdrawOK, Emitting, EmitNext, Work
<1>3. Counter(w) \notin unguarded
  <2>1. phase # "down" /\ phase # "stopped"
    BY WorkMovesOpen DEF Emitting, Work, LifespanInv, OpenOK
  <2> QED BY <2>1 DEF UnguardedOK, Counter
<1>4. \A e \in entries : e[1] # Counter(w)
  BY DEF FreshOK, Emitting, Counter
<1>5. \A v \in Tasks \cup Runs : v # w => Counter(v) # Counter(w)
  BY DEF Counter
<1>6. \A v \in Tasks \cup Runs : Counter(v)' = Counter(v) /\ Stream(v)' = Stream(v)
  BY DEF Counter, Stream, StreamId
<1>7. CASE pc[w] = "incr"
  <2>1. bare' = bare \cup {Counter(w)} /\ UNCHANGED <<entries, active, dropped>> /\ p \in {"expire", "done"}
    BY <1>7 DEF Applied, EmitNext
  <2>2. FreshOK' /\ EmissionOK'
    BY <1>0, <1>5, <1>6, <1>7, <2>1 DEF FreshOK, EmissionOK, Work
  <2> QED BY <1>1, <1>2, <1>4, <2>1, <2>2
          DEF PublishedCountersExpire, StreamsAreListed, ClosedGuardPublishesNothing
<1>8. CASE pc[w] = "expire"
  <2>1. bare' = bare \ {Counter(w)} /\ UNCHANGED <<entries, active, dropped>> /\ p \in {"sadd", "done"}
    BY <1>8 DEF Applied, EmitNext
  <2>2. FreshOK' /\ EmissionOK'
    BY <1>0, <1>6, <1>8, <2>1 DEF FreshOK, EmissionOK, Work
  <2> QED BY <1>1, <1>2, <2>1, <2>2
          DEF PublishedCountersExpire, StreamsAreListed, ClosedGuardPublishesNothing
<1>9. CASE pc[w] = "sadd"
  <2>1. /\ active' = active \cup {Stream(w)} /\ dropped' = dropped \ {Stream(w)}
        /\ UNCHANGED <<entries, bare>> /\ p \in {"xadd", "done"}
    BY <1>9 DEF Applied, EmitNext
  <2>2. FreshOK' /\ EmissionOK'
    BY <1>0, <1>6, <1>9, <2>1 DEF FreshOK, EmissionOK, Work
  <2> QED BY <1>1, <1>2, <2>1, <2>2
          DEF PublishedCountersExpire, StreamsAreListed, ClosedGuardPublishesNothing
<1>10. CASE pc[w] = "xadd"
  <2>1. /\ entries' = entries \cup {<<Counter(w), Stream(w)>>}
        /\ UNCHANGED <<active, bare, dropped>> /\ p = "done"
    BY <1>10 DEF Applied, EmitNext
  <2>2. FreshOK' /\ EmissionOK'
    BY <1>0, <1>6, <1>10, <2>1 DEF FreshOK, EmissionOK, Work, Counter
  <2>3. Counter(w) \notin bare /\ Stream(w) \in active \cup dropped
    BY <1>10 DEF EmissionOK
  <2> QED BY <1>1, <1>2, <1>3, <2>1, <2>2, <2>3
          DEF PublishedCountersExpire, StreamsAreListed, ClosedGuardPublishesNothing
<1> QED BY <1>7, <1>8, <1>9, <1>10 DEF Emitting

(* A job that is deleted, before its stream is withdrawn.                    *)
LEMMA DeleteStep ==
  ASSUME IInv, NEW d \in Deletes, pc[d] = "hdel", NEW p \in {"srem", "done"}, Goto(d, p),
         p = "srem" => Target[JobOf[d]] = NoTarget, UNCHANGED <<bus, unguarded, life, phase>>
  PROVE  EmissionInv'
<1>1. pc'[d] = p /\ \A v \in Work : v # d => pc'[v] = pc[v]
  BY DEF Goto, IInv, TypeOK, Work
<1>2. FreshOK' /\ WithdrawOK'
  BY <1>1 DEF IInv, EmissionInv, FreshOK, WithdrawOK, Work, bus
<1>3. EmissionOK'
  BY <1>1 DEF IInv, EmissionInv, EmissionOK, Work, Counter, bus
<1>4. UnguardedOK'
  BY DEF IInv, EmissionInv, UnguardedOK
<1> QED BY <1>2, <1>3, <1>4, BusKept DEF EmissionInv, IInv

(* A stream that is withdrawn is its job's own.                              *)
LEMMA WithdrawStep ==
  ASSUME IInv, NEW d \in Deletes, pc[d] \in {"srem", "delete"}, NEW p \in {"delete", "done"}, Goto(d, p),
         UNCHANGED <<entries, bare, unguarded, life, phase>>,
         Removed(JobOf[d]) \/ UNCHANGED <<active, dropped>>
  PROVE  EmissionInv'
<1> USE DEF IInv, EmissionInv
<1>0. pc'[d] = p /\ \A v \in Work : v # d => pc'[v] = pc[v]
  BY DEF Goto, TypeOK, Work
<1>1. Target[JobOf[d]] = NoTarget
  BY DEF WithdrawOK
<1>2. active \cup dropped \subseteq active' \cup dropped'
  BY <1>1 DEF Removed
<1>3. FreshOK' /\ WithdrawOK' /\ UnguardedOK'
  BY <1>0, <1>1 DEF FreshOK, WithdrawOK, UnguardedOK, Work
<1>4. EmissionOK'
  BY <1>0, <1>2 DEF EmissionOK, Work, Counter, Stream, StreamId
<1> QED BY <1>2, <1>3, <1>4
        DEF PublishedCountersExpire, StreamsAreListed, ClosedGuardPublishesNothing

(* A guard that finds the registry closed: the process has stopped, and what  *)
(* comes of the fire has published nothing yet.                              *)
LEMMA GuardClosed ==
  ASSUME IInv, NEW t \in Tasks, pc[t] = "guard", "registry" \notin open, Goto(t, "incr"),
         unguarded' = unguarded \cup {Counter(t)}, UNCHANGED <<bus, life, phase>>
  PROVE  EmissionInv'
<1> USE DEF IInv, EmissionInv
<1>0. pc'[t] = "incr" /\ \A v \in Work : v # t => pc'[v] = pc[v]
  BY DEF Goto, TypeOK, Work
<1>1. phase = "stopped"
  <2>1. phase # "down" /\ ~(phase = "starting" /\ at = "registry")
    BY WorkMovesOpen DEF Work
  <2>2. phase \in {"starting", "up", "stopping", "closing", "stopped", "failed"}
    BY <2>1 DEF TypeOK
  <2> QED BY <2>1, <2>2 DEF LifespanInv, OpenOK, OpenBefore, LeftOpen, Resources
<1>2. Counter(t)[2] <= life /\ UnguardedOK'
  <2>1. Counter(t)[2] = life /\ life \in Nat
    BY ConstantsAssumption DEF Counter, TypeOK
  <2> QED BY <1>1, <2>1 DEF UnguardedOK
<1>3. FreshOK' /\ WithdrawOK'
  BY <1>0 DEF FreshOK, WithdrawOK, Work, bus
<1>4. EmissionOK'
  BY <1>0 DEF EmissionOK, Work, Counter, bus
<1>5. PublishedCountersExpire' /\ StreamsAreListed'
  BY DEF PublishedCountersExpire, StreamsAreListed, bus
<1>6. ClosedGuardPublishesNothing'
  <2>1. \A e \in entries : e[1] # Counter(t)
    BY DEF FreshOK, Counter
  <2> QED BY <2>1 DEF ClosedGuardPublishesNothing, bus
<1> QED BY <1>2, <1>3, <1>4, <1>5, <1>6

LEMMA StepEmission == IInv /\ [Next]_vars => EmissionInv'
<1> SUFFICES ASSUME IInv, [Next]_vars PROVE EmissionInv'
  OBVIOUS
<1> USE ConstantsAssumption DEF lifespan, store, counts
<1>0. TypeOK /\ LifeOK /\ EmissionInv
  BY DEF IInv, LifespanInv
<1>a. ASSUME NEW w \in Work, NEW p \in {"idle", "done"}, Goto(w, p), pc[w] # "done"
      PROVE  \A v \in Work : pc'[v] = pc[v] \/ (pc[v] # "done" /\ pc'[v] \in {"idle", "done"})
  BY <1>0, <1>a DEF Goto, TypeOK
<1>1. CASE Launch
  <2>1. Quiet /\ UNCHANGED <<pc, bus, unguarded>> /\ life' = life + 1
    BY <1>0, <1>1 DEF Launch, LifeOK
  <2>2. FreshOK' /\ WithdrawOK' /\ EmissionOK'
    BY <1>0, <2>1 DEF EmissionInv, FreshOK, WithdrawOK, EmissionOK, Quiet, Work, bus
  <2>3. UnguardedOK'
    <3> SUFFICES ASSUME NEW c \in unguarded
                 PROVE  c[2] <= life' /\ c[2] # life'
      BY <2>1 DEF UnguardedOK
    <3>1. c[2] <= life /\ c[2] \in Nat /\ life \in Nat
      BY <1>0 DEF EmissionInv, UnguardedOK, TypeOK, Counters
    <3> QED BY <2>1, <3>1
  <2> QED BY <1>0, <2>1, <2>2, <2>3, BusKept DEF EmissionInv
<1>2. CASE Open
  BY <1>0, <1>2, WorkKept DEF Open
<1>3. CASE Retry
  BY <1>0, <1>3, WorkKept DEF Retry
<1>4. CASE StartFails
  BY <1>0, <1>4, WorkKept DEF StartFails, Fault
<1>5. CASE Stopping
  BY <1>0, <1>5, WorkKept DEF Stopping, Stop, Await, Close, CloseFails, Fault
<1>6. CASE Dead
  <2>1. \A w \in Work : pc'[w] = pc[w] \/ (pc[w] # "done" /\ pc'[w] \in {"idle", "done"})
    BY <1>6 DEF Dead, Unfinished
  <2> QED BY <1>0, <1>6, <2>1, WorkKept DEF Dead
<1>7. ASSUME NEW t \in Background, TaskEnds(t) PROVE EmissionInv'
  <2>1. \A w \in Work : pc'[w] = pc[w] \/ (pc[w] # "done" /\ pc'[w] \in {"idle", "done"})
    BY <1>7 DEF TaskEnds, Unfinished
  <2> QED BY <1>0, <1>7, <2>1, WorkKept DEF TaskEnds
<1>8. ASSUME NEW t \in Background, TaskDies(t) PROVE EmissionInv'
  BY <1>0, <1>8, WorkKept DEF TaskDies, Fault
<1>9. ASSUME NEW t \in Tasks, Receive(t) PROVE EmissionInv'
  BY <1>9, WorkStarts DEF Receive, Work
<1>10. ASSUME NEW t \in Tasks, Guard(t) PROVE EmissionInv'
  <2>1. pc[t] = "guard" /\ t \in Work /\ UNCHANGED <<lifespan, bus, life>>
    BY <1>10 DEF Guard, Raise, Work
  <2>2. CASE "registry" \notin open
    BY <1>10, <2>1, <2>2, GuardClosed DEF Guard
  <2>3. CASE Goto(t, "done") /\ UNCHANGED unguarded
    BY <1>0, <1>a, <2>1, <2>3, WorkKept
  <2>4. CASE Goto(t, "incr") /\ UNCHANGED unguarded
    <3>1. pc'[t] = "incr" /\ \A v \in Work : v # t => pc'[v] = pc[v]
      BY <1>0, <2>1, <2>4 DEF Goto, TypeOK
    <3>2. FreshOK' /\ WithdrawOK'
      BY <1>0, <2>1, <3>1 DEF EmissionInv, FreshOK, WithdrawOK, Work, bus
    <3>3. EmissionOK' /\ UnguardedOK'
      BY <1>0, <2>1, <2>4, <3>1 DEF EmissionInv, EmissionOK, UnguardedOK, Work, Counter, bus
    <3> QED BY <1>0, <2>1, <2>4, <3>2, <3>3, BusKept DEF EmissionInv
  <2> QED BY <1>10, <2>2, <2>3, <2>4 DEF Guard
<1>11. ASSUME NEW r \in Runs, RunNow(r) PROVE EmissionInv'
  BY <1>11, WorkStarts DEF RunNow, Work
<1>12. ASSUME NEW w \in Tasks \cup Runs, Command(w) PROVE EmissionInv'
  BY <1>12, CommandApplied DEF Command
<1>13. ASSUME NEW w \in Tasks \cup Runs, CommandRaises(w) PROVE EmissionInv'
  <2>1. /\ Emitting(w) /\ Goto(w, "done") /\ w \in Work /\ pc[w] # "done"
        /\ UNCHANGED <<lifespan, store, life>>
    BY <1>13 DEF CommandRaises, Raise, Emitting, Work
  <2>2. CASE "publisher" \in open /\ Applied(w)
    BY <2>1, <2>2, CommandApplied
  <2>3. CASE UNCHANGED bus
    BY <1>0, <1>a, <2>1, <2>3, WorkKept
  <2> QED BY <1>13, <2>2, <2>3 DEF CommandRaises
<1>14. ASSUME NEW d \in Deletes, Delete(d) PROVE EmissionInv'
  BY <1>14, DeleteStep DEF Delete, Withdraws
<1>15. ASSUME NEW d \in Deletes, Withdraw(d) PROVE EmissionInv'
  BY <1>15, WithdrawStep DEF Withdraw
<1>16. ASSUME NEW d \in Deletes, DeleteStream(d) PROVE EmissionInv'
  <2>1. /\ entries' \subseteq entries /\ Goto(d, "done") /\ pc[d] = "delete" /\ d \in Work
        /\ UNCHANGED <<phase, life, unguarded, active, dropped, bare>>
    BY <1>16 DEF DeleteStream, Work
  <2>2. pc'[d] = "done" /\ \A v \in Work : v # d => pc'[v] = pc[v]
    BY <1>0, <2>1 DEF Goto, TypeOK
  <2>3. FreshOK' /\ WithdrawOK' /\ EmissionOK' /\ UnguardedOK'
    BY <1>0, <2>1, <2>2
    DEF EmissionInv, FreshOK, WithdrawOK, EmissionOK, UnguardedOK, Work, Counter
  <2> QED BY <1>0, <2>1, <2>3
          DEF EmissionInv, PublishedCountersExpire, StreamsAreListed, ClosedGuardPublishesNothing
<1>17. ASSUME NEW d \in Deletes, WithdrawRaises(d) PROVE EmissionInv'
  BY <1>17, WithdrawStep DEF WithdrawRaises, Raise
<1>19. ASSUME NEW d \in Deletes, Find(d) PROVE EmissionInv'
  BY <1>19, WorkStarts DEF Find, Work
<1>20. ASSUME NEW d \in Deletes, DeleteRaises(d) PROVE EmissionInv'
  BY <1>20, DeleteStep DEF DeleteRaises, Raise
<1>18. CASE UNCHANGED vars
  BY <1>0, <1>18, WorkKept DEF vars
<1> QED
  BY <1>1, <1>2, <1>3, <1>4, <1>5, <1>6, <1>7, <1>8, <1>9, <1>10, <1>11, <1>12, <1>13,
     <1>14, <1>15, <1>16, <1>17, <1>18, <1>19, <1>20
  DEF Next, Starting, Working, Exit, Crash

-----------------------------------------------------------------------------
(* The inductive invariant holds of every behaviour of the process.          *)
THEOREM Invariance == Spec => []IInv
<1>1. IInv /\ [Next]_vars => IInv'
  BY StepType, StepLifespan, StepEmission DEF IInv
<1> QED BY InitInv, <1>1, PTL DEF Spec

(* No start tries more often than it may, and no counter is left that no      *)
(* emission drew (lifespan, Publisher.create).                            *)
THEOREM TypeCorrect == Spec => []TypeOK
<1>1. IInv => TypeOK
  BY DEF IInv
<1> QED BY Invariance, <1>1, PTL

(* A background task finds its connections open for as long as it runs, in    *)
(* every interleaving of a start, a stop and the tasks (lifespan).            *)
THEOREM TasksAreServed == Spec => []TasksFindConnections
<1>1. IInv => TasksFindConnections
  BY DEF IInv, LifespanInv
<1> QED BY Invariance, <1>1, PTL

(* A task that outlives its worker never publishes past a guard that was      *)
(* closed under it (lifespan, _dedupe_first_fire).                            *)
THEOREM ClosedGuardHolds == Spec => []ClosedGuardPublishesNothing
<1>1. IInv => ClosedGuardPublishesNothing
  BY DEF IInv, EmissionInv
<1> QED BY Invariance, <1>1, PTL

(* No counter an entry was published with is left without a TTL, wherever an *)
(* emission is cut off (emit_scheduled_event).                                *)
THEOREM CountersExpire == Spec => []PublishedCountersExpire
<1>1. IInv => PublishedCountersExpire
  BY DEF IInv, EmissionInv
<1> QED BY Invariance, <1>1, PTL

(* A stream with entries is in the active set, unless its own job took it     *)
(* out since it was last added (emit_scheduled_event, deregister_stream).     *)
THEOREM EntriesAreListed == Spec => []StreamsAreListed
<1>1. IInv => StreamsAreListed
  BY DEF IInv, EmissionInv
<1> QED BY Invariance, <1>1, PTL

(* A stop leaves nothing open, and only a failure cuts it short (lifespan).   *)
THEOREM StopsAreClean == Spec => []StopsClean
<1>1. IInv => StopsClean
  BY DEF IInv, LifespanInv, OpenOK, BlameOK, StopsClean
<1> QED BY Invariance, <1>1, PTL
=============================================================================
