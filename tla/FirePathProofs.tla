--------------------------- MODULE FirePathProofs ---------------------------
(* Proofs about FirePath, for every value of its constants.                  *)
EXTENDS FirePath, TLAPS

MinuteStart(n) == n * TicksPerMinute

(* A tick lies in the minute it belongs to.                                  *)
LEMMA MinuteBounds ==
  ASSUME NEW t \in Nat
  PROVE  /\ MinuteOf(t) \in Nat /\ MinuteStart(MinuteOf(t)) \in Nat
         /\ MinuteStart(MinuteOf(t)) <= t
         /\ t < MinuteStart(MinuteOf(t)) + TicksPerMinute
BY ConstantsAssumption DEF MinuteOf, MinuteStart

LEMMA MinuteInRange ==
  ASSUME NEW t \in 0..MaxTick
  PROVE  MinuteOf(t) \in Minutes
BY ConstantsAssumption DEF MinuteOf, Minutes

LEMMA SeqElement ==
  ASSUME NEW S, NEW s \in Seq(S), NEW i \in 1..Len(s)
  PROVE  s[i] \in S
OBVIOUS

LEMMA ExceptType ==
  ASSUME NEW S, NEW T, NEW f \in [S -> T], NEW a, NEW v \in T
  PROVE  [f EXCEPT ![a] = v] \in [S -> T]
OBVIOUS

LEMMA UnitType ==
  ASSUME TypeOK, NEW m \in pending
  PROVE  m \in Messages /\ m \in 1..Len(stream) /\ Unit(m) \in Units
<1>1. lastId \in Nat /\ Len(stream) \in Nat /\ m \in 1..Len(stream)
  BY DEF TypeOK
<1>2. stream[m] \in [unit : Units, due : 0..MaxTick]
  BY <1>1, SeqElement DEF TypeOK
<1> QED BY <1>1, <1>2, ConstantsAssumption DEF TypeOK, Unit, Messages

LEMMA FireType ==
  ASSUME TypeOK, NEW m \in pending, NEW p \in Producers
  PROVE  FireOf(m, p) \in Fires
BY UnitType, MinuteInRange DEF TypeOK, TaskType, FireOf, Fires, Minute

(* Publishing adds one well-formed envelope.                                 *)
LEMMA PublishType ==
  ASSUME TypeOK, NEW m \in pending, Publish(m)
  PROVE  log' \subseteq Envelopes /\ again' \subseteq log'
<1>1. PICK p \in task[m].cur :
        LET e == [fire |-> FireOf(m, p), msg |-> m, guarded |-> task[m].guarded]
        IN  log' = log \cup {e} /\ again' = again \cup (log \cap {e})
  BY DEF Publish
<1>2. m \in Messages /\ p \in Producers /\ task[m].guarded \in BOOLEAN
  BY UnitType DEF TypeOK, TaskType
<1>3. FireOf(m, p) \in Fires
  BY <1>2, FireType
<1> QED BY <1>1, <1>2, <1>3 DEF TypeOK, Envelopes

LEMMA BeginType ==
  ASSUME TypeOK, NEW m \in Messages, Unit(m) \in Units, Begin(m)
  PROVE  task' \in [Messages -> TaskType]
         /\ \A n \in Messages : n # m => task'[n] = task[n]
<1>1. 0 \in 0..MaxTick /\ now \in 0..MaxTick
  BY ConstantsAssumption DEF TypeOK
<1>2. Unit(m).mode # "schedule" => {Unit(m).id} \subseteq Producers
  BY DEF Units, Producers
<1>3. Call("read", now, {}, {}, {}, FALSE) \in TaskType
  BY <1>1 DEF Call, TaskType
<1>4. Unit(m).mode # "schedule" =>
        Call("set", now, {Unit(m).id}, {Unit(m).id}, {}, FALSE) \in TaskType
  BY <1>1, <1>2 DEF Call, TaskType
<1> QED BY <1>3, <1>4 DEF Begin, TypeOK

LEMMA ClaimType ==
  ASSUME TypeOK, NEW k
  PROVE  [expires EXCEPT ![k] = now + DedupeTtl] \in [Keys -> Nat]
<1>1. now + DedupeTtl \in Nat
  BY ConstantsAssumption DEF TypeOK
<1> QED BY <1>1, ExceptType DEF TypeOK

LEMMA SpendType ==
  ASSUME TypeOK, NEW kind \in {"crash", "failure", "glitch"}, NEW max, Spend(kind, max)
  PROVE  spent' \in [{"crash", "failure", "glitch"} -> Nat]
BY DEF Spend, TypeOK

(* The variables keep their types.                                           *)
LEMMA TypeInductive == TypeOK /\ [Next]_vars => TypeOK'
<1> SUFFICES ASSUME TypeOK, [Next]_vars PROVE TypeOK'
  OBVIOUS
<1> USE ConstantsAssumption
<1>1. ASSUME NEW u \in Units, Kick(u) PROVE TypeOK'
  <2>1. now \in 0..MaxTick
    BY DEF TypeOK
  <2>2. [unit |-> u, due |-> now] \in [unit : Units, due : 0..MaxTick]
    BY <2>1
  <2> QED BY <1>1, <2>2 DEF Kick, TypeOK, histVars
<1>2. CASE Deliver
  <2>1. lastId + 1 \in 1..Len(stream) /\ lastId + 1 \in Messages
    BY <1>2 DEF Deliver, TypeOK, Messages
  <2>2. Unit(lastId + 1) \in Units
    <3>1. stream[lastId + 1] \in [unit : Units, due : 0..MaxTick]
      BY <2>1, SeqElement DEF TypeOK
    <3> QED BY <3>1 DEF Unit
  <2>3. task' \in [Messages -> TaskType]
        /\ \A n \in Messages : n # lastId + 1 => task'[n] = task[n]
    BY <1>2, <2>1, <2>2, BeginType DEF Deliver
  <2> QED BY <1>2, <2>1, <2>3 DEF Deliver, TypeOK, histVars
<1>3. ASSUME NEW m \in Messages, Redeliver(m) PROVE TypeOK'
  <2>1. Unit(m) \in Units
    BY <1>3, UnitType DEF Redeliver
  <2>2. task' \in [Messages -> TaskType]
        /\ \A n \in Messages : n # m => task'[n] = task[n]
    BY <1>3, <2>1, BeginType DEF Redeliver
  <2> QED BY <1>3, <2>2 DEF Redeliver, TypeOK, brokerVars, histVars
<1>4. ASSUME NEW m \in Messages, ReadBindings(m) PROVE TypeOK'
  BY <1>4 DEF ReadBindings, Call, TypeOK, TaskType, BindingsFor, Producers, brokerVars, histVars
<1>5. ASSUME NEW m \in Messages, NEW p \in task[m].todo, Claim(m, p) PROVE TypeOK'
  <2>1. m \in pending /\ p \in Producers
    BY <1>5 DEF Claim, Goto, Call, TypeOK, TaskType
  <2>2. FireOf(m, p) \in Fires
    BY <2>1, FireType
  <2>3. expires' \in [Keys -> Nat]
    BY <1>5, ClaimType DEF Claim
  <2>4. task' \in [Messages -> TaskType]
        /\ \A n \in Messages : task'[n].pc # "idle" => n \in pending
    BY <1>5, <2>1 DEF Claim, Goto, Call, TypeOK, TaskType
  <2> QED BY <1>5, <2>2, <2>3, <2>4 DEF Claim, TypeOK, brokerVars
<1>6. ASSUME NEW m \in Messages, NEW p \in task[m].todo, SkipDuplicate(m, p) PROVE TypeOK'
  BY <1>6 DEF SkipDuplicate, Continue, Goto, Call, TypeOK, TaskType, brokerVars, histVars
<1>7. ASSUME NEW m \in Messages, NEW p \in task[m].todo, FailOpen(m, p) PROVE TypeOK'
  <2>1. m \in pending /\ p \in Producers
    BY <1>7 DEF FailOpen, Goto, Call, TypeOK, TaskType
  <2>2. FireOf(m, p) \in Fires
    BY <2>1, FireType
  <2>3. expires' \in [Keys -> Nat] /\ won' \subseteq Fires
    BY <1>7, <2>2, ClaimType DEF FailOpen, TypeOK
  <2>4. task' \in [Messages -> TaskType]
        /\ \A n \in Messages : task'[n].pc # "idle" => n \in pending
    BY <1>7, <2>1 DEF FailOpen, Goto, Call, TypeOK, TaskType
  <2>5. spent' \in [{"crash", "failure", "glitch"} -> Nat]
    BY <1>7, SpendType DEF FailOpen
  <2> QED BY <1>7, <2>3, <2>4, <2>5 DEF FailOpen, TypeOK, brokerVars
<1>8. ASSUME NEW m \in Messages, Emit(m) PROVE TypeOK'
  <2>1. m \in pending
    BY <1>8 DEF Emit, TypeOK
  <2>2. log' \subseteq Envelopes /\ again' \subseteq log'
    BY <1>8, <2>1, PublishType DEF Emit
  <2>3. task' \in [Messages -> TaskType]
        /\ \A n \in Messages : task'[n].pc # "idle" => n \in pending
    BY <1>8, <2>1 DEF Emit, Continue, Goto, Call, TypeOK, TaskType
  <2> QED BY <1>8, <2>2, <2>3 DEF Emit, TypeOK, brokerVars
<1>9. ASSUME NEW m \in Messages, Raise(m) PROVE TypeOK'
  <2>1. m \in pending
    BY <1>9 DEF Raise, TypeOK
  <2>2. log' \subseteq Envelopes /\ again' \subseteq log'
    BY <1>9, <2>1, PublishType DEF Raise, TypeOK
  <2>3. task' \in [Messages -> TaskType]
        /\ \A n \in Messages : task'[n].pc # "idle" => n \in pending
    BY <1>9, <2>1 DEF Raise, Goto, Call, TypeOK, TaskType
  <2>4. spent' \in [{"crash", "failure", "glitch"} -> Nat]
    BY <1>9, SpendType DEF Raise
  <2> QED BY <1>9, <2>2, <2>3, <2>4 DEF Raise, TypeOK, brokerVars
<1>10. ASSUME NEW m \in Messages, Ack(m) PROVE TypeOK'
  <2>1. NoCall(0) \in TaskType
    BY DEF NoCall, Call, TaskType
  <2> QED BY <1>10, <2>1 DEF Ack, TypeOK, NoCall, Call, brokerVars, histVars
<1>11. CASE Crash
  <2>1. spent' \in [{"crash", "failure", "glitch"} -> Nat]
    BY <1>11, SpendType DEF Crash
  <2> QED BY <1>11, <2>1 DEF Crash, TypeOK, TaskType, NoCall, Call, brokerVars
<1>12. CASE Restart
  BY <1>12 DEF Restart, TypeOK, brokerVars, histVars
<1>13. CASE Tick
  BY <1>13 DEF Tick, TypeOK, brokerVars, histVars
<1>14. ASSUME NEW b \in Bindings, NEW s \in Schedules \cup {NoSchedule}, SetBinding(b, s)
       PROVE  TypeOK'
  BY <1>14 DEF SetBinding, TypeOK, brokerVars, histVars
<1>15. CASE UNCHANGED vars
  BY <1>15 DEF vars, TypeOK
<1> QED BY <1>1, <1>2, <1>3, <1>4, <1>5, <1>6, <1>7, <1>8, <1>9, <1>10, <1>11,
           <1>12, <1>13, <1>14, <1>15 DEF Next, TaskStep

LEMMA TypeInit == Init => TypeOK
<1> SUFFICES ASSUME Init PROVE TypeOK
  OBVIOUS
<1> USE ConstantsAssumption
<1>1. stream \in Seq([unit : Units, due : 0..MaxTick]) /\ Len(stream) = 0
  BY DEF Init
<1> QED BY <1>1 DEF Init, TypeOK, TaskType, NoCall, Call

(* Type correctness of the fire path.                                        *)
THEOREM TypeCorrect == Spec => []TypeOK
BY TypeInit, TypeInductive, PTL DEF Spec

-----------------------------------------------------------------------------
(* The inductive invariant behind AtMostOnce.                                *)

Targets(u) == IF u.mode = "schedule" THEN Bindings ELSE {u.id}

(* Where each call stands, and how old the minute it captured may be.        *)
CallOK(m) ==
  /\ task[m].start <= now
  /\ task[m].pc # "idle" =>
       task[m].todo \subseteq Targets(Unit(m)) /\ task[m].cur \subseteq Targets(Unit(m))
  /\ task[m].pc = "emit" => \E p \in Producers : task[m].cur = {p}
  /\ task[m].pc # "emit" => task[m].cur = {} /\ ~task[m].guarded
  /\ task[m].pc \in {"idle", "read", "ack"} => task[m].todo = {}
  /\ task[m].pc = "read" => Unit(m).mode = "schedule"
  /\ SetsToGo(m) => now <= task[m].start + MaxLag
CallsOK == \A m \in Messages : CallOK(m)

(* A key is claimed no earlier than its minute starts.                       *)
AgeOK == \A k \in Keys :
           expires[k] # 0 => expires[k] >= MinuteStart(k[2]) + DedupeTtl

(* Who may publish for a key under the guard, and that it is claimed then.   *)
Holds(m, k) == task[m].guarded /\ \E p \in task[m].cur : FireKey(FireOf(m, p)) = k
ClaimedOK ==
  /\ \A m \in Messages, k \in Keys : Holds(m, k) => expires[k] # 0
  /\ \A e \in log : e.guarded => expires[FireKey(e.fire)] # 0
LoggedOK == \A e \in log : e.guarded => FireKey(e.fire) \in Keys
HoldersOK ==
  /\ \A m, n \in Messages, k \in Keys : Holds(m, k) /\ Holds(n, k) => m = n
  /\ \A m \in Messages, e \in log : e.guarded => ~Holds(m, FireKey(e.fire))

GuardInv == ClaimedOK /\ LoggedOK /\ HoldersOK /\ AtMostOnce
IInv == TypeOK /\ CallsOK /\ AgeOK /\ GuardInv

LEMMA ConcatName == \A s \in Schedules, b \in Bindings : s \o b \in KeyNames
<1> TAKE s \in Schedules, b \in Bindings
<1>1. s \o b \in {x \o y : x \in Schedules, y \in Bindings}
  OBVIOUS
<1> QED BY <1>1 DEF KeyNames

(* The fires a call still has to claim or publish are well-formed.           *)
LEMMA CallFires ==
  ASSUME TypeOK, CallsOK, NEW m \in Messages, NEW p \in task[m].todo \cup task[m].cur
  PROVE  /\ m \in pending /\ FireOf(m, p) \in Fires
         /\ FireKey(FireOf(m, p)) \in Keys
         /\ FireKey(FireOf(m, p))[2] = MinuteOf(task[m].start)
<1>1. task[m].pc # "idle" /\ p \in Targets(Unit(m))
  BY DEF CallsOK, CallOK
<1>2. m \in pending
  BY <1>1 DEF TypeOK
<1>3. Unit(m) \in Units /\ p \in Producers
  BY <1>2, UnitType DEF TypeOK, TaskType
<1>4. FireOf(m, p) \in Fires
  BY <1>2, <1>3, FireType
<1>5. KeyName(Unit(m), p) \in KeyNames
  <2>1. CASE Unit(m).mode = "schedule"
    <3>1. Unit(m).id \in Schedules /\ p \in Bindings
      BY <1>1, <1>3, <2>1 DEF Targets, Units
    <3>2. KeyName(Unit(m), p) = Unit(m).id \o p
      BY <2>1 DEF KeyName
    <3>3. Unit(m).id \o p \in KeyNames
      BY <3>1, ConcatName
    <3> QED BY <3>2, <3>3
  <2>2. CASE Unit(m).mode # "schedule"
    BY <1>3, <2>2 DEF KeyName, KeyNames, Units
  <2> QED BY <2>1, <2>2
<1>6. Minute(m) \in Minutes
  BY <1>4 DEF Fires, FireOf
<1> QED BY <1>2, <1>4, <1>5, <1>6 DEF FireKey, FireOf, Keys, Minute

(* Where the timing is: a key that is not live was never claimed, for a task *)
(* within its lag asks before a claim of its own minute can have expired.    *)
LEMMA FreshKey ==
  ASSUME Timely, TypeOK, CallsOK, AgeOK,
         NEW m \in Messages, NEW p \in task[m].todo, task[m].pc = "set",
         ~Live(FireKey(FireOf(m, p)))
  PROVE  /\ FireKey(FireOf(m, p)) \in Keys
         /\ expires[FireKey(FireOf(m, p))] = 0
<1> DEFINE k == FireKey(FireOf(m, p))
           start == task[m].start
<1>1. k \in Keys /\ k[2] = MinuteOf(start)
  BY CallFires
<1>2. start \in Nat /\ now \in Nat /\ expires[k] \in Nat
  BY <1>1, ConstantsAssumption DEF TypeOK, TaskType
<1>3. now <= start + MaxLag
  BY DEF CallsOK, CallOK, SetsToGo
<1>4. /\ MinuteStart(k[2]) \in Nat
      /\ start < MinuteStart(k[2]) + TicksPerMinute
  BY <1>1, <1>2, MinuteBounds
<1>5. expires[k] # 0 => expires[k] >= MinuteStart(k[2]) + DedupeTtl
  BY <1>1 DEF AgeOK
<1>6. expires[k] <= now
  BY <1>2 DEF Live
<1>7. DedupeTtl >= TicksPerMinute + MaxLag
  BY DEF Timely
<1> HIDE DEF k, start
<1>8. expires[k] = 0
  BY <1>2, <1>3, <1>4, <1>5, <1>6, <1>7, ConstantsAssumption
<1> QED BY <1>1, <1>8 DEF k

(* A step that leaves a call and its message alone leaves what it holds.     *)
LEMMA SameCall ==
  ASSUME TypeOK, NEW n \in Messages, CallOK(n), task'[n] = task[n],
         stream' = stream \/ \E x : stream' = Append(stream, x)
  PROVE  /\ task[n].pc # "idle" => Unit(n)' = Unit(n)
         /\ \A k : Holds(n, k)' <=> Holds(n, k)
<1>1. ASSUME task[n].pc # "idle" PROVE Unit(n)' = Unit(n)
  <2>1. n \in 1..Len(stream)
    BY <1>1, UnitType DEF TypeOK
  <2>2. stream'[n] = stream[n]
    <3>1. ASSUME NEW x, stream' = Append(stream, x) PROVE stream'[n] = stream[n]
      BY <2>1, <3>1 DEF TypeOK
    <3> QED BY <3>1
  <2> QED BY <2>2 DEF Unit
<1>2. CASE task[n].pc = "idle"
  <2>1. task[n].cur = {} /\ task'[n].cur = {}
    BY <1>2 DEF CallOK
  <2> QED BY <1>2, <2>1 DEF Holds
<1>3. CASE task[n].pc # "idle"
  <2>1. \A p : FireOf(n, p)' = FireOf(n, p)
    BY <1>1, <1>3 DEF FireOf, Minute
  <2>2. \A p : FireKey(FireOf(n, p))' = FireKey(FireOf(n, p))
    BY <2>1 DEF FireKey, KeyName
  <2> QED BY <1>1, <1>3, <2>2 DEF Holds
<1> QED BY <1>2, <1>3

LEMMA SameCallOK ==
  ASSUME TypeOK, NEW n \in Messages, CallOK(n), task'[n] = task[n], now' = now,
         stream' = stream \/ \E x : stream' = Append(stream, x)
  PROVE  CallOK(n)'
<1>1. task[n].pc # "idle" => Unit(n)' = Unit(n)
  BY SameCall
<1> QED BY <1>1 DEF CallOK, SetsToGo, Targets

(* A call is again in order after a step of its own that leads to c.         *)
LEMMA GotoOK ==
  ASSUME TypeOK, NEW m \in Messages, CallOK(m), task[m].pc \in {"read", "set", "emit"},
         NEW pc \in {"set", "emit", "ack"}, NEW todo \in SUBSET task[m].todo,
         NEW cur \in SUBSET task[m].todo, NEW guarded \in BOOLEAN,
         pc = "emit" => \E p \in Producers : cur = {p},
         pc # "emit" => cur = {} /\ ~guarded,
         pc = "ack" => todo = {},
         pc # "ack" => SetsToGo(m),
         Goto(m, pc, todo, cur, guarded), now' = now, stream' = stream
  PROVE  CallsOK => CallsOK'
<1> SUFFICES ASSUME CallsOK, NEW n \in Messages PROVE CallOK(n)'
  BY DEF CallsOK
<1>1. CASE n # m
  <2>1. task'[n] = task[n]
    BY <1>1 DEF Goto, TypeOK
  <2> QED BY <2>1, SameCallOK DEF CallsOK
<1>2. CASE n = m
  <2>1. task'[m] = Call(pc, task[m].start, task[m].snap, todo, cur, guarded)
    BY DEF Goto, TypeOK
  <2>2. Unit(m)' = Unit(m)
    BY DEF Unit
  <2> QED BY <1>2, <2>1, <2>2 DEF CallOK, SetsToGo, Call, Targets
<1> QED BY <1>1, <1>2

LEMMA BeginOK ==
  ASSUME TypeOK, CallsOK, NEW m \in Messages, Unit(m) \in Units, Begin(m),
         now' = now, stream' = stream
  PROVE  CallsOK'
<1> SUFFICES ASSUME NEW n \in Messages PROVE CallOK(n)'
  BY DEF CallsOK
<1>1. CASE n # m
  <2>1. task'[n] = task[n]
    BY <1>1 DEF Begin, TypeOK
  <2> QED BY <2>1, SameCallOK DEF CallsOK
<1>2. CASE n = m
  <2>1. task'[m] = IF Unit(m).mode = "schedule" THEN Call("read", now, {}, {}, {}, FALSE)
                   ELSE Call("set", now, {Unit(m).id}, {Unit(m).id}, {}, FALSE)
    BY DEF Begin, TypeOK
  <2>2. Unit(m)' = Unit(m)
    BY DEF Unit
  <2>3. now \in Nat /\ now <= now + MaxLag
    BY ConstantsAssumption DEF TypeOK
  <2>4. CASE Unit(m).mode = "schedule"
    BY <1>2, <2>1, <2>2, <2>3, <2>4 DEF CallOK, SetsToGo, Call, Targets
  <2>5. CASE Unit(m).mode # "schedule"
    BY <1>2, <2>1, <2>2, <2>3, <2>5 DEF CallOK, SetsToGo, Call, Targets
  <2> QED BY <2>4, <2>5
<1> QED BY <1>1, <1>2

(* Every step leaves every call in order; Tick by its guard.                 *)
LEMMA CallsInductive == TypeOK /\ CallsOK /\ [Next]_vars => CallsOK'
<1> SUFFICES ASSUME TypeOK, CallsOK, [Next]_vars PROVE CallsOK'
  OBVIOUS
<1> USE ConstantsAssumption
<1>0. ASSUME task' = task, now' = now,
             stream' = stream \/ \E x : stream' = Append(stream, x)
      PROVE  CallsOK'
  BY <1>0, SameCallOK DEF CallsOK
<1>1. ASSUME NEW u \in Units, Kick(u) PROVE CallsOK'
  BY <1>0, <1>1 DEF Kick
<1>2. CASE Deliver
  <2>1. lastId + 1 \in 1..Len(stream) /\ lastId + 1 \in Messages
    BY <1>2 DEF Deliver, TypeOK, Messages
  <2>2. stream[lastId + 1] \in [unit : Units, due : 0..MaxTick]
    BY <2>1, SeqElement DEF TypeOK
  <2> QED BY <1>2, <2>1, <2>2, BeginOK DEF Deliver, Unit
<1>3. ASSUME NEW m \in Messages, Redeliver(m) PROVE CallsOK'
  BY <1>3, UnitType, BeginOK DEF Redeliver, brokerVars
<1>4. ASSUME NEW m \in Messages, ReadBindings(m) PROVE CallsOK'
  <2> SUFFICES ASSUME NEW n \in Messages PROVE CallOK(n)'
    BY DEF CallsOK
  <2> DEFINE bs == BindingsFor(Unit(m).id)
             pc == IF bs = {} THEN "ack" ELSE "set"
  <2>1. now' = now /\ stream' = stream
    BY <1>4 DEF ReadBindings, brokerVars
  <2>2. task' = [task EXCEPT ![m] = Call(pc, task[m].start, bs, bs, {}, FALSE)]
    BY <1>4 DEF ReadBindings
  <2>3. CASE n # m
    BY <2>1, <2>2, <2>3, SameCallOK DEF CallsOK, TypeOK
  <2>4. CASE n = m
    <3>1. task'[m] = Call(pc, task[m].start, bs, bs, {}, FALSE)
      BY <2>2 DEF TypeOK
    <3>2. task[m].start <= now /\ now <= task[m].start + MaxLag
      BY <1>4 DEF CallsOK, CallOK, SetsToGo, ReadBindings
    <3>3. Unit(m)' = Unit(m)
      BY <2>1 DEF Unit
    <3>4. bs \subseteq Targets(Unit(m))
      <4>1. Unit(m).mode = "schedule"
        BY <1>4 DEF CallsOK, CallOK, ReadBindings, Unit, BindingsFor, Targets
      <4> QED BY <4>1 DEF BindingsFor, Targets
    <3> QED BY <2>1, <2>4, <3>1, <3>2, <3>3, <3>4 DEF CallOK, SetsToGo, Call, Targets
  <2> QED BY <2>3, <2>4
<1>5. ASSUME NEW m \in Messages, NEW p \in task[m].todo, Claim(m, p) PROVE CallsOK'
  <2>1. p \in Producers /\ SetsToGo(m) /\ task[m].pc = "set" /\ CallOK(m)
    BY <1>5 DEF CallsOK, Claim, SetsToGo, TypeOK, TaskType
  <2>2. Goto(m, "emit", task[m].todo \ {p}, {p}, TRUE) /\ now' = now /\ stream' = stream
    BY <1>5 DEF Claim, brokerVars
  <2> QED BY <2>1, <2>2, GotoOK
<1>6. ASSUME NEW m \in Messages, NEW p \in task[m].todo, SkipDuplicate(m, p) PROVE CallsOK'
  BY <1>6, GotoOK DEF CallsOK, SkipDuplicate, Continue, SetsToGo, brokerVars
<1>7. ASSUME NEW m \in Messages, NEW p \in task[m].todo, FailOpen(m, p) PROVE CallsOK'
  <2>1. p \in Producers /\ SetsToGo(m) /\ task[m].pc = "set" /\ CallOK(m)
    BY <1>7 DEF CallsOK, FailOpen, SetsToGo, TypeOK, TaskType
  <2>2. Goto(m, "emit", task[m].todo \ {p}, {p}, FALSE) /\ now' = now /\ stream' = stream
    BY <1>7 DEF FailOpen, brokerVars
  <2> QED BY <2>1, <2>2, GotoOK
<1>8. ASSUME NEW m \in Messages, Emit(m) PROVE CallsOK'
  BY <1>8, GotoOK DEF CallsOK, Emit, Continue, SetsToGo, brokerVars
<1>9. ASSUME NEW m \in Messages, Raise(m) PROVE CallsOK'
  BY <1>9, GotoOK DEF CallsOK, Raise, SetsToGo, brokerVars
<1>10. ASSUME NEW m \in Messages, Ack(m) PROVE CallsOK'
  <2> SUFFICES ASSUME NEW n \in Messages PROVE CallOK(n)'
    BY DEF CallsOK
  <2>1. task' = [task EXCEPT ![m] = NoCall(0)] /\ now' = now /\ stream' = stream
    BY <1>10 DEF Ack, brokerVars
  <2>2. CASE n # m
    BY <2>1, <2>2, SameCallOK DEF CallsOK, TypeOK
  <2>3. CASE n = m
    BY <2>1, <2>3 DEF CallOK, NoCall, Call, SetsToGo, TypeOK
  <2> QED BY <2>2, <2>3
<1>11. CASE Crash
  BY <1>11 DEF CallsOK, CallOK, Crash, NoCall, Call, SetsToGo
<1>12. CASE Restart
  BY <1>0, <1>12 DEF Restart, brokerVars
<1>13. CASE Tick
  <2> SUFFICES ASSUME NEW n \in Messages PROVE CallOK(n)'
    BY DEF CallsOK
  <2>1. task' = task /\ stream' = stream /\ now' = now + 1 /\ InLag(n)
    BY <1>13 DEF Tick, brokerVars
  <2>2. task[n].start \in Nat /\ now \in Nat
    BY DEF TypeOK, TaskType
  <2>3. SetsToGo(n) => now + 1 <= task[n].start + MaxLag
    BY <2>1, <2>2 DEF InLag
  <2> QED BY <2>1, <2>2, <2>3 DEF CallsOK, CallOK, SetsToGo, Unit, Targets
<1>14. ASSUME NEW b \in Bindings, NEW s \in Schedules \cup {NoSchedule}, SetBinding(b, s)
       PROVE  CallsOK'
  BY <1>0, <1>14 DEF SetBinding, brokerVars
<1>15. CASE UNCHANGED vars
  BY <1>0, <1>15 DEF vars
<1> QED BY <1>1, <1>2, <1>3, <1>4, <1>5, <1>6, <1>7, <1>8, <1>9, <1>10, <1>11,
           <1>12, <1>13, <1>14, <1>15 DEF Next, TaskStep

LEMMA ClaimAge ==
  ASSUME TypeOK, CallsOK, NEW m \in Messages, NEW p \in task[m].todo
  PROVE  MinuteStart(FireKey(FireOf(m, p))[2]) \in Nat
         /\ MinuteStart(FireKey(FireOf(m, p))[2]) <= now
<1>1. FireKey(FireOf(m, p))[2] = MinuteOf(task[m].start)
  BY CallFires
<1>2. task[m].start \in Nat /\ task[m].start <= now /\ now \in Nat
  BY DEF TypeOK, TaskType, CallsOK, CallOK
<1>3. /\ MinuteStart(MinuteOf(task[m].start)) \in Nat
      /\ MinuteStart(MinuteOf(task[m].start)) <= task[m].start
  BY <1>2, MinuteBounds
<1> HIDE DEF MinuteStart
<1> QED BY <1>1, <1>2, <1>3

LEMMA AgeInductive == TypeOK /\ CallsOK /\ AgeOK /\ [Next]_vars => AgeOK'
<1> SUFFICES ASSUME TypeOK, CallsOK, AgeOK, [Next]_vars PROVE AgeOK'
  OBVIOUS
<1>1. ASSUME expires' = expires PROVE AgeOK'
  BY <1>1 DEF AgeOK
<1>2. ASSUME NEW m \in Messages, NEW p \in task[m].todo,
             expires' = [expires EXCEPT ![FireKey(FireOf(m, p))] = now + DedupeTtl]
      PROVE  AgeOK'
  <2> DEFINE k == FireKey(FireOf(m, p))
  <2>1. MinuteStart(k[2]) \in Nat /\ MinuteStart(k[2]) <= now
    BY ClaimAge
  <2>2. expires' = [expires EXCEPT ![k] = now + DedupeTtl] /\ expires \in [Keys -> Nat]
    BY <1>2 DEF TypeOK
  <2>3. now \in Nat /\ DedupeTtl \in Nat
    BY ConstantsAssumption DEF TypeOK
  <2> HIDE DEF k
  <2> SUFFICES ASSUME NEW x \in Keys, expires'[x] # 0
               PROVE  expires'[x] >= MinuteStart(x[2]) + DedupeTtl
    BY DEF AgeOK
  <2>4. CASE x = k
    BY <2>1, <2>2, <2>3, <2>4
  <2>5. CASE x # k
    BY <2>2, <2>5 DEF AgeOK
  <2> QED BY <2>4, <2>5
<1>3. ASSUME NEW m \in Messages, NEW p \in task[m].todo, Claim(m, p) PROVE AgeOK'
  BY <1>2, <1>3 DEF Claim
<1>4. ASSUME NEW m \in Messages, NEW p \in task[m].todo, FailOpen(m, p) PROVE AgeOK'
  BY <1>1, <1>2, <1>4 DEF FailOpen
<1> QED BY <1>1, <1>3, <1>4 DEF Next, TaskStep, Kick, Deliver, Redeliver, ReadBindings,
           SkipDuplicate, Emit, Raise, Ack, Crash, Restart, Tick, SetBinding, vars

-----------------------------------------------------------------------------
(* A step that makes no holder, publishes nothing and unsets no key.         *)
LEMMA Quiet ==
  ASSUME GuardInv, log' = log, again' = again,
         \A n \in Messages, k \in Keys : Holds(n, k)' => Holds(n, k),
         \A k \in Keys : expires[k] # 0 => expires'[k] # 0
  PROVE  GuardInv'
<1>1. ClaimedOK' /\ LoggedOK'
  BY DEF GuardInv, ClaimedOK, LoggedOK
<1>2. HoldersOK'
  BY DEF GuardInv, HoldersOK, LoggedOK
<1>3. AtMostOnce'
  BY DEF GuardInv, AtMostOnce
<1> QED BY <1>1, <1>2, <1>3 DEF GuardInv

(* A step that takes only call m anywhere makes no holder other than m ...   *)
LEMMA OtherHolders ==
  ASSUME TypeOK, CallsOK, NEW m \in Messages, NEW c, task' = [task EXCEPT ![m] = c],
         stream' = stream, NEW n \in Messages, n # m, NEW k
  PROVE  Holds(n, k)' <=> Holds(n, k)
<1>1. task'[n] = task[n]
  BY DEF TypeOK
<1> QED BY <1>1, SameCall DEF CallsOK

(* ... and none at all when it leaves m without a guarded publish to make.   *)
LEMMA NoHolder ==
  ASSUME TypeOK, CallsOK, NEW m \in Messages, NEW c, task' = [task EXCEPT ![m] = c],
         stream' = stream, ~c.guarded, NEW n \in Messages, NEW k, Holds(n, k)'
  PROVE  n # m /\ Holds(n, k)
<1>1. task'[m] = c
  BY DEF TypeOK
<1>2. n # m
  BY <1>1 DEF Holds
<1> QED BY <1>2, OtherHolders

(* A claim makes m the one holder of a key nobody held or published for.     *)
LEMMA ClaimGuard ==
  ASSUME Timely, TypeOK, CallsOK, AgeOK, GuardInv,
         NEW m \in Messages, NEW p \in task[m].todo, Claim(m, p)
  PROVE  GuardInv'
<1> DEFINE k == FireKey(FireOf(m, p))
           c == Call("emit", task[m].start, task[m].snap, task[m].todo \ {p}, {p}, TRUE)
<1>1. k \in Keys /\ expires[k] = 0
  BY FreshKey DEF Claim
<1>2. expires' = [expires EXCEPT ![k] = now + DedupeTtl] /\ now + DedupeTtl # 0
  BY ConstantsAssumption DEF Claim, TypeOK
<1>3. \A x \in Keys : expires'[x] # 0 <=> expires[x] # 0 \/ x = k
  BY <1>1, <1>2 DEF TypeOK
<1>4. log' = log /\ again' = again /\ stream' = stream /\ task' = [task EXCEPT ![m] = c]
  BY DEF Claim, Goto, brokerVars
<1>5. \A x : Holds(m, x)' => x = k
  <2>1. task'[m] = c /\ c.cur = {p}
    BY <1>4 DEF TypeOK, Call
  <2>2. FireOf(m, p)' = FireOf(m, p)
    BY <1>4, <2>1 DEF FireOf, Unit, Minute, Call
  <2>3. FireKey(FireOf(m, p))' = k
    BY <2>2 DEF FireKey, KeyName
  <2> QED BY <2>1, <2>3 DEF Holds
<1>6. \A n \in Messages : \A x : n # m => (Holds(n, x)' <=> Holds(n, x))
  BY <1>4, OtherHolders
<1>7. \A n \in Messages : ~Holds(n, k)
  BY <1>1 DEF GuardInv, ClaimedOK
<1>8. \A e \in log : e.guarded => FireKey(e.fire) # k
  BY <1>1 DEF GuardInv, ClaimedOK
<1> HIDE DEF k, c
<1>9. ClaimedOK' /\ LoggedOK'
  BY <1>3, <1>4, <1>5, <1>6 DEF GuardInv, ClaimedOK, LoggedOK
<1>10. HoldersOK'
  BY <1>4, <1>5, <1>6, <1>7, <1>8 DEF GuardInv, HoldersOK, LoggedOK
<1>11. AtMostOnce'
  BY <1>4 DEF GuardInv, AtMostOnce
<1> QED BY <1>9, <1>10, <1>11 DEF GuardInv

(* A publish is of the key m holds, if it is guarded, and m lets go of it.   *)
LEMMA PublishGuard ==
  ASSUME TypeOK, CallsOK, GuardInv, NEW m \in Messages, task[m].pc = "emit", Publish(m),
         NEW c, ~c.guarded, task' = [task EXCEPT ![m] = c],
         stream' = stream, expires' = expires
  PROVE  GuardInv'
<1>1. PICK p \in task[m].cur :
        LET e == [fire |-> FireOf(m, p), msg |-> m, guarded |-> task[m].guarded]
        IN  log' = log \cup {e} /\ again' = again \cup (log \cap {e})
  BY DEF Publish
<1> DEFINE e == [fire |-> FireOf(m, p), msg |-> m, guarded |-> task[m].guarded]
           k == FireKey(FireOf(m, p))
<1>2. log' = log \cup {e} /\ again' = again \cup (log \cap {e})
  BY <1>1
<1>3. FireKey(e.fire) = k /\ (e.guarded <=> task[m].guarded) /\ k \in Keys
  BY CallFires
<1>4. e.guarded => Holds(m, k)
  BY <1>3 DEF Holds
<1>5. e.guarded => expires[k] # 0 /\ \A f \in log : f.guarded => FireKey(f.fire) # k
  BY <1>3, <1>4 DEF GuardInv, ClaimedOK, HoldersOK
<1>6. \A n \in Messages : \A x : Holds(n, x)' => n # m /\ Holds(n, x)
  BY NoHolder
<1> HIDE DEF e, k
<1>7. ClaimedOK' /\ LoggedOK'
  BY <1>2, <1>3, <1>5, <1>6 DEF GuardInv, ClaimedOK, LoggedOK
<1>8. HoldersOK'
  <2>1. \A n \in Messages : \A x : e.guarded /\ x = k => ~Holds(n, x)'
    BY <1>3, <1>4, <1>6 DEF GuardInv, HoldersOK
  <2> QED BY <1>2, <1>3, <1>6, <2>1 DEF GuardInv, HoldersOK
<1>9. AtMostOnce'
  <2> SUFFICES ASSUME NEW f \in log', NEW g \in log', f.guarded, g.guarded,
                      FireKey(f.fire) = FireKey(g.fire)
               PROVE  f = g /\ f \notin again'
    BY DEF AtMostOnce
  <2>1. CASE f = e \/ g = e
    <3>1. e.guarded /\ FireKey(f.fire) = k /\ FireKey(g.fire) = k
      BY <1>3, <2>1
    <3>2. f = e /\ g = e /\ e \notin log
      BY <1>2, <1>5, <3>1
    <3> QED BY <1>2, <3>2 DEF TypeOK
  <2>2. CASE f # e /\ g # e
    BY <1>2, <2>2 DEF GuardInv, AtMostOnce
  <2> QED BY <2>1, <2>2
<1> QED BY <1>7, <1>8, <1>9 DEF GuardInv

LEMMA GuardInductive ==
  Timely /\ TypeOK /\ CallsOK /\ AgeOK /\ GuardInv /\ [Next]_vars => GuardInv'
<1> SUFFICES ASSUME Timely, TypeOK, CallsOK, AgeOK, GuardInv, [Next]_vars PROVE GuardInv'
  OBVIOUS
<1>1. ASSUME task' = task, expires' = expires, log' = log, again' = again,
             stream' = stream \/ \E x : stream' = Append(stream, x)
      PROVE  GuardInv'
  BY <1>1, SameCall, Quiet DEF CallsOK
<1>2. ASSUME NEW m \in Messages, NEW c, task' = [task EXCEPT ![m] = c], ~c.guarded,
             stream' = stream, log' = log, again' = again,
             \A k \in Keys : expires[k] # 0 => expires'[k] # 0
      PROVE  GuardInv'
  <2>1. \A n \in Messages, k \in Keys : Holds(n, k)' => Holds(n, k)
    BY <1>2, NoHolder
  <2> QED BY <1>2, <2>1, Quiet
<1>3. ASSUME NEW m \in Messages, Begin(m), stream' = stream, expires' = expires,
             log' = log, again' = again
      PROVE  GuardInv'
  <2> DEFINE c == IF Unit(m).mode = "schedule" THEN Call("read", now, {}, {}, {}, FALSE)
                  ELSE Call("set", now, {Unit(m).id}, {Unit(m).id}, {}, FALSE)
  <2>1. task' = [task EXCEPT ![m] = c] /\ ~c.guarded
    BY <1>3 DEF Begin, Call
  <2> HIDE DEF c
  <2> QED BY <1>2, <1>3, <2>1
<1>4. ASSUME NEW u \in Units, Kick(u) PROVE GuardInv'
  BY <1>1, <1>4 DEF Kick, histVars
<1>5. CASE Deliver
  <2>1. lastId + 1 \in Messages
    BY <1>5, ConstantsAssumption DEF Deliver, TypeOK, Messages
  <2> QED BY <1>3, <1>5, <2>1 DEF Deliver, histVars
<1>6. ASSUME NEW m \in Messages, Redeliver(m) PROVE GuardInv'
  BY <1>3, <1>6 DEF Redeliver, brokerVars, histVars
<1>7. ASSUME NEW m \in Messages, ReadBindings(m) PROVE GuardInv'
  <2> DEFINE bs == BindingsFor(Unit(m).id)
             c == Call(IF bs = {} THEN "ack" ELSE "set", task[m].start, bs, bs, {}, FALSE)
  <2>1. task' = [task EXCEPT ![m] = c] /\ ~c.guarded
    BY <1>7 DEF ReadBindings, Call
  <2> HIDE DEF c
  <2> QED BY <1>2, <1>7, <2>1 DEF ReadBindings, brokerVars, histVars
<1>8. ASSUME NEW m \in Messages, NEW p \in task[m].todo, Claim(m, p) PROVE GuardInv'
  BY <1>8, ClaimGuard
<1>9. ASSUME NEW m \in Messages, NEW pc, NEW todo, NEW cur, Goto(m, pc, todo, cur, FALSE),
             stream' = stream, log' = log, again' = again,
             \A k \in Keys : expires[k] # 0 => expires'[k] # 0
      PROVE  GuardInv'
  <2> DEFINE c == Call(pc, task[m].start, task[m].snap, todo, cur, FALSE)
  <2>1. task' = [task EXCEPT ![m] = c] /\ ~c.guarded
    BY <1>9 DEF Goto, Call
  <2> HIDE DEF c
  <2> QED BY <1>2, <1>9, <2>1
<1>10. ASSUME NEW m \in Messages, NEW p \in task[m].todo, SkipDuplicate(m, p) PROVE GuardInv'
  BY <1>9, <1>10 DEF SkipDuplicate, Continue, brokerVars, histVars
<1>11. ASSUME NEW m \in Messages, NEW p \in task[m].todo, FailOpen(m, p) PROVE GuardInv'
  <2>1. now + DedupeTtl # 0 /\ expires \in [Keys -> Nat]
    BY ConstantsAssumption DEF TypeOK
  <2>2. \A k \in Keys : expires[k] # 0 => expires'[k] # 0
    BY <1>11, <2>1 DEF FailOpen
  <2> QED BY <1>9, <1>11, <2>2 DEF FailOpen, brokerVars
<1>12. ASSUME NEW m \in Messages, NEW pc, NEW todo, Goto(m, pc, todo, {}, FALSE),
              task[m].pc = "emit", Publish(m), stream' = stream, expires' = expires
       PROVE  GuardInv'
  <2> DEFINE c == Call(pc, task[m].start, task[m].snap, todo, {}, FALSE)
  <2>1. task' = [task EXCEPT ![m] = c] /\ ~c.guarded
    BY <1>12 DEF Goto, Call
  <2> HIDE DEF c
  <2> QED BY <1>12, <2>1, PublishGuard
<1>13. ASSUME NEW m \in Messages, Emit(m) PROVE GuardInv'
  BY <1>12, <1>13 DEF Emit, Continue, brokerVars
<1>14. ASSUME NEW m \in Messages, Raise(m) PROVE GuardInv'
  BY <1>9, <1>12, <1>14 DEF Raise, brokerVars
<1>15. ASSUME NEW m \in Messages, Ack(m) PROVE GuardInv'
  <2>1. task' = [task EXCEPT ![m] = NoCall(0)] /\ ~NoCall(0).guarded
    BY <1>15 DEF Ack, NoCall, Call
  <2> QED BY <1>2, <1>15, <2>1 DEF Ack, brokerVars, histVars
<1>16. CASE Crash
  <2>1. \A n \in Messages, k \in Keys : ~Holds(n, k)'
    BY <1>16 DEF Crash, Holds, NoCall, Call
  <2> QED BY <1>16, <2>1, Quiet DEF Crash
<1>17. CASE Restart \/ Tick \/ UNCHANGED vars
  BY <1>1, <1>17 DEF Restart, Tick, vars, brokerVars, histVars
<1>18. ASSUME NEW b \in Bindings, NEW s \in Schedules \cup {NoSchedule}, SetBinding(b, s)
       PROVE  GuardInv'
  BY <1>1, <1>18 DEF SetBinding, brokerVars, histVars
<1> QED BY <1>4, <1>5, <1>6, <1>7, <1>8, <1>10, <1>11, <1>13, <1>14, <1>15, <1>16,
           <1>17, <1>18 DEF Next, TaskStep

LEMMA InitIInv == Init => IInv
<1> SUFFICES ASSUME Init PROVE IInv
  OBVIOUS
<1>1. TypeOK
  BY TypeInit
<1>2. CallsOK
  BY ConstantsAssumption DEF Init, CallsOK, CallOK, NoCall, Call, SetsToGo
<1>3. AgeOK
  BY DEF Init, AgeOK
<1>4. GuardInv
  BY DEF Init, GuardInv, ClaimedOK, LoggedOK, HoldersOK, AtMostOnce, Holds, NoCall, Call
<1> QED BY <1>1, <1>2, <1>3, <1>4 DEF IInv

(* No fire that won its key is published twice, provided a claim outlives    *)
(* every task that can still ask for it: the whole of what the TTL has to do.*)
THEOREM FiresAtMostOnce == Timely => (Spec => []AtMostOnce)
<1>1. Timely /\ IInv /\ [Next]_vars => IInv'
  BY TypeInductive, CallsInductive, AgeInductive, GuardInductive DEF IInv
<1>2. IInv => AtMostOnce
  BY DEF IInv, GuardInv
<1> SUFFICES ASSUME Timely PROVE Spec => []AtMostOnce
  OBVIOUS
<1>3. IInv /\ [Next]_vars => IInv'
  BY <1>1
<1> QED BY InitIInv, <1>2, <1>3, PTL DEF Spec

-----------------------------------------------------------------------------
(* Why bindings are deduped independently, and of what.                      *)

(* No two fires share a key name: what ids with ':' in them can break.       *)
DistinctNames ==
  \A u, v \in Units : \A p \in Targets(u), q \in Targets(v) :
    KeyName(u, p) = KeyName(v, q) => u = v /\ p = q

(* Whatever set a key is on record as having won it.                         *)
WonOK == \A k \in Keys : expires[k] # 0 =>
           \E f \in won : FireKey(f) = k /\ f.producer \in Targets(f.unit)

LEMMA WonInductive == TypeOK /\ CallsOK /\ WonOK /\ [Next]_vars => WonOK'
<1> SUFFICES ASSUME TypeOK, CallsOK, WonOK, [Next]_vars PROVE WonOK'
  OBVIOUS
<1>1. ASSUME expires' = expires, won' = won PROVE WonOK'
  BY <1>1 DEF WonOK
<1>2. ASSUME NEW m \in Messages, NEW p \in task[m].todo, won' = won \cup {FireOf(m, p)},
             expires' = [expires EXCEPT ![FireKey(FireOf(m, p))] = now + DedupeTtl]
      PROVE  WonOK'
  <2> DEFINE f == FireOf(m, p)
  <2>1. f \in won' /\ f.producer \in Targets(f.unit)
    BY <1>2 DEF FireOf, CallsOK, CallOK
  <2>2. expires' = [expires EXCEPT ![FireKey(f)] = now + DedupeTtl] /\ won \subseteq won'
    BY <1>2
  <2> HIDE DEF f
  <2> QED BY <2>1, <2>2 DEF WonOK, TypeOK
<1>3. ASSUME NEW m \in Messages, NEW p \in task[m].todo, Claim(m, p) PROVE WonOK'
  BY <1>2, <1>3 DEF Claim
<1>4. ASSUME NEW m \in Messages, NEW p \in task[m].todo, FailOpen(m, p) PROVE WonOK'
  BY <1>1, <1>2, <1>4 DEF FailOpen
<1> QED BY <1>1, <1>3, <1>4 DEF Next, TaskStep, Kick, Deliver, Redeliver, ReadBindings,
           SkipDuplicate, Emit, Raise, Ack, Crash, Restart, Tick, SetBinding, vars, histVars

(* A live key of m's was won by the very fire m is about to skip.            *)
LEMMA OwnDuplicate ==
  ASSUME DistinctNames, TypeOK, CallsOK, WonOK, NEW m \in Messages, NEW p \in task[m].todo,
         Live(FireKey(FireOf(m, p)))
  PROVE  FireOf(m, p) \in won
<1> DEFINE g == FireOf(m, p)
<1>1. g \in Fires /\ FireKey(g) \in Keys
  BY CallFires
<1>2. g.producer \in Targets(g.unit)
  BY DEF FireOf, CallsOK, CallOK
<1>3. expires[FireKey(g)] # 0
  BY <1>1 DEF Live, TypeOK
<1>4. PICK f \in won : FireKey(f) = FireKey(g) /\ f.producer \in Targets(f.unit)
  BY <1>1, <1>3 DEF WonOK
<1>5. f \in Fires
  BY <1>4 DEF TypeOK
<1> HIDE DEF g
<1>6. KeyName(f.unit, f.producer) = KeyName(g.unit, g.producer) /\ f.minute = g.minute
  BY <1>4 DEF FireKey
<1>7. f.unit = g.unit /\ f.producer = g.producer
  BY <1>1, <1>2, <1>4, <1>5, <1>6 DEF DistinctNames, Fires
<1>8. f = g
  BY <1>1, <1>5, <1>6, <1>7 DEF Fires
<1> QED BY <1>4, <1>8 DEF g

(* With ids that name their keys apart, one binding's fire is never skipped  *)
(* because of another's.                                                     *)
THEOREM DedupesIndependently == DistinctNames => (Spec => IndependentDedupe)
<1> DEFINE A == \A m \in Messages :
                  task[m].pc = "set" /\ task'[m].pc \in {"set", "ack"}
                    => \A p \in task[m].todo \ task'[m].todo : FireOf(m, p) \in won
           Inv == TypeOK /\ CallsOK /\ WonOK
<1> SUFFICES ASSUME DistinctNames PROVE Spec => [][A]_vars
  BY DEF IndependentDedupe
<1>1. Init => Inv
  BY InitIInv DEF IInv, Init, WonOK
<1>2. Inv /\ [Next]_vars => Inv'
  BY TypeInductive, CallsInductive, WonInductive
<1>3. Inv /\ [Next]_vars => [A]_vars
  <2> SUFFICES ASSUME Inv, Next, NEW n \in Messages, task[n].pc = "set",
                      task'[n].pc \in {"set", "ack"},
                      NEW p \in task[n].todo, p \notin task'[n].todo
               PROVE  FireOf(n, p) \in won
    OBVIOUS
  <2>1. ASSUME NEW m \in Messages, NEW q \in task[m].todo, SkipDuplicate(m, q)
        PROVE  FireOf(n, p) \in won
    <3>1. m = n /\ q = p
      BY <2>1 DEF SkipDuplicate, Continue, Goto, Call, TypeOK
    <3> QED BY <2>1, <3>1, OwnDuplicate DEF SkipDuplicate
  <2>2. ASSUME NEW m \in Messages, NEW c, task' = [task EXCEPT ![m] = c],
               m = n => c.pc \notin {"set", "ack"}
        PROVE  FALSE
    BY <2>2 DEF TypeOK
  <2>3. task' # task
    OBVIOUS
  <2>4. CASE Deliver
    <3>1. lastId + 1 \in Messages /\ lastId + 1 \notin pending
      BY <2>4, ConstantsAssumption DEF Deliver, TypeOK, Messages
    <3>2. lastId + 1 # n
      BY <3>1 DEF TypeOK
    <3> QED BY <2>2, <2>4, <3>1, <3>2 DEF Deliver, Begin
  <2>5. ASSUME NEW m \in Messages, Redeliver(m) \/ ReadBindings(m) \/ Emit(m) \/ Raise(m) \/ Ack(m)
        PROVE  FALSE
    <3>1. m # n
      BY <2>5 DEF Redeliver, ReadBindings, Emit, Raise, Ack
    <3> QED BY <2>2, <2>5, <3>1 DEF Redeliver, Begin, ReadBindings, Emit, Continue, Raise, Goto, Ack
  <2>6. ASSUME NEW m \in Messages, NEW q \in task[m].todo, Claim(m, q) \/ FailOpen(m, q)
        PROVE  FALSE
    <3>1. Goto(m, "emit", task[m].todo \ {q}, {q}, TRUE)
          \/ Goto(m, "emit", task[m].todo \ {q}, {q}, FALSE)
      BY <2>6 DEF Claim, FailOpen
    <3> QED BY <2>2, <3>1 DEF Goto, Call
  <2>7. ~Crash
    BY DEF Crash, NoCall, Call
  <2> QED BY <2>1, <2>3, <2>4, <2>5, <2>6, <2>7
        DEF Next, TaskStep, Kick, Restart, Tick, SetBinding
<1> QED BY <1>1, <1>2, <1>3, PTL DEF Spec
-----------------------------------------------------------------------------
(* Why nothing is lost while neither the process nor the bus fails.          *)

Going(f) == Published(f) \/ InFlight(f)

(* What is won is published or about to be, and so is what a call has read   *)
(* and no longer has to do.                                                  *)
LossFree ==
  /\ \A f \in won : Going(f)
  /\ \A m \in Messages : task[m].pc # "idle" =>
       \A p \in task[m].snap : p \in task[m].todo \/ Going(FireOf(m, p))
LossOK == spent.crash = 0 /\ spent.failure = 0 => LossFree

LEMMA SameFires ==
  ASSUME TypeOK, NEW n \in Messages, CallOK(n), task'[n] = task[n], task[n].pc # "idle",
         stream' = stream \/ \E x : stream' = Append(stream, x)
  PROVE  \A p : FireOf(n, p)' = FireOf(n, p)
<1>1. Unit(n)' = Unit(n)
  BY SameCall
<1> QED BY <1>1 DEF FireOf, Minute

(* A step of call m that publishes what m was about to leaves a going fire so. *)
LEMMA StillGoing ==
  ASSUME TypeOK, CallsOK, NEW m \in Messages, NEW c, task' = [task EXCEPT ![m] = c],
         stream' = stream, log \subseteq log',
         task[m].pc = "emit" => \A p \in task[m].cur : \E e \in log' : e.fire = FireOf(m, p),
         NEW f, Going(f)
  PROVE  Going(f)'
<1>1. CASE Published(f)
  BY <1>1 DEF Going, Published
<1>2. CASE InFlight(f)
  <2>1. PICK n \in Messages, p \in Producers :
          task[n].pc = "emit" /\ p \in task[n].cur /\ FireOf(n, p) = f
    BY <1>2 DEF InFlight
  <2>2. CASE n = m
    BY <2>1, <2>2 DEF Going, Published
  <2>3. CASE n # m
    <3>1. task'[n] = task[n]
      BY <2>3 DEF TypeOK
    <3>2. FireOf(n, p)' = f
      BY <2>1, <3>1, SameFires DEF CallsOK
    <3> QED BY <2>1, <3>1, <3>2 DEF Going, InFlight
  <2> QED BY <2>2, <2>3
<1> QED BY <1>1, <1>2 DEF Going

LEMMA LossFreeStep ==
  ASSUME TypeOK, CallsOK, LossFree, NEW m \in Messages, NEW c,
         task' = [task EXCEPT ![m] = c], stream' = stream, log \subseteq log',
         task[m].pc = "emit" => \A p \in task[m].cur : \E e \in log' : e.fire = FireOf(m, p),
         \A f \in won' : f \in won \/ Going(f)',
         c.pc # "idle" => \A p \in c.snap : p \in c.todo \/ Going(FireOf(m, p))'
  PROVE  LossFree'
<1>1. \A f : Going(f) => Going(f)'
  BY StillGoing
<1>2. \A f \in won' : Going(f)'
  BY <1>1 DEF LossFree
<1>3. ASSUME NEW n \in Messages, task'[n].pc # "idle", NEW p \in task'[n].snap
      PROVE  p \in task'[n].todo \/ Going(FireOf(n, p))'
  <2>1. CASE n = m
    <3>1. task'[m] = c
      BY DEF TypeOK
    <3> QED BY <1>3, <2>1, <3>1
  <2>2. CASE n # m
    <3>1. task'[n] = task[n]
      BY <2>2 DEF TypeOK
    <3>2. PICK f : f = FireOf(n, p) /\ f = FireOf(n, p)'
      BY <1>3, <3>1, SameFires DEF CallsOK
    <3>3. p \in task[n].todo \/ Going(f)
      BY <1>3, <3>1, <3>2 DEF LossFree
    <3>4. CASE Going(f)
      <4>1. Going(f)'
        BY <1>1, <3>4
      <4> QED BY <3>2, <4>1 DEF Going, Published, InFlight
    <3> QED BY <3>1, <3>3, <3>4
  <2> QED BY <2>1, <2>2
<1> QED BY <1>2, <1>3 DEF LossFree

(* A step within a call, which keeps its minute and the set it has read.     *)
LEMMA LossFreeGoto ==
  ASSUME TypeOK, CallsOK, LossFree, NEW m \in Messages, NEW pc, NEW todo, NEW cur, NEW guarded,
         Goto(m, pc, todo, cur, guarded), task[m].pc # "idle", stream' = stream,
         log \subseteq log',
         task[m].pc = "emit" => \A p \in task[m].cur : \E e \in log' : e.fire = FireOf(m, p),
         \A f \in won' : f \in won \/ Going(f)',
         \A p \in task[m].todo \ todo : Going(FireOf(m, p)) \/ (pc = "emit" /\ p \in cur)
  PROVE  LossFree'
<1> DEFINE c == Call(pc, task[m].start, task[m].snap, todo, cur, guarded)
<1>1. task' = [task EXCEPT ![m] = c] /\ task'[m] = c
  BY DEF Goto, TypeOK
<1>2. c.pc = pc /\ c.snap = task[m].snap /\ c.todo = todo /\ c.cur = cur
      /\ c.start = task[m].start
  BY DEF Call
<1>3. task[m].snap \subseteq Producers
  BY DEF TypeOK, TaskType
<1> HIDE DEF c
<1>4. ASSUME NEW p \in c.snap, p \notin c.todo PROVE Going(FireOf(m, p))'
  <2>1. PICK f : f = FireOf(m, p) /\ f = FireOf(m, p)'
    BY <1>1, <1>2 DEF FireOf, Unit, Minute
  <2>2. CASE Going(f)
    <3>1. Going(f)'
      BY <1>1, <2>2, StillGoing
    <3> QED BY <2>1, <3>1 DEF Going, Published, InFlight
  <2>3. CASE pc = "emit" /\ p \in cur
    BY <1>1, <1>2, <1>3, <1>4, <2>3 DEF Going, InFlight
  <2>4. Going(f) \/ (pc = "emit" /\ p \in cur)
    BY <1>2, <1>4, <2>1 DEF LossFree
  <2> QED BY <2>2, <2>3, <2>4
<1> QED BY <1>1, <1>4, LossFreeStep

LEMMA LossFreeBegin ==
  ASSUME TypeOK, CallsOK, LossFree, NEW m \in Messages, Begin(m), task[m].pc = "idle",
         stream' = stream, log' = log, won' = won
  PROVE  LossFree'
<1> DEFINE c == IF Unit(m).mode = "schedule" THEN Call("read", now, {}, {}, {}, FALSE)
                ELSE Call("set", now, {Unit(m).id}, {Unit(m).id}, {}, FALSE)
<1>1. task' = [task EXCEPT ![m] = c] /\ c.snap = c.todo
  BY DEF Begin, Call
<1> HIDE DEF c
<1> QED BY <1>1, LossFreeStep

(* Setting a key, for good or not, is followed by the publish it is for.     *)
LEMMA LossFreeSet ==
  ASSUME TypeOK, CallsOK, LossFree, NEW m \in Messages, NEW p \in task[m].todo,
         NEW guarded, Goto(m, "emit", task[m].todo \ {p}, {p}, guarded), task[m].pc = "set",
         stream' = stream, log' = log, won' \subseteq won \cup {FireOf(m, p)}
  PROVE  LossFree'
<1>1. task'[m] = Call("emit", task[m].start, task[m].snap, task[m].todo \ {p}, {p}, guarded)
  BY DEF Goto, TypeOK
<1>2. PICK f : f = FireOf(m, p) /\ f = FireOf(m, p)'
  <2>1. task'[m].start = task[m].start
    BY <1>1 DEF Call
  <2>2. FireOf(m, p)' = FireOf(m, p)
    BY <2>1 DEF FireOf, Unit, Minute
  <2> QED BY <2>2
<1>3. p \in Producers
  BY DEF TypeOK, TaskType
<1>4. Going(f)'
  BY <1>1, <1>2, <1>3 DEF Going, InFlight, Call
<1>5. \A g \in won' : g \in won \/ Going(g)'
  BY <1>2, <1>4
<1> QED BY <1>5, LossFreeGoto

LEMMA LossFreeRest ==
  ASSUME TypeOK, CallsOK, LossFree, task' = task, log' = log, won' = won,
         stream' = stream \/ \E x : stream' = Append(stream, x)
  PROVE  LossFree'
<1>1. ASSUME NEW n \in Messages, task[n].pc # "idle" PROVE \A p : FireOf(n, p)' = FireOf(n, p)
  BY <1>1, SameFires DEF CallsOK
<1>2. \A f : Going(f) => Going(f)'
  BY <1>1 DEF Going, Published, InFlight
<1>3. ASSUME NEW n \in Messages, task[n].pc # "idle", NEW p \in task[n].snap,
             p \notin task[n].todo
      PROVE  Going(FireOf(n, p))'
  <2>1. PICK f : f = FireOf(n, p) /\ f = FireOf(n, p)'
    BY <1>1, <1>3
  <2>2. Going(f)'
    BY <1>2, <1>3, <2>1 DEF LossFree
  <2> QED BY <2>1, <2>2 DEF Going, Published, InFlight
<1> QED BY <1>2, <1>3 DEF LossFree

LEMMA LossInductive ==
  DistinctNames /\ TypeOK /\ CallsOK /\ WonOK /\ LossOK /\ [Next]_vars => LossOK'
<1> SUFFICES ASSUME DistinctNames, TypeOK, CallsOK, WonOK, LossOK, [Next]_vars,
                    spent'.crash = 0, spent'.failure = 0
             PROVE  LossFree'
  BY DEF LossOK
<1>1. spent.crash = 0 /\ spent.failure = 0 /\ ~Crash /\ \A m \in Messages : ~Raise(m)
  <2>1. spent.crash \in Nat /\ spent.failure \in Nat
    BY DEF TypeOK
  <2>2. ~Crash /\ \A m \in Messages : ~Raise(m)
    <3>1. ~Crash
      BY <2>1 DEF Crash, Spend, TypeOK
    <3>2. ASSUME NEW m \in Messages PROVE ~Raise(m)
      <4>1. Spend("failure", MaxFailures) => spent'.failure = spent.failure + 1
        BY DEF Spend, TypeOK
      <4>2. Raise(m) => Spend("failure", MaxFailures)
        BY DEF Raise
      <4> QED BY <2>1, <4>1, <4>2
    <3> QED BY <3>1, <3>2
  <2>3. ASSUME NEW m \in Messages, NEW p \in task[m].todo, FailOpen(m, p)
        PROVE  spent'.crash = spent.crash /\ spent'.failure = spent.failure
    BY <2>3 DEF FailOpen, Spend, TypeOK
  <2>4. spent' = spent \/ (spent'.crash = spent.crash /\ spent'.failure = spent.failure)
    BY <2>2, <2>3 DEF Next, TaskStep, Kick, Deliver, Redeliver, ReadBindings, Claim,
         SkipDuplicate, Emit, Ack, Restart, Tick, SetBinding, vars, histVars
  <2> QED BY <2>2, <2>4
<1>2. LossFree
  BY <1>1 DEF LossOK
<1>3. CASE \/ (\E u \in Units : Kick(u)) \/ Restart \/ Tick \/ UNCHANGED vars
           \/ \E b \in Bindings, s \in Schedules \cup {NoSchedule} : SetBinding(b, s)
  BY <1>2, <1>3, LossFreeRest DEF Kick, Restart, Tick, SetBinding, vars, brokerVars, histVars
<1>4. CASE Deliver
  <2>1. lastId + 1 \in Messages /\ lastId + 1 \notin pending
    BY <1>4, ConstantsAssumption DEF Deliver, TypeOK, Messages
  <2>2. task[lastId + 1].pc = "idle"
    BY <2>1 DEF TypeOK
  <2> QED BY <1>2, <1>4, <2>1, <2>2, LossFreeBegin DEF Deliver, histVars
<1>5. ASSUME NEW m \in Messages, Redeliver(m) PROVE LossFree'
  BY <1>2, <1>5, LossFreeBegin DEF Redeliver, brokerVars, histVars
<1>6. ASSUME NEW m \in Messages, ReadBindings(m) PROVE LossFree'
  <2> DEFINE bs == BindingsFor(Unit(m).id)
             c == Call(IF bs = {} THEN "ack" ELSE "set", task[m].start, bs, bs, {}, FALSE)
  <2>1. task' = [task EXCEPT ![m] = c] /\ c.snap = c.todo
    BY <1>6 DEF ReadBindings, Call
  <2> HIDE DEF c
  <2> QED BY <1>2, <1>6, <2>1, LossFreeStep DEF ReadBindings, brokerVars, histVars
<1>7. ASSUME NEW m \in Messages, NEW p \in task[m].todo, Claim(m, p) PROVE LossFree'
  BY <1>2, <1>7, LossFreeSet DEF Claim, brokerVars
<1>8. ASSUME NEW m \in Messages, NEW p \in task[m].todo, FailOpen(m, p) PROVE LossFree'
  BY <1>2, <1>8, LossFreeSet DEF FailOpen, brokerVars
<1>9. ASSUME NEW m \in Messages, NEW p \in task[m].todo, SkipDuplicate(m, p) PROVE LossFree'
  <2>1. Going(FireOf(m, p))
    BY <1>2, <1>9, OwnDuplicate DEF SkipDuplicate, LossFree
  <2> QED BY <1>2, <1>9, <2>1, LossFreeGoto DEF SkipDuplicate, Continue, brokerVars, histVars
<1>10. ASSUME NEW m \in Messages, Emit(m) PROVE LossFree'
  <2>1. log \subseteq log' /\ \A p \in task[m].cur : \E e \in log' : e.fire = FireOf(m, p)
    <3>1. PICK p \in task[m].cur : log' = log \cup
            {[fire |-> FireOf(m, p), msg |-> m, guarded |-> task[m].guarded]}
      BY <1>10 DEF Emit, Publish
    <3> DEFINE e == [fire |-> FireOf(m, p), msg |-> m, guarded |-> task[m].guarded]
    <3>2. task[m].cur = {p} /\ e.fire = FireOf(m, p) /\ log' = log \cup {e}
      BY <1>10, <3>1 DEF Emit, CallsOK, CallOK
    <3> HIDE DEF e
    <3> QED BY <3>2
  <2> QED BY <1>2, <1>10, <2>1, LossFreeGoto DEF Emit, Continue, brokerVars
<1>11. ASSUME NEW m \in Messages, Ack(m) PROVE LossFree'
  <2>1. task' = [task EXCEPT ![m] = NoCall(0)] /\ NoCall(0).pc = "idle"
    BY <1>11 DEF Ack, NoCall, Call
  <2> QED BY <1>2, <1>11, <2>1, LossFreeStep DEF Ack, brokerVars, histVars
<1> QED BY <1>1, <1>3, <1>4, <1>5, <1>6, <1>7, <1>8, <1>9, <1>10, <1>11 DEF Next, TaskStep

(* With ids that name their keys apart, and neither a crash nor a failed     *)
(* call, no fire is lost: a message is acked only when all it fanned out to  *)
(* is published for its minute, or about to be by the call that won it.      *)
THEOREM LosesNothing == DistinctNames => (Spec => NothingLost)
<1> DEFINE A == \A m \in pending \ pending' :
                  spent.crash = 0 /\ spent.failure = 0 => Settled(m)
           Inv == TypeOK /\ CallsOK /\ WonOK /\ LossOK
<1> SUFFICES ASSUME DistinctNames PROVE Spec => [][A]_vars
  BY DEF NothingLost
<1>1. Init => Inv
  <2> SUFFICES ASSUME Init PROVE LossFree /\ WonOK
    BY InitIInv DEF IInv, LossOK
  <2> QED BY DEF Init, WonOK, LossFree, NoCall, Call
<1>2. Inv /\ [Next]_vars => Inv'
  BY TypeInductive, CallsInductive, WonInductive, LossInductive
<1>3. Inv /\ [Next]_vars => [A]_vars
  <2> SUFFICES ASSUME Inv, Next, NEW m \in pending, m \notin pending',
                      spent.crash = 0, spent.failure = 0
               PROVE  Settled(m)
    OBVIOUS
  <2>1. m \in Messages
    BY UnitType
  <2>2. Ack(m)
    BY <2>1 DEF Next, TaskStep, Kick, Deliver, Redeliver, ReadBindings, Claim, SkipDuplicate,
         FailOpen, Emit, Raise, Ack, Crash, Restart, Tick, SetBinding
  <2>3. task[m].pc = "ack" /\ task[m].todo = {}
    BY <2>1, <2>2 DEF Ack, CallsOK, CallOK
  <2>4. LossFree
    BY DEF LossOK
  <2> QED BY <2>1, <2>3, <2>4 DEF LossFree, Settled, Going
<1> QED BY <1>1, <1>2, <1>3, PTL DEF Spec
=============================================================================
