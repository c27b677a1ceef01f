--------------------------- MODULE FireOnceProofs ---------------------------
(* With a long enough TTL the fire path keeps FireOnce: every step of        *)
(* FirePath is a step of the promise, or of no account to it.                *)
EXTENDS FirePathProofs

(* What a key's phase is read from: who published for it, and who holds it.  *)
Logged(k) == \E e \in log : e.guarded /\ FireKey(e.fire) = k
Held(k) == \E m \in Messages : Holds(m, k)

PhaseOf(k) ==
  IF Logged(k) THEN "published"
  ELSE IF Held(k) THEN "claimed"
  ELSE IF expires[k] # 0 THEN "closed" ELSE "free"

PhasesOK == \A k \in Keys : Phase(k) = PhaseOf(k)
PhaseInv == IInv /\ PhasesOK

Phases == [k \in Keys |-> Phase(k)]
PromiseStep == [Promise!Next]_Phases

(* No key is ever published for twice, so none is in phase "repeated".       *)
LEMMA PhaseIs == IInv => PhasesOK
<1> SUFFICES ASSUME IInv, NEW k \in Keys PROVE Phase(k) = PhaseOf(k)
  BY DEF PhasesOK
<1>1. ASSUME NEW e \in GuardedFor(k) PROVE e \notin again /\ GuardedFor(k) = {e}
  BY <1>1 DEF IInv, GuardInv, AtMostOnce, GuardedFor
<1>2. GuardedFor(k) # {} <=> Logged(k)
  BY DEF GuardedFor, Logged
<1>3. Claiming(k) <=> Held(k)
  BY DEF Claiming, Held, Holds
<1> QED BY <1>1, <1>2, <1>3 DEF Phase, PhaseOf

LEMMA PhaseInvariant == Timely => (Spec => []PhaseInv)
<1> SUFFICES ASSUME Timely PROVE Spec => []PhaseInv
  OBVIOUS
<1>1. IInv /\ [Next]_vars => IInv'
  BY TypeInductive, CallsInductive, AgeInductive, GuardInductive DEF IInv
<1>2. IInv => PhaseInv
  BY PhaseIs DEF PhaseInv
<1> QED BY InitIInv, <1>1, <1>2, PTL DEF Spec

(* A key nothing happens to keeps its phase ...                              *)
LEMMA SamePhase ==
  ASSUME PhasesOK, PhasesOK', NEW k \in Keys, Logged(k)' <=> Logged(k),
         Held(k)' <=> Held(k), expires'[k] # 0 <=> expires[k] # 0
  PROVE  Phase(k)' = Phase(k)
BY DEF PhasesOK, PhaseOf

LEMMA Stutters ==
  ASSUME PhasesOK, PhasesOK', \A k \in Keys :
           /\ Logged(k)' <=> Logged(k)
           /\ Held(k)' <=> Held(k)
           /\ expires'[k] # 0 <=> expires[k] # 0
  PROVE  Phases' = Phases
<1>1. \A k \in Keys : Phase(k)' = Phase(k)
  BY SamePhase
<1> QED BY <1>1 DEF Phases

(* ... and a step may move one other.                                        *)
LEMMA Moves ==
  ASSUME NEW k \in Keys, NEW from, NEW to, Phase(k) = from, Phase(k)' = to,
         \A x \in Keys : x # k => Phase(x)' = Phase(x)
  PROVE  Promise!Move(k, from, to)
BY DEF Promise!Move

(* A call that no longer has a guarded publish to make lets go of its key.   *)
LEMMA LetsGo ==
  ASSUME TypeOK, CallsOK, GuardInv, NEW m \in Messages, NEW c,
         task' = [task EXCEPT ![m] = c], stream' = stream, ~c.guarded, NEW k \in Keys
  PROVE  Held(k)' <=> Held(k) /\ ~Holds(m, k)
<1>1. \A n \in Messages : Holds(n, k)' <=> n # m /\ Holds(n, k)
  BY NoHolder, OtherHolders
<1>2. \A n \in Messages : Holds(n, k) /\ Holds(m, k) => n = m
  BY DEF GuardInv, HoldersOK
<1> QED BY <1>1, <1>2 DEF Held

LEMMA NotHolding ==
  ASSUME NEW m \in Messages, CallOK(m), task[m].pc # "emit" \/ ~task[m].guarded
  PROVE  \A k : ~Holds(m, k)
BY DEF CallOK, Holds

LEMMA HoldsOne ==
  ASSUME NEW m \in Messages, CallOK(m), task[m].pc = "emit", NEW p \in task[m].cur,
         task[m].guarded
  PROVE  \A k : Holds(m, k) <=> k = FireKey(FireOf(m, p))
BY DEF CallOK, Holds

LEMMA BeginsIdle ==
  ASSUME NEW m, Begin(m)
  PROVE  \E c : task' = [task EXCEPT ![m] = c] /\ ~c.guarded
<1>1. ~Call("read", now, {}, {}, {}, FALSE).guarded
      /\ ~Call("set", now, {Unit(m).id}, {Unit(m).id}, {}, FALSE).guarded
  BY DEF Call
<1> QED BY <1>1 DEF Begin

LEMMA GoesIdle ==
  ASSUME NEW m, NEW pc, NEW todo, NEW cur, Goto(m, pc, todo, cur, FALSE)
  PROVE  \E c : task' = [task EXCEPT ![m] = c] /\ ~c.guarded
<1>1. ~Call(pc, task[m].start, task[m].snap, todo, cur, FALSE).guarded
  BY DEF Call
<1> QED BY <1>1 DEF Goto

-----------------------------------------------------------------------------
(* A step of a call that holds no key before or after it.                    *)
LEMMA BarelyMoves ==
  ASSUME PhaseInv, PhaseInv', NEW m \in Messages, NEW c, task' = [task EXCEPT ![m] = c],
         stream' = stream, ~c.guarded, \A k \in Keys : ~Holds(m, k),
         log' = log, expires' = expires
  PROVE  Phases' = Phases
<1>1. \A k \in Keys : Held(k)' <=> Held(k)
  BY LetsGo DEF PhaseInv, IInv
<1>2. \A k \in Keys : Logged(k)' <=> Logged(k)
  BY DEF Logged
<1> QED BY <1>1, <1>2, Stutters DEF PhaseInv

LEMMA ClaimKeeps ==
  ASSUME Timely, PhaseInv, PhaseInv', NEW m \in Messages, NEW p \in task[m].todo, Claim(m, p)
  PROVE  PromiseStep
<1> DEFINE c == Call("emit", task[m].start, task[m].snap, task[m].todo \ {p}, {p}, TRUE)
<1>1. PICK k \in Keys : k = FireKey(FireOf(m, p)) /\ expires[k] = 0
  BY FreshKey DEF Claim, PhaseInv, IInv
<1>2. expires' = [expires EXCEPT ![k] = now + DedupeTtl] /\ now + DedupeTtl # 0
  BY <1>1, ConstantsAssumption DEF Claim, PhaseInv, IInv, TypeOK
<1>3. \A x \in Keys : expires'[x] # 0 <=> expires[x] # 0 \/ x = k
  BY <1>1, <1>2 DEF PhaseInv, IInv, TypeOK
<1>4. log' = log /\ stream' = stream /\ task' = [task EXCEPT ![m] = c]
  BY DEF Claim, Goto, brokerVars
<1>5. \A x : Holds(m, x)' <=> x = k
  <2>1. task'[m] = c /\ c.cur = {p} /\ c.guarded
    BY <1>4 DEF PhaseInv, IInv, TypeOK, Call
  <2>2. FireOf(m, p)' = FireOf(m, p)
    BY <1>4, <2>1 DEF FireOf, Unit, Minute, Call
  <2>3. FireKey(FireOf(m, p))' = k
    BY <1>1, <2>2 DEF FireKey, KeyName
  <2> QED BY <2>1, <2>3 DEF Holds
<1>6. \A n \in Messages : \A x : n # m => (Holds(n, x)' <=> Holds(n, x))
  BY <1>4, OtherHolders DEF PhaseInv, IInv
<1>7. \A x : ~Holds(m, x)
  BY NotHolding DEF Claim, PhaseInv, IInv, CallsOK
<1>8. \A x : Held(x)' <=> Held(x) \/ x = k
  BY <1>5, <1>6, <1>7 DEF Held
<1>9. \A x : Logged(x)' <=> Logged(x)
  BY <1>4 DEF Logged
<1>10. ~Logged(k) /\ ~Held(k)
  BY <1>1 DEF Logged, Held, PhaseInv, IInv, GuardInv, ClaimedOK
<1> HIDE DEF c
<1>11. Phase(k) = "free" /\ Phase(k)' = "claimed"
  BY <1>1, <1>3, <1>8, <1>9, <1>10 DEF PhaseInv, PhasesOK, PhaseOf
<1>12. \A x \in Keys : x # k => Phase(x)' = Phase(x)
  BY <1>3, <1>8, <1>9, SamePhase DEF PhaseInv
<1>13. Promise!Claim(k)
  BY <1>1, <1>11, <1>12, Moves DEF Promise!Claim
<1> QED BY <1>1, <1>13 DEF PromiseStep, Promise!Next

(* A SET that raised: it took the key and forfeits it, or did nothing.       *)
LEMMA FailOpenKeeps ==
  ASSUME Timely, PhaseInv, PhaseInv', NEW m \in Messages, NEW p \in task[m].todo,
         FailOpen(m, p)
  PROVE  PromiseStep
<1> DEFINE c == Call("emit", task[m].start, task[m].snap, task[m].todo \ {p}, {p}, FALSE)
<1>1. log' = log /\ stream' = stream /\ task' = [task EXCEPT ![m] = c] /\ ~c.guarded
  BY DEF FailOpen, Goto, Call, brokerVars
<1>2. \A x : ~Holds(m, x)
  BY NotHolding DEF FailOpen, PhaseInv, IInv, CallsOK
<1> HIDE DEF c
<1>3. CASE UNCHANGED <<expires, won>>
  BY <1>1, <1>2, <1>3, BarelyMoves DEF PromiseStep
<1>4. CASE /\ ~Live(FireKey(FireOf(m, p)))
           /\ expires' = [expires EXCEPT ![FireKey(FireOf(m, p))] = now + DedupeTtl]
  <2>1. PICK k \in Keys : k = FireKey(FireOf(m, p)) /\ expires[k] = 0
    BY <1>4, FreshKey DEF FailOpen, PhaseInv, IInv
  <2>2. now + DedupeTtl # 0
    BY ConstantsAssumption DEF PhaseInv, IInv, TypeOK
  <2>3. \A x \in Keys : expires'[x] # 0 <=> expires[x] # 0 \/ x = k
    BY <1>4, <2>1, <2>2 DEF PhaseInv, IInv, TypeOK
  <2>4. \A x \in Keys : Held(x)' <=> Held(x)
    BY <1>1, <1>2, LetsGo DEF PhaseInv, IInv
  <2>5. \A x : Logged(x)' <=> Logged(x)
    BY <1>1 DEF Logged
  <2>6. ~Logged(k) /\ ~Held(k)
    BY <2>1 DEF Logged, Held, PhaseInv, IInv, GuardInv, ClaimedOK
  <2>7. Phase(k) = "free" /\ Phase(k)' = "closed"
    BY <2>1, <2>3, <2>4, <2>5, <2>6 DEF PhaseInv, PhasesOK, PhaseOf
  <2>8. \A x \in Keys : x # k => Phase(x)' = Phase(x)
    BY <2>3, <2>4, <2>5, SamePhase DEF PhaseInv
  <2>9. Promise!Forfeit(k)
    BY <2>1, <2>7, <2>8, Moves DEF Promise!Forfeit
  <2> QED BY <2>1, <2>9 DEF PromiseStep, Promise!Next
<1> QED BY <1>3, <1>4 DEF FailOpen

(* A publish is of the key its call holds, or it is unguarded and of none.   *)
LEMMA PublishKeeps ==
  ASSUME PhaseInv, PhaseInv', NEW m \in Messages, task[m].pc = "emit", Publish(m),
         NEW c, ~c.guarded, task' = [task EXCEPT ![m] = c],
         stream' = stream, expires' = expires
  PROVE  PromiseStep
<1>1. PICK p \in task[m].cur :
        log' = log \cup {[fire |-> FireOf(m, p), msg |-> m, guarded |-> task[m].guarded]}
  BY DEF Publish
<1>2. PICK k \in Keys : k = FireKey(FireOf(m, p))
  BY CallFires DEF PhaseInv, IInv
<1>3. \A x : Logged(x)' <=> Logged(x) \/ (task[m].guarded /\ x = k)
  <2> DEFINE e == [fire |-> FireOf(m, p), msg |-> m, guarded |-> task[m].guarded]
  <2>1. log' = log \cup {e} /\ FireKey(e.fire) = k /\ (e.guarded <=> task[m].guarded)
    BY <1>1, <1>2
  <2> HIDE DEF e
  <2> QED BY <2>1 DEF Logged
<1>4. \A x \in Keys : Held(x)' <=> Held(x) /\ ~Holds(m, x)
  BY LetsGo DEF PhaseInv, IInv
<1>5. CASE ~task[m].guarded
  <2>1. \A x \in Keys : ~Holds(m, x)
    BY <1>5, NotHolding DEF PhaseInv, IInv, CallsOK
  <2> QED BY <1>3, <1>4, <1>5, <2>1, Stutters DEF PhaseInv, PromiseStep
<1>6. CASE task[m].guarded
  <2>1. \A x : Holds(m, x) <=> x = k
    BY <1>2, <1>6, HoldsOne DEF PhaseInv, IInv, CallsOK
  <2>2. Held(k) /\ ~Logged(k)
    BY <2>1 DEF Held, Logged, PhaseInv, IInv, GuardInv, HoldersOK
  <2>3. Phase(k) = "claimed" /\ Phase(k)' = "published"
    BY <1>2, <1>3, <1>6, <2>2 DEF PhaseInv, PhasesOK, PhaseOf
  <2>4. \A x \in Keys : x # k => Phase(x)' = Phase(x)
    BY <1>3, <1>4, <2>1, SamePhase DEF PhaseInv
  <2>5. Promise!Publish(k)
    BY <1>2, <2>3, <2>4, Moves DEF Promise!Publish
  <2> QED BY <1>2, <2>5 DEF PromiseStep, Promise!Next
<1> QED BY <1>5, <1>6

(* Calls that end without publishing drop the keys they hold.                *)
LEMMA Drops ==
  ASSUME PhaseInv, PhaseInv', log' = log, expires' = expires, NEW S,
         S = {k \in Keys : Held(k) /\ ~Held(k)'}, \A k \in Keys : Held(k)' => Held(k)
  PROVE  PromiseStep
<1>1. \A k \in Keys : Logged(k)' <=> Logged(k)
  BY DEF Logged
<1>2. \A k \in Keys : k \notin S => Phase(k)' = Phase(k)
  BY <1>1, SamePhase DEF PhaseInv
<1>3. ASSUME NEW k \in S PROVE k \in Keys /\ Phase(k) = "claimed" /\ Phase(k)' = "closed"
  <2>1. ~Logged(k) /\ expires[k] # 0
    BY DEF Held, Logged, PhaseInv, IInv, GuardInv, ClaimedOK, HoldersOK
  <2> QED BY <1>1, <2>1 DEF PhaseInv, PhasesOK, PhaseOf
<1>4. CASE S = {}
  BY <1>2, <1>4 DEF PromiseStep, Phases
<1>5. CASE S # {}
  <2>1. Promise!Drop(S)
    BY <1>2, <1>3, <1>5 DEF Promise!Drop
  <2>2. S \in SUBSET Promise!Claimed
    BY <1>3 DEF Promise!Claimed
  <2> QED BY <2>1, <2>2 DEF PromiseStep, Promise!Next
<1> QED BY <1>4, <1>5

(* Steps that move no key's claim along: no call holds one before or after.  *)
LEMMA RestStutters ==
  ASSUME PhaseInv, PhaseInv', NEW m \in Messages,
         \/ Redeliver(m) \/ ReadBindings(m) \/ Ack(m)
         \/ \E p \in task[m].todo : SkipDuplicate(m, p)
  PROVE  PromiseStep
<1>1. PICK c : task' = [task EXCEPT ![m] = c] /\ ~c.guarded
  <2>1. CASE ReadBindings(m)
    <3> DEFINE bs == BindingsFor(Unit(m).id)
    <3>1. PICK pc : task' = [task EXCEPT ![m] = Call(pc, task[m].start, bs, bs, {}, FALSE)]
      BY <2>1 DEF ReadBindings
    <3>2. ~Call(pc, task[m].start, bs, bs, {}, FALSE).guarded
      BY DEF Call
    <3> QED BY <3>1, <3>2
  <2>2. CASE Ack(m)
    <3>1. task' = [task EXCEPT ![m] = NoCall(0)] /\ ~NoCall(0).guarded
      BY <2>2 DEF Ack, NoCall, Call
    <3> QED BY <3>1
  <2> QED BY <2>1, <2>2, BeginsIdle, GoesIdle DEF Redeliver, SkipDuplicate, Continue
<1>2. log' = log /\ stream' = stream /\ expires' = expires /\ task[m].pc # "emit"
  BY DEF Redeliver, ReadBindings, SkipDuplicate, Ack, brokerVars, histVars
<1>3. \A k \in Keys : ~Holds(m, k)
  BY <1>2, NotHolding DEF PhaseInv, IInv, CallsOK
<1> QED BY <1>1, <1>2, <1>3, BarelyMoves DEF PromiseStep

LEMMA UntouchedStutters ==
  ASSUME PhaseInv, PhaseInv', task' = task, log' = log, expires' = expires,
         stream' = stream \/ \E x : stream' = Append(stream, x)
  PROVE  PromiseStep
<1>1. \A n \in Messages, k \in Keys : Holds(n, k)' <=> Holds(n, k)
  BY SameCall DEF PhaseInv, IInv, CallsOK
<1>2. \A k \in Keys : (Held(k)' <=> Held(k)) /\ (Logged(k)' <=> Logged(k))
  BY <1>1 DEF Held, Logged
<1> QED BY <1>2, Stutters DEF PhaseInv, PromiseStep

-----------------------------------------------------------------------------
(* The fire path keeps the promise of the dedupe guard: a key is claimed by  *)
(* one call, which alone may publish for it, and a key closed by a crash or a *)
(* fault stays closed; provided a claim outlives every task that can still   *)
(* ask for it.                                                               *)
THEOREM KeepsFireOnce == Timely => (Spec => FiresOnce)
<1> SUFFICES ASSUME Timely PROVE Spec => FiresOnce
  OBVIOUS
<1>1. Init => Promise!Init
  <2> SUFFICES ASSUME Init, NEW k \in Keys PROVE Phase(k) = "free"
    BY DEF Promise!Init
  <2>1. PhasesOK
    BY InitIInv, PhaseIs
  <2> QED BY <2>1 DEF PhasesOK, PhaseOf, Init, Logged, Held, Holds, NoCall, Call
<1>2. PhaseInv /\ PhaseInv' /\ [Next]_vars => [Promise!Next]_[k \in Keys |-> Phase(k)]
  <2> SUFFICES ASSUME PhaseInv, PhaseInv', [Next]_vars PROVE PromiseStep
    BY DEF PromiseStep, Phases
  <2>1. CASE \/ (\E u \in Units : Kick(u)) \/ Restart \/ Tick \/ UNCHANGED vars
             \/ \E b \in Bindings, s \in Schedules \cup {NoSchedule} : SetBinding(b, s)
    BY <2>1, UntouchedStutters
       DEF Kick, Restart, Tick, SetBinding, vars, brokerVars, histVars
  <2>2. CASE Deliver
    <3>1. lastId + 1 \in Messages /\ lastId + 1 \notin pending
      BY <2>2, ConstantsAssumption DEF Deliver, PhaseInv, IInv, TypeOK, Messages
    <3>2. PICK m \in Messages : Begin(m) /\ m \notin pending
      BY <2>2, <3>1 DEF Deliver
    <3>3. PICK c : task' = [task EXCEPT ![m] = c] /\ ~c.guarded
      BY <3>2, BeginsIdle
    <3>4. task[m].pc # "emit"
      BY <3>2 DEF PhaseInv, IInv, TypeOK
    <3>5. \A k \in Keys : ~Holds(m, k)
      BY <3>4, NotHolding DEF PhaseInv, IInv, CallsOK
    <3> QED BY <2>2, <3>3, <3>5, BarelyMoves DEF Deliver, PromiseStep, histVars
  <2>3. ASSUME NEW m \in Messages, Emit(m) PROVE PromiseStep
    <3>1. PICK c : task' = [task EXCEPT ![m] = c] /\ ~c.guarded
      BY <2>3, GoesIdle DEF Emit, Continue
    <3> QED BY <2>3, <3>1, PublishKeeps DEF Emit, brokerVars
  <2>4. ASSUME NEW m \in Messages, Raise(m) PROVE PromiseStep
    <3>1. PICK c : task' = [task EXCEPT ![m] = c] /\ ~c.guarded
      BY <2>4, GoesIdle DEF Raise
    <3>2. stream' = stream /\ expires' = expires
      BY <2>4 DEF Raise, brokerVars
    <3>3. CASE log' = log
      <4>1. \A k \in Keys : Held(k)' => Held(k)
        BY <3>1, <3>2, LetsGo DEF PhaseInv, IInv
      <4> QED BY <3>2, <3>3, <4>1, Drops
    <3>4. CASE task[m].pc = "emit" /\ Publish(m)
      BY <3>1, <3>2, <3>4, PublishKeeps
    <3> QED BY <2>4, <3>3, <3>4 DEF Raise
  <2>5. CASE Crash
    <3>1. \A k \in Keys : ~Held(k)'
      BY <2>5 DEF Crash, Held, Holds, NoCall, Call
    <3> QED BY <2>5, <3>1, Drops DEF Crash
  <2> QED BY <2>1, <2>2, <2>3, <2>4, <2>5, ClaimKeeps, FailOpenKeeps, RestStutters
        DEF Next, TaskStep
<1> QED BY <1>1, <1>2, PhaseInvariant, PTL DEF Spec, FiresOnce, Promise!Spec
=============================================================================
