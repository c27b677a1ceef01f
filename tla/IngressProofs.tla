---------------------------- MODULE IngressProofs ----------------------------
(* What holds of Ingress for every number of schedules, entries, crashes and *)
(* failures, and every batch size.                                           *)
EXTENDS Ingress, FiniteSetTheorems, TLAPS

LEMMA LenAppend ==
  ASSUME NEW S, NEW q \in Seq(S), NEW x \in S
  PROVE  /\ Append(q, x) \in Seq(S) /\ Len(Append(q, x)) = Len(q) + 1
         /\ \A i \in 1..Len(q) : Append(q, x)[i] = q[i]
  OBVIOUS

(* What a read delivers is new to the group.                                 *)
LEMMA Delivered ==
  ASSUME TypeOK, NEW n \in (lastId + 1)..Len(stream), Deliver(n)
  PROVE  /\ lastId' = n /\ lastId' \in 0..Len(stream) /\ lastId < n
         /\ pending' = pending \cup Upto(n) /\ pending' \subseteq 1..lastId'
         /\ \A e \in Upto(n) : e \in Int /\ lastId < e /\ e \notin pending
         /\ \A e \in (1..n) \ (1..lastId) : e \in Upto(n) \cup trimmed
<1>1. /\ lastId' = n /\ pending' = pending \cup Upto(n) /\ Len(stream) \in Nat
      /\ lastId \in 0..Len(stream) /\ n \in Nat /\ lastId < n /\ n <= Len(stream)
      /\ pending \subseteq 1..lastId
  BY DEF Deliver, TypeOK
<1>2. \A e \in Upto(n) : e \in Int /\ lastId < e /\ e <= n
  BY <1>1 DEF Upto
<1>3. \A e \in (1..n) \ (1..lastId) : e \in Upto(n) \cup trimmed
  BY <1>1 DEF Upto
<1>4. \A e \in Upto(n) : e \notin pending /\ e \in 1..n
  BY <1>1, <1>2
<1>5. pending \subseteq 1..n /\ n \in 0..Len(stream)
  BY <1>1
<1> QED BY <1>1, <1>2, <1>3, <1>4, <1>5

LEMMA PendingIds == TypeOK => pending \subseteq Ids /\ Ids \subseteq Int
<1> SUFFICES ASSUME TypeOK PROVE pending \subseteq Ids /\ Ids \subseteq Int
  OBVIOUS
<1>1. /\ pending \subseteq 1..lastId /\ lastId \in 0..Len(stream) /\ Len(stream) \in Nat
      /\ Len(stream) <= MaxEntries /\ MaxEntries \in Nat
  BY ConstantsAssumption DEF TypeOK
<1> QED BY <1>1 DEF Ids

-----------------------------------------------------------------------------
(* The variables keep their types; what the task holds in memory is pending  *)
(* in the group, so a crash leaves it to be claimed.  HeldOK makes that      *)
(* inductive: an entry is held once, and is not idle while it is held.       *)
HeldOK ==
  /\ bad \cap batch = {} /\ idle \cap (bad \cup batch) = {}
  /\ pc = "down" => bad = {} /\ batch = {}

LEMMA SpentTypeOK ==
  ASSUME NEW k \in FaultKinds, NEW max, spent \in [FaultKinds -> Nat], Spend(k, max)
  PROVE  spent' \in [FaultKinds -> Nat]
  BY DEF Spend

LEMMA RecordTypeOK ==
  ASSUME NEW e, NEW o \in Outcomes, done \in [Ids -> SUBSET Outcomes], Record(e, o)
  PROVE  done' \in [Ids -> SUBSET Outcomes]
  BY DEF Record

LEMMA ReceiveTypeOK ==
  ASSUME TypeOK, NEW S \in SUBSET pending', Receive(S)
  PROVE  bad' \cup batch' \subseteq pending' /\ pc' \in Pcs /\ passed' \subseteq Ids
<1>1. passed' \subseteq passed \cup pending
  BY DEF Receive
<1>2. bad' \cup batch' \subseteq pending' /\ pc' \in Pcs
  BY DEF Receive, Pcs
<1> QED BY <1>1, <1>2, PendingIds DEF TypeOK

LEMMA InitTypeOK == Init => TypeOK
<1> SUFFICES ASSUME Init PROVE TypeOK
  OBVIOUS
<1>1. stream \in Seq(Payloads) /\ Len(stream) = 0
  BY DEF Init
<1>2. sched \in [Schedules -> Versions] /\ bind \in [Schedules -> Versions]
  BY ConstantsAssumption DEF Init, Versions
<1>3. done \in [Ids -> SUBSET Outcomes] /\ spent \in [FaultKinds -> Nat]
  BY DEF Init
<1>4. /\ Len(stream) <= MaxEntries /\ lastId \in 0..Len(stream)
      /\ pending \subseteq 1..lastId
  BY <1>1, ConstantsAssumption DEF Init
<1> QED
  BY <1>1, <1>2, <1>3, <1>4 DEF Init, TypeOK, Pcs

LEMMA StepTypeOK == TypeOK /\ HeldOK /\ [Next]_vars => TypeOK'
<1> SUFFICES ASSUME TypeOK, HeldOK, [Next]_vars PROVE TypeOK'
  OBVIOUS
<1> USE ConstantsAssumption DEF groupVars, localVars, registryVars
<1>1. ASSUME NEW p \in Payloads, Publish(p) PROVE TypeOK'
  <2>1. stream' \in Seq(Payloads) /\ Len(stream') = Len(stream) + 1
    BY <1>1, LenAppend DEF Publish, TypeOK
  <2> QED
    BY <1>1, <2>1 DEF Publish, TypeOK
<1>2. ASSUME NEW e \in Ids, Trim(e) PROVE TypeOK'
  BY <1>2, SpentTypeOK DEF Trim, TypeOK, FaultKinds
<1>3. ASSUME NEW s \in Schedules, ApiDelete(s) PROVE TypeOK'
  BY <1>3 DEF ApiDelete, TypeOK, Versions
<1>4. ASSUME NEW e \in Ids, GrowIdle(e) PROVE TypeOK'
  BY <1>4 DEF GrowIdle, TypeOK
<1>5. CASE Start
  BY <1>5 DEF Start, TypeOK, Pcs
<1>6. CASE Crash
  BY <1>6, SpentTypeOK DEF Crash, Forget, TypeOK, Pcs, FaultKinds
<1>7. CASE Reclaim
  <2>1. PICK S \in SUBSET idle : idle' = idle \ S /\ Receive(S)
    BY <1>7 DEF Reclaim, Claim
  <2>2. pending' = pending /\ S \in SUBSET pending'
    BY <1>7, <2>1 DEF Reclaim, TypeOK
  <2>3. bad' \cup batch' \subseteq pending' /\ pc' \in Pcs /\ passed' \subseteq Ids
    BY <2>1, <2>2, ReceiveTypeOK
  <2> QED
    BY <1>7, <2>1, <2>2, <2>3 DEF Reclaim, TypeOK
<1>8. CASE Read
  <2>1. PICK n \in (lastId + 1)..Len(stream) : Deliver(n) /\ Receive(Upto(n))
    BY <1>8 DEF Read
  <2>2. /\ lastId' \in 0..Len(stream) /\ pending' \subseteq 1..lastId'
        /\ pending \subseteq pending' /\ Upto(n) \in SUBSET pending'
    BY <2>1, Delivered
  <2>3. bad' \cup batch' \subseteq pending' /\ pc' \in Pcs /\ passed' \subseteq Ids
    BY <2>1, <2>2, ReceiveTypeOK
  <2>4. idle' \subseteq pending'
    BY <1>8, <2>2 DEF Read, TypeOK
  <2>5. startup' = FALSE /\ UNCHANGED <<stream, trimmed, dlq, sched, bind, done, spent>>
    BY <1>8 DEF Read
  <2> QED
    BY <2>2, <2>3, <2>4, <2>5 DEF TypeOK
<1>9. ASSUME NEW e \in Ids, ScanPoison(e) PROVE TypeOK'
  BY <1>9 DEF ScanPoison, TypeOK, Pcs
<1>10. ASSUME NEW e \in Ids, ScanAck(e) PROVE TypeOK'
  <2>1. pending' \subseteq 1..lastId' /\ lastId' = lastId /\ stream' = stream
    BY <1>10 DEF ScanAck, ScanAcks, TypeOK
  <2>2. e \in bad /\ e \notin batch /\ e \notin idle
    BY <1>10 DEF ScanAck, ScanAcks, Least, HeldOK
  <2>3. bad' \cup batch' \subseteq pending' /\ idle' \subseteq pending'
    BY <1>10, <2>2 DEF ScanAck, ScanAcks, TypeOK
  <2>4. pc' \in Pcs
    BY <1>10 DEF ScanAck, ScanAcks, Pcs
  <2> QED
    BY <1>10, <2>1, <2>3, <2>4 DEF ScanAck, ScanAcks, TypeOK
<1>11. CASE ScanFails
  BY <1>11, SpentTypeOK DEF ScanFails, Forget, TypeOK, Pcs, FaultKinds
<1>12. ASSUME NEW e \in Ids, Ignore(e) \/ Reject(e) \/ Exists(e) PROVE TypeOK'
  <2>1. done' \in [Ids -> SUBSET Outcomes]
    BY <1>12 DEF Ignore, Reject, Exists, Record, TypeOK, Outcomes
  <2>2. /\ UNCHANGED <<stream, trimmed, groupVars, localVars, registryVars, passed, spent>>
        /\ pc' \in Pcs /\ dlq' \subseteq Ids
    BY <1>12 DEF Ignore, Reject, Exists, ToAck, TypeOK, Pcs
  <2> QED
    BY <2>1, <2>2 DEF TypeOK
<1>13. ASSUME NEW e \in Ids, PutSchedule(e) PROVE TypeOK'
  <2>1. done' \in [Ids -> SUBSET Outcomes]
    BY <1>13 DEF PutSchedule, Record, TypeOK, Outcomes
  <2>3. sched' = [sched EXCEPT ![Req(e).sch] = e] /\ e \in Versions
    BY <1>13 DEF PutSchedule, Ids, Versions
  <2>4. sched' \in [Schedules -> Versions]
    BY <2>3 DEF TypeOK
  <2>2. pc' \in Pcs
    BY <1>13 DEF PutSchedule, Pcs
  <2> QED
    BY <1>13, <2>1, <2>2, <2>4 DEF PutSchedule, TypeOK
<1>14. ASSUME NEW e \in Ids, PutBinding(e) PROVE TypeOK'
  <2>1. done' \in [Ids -> SUBSET Outcomes]
    BY <1>14 DEF PutBinding, Record, TypeOK, Outcomes
  <2>3. bind' = [bind EXCEPT ![Req(e).sch] = e] /\ e \in Versions
    BY <1>14 DEF PutBinding, Ids, Versions
  <2>4. bind' \in [Schedules -> Versions]
    BY <2>3 DEF TypeOK
  <2>2. pc' \in Pcs
    BY <1>14 DEF PutBinding, ToAck, Pcs
  <2> QED
    BY <1>14, <2>1, <2>2, <2>4 DEF PutBinding, TypeOK
<1>15. ASSUME NEW e \in Ids, HandlerFails(e) PROVE TypeOK'
  BY <1>15, SpentTypeOK DEF HandlerFails, ToAck, TypeOK, Pcs, FaultKinds
<1>16. ASSUME NEW e \in Ids, Ack(e) \/ LastAck(e) PROVE TypeOK'
  <2>1. e \in batch /\ e \notin bad /\ e \notin idle
    BY <1>16 DEF Ack, LastAck, Handling, Least, HeldOK
  <2>2. bad' \cup batch' \subseteq pending'
    BY <1>16, <2>1 DEF Ack, LastAck, Forget, TypeOK
  <2>3. idle' \subseteq pending' /\ pending' \subseteq pending
    BY <1>16, <2>1 DEF Ack, LastAck, TypeOK
  <2>4. pc' \in Pcs /\ startup' \in BOOLEAN
    BY <1>16 DEF Ack, LastAck, Forget, TypeOK, Pcs
  <2> QED
    BY <1>16, <2>2, <2>3, <2>4 DEF Ack, LastAck, TypeOK
<1>17. ASSUME NEW e \in Ids, AckFails(e) PROVE TypeOK'
  BY <1>17, SpentTypeOK DEF AckFails, AckRaises, Forget, TypeOK, Pcs, FaultKinds
<1>18. CASE Shutdown
  BY <1>18, SpentTypeOK DEF Shutdown, Forget, TypeOK, Pcs, FaultKinds
<1>19. CASE ReplyLost
  <2>1. /\ lastId' \in 0..Len(stream) /\ pending' \subseteq 1..lastId'
        /\ idle' \subseteq pending'
    <3>1. CASE \E n \in (lastId + 1)..Len(stream) : Deliver(n) /\ idle' = idle
      BY <3>1, Delivered DEF TypeOK
    <3>2. CASE UNCHANGED <<lastId, pending>> /\ idle' \subseteq idle
      BY <3>2 DEF TypeOK
    <3> QED BY <1>19, <3>1, <3>2 DEF ReplyLost, Claim
  <2>2. spent' \in [FaultKinds -> Nat]
    BY <1>19, SpentTypeOK DEF ReplyLost, TypeOK, FaultKinds
  <2> QED
    BY <1>19, <2>1, <2>2 DEF ReplyLost, Forget, TypeOK, Pcs
<1>20. ASSUME NEW e \in Ids, AckReplyLost(e) PROVE TypeOK'
  <2>1. e \notin idle
    BY <1>20 DEF AckReplyLost, AckRaises, ScanAcks, Handling, Least, HeldOK
  <2>2. /\ idle' \subseteq pending' /\ pending' \subseteq 1..lastId'
        /\ bad' \cup batch' \subseteq pending' /\ startup' \in BOOLEAN
    BY <1>20, <2>1 DEF AckReplyLost, Forget, TypeOK
  <2>3. pc' \in Pcs
    BY <1>20 DEF AckReplyLost, AckRaises, Pcs
  <2>4. spent' \in [FaultKinds -> Nat]
    BY <1>20, SpentTypeOK DEF AckReplyLost, TypeOK, FaultKinds
  <2> QED
    BY <1>20, <2>2, <2>3, <2>4 DEF AckReplyLost, TypeOK
<1>21. CASE UNCHANGED vars
  BY <1>21 DEF vars, TypeOK
<1> QED
  BY <1>20, <1>21, <1>1, <1>2, <1>3, <1>4, <1>5, <1>6, <1>7, <1>8, <1>9, <1>10, <1>11, <1>12,
     <1>13, <1>14, <1>15, <1>16, <1>17, <1>18, <1>19 DEF Next, LoopStep, Handle

LEMMA StepHeldOK == TypeOK /\ HeldOK /\ [Next]_vars => HeldOK'
<1> SUFFICES ASSUME TypeOK, HeldOK, [Next]_vars PROVE HeldOK'
  OBVIOUS
<1> USE DEF groupVars, localVars
<1>1. ASSUME NEW p \in Payloads, Publish(p) PROVE HeldOK'
  BY <1>1 DEF Publish, HeldOK
<1>2. ASSUME NEW e \in Ids, Trim(e) PROVE HeldOK'
  BY <1>2 DEF Trim, HeldOK
<1>3. ASSUME NEW s \in Schedules, ApiDelete(s) PROVE HeldOK'
  BY <1>3 DEF ApiDelete, HeldOK
<1>4. ASSUME NEW e \in Ids, GrowIdle(e) PROVE HeldOK'
  BY <1>4 DEF GrowIdle, HeldOK
<1>5. CASE Start
  BY <1>5 DEF Start, HeldOK
<1>6. CASE Crash \/ ScanFails \/ ReplyLost \/ Shutdown
  BY <1>6 DEF Crash, ScanFails, ReplyLost, Shutdown, Forget, HeldOK
<1>7. CASE Reclaim
  BY <1>7 DEF Reclaim, Claim, Receive, HeldOK
<1>8. CASE Read
  <2>1. PICK n \in (lastId + 1)..Len(stream) : Deliver(n) /\ Receive(Upto(n)) /\ idle' = idle
    BY <1>8 DEF Read
  <2>2. idle \cap Upto(n) = {}
    BY <2>1, Delivered DEF TypeOK
  <2> QED
    BY <2>1, <2>2 DEF Receive, HeldOK
<1>9. ASSUME NEW e \in Ids, ScanPoison(e) \/ ScanAck(e) PROVE HeldOK'
  BY <1>9 DEF ScanPoison, ScanAck, ScanAcks, Least, HeldOK
<1>10. ASSUME NEW e \in Ids, Ignore(e) \/ Reject(e) \/ Exists(e) \/ HandlerFails(e)
       PROVE  HeldOK'
  BY <1>10 DEF Ignore, Reject, Exists, HandlerFails, Handling, ToAck, HeldOK
<1>11. ASSUME NEW e \in Ids, PutSchedule(e) \/ PutBinding(e) PROVE HeldOK'
  BY <1>11 DEF PutSchedule, PutBinding, ToAck, HeldOK
<1>12. ASSUME NEW e \in Ids, Ack(e) \/ LastAck(e) \/ AckFails(e) \/ AckReplyLost(e)
       PROVE  HeldOK'
  BY <1>12 DEF Ack, LastAck, AckFails, AckReplyLost, Forget, HeldOK
<1>13. CASE UNCHANGED vars
  BY <1>13 DEF vars, HeldOK
<1> QED
  BY <1>1, <1>2, <1>3, <1>4, <1>5, <1>6, <1>7, <1>8, <1>9, <1>10, <1>11, <1>12, <1>13
     DEF Next, LoopStep, Handle

(* The control stream's bookkeeping is well typed, and what the task holds   *)
(* is pending in the group (ingress.py, bus_consumer.py).                    *)
THEOREM TypeCorrect == Spec => []TypeOK
<1>1. Init => TypeOK /\ HeldOK
  BY InitTypeOK DEF Init, HeldOK
<1>2. TypeOK /\ HeldOK /\ [Next]_vars => (TypeOK /\ HeldOK)'
  BY StepTypeOK, StepHeldOK
<1> QED
  BY <1>1, <1>2, PTL DEF Spec

-----------------------------------------------------------------------------
(* HandledBeforeAck is inductive once it counts, beside what is lost, what   *)
(* is about to be: the entry at hand when an ack is due that nothing has     *)
(* disposed of.                                                              *)
AtRisk == {e \in batch : pc \in {"ack", "lastAck"} /\ Least(e, batch) /\ ~Disposed(e)}
Doomed == Lost \cup AtRisk
Faults == spent.failure + spent.shutdown

AckInv ==
  /\ Cardinality(Doomed) <= Faults
  /\ pc = "scanAck" => \A e \in bad : Least(e, bad) => e \in dlq

LEMMA DisposedStays ==
  ASSUME dlq \subseteq dlq', NEW e, done[e] \subseteq done'[e], Disposed(e)
  PROVE  Disposed(e)'
  BY DEF Disposed

LEMMA RecordAdds ==
  ASSUME done \in [Ids -> SUBSET Outcomes], NEW e \in Ids, NEW o, Record(e, o)
  PROVE  o \in done'[e] /\ \A f \in Ids : done[f] \subseteq done'[f]
  BY DEF Record

LEMMA FaultsAreCounted ==
  ASSUME TypeOK, NEW k \in FaultKinds, NEW max, Spend(k, max)
  PROVE  Faults' = IF k \in {"failure", "shutdown"} THEN Faults + 1 ELSE Faults
<1>1. /\ spent.failure \in Nat /\ spent.shutdown \in Nat
      /\ \A j \in FaultKinds : spent'[j] = IF j = k THEN spent[j] + 1 ELSE spent[j]
  BY DEF TypeOK, Spend, FaultKinds
<1> QED
  BY <1>1 DEF Faults, FaultKinds

LEMMA OneLeast ==
  ASSUME NEW S \in SUBSET Int, NEW e, NEW f, Least(e, S), Least(f, S)
  PROVE  e = f
  BY DEF Least

LEMMA HeldAreInts == TypeOK => bad \subseteq Int /\ batch \subseteq Int
<1> SUFFICES ASSUME TypeOK PROVE bad \subseteq Int /\ batch \subseteq Int
  OBVIOUS
<1>1. 1..lastId \subseteq Int
  BY DEF TypeOK
<1> QED
  BY <1>1 DEF TypeOK

LEMMA DoomedFinite == TypeOK => Doomed \subseteq Ids /\ IsFiniteSet(Doomed)
<1> SUFFICES ASSUME TypeOK PROVE Doomed \subseteq Ids /\ IsFiniteSet(Doomed)
  OBVIOUS
<1>1. batch \subseteq 1..lastId /\ lastId \in Int /\ 1..lastId \subseteq Ids
  <2>1. lastId \in 0..Len(stream) /\ Len(stream) \in Nat /\ Len(stream) <= MaxEntries
    BY DEF TypeOK
  <2>2. MaxEntries \in Nat
    BY ConstantsAssumption DEF ConstantsAssumption
  <2>3. batch \subseteq 1..lastId
    BY DEF TypeOK
  <2>4. lastId \in Int /\ 1..lastId \subseteq Ids
    BY <2>1, <2>2 DEF Ids
  <2> QED
    BY <2>3, <2>4
<1>2. IsFiniteSet(1..lastId)
  BY <1>1, FS_Interval
<1>3. Doomed \subseteq 1..lastId
  BY <1>1 DEF Doomed, Lost, AtRisk, Acked
<1> QED
  BY <1>1, <1>2, <1>3, FS_Subset

(* What one step does to the count: it dooms nothing, or one entry for one   *)
(* fault.                                                                    *)
LEMMA CountKept ==
  ASSUME TypeOK, AckInv, Faults' \in Int, Faults' >= Faults, Doomed' \subseteq Doomed
  PROVE  Cardinality(Doomed') <= Faults'
<1>1. Cardinality(Doomed') <= Cardinality(Doomed) /\ Cardinality(Doomed') \in Nat
  BY DoomedFinite, FS_Subset, FS_CardinalityType
<1>2. Cardinality(Doomed) \in Nat /\ Faults \in Int
  BY DoomedFinite, FS_CardinalityType DEF TypeOK, Faults, FaultKinds
<1> QED
  BY <1>1, <1>2 DEF AckInv

LEMMA CountOneMore ==
  ASSUME TypeOK, AckInv, NEW e, Faults' = Faults + 1, Doomed' \subseteq Doomed \cup {e}
  PROVE  Cardinality(Doomed') <= Faults'
<1>1. IsFiniteSet(Doomed \cup {e}) /\ Cardinality(Doomed \cup {e}) <= Cardinality(Doomed) + 1
  <2>1. IsFiniteSet(Doomed) /\ Cardinality(Doomed) \in Nat
    BY DoomedFinite, FS_CardinalityType
  <2>2. /\ IsFiniteSet(Doomed \cup {e})
        /\ Cardinality(Doomed \cup {e}) =
             IF e \in Doomed THEN Cardinality(Doomed) ELSE Cardinality(Doomed) + 1
    BY <2>1, FS_AddElement, Zenon
  <2> QED
    BY <2>1, <2>2
<1>2. /\ Cardinality(Doomed') <= Cardinality(Doomed \cup {e})
      /\ Cardinality(Doomed') \in Nat /\ Cardinality(Doomed \cup {e}) \in Nat
  BY <1>1, FS_Subset, FS_CardinalityType
<1>3. Cardinality(Doomed) \in Nat /\ Faults \in Int
  BY DoomedFinite, FS_CardinalityType DEF TypeOK, Faults, FaultKinds
<1> QED
  BY <1>1, <1>2, <1>3 DEF AckInv

LEMMA StepAckInv == TypeOK /\ HeldOK /\ AckInv /\ [Next]_vars => AckInv'
<1> SUFFICES ASSUME TypeOK, HeldOK, AckInv, [Next]_vars
             PROVE  /\ Cardinality(Doomed') <= Faults'
                    /\ pc' = "scanAck" => \A e \in bad' : Least(e, bad') => e \in dlq'
  BY DEF AckInv, Least
<1> DEFINE Goal == /\ Cardinality(Doomed') <= Faults'
                   /\ pc' = "scanAck" => \A e \in bad' : Least(e, bad') => e \in dlq'
<1>f. Faults \in Int
  BY DEF TypeOK, Faults, FaultKinds
<1>a. ASSUME Faults' \in Int, Faults' >= Faults, pc' \notin {"ack", "scanAck", "lastAck"},
             Acked' \subseteq Acked, dlq' = dlq, done' = done
      PROVE  Goal
  <2>1. Doomed' \subseteq Doomed
    BY <1>a DEF Doomed, Lost, AtRisk, Disposed
  <2> QED
    BY <2>1, <1>a, CountKept
<1>b. ASSUME Faults' \in Int, Faults' >= Faults, pc' = pc, batch' = batch, bad' = bad,
             Acked' \subseteq Acked, dlq' = dlq, done' = done
      PROVE  Goal
  <2>1. Doomed' \subseteq Doomed
    BY <1>b DEF Doomed, Lost, AtRisk, Disposed, Least
  <2> QED
    BY <2>1, <1>b, CountKept DEF AckInv, Least
<1> USE DEF groupVars, localVars, registryVars
<1>1. ASSUME NEW p \in Payloads, Publish(p) PROVE Goal
  <2>1. Faults' = Faults /\ Acked' = Acked
    BY <1>1 DEF Publish, Faults, Acked
  <2> QED
    BY <1>1, <1>b, <1>f, <2>1 DEF Publish
<1>2. ASSUME NEW e \in Ids, Trim(e) PROVE Goal
  <2>1. Faults' = Faults /\ Acked' \subseteq Acked
    BY <1>2, FaultsAreCounted DEF Trim, Acked, FaultKinds
  <2> QED
    BY <1>2, <1>b, <1>f, <2>1 DEF Trim
<1>3. ASSUME NEW s \in Schedules, ApiDelete(s) PROVE Goal
  <2>1. Faults' = Faults /\ Acked' = Acked
    BY <1>3 DEF ApiDelete, Faults, Acked
  <2> QED
    BY <1>3, <1>b, <1>f, <2>1 DEF ApiDelete
<1>4. ASSUME NEW e \in Ids, GrowIdle(e) PROVE Goal
  <2>1. Faults' = Faults /\ Acked' = Acked
    BY <1>4 DEF GrowIdle, Faults, Acked
  <2> QED
    BY <1>4, <1>b, <1>f, <2>1 DEF GrowIdle
<1>5. CASE Start \/ Crash
  <2>1. Faults' = Faults /\ Acked' = Acked
    BY <1>5, FaultsAreCounted DEF Start, Crash, Acked, Faults, FaultKinds
  <2> QED
    BY <1>5, <1>a, <1>f, <2>1 DEF Start, Crash
<1>6. CASE Reclaim
  <2>1. /\ pc' \in {"scan", "handle", "tail"} /\ Faults' = Faults /\ Acked' = Acked
    BY <1>6 DEF Reclaim, Receive, Faults, Acked
  <2> QED
    BY <1>6, <1>a, <1>f, <2>1 DEF Reclaim
<1>7. CASE Read
  <2>1. PICK n \in (lastId + 1)..Len(stream) : Deliver(n) /\ Receive(Upto(n))
    BY <1>7 DEF Read
  <2>2. pc' \in {"scan", "handle", "tail"} /\ Faults' = Faults
    BY <1>7, <2>1 DEF Receive, Read, Faults
  <2>3. Acked' \subseteq Acked
    BY <1>7, <2>1, Delivered DEF Read, Acked
  <2> QED
    BY <1>7, <1>a, <1>f, <2>2, <2>3 DEF Read
<1>8. ASSUME NEW e \in Ids, ScanPoison(e) PROVE Goal
  <2>1. /\ Acked' = Acked /\ dlq' = dlq \cup {e} /\ done' = done /\ pc' = "scanAck"
        /\ bad' = bad /\ Least(e, bad) /\ Faults' = Faults
    BY <1>8 DEF ScanPoison, Acked, Faults
  <2>2. \A f \in bad : Least(f, bad) => f = e
    BY <2>1, OneLeast, HeldAreInts
  <2>3. Doomed' \subseteq Doomed
    BY <2>1 DEF Doomed, Lost, AtRisk, Disposed
  <2>4. Cardinality(Doomed') <= Faults'
    BY <2>1, <2>3, <1>f, CountKept
  <2> QED
    BY <2>1, <2>2, <2>4
<1>9. ASSUME NEW e \in Ids, ScanAck(e) PROVE Goal
  <2>1. pc' \in {"scan", "handle", "tail"} /\ dlq' = dlq /\ done' = done /\ Faults' = Faults
    BY <1>9 DEF ScanAck, ScanAcks, Faults
  <2>2. Acked' \subseteq Acked \cup {e}
    BY <1>9 DEF ScanAck, ScanAcks, Acked
  <2>3. e \in Acked' => e \in dlq
    BY <1>9 DEF ScanAck, ScanAcks, Least, Acked, AckInv
  <2>4. Doomed' \subseteq Doomed
    BY <2>1, <2>2, <2>3 DEF Doomed, Lost, AtRisk, Disposed
  <2> QED
    BY <2>1, <2>4, <1>f, CountKept
<1>10. ASSUME NEW e \in Ids, Ignore(e) \/ Reject(e) \/ Exists(e) \/ PutSchedule(e)
                             \/ PutBinding(e)
       PROVE  Goal
  <2>1. Acked' = Acked /\ dlq \subseteq dlq' /\ batch' = batch /\ Faults' = Faults
    BY <1>10 DEF Ignore, Reject, Exists, PutSchedule, PutBinding, Acked, Faults
  <2>2. \A f \in Ids : done[f] \subseteq done'[f]
    BY <1>10, RecordAdds DEF Ignore, Reject, Exists, PutSchedule, PutBinding, TypeOK
  <2>3. Acked \subseteq Ids /\ Handling(e, pc) /\ pc' \notin {"scanAck", "lastAck"}
    BY <1>10, ConstantsAssumption
       DEF Ignore, Reject, Exists, PutSchedule, PutBinding, Acked, TypeOK, Ids, ToAck, Handling
  <2>4. pc' = "ack" => Disposed(e)'
    BY <1>10, RecordAdds
       DEF Ignore, Reject, Exists, PutSchedule, PutBinding, Disposed, TypeOK
  <2>5. \A f \in batch' : Least(f, batch') => f = e
    BY <2>1, <2>3, OneLeast, HeldAreInts DEF Handling
  <2>6. AtRisk' = {}
    BY <2>3, <2>4, <2>5 DEF AtRisk, Disposed, Least
  <2>7. Lost' \subseteq Lost
    BY <2>1, <2>2, <2>3 DEF Lost, Disposed
  <2> QED
    BY <2>1, <2>3, <2>6, <2>7, <1>f, CountKept DEF Doomed
<1>11. ASSUME NEW e \in Ids, Ack(e) \/ LastAck(e) PROVE Goal
  <2>1. /\ pc' \in {"handle", "tail", "down"} /\ dlq' = dlq /\ done' = done
        /\ Faults' = Faults /\ pc \in {"ack", "lastAck"} /\ Least(e, batch)
    BY <1>11 DEF Ack, LastAck, Handling, Faults
  <2>2. Acked' \subseteq Acked \cup {e}
    BY <1>11 DEF Ack, LastAck, Acked
  <2>3. e \in Acked' /\ ~Disposed(e) => e \in AtRisk
    BY <2>1 DEF AtRisk, Least
  <2>4. Doomed' \subseteq Doomed
    BY <2>1, <2>2, <2>3 DEF Doomed, Lost, AtRisk, Disposed
  <2> QED
    BY <2>1, <2>4, <1>f, CountKept
<1>12. ASSUME NEW e \in Ids, HandlerFails(e) PROVE Goal
  <2>1. /\ Acked' = Acked /\ dlq' = dlq /\ done' = done /\ batch' = batch
        /\ pc' = "ack" /\ Least(e, batch)
    BY <1>12 DEF HandlerFails, InHandler, Handling, ToAck, Acked
  <2>2. Faults' = Faults + 1
    BY <1>12, FaultsAreCounted DEF HandlerFails, FaultKinds
  <2>3. \A f \in batch : Least(f, batch) => f = e
    BY <2>1, OneLeast, HeldAreInts
  <2>4. Doomed' \subseteq Doomed \cup {e}
    BY <2>1, <2>3 DEF Doomed, Lost, AtRisk, Disposed, Least
  <2> QED
    BY <2>1, <2>2, <2>4, CountOneMore
<1>13. CASE ScanFails \/ \E e \in Ids : AckFails(e)
  <2>1. pc' \in {"tail", "dead", "down"} /\ Acked' = Acked /\ dlq' = dlq /\ done' = done
    BY <1>13 DEF ScanFails, AckFails, AckRaises, Acked
  <2>2. Faults' = Faults + 1
    BY <1>13, FaultsAreCounted DEF ScanFails, AckFails, FaultKinds
  <2> QED
    BY <1>a, <1>f, <2>1, <2>2
<1>14. CASE Shutdown
  <2>1. Acked' = Acked /\ dlq' = dlq /\ done' = done
    BY <1>14 DEF Shutdown, Acked
  <2>2. Faults' = Faults + 1
    BY <1>14, FaultsAreCounted DEF Shutdown, FaultKinds
  <2>3. CASE \E e \in batch : InHandler(e)
    <3>1. PICK e \in batch : Least(e, batch)
      BY <2>3 DEF InHandler, Handling
    <3>2. pc' = "lastAck" /\ batch' = batch
      BY <1>14, <2>3 DEF Shutdown
    <3>3. \A f \in batch : Least(f, batch) => f = e
      BY <3>1, OneLeast, HeldAreInts
    <3>4. Doomed' \subseteq Doomed \cup {e}
      BY <2>1, <3>2, <3>3 DEF Doomed, Lost, AtRisk, Disposed, Least
    <3> QED
      BY <2>2, <3>2, <3>4, CountOneMore
  <2>4. CASE ~\E e \in batch : InHandler(e)
    <3>1. pc' = "down"
      BY <1>14, <2>4 DEF Shutdown
    <3> QED
      BY <1>a, <1>f, <2>1, <2>2, <3>1
  <2> QED
    BY <2>3, <2>4
<1>15. CASE ReplyLost
  <2>1. Acked' \subseteq Acked
    <3>1. CASE \E n \in (lastId + 1)..Len(stream) : Deliver(n)
      BY <1>15, <3>1, Delivered DEF ReplyLost, Acked
    <3>2. CASE UNCHANGED <<lastId, pending>>
      BY <1>15, <3>2 DEF ReplyLost, Acked
    <3> QED BY <1>15, <3>1, <3>2 DEF ReplyLost
  <2>2. Faults' = Faults + 1
    BY <1>15, FaultsAreCounted DEF ReplyLost, FaultKinds
  <2> QED
    BY <1>15, <1>a, <1>f, <2>1, <2>2 DEF ReplyLost
<1>16. ASSUME NEW e \in Ids, AckReplyLost(e) PROVE Goal
  <2>1. /\ pc' \in {"tail", "dead", "down"} /\ Acked' \subseteq Acked \cup {e}
        /\ dlq' = dlq /\ done' = done
    BY <1>16 DEF AckReplyLost, AckRaises, Acked
  <2>2. Faults' = Faults + 1
    BY <1>16, FaultsAreCounted DEF AckReplyLost, FaultKinds
  <2>3. Doomed' \subseteq Doomed \cup {e}
    BY <2>1 DEF Doomed, Lost, AtRisk, Disposed
  <2> QED
    BY <2>1, <2>2, <2>3, CountOneMore
<1>17. CASE UNCHANGED vars
  <2>1. Faults' = Faults /\ Acked' = Acked
    BY <1>17 DEF vars, Faults, Acked
  <2> QED
    BY <1>17, <1>b, <1>f, <2>1 DEF vars
<1> QED
  BY <1>1, <1>2, <1>3, <1>4, <1>5, <1>6, <1>7, <1>8, <1>9, <1>10, <1>11, <1>12, <1>13,
     <1>14, <1>15, <1>16, <1>17 DEF Next, LoopStep, Handle

(* Whatever crashes, an entry is no longer pending only once it was ignored, *)
(* registered, left or dead-lettered (ingress.py `_process`, read_group and  *)
(* reclaim), but for one entry at most for each call that failed and each    *)
(* shutdown.                                                                 *)
THEOREM HandledFirst == Spec => []HandledBeforeAck
<1>1. Init => TypeOK /\ HeldOK /\ AckInv
  <2> SUFFICES ASSUME Init PROVE AckInv
    BY InitTypeOK DEF Init, HeldOK
  <2>1. Doomed = {} /\ Faults = 0 /\ pc = "down"
    BY DEF Init, Doomed, Lost, AtRisk, Acked, Faults, FaultKinds
  <2> QED
    BY <2>1, FS_EmptySet DEF AckInv
<1>2. TypeOK /\ HeldOK /\ AckInv /\ [Next]_vars => (TypeOK /\ HeldOK /\ AckInv)'
  BY StepTypeOK, StepHeldOK, StepAckInv
<1>3. TypeOK /\ AckInv => HandledBeforeAck
  <2> SUFFICES ASSUME TypeOK, AckInv PROVE HandledBeforeAck
    OBVIOUS
  <2>1. /\ Cardinality(Lost) <= Cardinality(Doomed)
        /\ Cardinality(Lost) \in Nat /\ Cardinality(Doomed) \in Nat
    BY DoomedFinite, FS_Subset, FS_CardinalityType DEF Doomed
  <2>2. Faults \in Int
    BY DEF TypeOK, Faults, FaultKinds
  <2> QED
    BY <2>1, <2>2 DEF AckInv, HandledBeforeAck, Faults
<1> QED
  BY <1>1, <1>2, <1>3, PTL DEF Spec

-----------------------------------------------------------------------------
(* If every request asks to replace, no half registration survives.  A       *)
(* handler that wrote the schedule goes on to the binding, and a replay that *)
(* finds the schedule writes it again.  (With replace = FALSE this fails:    *)
(* a replay leaves what it finds.)                                           *)
AllReplace == \A p \in Payloads : p.type = "request" => p.replace

Whole(e) == "schedule" \in done[e] => "binding" \in done[e]
Started(e) == e \in 1..Len(stream) /\ Req(e).type = "request"

RegInv ==
  /\ pc # "put"
  /\ \A e \in bad : e \in 1..Len(stream) /\ Unusable(e)
  /\ \A e \in Ids : "schedule" \in done[e] => Started(e)
  /\ Faultless({"failure", "shutdown"}) =>
       /\ \A e \in Acked : Whole(e)
       /\ pc = "ack" => \A e \in batch : Least(e, batch) => Whole(e)
       /\ pc # "lastAck"

LEMMA FaultsOnlyGrow ==
  TypeOK /\ [Next]_vars /\ Faultless({"failure", "shutdown"})' =>
    /\ Faultless({"failure", "shutdown"})
    /\ ~ScanFails /\ ~ReplyLost /\ ~Shutdown
    /\ \A e \in Ids : ~HandlerFails(e) /\ ~AckFails(e) /\ ~AckReplyLost(e)
<1> SUFFICES ASSUME TypeOK, [Next]_vars, spent'["failure"] = 0, spent'["shutdown"] = 0
             PROVE  /\ spent["failure"] = 0 /\ spent["shutdown"] = 0
                    /\ ~ScanFails /\ ~ReplyLost /\ ~Shutdown
                    /\ \A e \in Ids : ~HandlerFails(e) /\ ~AckFails(e) /\ ~AckReplyLost(e)
  BY DEF Faultless
<1>1. ASSUME NEW k \in FaultKinds, NEW max, Spend(k, max)
      PROVE  k \notin {"failure", "shutdown"} /\ \A j \in FaultKinds \ {k} : spent'[j] = spent[j]
  BY <1>1 DEF Spend, TypeOK, FaultKinds
<1>2. /\ ~ScanFails /\ ~ReplyLost /\ ~Shutdown
      /\ \A e \in Ids : ~HandlerFails(e) /\ ~AckFails(e) /\ ~AckReplyLost(e)
  BY <1>1 DEF ScanFails, ReplyLost, Shutdown, HandlerFails, AckFails, AckReplyLost, FaultKinds
<1>3. CASE \E max : Spend("crash", max) \/ Spend("trim", max)
  BY <1>3, <1>1, <1>2 DEF FaultKinds
<1>4. CASE spent' = spent
  BY <1>4, <1>2
<1> QED
  BY <1>2, <1>3, <1>4 DEF Next, LoopStep, Handle, Reclaim, Read, ScanPoison, ScanAck, ScanAcks,
     Ignore, Reject, Exists, PutSchedule, PutBinding, Ack, LastAck, Start, Crash, Trim,
     GrowIdle, Publish, ApiDelete, vars

LEMMA PublishKeeps ==
  ASSUME TypeOK, NEW p \in Payloads, stream' = Append(stream, p)
  PROVE  /\ 1..Len(stream) \subseteq 1..Len(stream')
         /\ \A e \in 1..Len(stream) : stream'[e] = stream[e]
  BY LenAppend DEF TypeOK

LEMMA StepUnusable ==
  TypeOK /\ RegInv /\ [Next]_vars => \A e \in bad' : e \in 1..Len(stream') /\ Unusable(e)'
<1> SUFFICES ASSUME TypeOK, RegInv, [Next]_vars, NEW e \in bad'
             PROVE  e \in 1..Len(stream') /\ Unusable(e)'
  OBVIOUS
<1> USE DEF groupVars, localVars, registryVars, RegInv, Unusable, Req
<1>1. CASE \E p \in Payloads : Publish(p)
  BY <1>1, PublishKeeps DEF Publish
<1>2. CASE Reclaim
  <2>1. stream' = stream /\ trimmed' = trimmed /\ e \in idle /\ Unusable(e)
    BY <1>2 DEF Reclaim, Receive
  <2>2. 1..lastId \subseteq 1..Len(stream)
    BY DEF TypeOK
  <2> QED
    BY <2>1, <2>2 DEF TypeOK
<1>3. CASE Read
  <2>1. PICK n \in (lastId + 1)..Len(stream) : Receive(Upto(n))
    BY <1>3 DEF Read
  <2>2. stream' = stream /\ trimmed' = trimmed /\ e \in (lastId + 1)..n /\ Unusable(e)
    BY <1>3, <2>1 DEF Read, Receive, Upto
  <2> QED
    BY <2>1, <2>2 DEF TypeOK
<1>4. CASE bad' \subseteq bad /\ trimmed \subseteq trimmed' /\ stream' = stream
  BY <1>4
<1> QED
  BY <1>1, <1>2, <1>3, <1>4 DEF Next, LoopStep, Handle, ScanPoison, ScanAck, ScanAcks, ScanFails,
     ReplyLost, Ignore, Reject, Exists, PutSchedule, PutBinding, HandlerFails, Ack, AckFails,
     AckReplyLost, LastAck, Shutdown, Start, Crash, Trim, GrowIdle, ApiDelete, Forget, vars

LEMMA StepStarted ==
  TypeOK /\ RegInv /\ [Next]_vars => \A e \in Ids : "schedule" \in done'[e] => Started(e)'
<1> SUFFICES ASSUME TypeOK, RegInv, [Next]_vars, NEW e \in Ids, "schedule" \in done'[e]
             PROVE  Started(e)'
  OBVIOUS
<1> USE DEF groupVars, localVars, registryVars, RegInv, Started, Req
<1>1. CASE \E p \in Payloads : Publish(p)
  BY <1>1, PublishKeeps DEF Publish
<1>2. ASSUME NEW f \in Ids, PutSchedule(f) PROVE Started(e)'
  <2>1. f \in batch /\ Req(f).type = "request" /\ stream' = stream
    BY <1>2 DEF PutSchedule, Handling, Least
  <2>2. 1..lastId \subseteq 1..Len(stream)
    BY DEF TypeOK
  <2>3. f \in 1..Len(stream)
    BY <2>1, <2>2 DEF TypeOK
  <2> QED
    BY <1>2, <2>1, <2>3 DEF PutSchedule, Record, TypeOK
<1>3. ASSUME NEW f \in Ids, Ignore(f) \/ Exists(f) \/ PutBinding(f) PROVE Started(e)'
  <2>1. stream' = stream /\ ("schedule" \in done[e])
    BY <1>3 DEF Ignore, Exists, PutBinding, Record, TypeOK
  <2> QED
    BY <2>1
<1>4. CASE done' = done /\ stream' = stream
  BY <1>4
<1> QED
  BY <1>1, <1>2, <1>3, <1>4 DEF Next, LoopStep, Handle, Reclaim, Read, ScanPoison,
     ScanAck, ScanFails, ReplyLost, Reject, HandlerFails, Ack, AckFails, AckReplyLost,
     LastAck, Shutdown, Start, Crash, Trim, GrowIdle, ApiDelete, vars

LEMMA NoAsking ==
  ASSUME AllReplace, TypeOK, NEW e \in Ids
  PROVE  ~Exists(e)
<1> SUFFICES ASSUME Exists(e) PROVE FALSE
  OBVIOUS
<1>1. e \in batch /\ Req(e).type = "request" /\ ~Req(e).replace
  BY DEF Exists, Handling, Least
<1>2. 1..lastId \subseteq 1..Len(stream)
  BY DEF TypeOK
<1>3. e \in 1..Len(stream)
  BY <1>1, <1>2 DEF TypeOK
<1>4. stream[e] \in Payloads
  BY <1>3 DEF TypeOK
<1> QED
  BY <1>1, <1>4 DEF AllReplace, Req

LEMMA RecordOther ==
  ASSUME done \in [Ids -> SUBSET Outcomes], NEW e \in Ids, NEW o, Record(e, o),
         o # "schedule"
  PROVE  \A f \in Ids : "schedule" \in done'[f] => "schedule" \in done[f]
<1> SUFFICES ASSUME NEW f \in Ids, "schedule" \in done'[f] PROVE "schedule" \in done[f]
  OBVIOUS
<1>1. done' = [done EXCEPT ![e] = @ \cup {o}]
  BY DEF Record
<1>2. CASE f = e
  BY <1>1, <1>2
<1>3. CASE f # e
  BY <1>1, <1>3
<1> QED
  BY <1>2, <1>3

LEMMA StepWhole ==
  AllReplace /\ TypeOK /\ HeldOK /\ RegInv /\ [Next]_vars => RegInv'
<1> SUFFICES ASSUME AllReplace, TypeOK, HeldOK, RegInv, [Next]_vars PROVE RegInv'
  OBVIOUS
<1>1. pc' # "put"
  BY NoAsking DEF RegInv, Next, LoopStep, Handle, Reclaim, Read, Receive, ScanPoison, ScanAck, ScanAcks,
     ScanFails, ReplyLost, Ignore, Reject, PutSchedule, PutBinding, HandlerFails, Ack, AckFails,
     AckRaises, AckReplyLost, LastAck, Shutdown, Start, Crash, Trim, GrowIdle, Publish, ApiDelete, ToAck, vars
<1>2. /\ \A e \in bad' : e \in 1..Len(stream') /\ Unusable(e)'
      /\ \A e \in Ids : "schedule" \in done'[e] => Started(e)'
  BY StepUnusable, StepStarted
<1> DEFINE Goal == /\ \A e \in Acked' : Whole(e)'
                   /\ pc' = "ack" => \A e \in batch' : Least(e, batch') => Whole(e)'
                   /\ pc' # "lastAck"
<1>3. ASSUME Faultless({"failure", "shutdown"})' PROVE Goal
  <2>a. /\ \A e \in Acked : Whole(e)
        /\ pc = "ack" => \A e \in batch : Least(e, batch) => Whole(e)
        /\ pc # "lastAck"
    BY <1>3, FaultsOnlyGrow DEF RegInv
  <2>b. /\ ~ScanFails /\ ~ReplyLost /\ ~Shutdown
        /\ \A e \in Ids : /\ ~HandlerFails(e) /\ ~AckFails(e) /\ ~AckReplyLost(e)
                           /\ ~LastAck(e) /\ ~Exists(e)
    BY <1>3, FaultsOnlyGrow, <2>a, NoAsking DEF LastAck, Handling
  <2>c. ASSUME done' = done, Acked' \subseteq Acked, pc' \notin {"ack", "lastAck"} PROVE Goal
    BY <2>a, <2>c DEF Whole
  <2> USE DEF groupVars, localVars, registryVars
  <2>1. CASE \/ Start \/ Crash \/ Reclaim \/ \E p \in Payloads : Publish(p)
             \/ \E e \in Ids : Trim(e) \/ GrowIdle(e) \/ ScanPoison(e)
             \/ \E s \in Schedules : ApiDelete(s)
    <3>1. Acked' \subseteq Acked /\ done' = done
      BY <2>1 DEF Start, Crash, Reclaim, Publish, Trim, GrowIdle, ScanPoison, ApiDelete, Acked
    <3>2. pc' \notin {"ack", "lastAck"} \/ (pc' = pc /\ batch' = batch)
      BY <2>1 DEF Start, Crash, Reclaim, Receive, Publish, Trim, GrowIdle, ScanPoison,
                  ApiDelete, Forget
    <3> QED
      BY <2>a, <3>1, <3>2 DEF Whole
  <2>2. CASE Read
    <3>1. PICK n \in (lastId + 1)..Len(stream) : Deliver(n) /\ Receive(Upto(n))
      BY <2>2 DEF Read
    <3>2. pc' \notin {"ack", "lastAck"} /\ done' = done
      BY <2>2, <3>1 DEF Read, Receive
    <3>3. Acked' \subseteq Acked
      BY <2>2, <3>1, Delivered DEF Read, Acked
    <3> QED
      BY <3>2, <3>3, <2>c
  <2>3. ASSUME NEW e \in Ids, ScanAck(e) PROVE Goal
    <3>1. /\ pc' \notin {"ack", "lastAck"} /\ done' = done /\ e \in bad
          /\ Acked' \subseteq Acked \cup {e} /\ trimmed' = trimmed
      BY <2>3 DEF ScanAck, ScanAcks, Acked, Least
    <3>2. e \in Acked' => Req(e).type = "poison"
      BY <3>1 DEF Acked, RegInv, Unusable
    <3>3. e \in Acked' => Whole(e)
      BY <3>2 DEF RegInv, Started, Whole
    <3> QED
      BY <2>a, <3>1, <3>3 DEF Whole
  <2>4. ASSUME NEW e \in Ids, Ignore(e) \/ Reject(e) \/ PutBinding(e) PROVE Goal
    <3>1. Acked' = Acked /\ batch' = batch /\ Least(e, batch) /\ pc' = "ack"
      BY <2>4 DEF Ignore, Reject, PutBinding, Acked, Handling, ToAck
    <3>2. \A f \in Acked : Whole(f) => Whole(f)'
      <4>1. Acked \subseteq Ids
        BY ConstantsAssumption DEF Acked, Ids, TypeOK
      <4>2. \A f \in Acked : done[f] \subseteq done'[f]
                            /\ ("schedule" \in done'[f] => "schedule" \in done[f])
        BY <2>4, <4>1, RecordAdds, RecordOther DEF Ignore, Reject, PutBinding, TypeOK
      <4> QED
        BY <4>2 DEF Whole
    <3>3. Whole(e)'
      BY <2>4 DEF Ignore, Reject, PutBinding, Record, Whole, RegInv, Started, TypeOK
    <3>4. \A f \in batch' : Least(f, batch') => f = e
      BY <3>1, OneLeast, HeldAreInts
    <3> QED
      BY <2>a, <3>1, <3>2, <3>3, <3>4
  <2>5. ASSUME NEW e \in Ids, PutSchedule(e) PROVE Goal
    <3>1. Acked' = Acked /\ pc' = "bind" /\ e \in pending
      BY <2>5 DEF PutSchedule, Acked, Handling, Least, TypeOK
    <3>2. \A f \in Acked : Whole(f) => Whole(f)'
      BY <2>5, <3>1, ConstantsAssumption DEF PutSchedule, Record, Whole, Acked, TypeOK, Ids
    <3> QED
      BY <2>a, <3>1, <3>2
  <2>6. ASSUME NEW e \in Ids, Ack(e) PROVE Goal
    <3>1. pc' \in {"handle", "tail"} /\ done' = done /\ Acked' \subseteq Acked \cup {e}
      BY <2>6 DEF Ack, Acked
    <3>2. Whole(e)
      BY <2>6, <2>a DEF Ack, Handling, Least
    <3> QED
      BY <2>a, <3>1, <3>2 DEF Whole
  <2>7. CASE UNCHANGED vars
    BY <2>7, <2>a DEF vars, Acked, Whole
  <2> QED
    BY <2>b, <2>1, <2>2, <2>3, <2>4, <2>5, <2>6, <2>7 DEF Next, LoopStep, Handle
<1> QED
  BY <1>1, <1>2, <1>3 DEF RegInv, Least

(* A request whose schedule was written and which is acked has its binding   *)
(* written too, through any number of crashes (ingress.py handle_request),   *)
(* if all requests replace and no call failed and no handler was cancelled.  *)
THEOREM RegistersWhole == AllReplace => (Spec => []NoHalfRegistration)
<1> SUFFICES ASSUME AllReplace PROVE Spec => []NoHalfRegistration
  OBVIOUS
<1>1. Init => TypeOK /\ HeldOK /\ RegInv
  BY InitTypeOK DEF Init, HeldOK, RegInv, Acked
<1>2. TypeOK /\ HeldOK /\ RegInv /\ [Next]_vars => (TypeOK /\ HeldOK /\ RegInv)'
  BY StepTypeOK, StepHeldOK, StepWhole
<1>3. RegInv => NoHalfRegistration
  BY DEF RegInv, NoHalfRegistration, Whole
<1> QED
  BY <1>1, <1>2, <1>3, PTL DEF Spec
-----------------------------------------------------------------------------
(* A batch is handled oldest first, and what is pending but not in hand is   *)
(* newer than all of it, unless it has been passed over: so nothing that was *)
(* registered is newer than anything still pending and not passed over.      *)
Hand == bad \cup batch

OrderOK ==
  /\ pc \notin {"scan", "scanAck"} => bad = {}
  /\ \A e \in pending \ passed : e \in Hand \/ \A f \in Hand : f < e
  /\ \A s \in Schedules : sched[s] <= lastId /\ \A e \in pending \ passed : sched[s] <= e

LEMMA ReceiveOrder ==
  ASSUME TypeOK, NEW S \in SUBSET Int, Receive(S), pending' \subseteq pending \cup S
  PROVE  /\ Hand' = S /\ passed \subseteq passed' /\ (pc' \notin {"scan", "scanAck"} => bad' = {})
         /\ \A e \in pending' \ passed' : e \in S \/ \A f \in S : f < e
<1>1. /\ Hand' = S /\ passed' = passed \cup {e \in pending \ S : \E f \in S : e < f}
      /\ pc' \notin {"scan", "scanAck"} => bad' = {}
  BY DEF Receive, Hand
<1>2. ASSUME NEW e \in pending' \ passed', e \notin S, NEW f \in S PROVE f < e
  <2>1. e \in Int /\ f \in Int /\ e # f /\ ~(e < f)
    BY <1>1, <1>2, PendingIds
  <2> QED BY <2>1
<1> QED BY <1>1, <1>2

(* The delivery a handler registers is older than all that is pending, but   *)
(* for what has been passed over.                                            *)
LEMMA RegistersOldest ==
  ASSUME TypeOK, OrderOK, NEW e \in Ids, PutSchedule(e)
  PROVE  /\ e \in pending /\ e \in Int /\ e <= lastId /\ \A f \in pending \ passed : e <= f
         /\ \A s \in Schedules : sched'[s] = IF s = Req(e).sch THEN e ELSE sched[s]
<1>1. Least(e, batch) /\ pc \in {"put", "handle"}
  BY DEF PutSchedule, Handling
<1>2. e \in pending /\ e \in Int /\ e <= lastId /\ bad = {} /\ \A f \in pending : f \in Int
  BY <1>1, PendingIds DEF Least, TypeOK, OrderOK
<1>3. ASSUME NEW f \in pending \ passed PROVE e <= f
  <2>1. f \in batch \/ e < f
    BY <1>1, <1>2 DEF OrderOK, Hand, Least
  <2> QED BY <1>1, <1>2, <2>1 DEF Least
<1>4. \A s \in Schedules : sched'[s] = IF s = Req(e).sch THEN e ELSE sched[s]
  BY DEF PutSchedule, TypeOK
<1> QED BY <1>2, <1>3, <1>4

LEMMA StepOrder == TypeOK /\ HeldOK /\ OrderOK /\ [Next]_vars => OrderOK'
<1> SUFFICES ASSUME TypeOK, HeldOK, OrderOK, [Next]_vars PROVE OrderOK'
  OBVIOUS
<1> USE DEF groupVars, localVars, registryVars
<1>a. lastId \in Int /\ \A s \in Schedules : sched[s] \in Nat
  BY DEF TypeOK, Versions
<1>1. CASE \/ UNCHANGED vars \/ (\E p \in Payloads : Publish(p)) \/ Start
           \/ \E e \in Ids : Trim(e) \/ GrowIdle(e)
  BY <1>1 DEF Publish, Trim, GrowIdle, Start, vars, OrderOK, Hand
<1>2. ASSUME NEW s \in Schedules, ApiDelete(s) PROVE OrderOK'
  <2>1. \A t \in Schedules : sched'[t] = IF t = s THEN 0 ELSE sched[t]
    BY <1>2 DEF ApiDelete, TypeOK
  <2>2. lastId \in Nat /\ \A e \in pending : e \in Nat
    BY DEF TypeOK
  <2>3. \A t \in Schedules : sched'[t] <= lastId /\ \A e \in pending \ passed : sched'[t] <= e
    BY <2>1, <2>2 DEF OrderOK
  <2> QED
    BY <1>2, <2>3 DEF ApiDelete, OrderOK, Hand
<1>3. CASE \/ Crash \/ ScanFails \/ (\E e \in Ids : AckFails(e))
           \/ (Shutdown /\ Forget /\ pc' = "down")
  BY <1>3 DEF Crash, ScanFails, AckFails, Shutdown, Forget, OrderOK, Hand
<1>4. CASE Shutdown /\ UNCHANGED localVars
  BY <1>4 DEF Shutdown, InHandler, Handling, Forget, OrderOK, Hand
<1>5. CASE Reclaim
  <2>1. PICK S \in SUBSET idle : Receive(S)
    BY <1>5 DEF Reclaim
  <2>2. /\ pending' = pending /\ sched' = sched /\ lastId' = lastId
        /\ S \in SUBSET Int
    BY <1>5, <2>1, PendingIds DEF Reclaim, TypeOK
  <2> QED
    BY <2>1, <2>2, ReceiveOrder DEF OrderOK
<1>6. CASE Read
  <2>1. PICK n \in (lastId + 1)..Len(stream) : Deliver(n) /\ Receive(Upto(n))
    BY <1>6 DEF Read
  <2>2. /\ pending' = pending \cup Upto(n) /\ sched' = sched /\ lastId < lastId'
        /\ lastId' \in Int /\ \A e \in Upto(n) : e \in Int /\ lastId < e
    BY <1>6, <2>1, Delivered DEF Read
  <2>3. /\ Hand' = Upto(n) /\ passed \subseteq passed'
        /\ pc' \notin {"scan", "scanAck"} => bad' = {}
        /\ \A e \in pending' \ passed' : e \in Upto(n) \/ \A f \in Upto(n) : f < e
    BY <2>1, <2>2, ReceiveOrder
  <2>4. ASSUME NEW s \in Schedules
        PROVE  sched'[s] <= lastId' /\ \A e \in pending' \ passed' : sched'[s] <= e
    <3>1. sched[s] \in Int /\ sched[s] <= lastId /\ \A e \in pending \ passed : sched[s] <= e
      BY <1>a DEF OrderOK
    <3>2. \A e \in Upto(n) : sched[s] <= e
      BY <1>a, <2>2, <3>1
    <3> QED BY <1>a, <2>2, <2>3, <3>1, <3>2
  <2> QED
    BY <2>3, <2>4 DEF OrderOK
<1>7. CASE ReplyLost
  <2>1. CASE UNCHANGED <<lastId, pending>>
    BY <1>7, <2>1 DEF ReplyLost, Forget, OrderOK, Hand
  <2>2. ASSUME NEW n \in (lastId + 1)..Len(stream), Deliver(n) PROVE OrderOK'
    <3>1. /\ pending' = pending \cup Upto(n) /\ lastId < lastId' /\ lastId' \in Int
          /\ \A e \in Upto(n) : e \in Int /\ lastId < e
      BY <2>2, Delivered
    <3>2. /\ sched' = sched /\ passed' = passed /\ Hand' = {} /\ bad' = {}
      BY <1>7 DEF ReplyLost, Forget, Hand
    <3>3. ASSUME NEW s \in Schedules
          PROVE  sched'[s] <= lastId' /\ \A e \in pending' \ passed' : sched'[s] <= e
      <4>1. sched[s] \in Int /\ sched[s] <= lastId /\ \A e \in pending \ passed : sched[s] <= e
        BY <1>a DEF OrderOK
      <4>2. \A e \in Upto(n) : sched[s] <= e
        BY <1>a, <3>1, <4>1
      <4> QED BY <1>a, <3>1, <3>2, <4>1, <4>2
    <3> QED BY <3>2, <3>3 DEF OrderOK
  <2> QED BY <1>7, <2>1, <2>2 DEF ReplyLost
<1>8. ASSUME NEW e \in Ids, \/ ScanPoison(e) \/ Ignore(e) \/ Reject(e) \/ Exists(e)
                            \/ PutBinding(e) \/ HandlerFails(e)
      PROVE  OrderOK'
  BY <1>8 DEF ScanPoison, Ignore, Reject, Exists, PutBinding, HandlerFails, InHandler, Handling,
              ToAck, OrderOK, Hand
<1>9. ASSUME NEW e \in Ids, ScanAck(e) \/ Ack(e) \/ LastAck(e) \/ AckReplyLost(e)
      PROVE  OrderOK'
  <2>1. /\ pending' = pending \ {e} /\ sched' = sched /\ lastId' = lastId /\ passed' = passed
        /\ (Hand' = Hand \ {e} \/ Hand' = {})
    BY <1>9 DEF ScanAck, ScanAcks, Ack, LastAck, AckReplyLost, Handling, Least, Forget,
                HeldOK, Hand
  <2>2. pc' \notin {"scan", "scanAck"} => bad' = {}
    BY <1>9 DEF ScanAck, ScanAcks, Ack, LastAck, AckReplyLost, Handling, Least, Forget,
                OrderOK
  <2> QED BY <2>1, <2>2 DEF OrderOK
<1>10. ASSUME NEW e \in Ids, PutSchedule(e) PROVE OrderOK'
  <2>1. \A s \in Schedules : sched'[s] <= lastId /\ \A f \in pending \ passed : sched'[s] <= f
    BY <1>10, RegistersOldest DEF OrderOK
  <2> QED
    BY <1>10, <2>1 DEF PutSchedule, Handling, OrderOK, Hand
<1> QED
  BY <1>1, <1>2, <1>3, <1>4, <1>5, <1>6, <1>7, <1>8, <1>9, <1>10
     DEF Next, LoopStep, Handle, Shutdown

(* However a run fails, and however soon the process is back: a request      *)
(* replaces what a newer one registered only if it was left pending when the *)
(* task took newer entries.  Within a batch, across a crash and across a     *)
(* claim, requests take effect in the order of the stream (reclaim,          *)
(* read_group, _process).                                                    *)
THEOREM OnlyPassed == Spec => OnlyPassedOverwrite
<1> DEFINE A == \A s \in Schedules : sched'[s] # sched[s] =>
                  sched'[s] = 0 \/ sched'[s] > sched[s] \/ sched'[s] \in passed
           Inv == TypeOK /\ HeldOK /\ OrderOK
<1> SUFFICES Spec => [][A]_sched
  BY DEF OnlyPassedOverwrite
<1>1. Init => Inv
  <2> SUFFICES ASSUME Init PROVE OrderOK
    BY InitTypeOK DEF Init, HeldOK
  <2> QED
    BY DEF Init, OrderOK
<1>2. Inv /\ [Next]_vars => Inv'
  BY StepTypeOK, StepHeldOK, StepOrder
<1>3. Inv /\ [Next]_vars => [A]_sched
  <2> SUFFICES ASSUME Inv, Next, NEW s \in Schedules, sched'[s] # sched[s]
               PROVE  sched'[s] = 0 \/ sched'[s] > sched[s] \/ sched'[s] \in passed
    BY DEF vars
  <2>1. ASSUME NEW e \in Ids, PutSchedule(e), e \notin passed PROVE sched'[s] > sched[s]
    <3>1. sched'[s] = e /\ e \in Int /\ sched[s] \in Int /\ sched[s] <= e
      BY <2>1, RegistersOldest DEF OrderOK, TypeOK, Versions
    <3> QED BY <3>1
  <2>2. ASSUME NEW e \in Ids, PutSchedule(e), e \in passed PROVE sched'[s] \in passed
    BY <2>2, RegistersOldest
  <2>3. ASSUME NEW t \in Schedules, ApiDelete(t) PROVE sched'[s] = 0
    BY <2>3 DEF ApiDelete, TypeOK
  <2> QED
    BY <2>1, <2>2, <2>3 DEF Next, LoopStep, Handle, Reclaim, Read, ReplyLost, ScanPoison,
       ScanAck, ScanFails, Ignore, Reject, Exists, PutBinding, HandlerFails, Ack, AckFails,
       AckReplyLost, LastAck, Shutdown, Start, Crash, Trim, GrowIdle, Publish, registryVars
<1> QED
  BY <1>1, <1>2, <1>3, PTL DEF Spec
=============================================================================
