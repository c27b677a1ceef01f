------------------------------ MODULE Triggers ------------------------------
(* What the API accepts as a trigger (validate_trigger) and what the schedule*)
(* source can hand to Taskiq (_scheduled_task), models.py.  A trigger is a   *)
(* type and a bag of arguments of every type; the API takes the two together *)
(* and keeps the arguments of the other types, unused.                       *)
EXTENDS Integers

Types == {"cron", "interval", "date"}  \* TriggerType
Parts == {"weeks", "days", "hours", "minutes", "seconds"}

SecondsIn == [weeks |-> 604800, days |-> 86400, hours |-> 3600,
              minutes |-> 60, seconds |-> 1]

(* A cron expression croniter rejects is garbled; parts not given count as 0.*)
Args == [cron : {"none", "good", "garbled"}, dated : BOOLEAN, parts : [Parts -> Int]]

IntervalSeconds(a) ==
  SecondsIn["weeks"] * a.parts["weeks"] + SecondsIn["days"] * a.parts["days"]
  + SecondsIn["hours"] * a.parts["hours"] + SecondsIn["minutes"] * a.parts["minutes"]
  + SecondsIn["seconds"] * a.parts["seconds"]

Valid(type, a) ==
  \/ type = "cron" /\ a.cron = "good"
  \/ type = "interval" /\ IntervalSeconds(a) >= 1
  \/ type = "date" /\ a.dated

(* A ScheduledTask needs its cron, interval or time; it does not parse a cron.*)
Schedulable(type, a) ==
  \/ type = "cron" /\ a.cron # "none"
  \/ type = "interval" /\ IntervalSeconds(a) >= 1
  \/ type = "date" /\ a.dated
=============================================================================
