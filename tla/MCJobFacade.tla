---------------------------- MODULE MCJobFacade ----------------------------
(* Instances of JobFacade for TLC: which requests arrive.                    *)
EXTENDS JobFacade

CONSTANT c1  \* the admin

NoParts == [p \in Parts |-> 0]
HalfMinute == [cron |-> "none", dated |-> FALSE,
               parts |-> [NoParts EXCEPT !["minutes"] = 1, !["seconds"] = -30]]
Zero == [HalfMinute EXCEPT !.parts = NoParts]

\* Interval jobs; a PATCH of a trigger, a good one and none, and of half of one.
Create(i, p, a) == [op |-> "create", id |-> i,
                    new |-> [paused |-> p, type |-> "interval", args |-> a]]
Update(i, t, a) == [op |-> "update", id |-> i, type |-> t, args |-> a]
Plain(i) == {Create(i, FALSE, HalfMinute)}
            \cup [op : {"pause", "resume", "delete"}, id : {i}]
Updates(i) == {Update(i, "interval", a) : a \in {HalfMinute, Zero}} \cup {Update(i, "cron", Keep)}
Migrations == [op : {"migrate"}, drop : BOOLEAN]

\* An admin's requests beside another's pauses and migrations, or one admin's alone.
Admin == UNION {Plain(i) \cup Updates(i) : i \in Ids} \cup Migrations
Contended ==
  [c \in Clients |-> IF c = c1 THEN Admin ELSE Migrations \cup [op : {"pause"}, id : Ids]]
Beside ==
  [c \in Clients |-> IF c = c1 THEN UNION {Plain(i) : i \in Ids} ELSE Migrations]
KeepJobs == [c \in Clients |-> UNION {Plain(i) : i \in Ids} \cup [op : {"migrate"}, drop : {FALSE}]]
=============================================================================
