------------------------------- MODULE MCCron -------------------------------
(* Small instance of Cron: a job at every tick and one now and then, a     *)
(* disabled and an unreadable one, a queue of one.                         *)
EXTENDS Cron, TLC

CONSTANTS often, seldom
Job(ts, v, e, d) == [times |-> ts, valid |-> v, enabled |-> e, to |-> d]
Every == Job({1, 2, 3}, TRUE, TRUE, "elsewhere")
Twice == Job({1, 3}, TRUE, TRUE, "telegram")
Disabled == Job({1, 2}, TRUE, FALSE, "discord")
Broken == Job({1}, FALSE, TRUE, "cli")
MCSpecs == {Every, Twice, Disabled, Broken}
MCFiles == {(often :> Every) @@ (seldom :> Twice), (often :> Broken) @@ (seldom :> Disabled),
            <<>>}
=============================================================================
