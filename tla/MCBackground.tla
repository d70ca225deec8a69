---------------------------- MODULE MCBackground ----------------------------
(* The cron daemon, and the request to the providers that each of its runs *)
(* (and every other run of the agent) makes. The two models share nothing, *)
(* so one run checks both: a behaviour is of one of them, while the daemon *)
(* is never started, or after a request that was refused.                  *)
EXTENDS MCLlmStream, MCCron

VARIABLE subject   \* whose behaviour it is

BackgroundInit ==
    /\ Init /\ CronInit
    /\ \/ subject = "request" /\ file = <<>>
       \/ subject = "cron"

BackgroundNext ==
    /\ UNCHANGED subject
    /\ \/ subject = "request" /\ Next /\ UNCHANGED cronVars
       \/ subject = "cron" /\ Refused /\ phase' = "failed" /\ UNCHANGED cronVars
       \/ subject = "cron" /\ phase = "failed" /\ CronNext /\ UNCHANGED vars

(* Nothing of a daemon that is not started is enabled, and a request that  *)
(* was refused has ended: the fairness is that of both.                    *)
BackgroundSpec ==
    /\ BackgroundInit /\ [][BackgroundNext]_<<subject, vars, cronVars>>
    /\ CronFairness /\ WF_vars(Asking \/ Receiving)
=============================================================================
