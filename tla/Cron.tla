-------------------------------- MODULE Cron --------------------------------
(***************************************************************************)
(* Scheduled prompts: cron.yaml and the commands that edit it, the daemon  *)
(* (merlion-cron/scheduler.rs: a sleeper per job, a bounded queue, one     *)
(* runner) and what run_job and deliver_cron_result (main.rs) do with a    *)
(* job.                                                                    *)
(*                                                                         *)
(* Time is discrete. A step of a task that need not wait takes no time, so *)
(* that a Tick waits for the tasks that can go on.                         *)
(***************************************************************************)
EXTENDS Naturals, Sequences, FiniteSets

CONSTANTS
    Jobs,       \* names
    Specs,      \* records [times, valid, enabled, to] a file may hold for a name
    Files,      \* the files the daemon may find, functions from names to Specs
    QueueSize,  \* 32 in the program
    Horizon,
    MaxChanges  \* edits, deaths of the daemon, corrections of the clock

Registries == UNION {[names -> Specs] : names \in SUBSET Jobs}

ASSUME CronAssumption ==
    /\ Specs \subseteq [times : SUBSET (1..Horizon), valid : BOOLEAN, enabled : BOOLEAN,
                        to : {"cli", "telegram", "discord", "elsewhere"}]
    /\ Files \subseteq Registries
    /\ QueueSize \in Nat \ {0} /\ Horizon \in Nat /\ MaxChanges \in Nat

VARIABLES
    file,       \* cron.yaml
    now,        \* the wall clock
    daemon,     \* "down" | "up"
    registry,   \* the daemon's copy of the file
    sleeper,    \* [at, next, left] of each job
    queue,      \* <<job, fire time>>; the time is not in the program
    runner,     \* <<>> or the entry at work and the phase of its run
    changes,
    \* history
    setBack,    \* the clock was set back under this daemon
    jumped,     \* it was set forward, or the machine was suspended
    since,      \* when the daemon was started
    fires,      \* how often a fire time of a job was queued
    late,       \* fire times that passed while the sleeper waited for the queue
    skipped,    \* and those that passed while it slept for an earlier one
    reported    \* runs whose reply was sent or printed

cronVars == <<file, now, daemon, registry, sleeper, queue, runner, changes, setBack, jumped,
              since, fires, late, skipped, reported>>

Off == [at |-> "ended", next |-> 0, left |-> 0]
NoFires == [j \in Jobs |-> [t \in 1..Horizon |-> 0]]
ComingUp(j) == {t \in registry[j].times : t > now}
Earliest(s) == CHOOSE t \in s : \A u \in s : t <= u

(***************************************************************************)
(* merlion cron add, remove                                                *)
(***************************************************************************)
Edited == changes < MaxChanges /\ changes' = changes + 1

Add(j, spec) ==
    /\ spec.valid /\ spec.enabled
    /\ Edited
    /\ file' = [i \in DOMAIN file \cup {j} |-> IF i = j THEN spec ELSE file[i]]
    /\ UNCHANGED <<now, daemon, registry, sleeper, queue, runner, setBack, jumped, since,
                   fires, late, skipped, reported>>
RemoveJob(j) ==
    /\ j \in DOMAIN file
    /\ Edited
    /\ file' = [i \in DOMAIN file \ {j} |-> file[i]]
    /\ UNCHANGED <<now, daemon, registry, sleeper, queue, runner, setBack, jumped, since,
                   fires, late, skipped, reported>>

(***************************************************************************)
(* The daemon                                                              *)
(***************************************************************************)
(* A task per enabled job; a schedule that does not parse ends its task.   *)
Sleepers(f) ==
    [j \in Jobs |-> IF j \in DOMAIN f /\ f[j].enabled /\ f[j].valid
                    THEN [at |-> "awake", next |-> 0, left |-> 0] ELSE Off]

Start ==
    /\ daemon = "down"
    /\ daemon' = "up" /\ registry' = file
    /\ sleeper' = Sleepers(file)
    /\ queue' = <<>> /\ runner' = <<>>
    /\ since' = now
    /\ fires' = NoFires
    /\ late' = [j \in Jobs |-> {}] /\ skipped' = [j \in Jobs |-> {}]
    /\ reported' = {} /\ setBack' = FALSE /\ jumped' = FALSE
    /\ UNCHANGED <<file, now, changes>>

Kill ==
    /\ daemon = "up" /\ changes < MaxChanges /\ changes' = changes + 1
    /\ daemon' = "down"
    /\ sleeper' = [j \in Jobs |-> Off]
    /\ queue' = <<>> /\ runner' = <<>>
    /\ fires' = NoFires /\ reported' = {}
    /\ late' = [j \in Jobs |-> {}] /\ skipped' = [j \in Jobs |-> {}]
    /\ UNCHANGED <<file, now, registry, setBack, jumped, since>>

(* The next fire time strictly after now; none ends the task.              *)
FallAsleep(j) ==
    /\ sleeper[j].at = "awake"
    /\ sleeper' = [sleeper EXCEPT ![j] =
          IF ComingUp(j) = {} THEN Off
          ELSE LET t == Earliest(ComingUp(j)) IN
               [at |-> "asleep", next |-> t, left |-> t - now]]
    /\ UNCHANGED <<file, now, daemon, registry, queue, runner, changes, setBack, jumped, since,
                   fires, late, skipped, reported>>

WakeUp(j) ==
    /\ sleeper[j].at = "asleep" /\ sleeper[j].left = 0
    /\ sleeper' = [sleeper EXCEPT ![j].at = "sending"]
    /\ UNCHANGED <<file, now, daemon, registry, queue, runner, changes, setBack, jumped, since,
                   fires, late, skipped, reported>>

Enqueue_OrDrop(j) ==
    /\ sleeper[j].at = "sending"
    /\ queue' = IF Len(queue) < QueueSize THEN Append(queue, <<j, sleeper[j].next>>) ELSE queue
    /\ fires' = IF Len(queue) < QueueSize
                THEN [fires EXCEPT ![j][sleeper[j].next] = @ + 1] ELSE fires
    /\ sleeper' = [sleeper EXCEPT ![j].at = "awake"]
    /\ UNCHANGED <<file, now, daemon, registry, runner, changes, setBack, jumped, since, late,
                   skipped, reported>>
Enqueue(j) ==
    /\ sleeper[j].at = "sending" /\ Len(queue) < QueueSize
    /\ queue' = Append(queue, <<j, sleeper[j].next>>)
    /\ fires' = [fires EXCEPT ![j][sleeper[j].next] = @ + 1]
    /\ sleeper' = [sleeper EXCEPT ![j].at = "awake"]
    /\ UNCHANGED <<file, now, daemon, registry, runner, changes, setBack, jumped, since, late,
                   skipped, reported>>

(***************************************************************************)
(* One run after the other: the agent, then the delivery                   *)
(***************************************************************************)
Take ==
    /\ daemon = "up" /\ runner = <<>> /\ queue # <<>>
    /\ runner' = <<Head(queue), "agent">> /\ queue' = Tail(queue)
    /\ UNCHANGED <<file, now, daemon, registry, sleeper, changes, setBack, jumped, since, fires,
                   late, skipped, reported>>

(* It ends with a text or without, also after an error or a panic.         *)
AgentEnds ==
    /\ runner # <<>> /\ runner[2] = "agent"
    /\ runner' = <<runner[1], "deliver">>
    /\ UNCHANGED <<file, now, daemon, registry, sleeper, queue, changes, setBack, jumped, since,
                   fires, late, skipped, reported>>

(* Whether the destination takes the reply: a terminal never (it is printed*)
(* by the caller), a messenger if its token is set and its API agrees.     *)
Delivers(to) == IF to \in {"telegram", "discord"} THEN BOOLEAN ELSE {FALSE}

(* What no destination took is printed.                                    *)
Deliver_OnlyIfSent ==
    /\ runner # <<>> /\ runner[2] = "deliver"
    /\ \E sent \in Delivers(registry[runner[1][1]].to) :
         reported' = IF sent THEN reported \cup {<<runner[1], "sent">>} ELSE reported
    /\ runner' = <<>>
    /\ UNCHANGED <<file, now, daemon, registry, sleeper, queue, changes, setBack, jumped, since,
                   fires, late, skipped>>
Deliver ==
    /\ runner # <<>> /\ runner[2] = "deliver"
    /\ \E sent \in Delivers(registry[runner[1][1]].to) :
         reported' = reported \cup {<<runner[1], IF sent THEN "sent" ELSE "printed">>}
    /\ runner' = <<>>
    /\ UNCHANGED <<file, now, daemon, registry, sleeper, queue, changes, setBack, jumped, since,
                   fires, late, skipped>>

(* All sleepers have ended and the queue is drained.                       *)
Return ==
    /\ daemon = "up" /\ queue = <<>> /\ runner = <<>>
    /\ \A j \in Jobs : sleeper[j].at = "ended"
    /\ daemon' = "down"
    /\ UNCHANGED <<file, now, registry, sleeper, queue, runner, changes, setBack, jumped, since,
                   fires, late, skipped, reported>>

(***************************************************************************)
(* Time: sleeps are measured by a clock of their own, which stands still   *)
(* while the machine is suspended, and fire times by the wall clock, which *)
(* may also be set back or forward.                                        *)
(***************************************************************************)
Waits(j) ==
    \/ sleeper[j].at = "ended"
    \/ sleeper[j].at = "asleep" /\ sleeper[j].left > 0
    \/ sleeper[j].at = "sending" /\ Len(queue) = QueueSize
Passed(j) == {t \in registry[j].times : now < t /\ t <= now'}

(* At the Horizon no fire time is left, and the wall clock may as well     *)
(* stand still for those who sleep on.                                     *)
Tick ==
    /\ now < Horizon \/ \E j \in Jobs : sleeper[j].at = "asleep"
    /\ \A j \in Jobs : Waits(j)
    /\ now' = IF now < Horizon THEN now + 1 ELSE now
    /\ sleeper' = [j \in Jobs |-> IF sleeper[j].at = "asleep"
                                  THEN [sleeper[j] EXCEPT !.left = @ - 1] ELSE sleeper[j]]
    /\ late' = [j \in Jobs |-> IF sleeper[j].at = "sending"
                               THEN late[j] \cup Passed(j) ELSE late[j]]
    /\ skipped' = [j \in Jobs |-> IF sleeper[j].at = "asleep"
                                  THEN skipped[j] \cup {t \in Passed(j) : t > sleeper[j].next}
                                  ELSE skipped[j]]
    /\ UNCHANGED <<file, daemon, registry, queue, runner, changes, setBack, jumped, since, fires,
                   reported>>
Adjusted == daemon = "up" /\ changes < MaxChanges /\ changes' = changes + 1
SetBack ==
    /\ Adjusted
    /\ now > 0 /\ now' = now - 1 /\ setBack' = TRUE
    /\ UNCHANGED <<file, daemon, registry, sleeper, queue, runner, jumped, since, fires,
                   late, skipped, reported>>
SetForward ==
    /\ Adjusted
    /\ now' \in (now + 1)..Horizon /\ jumped' = TRUE
    /\ skipped' = [j \in Jobs |->
          IF sleeper[j].at = "ended" THEN skipped[j]
          ELSE skipped[j] \cup {t \in Passed(j) : sleeper[j].at = "asleep" => t > sleeper[j].next}]
    /\ UNCHANGED <<file, daemon, registry, sleeper, queue, runner, setBack, since, fires,
                   late, reported>>

CronInit ==
    /\ file \in Files /\ now = 0 /\ daemon = "down" /\ registry = file
    /\ sleeper = [j \in Jobs |-> Off] /\ queue = <<>> /\ runner = <<>>
    /\ changes = 0 /\ setBack = FALSE /\ jumped = FALSE /\ since = 0
    /\ fires = NoFires
    /\ late = [j \in Jobs |-> {}] /\ skipped = [j \in Jobs |-> {}] /\ reported = {}

CronNext ==
    \/ \E j \in Jobs : \/ RemoveJob(j) \/ \E spec \in Specs : Add(j, spec)
                       \/ FallAsleep(j) \/ WakeUp(j) \/ Enqueue(j)
    \/ Start \/ Kill \/ Take \/ AgentEnds \/ Deliver \/ Return
    \/ Tick \/ SetBack \/ SetForward

(* Tasks are polled; an agent's run ends, and so does the POST of a        *)
(* delivery, which has no timeout in main.rs. Time need not pass.          *)
CronFairness ==
    /\ \A j \in Jobs : WF_cronVars(FallAsleep(j)) /\ WF_cronVars(WakeUp(j)) /\ WF_cronVars(Enqueue(j))
    /\ WF_cronVars(Take) /\ WF_cronVars(AgentEnds) /\ WF_cronVars(Deliver) /\ WF_cronVars(Return)

CronSpec == CronInit /\ [][CronNext]_cronVars /\ CronFairness

(***************************************************************************)
(* Properties                                                              *)
(***************************************************************************)
CronTypes ==
    /\ file \in Registries /\ registry \in Registries
    /\ now \in 0..Horizon /\ daemon \in {"down", "up"}
    /\ sleeper \in [Jobs -> [at : {"ended", "awake", "asleep", "sending"},
                             next : 0..Horizon, left : 0..Horizon]]
    /\ queue \in Seq(Jobs \X (1..Horizon)) /\ Len(queue) <= QueueSize
    /\ runner = <<>> \/ runner \in (Jobs \X (1..Horizon)) \X {"agent", "deliver"}
    /\ fires \in [Jobs -> [1..Horizon -> Nat]] /\ late \in [Jobs -> SUBSET (1..Horizon)]
    /\ skipped \in [Jobs -> SUBSET (1..Horizon)]
    /\ since \in 0..Horizon /\ setBack \in BOOLEAN /\ jumped \in BOOLEAN

(* What the daemon runs was enabled when it copied the registry, is due by *)
(* that copy, and is run once per fire time (run_job_forever asks for a    *)
(* time strictly after now), unless the clock was set back meanwhile.      *)
RunsAreDue ==
    \A j \in Jobs, t \in 1..Horizon :
        fires[j][t] > 0 =>
            /\ registry[j].enabled /\ t \in registry[j].times
            /\ ~setBack => fires[j][t] = 1 /\ t > since /\ t <= now

(* A fire time that passed while the daemon was up has been queued or is   *)
(* being queued, or waited for by a task that woke up too late; it is lost *)
(* only while the job's task waits for room in the queue, or if the wall   *)
(* clock ran ahead of the sleeps: then a task is late for one fire time    *)
(* and passes over those that follow before it wakes.                      *)
MissedOnlyWhenBlocked ==
    daemon = "up" /\ ~setBack =>
        \A j \in Jobs : j \in DOMAIN registry /\ registry[j].enabled /\ registry[j].valid =>
            \A t \in registry[j].times :
                since < t /\ t <= now =>
                    \/ fires[j][t] > 0 \/ t \in late[j]
                    \/ jumped /\ t \in skipped[j]
                    \/ sleeper[j].at \in {"asleep", "sending"} /\ sleeper[j].next = t

(* The schedule is kept: nothing runs that is not due, and what is due is  *)
(* lost only to a full queue or to a clock that was set forward under a    *)
(* sleeping task: the two parts above.                                     *)
ScheduleIsKept == RunsAreDue /\ MissedOnlyWhenBlocked

(* Every fire time that was queued is reported, to its destination or on   *)
(* the terminal (main.rs: "Fall back to stdout if delivery failed"), unless*)
(* the daemon is killed.                                                   *)
QueuedIsReported ==
    \A j \in Jobs, t \in 1..Horizon :
        (fires[j][t] > 0) ~> \/ \E how \in {"sent", "printed"} : <<<<j, t>>, how>> \in reported
                             \/ daemon = "down"
=============================================================================
