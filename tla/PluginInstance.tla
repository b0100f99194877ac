--------------------------- MODULE PluginInstance ---------------------------
(***************************************************************************)
(* The life of one plugin: `Instance` of plugin_runtime/instance.rs and    *)
(* the calls of plugin_runtime/mod.rs that start and stop it.  Starts and  *)
(* stops hold the lock `transition`; the threads that watch the process do *)
(* not: its output reader, the thread that waits for its exit and the      *)
(* timer of its handshake read the token and the status, and act on them   *)
(* some steps later.  A step here is one access to a shared atomic or one  *)
(* critical section.  A process goes by the run token it was started       *)
(* under; pids are never reused.                                           *)
(***************************************************************************)
EXTENDS Integers

CONSTANTS Calls,       \* tool calls of the assistant
          CrashLimit,  \* CRASH_LIMIT: crashes in the window that break the circuit
          MaxGen,      \* bound on starts and stops
          MaxTokens    \* bound on the tokens a start may take

ASSUME LimitsAssumption ==
  CrashLimit \in Nat \ {0} /\ MaxGen \in Nat /\ MaxTokens \in Nat

VARIABLES
  status,      \* what the settings page shows
  pid,         \* the process the host believes in, 0 for none
  runToken,    \* run_token: the current session
  generation,  \* starts and stops so far
  active,      \* session_active
  handshaken,  \* the current start has seen `initialize`
  crashes,     \* crash_times within the window
  held,        \* sessions with children, shortcuts, contributions or a region
  calls,       \* tool calls that wait for the plugin's answer
  process,     \* each session's process: "none", "alive" or "dead"
  step,        \* where each thread stands
  starting,    \* the token of the start that holds `transition`
  backoffs,    \* generations that sleeping restart threads captured
  wanted,      \* history: the user's last word was a start
  greeted,     \* history: sessions whose own process said `initialize`
  late         \* history: a watching thread overlapped a start or a stop

atomics == <<status, pid, runToken, generation, active, handshaken, crashes>>
tables  == <<held, calls, process>>
history == <<wanted, greeted, late>>
vars    == <<atomics, tables, step, starting, backoffs, history>>

Statuses == {"stopped", "running", "restarting", "broken", "failed"}
Tokens   == 1..MaxTokens

(* Owner is whoever holds `transition`; the other threads belong to a      *)
(* session.                                                                *)
Owner   == <<"owner", 0>>
Reader(t) == <<"reader", t>>
Keeper(t) == <<"keeper", t>>
Dog(t)    == <<"dog", t>>
Watchers == {"reader", "keeper", "dog"} \X Tokens
Threads  == {Owner} \cup Watchers

FailSteps == {"failEnd", "failMark", "failToken", "kill", "release"}
ExitSteps == {"exitPid", "exitEnd", "exitToken", "exitRelease", "exitCount", "exitArm"}
StopSteps == {"stopEnd", "stopToken", "kill", "release", "stopDone"}
Steps == FailSteps \cup ExitSteps \cup StopSteps
           \cup {"none", "idle", "done", "ask", "shake", "region"}
           \cup {"spawn", "notePid", "activate", "announce"}

Goto(th, s) == step' = [step EXCEPT ![th] = s]
Free == step[Owner] = "idle"
Midway == \E th \in Watchers : step[th] \in FailSteps \cup ExitSteps

-----------------------------------------------------------------------------
Init ==
  /\ status = "stopped" /\ pid = 0 /\ runToken = 0 /\ generation = 0
  /\ active = FALSE /\ handshaken = FALSE /\ crashes = 0
  /\ held = {} /\ calls = {} /\ process = [t \in Tokens |-> "none"]
  /\ step = [th \in Threads |-> IF th = Owner THEN "idle" ELSE "none"]
  /\ starting = 0 /\ backoffs = {}
  /\ wanted = FALSE /\ greeted = {} /\ late = FALSE

-----------------------------------------------------------------------------
(* Starts and stops, one at a time under `transition`.                     *)

(* Taking the lock: the generation moves on whatever comes of it.          *)
Take ==
  /\ Free /\ generation < MaxGen
  /\ generation' = generation + 1
  /\ late' = (late \/ Midway)

(* Mutant of StartInner: it does not look whether the plugin runs.         *)
StartInnerTwice ==
  /\ runToken < MaxTokens
  /\ runToken' = runToken + 1 /\ starting' = runToken + 1
  /\ handshaken' = FALSE
  /\ Goto(Owner, "spawn")

(* Mutant of StartInner: the handshake of the session before stays.        *)
StartInnerKeeping ==
  IF status = "running"
    THEN UNCHANGED <<runToken, handshaken, starting, step>>
    ELSE /\ runToken < MaxTokens
         /\ runToken' = runToken + 1 /\ starting' = runToken + 1
         /\ UNCHANGED handshaken
         /\ Goto(Owner, "spawn")

(* start_inner up to the spawn: a running plugin is left alone, any other  *)
(* gets a fresh token.                                                     *)
StartInner ==
  IF status = "running"
    THEN UNCHANGED <<runToken, handshaken, starting, step>>
    ELSE /\ runToken < MaxTokens
         /\ runToken' = runToken + 1 /\ starting' = runToken + 1
         /\ handshaken' = FALSE
         /\ Goto(Owner, "spawn")

(* set_enabled(true) and retry, which also forgets earlier crashes.  (It   *)
(* does so before it takes the lock; a crash counted between is one that   *)
(* ExitCount counts alone, before a start that is no retry.)               *)
Start(retry) ==
  /\ Take /\ StartInner
  /\ crashes' = IF retry THEN 0 ELSE crashes
  /\ wanted' = TRUE
  /\ UNCHANGED <<status, pid, active, tables, backoffs, greeted>>

(* Mutant of BackoffStart: it does not look whether it was voided.         *)
BackoffStartAnyway(g) ==
  /\ g \in backoffs /\ Free
  /\ backoffs' = backoffs \ {g}
  /\ Take /\ StartInner
  /\ UNCHANGED <<status, pid, active, crashes, tables, wanted, greeted>>

(* A restart thread wakes: it starts the plugin only if nobody started or  *)
(* stopped it since the crash.                                             *)
BackoffStart(g) ==
  /\ g \in backoffs /\ Free
  /\ backoffs' = backoffs \ {g}
  /\ IF generation = g /\ status = "restarting"
       THEN Take /\ StartInner
       ELSE UNCHANGED <<generation, late, runToken, handshaken, starting, step>>
  /\ UNCHANGED <<status, pid, active, crashes, tables, wanted, greeted>>

(* The spawn may fail, and then the start returns with the status as it    *)
(* was.  The reader and the exit thread run from here on.                  *)
Spawn ==
  /\ step[Owner] = "spawn"
  /\ \/ Goto(Owner, "idle") /\ UNCHANGED process
     \/ /\ process' = [process EXCEPT ![starting] = "alive"]
        /\ step' = [step EXCEPT ![Owner] = "notePid", ![Reader(starting)] = "idle",
                                ![Keeper(starting)] = "idle"]
  /\ UNCHANGED <<atomics, held, calls, starting, backoffs, history>>

NotePid ==
  /\ step[Owner] = "notePid" /\ Goto(Owner, "activate")
  /\ pid' = starting
  /\ UNCHANGED <<status, runToken, generation, active, handshaken, crashes, tables,
                 starting, backoffs, history>>

Activate ==
  /\ step[Owner] = "activate" /\ Goto(Owner, "announce")
  /\ active' = TRUE
  /\ UNCHANGED <<status, pid, runToken, generation, handshaken, crashes, tables,
                 starting, backoffs, history>>

(* The start is over: the handshake's timer runs.                          *)
Announce ==
  /\ step[Owner] = "announce"
  /\ status' = "running"
  /\ step' = [step EXCEPT ![Owner] = "idle", ![Dog(starting)] = "idle"]
  /\ UNCHANGED <<pid, runToken, generation, active, handshaken, crashes, tables,
                 starting, backoffs, history>>

(* stop: set_enabled(false), uninstall, shutdown and the first half of a   *)
(* reload on a vault switch.                                               *)
Stop ==
  /\ Take /\ Goto(Owner, "stopEnd")
  /\ wanted' = FALSE
  /\ UNCHANGED <<status, pid, runToken, active, handshaken, crashes, tables, starting,
                 backoffs, greeted>>

StopDone ==
  /\ step[Owner] = "stopDone" /\ Goto(Owner, "idle")
  /\ status' = "stopped"
  /\ UNCHANGED <<pid, runToken, generation, active, handshaken, crashes, tables,
                 starting, backoffs, history>>

-----------------------------------------------------------------------------
(* Steps that Stop and the watching threads share.  A thread that fails    *)
(* the plugin does after its last step what it did before.                 *)

Resume(th) ==
  CASE th = Owner -> "stopDone"
    [] th[1] = "reader" -> "idle"
    [] OTHER -> "done"

(* session_active goes down before any table is swept.                     *)
End(th) ==
  /\ \/ step[th] = "stopEnd" /\ Goto(th, "stopToken")
     \/ step[th] = "failEnd" /\ Goto(th, "failMark")
     \/ step[th] = "exitEnd" /\ Goto(th, "exitToken")
  /\ active' = FALSE
  /\ UNCHANGED <<status, pid, runToken, generation, handshaken, crashes, tables,
                 starting, backoffs, history>>

FailMark(th) ==
  /\ step[th] = "failMark" /\ Goto(th, "failToken")
  /\ status' = "failed"
  /\ UNCHANGED <<pid, runToken, generation, active, handshaken, crashes, tables,
                 starting, backoffs, history>>

(* What the session still has in flight is void from here on.              *)
NextToken(th) ==
  /\ \/ step[th] \in {"stopToken", "failToken"} /\ Goto(th, "kill")
     \/ step[th] = "exitToken" /\ Goto(th, "exitRelease")
  /\ runToken' = runToken + 1
  /\ UNCHANGED <<status, pid, generation, active, handshaken, crashes, tables,
                 starting, backoffs, history>>

(* teardown: the process the host believes in dies, if there is one.       *)
Kill(th) ==
  /\ step[th] = "kill" /\ Goto(th, "release")
  /\ pid' = 0
  /\ process' = [t \in Tokens |-> IF t = pid THEN "dead" ELSE process[t]]
  /\ UNCHANGED <<status, runToken, generation, active, handshaken, crashes, held,
                 calls, starting, backoffs, history>>

(* release_resources: one critical section of the gate `resources`.        *)
Release(th) ==
  /\ \/ step[th] = "release" /\ Goto(th, Resume(th))
     \/ step[th] = "exitRelease" /\ Goto(th, "exitCount")
  /\ held' = {} /\ calls' = {}
  /\ UNCHANGED <<atomics, process, starting, backoffs, history>>

-----------------------------------------------------------------------------
(* The reader of a session's output.                                       *)

(* A line arrives.  Its session must be the current one; an output that is *)
(* no envelope and an unfit `initialize` fail the plugin, a fit one and    *)
(* the requests that take resources go on.                                 *)
Read(t) ==
  /\ step[Reader(t)] = "idle" /\ process[t] # "none"
  /\ t = runToken
  /\ \E next \in {"failEnd", "shake", "ask"} :
       /\ Goto(Reader(t), next)
       /\ late' = (late \/ (next = "failEnd" /\ ~Free))
  /\ UNCHANGED <<atomics, tables, starting, backoffs, wanted, greeted>>

(* on_initialize: the handshake is noted with no look at the token.        *)
Shake(t) ==
  /\ step[Reader(t)] = "shake" /\ Goto(Reader(t), "region")
  /\ handshaken' = TRUE
  /\ greeted' = greeted \cup {t}
  /\ late' = (late \/ t # runToken)
  /\ UNCHANGED <<status, pid, runToken, generation, active, crashes, tables,
                 starting, backoffs, wanted>>

(* Mutant of WithSession: the token is not looked at again.                *)
WithSessionUnchecked(t) ==
  /\ step[Reader(t)] \in {"ask", "region"}
  /\ Goto(Reader(t), "idle")
  /\ held' = held \cup {t}
  /\ UNCHANGED <<atomics, calls, process, starting, backoffs, history>>

(* with_session: under the gate, and only for the current session, a       *)
(* resource is taken and booked.  The frame region of a handshake may fail *)
(* and take the plugin down.                                               *)
WithSession(t) ==
  /\ \/ /\ step[Reader(t)] \in {"ask", "region"}
        /\ Goto(Reader(t), "idle")
        /\ held' = IF t = runToken THEN held \cup {t} ELSE held
        /\ UNCHANGED late
     \/ /\ step[Reader(t)] = "region" /\ t = runToken
        /\ Goto(Reader(t), "failEnd")
        /\ late' = (late \/ ~Free)
        /\ UNCHANGED held
  /\ UNCHANGED <<atomics, calls, process, starting, backoffs, wanted, greeted>>

-----------------------------------------------------------------------------
(* The end of a process.                                                   *)

Crash(t) ==
  /\ process[t] = "alive"
  /\ process' = [process EXCEPT ![t] = "dead"]
  /\ UNCHANGED <<atomics, held, calls, step, starting, backoffs, history>>

(* Mutant of Terminated: the sink carries the token before its session's,  *)
(* and the exit looks stale.                                               *)
TerminatedMissed(t) ==
  /\ step[Keeper(t)] = "idle" /\ process[t] = "dead" /\ step[Reader(t)] = "idle"
  /\ step' = [step EXCEPT ![Reader(t)] = "done",
                          ![Keeper(t)] = IF \/ t - 1 # runToken
                                            \/ status \in {"stopped", "failed", "broken"}
                                           THEN "done" ELSE "exitPid"]
  /\ UNCHANGED <<atomics, tables, starting, backoffs, history>>

(* The exit is reported after the last line was handled.  It is a crash    *)
(* unless the session is over or the status tells it was meant.            *)
Terminated(t) ==
  /\ step[Keeper(t)] = "idle" /\ process[t] = "dead" /\ step[Reader(t)] = "idle"
  /\ step' = [step EXCEPT ![Reader(t)] = "done",
                          ![Keeper(t)] = IF \/ t # runToken
                                            \/ status \in {"stopped", "failed", "broken"}
                                           THEN "done" ELSE "exitPid"]
  /\ late' = (late \/ (t = runToken /\ ~Free))
  /\ UNCHANGED <<atomics, tables, starting, backoffs, wanted, greeted>>

ExitPid(t) ==
  /\ step[Keeper(t)] = "exitPid" /\ Goto(Keeper(t), "exitEnd")
  /\ pid' = 0
  /\ UNCHANGED <<status, runToken, generation, active, handshaken, crashes, tables,
                 starting, backoffs, history>>

(* record_crash: crashes that left the window are forgotten, this one is   *)
(* added; the last one allowed breaks the circuit.                         *)
ExitCount(t) ==
  /\ step[Keeper(t)] = "exitCount"
  /\ \E recent \in 0..crashes :
       /\ crashes' = recent + 1
       /\ IF recent + 1 >= CrashLimit
            THEN status' = "broken" /\ Goto(Keeper(t), "done")
            ELSE status' = "restarting" /\ Goto(Keeper(t), "exitArm")
  /\ UNCHANGED <<pid, runToken, generation, active, handshaken, tables, starting,
                 backoffs, history>>

(* Mutant of ExitArm: it takes the generation the restart would make.      *)
ExitArmNext(t) ==
  /\ step[Keeper(t)] = "exitArm" /\ Goto(Keeper(t), "done")
  /\ backoffs' = backoffs \cup {generation + 1}
  /\ UNCHANGED <<atomics, tables, starting, history>>

(* The restart thread takes the generation as it is now, not as it was     *)
(* when the process ended.                                                 *)
ExitArm(t) ==
  /\ step[Keeper(t)] = "exitArm" /\ Goto(Keeper(t), "done")
  /\ backoffs' = backoffs \cup {generation}
  /\ UNCHANGED <<atomics, tables, starting, history>>

(* check_handshake, HANDSHAKE_TIMEOUT after the start.                     *)
CheckHandshake(t) ==
  /\ step[Dog(t)] = "idle"
  /\ IF t # runToken \/ handshaken \/ status # "running"
       THEN Goto(Dog(t), "done") /\ UNCHANGED late
       ELSE Goto(Dog(t), "failEnd") /\ late' = (late \/ ~Free)
  /\ UNCHANGED <<atomics, tables, starting, backoffs, wanted, greeted>>

-----------------------------------------------------------------------------
(* Tool calls of the assistant.                                            *)

(* Mutant of CallTool: only the status counts, which a stop sets last.     *)
CallToolAnytime(c) ==
  /\ status = "running"
  /\ calls' = calls \cup {c}
  /\ UNCHANGED <<atomics, held, process, step, starting, backoffs, history>>

(* with_active_session: under the gate, while the session is up.           *)
CallTool(c) ==
  /\ active /\ status = "running"
  /\ calls' = calls \cup {c}
  /\ UNCHANGED <<atomics, held, process, step, starting, backoffs, history>>

(* The plugin answers, or the call's own timeout runs out.                 *)
CallEnds(c) ==
  /\ c \in calls
  /\ calls' = calls \ {c}
  /\ UNCHANGED <<atomics, held, process, step, starting, backoffs, history>>

-----------------------------------------------------------------------------
Teardown(th) == End(th) \/ FailMark(th) \/ NextToken(th) \/ Kill(th) \/ Release(th)

OwnerStep == Spawn \/ NotePid \/ Activate \/ Announce \/ StopDone

Exit(t) == ExitPid(t) \/ ExitCount(t) \/ ExitArm(t)

Next ==
  \/ \E retry \in BOOLEAN : Start(retry)
  \/ \E g \in backoffs : BackoffStart(g)
  \/ Stop
  \/ OwnerStep
  \/ \E th \in Threads : Teardown(th)
  \/ \E t \in Tokens : \/ Read(t) \/ Shake(t) \/ WithSession(t)
                       \/ Crash(t) \/ Terminated(t) \/ Exit(t)
                       \/ CheckHandshake(t)
  \/ \E c \in Calls : CallTool(c) \/ CallEnds(c)

Spec == Init /\ [][Next]_vars

(* Every thread that has a next statement runs it, a timer rings, and a    *)
(* dead process has only so much output left to read.  Users, plugins and  *)
(* tool calls need not do anything.                                        *)
Fairness ==
  /\ WF_vars(OwnerStep)
  /\ \A th \in Threads : WF_vars(Teardown(th))
  /\ \A t \in Tokens : /\ WF_vars(Shake(t)) /\ WF_vars(WithSession(t))
                       /\ SF_vars(Terminated(t)) /\ WF_vars(Exit(t))
                       /\ WF_vars(CheckHandshake(t))

FairSpec == Spec /\ Fairness

-----------------------------------------------------------------------------
TypeOK ==
  /\ status \in Statuses /\ runToken \in Nat /\ generation \in 0..MaxGen
  /\ pid \in {0} \cup Tokens /\ starting \in {0} \cup Tokens
  /\ active \in BOOLEAN /\ handshaken \in BOOLEAN /\ crashes \in Nat
  /\ held \subseteq Tokens /\ calls \subseteq Calls
  /\ process \in [Tokens -> {"none", "alive", "dead"}]
  /\ step \in [Threads -> Steps]
  /\ backoffs \subseteq 0..MaxGen
  /\ wanted \in BOOLEAN /\ greeted \subseteq Tokens /\ late \in BOOLEAN

(* Some thread has put session_active down and not swept the tables yet.   *)
SweepSteps == {"stopToken", "failMark", "failToken", "exitToken", "exitRelease",
               "kill", "release"}
Sweeping == \E th \in Threads : step[th] \in SweepSteps

(* A tool call never waits on a session that is over and swept: it was     *)
(* booked before the sweep, which answers it, or refused (the promise of   *)
(* with_active_session).  Without it the assistant waits out the timeout.  *)
(* Holds whatever overlaps.                                                *)
CallsSwept == calls # {} => active \/ Sweeping

(* The rest is promised until a watching thread first overlaps a start or  *)
(* a stop; TLC follows behaviours that far.                                *)
InTurn == ~late

(* A child process, shortcut or region outlives its session nowhere: it is *)
(* of the current session, whose process has not been reported dead, or a  *)
(* sweep is about to take it (the promise of with_session).                *)
HeldSwept ==
  late \/ Sweeping
    \/ \A t \in held : t = runToken /\ (process[t] = "alive" \/ step[Keeper(t)] # "done")

(* No second start and no orphan: a living process is the one the host can *)
(* kill, or the start that spawned it is about to note it (the promise of  *)
(* `transition`, and of on_exit and fail, which leave nothing running).    *)
OneProcess ==
  late \/ \A t \in Tokens :
            process[t] = "alive" => t = pid \/ (t = starting /\ step[Owner] = "notePid")

(* A stop voids the restart that sleeps: no start is under way that the    *)
(* user did not ask for last (the doc of stop and of `generation`).        *)
RestartsVoided == step[Owner] = "spawn" => wanted

(* Once a stop is through, nothing but a start brings the plugin back: no  *)
(* restart thread, no late exit.                                           *)
StopHolds ==
  late \/ /\ RestartsVoided
          /\ Free /\ ~wanted => status = "stopped" /\ \A t \in Tokens : process[t] # "alive"

(* A running plugin that stays silent is found out, in every session anew: *)
(* the handshake of an earlier session is no excuse.                       *)
SilenceEnds ==
  (status = "running" /\ pid \in Tokens \ greeted)
    ~> (late \/ pid \notin Tokens \ greeted \/ status # "running")

(* A plugin whose process died does not stay shown as running.             *)
DeadProcess == pid \in Tokens /\ process[pid] = "dead"
DeathNoticed ==
  (status = "running" /\ DeadProcess) ~> (late \/ ~DeadProcess \/ status # "running")
=============================================================================
