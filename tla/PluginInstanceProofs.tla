------------------------ MODULE PluginInstanceProofs ------------------------
(***************************************************************************)
(* Proofs about PluginInstance, for any number of calls, starts and stops: *)
(* its types; that no tool call is left behind by a sweep, whatever the    *)
(* watching threads overlap; and, until one of them first overlaps a start *)
(* or a stop, that nothing is held past its session, that one process      *)
(* lives, and that a stop holds.                                           *)
(***************************************************************************)
EXTENDS PluginInstance, TLAPS

LEMMA ThreadNames ==
  /\ Owner \in Threads
  /\ \A t \in Tokens : Reader(t) \in Threads /\ Keeper(t) \in Threads /\ Dog(t) \in Threads
BY DEF Threads, Watchers, Owner, Reader, Keeper, Dog

LEMMA StepNames ==
  /\ FailSteps \cup ExitSteps \cup StopSteps \subseteq Steps
  /\ {"none", "idle", "done", "ask", "shake", "region"} \subseteq Steps
  /\ {"spawn", "notePid", "activate", "announce"} \subseteq Steps
  /\ \A th \in Threads : Resume(th) \in Steps \ SweepSteps
BY DEF Steps, StopSteps, FailSteps, ExitSteps, SweepSteps, Resume

StepOK == step \in [Threads -> Steps]

(* Every thread stands at a step of its own. *)
LEMMA StepsStay == StepOK /\ [Next]_vars => StepOK'
<1> SUFFICES ASSUME StepOK, [Next]_vars PROVE StepOK'
  OBVIOUS
<1> USE ThreadNames, StepNames DEF StepOK, Goto, FailSteps, ExitSteps, StopSteps
<1>1. ASSUME NEW retry \in BOOLEAN, Start(retry) PROVE StepOK'
  BY <1>1 DEF Start, StartInner
<1>2. ASSUME NEW g \in backoffs, BackoffStart(g) PROVE StepOK'
  BY <1>2 DEF BackoffStart, StartInner
<1>3. CASE Stop \/ StopDone
  BY <1>3 DEF Stop, StopDone
<1>4. CASE OwnerStep
  BY <1>4 DEF OwnerStep, Spawn, NotePid, Activate, Announce, StopDone
<1>5. ASSUME NEW th \in Threads, Teardown(th) PROVE StepOK'
  BY <1>5 DEF Teardown, End, FailMark, NextToken, Kill, Release
<1>6. ASSUME NEW t \in Tokens, Read(t) \/ Shake(t) \/ WithSession(t) PROVE StepOK'
  BY <1>6 DEF Read, Shake, WithSession
<1>7. ASSUME NEW t \in Tokens,
             Crash(t) \/ Terminated(t) \/ CheckHandshake(t) \/ Exit(t)
      PROVE  StepOK'
  BY <1>7 DEF Crash, Terminated, CheckHandshake, Exit, ExitPid, ExitCount, ExitArm
<1>8. ASSUME NEW c \in Calls, CallTool(c) \/ CallEnds(c) PROVE StepOK'
  BY <1>8 DEF CallTool, CallEnds
<1>9. CASE UNCHANGED vars
  BY <1>9 DEF vars
<1> QED BY <1>1, <1>2, <1>3, <1>4, <1>5, <1>6, <1>7, <1>8, <1>9 DEF Next

-----------------------------------------------------------------------------
NumbersOK ==
  /\ runToken \in Nat /\ generation \in 0..MaxGen /\ crashes \in Nat
  /\ pid \in {0} \cup Tokens /\ starting \in {0} \cup Tokens
  /\ backoffs \subseteq 0..MaxGen
FlagsOK ==
  /\ active \in BOOLEAN /\ handshaken \in BOOLEAN
  /\ wanted \in BOOLEAN /\ late \in BOOLEAN
TablesOK ==
  /\ status \in Statuses
  /\ held \subseteq Tokens /\ calls \subseteq Calls /\ greeted \subseteq Tokens
  /\ process \in [Tokens -> {"none", "alive", "dead"}]

LEMMA TypeParts ==
  /\ TypeOK <=> StepOK /\ NumbersOK /\ FlagsOK /\ TablesOK
  /\ TypeOK' <=> StepOK' /\ NumbersOK' /\ FlagsOK' /\ TablesOK'
<1>1. TypeOK <=> StepOK /\ NumbersOK /\ FlagsOK /\ TablesOK
  BY Zenon DEF TypeOK, StepOK, NumbersOK, FlagsOK, TablesOK
<1>2. TypeOK' <=> StepOK' /\ NumbersOK' /\ FlagsOK' /\ TablesOK'
  BY Zenon DEF TypeOK, StepOK, NumbersOK, FlagsOK, TablesOK
<1> QED BY <1>1, <1>2

LEMMA FlagsStay == FlagsOK /\ [Next]_vars => FlagsOK'
<1> SUFFICES ASSUME FlagsOK, [Next]_vars PROVE FlagsOK'
  OBVIOUS
<1> USE DEF FlagsOK
<1>1. ASSUME NEW retry \in BOOLEAN, Start(retry) PROVE FlagsOK'
  BY <1>1, Zenon DEF Start, Take, StartInner
<1>2. ASSUME NEW g \in backoffs, BackoffStart(g) PROVE FlagsOK'
  BY <1>2, Zenon DEF BackoffStart, Take, StartInner
<1>3. CASE Stop
  BY <1>3, Zenon DEF Stop, Take
<1>4. CASE OwnerStep
  BY <1>4, Zenon DEF OwnerStep, Spawn, NotePid, Activate, Announce, StopDone, atomics, history
<1>5. ASSUME NEW th \in Threads, Teardown(th) PROVE FlagsOK'
  BY <1>5, Zenon DEF Teardown, End, FailMark, NextToken, Kill, Release, atomics, history
<1>6. ASSUME NEW t \in Tokens, Read(t) \/ Shake(t) \/ WithSession(t) PROVE FlagsOK'
  BY <1>6, Zenon DEF Read, Shake, WithSession, atomics
<1>7. ASSUME NEW t \in Tokens,
             Crash(t) \/ Terminated(t) \/ CheckHandshake(t) \/ Exit(t)
      PROVE  FlagsOK'
  BY <1>7, Zenon DEF Crash, Terminated, CheckHandshake, Exit, ExitPid, ExitCount, ExitArm,
                     atomics, history
<1>8. ASSUME NEW c \in Calls, CallTool(c) \/ CallEnds(c) PROVE FlagsOK'
  BY <1>8, Zenon DEF CallTool, CallEnds, atomics, history
<1>9. CASE UNCHANGED vars
  BY <1>9, Zenon DEF vars, atomics, history
<1> QED BY <1>1, <1>2, <1>3, <1>4, <1>5, <1>6, <1>7, <1>8, <1>9 DEF Next

LEMMA NumbersStay == NumbersOK /\ [Next]_vars => NumbersOK'
<1> SUFFICES ASSUME NumbersOK, [Next]_vars PROVE NumbersOK'
  OBVIOUS
<1> USE LimitsAssumption DEF NumbersOK
<1>1. ASSUME NEW retry \in BOOLEAN, Start(retry) PROVE NumbersOK'
  BY <1>1 DEF Start, Take, StartInner, Tokens
<1>2. ASSUME NEW g \in backoffs, BackoffStart(g) PROVE NumbersOK'
  BY <1>2 DEF BackoffStart, Take, StartInner, Tokens
<1>3. CASE Stop
  BY <1>3 DEF Stop, Take
<1>4. CASE OwnerStep
  BY <1>4 DEF OwnerStep, Spawn, NotePid, Activate, Announce, StopDone, atomics
<1>5. ASSUME NEW th \in Threads, Teardown(th) PROVE NumbersOK'
  <2>1. CASE End(th) \/ FailMark(th) \/ Release(th)
    BY <2>1 DEF End, FailMark, Release, atomics
  <2>2. CASE NextToken(th)
    BY <2>2 DEF NextToken
  <2>3. CASE Kill(th)
    BY <2>3 DEF Kill
  <2> QED BY <1>5, <2>1, <2>2, <2>3 DEF Teardown
<1>6. ASSUME NEW t \in Tokens, Read(t) \/ Shake(t) \/ WithSession(t) PROVE NumbersOK'
  BY <1>6 DEF Read, Shake, WithSession, atomics
<1>7. ASSUME NEW t \in Tokens,
             Crash(t) \/ Terminated(t) \/ CheckHandshake(t) \/ Exit(t)
      PROVE  NumbersOK'
  <2>1. CASE Crash(t) \/ Terminated(t) \/ CheckHandshake(t)
    BY <2>1 DEF Crash, Terminated, CheckHandshake, atomics
  <2>2. CASE ExitPid(t)
    BY <2>2 DEF ExitPid
  <2>3. CASE ExitCount(t)
    BY <2>3 DEF ExitCount
  <2>4. CASE ExitArm(t)
    BY <2>4 DEF ExitArm, atomics
  <2> QED BY <1>7, <2>1, <2>2, <2>3, <2>4 DEF Exit
<1>8. ASSUME NEW c \in Calls, CallTool(c) \/ CallEnds(c) PROVE NumbersOK'
  BY <1>8 DEF CallTool, CallEnds, atomics
<1>9. CASE UNCHANGED vars
  BY <1>9 DEF vars, atomics
<1> QED BY <1>1, <1>2, <1>3, <1>4, <1>5, <1>6, <1>7, <1>8, <1>9 DEF Next

LEMMA TablesStay == TablesOK /\ [Next]_vars => TablesOK'
<1> SUFFICES ASSUME TablesOK, [Next]_vars PROVE TablesOK'
  OBVIOUS
<1> USE DEF TablesOK
<1>1. ASSUME NEW retry \in BOOLEAN, Start(retry) PROVE TablesOK'
  BY <1>1 DEF Start, tables
<1>2. ASSUME NEW g \in backoffs, BackoffStart(g) PROVE TablesOK'
  BY <1>2 DEF BackoffStart, tables
<1>3. CASE Stop
  BY <1>3 DEF Stop, tables
<1>4. CASE OwnerStep
  BY <1>4 DEF OwnerStep, Spawn, NotePid, Activate, Announce, StopDone, atomics, tables,
              history, Statuses
<1>5. ASSUME NEW th \in Threads, Teardown(th) PROVE TablesOK'
  BY <1>5 DEF Teardown, End, FailMark, NextToken, Kill, Release, atomics, tables, history,
              Statuses
<1>6. ASSUME NEW t \in Tokens, Read(t) \/ Shake(t) \/ WithSession(t) PROVE TablesOK'
  BY <1>6 DEF Read, Shake, WithSession, atomics, tables
<1>7. ASSUME NEW t \in Tokens,
             Crash(t) \/ Terminated(t) \/ CheckHandshake(t) \/ Exit(t)
      PROVE  TablesOK'
  BY <1>7 DEF Crash, Terminated, CheckHandshake, Exit, ExitPid, ExitCount, ExitArm,
              atomics, tables, history, Statuses
<1>8. ASSUME NEW c \in Calls, CallTool(c) \/ CallEnds(c) PROVE TablesOK'
  BY <1>8 DEF CallTool, CallEnds, atomics, history
<1>9. CASE UNCHANGED vars
  BY <1>9 DEF vars, atomics, tables, history
<1> QED BY <1>1, <1>2, <1>3, <1>4, <1>5, <1>6, <1>7, <1>8, <1>9 DEF Next

(* Every variable keeps its type.                                          *)
THEOREM InstanceTyped == Spec => []TypeOK
<1>1. Init => TypeOK
  <2> SUFFICES ASSUME Init PROVE StepOK /\ NumbersOK /\ FlagsOK /\ TablesOK
    BY TypeParts
  <2>1. "idle" \in Steps /\ "none" \in Steps
    BY StepNames
  <2>2. StepOK
    BY <2>1 DEF Init, StepOK
  <2>3. NumbersOK
    BY LimitsAssumption DEF Init, NumbersOK
  <2>4. FlagsOK
    BY Zenon DEF Init, FlagsOK
  <2>5. TablesOK
    BY DEF Init, TablesOK, Statuses
  <2> QED BY <2>2, <2>3, <2>4, <2>5
<1>2. TypeOK /\ [Next]_vars => TypeOK'
  BY TypeParts, StepsStay, NumbersStay, FlagsStay, TablesStay
<1> QED BY <1>1, <1>2, PTL DEF Spec

-----------------------------------------------------------------------------
(* Tool calls and sweeps.                                                  *)

(* A session's threads come to be with it: before the spawn none of them   *)
(* stands anywhere, and its timer only when the start is announced.        *)
StartSteps == {"spawn", "notePid", "activate", "announce"}
Unborn ==
  /\ step[Owner] \in StartSteps => starting <= runToken
  /\ \A t \in Tokens :
       /\ (t > runToken \/ (t = starting /\ step[Owner] = "spawn"))
            => step[Reader(t)] = "none" /\ step[Keeper(t)] = "none"
       /\ (t > runToken \/ (t = starting /\ step[Owner] \in StartSteps))
            => step[Dog(t)] = "none"

LEMMA Distinct ==
  \A t, u \in Nat :
    /\ Owner \notin {Reader(t), Keeper(t), Dog(t)}
    /\ Reader(t) \notin {Keeper(u), Dog(u)} /\ Keeper(t) # Dog(u)
    /\ (Reader(t) = Reader(u) \/ Keeper(t) = Keeper(u) \/ Dog(t) = Dog(u)) => t = u
BY DEF Owner, Reader, Keeper, Dog

(* The watching threads that move had come to be, and tokens only grow.    *)
LEMMA WatchersMove ==
  ASSUME StepOK, Unborn, NumbersOK, UNCHANGED starting,
         runToken' = runToken \/ runToken' = runToken + 1,
         step'[Owner] = step[Owner],
         \A th \in Threads \ {Owner} : step[th] = "none" => step'[th] = "none"
  PROVE  Unborn'
<1>1. \A t \in Tokens : t \in Nat /\ Owner \notin {Reader(t), Keeper(t), Dog(t)}
  BY Distinct, LimitsAssumption DEF Tokens
<1>2. runToken \in Nat /\ starting \in Nat
  BY LimitsAssumption DEF NumbersOK, Tokens
<1> QED BY <1>1, <1>2, ThreadNames DEF Unborn, StartSteps

(* A teardown of the lock's holder moves it from one of its own steps to   *)
(* another, never into a start.                                            *)
LEMMA TeardownSteps ==
  ASSUME StepOK, NEW th \in Threads, Teardown(th)
  PROVE  /\ UNCHANGED starting
         /\ runToken' = runToken \/ runToken' = runToken + 1
         /\ step[th] \notin StartSteps \cup {"none"}
         /\ \E s \in Steps \ StartSteps : Goto(th, s)
<1> USE StepNames DEF FailSteps, ExitSteps, StopSteps, StartSteps
<1>1. Resume(th) \in Steps \ StartSteps
  BY DEF Resume
<1>2. CASE End(th)
  BY <1>2 DEF End
<1>3. CASE FailMark(th)
  BY <1>3 DEF FailMark
<1>4. CASE NextToken(th)
  BY <1>4 DEF NextToken
<1>5. CASE Kill(th)
  BY <1>5 DEF Kill
<1>6. CASE Release(th)
  BY <1>1, <1>6 DEF Release, atomics
<1> QED BY <1>2, <1>3, <1>4, <1>5, <1>6 DEF Teardown

THEOREM ThreadsUnborn == Spec => []Unborn
<1>1. Init => Unborn
  BY ThreadNames, Distinct, LimitsAssumption DEF Init, Unborn, StartSteps, Tokens
<1>2. TypeOK /\ Unborn /\ [Next]_vars => Unborn'
  <2> SUFFICES ASSUME StepOK, NumbersOK, Unborn, [Next]_vars PROVE Unborn'
    BY TypeParts
  <2>1. /\ runToken \in Nat /\ starting \in Nat
        /\ \A t \in Tokens : t \in Nat
    BY LimitsAssumption DEF NumbersOK, Tokens
  (* The holder of the lock moves alone. *)
  <2>2. ASSUME NEW s \in Steps, Goto(Owner, s)
        PROVE  /\ step'[Owner] = s
               /\ \A t \in Tokens : /\ step'[Reader(t)] = step[Reader(t)]
                                    /\ step'[Keeper(t)] = step[Keeper(t)]
                                    /\ step'[Dog(t)] = step[Dog(t)]
    BY <2>1, <2>2, ThreadNames, Distinct DEF Goto, StepOK
  <2>3. ASSUME StartInner, Free PROVE Unborn'
    <3>1. CASE status = "running"
      BY <2>3, <3>1 DEF StartInner, Unborn, Free, StartSteps
    <3>2. CASE status # "running"
      <4>1. "spawn" \in Steps
        BY StepNames
      <4>2. /\ runToken' = runToken + 1 /\ starting' = runToken + 1
            /\ Goto(Owner, "spawn")
        BY <2>3, <3>2 DEF StartInner
      <4> QED BY <2>1, <2>2, <4>1, <4>2 DEF Unborn, StartSteps
    <3> QED BY <3>1, <3>2
  <2>4. ASSUME NEW retry \in BOOLEAN, Start(retry) PROVE Unborn'
    BY <2>3, <2>4 DEF Start, Take
  <2>5. ASSUME NEW g \in backoffs, BackoffStart(g) PROVE Unborn'
    <3>1. CASE generation = g /\ status = "restarting"
      BY <2>3, <2>5, <3>1 DEF BackoffStart, Take
    <3>2. CASE ~(generation = g /\ status = "restarting")
      BY <2>5, <3>2 DEF BackoffStart, Unborn
    <3> QED BY <3>1, <3>2
  <2>6. CASE Stop
    <3>1. "stopEnd" \in Steps /\ Goto(Owner, "stopEnd") /\ UNCHANGED <<starting, runToken>>
      BY <2>6, StepNames DEF Stop, StopSteps
    <3> QED BY <2>2, <3>1 DEF Unborn, StartSteps
  <2>7. CASE Spawn
    <3>1. UNCHANGED <<starting, runToken>> /\ step[Owner] = "spawn"
      BY <2>7 DEF Spawn, atomics
    <3>2. CASE Goto(Owner, "idle")
      BY <2>2, <3>1, <3>2, StepNames DEF Unborn, StartSteps
    <3>3. CASE step' = [step EXCEPT ![Owner] = "notePid", ![Reader(starting)] = "idle",
                                    ![Keeper(starting)] = "idle"]
      <4>1. /\ step'[Owner] \in {"notePid", "idle"}
            /\ \A t \in Tokens \ {starting} : /\ step'[Reader(t)] = step[Reader(t)]
                                             /\ step'[Keeper(t)] = step[Keeper(t)]
            /\ \A t \in Tokens : step'[Dog(t)] = step[Dog(t)]
        BY <2>1, <3>3, ThreadNames, Distinct DEF StepOK
      <4> QED BY <2>1, <3>1, <4>1 DEF Unborn, StartSteps
    <3> QED BY <2>7, <3>2, <3>3 DEF Spawn
  <2>8. CASE NotePid \/ Activate \/ StopDone
    <3>1. /\ UNCHANGED <<starting, runToken>>
          /\ \/ step[Owner] = "notePid" /\ Goto(Owner, "activate")
             \/ step[Owner] = "activate" /\ Goto(Owner, "announce")
             \/ Goto(Owner, "idle")
      BY <2>8 DEF NotePid, Activate, StopDone
    <3> QED BY <2>2, <3>1, StepNames DEF Unborn, StartSteps
  <2>9. CASE Announce
    <3>1. /\ UNCHANGED <<starting, runToken>>
          /\ step[Owner] = "announce"
          /\ step' = [step EXCEPT ![Owner] = "idle", ![Dog(starting)] = "idle"]
      BY <2>9 DEF Announce
    <3>2. /\ step'[Owner] = "idle"
          /\ \A t \in Tokens : /\ step'[Reader(t)] = step[Reader(t)]
                               /\ step'[Keeper(t)] = step[Keeper(t)]
          /\ \A t \in Tokens \ {starting} : step'[Dog(t)] = step[Dog(t)]
      BY <2>1, <3>1, ThreadNames, Distinct DEF StepOK
    <3>3. starting <= runToken /\ \A t \in Tokens : t > runToken => t # starting
      BY <2>1, <3>1 DEF Unborn, StartSteps
    <3>4. ASSUME NEW t \in Tokens, t > runToken
          PROVE  /\ step'[Reader(t)] = "none" /\ step'[Keeper(t)] = "none"
                 /\ step'[Dog(t)] = "none"
      BY <3>2, <3>3, <3>4 DEF Unborn
    <3> QED BY <3>1, <3>2, <3>4 DEF Unborn, StartSteps
  <2>10. ASSUME NEW th \in Threads, Teardown(th) PROVE Unborn'
    <3>1. PICK s \in Steps \ StartSteps : Goto(th, s)
      BY <2>10, TeardownSteps
    <3>2. CASE th = Owner
      BY <2>1, <2>2, <2>10, <3>1, <3>2, TeardownSteps DEF Unborn, StartSteps
    <3>3. CASE th # Owner
      BY <2>10, <3>1, <3>3, TeardownSteps, WatchersMove, ThreadNames DEF Goto, StepOK
    <3> QED BY <3>2, <3>3
  <2>11. ASSUME NEW t \in Tokens,
                Read(t) \/ Shake(t) \/ WithSession(t) \/ Crash(t) \/ Terminated(t)
                  \/ Exit(t) \/ CheckHandshake(t)
         PROVE  Unborn'
    <3>1. UNCHANGED <<starting, runToken>>
      BY <2>11 DEF Read, Shake, WithSession, Crash, Terminated, Exit, ExitPid, ExitCount,
                   ExitArm, CheckHandshake, atomics
    <3>2. /\ step'[Owner] = step[Owner]
          /\ \A th \in Threads \ {Owner} : step[th] = "none" => step'[th] = "none"
      BY <2>1, <2>11, ThreadNames, Distinct
      DEF Read, Shake, WithSession, Crash, Terminated, Exit, ExitPid, ExitCount,
          ExitArm, CheckHandshake, Goto, StepOK
    <3> QED BY <3>1, <3>2, WatchersMove
  <2>12. ASSUME NEW c \in Calls, CallTool(c) \/ CallEnds(c) PROVE Unborn'
    BY <2>12 DEF CallTool, CallEnds, Unborn, atomics
  <2>13. CASE UNCHANGED vars
    BY <2>13 DEF vars, Unborn, atomics
  <2> QED BY <2>4, <2>5, <2>6, <2>7, <2>8, <2>9, <2>10, <2>11, <2>12, <2>13
          DEF Next, OwnerStep
<1> QED BY <1>1, <1>2, InstanceTyped, PTL DEF Spec

(* A step that moves one thread, and not out of a sweep, leaves the        *)
(* sweeping threads where they are.                                        *)
LEMMA SweepGoesOn ==
  ASSUME StepOK, NEW th \in Threads, NEW s \in Steps, Goto(th, s),
         step[th] \in SweepSteps => s \in SweepSteps
  PROVE  Sweeping => Sweeping'
BY DEF StepOK, Goto, Sweeping

(* So does a step that sends threads elsewhere which did not sweep.        *)
LEMMA SweepersStay ==
  ASSUME \A th \in Threads : step[th] \in SweepSteps => step'[th] = step[th]
  PROVE  Sweeping => Sweeping'
BY DEF Sweeping

(* No tool call is left behind by a sweep, with any overlap of the         *)
(* watching threads with starts and stops.                                 *)
THEOREM NoCallLeftBehind == Spec => []CallsSwept
<1>1. Init => CallsSwept
  BY DEF Init, CallsSwept
<1>2. TypeOK /\ Unborn /\ CallsSwept /\ [Next]_vars => CallsSwept'
  <2> SUFFICES ASSUME StepOK, NumbersOK, Unborn, CallsSwept, [Next]_vars PROVE CallsSwept'
    BY TypeParts
  <2>1. \A th \in Threads : step[th] \in SweepSteps => step[th] # "none"
    BY DEF SweepSteps
  <2>2. ASSUME UNCHANGED calls, active => active', Sweeping => Sweeping' PROVE CallsSwept'
    BY <2>2 DEF CallsSwept
  <2>3. ASSUME UNCHANGED <<calls, active>>, Free,
               NEW s \in Steps, UNCHANGED step \/ Goto(Owner, s)
        PROVE  CallsSwept'
    <3>1. step[Owner] \notin SweepSteps
      BY <2>3 DEF Free, SweepSteps
    <3>2. UNCHANGED step => (Sweeping => Sweeping')
      BY DEF Sweeping
    <3> QED BY <2>2, <2>3, <3>1, <3>2, SweepGoesOn, ThreadNames
  <2>4. ASSUME NEW retry \in BOOLEAN, Start(retry) PROVE CallsSwept'
    <3>1. UNCHANGED <<calls, active>> /\ Free /\ (UNCHANGED step \/ Goto(Owner, "spawn"))
      BY <2>4 DEF Start, Take, StartInner, tables
    <3> QED BY <2>3, <3>1, StepNames
  <2>5. ASSUME NEW g \in backoffs, BackoffStart(g) PROVE CallsSwept'
    <3>1. UNCHANGED <<calls, active>> /\ Free /\ (UNCHANGED step \/ Goto(Owner, "spawn"))
      BY <2>5 DEF BackoffStart, StartInner, tables
    <3> QED BY <2>3, <3>1, StepNames
  <2>6. CASE Stop
    <3>1. UNCHANGED <<calls, active>> /\ Free /\ Goto(Owner, "stopEnd")
      BY <2>6 DEF Stop, Take, tables
    <3> QED BY <2>3, <3>1, StepNames DEF StopSteps
  (* A session is up before it is announced. *)
  <2>7. CASE Activate
    BY <2>7 DEF Activate, CallsSwept
  <2>8. CASE NotePid \/ StopDone
    <3>1. step[Owner] \notin SweepSteps /\ UNCHANGED <<calls, active>>
      BY <2>8 DEF NotePid, StopDone, SweepSteps, tables
    <3>2. Goto(Owner, "activate") \/ Goto(Owner, "idle")
      BY <2>8 DEF NotePid, StopDone
    <3> QED BY <2>2, <3>1, <3>2, SweepGoesOn, ThreadNames, StepNames
  <2>9. CASE Spawn \/ Announce
    <3>1. UNCHANGED <<calls, active>>
      BY <2>9 DEF Spawn, Announce, tables, atomics
    <3>2. step[Owner] \notin SweepSteps
      BY <2>9 DEF Spawn, Announce, SweepSteps
    <3>3. starting \in Tokens =>
            /\ step[Owner] = "spawn" => /\ step[Reader(starting)] = "none"
                                       /\ step[Keeper(starting)] = "none"
            /\ step[Owner] = "announce" => step[Dog(starting)] = "none"
      BY DEF Unborn, StartSteps
    <3>4. starting \notin Tokens =>
            {Reader(starting), Keeper(starting), Dog(starting)} \cap Threads = {}
      BY DEF Threads, Watchers, Owner, Reader, Keeper, Dog
    <3>5. ASSUME NEW th \in Threads, step[th] \in SweepSteps PROVE step'[th] = step[th]
      BY <2>1, <2>9, <3>2, <3>3, <3>4, <3>5 DEF Spawn, Announce, Goto, StepOK
    <3> QED BY <2>2, <3>1, <3>5, SweepersStay
  (* A teardown sweeps before it leaves. *)
  <2>10. ASSUME NEW th \in Threads, Teardown(th) PROVE CallsSwept'
    <3> USE DEF Goto, StepOK, SweepSteps, Sweeping, CallsSwept
    <3>1. CASE Release(th)
      BY <3>1 DEF Release
    <3>2. CASE End(th)
      BY <3>2 DEF End, tables
    <3>3. CASE FailMark(th)
      BY <3>3 DEF FailMark, tables
    <3>4. CASE NextToken(th)
      BY <3>4 DEF NextToken, tables
    <3>5. CASE Kill(th)
      BY <3>5 DEF Kill
    <3> QED BY <2>10, <3>1, <3>2, <3>3, <3>4, <3>5 DEF Teardown
  <2>11. ASSUME NEW t \in Tokens,
                Read(t) \/ Shake(t) \/ WithSession(t) \/ Crash(t) \/ Terminated(t)
                  \/ Exit(t) \/ CheckHandshake(t)
         PROVE  CallsSwept'
    <3>1. UNCHANGED <<calls, active>>
      BY <2>11 DEF Read, Shake, WithSession, Crash, Terminated, Exit, ExitPid, ExitCount,
                   ExitArm, CheckHandshake, atomics, tables
    <3>2. ASSUME NEW th \in Threads, step[th] \in SweepSteps PROVE step'[th] = step[th]
      BY <2>11, <3>2, ThreadNames
      DEF Read, Shake, WithSession, Crash, Terminated, Exit, ExitPid, ExitCount,
          ExitArm, CheckHandshake, Goto, StepOK, SweepSteps
    <3> QED BY <2>2, <3>1, <3>2, SweepersStay
  (* A call is booked while the session is up. *)
  <2>12. ASSUME NEW c \in Calls, CallTool(c) \/ CallEnds(c) PROVE CallsSwept'
    BY <2>12 DEF CallTool, CallEnds, CallsSwept, Sweeping, atomics
  <2>13. CASE UNCHANGED vars
    BY <2>13 DEF vars, CallsSwept, Sweeping, atomics, tables
  <2> QED BY <2>4, <2>5, <2>6, <2>7, <2>8, <2>9, <2>10, <2>11, <2>12, <2>13
          DEF Next, OwnerStep
<1> QED BY <1>1, <1>2, InstanceTyped, ThreadsUnborn, PTL DEF Spec
-----------------------------------------------------------------------------
(* The order that starts, stops and watching threads keep as long as no    *)
(* watching thread overlaps a start or a stop.                             *)

Alive(t) == process[t] = "alive"
NoneAlive == \A t \in Tokens : ~Alive(t)

(* The session started last has not been voided.                           *)
Current == starting \in Tokens /\ runToken = starting /\ process[starting] # "none"

(* A watching thread has marked the plugin failed and voids the session    *)
(* next.                                                                   *)
Failing == \E th \in Watchers : step[th] = "failToken"
Killing == \E th \in Watchers : step[th] \in {"failToken", "kill"}

(* Threads stand where their code can be, and come to be with a process,   *)
(* of which only the latest start's is ever alive.                         *)
Born ==
  /\ step[Owner] \in {"idle"} \cup StartSteps \cup StopSteps
  /\ starting <= runToken
  /\ pid # 0 => process[pid] # "none"
  /\ \A t \in Tokens :
       /\ step[Reader(t)] \in {"none", "idle", "done", "ask", "shake", "region"} \cup FailSteps
       /\ step[Keeper(t)] \in {"none", "idle", "done"} \cup ExitSteps
       /\ step[Dog(t)] \in {"none", "idle", "done"} \cup FailSteps
       /\ process[t] = "none" =>
            step[Reader(t)] = "none" /\ step[Keeper(t)] = "none" /\ step[Dog(t)] = "none"
       /\ process[t] # "none" => t <= starting
       /\ Alive(t) => t = starting /\ step[Keeper(t)] = "idle"

(* A thread that takes the plugin down does so with nobody at the lock and *)
(* belongs to the latest start; past its token that session is void.       *)
Turns ==
  /\ Midway => Free
  /\ \A th \in Watchers :
       /\ step[th] \in FailSteps \cup ExitSteps => th[2] = starting
       /\ step[th] \in {"kill", "release", "exitRelease", "exitCount", "exitArm"} => ~Current

(* What the holder of the lock has done so far.                            *)
OwnerAt ==
  /\ step[Owner] \in StartSteps => starting \in Tokens /\ runToken = starting /\ wanted
  /\ step[Owner] = "spawn" => process[starting] = "none" /\ NoneAlive
  /\ step[Owner] \in StartSteps \ {"spawn"} => process[starting] # "none"
  /\ step[Owner] \in StopSteps => ~wanted
  /\ step[Owner] \in {"kill", "release", "stopDone"} => ~Current
  /\ step[Owner] \in {"release", "stopDone"} => NoneAlive

(* What the status and the pid say of the processes.                       *)
Shown ==
  /\ step[Owner] # "notePid" => \A t \in Tokens : Alive(t) => pid = t
  /\ Free => /\ Current => status = "running" \/ Failing
             /\ NoneAlive \/ status = "running" \/ Killing
             /\ ~wanted => ~Current /\ ~Midway /\ status = "stopped" /\ NoneAlive

(* Resources are of the session that goes on, or about to be swept.        *)
HeldBy ==
  /\ \A t \in held : Sweeping \/ (t = runToken /\ process[t] # "none")
  /\ \A t \in Tokens : t = runToken /\ step[Keeper(t)] = "done" => Failing

Orderly == Born /\ Turns /\ OwnerAt /\ Shown /\ HeldBy

LEMMA WatcherNames ==
  /\ Owner \notin Watchers /\ Threads = {Owner} \cup Watchers
  /\ \A t \in Tokens :
       /\ {Reader(t), Keeper(t), Dog(t)} \subseteq Watchers
       /\ Reader(t)[2] = t /\ Keeper(t)[2] = t /\ Dog(t)[2] = t
  /\ \A th \in Watchers : th[2] \in Tokens
  /\ \A th \in Watchers : \E t \in Tokens : th = Reader(t) \/ th = Keeper(t) \/ th = Dog(t)
  /\ Tokens \subseteq Nat \ {0}
BY LimitsAssumption DEF Threads, Watchers, Owner, Reader, Keeper, Dog, Tokens

LEMMA NumbersAre ==
  ASSUME NumbersOK PROVE runToken \in Nat /\ starting \in Nat /\ Tokens \subseteq Nat \ {0}
<1>1. Tokens \subseteq Nat \ {0}
  BY WatcherNames
<1>2. runToken \in Nat /\ starting \in {0} \cup Tokens
  BY DEF NumbersOK
<1>3. {0} \cup Tokens \subseteq Nat
  BY <1>1
<1>4. starting \in Nat
  BY <1>2, <1>3, Zenon
<1> QED BY <1>1, <1>2, <1>4, Zenon

LEMMA OneMoves ==
  ASSUME StepOK, NEW th \in Threads, NEW s \in Steps, Goto(th, s)
  PROVE  step'[th] = s /\ \A u \in Threads \ {th} : step'[u] = step[u]
BY DEF StepOK, Goto

Typed == StepOK /\ NumbersOK /\ TablesOK

(* Steps of the lock's holder alone leave the watching threads in place.   *)
LEMMA WatchersStand ==
  ASSUME \A th \in Watchers : step'[th] = step[th]
  PROVE  /\ Midway' <=> Midway
         /\ Failing' <=> Failing
         /\ Killing' <=> Killing
         /\ \A t \in Tokens : /\ step'[Reader(t)] = step[Reader(t)]
                              /\ step'[Keeper(t)] = step[Keeper(t)]
                              /\ step'[Dog(t)] = step[Dog(t)]
BY WatcherNames DEF Midway, Failing, Killing

(* Between starts and stops the sessions that no thread takes down are as  *)
(* the status says, and nothing is held by any other.                      *)
LEMMA AtRest ==
  ASSUME Typed, Orderly, Free, ~Midway
  PROVE  /\ ~Failing /\ ~Killing /\ ~Sweeping
         /\ status # "running" => ~Current /\ NoneAlive /\ held = {}
<1>1. ~Failing /\ ~Killing /\ ~Sweeping
  <2>1. step[Owner] \notin SweepSteps
    BY DEF Free, SweepSteps
  <2>2. \A th \in Watchers : step[th] \notin FailSteps \cup ExitSteps
    BY DEF Midway
  <2>3. \A th \in Watchers : step[th] \notin SweepSteps
    <3> SUFFICES ASSUME NEW th \in Watchers PROVE step[th] \notin SweepSteps
      OBVIOUS
    <3>1. PICK t \in Tokens : th = Reader(t) \/ th = Keeper(t) \/ th = Dog(t)
      BY WatcherNames
    <3>2. step[th] \in {"none", "idle", "done", "ask", "shake", "region"}
      BY <2>2, <3>1 DEF Orderly, Born
    <3> QED BY <3>2 DEF SweepSteps
  <2> QED BY <2>1, <2>2, <2>3, WatcherNames DEF Failing, Killing, Sweeping, FailSteps
<1>2. ASSUME status # "running" PROVE ~Current /\ NoneAlive
  BY <1>1, <1>2 DEF Orderly, Shown
<1>3. ASSUME status # "running", NEW t \in held PROVE FALSE
  <2>1. t \in Tokens /\ t = runToken /\ process[t] # "none"
    BY <1>1, <1>3 DEF Orderly, HeldBy, Typed, TablesOK
  <2>2. t <= starting /\ starting <= runToken
    BY <2>1 DEF Orderly, Born
  <2>3. Current
    BY <2>1, <2>2, LimitsAssumption DEF Current, Typed, NumbersOK, Tokens
  <2> QED BY <1>2, <1>3, <2>3
<1> QED BY <1>1, <1>2, <1>3

(* A start that goes ahead finds the plugin at rest. *)
LEMMA StartOrderly ==
  ASSUME Typed, Orderly, Free, ~Midway, StartInner, wanted',
         UNCHANGED <<status, pid, held, process>>
  PROVE  Orderly'
<1>0. runToken \in Nat /\ starting \in Nat /\ Tokens \subseteq Nat
  BY LimitsAssumption DEF Typed, NumbersOK, Tokens
<1>1. CASE status = "running"
  <2>1. UNCHANGED <<runToken, starting, step>>
    BY <1>1 DEF StartInner
  <2>2. Current' <=> Current
    BY <2>1 DEF Current
  <2>3. /\ Midway' <=> Midway
        /\ Failing' <=> Failing
        /\ Killing' <=> Killing
        /\ Sweeping' <=> Sweeping
    BY <2>1 DEF Midway, Failing, Killing, Sweeping
  <2>4. Born' /\ Turns' /\ HeldBy'
    BY <2>1, <2>2, <2>3 DEF Orderly, Born, Turns, HeldBy, Free, Alive
  <2>5. OwnerAt' /\ Shown'
    BY <1>1, <2>1, <2>2, <2>3 DEF Orderly, OwnerAt, Shown, Free, NoneAlive, Alive,
       StartSteps, StopSteps
  <2> QED BY <2>4, <2>5 DEF Orderly
<1>2. CASE status # "running"
  <2>1. /\ runToken' = runToken + 1 /\ starting' = runToken + 1 /\ starting' \in Tokens
        /\ step'[Owner] = "spawn"
        /\ \A th \in Watchers : step'[th] = step[th]
    BY <1>0, <1>2, OneMoves, WatcherNames, StepNames, LimitsAssumption DEF StartInner, Typed, Tokens
  <2>2. NoneAlive /\ held = {}
    BY <1>2, AtRest
  <2>3. process[starting'] = "none"
    BY <1>0, <2>1 DEF Orderly, Born, Tokens
  <2>4. Born'
    <3>1. \A t \in Tokens : /\ step'[Reader(t)] = step[Reader(t)]
                            /\ step'[Keeper(t)] = step[Keeper(t)]
                            /\ step'[Dog(t)] = step[Dog(t)]
      BY <2>1, WatchersStand
    <3>2. \A t \in Tokens : process[t] # "none" => t <= starting'
      BY <1>0, <2>1 DEF Orderly, Born
    <3>3. starting' <= runToken'
      BY <1>0, <2>1
    <3> QED BY <2>1, <2>2, <3>1, <3>2, <3>3 DEF Orderly, Born, NoneAlive, Alive, StartSteps
  <2>5. Turns'
    <3>1. ~Midway' /\ ~Current'
      BY <2>1, <2>3, WatchersStand DEF Current
    <3> QED BY <3>1 DEF Turns, Midway
  <2>6. OwnerAt'
    BY <2>1, <2>2, <2>3 DEF OwnerAt, StartSteps, StopSteps, NoneAlive, Alive
  <2>7. Shown'
    BY <2>1, <2>2 DEF Shown, NoneAlive, Alive, Free
  <2>8. HeldBy'
    BY <1>0, <2>1, <2>2, WatchersStand DEF HeldBy, Orderly, Born
  <2> QED BY <2>4, <2>5, <2>6, <2>7, <2>8 DEF Orderly
<1> QED BY <1>1, <1>2

(* While somebody holds the lock no watching thread takes anything down.   *)
LEMMA WatchersWait ==
  ASSUME Orderly, ~Free
  PROVE  ~Midway
BY DEF Orderly, Turns

LEMMA NoneSweeps ==
  ASSUME Orderly, ~Midway
  PROVE  /\ ~Failing /\ ~Killing
         /\ \A th \in Watchers : step[th] \notin SweepSteps
<1>2. ~Failing /\ ~Killing
  BY DEF Midway, Failing, Killing, FailSteps
<1>3. ASSUME NEW th \in Watchers PROVE step[th] \notin SweepSteps
  <2>1. PICK t \in Tokens : th = Reader(t) \/ th = Keeper(t) \/ th = Dog(t)
    BY WatcherNames
  <2>2. step[th] \in {"none", "idle", "done", "ask", "shake", "region"}
    BY <2>1 DEF Midway, Orderly, Born
  <2> QED BY <2>2 DEF SweepSteps
<1> QED BY <1>2, <1>3

(* The holder of the lock goes from its step to the next, the watching     *)
(* threads stay.                                                           *)
LEMMA OwnerMoves ==
  ASSUME StepOK, Orderly, ~Midway, NEW s \in Steps, Goto(Owner, s), UNCHANGED starting
  PROVE  /\ step'[Owner] = s
         /\ ~Midway /\ ~Midway' /\ ~Failing /\ ~Failing' /\ ~Killing
         /\ Sweeping <=> step[Owner] \in SweepSteps
         /\ Sweeping' <=> s \in SweepSteps
         /\ \A t \in Tokens : /\ step'[Reader(t)] = step[Reader(t)]
                              /\ step'[Keeper(t)] = step[Keeper(t)]
                              /\ step'[Dog(t)] = step[Dog(t)]
         /\ Turns'
<1>1. /\ step'[Owner] = s
      /\ \A th \in Watchers : step'[th] = step[th]
  BY OneMoves, WatcherNames
<1>2. /\ ~Failing /\ ~Killing
      /\ \A th \in Watchers : step[th] \notin SweepSteps
  BY NoneSweeps
<1>3. /\ ~Midway' /\ ~Failing'
      /\ \A t \in Tokens : /\ step'[Reader(t)] = step[Reader(t)]
                           /\ step'[Keeper(t)] = step[Keeper(t)]
                           /\ step'[Dog(t)] = step[Dog(t)]
  BY <1>1, <1>2, WatchersStand
<1>4. Turns'
  <2>1. \A th \in Watchers : step'[th] \notin FailSteps \cup ExitSteps
    BY <1>3 DEF Midway
  <2> QED BY <1>3, <2>1 DEF Turns, FailSteps, ExitSteps
<1>5. /\ Sweeping <=> step[Owner] \in SweepSteps
      /\ Sweeping' <=> s \in SweepSteps
  BY <1>1, <1>2, WatcherNames DEF Sweeping
<1> QED BY <1>1, <1>2, <1>3, <1>4, <1>5

LEMMA StopOrderly ==
  ASSUME Typed, Orderly, ~Midway, Stop
  PROVE  Orderly'
<1>0. runToken \in Nat /\ starting \in Nat /\ Tokens \subseteq Nat \ {0}
  BY WatcherNames DEF Typed, NumbersOK
<1> USE OwnerMoves, StepNames DEF Typed
<1>1. /\ "stopEnd" \in Steps /\ Goto(Owner, "stopEnd") /\ Free /\ wanted' = FALSE
      /\ UNCHANGED <<status, pid, runToken, held, process, starting>>
  BY DEF Stop, Take, tables, StopSteps
<1>2. Current' <=> Current
  BY <1>1 DEF Current
<1>3. Born' /\ Turns'
  BY <1>1 DEF Orderly, Born, Alive, StopSteps
<1>4. OwnerAt' /\ Shown'
  BY <1>1, <1>2 DEF Orderly, OwnerAt, Shown, Free, NoneAlive, Alive, StartSteps, StopSteps
<1>5. HeldBy'
  BY <1>1 DEF Orderly, HeldBy, Free, SweepSteps
<1> QED BY <1>3, <1>4, <1>5 DEF Orderly

LEMMA OwnerOrderly ==
  ASSUME Typed, Orderly, NotePid \/ Activate \/ StopDone
  PROVE  Orderly'
<1> USE WatchersWait, OwnerMoves, StepNames DEF Typed
<1>0. runToken \in Nat /\ starting \in Nat /\ Tokens \subseteq Nat \ {0}
  BY NumbersAre
<1>1. PICK s \in Steps : Goto(Owner, s) /\ s \notin SweepSteps
  BY DEF NotePid, Activate, StopDone, SweepSteps
<1>2. /\ ~Free /\ step[Owner] \notin SweepSteps
      /\ UNCHANGED <<runToken, held, process, starting, wanted>>
  BY DEF NotePid, Activate, StopDone, Free, SweepSteps, tables, history
<1>3. /\ step'[Owner] = s /\ s \in {"idle", "activate", "announce"}
      /\ Turns' /\ ~Sweeping /\ ~Sweeping'
      /\ step[Owner] # "notePid" => UNCHANGED pid
      /\ step[Owner] = "notePid" => pid' = starting
  BY <1>1, <1>2 DEF NotePid, Activate, StopDone, Goto
<1>4. Current' <=> Current
  BY <1>2 DEF Current
<1>5. Born'
  BY <1>0, <1>1, <1>2, <1>3 DEF Orderly, Born, Alive, OwnerAt, StartSteps
<1>6. OwnerAt'
  BY <1>1, <1>2, <1>3, <1>4 DEF Orderly, OwnerAt, NoneAlive, Alive, StartSteps, StopSteps,
     NotePid, Activate, StopDone
<1>7. Shown'
  BY <1>1, <1>2, <1>3, <1>4 DEF Orderly, OwnerAt, Born, Shown, Free, NoneAlive, Alive,
     StartSteps, StopSteps, NotePid, Activate, StopDone
<1>8. HeldBy'
  BY <1>1, <1>2, <1>3 DEF Orderly, HeldBy
<1> QED BY <1>3, <1>5, <1>6, <1>7, <1>8 DEF Orderly

(* The stop voids the session, kills its process and sweeps the tables.    *)
LEMMA OwnerTeardown ==
  ASSUME Typed, Orderly, Teardown(Owner)
  PROVE  Orderly'
<1> USE WatchersWait, OwnerMoves, StepNames DEF Typed
<1>0. /\ runToken \in Nat /\ starting \in Nat /\ Tokens \subseteq Nat \ {0}
      /\ pid \in {0} \cup Tokens /\ process \in [Tokens -> {"none", "alive", "dead"}]
  BY WatcherNames DEF NumbersOK, TablesOK
<1>1. step[Owner] \in {"idle"} \cup StartSteps \cup StopSteps
  BY DEF Orderly, Born
<1>2. CASE End(Owner)
  <2>1. /\ ~Free /\ Goto(Owner, "stopToken") /\ step[Owner] = "stopEnd" /\ "stopToken" \in Steps
        /\ UNCHANGED <<status, pid, runToken, held, process, starting, wanted>>
    BY <1>1, <1>2 DEF End, StartSteps, StopSteps, tables, history, Free
  <2>2. Current' <=> Current
    BY <2>1 DEF Current
  <2>3. Born' /\ Turns'
    BY <2>1 DEF Orderly, Born, Alive, StopSteps
  <2>4. OwnerAt' /\ Shown'
    BY <2>1, <2>2 DEF Orderly, OwnerAt, Shown, Free, NoneAlive, Alive, StartSteps, StopSteps
  <2>5. HeldBy'
    BY <2>1 DEF Orderly, HeldBy, Free, SweepSteps
  <2> QED BY <2>3, <2>4, <2>5 DEF Orderly
<1>3. CASE NextToken(Owner)
  <2>1. /\ ~Free /\ Goto(Owner, "kill") /\ step[Owner] = "stopToken" /\ "kill" \in Steps
        /\ runToken' = runToken + 1
        /\ UNCHANGED <<status, pid, held, process, starting, wanted>>
    BY <1>1, <1>3 DEF NextToken, StartSteps, StopSteps, tables, history, Free
  <2>2. ~Current'
    BY <1>0, <2>1 DEF Current, Orderly, Born
  <2>3. Born' /\ Turns'
    BY <1>0, <2>1 DEF Orderly, Born, Alive, StopSteps
  <2>4. OwnerAt' /\ Shown'
    BY <2>1, <2>2 DEF Orderly, OwnerAt, Shown, Free, NoneAlive, Alive, StartSteps, StopSteps
  <2>5. \A t \in Tokens : t = runToken' => step[Keeper(t)] = "none"
    BY <1>0, <2>1 DEF Orderly, Born
  <2>6. HeldBy'
    BY <2>1, <2>5 DEF Orderly, HeldBy, Free, SweepSteps
  <2> QED BY <2>3, <2>4, <2>6 DEF Orderly
<1>4. CASE Kill(Owner)
  <2>1. /\ ~Free /\ Goto(Owner, "release") /\ step[Owner] = "kill" /\ "release" \in Steps
        /\ pid' = 0 /\ process' = [t \in Tokens |-> IF t = pid THEN "dead" ELSE process[t]]
        /\ UNCHANGED <<status, runToken, held, starting, wanted>>
    BY <1>1, <1>4 DEF Kill, StartSteps, StopSteps, history, Free
  <2>2. NoneAlive'
    BY <2>1 DEF Orderly, Shown, NoneAlive, Alive
  <2>3. \A t \in Tokens : process'[t] = "none" <=> process[t] = "none"
    BY <1>0, <2>1 DEF Orderly, Born
  <2>4. ~Current'
    BY <2>1, <2>3 DEF Current, Orderly, OwnerAt
  <2>5. Born' /\ Turns'
    BY <2>1, <2>2, <2>3 DEF Orderly, Born, Alive, StopSteps, NoneAlive
  <2>6. OwnerAt' /\ Shown'
    BY <2>1, <2>2, <2>4 DEF Orderly, OwnerAt, Shown, Free, StartSteps, StopSteps, NoneAlive
  <2>7. HeldBy'
    BY <2>1, <2>3 DEF Orderly, HeldBy, Free, SweepSteps
  <2> QED BY <2>5, <2>6, <2>7 DEF Orderly
<1>5. CASE Release(Owner)
  <2>1. /\ ~Free /\ Goto(Owner, "stopDone") /\ step[Owner] = "release" /\ "stopDone" \in Steps
        /\ held' = {}
        /\ UNCHANGED <<status, pid, process, runToken, starting, wanted>>
    <3>1. Resume(Owner) = "stopDone"
      BY DEF Resume, Owner
    <3>2. step[Owner] # "exitRelease"
      BY <1>1 DEF StartSteps, StopSteps
    <3> QED BY <1>5, <3>1, <3>2 DEF Release, atomics, StopSteps, history, Free
  <2>2. Current' <=> Current
    BY <2>1 DEF Current
  <2>3. Born' /\ Turns'
    BY <2>1 DEF Orderly, Born, Alive, StopSteps
  <2>4. OwnerAt' /\ Shown'
    BY <2>1, <2>2 DEF Orderly, OwnerAt, Shown, Free, StartSteps, StopSteps, NoneAlive, Alive
  <2>5. HeldBy'
    BY <2>1 DEF Orderly, HeldBy
  <2> QED BY <2>3, <2>4, <2>5 DEF Orderly
<1>6. ~FailMark(Owner)
  BY <1>1 DEF FailMark, StartSteps, StopSteps
<1> QED BY <1>2, <1>3, <1>4, <1>5, <1>6 DEF Teardown

(* A process comes to be, with its reader and the thread that waits for it.*)
LEMMA SpawnOrderly ==
  ASSUME Typed, Orderly, Spawn
  PROVE  Orderly'
<1> USE DEF Typed
<1>0. /\ runToken \in Nat /\ starting \in Nat /\ Tokens \subseteq Nat \ {0}
      /\ process \in [Tokens -> {"none", "alive", "dead"}]
  BY WatcherNames DEF NumbersOK, TablesOK
<1>1. /\ ~Free /\ step[Owner] = "spawn" /\ wanted /\ process[starting] = "none" /\ NoneAlive
      /\ starting \in Tokens /\ runToken = starting /\ ~Midway
      /\ UNCHANGED <<status, pid, runToken, held, starting, wanted>>
  BY WatchersWait DEF Spawn, Free, atomics, history, Orderly, OwnerAt, StartSteps
<1>2. CASE Goto(Owner, "idle") /\ UNCHANGED process
  <2> USE OwnerMoves, StepNames
  <2>1. ~Current /\ ~Current' /\ NoneAlive'
    BY <1>1, <1>2 DEF Current, NoneAlive, Alive
  <2>2. Born' /\ Turns'
    BY <1>1, <1>2 DEF Orderly, Born, Alive
  <2>3. OwnerAt' /\ Shown'
    BY <1>1, <1>2, <2>1 DEF Orderly, OwnerAt, Shown, Free, StartSteps, StopSteps, NoneAlive, Alive
  <2>4. HeldBy'
    BY <1>1, <1>2 DEF Orderly, HeldBy, SweepSteps
  <2> QED BY <2>2, <2>3, <2>4 DEF Orderly
<1>3. CASE /\ process' = [process EXCEPT ![starting] = "alive"]
           /\ step' = [step EXCEPT ![Owner] = "notePid", ![Reader(starting)] = "idle",
                                   ![Keeper(starting)] = "idle"]
  <2>1. /\ step'[Owner] = "notePid"
        /\ step'[Reader(starting)] = "idle" /\ step'[Keeper(starting)] = "idle"
        /\ \A th \in Watchers \ {Reader(starting), Keeper(starting)} : step'[th] = step[th]
    BY <1>0, <1>1, <1>3, ThreadNames, WatcherNames, Distinct DEF StepOK
  <2>2. /\ \A t \in Tokens \ {starting} : /\ step'[Reader(t)] = step[Reader(t)]
                                         /\ step'[Keeper(t)] = step[Keeper(t)]
        /\ \A t \in Tokens : step'[Dog(t)] = step[Dog(t)]
    BY <1>0, <1>1, <2>1, WatcherNames, Distinct
  <2>3. /\ process'[starting] = "alive"
        /\ \A t \in Tokens \ {starting} : process'[t] = process[t]
    BY <1>0, <1>1, <1>3
  <2>4. ~Midway'
    BY <1>1, <2>1 DEF Midway, FailSteps, ExitSteps
  <2>5. Born'
    <3>1. ASSUME NEW t \in Tokens
          PROVE  /\ step'[Reader(t)] \in {"none", "idle", "done", "ask", "shake", "region"} \cup FailSteps
                 /\ step'[Keeper(t)] \in {"none", "idle", "done"} \cup ExitSteps
                 /\ step'[Dog(t)] \in {"none", "idle", "done"} \cup FailSteps
                 /\ process'[t] = "none" =>
                      /\ step'[Reader(t)] = "none" /\ step'[Keeper(t)] = "none"
                      /\ step'[Dog(t)] = "none"
                 /\ process'[t] # "none" => t <= starting'
                 /\ Alive(t)' => t = starting' /\ step'[Keeper(t)] = "idle"
      BY <1>0, <1>1, <2>1, <2>2, <2>3 DEF Orderly, Born, NoneAlive, Alive
    <3>2. pid' # 0 => process'[pid'] # "none"
      BY <1>0, <1>1, <2>3 DEF Orderly, Born, NumbersOK
    <3> QED BY <1>1, <2>1, <3>1, <3>2 DEF Orderly, Born, StartSteps
  <2>6. Turns'
    BY <2>4 DEF Turns, Midway, FailSteps, ExitSteps
  <2>7. OwnerAt' /\ Shown'
    BY <1>1, <2>1, <2>3 DEF OwnerAt, Shown, Free, StartSteps, StopSteps
  <2>8. HeldBy'
    <3>1. held = {} 
      <4>1. ~Sweeping
        BY <1>1, NoneSweeps, WatcherNames DEF Sweeping, SweepSteps
      <4> QED BY <1>1, <4>1 DEF Orderly, HeldBy
    <3> QED BY <1>1, <2>1, <2>2, <2>3, <3>1 DEF HeldBy
  <2> QED BY <2>5, <2>6, <2>7, <2>8 DEF Orderly
<1> QED BY <1>2, <1>3 DEF Spawn

(* The start is announced, and its timer runs. *)
LEMMA AnnounceOrderly ==
  ASSUME Typed, Orderly, Announce
  PROVE  Orderly'
<1> USE DEF Typed
<1>0. /\ runToken \in Nat /\ starting \in Nat /\ Tokens \subseteq Nat \ {0}
  BY NumbersAre
<1>1. /\ ~Free /\ step[Owner] = "announce" /\ wanted /\ process[starting] # "none"
      /\ starting \in Tokens /\ runToken = starting /\ ~Midway /\ status' = "running"
      /\ UNCHANGED <<pid, process, runToken, held, starting, wanted>>
  BY WatchersWait DEF Announce, Free, tables, history, Orderly, OwnerAt, StartSteps
<1>2. /\ step'[Owner] = "idle" /\ step'[Dog(starting)] = "idle"
      /\ \A th \in Watchers \ {Dog(starting)} : step'[th] = step[th]
  BY <1>0, <1>1, ThreadNames, WatcherNames, Distinct DEF StepOK, Announce
<1>3. /\ \A t \in Tokens \ {starting} : step'[Dog(t)] = step[Dog(t)]
      /\ \A t \in Tokens : /\ step'[Reader(t)] = step[Reader(t)]
                           /\ step'[Keeper(t)] = step[Keeper(t)]
  <2>1. ASSUME NEW t \in Tokens \ {starting} PROVE step'[Dog(t)] = step[Dog(t)]
    BY <1>0, <1>1, <1>2, WatcherNames, Distinct
  <2>2. ASSUME NEW t \in Tokens
        PROVE  step'[Reader(t)] = step[Reader(t)] /\ step'[Keeper(t)] = step[Keeper(t)]
    <3>1. Reader(t) # Dog(starting) /\ Keeper(t) # Dog(starting)
      BY <1>0, Distinct
    <3> QED BY <1>2, <3>1, WatcherNames
  <2> QED BY <2>1, <2>2
<1>4. ~Midway'
  BY <1>1, <1>2 DEF Midway, FailSteps, ExitSteps
<1>5. Born'
  BY <1>1, <1>2, <1>3 DEF Orderly, Born, Alive
<1>6. Turns'
  BY <1>4 DEF Turns, Midway, FailSteps, ExitSteps
<1>7. OwnerAt' /\ Shown'
  BY <1>1, <1>2 DEF Orderly, OwnerAt, Shown, StartSteps, StopSteps, Alive
<1>8. HeldBy'
  <2>1. ~Sweeping /\ ~Failing
    BY <1>1, NoneSweeps, WatcherNames DEF Sweeping, SweepSteps
  <2> QED BY <1>1, <1>2, <1>3, <2>1 DEF Orderly, HeldBy
<1> QED BY <1>5, <1>6, <1>7, <1>8 DEF Orderly

(* What a watching thread's move does to the sets of threads: it moves     *)
(* alone.                                                                  *)
LEMMA WatcherMoves ==
  ASSUME StepOK, NEW th \in Watchers, NEW s \in Steps, Goto(th, s)
  PROVE  /\ step'[th] = s /\ step'[Owner] = step[Owner]
         /\ \A u \in Watchers \ {th} : step'[u] = step[u]
         /\ Free' <=> Free
BY OneMoves, WatcherNames DEF Free

(* A watching thread of a session that has a process moves within its own  *)
(* steps.                                                                  *)
LEMMA WatcherBorn ==
  ASSUME Typed, Born, NEW u \in Tokens, NEW th \in {Reader(u), Keeper(u), Dog(u)},
         NEW s \in Steps, Goto(th, s), process[u] # "none",
         th = Reader(u) =>
           s \in {"none", "idle", "done", "ask", "shake", "region"} \cup FailSteps,
         th = Keeper(u) => s \in {"none", "idle", "done"} \cup ExitSteps /\ ~Alive(u),
         th = Dog(u) => s \in {"none", "idle", "done"} \cup FailSteps,
         UNCHANGED starting, runToken' \in {runToken, runToken + 1},
         pid' = pid \/ pid' = 0,
         \A t \in Tokens : process'[t] = "none" <=> process[t] = "none",
         \A t \in Tokens : Alive(t)' => Alive(t)
  PROVE  Born'
<1> USE DEF Typed
<1>0. runToken \in Nat /\ starting \in Nat /\ Tokens \subseteq Nat
  BY NumbersAre
<1>1. /\ th \in Watchers /\ step'[th] = s /\ step'[Owner] = step[Owner]
      /\ \A w \in Watchers \ {th} : step'[w] = step[w]
  BY WatcherMoves, WatcherNames
<1>2. /\ starting' <= runToken'
      /\ pid' # 0 => process'[pid'] # "none"
  BY <1>0 DEF Born, NumbersOK
<1>3. ASSUME NEW t \in Tokens \ {u}
      PROVE  /\ step'[Reader(t)] = step[Reader(t)] /\ step'[Keeper(t)] = step[Keeper(t)]
             /\ step'[Dog(t)] = step[Dog(t)]
  BY <1>0, <1>1, WatcherNames, Distinct
<1>4. /\ th # Reader(u) => step'[Reader(u)] = step[Reader(u)]
      /\ th # Keeper(u) => step'[Keeper(u)] = step[Keeper(u)]
      /\ th # Dog(u) => step'[Dog(u)] = step[Dog(u)]
  BY <1>1, WatcherNames
<1> QED BY <1>1, <1>2, <1>3, <1>4 DEF Born

(* Where a thread that takes the plugin down stands.                       *)
LEMMA TakesDown ==
  ASSUME Typed, Orderly, NEW th \in Watchers, step[th] \in FailSteps \cup ExitSteps
  PROVE  /\ Free /\ Midway /\ wanted
         /\ \E u \in Tokens : /\ u = starting /\ process[u] # "none"
                              /\ \/ th \in {Reader(u), Dog(u)} /\ step[th] \in FailSteps
                                 \/ th = Keeper(u) /\ step[th] \in ExitSteps /\ ~Alive(u)
<1>1. PICK u \in Tokens : th = Reader(u) \/ th = Keeper(u) \/ th = Dog(u)
  BY WatcherNames
<1>2. Free /\ Midway /\ u = starting
  BY <1>1, WatcherNames DEF Orderly, Turns, Midway
<1>3. wanted
  BY <1>2 DEF Orderly, Shown
<1>4. \/ th \in {Reader(u), Dog(u)} /\ step[th] \in FailSteps
      \/ th = Keeper(u) /\ step[th] \in ExitSteps /\ ~Alive(u)
  <2>1. {"none", "idle", "done", "ask", "shake", "region"} \cap (FailSteps \cup ExitSteps) = {}
    BY DEF FailSteps, ExitSteps
  <2>2. th = Keeper(u) => step[th] \in ExitSteps /\ step[th] # "idle"
    BY <2>1 DEF Orderly, Born
  <2>3. th = Keeper(u) => ~Alive(u)
    BY <2>2 DEF Orderly, Born
  <2>4. th = Reader(u) \/ th = Dog(u) => step[th] \in FailSteps
    BY <2>1 DEF Orderly, Born
  <2> QED BY <1>1, <2>2, <2>3, <2>4
<1>5. process[u] # "none"
  BY <1>1 DEF Orderly, Born, FailSteps, ExitSteps
<1> QED BY <1>2, <1>3, <1>4, <1>5

(* A watching thread takes the plugin down, step by step.                  *)
LEMMA WatcherTeardown ==
  ASSUME Typed, Orderly, NEW th \in Watchers, Teardown(th)
  PROVE  Orderly'
<1> USE DEF Typed
<1>0. /\ runToken \in Nat /\ starting \in Nat /\ Tokens \subseteq Nat \ {0}
      /\ pid \in {0} \cup Tokens /\ process \in [Tokens -> {"none", "alive", "dead"}]
  BY WatcherNames DEF NumbersOK, TablesOK
<1>1. step[th] \in FailSteps \cup ExitSteps
  <2>1. PICK t \in Tokens : th = Reader(t) \/ th = Keeper(t) \/ th = Dog(t)
    BY WatcherNames
  <2>2. step[th] \in {"none", "idle", "done", "ask", "shake", "region"} \cup FailSteps \cup ExitSteps
    BY <2>1 DEF Orderly, Born
  <2> QED BY <2>2 DEF Teardown, End, FailMark, NextToken, Kill, Release
<1>2. /\ Free /\ Midway /\ wanted
      /\ \E u \in Tokens : /\ u = starting /\ process[u] # "none"
                           /\ \/ th \in {Reader(u), Dog(u)} /\ step[th] \in FailSteps
                              \/ th = Keeper(u) /\ step[th] \in ExitSteps /\ ~Alive(u)
  BY <1>1, TakesDown
<1>3. PICK u \in Tokens : /\ u = starting /\ process[u] # "none"
                          /\ \/ th \in {Reader(u), Dog(u)} /\ step[th] \in FailSteps
                             \/ th = Keeper(u) /\ step[th] \in ExitSteps /\ ~Alive(u)
  BY <1>2
<1>4. th # Owner /\ th \in Threads /\ th[2] = starting
  BY <1>3, WatcherNames
(* The five ways a step goes, by where it leaves the thread. *)
<1>5. PICK s \in Steps :
        /\ Goto(th, s)
        /\ \/ /\ \/ step[th] = "failEnd" /\ s = "failMark"
                 \/ step[th] = "exitEnd" /\ s = "exitToken"
              /\ UNCHANGED <<status, pid, runToken, held, process>>
           \/ /\ step[th] = "failMark" /\ s = "failToken" /\ status' = "failed"
              /\ UNCHANGED <<pid, runToken, held, process>>
           \/ /\ \/ step[th] = "failToken" /\ s = "kill"
                 \/ step[th] = "exitToken" /\ s = "exitRelease"
              /\ runToken' = runToken + 1
              /\ UNCHANGED <<status, pid, held, process>>
           \/ /\ step[th] = "kill" /\ s = "release" /\ pid' = 0
              /\ process' = [t \in Tokens |-> IF t = pid THEN "dead" ELSE process[t]]
              /\ UNCHANGED <<status, runToken, held>>
           \/ /\ \/ step[th] = "release" /\ th # Keeper(u) /\ s \in {"idle", "done"}
                 \/ step[th] = "exitRelease" /\ s = "exitCount"
              /\ held' = {}
              /\ UNCHANGED <<status, pid, runToken, process>>
  <2>1. Resume(th) \in {"idle", "done"} /\ {"idle", "done"} \subseteq Steps
    BY <1>4, StepNames DEF Resume
  <2>2. step[th] # "stopEnd" /\ step[th] # "stopToken"
    BY <1>1 DEF FailSteps, ExitSteps
  <2>3. step[th] = "release" => th # Keeper(u)
    BY <1>3, WatcherNames DEF ExitSteps, FailSteps, Reader, Keeper, Dog
  <2>4. {"failMark", "exitToken", "failToken", "kill", "exitRelease", "release", "exitCount"}
           \subseteq Steps
    BY StepNames DEF FailSteps, ExitSteps
  <2>5. CASE End(th)
    BY <2>2, <2>4, <2>5 DEF End, tables
  <2>6. CASE FailMark(th)
    BY <2>2, <2>4, <2>6 DEF FailMark, tables
  <2>7. CASE NextToken(th)
    BY <2>2, <2>4, <2>7 DEF NextToken, tables
  <2>8. CASE Kill(th)
    BY <2>2, <2>4, <2>8 DEF Kill
  <2>9. CASE Release(th)
    BY <2>1, <2>3, <2>4, <2>9 DEF Release, atomics
  <2> QED BY <2>5, <2>6, <2>7, <2>8, <2>9 DEF Teardown
<1>6. UNCHANGED <<starting, wanted>>
  BY DEF Teardown, End, FailMark, NextToken, Kill, Release, history
<1>7. /\ runToken' \in {runToken, runToken + 1}
      /\ pid' = pid \/ pid' = 0
      /\ \A t \in Tokens : process'[t] = "none" <=> process[t] = "none"
      /\ \A t \in Tokens : Alive(t)' => Alive(t)
  <2>1. \A t \in Tokens : process'[t] = process[t] \/ (t = pid /\ process'[t] = "dead")
    BY <1>5
  <2>2. pid \in Tokens => process[pid] # "none"
    BY <1>0 DEF Orderly, Born
  <2> QED BY <1>5, <2>1, <2>2 DEF Alive
<1>8. ~Current => ~Current'
  BY <1>0, <1>6, <1>7 DEF Current, Orderly, Born
<1>9. /\ step'[th] = s /\ step'[Owner] = step[Owner] /\ Free'
      /\ \A w \in Watchers \ {th} : step'[w] = step[w]
  BY <1>2, <1>5, WatcherMoves
<1>10. Born'
  <2>1. /\ th = Reader(u) => s \in {"idle", "done"} \cup FailSteps
        /\ th = Dog(u) => s \in {"idle", "done"} \cup FailSteps
        /\ th = Keeper(u) => s \in ExitSteps /\ ~Alive(u)
        /\ th \in {Reader(u), Keeper(u), Dog(u)}
    BY <1>3, <1>5, WatcherNames DEF FailSteps, ExitSteps, Reader, Keeper, Dog
  <2> QED BY <1>3, <1>5, <1>6, <1>7, <2>1, WatcherBorn DEF Orderly
<1>11. OwnerAt'
  BY <1>9 DEF OwnerAt, Free, StartSteps, StopSteps
<1>12. s \in {"kill", "release", "exitRelease", "exitCount"} => ~Current'
  <2>1. step[th] \in {"failToken", "exitToken"} => ~Current'
    BY <1>0, <1>5, <1>6, <1>7 DEF Current, Orderly, Born
  <2>2. step[th] \in {"kill", "exitRelease"} => ~Current
    BY DEF Orderly, Turns
  <2> QED BY <1>5, <1>8, <2>1, <2>2
<1>13. Turns'
  BY <1>4, <1>5, <1>6, <1>8, <1>9, <1>12 DEF Orderly, Turns
<1>14. Failing => Failing' \/ ~Current'
  <2>1. step[th] = "failToken" => ~Current'
    BY <1>5, <1>12
  <2> QED BY <1>9, <2>1 DEF Failing
<1>15. Killing => Killing' \/ NoneAlive'
  <2>1. step[th] = "kill" => NoneAlive'
    BY <1>2, <1>5 DEF Orderly, Shown, Free, NoneAlive, Alive
  <2>2. step[th] = "failToken" => s = "kill"
    BY <1>5
  <2> QED BY <1>9, <2>1, <2>2 DEF Killing
<1>16. s = "failToken" => Failing' /\ Killing'
  BY <1>9 DEF Failing, Killing
<1>17. Shown'
  <2>1. NoneAlive => NoneAlive'
    BY <1>7 DEF NoneAlive
  <2>2. \A t \in Tokens : Alive(t)' => pid' = t
    BY <1>2, <1>5, <1>7 DEF Orderly, Shown, Free, Alive
  <2>3. Current' => status' = "running" \/ Failing'
    BY <1>2, <1>5, <1>8, <1>14, <1>16 DEF Orderly, Shown
  <2>4. NoneAlive' \/ status' = "running" \/ Killing'
    BY <1>2, <1>5, <1>15, <1>16, <2>1 DEF Orderly, Shown
  <2> QED BY <1>2, <1>6, <2>2, <2>3, <2>4 DEF Shown
<1>18. HeldBy'
  <2>1. held' = {} \/ (held' = held /\ Sweeping')
    BY <1>4, <1>5, <1>9 DEF Sweeping, SweepSteps
  <2>2. ASSUME NEW t \in Tokens, t = runToken', step'[Keeper(t)] = "done" PROVE Failing'
    <3>0. th # Keeper(t)
      <4>1. th = Keeper(t) => t = u /\ s = "done"
        BY <1>3, <1>4, <1>9, <2>2, WatcherNames
      <4> QED BY <1>5, <4>1
    <3>1. step[Keeper(t)] = "done"
      BY <1>9, <2>2, <3>0, WatcherNames
    <3>2. process[t] # "none" /\ t <= starting
      BY <3>1 DEF Orderly, Born
    <3>3. runToken' = runToken
      BY <1>0, <1>7, <2>2, <3>2 DEF Orderly, Born
    <3>4. Failing /\ step[th] # "failToken"
      BY <1>5, <2>2, <3>1, <3>3, <1>0 DEF Orderly, HeldBy
    <3> QED BY <1>9, <3>4 DEF Failing
  <2> QED BY <2>1, <2>2 DEF HeldBy
<1> QED BY <1>10, <1>11, <1>13, <1>17, <1>18 DEF Orderly

(* A reader or a timer moves on; it takes the plugin down only for the     *)
(* current session and with nobody at the lock, and books only for it.     *)
LEMMA WatcherOrderly ==
  ASSUME Typed, Orderly, NEW u \in Tokens, NEW th \in {Reader(u), Dog(u)},
         step[th] \in {"idle", "ask", "shake", "region"}, NEW s \in Steps, Goto(th, s),
         s \in {"idle", "done", "failEnd"} \/ (th = Reader(u) /\ s \in {"ask", "shake", "region"}),
         s = "failEnd" => Free /\ u = runToken,
         UNCHANGED <<status, pid, runToken, process, starting, wanted>>,
         held' = held \/ (u = runToken /\ held' = held \cup {u})
  PROVE  Orderly'
<1> USE DEF Typed
<1>0. runToken \in Nat /\ starting \in Nat /\ Tokens \subseteq Nat \ {0}
  BY NumbersAre
<1>1. /\ th \in Watchers /\ th \in Threads /\ th[2] = u
      /\ \A t \in Tokens : th # Keeper(t)
  BY <1>0, WatcherNames, Distinct
<1>2. process[u] # "none" /\ u <= starting
  BY DEF Orderly, Born
<1>3. u = runToken => u = starting /\ Current
  BY <1>0, <1>2 DEF Orderly, Born, Current
<1>4. /\ step'[th] = s /\ step'[Owner] = step[Owner] /\ Free' = Free
      /\ \A w \in Watchers \ {th} : step'[w] = step[w]
  BY <1>1, WatcherMoves DEF Free
<1>5. Current' <=> Current
  BY DEF Current
<1>6. step[th] \notin FailSteps \cup ExitSteps \cup SweepSteps
  BY DEF FailSteps, ExitSteps, SweepSteps
<1>7. Born'
  <2>1. /\ th = Reader(u) => s \in {"idle", "done", "ask", "shake", "region"} \cup FailSteps
        /\ th = Dog(u) => s \in {"idle", "done"} \cup FailSteps
    BY DEF FailSteps, Reader, Dog
  <2>2. th \in {Reader(u), Keeper(u), Dog(u)}
    OBVIOUS
  <2> QED BY <1>1, <1>2, <2>1, <2>2, WatcherBorn DEF Orderly, Alive
<1>8. /\ Midway => Midway'
      /\ Midway' => Midway \/ s = "failEnd"
  BY <1>1, <1>4, <1>6 DEF Midway, FailSteps, ExitSteps
<1>9. /\ Failing' <=> Failing
      /\ Killing' <=> Killing
  BY <1>1, <1>4, <1>6 DEF Failing, Killing, FailSteps
<1>10. Sweeping' <=> Sweeping
  <2>1. s \notin SweepSteps
    BY DEF SweepSteps
  <2>2. \A w \in Threads \ {th} : step'[w] = step[w]
    BY <1>4, WatcherNames
  <2> QED BY <1>1, <1>4, <1>6, <2>1, <2>2 DEF Sweeping
<1>11. Turns'
  BY <1>1, <1>3, <1>4, <1>5, <1>8 DEF Orderly, Turns, FailSteps, ExitSteps
<1>12. OwnerAt'
  BY <1>4, <1>5 DEF Orderly, OwnerAt, NoneAlive, Alive
<1>13. Shown'
  BY <1>3, <1>4, <1>5, <1>8, <1>9 DEF Orderly, Shown, NoneAlive, Alive
<1>14. HeldBy'
  <2>1. \A t \in Tokens : step'[Keeper(t)] = step[Keeper(t)]
    BY <1>1, <1>4, WatcherNames
  <2>2. ASSUME NEW t \in held' PROVE Sweeping \/ (t = runToken /\ process[t] # "none")
    BY <1>2, <2>2 DEF Orderly, HeldBy
  <2> QED BY <1>9, <1>10, <2>1, <2>2 DEF Orderly, HeldBy
<1> QED BY <1>7, <1>11, <1>12, <1>13, <1>14 DEF Orderly

(* A process dies. *)
LEMMA CrashOrderly ==
  ASSUME Typed, Orderly, NEW u \in Tokens, Crash(u)
  PROVE  Orderly'
<1> USE DEF Typed
<1>1. /\ \A t \in Tokens : process'[t] = "none" <=> process[t] = "none"
      /\ \A t \in Tokens : Alive(t)' => Alive(t)
      /\ NoneAlive => NoneAlive'
  BY DEF Crash, TablesOK, Alive, NoneAlive
<1>2. UNCHANGED <<status, pid, runToken, held, step, starting, wanted>>
  BY DEF Crash, atomics, history
<1>3. Current' <=> Current
  BY <1>1, <1>2 DEF Current
<1>4. /\ Midway' <=> Midway
      /\ Failing' <=> Failing
      /\ Killing' <=> Killing
      /\ Sweeping' <=> Sweeping
  BY <1>2 DEF Midway, Failing, Killing, Sweeping
<1>5. Born'
  <2>1. pid' # 0 => process'[pid'] # "none"
    BY <1>1, <1>2 DEF NumbersOK, Orderly, Born
  <2> QED BY <1>1, <1>2, <2>1 DEF Orderly, Born
<1>6. Turns' /\ HeldBy'
  BY <1>1, <1>2, <1>3, <1>4 DEF Orderly, Turns, HeldBy, Free, TablesOK
<1>7. OwnerAt' /\ Shown'
  BY <1>1, <1>2, <1>3, <1>4 DEF Orderly, OwnerAt, Shown, Free, StartSteps
<1> QED BY <1>5, <1>6, <1>7 DEF Orderly

(* The exit of a process is reported. *)
LEMMA TerminatedOrderly ==
  ASSUME Typed, Orderly, NEW u \in Tokens, Terminated(u), ~late'
  PROVE  Orderly'
<1> USE DEF Typed
<1>0. runToken \in Nat /\ starting \in Nat /\ Tokens \subseteq Nat \ {0}
  BY NumbersAre
<1>1. /\ step[Keeper(u)] = "idle" /\ step[Reader(u)] = "idle" /\ process[u] = "dead"
      /\ UNCHANGED <<status, pid, runToken, process, held, starting, wanted>>
  BY DEF Terminated, atomics, tables
<1>2. u = runToken => Free
  BY Zenon DEF Terminated
<1>3. u = runToken => u = starting /\ Current
  BY <1>0, <1>1 DEF Orderly, Born, Current
<1>4. /\ step'[Reader(u)] = "done"
      /\ step'[Keeper(u)] = IF u # runToken \/ status \in {"stopped", "failed", "broken"}
                              THEN "done" ELSE "exitPid"
      /\ step'[Owner] = step[Owner]
      /\ \A w \in Watchers \ {Reader(u), Keeper(u)} : step'[w] = step[w]
  BY <1>0, ThreadNames, WatcherNames, Distinct DEF Terminated, StepOK
<1>5. Current' <=> Current
  BY <1>1 DEF Current
<1>6. /\ \A t \in Tokens \ {u} : /\ step'[Reader(t)] = step[Reader(t)]
                                /\ step'[Keeper(t)] = step[Keeper(t)]
      /\ \A t \in Tokens : step'[Dog(t)] = step[Dog(t)]
  BY <1>0, <1>4, WatcherNames, Distinct
<1>7. Free' <=> Free
  BY <1>4 DEF Free
<1>8. Born'
  BY <1>1, <1>4, <1>6 DEF Orderly, Born, Alive, ExitSteps
<1>9. /\ Midway => Midway'
      /\ Midway' => Midway \/ u = runToken
      /\ Failing' <=> Failing
      /\ Killing' <=> Killing
  <2>1. \A w \in Watchers : w # Reader(u) /\ w # Keeper(u) => step'[w] = step[w]
    BY <1>4
  <2>2. Midway => Midway'
    BY <1>1, <1>4, <2>1 DEF Midway, FailSteps, ExitSteps
  <2>3. Midway' => Midway \/ u = runToken
    BY <1>1, <1>4, <2>1 DEF Midway, FailSteps, ExitSteps
  <2>4. (Failing' <=> Failing) /\ (Killing' <=> Killing)
    BY <1>1, <1>4, <2>1, WatcherNames DEF Failing, Killing
  <2> QED BY <2>2, <2>3, <2>4
<1>10. Sweeping => Sweeping'
  <2>1. \A w \in Threads : step[w] \in SweepSteps => step'[w] = step[w]
    BY <1>1, <1>4, WatcherNames DEF SweepSteps
  <2> QED BY <2>1, SweepersStay
<1>11. Turns'
  <2>1. ASSUME NEW w \in Watchers, step'[w] \in FailSteps \cup ExitSteps PROVE w[2] = starting
    <3>1. w # Reader(u)
      BY <1>4, <2>1 DEF FailSteps, ExitSteps
    <3>2. CASE w = Keeper(u)
      BY <1>3, <1>4, <2>1, <3>2, WatcherNames DEF FailSteps, ExitSteps
    <3> QED BY <1>4, <2>1, <3>1, <3>2 DEF Orderly, Turns
  <2>2. ASSUME NEW w \in Watchers,
               step'[w] \in {"kill", "release", "exitRelease", "exitCount", "exitArm"}
        PROVE  ~Current
    <3>1. w # Reader(u) /\ w # Keeper(u)
      BY <1>4, <2>2
    <3> QED BY <1>4, <2>2, <3>1 DEF Orderly, Turns
  <2> QED BY <1>1, <1>2, <1>5, <1>7, <1>9, <2>1, <2>2 DEF Orderly, Turns
<1>12. OwnerAt'
  BY <1>1, <1>4, <1>5 DEF Orderly, OwnerAt, NoneAlive, Alive
<1>13. Shown'
  BY <1>1, <1>3, <1>4, <1>5, <1>7, <1>9 DEF Orderly, Shown, NoneAlive, Alive
<1>14. HeldBy'
  <2>1. u = runToken /\ step'[Keeper(u)] = "done" => Failing
    BY <1>2, <1>3, <1>4 DEF Orderly, Shown
  <2> QED BY <1>1, <1>6, <1>9, <1>10, <2>1 DEF Orderly, HeldBy
<1> QED BY <1>8, <1>11, <1>12, <1>13, <1>14 DEF Orderly

(* The rest of an exit: the pid, the count of crashes and the restart.     *)
LEMMA ExitOrderly ==
  ASSUME Typed, Orderly, NEW u \in Tokens, Exit(u)
  PROVE  Orderly'
<1> USE DEF Typed
<1> DEFINE th == Keeper(u)
<1>0. runToken \in Nat /\ starting \in Nat /\ Tokens \subseteq Nat \ {0}
  BY NumbersAre
<1>1. th \in Watchers /\ th \in Threads /\ th[2] = u
  BY WatcherNames
<1>2. PICK s \in Steps :
        /\ Goto(th, s)
        /\ \/ step[th] = "exitPid" /\ s = "exitEnd" /\ pid' = 0 /\ UNCHANGED status
           \/ step[th] = "exitCount" /\ s \in {"exitArm", "done"} /\ UNCHANGED pid
           \/ step[th] = "exitArm" /\ s = "done" /\ UNCHANGED <<pid, status>>
  BY StepNames DEF Exit, ExitPid, ExitCount, ExitArm, ExitSteps, atomics
<1>3. UNCHANGED <<runToken, process, held, starting, wanted>>
  BY DEF Exit, ExitPid, ExitCount, ExitArm, atomics, tables, history
<1>4. step[th] \in ExitSteps /\ s \in {"done"} \cup ExitSteps
  BY <1>2 DEF ExitSteps
<1>5. /\ Free /\ Midway /\ wanted /\ u = starting /\ process[u] # "none" /\ ~Alive(u)
  BY <1>0, <1>1, <1>4, TakesDown, WatcherNames, Distinct
<1>6. NoneAlive /\ NoneAlive'
  BY <1>3, <1>5 DEF Orderly, Born, NoneAlive, Alive
<1>7. /\ step'[th] = s /\ step'[Owner] = step[Owner] /\ Free'
      /\ \A w \in Watchers \ {th} : step'[w] = step[w]
  BY <1>1, <1>2, <1>5, WatcherMoves
<1>8. Current' <=> Current
  BY <1>3 DEF Current
<1>9. step[th] \in {"exitCount", "exitArm"} => ~Current
  BY <1>1 DEF Orderly, Turns
<1>10. Born'
  <2>1. th \in {Reader(u), Keeper(u), Dog(u)} /\ th # Reader(u) /\ th # Dog(u)
    BY <1>0, Distinct
  <2>2. pid' = pid \/ pid' = 0
    BY <1>2
  <2>3. \A t \in Tokens : /\ process'[t] = "none" <=> process[t] = "none"
                          /\ Alive(t)' => Alive(t)
    BY <1>3 DEF Alive
  <2> HIDE DEF th
  <2> QED BY <1>2, <1>3, <1>4, <1>5, <2>1, <2>2, <2>3, WatcherBorn DEF Orderly, th
<1> HIDE DEF th
<1>11. Turns'
  BY <1>1, <1>2, <1>3, <1>5, <1>7, <1>8, <1>9 DEF Orderly, Turns
<1>12. OwnerAt'
  BY <1>7 DEF OwnerAt, Free, StartSteps, StopSteps
<1>13. Failing => Failing'
  <2>1. step[th] # "failToken"
    BY <1>4 DEF ExitSteps
  <2> QED BY <1>7, <2>1 DEF Failing
<1>14. Shown'
  BY <1>2, <1>3, <1>5, <1>6, <1>7, <1>8, <1>9, <1>13 DEF Orderly, Shown, NoneAlive
<1>15. HeldBy'
  <2>1. Sweeping => Sweeping'
    <3>1. step[th] \notin SweepSteps
      BY <1>2 DEF SweepSteps
    <3> QED BY <1>1, <1>2, <3>1, SweepGoesOn
  <2>2. ASSUME NEW t \in Tokens, t = runToken, step'[Keeper(t)] = "done" PROVE Failing'
    <3>1. CASE Keeper(t) = th
      <4>1. t = u
        BY <1>1, <3>1, WatcherNames
      <4>2. ~Current
        BY <1>2, <1>7, <1>9, <2>2, <3>1
      <4> QED BY <1>3, <1>5, <2>2, <4>1, <4>2 DEF Current
    <3>2. CASE Keeper(t) # th
      BY <1>7, <1>13, <2>2, <3>2, WatcherNames DEF Orderly, HeldBy
    <3> QED BY <3>1, <3>2
  <2> QED BY <1>3, <2>1, <2>2 DEF Orderly, HeldBy
<1> QED BY <1>10, <1>11, <1>12, <1>14, <1>15 DEF Orderly

LEMMA IdleOrderly ==
  ASSUME Orderly, UNCHANGED <<status, pid, runToken, process, held, step, starting, wanted>>
  PROVE  Orderly'
<1>1. Current' <=> Current
  BY DEF Current
<1>2. /\ Midway' <=> Midway
      /\ Failing' <=> Failing
      /\ Killing' <=> Killing
      /\ Sweeping' <=> Sweeping
  BY DEF Midway, Failing, Killing, Sweeping
<1>3. Born' /\ Turns' /\ HeldBy'
  BY <1>1, <1>2 DEF Orderly, Born, Turns, HeldBy, Free, Alive
<1>4. OwnerAt' /\ Shown'
  BY <1>1, <1>2 DEF Orderly, OwnerAt, Shown, Free, NoneAlive, Alive
<1> QED BY <1>3, <1>4 DEF Orderly

(* Until a watching thread overlaps a start or a stop, every step keeps    *)
(* the order.                                                              *)
LEMMA StepsOrderly ==
  ASSUME Typed, Orderly, [Next]_vars, ~late'
  PROVE  Orderly'
<1>1. ASSUME NEW retry \in BOOLEAN, Start(retry) PROVE Orderly'
  <2>1. ~Midway
    BY <1>1, Zenon DEF Start, Take
  <2>2. Free /\ StartInner /\ wanted' /\ UNCHANGED <<status, pid, held, process>>
    BY <1>1 DEF Start, Take, tables
  <2> QED BY <2>1, <2>2, StartOrderly
<1>2. ASSUME NEW g \in backoffs, BackoffStart(g) PROVE Orderly'
  <2>1. CASE generation = g /\ status = "restarting"
    <3>1. ~Midway
      BY <1>2, <2>1, Zenon DEF BackoffStart, Take
    <3>2. Free /\ StartInner /\ UNCHANGED <<status, pid, held, process, wanted>>
      BY <1>2, <2>1 DEF BackoffStart, Take, tables
    <3>3. wanted
      BY <2>1, <3>2 DEF Orderly, Shown
    <3> QED BY <3>1, <3>2, <3>3, StartOrderly
  <2>2. CASE ~(generation = g /\ status = "restarting")
    BY <1>2, <2>2, IdleOrderly DEF BackoffStart, tables
  <2> QED BY <2>1, <2>2
<1>3. CASE Stop
  <2>1. ~Midway
    BY <1>3, Zenon DEF Stop, Take
  <2> QED BY <1>3, <2>1, StopOrderly
<1>4. CASE OwnerStep
  BY <1>4, SpawnOrderly, OwnerOrderly, AnnounceOrderly DEF OwnerStep
<1>5. ASSUME NEW th \in Threads, Teardown(th) PROVE Orderly'
  BY <1>5, OwnerTeardown, WatcherTeardown, WatcherNames
<1>6. ASSUME NEW t \in Tokens, Read(t) PROVE Orderly'
  <2>1. PICK s \in {"failEnd", "shake", "ask"} :
          Goto(Reader(t), s) /\ late' = (late \/ (s = "failEnd" /\ ~Free))
    BY <1>6 DEF Read
  <2>2. s = "failEnd" => Free
    BY <2>1, Zenon
  <2>3. /\ t = runToken /\ step[Reader(t)] = "idle" /\ s \in Steps
        /\ UNCHANGED <<status, pid, runToken, process, held, starting, wanted>>
    BY <1>6, StepNames DEF Read, atomics, tables, FailSteps
  <2> DEFINE th == Reader(t)
  <2>4. th \in {Reader(t), Dog(t)} /\ th = Reader(t)
    OBVIOUS
  <2> HIDE DEF th
  <2> QED BY <2>1, <2>2, <2>3, <2>4, WatcherOrderly
<1>7. ASSUME NEW t \in Tokens, Shake(t) PROVE Orderly'
  <2>1. /\ Goto(Reader(t), "region") /\ step[Reader(t)] = "shake" /\ "region" \in Steps
        /\ UNCHANGED <<status, pid, runToken, process, held, starting, wanted>>
    BY <1>7, StepNames DEF Shake, tables
  <2> QED BY <2>1, WatcherOrderly
<1>8. ASSUME NEW t \in Tokens, WithSession(t) PROVE Orderly'
  <2>1. /\ step[Reader(t)] \in {"ask", "region"} /\ {"idle", "failEnd"} \subseteq Steps
        /\ UNCHANGED <<status, pid, runToken, process, starting, wanted>>
    BY <1>8, StepNames DEF WithSession, atomics, FailSteps
  <2>2. CASE /\ Goto(Reader(t), "idle")
             /\ held' = IF t = runToken THEN held \cup {t} ELSE held
    BY <2>1, <2>2, WatcherOrderly
  <2>3. CASE /\ t = runToken /\ Goto(Reader(t), "failEnd") /\ UNCHANGED held
             /\ late' = (late \/ ~Free)
    <3>1. Free
      BY <2>3, Zenon
    <3> QED BY <2>1, <2>3, <3>1, WatcherOrderly
  <2> QED BY <1>8, <2>2, <2>3 DEF WithSession
<1>9. ASSUME NEW t \in Tokens, CheckHandshake(t) PROVE Orderly'
  <2>1. /\ step[Dog(t)] = "idle" /\ {"done", "failEnd"} \subseteq Steps
        /\ UNCHANGED <<status, pid, runToken, process, held, starting, wanted>>
    BY <1>9, StepNames DEF CheckHandshake, atomics, tables, FailSteps
  <2>2. CASE Goto(Dog(t), "done")
    BY <2>1, <2>2, WatcherOrderly
  <2>3. CASE t = runToken /\ Goto(Dog(t), "failEnd") /\ late' = (late \/ ~Free)
    <3>1. Free
      BY <2>3, Zenon
    <3> QED BY <2>1, <2>3, <3>1, WatcherOrderly
  <2> QED BY <1>9, <2>2, <2>3 DEF CheckHandshake
<1>10. ASSUME NEW t \in Tokens, Crash(t) \/ Terminated(t) \/ Exit(t) PROVE Orderly'
  BY <1>10, CrashOrderly, TerminatedOrderly, ExitOrderly
<1>11. ASSUME NEW c \in Calls, CallTool(c) \/ CallEnds(c) PROVE Orderly'
  BY <1>11, IdleOrderly DEF CallTool, CallEnds, atomics, history
<1>12. CASE UNCHANGED vars
  BY <1>12, IdleOrderly DEF vars, atomics, tables, history
<1> QED BY <1>1, <1>2, <1>3, <1>4, <1>5, <1>6, <1>7, <1>8, <1>9, <1>10, <1>11, <1>12 DEF Next

LEMMA LateStays == [Next]_vars /\ late => late'
<1> SUFFICES ASSUME [Next]_vars, late PROVE late'
  OBVIOUS
<1>1. ASSUME NEW retry \in BOOLEAN, Start(retry) PROVE late'
  BY <1>1, Zenon DEF Start, Take
<1>2. ASSUME NEW g \in backoffs, BackoffStart(g) PROVE late'
  BY <1>2, Zenon DEF BackoffStart, Take
<1>3. CASE Stop
  BY <1>3, Zenon DEF Stop, Take
<1>4. CASE OwnerStep
  BY <1>4, Zenon DEF OwnerStep, Spawn, NotePid, Activate, Announce, StopDone, history
<1>5. ASSUME NEW th \in Threads, Teardown(th) PROVE late'
  BY <1>5, Zenon DEF Teardown, End, FailMark, NextToken, Kill, Release, history
<1>6. ASSUME NEW t \in Tokens, Read(t) \/ Shake(t) \/ WithSession(t) PROVE late'
  BY <1>6, Zenon DEF Read, Shake, WithSession
<1>7. ASSUME NEW t \in Tokens,
             Crash(t) \/ Terminated(t) \/ CheckHandshake(t) \/ Exit(t)
      PROVE  late'
  BY <1>7, Zenon DEF Crash, Terminated, CheckHandshake, Exit, ExitPid, ExitCount, ExitArm,
                     history
<1>8. ASSUME NEW c \in Calls, CallTool(c) \/ CallEnds(c) PROVE late'
  BY <1>8, Zenon DEF CallTool, CallEnds, history
<1>9. CASE UNCHANGED vars
  BY <1>9, Zenon DEF vars, history
<1> QED BY <1>1, <1>2, <1>3, <1>4, <1>5, <1>6, <1>7, <1>8, <1>9 DEF Next

(* The inductive invariant: what starts, stops and watching threads keep   *)
(* true of each other until one of the latter first overlaps one of the    *)
(* former.                                                                 *)
OrderlyInTurn == late \/ Orderly

THEOREM InstanceOrderly == Spec => []OrderlyInTurn
<1>1. Init => OrderlyInTurn
  <2> SUFFICES ASSUME Init PROVE Orderly
    BY DEF OrderlyInTurn
  <2>1. /\ step[Owner] = "idle" /\ \A th \in Watchers : step[th] = "none"
        /\ \A t \in Tokens : process[t] = "none"
    BY WatcherNames DEF Init
  <2>2. ~Midway /\ ~Current /\ NoneAlive
    BY <2>1 DEF Midway, Current, NoneAlive, Alive, FailSteps, ExitSteps
  <2>3. Born
    <3>1. /\ starting = 0 /\ runToken = 0 /\ pid = 0
          /\ \A t \in Tokens :
               step[Reader(t)] = "none" /\ step[Keeper(t)] = "none" /\ step[Dog(t)] = "none"
      BY <2>1, WatcherNames DEF Init
    <3> QED BY <2>1, <3>1 DEF Born, Alive
  <2>4. Turns
    BY <2>1, <2>2 DEF Turns, FailSteps, ExitSteps
  <2>5. OwnerAt /\ Shown
    BY <2>1, <2>2 DEF OwnerAt, Shown, Init, Free, NoneAlive, StartSteps, StopSteps
  <2>6. HeldBy
    BY <2>1, WatcherNames DEF HeldBy, Init
  <2> QED BY <2>3, <2>4, <2>5, <2>6 DEF Orderly
<1>2. TypeOK /\ OrderlyInTurn /\ [Next]_vars => OrderlyInTurn'
  BY TypeParts, LateStays, StepsOrderly DEF OrderlyInTurn, Typed
<1> QED BY <1>1, <1>2, InstanceTyped, PTL DEF Spec

(* A child process, shortcut or region does not outlive its session, for   *)
(* any number of sessions, until a watching thread overlaps a start or a   *)
(* stop.                                                                   *)
THEOREM NothingHeldBehind == Spec => []HeldSwept
<1>1. TypeOK /\ OrderlyInTurn => HeldSwept
  <2> SUFFICES ASSUME TypeOK, Orderly, ~Sweeping, NEW t \in held
               PROVE  t = runToken /\ (process[t] = "alive" \/ step[Keeper(t)] # "done")
    BY DEF OrderlyInTurn, HeldSwept
  <2>1. t \in Tokens /\ t = runToken
    BY DEF TypeOK, Orderly, HeldBy
  <2>2. ~Failing
    BY WatcherNames DEF Failing, Sweeping, SweepSteps
  <2> QED BY <2>1, <2>2 DEF Orderly, HeldBy
<1> QED BY <1>1, InstanceTyped, InstanceOrderly, PTL

(* No second start and no orphan, for any number of starts and stops,      *)
(* until a watching thread overlaps one of them.                           *)
THEOREM OneLivingProcess == Spec => []OneProcess
<1>1. TypeOK /\ OrderlyInTurn => OneProcess
  BY DEF OrderlyInTurn, OneProcess, Orderly, Born, Shown, Alive
<1> QED BY <1>1, InstanceTyped, InstanceOrderly, PTL

(* Once a stop is through nothing but a start that the user asks for       *)
(* brings the plugin back, for any number of starts, stops and sleeping    *)
(* restarts, until a watching thread overlaps a start or a stop.           *)
THEOREM StopsHold == Spec => []StopHolds
<1>1. OrderlyInTurn => StopHolds
  BY DEF OrderlyInTurn, StopHolds, RestartsVoided, Orderly, OwnerAt, Shown, NoneAlive, Alive,
     StartSteps
<1> QED BY <1>1, InstanceOrderly, PTL
=============================================================================
