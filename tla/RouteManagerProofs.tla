------------------------- MODULE RouteManagerProofs -------------------------
(***************************************************************************)
(* Proofs about RouteManager, for any number of calls.                     *)
(***************************************************************************)
EXTENDS RouteManager, TLAPS

\* The monitor of call c has not seen the end of its child.
Active(c) == watch[c] \in {"begin", "wait", "exited"}

\* No child runs, and no monitor is at work.
AllOver ==
    /\ \A d \in Calls : proc[d] \notin {"alive", "killed"}
    /\ \A c \in Calls : ~Active(c)

\* What holds at every point of a call that is the only one.
Phases(c) ==
    /\ at[c] \in {"idle", "starting", "context", "command", "pipes", "launch"} =>
          proc[c] = "new" /\ watch[c] = "none"
    /\ at[c] \in {"idle", "starting", "context", "command", "pipes"} => c \notin piped
    /\ at[c] = "starting" => state = "stopped" /\ Unlocked
    /\ at[c] \in {"context", "command", "pipes", "launch", "fail"} =>
          state = "starting" /\ AllOver
    /\ at[c] \in {"command", "pipes", "launch", "running"} => cancel = c
    /\ at[c] \in {"pipes", "launch", "running"} => cmd = c
    /\ at[c] \in {"launch", "running"} => pipe[c]
    /\ at[c] = "running" =>
          /\ state = "starting" /\ proc[c] \in {"alive", "dead"}
          /\ \A d \in Calls : ~Active(d)
          /\ proc[c] = "dead" => ends > 0
    /\ at[c] = "log" => state \in {"running", "stopped"}
    /\ at[c] = "stopping" => state = "running" \/ (state = "stopped" /\ ~Unlocked)
    /\ at[c] \in {"cancel", "kill", "stopped"} => state = "stopping"
    /\ at[c] = "cancel" => cmd = cancel /\ cmd \in Calls /\ proc[cmd] # "new"
    /\ at[c] = "kill" => \A d \in Calls : proc[d] # "alive"
    /\ at[c] = "stopped" => AllOver
    /\ at[c] = "stopLog" => state = "stopped"

\* The state of the process and of its child, as long as calls do not overlap.
Sequential ==
    /\ ~crashed
    /\ \A c, d \in Calls : InProgress(c) /\ InProgress(d) => c = d
    /\ \A c \in Calls : Phases(c)
    /\ \A d \in Calls : proc[d] \in {"alive", "killed"} => d = cmd /\ d = cancel
    /\ \A d \in Calls : proc[d] = "killed" => state = "stopping"
    /\ \A c \in Calls : Active(c) =>
          /\ c = cmd /\ state \in {"running", "stopping"}
          /\ proc[c] \in {"alive", "killed", "dead"}
          /\ watch[c] = "wait" => awaited[c] = c
          /\ watch[c] = "exited" => proc[c] = "dead"
    /\ (\A c \in Calls : ~InProgress(c)) => state \in {"stopped", "running"}
    /\ state = "stopped" => AllOver
    /\ state = "running" =>
          /\ cmd = cancel /\ cmd \in Calls /\ proc[cmd] # "new"
          /\ proc[cmd] = "dead" => ends > 0
    /\ ~Unlocked => state = "stopped" /\ ends > 0

\* The inductive invariant.
IInv ==
    /\ TypeOK
    /\ \A c \in Calls : at[c] \in {"pipes", "launch", "fail", "running", "log"} => cmd # None
    /\ ~overlapped => Sequential

-----------------------------------------------------------------------------
\* The functions the calls and their goroutines change, typed.
LEMMA FunctionsTyped == ASSUME IInv
    PROVE  /\ at \in [Calls -> StartPhases \cup StopPhases \cup {"idle", "done"}]
           /\ proc \in [Calls -> {"new", "failed", "alive", "killed", "dead"}]
           /\ watch \in [Calls -> {"none", "begin", "wait", "exited", "stuck", "over"}]
           /\ awaited \in [Calls -> Calls \cup {None}]
  BY DEF IInv, TypeOK

\* NewManagedProcess (manager.go:37) establishes the invariant.
LEMMA InitIInv == Init => IInv
  <1> SUFFICES ASSUME Init PROVE IInv
    OBVIOUS
  <1>1. TypeOK
    <2>1. ends \in 0..MaxEnds
      BY RouteManagerAssumption DEF Init
    <2> QED BY <2>1, Zenon DEF Init, TypeOK, States
  <1>2. Sequential
    BY DEF Init, Sequential, Phases, AllOver, Active, InProgress, Unlocked
  <1> QED BY <1>1, <1>2 DEF Init, IInv

\* The check at the start of Start (manager.go:95) keeps the invariant.
LEMMA CheckStep == ASSUME IInv, NEW c \in Calls, Check(c) PROVE IInv'
  <1> USE DEF process, children, monitors
  <1>1. TypeOK'
    BY DEF IInv, TypeOK, StartPhases, StopPhases, Check, Call, Moves
  <1>2. (\A d \in Calls :
            at[d] \in {"pipes", "launch", "fail", "running", "log"} => cmd # None)'
    BY DEF IInv, TypeOK, Check, Call, Moves
  <1>3. ASSUME ~overlapped' PROVE Sequential'
    <2>1. /\ Sequential /\ at[c] = "idle"
          /\ UNCHANGED <<state, cmd, cancel, pipe, proc, piped, watch, awaited, crashed,
             ends>>
      BY <1>3, Zenon DEF IInv, Check, Call, Moves
    <2> at \in [Calls -> StartPhases \cup StopPhases \cup {"idle", "done"}]
      BY DEF IInv, TypeOK
    <2>2. CASE state \in {"running", "starting"}
      <3>1. at' = [at EXCEPT ![c] = "done"]
        BY <2>2 DEF Check, Call, Moves
      <3> QED BY <2>1, <3>1 DEF Sequential, Phases, AllOver, Active, InProgress, Unlocked
    <2>3. CASE ~(state \in {"running", "starting"})
      <3>1. at' = [at EXCEPT ![c] = "starting"]
        BY <2>3 DEF Check, Call, Moves
      <3>2. Unlocked /\ \A d \in Calls : ~InProgress(d)
        BY <1>3, <2>3, Zenon DEF Check, Call
      <3>3. state = "stopped"
        BY <2>1, <2>3, <3>2 DEF Sequential
      <3> QED BY <2>1, <3>1, <3>2, <3>3 DEF Sequential, Phases, AllOver, Active, InProgress,
                 Unlocked
    <2> QED BY <2>2, <2>3
  <1> QED BY <1>1, <1>2, <1>3 DEF IInv

\* The check at the start of Stop (manager.go:149) keeps the invariant.
LEMMA StopCheckStep == ASSUME IInv, NEW c \in Calls, StopCheck(c) PROVE IInv'
  <1> USE DEF process, children, monitors
  <1>1. TypeOK'
    BY DEF IInv, TypeOK, StartPhases, StopPhases, StopCheck, Call, Moves
  <1>2. (\A d \in Calls :
            at[d] \in {"pipes", "launch", "fail", "running", "log"} => cmd # None)'
    BY DEF IInv, TypeOK, StopCheck, Call, Moves
  <1>3. ASSUME ~overlapped' PROVE Sequential'
    <2>1. /\ Sequential /\ at[c] = "idle"
          /\ UNCHANGED <<state, cmd, cancel, pipe, proc, piped, watch, awaited, crashed,
             ends>>
      BY <1>3, Zenon DEF IInv, StopCheck, Call, Moves
    <2> at \in [Calls -> StartPhases \cup StopPhases \cup {"idle", "done"}]
      BY DEF IInv, TypeOK
    <2>2. CASE state # "running"
      <3>1. at' = [at EXCEPT ![c] = "done"]
        BY <2>2 DEF StopCheck, Call, Moves
      <3> QED BY <2>1, <3>1 DEF Sequential, Phases, AllOver, Active, InProgress, Unlocked
    <2>3. CASE ~(state # "running")
      <3>1. at' = [at EXCEPT ![c] = "stopping"]
        BY <2>3 DEF StopCheck, Call, Moves
      <3>2. Unlocked /\ \A d \in Calls : ~InProgress(d)
        BY <1>3, <2>3, Zenon DEF StopCheck, Call
      <3>3. state = "running"
        BY <2>1, <2>3, <3>2 DEF Sequential
      <3> QED BY <2>1, <3>1, <3>2, <3>3 DEF Sequential, Phases, AllOver, Active, InProgress,
                 Unlocked
    <2> QED BY <2>2, <2>3
  <1> QED BY <1>1, <1>2, <1>3 DEF IInv

\* SetState(StateStarting) (manager.go:102) keeps the invariant.
LEMMA StartingStep == ASSUME IInv, NEW c \in Calls, Starting(c) PROVE IInv'
  <1>1. TypeOK'
    BY RouteManagerAssumption DEF IInv, TypeOK, States, StartPhases, StopPhases, None,
       Starting, Moves, SetState, Unlocked, process, children, monitors, history
  <1>2. (\A d \in Calls :
            at[d] \in {"pipes", "launch", "fail", "running", "log"} => cmd # None)'
    BY DEF IInv, TypeOK, Calls, None, Starting, Moves, SetState, Unlocked, process,
       children, monitors, history
  <1>3. ASSUME ~overlapped' PROVE Sequential'
    <2>1. Sequential
      BY <1>3 DEF IInv, Starting, history
    <2> QED BY <2>1, FunctionsTyped, SMTT(120)
            DEF Starting, Moves, SetState, Unlocked, process, children, monitors,
                history, Sequential, Phases, AllOver, Active, InProgress
  <1> QED BY <1>1, <1>2, <1>3 DEF IInv

\* The new context (manager.go:104) keeps the invariant.
LEMMA ContextStep == ASSUME IInv, NEW c \in Calls, Context(c) PROVE IInv'
  <1>1. TypeOK'
    BY RouteManagerAssumption DEF IInv, TypeOK, States, StartPhases, StopPhases, None,
       Context, Moves, process, children, monitors, history
  <1>2. (\A d \in Calls :
            at[d] \in {"pipes", "launch", "fail", "running", "log"} => cmd # None)'
    BY DEF IInv, TypeOK, Calls, None, Context, Moves, process, children, monitors, history
  <1>3. ASSUME ~overlapped' PROVE Sequential'
    <2>1. Sequential
      BY <1>3 DEF IInv, Context, history
    <2> QED BY <2>1, FunctionsTyped, SMTT(120)
            DEF Context, Moves, process, children, monitors, history, Sequential,
                Phases, AllOver, Active, InProgress, Unlocked
  <1> QED BY <1>1, <1>2, <1>3 DEF IInv

\* The new command (manager.go:107) keeps the invariant.
LEMMA CommandStep == ASSUME IInv, NEW c \in Calls, Command(c) PROVE IInv'
  <1>1. TypeOK'
    BY RouteManagerAssumption DEF IInv, TypeOK, States, StartPhases, StopPhases, None,
       Command, Moves, process, children, monitors, history
  <1>2. (\A d \in Calls :
            at[d] \in {"pipes", "launch", "fail", "running", "log"} => cmd # None)'
    BY DEF IInv, TypeOK, Calls, None, Command, Moves, process, children, monitors, history
  <1>3. ASSUME ~overlapped' PROVE Sequential'
    <2>1. Sequential
      BY <1>3 DEF IInv, Command, history
    <2> QED BY <2>1, FunctionsTyped, SMTT(120)
            DEF Command, Moves, process, children, monitors, history, Sequential,
                Phases, AllOver, Active, InProgress, Unlocked
  <1> QED BY <1>1, <1>2, <1>3 DEF IInv

\* Asking for the output (manager.go:112) keeps the invariant.
LEMMA PipesStep == ASSUME IInv, NEW c \in Calls, Pipes(c) PROVE IInv'
  <1> USE DEF process, monitors, history
  <1>1. TypeOK'
    BY RouteManagerAssumption DEF IInv, TypeOK, StartPhases, StopPhases, None, Pipes, Moves
  <1>2. (\A d \in Calls :
            at[d] \in {"pipes", "launch", "fail", "running", "log"} => cmd # None)'
    BY DEF IInv, TypeOK, Pipes, Moves
  <1>3. ASSUME ~overlapped' PROVE Sequential'
    <2>1. /\ Sequential /\ at[c] = "pipes"
          /\ at \in [Calls -> StartPhases \cup StopPhases \cup {"idle", "done"}]
          /\ at' = [at EXCEPT ![c] = "launch"]
          /\ UNCHANGED <<state, cmd, cancel, proc, watch, awaited, crashed, ends>>
      BY <1>3 DEF IInv, TypeOK, Pipes, Moves
    <2>2. cmd = c /\ c \notin piped /\ proc[c] = "new"
      BY <2>1, Zenon DEF Sequential, Phases
    <2>3. pipe'[c] /\ piped' = piped \cup {c} /\ \A d \in Calls \ {c} : pipe'[d] = pipe[d]
      BY <2>2, Zenon DEF IInv, TypeOK, Pipes
    <2>4. \A d \in Calls \ {c} : at[d] \in {"idle", "done"}
      BY <2>1 DEF Sequential, InProgress
    <2> QED BY <2>1, <2>2, <2>3, <2>4 DEF Sequential, Phases, AllOver, Active, InProgress,
       Unlocked
  <1> QED BY <1>1, <1>2, <1>3 DEF IInv

\* The start of the child (manager.go:115) keeps the invariant.
LEMMA LaunchStep == ASSUME IInv, NEW c \in Calls, Launch(c) PROVE IInv'
  <1>1. TypeOK'
    BY RouteManagerAssumption DEF IInv, TypeOK, States, StartPhases, StopPhases, None,
       Launch, Moves, process, children, monitors, history
  <1>2. (\A d \in Calls :
            at[d] \in {"pipes", "launch", "fail", "running", "log"} => cmd # None)'
    BY DEF IInv, TypeOK, Calls, None, Launch, Moves, process, children, monitors, history
  <1>3. ASSUME ~overlapped' PROVE Sequential'
    <2>1. Sequential
      BY <1>3 DEF IInv, Launch, history
    <2> QED BY <2>1, FunctionsTyped, SMTT(120)
            DEF Launch, Moves, process, children, monitors, history, Sequential,
                Phases, AllOver, Active, InProgress, Unlocked
  <1> QED BY <1>1, <1>2, <1>3 DEF IInv

\* A failed start (manager.go:116) keeps the invariant.
LEMMA StartFailsStep == ASSUME IInv, NEW c \in Calls, StartFails(c) PROVE IInv'
  <1>1. TypeOK'
    BY RouteManagerAssumption DEF IInv, TypeOK, States, StartPhases, StopPhases, None,
       StartFails, Moves, SetState, Unlocked, process, children, monitors, history
  <1>2. (\A d \in Calls :
            at[d] \in {"pipes", "launch", "fail", "running", "log"} => cmd # None)'
    BY DEF IInv, TypeOK, Calls, None, StartFails, Moves, SetState, Unlocked, process,
       children, monitors, history
  <1>3. ASSUME ~overlapped' PROVE Sequential'
    <2>1. Sequential
      BY <1>3 DEF IInv, StartFails, history
    <2> QED BY <2>1, FunctionsTyped, SMTT(120)
            DEF StartFails, Moves, SetState, Unlocked, process, children, monitors,
                history, Sequential, Phases, AllOver, Active, InProgress
  <1> QED BY <1>1, <1>2, <1>3 DEF IInv

\* SetState(StateRunning) and the goroutines (manager.go:120) keeps the invariant.
LEMMA RunningStep == ASSUME IInv, NEW c \in Calls, Running(c) PROVE IInv'
  <1>1. TypeOK'
    BY RouteManagerAssumption DEF IInv, TypeOK, States, StartPhases, StopPhases, None,
       Running, Moves, SetState, Unlocked, process, children, monitors, history
  <1>2. (\A d \in Calls :
            at[d] \in {"pipes", "launch", "fail", "running", "log"} => cmd # None)'
    BY DEF IInv, TypeOK, Calls, None, Running, Moves, SetState, Unlocked, process,
       children, monitors, history
  <1>3. ASSUME ~overlapped' PROVE Sequential'
    <2>1. Sequential
      BY <1>3 DEF IInv, Running, history
    <2>2. /\ at[c] = "running" /\ at' = [at EXCEPT ![c] = "log"]
          /\ state' = "running" /\ watch' = [watch EXCEPT ![c] = "begin"]
          /\ \A d \in Calls \ {c} : pipe'[d] = pipe[d]
          /\ UNCHANGED <<cmd, cancel, proc, piped, awaited, ends>>
      BY DEF IInv, TypeOK, Running, Moves, SetState, children, history
    <2>3. pipe[c]
      BY <2>1, <2>2, Zenon DEF Sequential, Phases
    <2>4. ~crashed'
      BY <2>3, Zenon DEF Running
    <2> QED BY <2>1, <2>2, <2>4, FunctionsTyped, SMTT(120)
            DEF Sequential, Phases, AllOver, Active, InProgress, Unlocked
  <1> QED BY <1>1, <1>2, <1>3 DEF IInv

\* The end of Start (manager.go:144) keeps the invariant.
LEMMA LogStartStep == ASSUME IInv, NEW c \in Calls, LogStart(c) PROVE IInv'
  <1>1. TypeOK'
    BY RouteManagerAssumption DEF IInv, TypeOK, States, StartPhases, StopPhases, None,
       LogStart, Moves, Unlocked, process, children, monitors, history
  <1>2. (\A d \in Calls :
            at[d] \in {"pipes", "launch", "fail", "running", "log"} => cmd # None)'
    BY DEF IInv, TypeOK, Calls, None, LogStart, Moves, Unlocked, process, children,
       monitors, history
  <1>3. ASSUME ~overlapped' PROVE Sequential'
    <2>1. Sequential
      BY <1>3 DEF IInv, LogStart, history
    <2> QED BY <2>1, FunctionsTyped, SMTT(120)
            DEF LogStart, Moves, Unlocked, process, children, monitors, history,
                Sequential, Phases, AllOver, Active, InProgress
  <1> QED BY <1>1, <1>2, <1>3 DEF IInv

\* The call of Wait (manager.go:128) keeps the invariant.
LEMMA WaitStep == ASSUME IInv, NEW c \in Calls, Wait(c) PROVE IInv'
  <1>1. TypeOK'
    BY RouteManagerAssumption DEF IInv, TypeOK, States, StartPhases, StopPhases, None,
       Wait, process, children, monitors, history
  <1>2. (\A d \in Calls :
            at[d] \in {"pipes", "launch", "fail", "running", "log"} => cmd # None)'
    BY DEF IInv, TypeOK, Calls, None, Wait, process, children, monitors, history
  <1>3. ASSUME ~overlapped' PROVE Sequential'
    <2>1. Sequential
      BY <1>3 DEF IInv, Wait, history
    <2> QED BY <2>1, FunctionsTyped, SMTT(120)
            DEF Wait, process, children, monitors, history, Sequential, Phases,
                AllOver, Active, InProgress, Unlocked
  <1> QED BY <1>1, <1>2, <1>3 DEF IInv

\* The return of Wait (manager.go:128) keeps the invariant.
LEMMA WaitReturnsStep == ASSUME IInv, NEW c \in Calls, WaitReturns(c) PROVE IInv'
  <1>1. TypeOK'
    BY RouteManagerAssumption DEF IInv, TypeOK, States, StartPhases, StopPhases, None,
       WaitReturns, process, children, monitors, history
  <1>2. (\A d \in Calls :
            at[d] \in {"pipes", "launch", "fail", "running", "log"} => cmd # None)'
    BY DEF IInv, TypeOK, Calls, None, WaitReturns, process, children, monitors, history
  <1>3. ASSUME ~overlapped' PROVE Sequential'
    <2>1. Sequential
      BY <1>3 DEF IInv, WaitReturns, history
    <2> QED BY <2>1, FunctionsTyped, SMTT(120)
            DEF WaitReturns, process, children, monitors, history, Sequential,
                Phases, AllOver, Active, InProgress, Unlocked
  <1> QED BY <1>1, <1>2, <1>3 DEF IInv

\* The rest of the exit monitor (manager.go:129) keeps the invariant.
LEMMA ExitedStep == ASSUME IInv, NEW c \in Calls, Exited(c) PROVE IInv'
  <1>1. TypeOK'
    BY RouteManagerAssumption DEF IInv, TypeOK, States, StartPhases, StopPhases, None,
       Exited, Unlocked, process, children, monitors, history
  <1>2. (\A d \in Calls :
            at[d] \in {"pipes", "launch", "fail", "running", "log"} => cmd # None)'
    BY DEF IInv, TypeOK, Calls, None, Exited, Unlocked, process, children, monitors, history
  <1>3. ASSUME ~overlapped' PROVE Sequential'
    <2>1. Sequential
      BY <1>3 DEF IInv, Exited, history
    <2> QED BY <2>1, FunctionsTyped, SMTT(120)
            DEF Exited, Unlocked, process, children, monitors, history, Sequential,
                Phases, AllOver, Active, InProgress
  <1> QED BY <1>1, <1>2, <1>3 DEF IInv

\* SetState(StateStopping) (manager.go:156) keeps the invariant.
LEMMA StoppingStep == ASSUME IInv, NEW c \in Calls, Stopping(c) PROVE IInv'
  <1>1. TypeOK'
    BY RouteManagerAssumption DEF IInv, TypeOK, States, StartPhases, StopPhases, None,
       Stopping, Moves, SetState, Unlocked, process, children, monitors, history
  <1>2. (\A d \in Calls :
            at[d] \in {"pipes", "launch", "fail", "running", "log"} => cmd # None)'
    BY DEF IInv, TypeOK, Calls, None, Stopping, Moves, SetState, Unlocked, process,
       children, monitors, history
  <1>3. ASSUME ~overlapped' PROVE Sequential'
    <2>1. Sequential
      BY <1>3 DEF IInv, Stopping, history
    <2> QED BY <2>1, FunctionsTyped, SMTT(120)
            DEF Stopping, Moves, SetState, Unlocked, process, children, monitors,
                history, Sequential, Phases, AllOver, Active, InProgress
  <1> QED BY <1>1, <1>2, <1>3 DEF IInv

\* The cancelled context (manager.go:159) keeps the invariant.
LEMMA CancelStep == ASSUME IInv, NEW c \in Calls, Cancel(c) PROVE IInv'
  <1>1. TypeOK'
    BY RouteManagerAssumption, Zenon DEF IInv, TypeOK, States, StartPhases, StopPhases, None,
       Cancel, Moves, Killed, process, children, monitors, history
  <1>2. (\A d \in Calls :
            at[d] \in {"pipes", "launch", "fail", "running", "log"} => cmd # None)'
    BY DEF IInv, TypeOK, Calls, None, Cancel, Moves, Killed, process, children, monitors,
       history
  <1>3. ASSUME ~overlapped' PROVE Sequential'
    <2>1. Sequential
      BY <1>3 DEF IInv, Cancel, history
    <2>2. /\ at[c] = "cancel" /\ at' = [at EXCEPT ![c] = "kill"]
          /\ UNCHANGED <<state, cmd, cancel, pipe, piped, watch, awaited, crashed, ends>>
      BY DEF Cancel, Moves, process, monitors, history
    <2>3. cancel \in Calls /\ cancel = cmd /\ proc[cmd] # "new"
      BY <2>1, <2>2 DEF Sequential, Phases
    <2>4. \A d \in Calls :
              proc'[d] = IF d = cancel /\ proc[d] = "alive" THEN "killed" ELSE proc[d]
      BY <2>3, FunctionsTyped DEF Cancel, Killed
    <2> QED BY <2>1, <2>2, <2>3, <2>4, FunctionsTyped, SMTT(120)
            DEF Sequential, Phases, AllOver, Active, InProgress, Unlocked
  <1> QED BY <1>1, <1>2, <1>3 DEF IInv

\* Kill, after a second (manager.go:166) keeps the invariant.
LEMMA KillStep == ASSUME IInv, NEW c \in Calls, Kill(c) PROVE IInv'
  <1>1. TypeOK'
    BY RouteManagerAssumption, Zenon DEF IInv, TypeOK, States, StartPhases, StopPhases, None,
       Kill, Moves, Unlocked, Killed, Noticed, process, children, monitors, history
  <1>2. (\A d \in Calls :
            at[d] \in {"pipes", "launch", "fail", "running", "log"} => cmd # None)'
    BY DEF IInv, TypeOK, Calls, None, Kill, Moves, Unlocked, Killed, Noticed, process,
       children, monitors, history
  <1>3. ASSUME ~overlapped' PROVE Sequential'
    <2>1. Sequential
      BY <1>3 DEF IInv, Kill, history
    <2> QED BY <2>1, FunctionsTyped, SMTT(120)
            DEF Kill, Moves, Unlocked, Killed, Noticed, process, children, monitors,
                history, Sequential, Phases, AllOver, Active, InProgress
  <1> QED BY <1>1, <1>2, <1>3 DEF IInv

\* SetState(StateStopped) (manager.go:169) keeps the invariant.
LEMMA StoppedStep == ASSUME IInv, NEW c \in Calls, Stopped(c) PROVE IInv'
  <1>1. TypeOK'
    BY RouteManagerAssumption DEF IInv, TypeOK, States, StartPhases, StopPhases, None,
       Stopped, Moves, SetState, Unlocked, process, children, monitors, history
  <1>2. (\A d \in Calls :
            at[d] \in {"pipes", "launch", "fail", "running", "log"} => cmd # None)'
    BY DEF IInv, TypeOK, Calls, None, Stopped, Moves, SetState, Unlocked, process,
       children, monitors, history
  <1>3. ASSUME ~overlapped' PROVE Sequential'
    <2>1. Sequential
      BY <1>3 DEF IInv, Stopped, history
    <2> QED BY <2>1, FunctionsTyped, SMTT(120)
            DEF Stopped, Moves, SetState, Unlocked, process, children, monitors,
                history, Sequential, Phases, AllOver, Active, InProgress
  <1> QED BY <1>1, <1>2, <1>3 DEF IInv

\* The end of Stop (manager.go:170) keeps the invariant.
LEMMA LogStopStep == ASSUME IInv, NEW c \in Calls, LogStop(c) PROVE IInv'
  <1>1. TypeOK'
    BY RouteManagerAssumption DEF IInv, TypeOK, States, StartPhases, StopPhases, None,
       LogStop, Moves, Unlocked, process, children, monitors, history
  <1>2. (\A d \in Calls :
            at[d] \in {"pipes", "launch", "fail", "running", "log"} => cmd # None)'
    BY DEF IInv, TypeOK, Calls, None, LogStop, Moves, Unlocked, process, children,
       monitors, history
  <1>3. ASSUME ~overlapped' PROVE Sequential'
    <2>1. Sequential
      BY <1>3 DEF IInv, LogStop, history
    <2> QED BY <2>1, FunctionsTyped, SMTT(120)
            DEF LogStop, Moves, Unlocked, process, children, monitors, history,
                Sequential, Phases, AllOver, Active, InProgress
  <1> QED BY <1>1, <1>2, <1>3 DEF IInv

\* The death of a killed child keeps the invariant.
LEMMA DiesStep == ASSUME IInv, NEW c \in Calls, Dies(c) PROVE IInv'
  <1>1. TypeOK'
    BY RouteManagerAssumption DEF IInv, TypeOK, States, StartPhases, StopPhases, None,
       Dies, process, children, monitors, history
  <1>2. (\A d \in Calls :
            at[d] \in {"pipes", "launch", "fail", "running", "log"} => cmd # None)'
    BY DEF IInv, TypeOK, Calls, None, Dies, process, children, monitors, history
  <1>3. ASSUME ~overlapped' PROVE Sequential'
    <2>1. Sequential
      BY <1>3 DEF IInv, Dies, history
    <2> QED BY <2>1, FunctionsTyped, SMTT(120)
            DEF Dies, process, children, monitors, history, Sequential, Phases,
                AllOver, Active, InProgress, Unlocked
  <1> QED BY <1>1, <1>2, <1>3 DEF IInv

\* A child that ends by itself keeps the invariant.
LEMMA EndsStep == ASSUME IInv, NEW c \in Calls, Ends(c) PROVE IInv'
  <1>1. TypeOK'
    BY RouteManagerAssumption DEF IInv, TypeOK, States, StartPhases, StopPhases, None,
       Ends, process, children, monitors, history
  <1>2. (\A d \in Calls :
            at[d] \in {"pipes", "launch", "fail", "running", "log"} => cmd # None)'
    BY DEF IInv, TypeOK, Calls, None, Ends, process, children, monitors, history
  <1>3. ASSUME ~overlapped' PROVE Sequential'
    <2>1. Sequential
      BY <1>3 DEF IInv, Ends, history
    <2>2. ends \in Nat
      BY RouteManagerAssumption DEF IInv, TypeOK
    <2> QED BY <2>1, <2>2, FunctionsTyped, SMTT(120)
            DEF Ends, process, children, monitors, history, Sequential, Phases,
                AllOver, Active, InProgress, Unlocked
  <1> QED BY <1>1, <1>2, <1>3 DEF IInv

-----------------------------------------------------------------------------
\* The invariant is inductive: every step of a call, a monitor or a child keeps it.
LEMMA NextIInv == IInv /\ [Next]_vars => IInv'
  <1> SUFFICES ASSUME IInv, [Next]_vars PROVE IInv'
    OBVIOUS
  <1>1. CASE UNCHANGED vars
    <2> USE <1>1 DEF vars, process, children, monitors, history
    <2>1. TypeOK'
      BY DEF IInv, TypeOK
    <2>2. AllOver' = AllOver /\ Unlocked' = Unlocked
      BY Zenon DEF AllOver, Unlocked, Active
    <2>3. ASSUME NEW c \in Calls PROVE Phases(c)' = Phases(c)
      BY <2>2, Zenon DEF Phases, Active
    <2>4. Sequential => Sequential'
      BY <2>2, <2>3, Zenon DEF Sequential, InProgress, Active
    <2> QED BY <2>1, <2>4 DEF IInv
  <1>2. CASE Next
    <2>1. PICK c \in Calls :
            \/ Check(c) \/ StopCheck(c) \/ Start(c) \/ Stop(c) \/ Monitor(c)
            \/ Dies(c) \/ Ends(c)
      BY <1>2 DEF Next
    <2>2. CASE Start(c)
      BY <2>2, StartingStep, ContextStep, CommandStep, PipesStep, LaunchStep, StartFailsStep,
         RunningStep, LogStartStep DEF Start
    <2>3. CASE Stop(c)
      BY <2>3, StoppingStep, CancelStep, KillStep, StoppedStep, LogStopStep DEF Stop
    <2>4. CASE Monitor(c)
      BY <2>4, WaitStep, WaitReturnsStep, ExitedStep DEF Monitor
    <2> QED BY <2>1, <2>2, <2>3, <2>4, CheckStep, StopCheckStep, DiesStep, EndsStep
  <1> QED BY <1>1, <1>2

\* The invariant holds in every behaviour of a managed process.
LEMMA AlwaysIInv == Spec => []IInv
  BY InitIInv, NextIInv, PTL DEF Spec

\* The variables keep their types, whatever calls overlap (manager.go:22).
THEOREM TypeCorrect == Spec => []TypeOK
  <1>1. IInv => TypeOK
    BY DEF IInv
  <1> QED BY <1>1, AlwaysIInv, PTL

\* As long as calls do not overlap, no child is lost (manager.go:104), for any number of
\* calls and of children that end by themselves.
THEOREM OrderlyHolds == Spec => []Orderly
  <1>1. IInv => Orderly
    BY DEF IInv, TypeOK, Orderly, Living, Sequential, Phases, AllOver, InProgress
  <1> QED BY <1>1, AlwaysIInv, PTL

\* The exit monitor locks itself out (manager.go:133) only when calls overlap or a child
\* ended that nobody had stopped.
THEOREM StuckByExitHolds == Spec => []StuckByExit
  <1>1. IInv => StuckByExit
    BY DEF IInv, StuckByExit, Sequential
  <1> QED BY <1>1, AlwaysIInv, PTL
=============================================================================
