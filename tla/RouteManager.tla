---------------------------- MODULE RouteManager ----------------------------
(***************************************************************************)
(* One managed process of the route manager (cmd/route-manager): the calls *)
(* of handleStart and handleStop, the goroutines that wait for the end of  *)
(* the child processes, and the children.                                  *)
(*                                                                         *)
(* mp.mu is held during single steps only, so it needs no variable of its  *)
(* own, with one exception: a monitor that calls addLog under the lock     *)
(* waits for itself, and nobody gets the lock any more (stuck).  Between   *)
(* two such steps, mp.State, mp.cmd and mp.cancel may change.  Every call  *)
(* of Start makes one exec.Cmd with a context, which have its name.  The   *)
(* lists of log lines and events are only shown to the user.               *)
(***************************************************************************)
EXTENDS Naturals, FiniteSets

CONSTANTS
    MaxCalls,   \* how many times handleStart and handleStop are called at most
    MaxEnds     \* how many children end at most that nobody stopped

ASSUME RouteManagerAssumption == MaxCalls \in Nat /\ MaxEnds \in Nat

\* The calls, in the order in which they begin.
Calls == 1..MaxCalls
None == 0

VARIABLES
    state,       \* mp.State
    cmd,         \* mp.cmd
    cancel,      \* mp.cancel
    at,          \* at[c]: where call c is
    pipe,        \* pipe[c]: call c has got the output of a child
    proc,        \* proc[d]: the child of the exec.Cmd of call d
    piped,       \* the exec.Cmds not started yet whose output has been asked for
    watch,       \* watch[c]: the goroutine that call c started to await the exit
    awaited,     \* awaited[c]: the exec.Cmd whose Wait it called
    crashed,     \* a panic has ended the route manager
    overlapped,  \* two calls were in progress at the same time
    ends         \* the number of children that ended and that nobody had stopped

process == <<state, cmd, cancel>>
children == <<proc, piped>>
monitors == <<watch, awaited>>
history == <<overlapped, ends>>
vars == <<process, at, pipe, children, monitors, crashed, history>>

States == {"stopped", "starting", "running", "stopping"}
StartPhases == {"starting", "context", "command", "pipes", "launch", "fail",
                "running", "log"}
StopPhases == {"stopping", "cancel", "kill", "stopped", "stopLog"}

TypeOK ==
    /\ state \in States
    /\ cmd \in Calls \cup {None} /\ cancel \in Calls \cup {None}
    /\ at \in [Calls -> StartPhases \cup StopPhases \cup {"idle", "done"}]
    /\ pipe \in [Calls -> BOOLEAN]
    /\ proc \in [Calls -> {"new", "failed", "alive", "killed", "dead"}]
    /\ piped \subseteq Calls
    /\ watch \in [Calls -> {"none", "begin", "wait", "exited", "stuck", "over"}]
    /\ awaited \in [Calls -> Calls \cup {None}]
    /\ crashed \in BOOLEAN /\ overlapped \in BOOLEAN /\ ends \in 0..MaxEnds

\* NewManagedProcess.
Init ==
    /\ state = "stopped" /\ cmd = None /\ cancel = None
    /\ at = [c \in Calls |-> "idle"]
    /\ pipe = [c \in Calls |-> FALSE]
    /\ proc = [c \in Calls |-> "new"]
    /\ piped = {}
    /\ watch = [c \in Calls |-> "none"]
    /\ awaited = [c \in Calls |-> None]
    /\ crashed = FALSE /\ overlapped = FALSE /\ ends = 0

-----------------------------------------------------------------------------
\* mp.mu can be locked.
Unlocked == \A c \in Calls : watch[c] # "stuck"

InProgress(c) == at[c] \notin {"idle", "done"}

Moves(c, from, to) ==
    /\ ~crashed
    /\ at[c] = from
    /\ at' = [at EXCEPT ![c] = to]

SetState(s) == Unlocked /\ state' = s

\* handleStart or handleStop calls Start or Stop, which begins with a look at the state.
Call(c, phase) ==
    /\ Moves(c, "idle", phase)
    /\ \A d \in Calls : d < c => at[d] # "idle"
    /\ Unlocked
    /\ overlapped' = (overlapped \/ (phase # "done" /\ \E d \in Calls : InProgress(d)))
    /\ UNCHANGED <<process, pipe, children, monitors, crashed, ends>>

-----------------------------------------------------------------------------
(* Start.                                                                  *)

\* Mutant: the state is not looked at.
CheckNothing(c) == Call(c, "starting")

Check(c) == Call(c, IF state \in {"running", "starting"} THEN "done" ELSE "starting")

Starting(c) ==
    /\ Moves(c, "starting", "context")
    /\ SetState("starting")
    /\ UNCHANGED <<cmd, cancel, pipe, children, monitors, crashed, history>>

Context(c) ==
    /\ Moves(c, "context", "command")
    /\ cancel' = c
    /\ UNCHANGED <<state, cmd, pipe, children, monitors, crashed, history>>

Command(c) ==
    /\ Moves(c, "command", "pipes")
    /\ cmd' = c
    /\ UNCHANGED <<state, cancel, pipe, children, monitors, crashed, history>>

\* StdoutPipe and StderrPipe give nil if the output is taken or the child runs; the
\* error is dropped.
Pipes(c) ==
    /\ Moves(c, "pipes", "launch")
    /\ pipe' = [pipe EXCEPT ![c] = cmd \notin piped /\ proc[cmd] \in {"new", "failed"}]
    /\ piped' = IF pipe'[c] THEN piped \cup {cmd} ELSE piped
    /\ UNCHANGED <<process, proc, monitors, crashed, history>>

\* mp.cmd.Start() fails for a cancelled context, for an exec.Cmd that was started
\* before, and when the program cannot be executed.
Launch(c) ==
    \/ /\ Moves(c, "launch", "running")
       /\ proc[cmd] = "new"
       /\ proc' = [proc EXCEPT ![cmd] = "alive"]
       /\ piped' = piped \ {cmd}
       /\ UNCHANGED <<process, pipe, monitors, crashed, history>>
    \/ /\ Moves(c, "launch", "fail")
       /\ proc' = [proc EXCEPT ![cmd] = IF @ = "new" THEN "failed" ELSE @]
       /\ UNCHANGED <<process, pipe, piped, monitors, crashed, history>>

StartFails(c) ==
    /\ Moves(c, "fail", "done")
    /\ SetState("stopped")
    /\ pipe' = [pipe EXCEPT ![c] = FALSE]
    /\ UNCHANGED <<cmd, cancel, children, monitors, crashed, history>>

\* The goroutines are started.  The one that reads from a nil pipe panics.
Running(c) ==
    /\ Moves(c, "running", "log")
    /\ SetState("running")
    /\ watch' = [watch EXCEPT ![c] = "begin"]
    /\ crashed' = ~pipe[c]
    /\ pipe' = [pipe EXCEPT ![c] = FALSE]
    /\ UNCHANGED <<cmd, cancel, children, awaited, history>>

\* mp.cmd.Process is nil when mp.cmd is not started; the panic ends the handler only.
LogStart(c) ==
    /\ Moves(c, "log", "done")
    /\ Unlocked \/ proc[cmd] \in {"new", "failed"}
    /\ UNCHANGED <<process, pipe, children, monitors, crashed, history>>

-----------------------------------------------------------------------------
(* The goroutine of Start that awaits the exit.                            *)

\* It looks at mp.cmd when it runs.  Wait fails at once if that is not started.
Wait(c) ==
    /\ ~crashed /\ watch[c] = "begin"
    /\ IF proc[cmd] \in {"new", "failed"}
       THEN watch' = [watch EXCEPT ![c] = "exited"] /\ UNCHANGED awaited
       ELSE watch' = [watch EXCEPT ![c] = "wait"] /\ awaited' = [awaited EXCEPT ![c] = cmd]
    /\ UNCHANGED <<process, at, pipe, children, crashed, history>>

WaitReturns(c) ==
    /\ ~crashed /\ watch[c] = "wait"
    /\ proc[awaited[c]] = "dead"
    /\ watch' = [watch EXCEPT ![c] = "exited"]
    /\ awaited' = [awaited EXCEPT ![c] = None]
    /\ UNCHANGED <<process, at, pipe, children, crashed, history>>

\* The lock is taken.  If the state is "running", it is taken again by addLog.
Exited(c) ==
    /\ ~crashed /\ watch[c] = "exited"
    /\ Unlocked
    /\ IF state = "running"
       THEN state' = "stopped" /\ watch' = [watch EXCEPT ![c] = "stuck"]
       ELSE UNCHANGED state /\ watch' = [watch EXCEPT ![c] = "over"]
    /\ UNCHANGED <<cmd, cancel, at, pipe, children, awaited, crashed, history>>

-----------------------------------------------------------------------------
(* Stop.                                                                   *)

StopCheck(c) == Call(c, IF state = "running" THEN "stopping" ELSE "done")

\* Mutant: the state is not changed before the child is killed.
StoppingLater(c) ==
    /\ Moves(c, "stopping", "cancel")
    /\ Unlocked
    /\ UNCHANGED <<process, pipe, children, monitors, crashed, history>>

Stopping(c) ==
    /\ Moves(c, "stopping", "cancel")
    /\ SetState("stopping")
    /\ UNCHANGED <<cmd, cancel, pipe, children, monitors, crashed, history>>

Killed(d) == [proc EXCEPT ![d] = IF @ = "alive" THEN "killed" ELSE @]

\* mp.cancel() kills the child of its context.  If it is not started yet, it cannot
\* be started any more.
Cancel(c) ==
    /\ Moves(c, "cancel", "kill")
    /\ proc' = IF proc[cancel] = "new" THEN [proc EXCEPT ![cancel] = "failed"]
               ELSE Killed(cancel)
    /\ UNCHANGED <<process, pipe, piped, monitors, crashed, history>>

\* No child is dying, and no goroutine that awaits the end of one can do a step.
Noticed ==
    /\ \A d \in Calls : proc[d] # "killed"
    /\ \A c \in Calls : /\ watch[c] \notin {"begin", "exited"}
                        /\ watch[c] = "wait" => proc[awaited[c]] # "dead"

\* mp.cmd.Process.Kill(), a second later.  The second is enough for what Cancel did.
Kill(c) ==
    /\ Moves(c, "kill", "stopped")
    /\ Noticed \/ ~Unlocked
    /\ proc' = Killed(cmd)
    /\ UNCHANGED <<process, pipe, piped, monitors, crashed, history>>

\* Mutant: Stop leaves it to the monitor to record the end.
StoppedByMonitor(c) ==
    /\ Moves(c, "stopped", "stopLog")
    /\ Unlocked /\ state = "stopped"
    /\ UNCHANGED <<process, pipe, children, monitors, crashed, history>>

Stopped(c) ==
    /\ Moves(c, "stopped", "stopLog")
    /\ SetState("stopped")
    /\ UNCHANGED <<cmd, cancel, pipe, children, monitors, crashed, history>>

LogStop(c) ==
    /\ Moves(c, "stopLog", "done")
    /\ Unlocked
    /\ UNCHANGED <<process, pipe, children, monitors, crashed, history>>

-----------------------------------------------------------------------------
(* The children.  Once the manager has crashed, they do not matter.        *)

Dies(d) ==
    /\ ~crashed
    /\ proc[d] = "killed"
    /\ proc' = [proc EXCEPT ![d] = "dead"]
    /\ UNCHANGED <<process, at, pipe, piped, monitors, crashed, history>>

Ends(d) ==
    /\ ~crashed
    /\ proc[d] = "alive" /\ ends < MaxEnds
    /\ proc' = [proc EXCEPT ![d] = "dead"]
    /\ ends' = ends + 1
    /\ UNCHANGED <<process, at, pipe, piped, monitors, crashed, overlapped>>

-----------------------------------------------------------------------------
Start(c) ==
    \/ Starting(c) \/ Context(c) \/ Command(c) \/ Pipes(c) \/ Launch(c)
    \/ StartFails(c) \/ Running(c) \/ LogStart(c)

Stop(c) ==
    \/ Stopping(c) \/ Cancel(c) \/ Kill(c) \/ Stopped(c) \/ LogStop(c)

Monitor(c) == Wait(c) \/ WaitReturns(c) \/ Exited(c)

Next ==
    \E c \in Calls :
        \/ Check(c) \/ StopCheck(c)
        \/ Start(c) \/ Stop(c) \/ Monitor(c)
        \/ Dies(c) \/ Ends(c)

Spec == Init /\ [][Next]_vars

\* The goroutines run, and a killed child dies.
FairSpec ==
    /\ Spec
    /\ \A c \in Calls : /\ WF_vars(Start(c)) /\ WF_vars(Stop(c))
                        /\ WF_vars(Monitor(c)) /\ WF_vars(Dies(c))

-----------------------------------------------------------------------------
(* Properties.                                                             *)

Living == {d \in Calls : proc[d] = "alive"}

\* As long as calls do not overlap, the manager never loses a child (manager.go:104):
\* at most one is alive, it is the one that mp.cmd and mp.cancel stand for, between
\* two calls it is only alive if the state says "running", and no handler panics.
Orderly ==
    ~overlapped =>
        /\ \A d \in Living : d = cmd /\ d = cancel
        /\ (\A c \in Calls : ~InProgress(c)) /\ Living # {} => state = "running"
        /\ ~crashed

\* The exit monitor (manager.go:129) locks itself out only when calls overlap or a
\* child ends that was not stopped: Stop leaves "running" before the child is killed.
StuckByExit == ~Unlocked => overlapped \/ ends > 0

\* Every call returns (manager.go:94, manager.go:148), unless a monitor has locked
\* itself out or the manager has crashed: no call waits for another one.
Returns == \A c \in Calls : InProgress(c) ~> (~InProgress(c) \/ ~Unlocked \/ crashed)

=============================================================================
