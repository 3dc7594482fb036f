---------------------------- MODULE PoolService ----------------------------
(***************************************************************************)
(* What a request pool promises its callers, without goroutines, counters  *)
(* or channels: at most MaxRunning requests are at the backend and at most *)
(* Capacity wait for it, requests start in the order in which they were    *)
(* admitted, a request is refused only when the line is full, and one that *)
(* has started is finished exactly once.  A client may leave at any time;  *)
(* its request keeps its place in the line.                                *)
(***************************************************************************)
EXTENDS Naturals, Sequences, FiniteSets

CONSTANTS Requests, Capacity, MaxRunning

VARIABLES line,      \* admitted requests that have not started, in order
          running,   \* requests at the backend
          finished,  \* requests the backend is done with
          client,    \* what each client knows
          open       \* the pool still takes requests

abstractVars == <<line, running, finished, client, open>>

ServiceInit ==
    /\ line = <<>>
    /\ running = {}
    /\ finished = {}
    /\ client = [r \in Requests |-> "outside"]
    /\ open = TRUE

ClientBecomes(r, from, to) ==
    /\ client[r] = from
    /\ client' = [client EXCEPT ![r] = to]

Admit(r) ==
    /\ open
    /\ Len(line) < Capacity
    /\ ClientBecomes(r, "outside", "waiting")
    /\ line' = Append(line, r)
    /\ UNCHANGED <<running, finished, open>>

\* Nobody is in line and the backend has room: the request starts at once.
AdmitAndStart(r) ==
    /\ open
    /\ line = <<>>
    /\ Cardinality(running) < MaxRunning
    /\ ClientBecomes(r, "outside", "waiting")
    /\ running' = running \cup {r}
    /\ UNCHANGED <<line, finished, open>>

Turn(r) ==
    /\ open
    /\ Len(line) = Capacity
    /\ ClientBecomes(r, "outside", "refused")
    /\ UNCHANGED <<line, running, finished, open>>

\* A client that arrives while the pool is being removed gets an error.
Fail(r) ==
    /\ ~open
    /\ ClientBecomes(r, "outside", "failed")
    /\ UNCHANGED <<line, running, finished, open>>

StartFirst ==
    /\ line # <<>>
    /\ Cardinality(running) < MaxRunning
    /\ running' = running \cup {Head(line)}
    /\ line' = Tail(line)
    /\ UNCHANGED <<finished, client, open>>

Finish(r) ==
    /\ r \in running
    /\ r \notin finished
    /\ running' = running \ {r}
    /\ finished' = finished \cup {r}
    /\ UNCHANGED <<line, client, open>>

Answered(r) ==
    /\ r \in finished
    /\ ClientBecomes(r, "waiting", "answered")
    /\ UNCHANGED <<line, running, finished, open>>

Leave(r) ==
    /\ ClientBecomes(r, "waiting", "gone")
    /\ UNCHANGED <<line, running, finished, open>>

Close ==
    /\ open
    /\ open' = FALSE
    /\ UNCHANGED <<line, running, finished, client>>

ServiceNext ==
    \/ \E r \in Requests :
          \/ Admit(r) \/ AdmitAndStart(r) \/ Turn(r) \/ Fail(r)
          \/ Finish(r) \/ Answered(r) \/ Leave(r)
    \/ StartFirst
    \/ Close

ServiceSpec == ServiceInit /\ [][ServiceNext]_abstractVars
=============================================================================
