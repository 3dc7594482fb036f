---------------------------- MODULE RequestPool ----------------------------
(***************************************************************************)
(* One request pool of the gateway (internal/pool/pool.go): the handlers   *)
(* that look the pool up and wait for an answer, the bounded channel of    *)
(* waiting requests, the worker goroutines that forward them to the        *)
(* backend, the two atomic counters, the metrics callback that copies the  *)
(* counters into the registry, and the pool's removal and shutdown.        *)
(*                                                                         *)
(* Every step is one that other goroutines can observe: an atomic add or   *)
(* load, a channel operation, a call of the callback.                      *)
(***************************************************************************)
EXTENDS Integers, Sequences, FiniteSets, Functions

CONSTANTS Requests,       \* the requests that reach this pool, one handler each
          Workers,        \* the maxConcur goroutines started by NewRequestPool
          QueueCapacity,  \* capacity of the channel p.queue
          NoRequest       \* a worker that holds no request

ASSUME PoolAssumption ==
    /\ IsFiniteSet(Requests)
    /\ IsFiniteSet(Workers)
    /\ Workers # {}
    /\ Requests \cap Workers = {}
    /\ QueueCapacity \in Nat
    /\ NoRequest \notin Requests

VARIABLES
    handler,      \* where ServeWithHeaders (and its caller's GetPool) stands
    ctxDone,      \* the client's request context has ended
    done,         \* the channel req.Done is closed
    answer,       \* what was written to the ResponseWriter
    worker,       \* where worker.run stands
    held,         \* the request a worker has received
    outcome,      \* what forwarding the held request came to
    queue,        \* contents of the channel p.queue
    queueClosed,  \* close(p.queue) happened
    cancelled,    \* p.cancel() happened: the pool's context is done
    shutdown,     \* where RemovePool stands
    active,       \* p.activeCount
    waiting,      \* p.waitingCount
    notify,       \* where a goroutine's notifyMetricsChanged stands
    seen,         \* the counters that goroutine has loaded so far
    reported      \* Active and QueueLen of the endpoint in the registry

counters == <<active, waiting>>
metrics == <<notify, seen, reported>>
lifecycle == <<queueClosed, cancelled, shutdown>>
handlerVars == <<handler, ctxDone>>
workerVars == <<worker, held, outcome>>
vars == <<handlerVars, done, answer, workerVars, queue, lifecycle, counters, metrics>>

Threads == Requests \cup Workers

Returned == {"served", "cancelled", "refused", "panicked", "notFound"}
HandlerStates == {"idle", "found", "counted", "full", "refusing", "waiting"} \cup Returned
WorkerStates == {"select", "received", "started", "forwarding", "replied", "finishing", "exited"}
Outcomes == {"ok", "badGateway", "badRequest", "dropped"}
Answers == {"none", "ok", "badGateway", "badRequest", "unavailable"}
ShutdownStates == {"open", "removed", "cancelled", "closed", "complete"}
Snapshot == [active : Int, waiting : Int]

TypeOK ==
    /\ handler \in [Requests -> HandlerStates]
    /\ ctxDone \in [Requests -> BOOLEAN]
    /\ done \in [Requests -> BOOLEAN]
    /\ answer \in [Requests -> Answers]
    /\ worker \in [Workers -> WorkerStates]
    /\ held \in [Workers -> Requests \cup {NoRequest}]
    /\ outcome \in [Workers -> Outcomes \cup {"none"}]
    /\ queue \in Seq(Requests)
    /\ queueClosed \in BOOLEAN
    /\ cancelled \in BOOLEAN
    /\ shutdown \in ShutdownStates
    /\ active \in Int
    /\ waiting \in Int
    /\ notify \in [Threads -> {"quiet", "loadActive", "loadWaiting", "report"}]
    /\ seen \in [Threads -> Snapshot]
    /\ reported \in Snapshot

Zero == [active |-> 0, waiting |-> 0]

\* CreatePool and NewRequestPool: the workers are running and nothing waits.
Init ==
    /\ handler = [r \in Requests |-> "idle"]
    /\ ctxDone = [r \in Requests |-> FALSE]
    /\ done = [r \in Requests |-> FALSE]
    /\ answer = [r \in Requests |-> "none"]
    /\ worker = [w \in Workers |-> "select"]
    /\ held = [w \in Workers |-> NoRequest]
    /\ outcome = [w \in Workers |-> "none"]
    /\ queue = <<>>
    /\ queueClosed = FALSE
    /\ cancelled = FALSE
    /\ shutdown = "open"
    /\ active = 0
    /\ waiting = 0
    /\ notify = [t \in Threads |-> "quiet"]
    /\ seen = [t \in Threads |-> Zero]
    /\ reported = Zero

-----------------------------------------------------------------------------
(* notifyMetricsChanged: two separate atomic loads, then the callback,     *)
(* which overwrites Active and QueueLen in the registry.  A goroutine does *)
(* nothing else until the callback has returned.                           *)

StartNotify(t) ==
    /\ notify' = [notify EXCEPT ![t] = "loadActive"]
    /\ UNCHANGED <<seen, reported>>

Quiet(t) == notify[t] = "quiet"

LoadActive(t) ==
    /\ notify[t] = "loadActive"
    /\ notify' = [notify EXCEPT ![t] = "loadWaiting"]
    /\ seen' = [seen EXCEPT ![t] = [active |-> active, waiting |-> 0]]
    /\ UNCHANGED <<handlerVars, done, answer, workerVars, queue, lifecycle, counters, reported>>

LoadWaiting(t) ==
    /\ notify[t] = "loadWaiting"
    /\ notify' = [notify EXCEPT ![t] = "report"]
    /\ seen' = [seen EXCEPT ![t] = [active |-> seen[t].active, waiting |-> waiting]]
    /\ UNCHANGED <<handlerVars, done, answer, workerVars, queue, lifecycle, counters, reported>>

Report(t) ==
    /\ notify[t] = "report"
    /\ notify' = [notify EXCEPT ![t] = "quiet"]
    /\ reported' = seen[t]
    /\ seen' = [seen EXCEPT ![t] = Zero]
    /\ UNCHANGED <<handlerVars, done, answer, workerVars, queue, lifecycle, counters>>

-----------------------------------------------------------------------------
(* The handler: GetPool, then ServeWithHeaders.                            *)

HandlerStep(r, from, to) ==
    /\ handler[r] = from
    /\ Quiet(r)
    /\ handler' = [handler EXCEPT ![r] = to]

\* GetPool: finds the pool only while RemovePool has not deleted it.
GetPool(r) ==
    /\ HandlerStep(r, "idle", IF shutdown = "open" THEN "found" ELSE "notFound")
    /\ answer' = IF shutdown = "open" THEN answer
                 ELSE [answer EXCEPT ![r] = "unavailable"]
    /\ UNCHANGED <<ctxDone, done, workerVars, queue, lifecycle, counters, metrics>>

CountWaiting(r) ==
    /\ HandlerStep(r, "found", "counted")
    /\ waiting' = waiting + 1
    /\ StartNotify(r)
    /\ UNCHANGED <<ctxDone, done, answer, workerVars, queue, lifecycle, active>>

\* The non-blocking send, when the channel buffer has room.
Enqueue(r) ==
    /\ ~queueClosed
    /\ Len(queue) < QueueCapacity
    /\ HandlerStep(r, "counted", "waiting")
    /\ queue' = Append(queue, r)
    /\ UNCHANGED <<ctxDone, done, answer, workerVars, lifecycle, counters, metrics>>

\* Mutant: the request overtakes those in the buffer.
HandOverOvertaking(r, w) ==
    /\ ~cancelled
    /\ worker[w] = "select"
    /\ Quiet(w)
    /\ HandlerStep(r, "counted", "waiting")
    /\ worker' = [worker EXCEPT ![w] = "received"]
    /\ held' = [held EXCEPT ![w] = r]
    /\ UNCHANGED <<ctxDone, done, answer, outcome, queue, lifecycle, counters, metrics>>

\* The non-blocking send, when worker w is parked in its select: the channel
\* hands the request over without buffering it.
HandOver(r, w) ==
    /\ ~cancelled
    /\ queue = <<>>
    /\ worker[w] = "select"
    /\ Quiet(w)
    /\ HandlerStep(r, "counted", "waiting")
    /\ worker' = [worker EXCEPT ![w] = "received"]
    /\ held' = [held EXCEPT ![w] = r]
    /\ UNCHANGED <<ctxDone, done, answer, outcome, queue, lifecycle, counters, metrics>>

\* Mutant: off by one, the last place in the queue is never used.
QueueFullEarly(r) ==
    /\ ~queueClosed
    /\ Len(queue) >= QueueCapacity - 1
    /\ HandlerStep(r, "counted", "full")
    /\ UNCHANGED <<ctxDone, done, answer, workerVars, queue, lifecycle, counters, metrics>>

\* The default branch of the select.
QueueFull(r) ==
    /\ ~queueClosed
    /\ Len(queue) = QueueCapacity
    /\ HandlerStep(r, "counted", "full")
    /\ UNCHANGED <<ctxDone, done, answer, workerVars, queue, lifecycle, counters, metrics>>

\* A send on the closed channel panics; net/http recovers the handler.
SendOnClosed(r) ==
    /\ queueClosed
    /\ HandlerStep(r, "counted", "panicked")
    /\ UNCHANGED <<ctxDone, done, answer, workerVars, queue, lifecycle, counters, metrics>>

\* Mutant: a refused request stays counted as waiting.
UncountWaitingForgotten(r) ==
    /\ HandlerStep(r, "full", "refusing")
    /\ StartNotify(r)
    /\ UNCHANGED <<ctxDone, done, answer, workerVars, queue, lifecycle, counters>>

UncountWaiting(r) ==
    /\ HandlerStep(r, "full", "refusing")
    /\ waiting' = waiting - 1
    /\ StartNotify(r)
    /\ UNCHANGED <<ctxDone, done, answer, workerVars, queue, lifecycle, active>>

Refuse(r) ==
    /\ HandlerStep(r, "refusing", "refused")
    /\ answer' = [answer EXCEPT ![r] = "unavailable"]
    /\ UNCHANGED <<ctxDone, done, workerVars, queue, lifecycle, counters, metrics>>

ReturnServed(r) ==
    /\ done[r]
    /\ HandlerStep(r, "waiting", "served")
    /\ UNCHANGED <<ctxDone, done, answer, workerVars, queue, lifecycle, counters, metrics>>

ReturnCancelled(r) ==
    /\ ctxDone[r]
    /\ HandlerStep(r, "waiting", "cancelled")
    /\ UNCHANGED <<ctxDone, done, answer, workerVars, queue, lifecycle, counters, metrics>>

\* The client goes away (or its deadline passes) while the handler runs.
Disconnect(r) ==
    /\ handler[r] \notin Returned \cup {"idle"}
    /\ ~ctxDone[r]
    /\ ctxDone' = [ctxDone EXCEPT ![r] = TRUE]
    /\ UNCHANGED <<handler, done, answer, workerVars, queue, lifecycle, counters, metrics>>

-----------------------------------------------------------------------------
(* worker.run and processRequest.                                          *)

WorkerStep(w, from, to) ==
    /\ worker[w] = from
    /\ Quiet(w)
    /\ worker' = [worker EXCEPT ![w] = to]

\* Mutant: the request stays in the queue while a worker has it.
ReceivePeek(w) ==
    /\ queue # <<>>
    /\ WorkerStep(w, "select", "received")
    /\ held' = [held EXCEPT ![w] = Head(queue)]
    /\ UNCHANGED <<handlerVars, done, answer, outcome, queue, lifecycle, counters, metrics>>

\* The select of worker.run, on the queue.  A closed channel still delivers
\* what it holds, and a select with several ready cases takes any of them,
\* so a worker may receive after the pool's context is cancelled.
Receive(w) ==
    /\ queue # <<>>
    /\ WorkerStep(w, "select", "received")
    /\ held' = [held EXCEPT ![w] = Head(queue)]
    /\ queue' = Tail(queue)
    /\ UNCHANGED <<handlerVars, done, answer, outcome, lifecycle, counters, metrics>>

\* The select of worker.run, on running, context.Done or the drained queue.
Exit(w) ==
    /\ cancelled \/ (queueClosed /\ queue = <<>>)
    /\ WorkerStep(w, "select", "exited")
    /\ UNCHANGED <<handlerVars, done, answer, held, outcome, queue, lifecycle, counters, metrics>>

CountActive(w) ==
    /\ WorkerStep(w, "received", "started")
    /\ active' = active + 1
    /\ StartNotify(w)
    /\ UNCHANGED <<handlerVars, done, answer, held, outcome, queue, lifecycle, waiting>>

\* Mutant: the registry is not told that the request no longer waits.
LeaveWaitingUnreported(w) ==
    /\ WorkerStep(w, "started", "forwarding")
    /\ waiting' = waiting - 1
    /\ UNCHANGED <<handlerVars, done, answer, held, outcome, queue, lifecycle, active, metrics>>

LeaveWaiting(w) ==
    /\ WorkerStep(w, "started", "forwarding")
    /\ waiting' = waiting - 1
    /\ StartNotify(w)
    /\ UNCHANGED <<handlerVars, done, answer, held, outcome, queue, lifecycle, active>>

\* Mutant: a failed client.Do is never answered, whatever the context says.
ForwardSilent(w) ==
    /\ WorkerStep(w, "forwarding", "replied")
    /\ \E o \in Outcomes :
          /\ o = "badGateway" => ~cancelled
          /\ outcome' = [outcome EXCEPT ![w] = o]
    /\ UNCHANGED <<handlerVars, done, answer, held, queue, lifecycle, counters, metrics>>

\* processRequest up to the point where the answer is decided.  Reading the
\* body may fail; the backend may answer; client.Do may fail, and then the
\* merged context is looked at: pool.cancel reaches it at once, the client's
\* context through a goroutine, so it may or may not be seen.
Forward(w) ==
    /\ WorkerStep(w, "forwarding", "replied")
    /\ \E o \in Outcomes :
          /\ o = "badGateway" => ~cancelled
          /\ o = "dropped" => cancelled \/ ctxDone[held[w]]
          /\ outcome' = [outcome EXCEPT ![w] = o]
    /\ UNCHANGED <<handlerVars, done, answer, held, queue, lifecycle, counters, metrics>>

\* The answer is written (or dropped) and req.Done is closed.
Respond(w) ==
    /\ WorkerStep(w, "replied", "finishing")
    /\ answer' = IF outcome[w] = "dropped" THEN answer
                 ELSE [answer EXCEPT ![held[w]] = outcome[w]]
    /\ done' = [done EXCEPT ![held[w]] = TRUE]
    /\ UNCHANGED <<handlerVars, held, outcome, queue, lifecycle, counters, metrics>>

\* Mutant: the worker serves one request and ends.
UncountActiveEnds(w) ==
    /\ WorkerStep(w, "finishing", "exited")
    /\ held' = [held EXCEPT ![w] = NoRequest]
    /\ outcome' = [outcome EXCEPT ![w] = "none"]
    /\ active' = active - 1
    /\ StartNotify(w)
    /\ UNCHANGED <<handlerVars, done, answer, queue, lifecycle, waiting>>

UncountActive(w) ==
    /\ WorkerStep(w, "finishing", "select")
    /\ held' = [held EXCEPT ![w] = NoRequest]
    /\ outcome' = [outcome EXCEPT ![w] = "none"]
    /\ active' = active - 1
    /\ StartNotify(w)
    /\ UNCHANGED <<handlerVars, done, answer, queue, lifecycle, waiting>>

-----------------------------------------------------------------------------
(* RemovePool, then Shutdown.                                              *)

ShutdownStep(from, to) ==
    /\ shutdown = from
    /\ shutdown' = to

RemovePool ==
    /\ ShutdownStep("open", "removed")
    /\ UNCHANGED <<handlerVars, done, answer, workerVars, queue, queueClosed, cancelled, counters, metrics>>

\* Mutant: Shutdown waits for the workers without telling them to stop.
CancelForgotten ==
    /\ ShutdownStep("removed", "closed")
    /\ UNCHANGED <<handlerVars, done, answer, workerVars, queue, queueClosed, cancelled, counters, metrics>>

Cancel ==
    /\ ShutdownStep("removed", "cancelled")
    /\ cancelled' = TRUE
    /\ UNCHANGED <<handlerVars, done, answer, workerVars, queue, queueClosed, counters, metrics>>

\* Closing the running channels lets no worker do what the cancelled context
\* does not already let it do, so the loop and close(p.queue) are one step.
CloseQueue ==
    /\ ShutdownStep("cancelled", "closed")
    /\ queueClosed' = TRUE
    /\ UNCHANGED <<handlerVars, done, answer, workerVars, queue, cancelled, counters, metrics>>

\* workerWG.Wait returns.
ShutdownComplete ==
    /\ \A w \in Workers : worker[w] = "exited"
    /\ ShutdownStep("closed", "complete")
    /\ UNCHANGED <<handlerVars, done, answer, workerVars, queue, queueClosed, cancelled, counters, metrics>>

-----------------------------------------------------------------------------
NotifyNext(t) == LoadActive(t) \/ LoadWaiting(t) \/ Report(t)

HandlerNext(r) ==
    \/ CountWaiting(r)
    \/ Enqueue(r)
    \/ \E w \in Workers : HandOver(r, w)
    \/ QueueFull(r)
    \/ SendOnClosed(r)
    \/ UncountWaiting(r)
    \/ Refuse(r)
    \/ ReturnServed(r)
    \/ ReturnCancelled(r)

WorkerNext(w) ==
    \/ Receive(w)
    \/ Exit(w)
    \/ CountActive(w)
    \/ LeaveWaiting(w)
    \/ Forward(w)
    \/ Respond(w)
    \/ UncountActive(w)

ShutdownNext == Cancel \/ CloseQueue \/ ShutdownComplete

Next ==
    \/ \E t \in Threads : NotifyNext(t)
    \/ \E r \in Requests : GetPool(r) \/ HandlerNext(r) \/ Disconnect(r)
    \/ \E w \in Workers : WorkerNext(w)
    \/ RemovePool
    \/ ShutdownNext

Spec == Init /\ [][Next]_vars

(* The Go scheduler runs every goroutine that can run; a forward ends       *)
(* because the client has a timeout.  Nothing makes a client call or leave, *)
(* or an operator remove the pool.                                          *)
Fairness ==
    /\ \A t \in Threads : WF_vars(NotifyNext(t))
    /\ \A r \in Requests : WF_vars(HandlerNext(r))
    /\ \A w \in Workers : WF_vars(WorkerNext(w))
    /\ WF_vars(ShutdownNext)

FairSpec == Spec /\ Fairness

-----------------------------------------------------------------------------
(* Properties.                                                             *)

InQueue(r) == r \in Range(queue)

\* The requests that waitingCount stands for.  A handler that panicked on the
\* closed channel is one of them for ever: nothing takes it back.
CountedWaiting ==
    {r \in Requests :
        \/ handler[r] \in {"counted", "full", "panicked"}
        \/ InQueue(r)
        \/ \E w \in Workers : held[w] = r /\ worker[w] \in {"received", "started"}}

CountedActive ==
    {w \in Workers : worker[w] \in {"started", "forwarding", "replied", "finishing"}}

\* The atomic counters that handlers and workers move independently are always
\* the number of requests in the phases they stand for, however the goroutines
\* interleave and whether or not the pool is shut down: waitingCount and
\* activeCount never drift and never go negative.
CountersExact ==
    /\ waiting = Cardinality(CountedWaiting)
    /\ active = Cardinality(CountedActive)

\* A request has at most one owner: one place in the channel or one worker, never
\* both and never two.  One whose Done channel is closed is in neither, except
\* the worker that has just closed it, so close(req.Done) never runs twice; and
\* a handler that still waits has not been lost by both the queue and the workers.
SingleOwner ==
    /\ IsInjective(queue)
    /\ \A v, w \in Workers : held[v] = held[w] /\ held[v] # NoRequest => v = w
    /\ \A w \in Workers : held[w] # NoRequest => ~InQueue(held[w])
    /\ \A r \in Requests : done[r] => ~InQueue(r)
    /\ \A w \in Workers :
          worker[w] \in {"received", "started", "forwarding", "replied"} => ~done[held[w]]
    /\ \A r \in Requests :
          handler[r] = "waiting" => done[r] \/ InQueue(r) \/ \E w \in Workers : held[w] = r

\* The positions of handlers, workers, channels and shutdown fit together.  This is
\* what makes SingleOwner inductive: a request in the queue or with a worker belongs
\* to a handler that is past its send, Done is closed exactly when the worker is about
\* to let go, and the closed channel and the cancelled context follow RemovePool.
PhasesAgree ==
    /\ \A w \in Workers : held[w] = NoRequest <=> worker[w] \in {"select", "exited"}
    /\ \A r \in Requests : InQueue(r) => handler[r] \in {"waiting", "cancelled"}
    /\ \A w \in Workers :
          held[w] # NoRequest =>
              /\ handler[held[w]] \in {"waiting", "cancelled", "served"}
              /\ done[held[w]] <=> worker[w] = "finishing"
    /\ \A r \in Requests : done[r] => handler[r] \in {"waiting", "cancelled", "served"}
    /\ \A r \in Requests : handler[r] = "served" => done[r]
    /\ cancelled <=> shutdown \in {"cancelled", "closed", "complete"}
    /\ queueClosed <=> shutdown \in {"closed", "complete"}

\* Answers and the closing of Done fit together: only a finished or refused request
\* has an answer, and a finished one lacks it only when its context had ended.
AnswersAgree ==
    /\ \A r \in Requests :
          answer[r] # "none" => done[r] \/ handler[r] \in {"refused", "notFound"}
    /\ \A r \in Requests : done[r] => answer[r] # "none" \/ cancelled \/ ctxDone[r]
    /\ \A w \in Workers :
          worker[w] = "replied" =>
              /\ outcome[w] \in Outcomes
              /\ outcome[w] = "dropped" => cancelled \/ ctxDone[held[w]]

\* A handler that returns "served" has had an answer written for it, unless the
\* forward was cut short by the pool's shutdown or by the client leaving
\* (forwardRequestWithHeaders returns without writing on ctx.Done).
ServedHasAnswer ==
    \A r \in Requests :
        handler[r] = "served" => answer[r] # "none" \/ cancelled \/ ctxDone[r]

\* A handler takes the "queue full" branch only while the waiting counter
\* that the other goroutines see really exceeds the queue's capacity.
RefusalJustified ==
    [][\A r \in Requests :
          handler[r] = "counted" /\ handler'[r] = "full" => waiting > QueueCapacity]_vars

\* What a client was told is never overwritten: handler and workers never both
\* write an answer to the same ResponseWriter.
AnsweredOnce ==
    [][\A r \in Requests : answer[r] # "none" => answer'[r] = answer[r]]_vars

\* No goroutine moves a counter while another one is about to report.
OneReports == \A t, u \in Threads : ~Quiet(t) /\ ~Quiet(u) => t = u

\* The registry is told of every change: as long as the reports do not overlap, it has
\* the current counters whenever no report is under way, also after refusals, clients
\* that left, panics and the shutdown.  (Reports that overlap may leave an older load.)
ReportCurrent ==
    []OneReports =>
        []((\A t \in Threads : Quiet(t)) => reported = [active |-> active, waiting |-> waiting])

\* A request that was accepted is answered or given up by its client, unless
\* the pool is shut down meanwhile.
AcceptedEnds ==
    \A r \in Requests :
        handler[r] = "waiting" ~> handler[r] \in Returned \/ cancelled

\* RemovePool returns: Shutdown waits for its workers but never for ever, even
\* with requests at the backend, in the queue, and still being sent.
ShutdownEnds == shutdown # "open" ~> shutdown = "complete"

\* The pool implements PoolService.  A request runs from the moment a worker has
\* received it until its Done channel is closed.
ClientView(r) ==
    CASE handler[r] \in {"idle", "found", "counted", "notFound"} -> "outside"
      [] handler[r] \in {"full", "refusing", "refused"} -> "refused"
      [] handler[r] = "waiting" -> "waiting"
      [] handler[r] = "served" -> "answered"
      [] handler[r] = "cancelled" -> "gone"
      [] OTHER -> "failed"

RunningRequests ==
    {r \in Requests : \E w \in Workers : held[w] = r /\ worker[w] # "finishing"}

Service == INSTANCE PoolService WITH
    Capacity <- QueueCapacity,
    MaxRunning <- Cardinality(Workers),
    line <- queue,
    running <- RunningRequests,
    finished <- {r \in Requests : done[r]},
    client <- [r \in Requests |-> ClientView(r)],
    open <- ~queueClosed

\* The goroutines, counters and channels implement the pool's promise: bounded
\* concurrency, first come first served, refusal only when full, and one finish
\* per started request.
ImplementsService == Service!ServiceSpec
=============================================================================
