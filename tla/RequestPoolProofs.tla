------------------------- MODULE RequestPoolProofs -------------------------
(***************************************************************************)
(* Machine-checked proofs about RequestPool, for any number of requests    *)
(* and workers and any queue capacity.                                     *)
(***************************************************************************)
EXTENDS RequestPool, FiniteSetTheorems, TLAPS

(* What appending to a channel and receiving from it do to its contents.   *)

LEMMA AppendRange ==
    ASSUME NEW S, NEW q \in Seq(S), NEW x \in S
    PROVE  Range(Append(q, x)) = Range(q) \cup {x}
  <1>1. /\ DOMAIN q = 1..Len(q) /\ Len(q) \in Nat
        /\ DOMAIN Append(q, x) = 1..(Len(q) + 1)
        /\ \A i \in 1..Len(q) : Append(q, x)[i] = q[i]
        /\ Append(q, x)[Len(q) + 1] = x
    OBVIOUS
  <1>2. Range(q) \cup {x} \subseteq Range(Append(q, x))
    BY <1>1 DEF Range
  <1>3. ASSUME NEW i \in 1..(Len(q) + 1)
        PROVE  Append(q, x)[i] \in Range(q) \cup {x}
    <2>1. i \in 1..Len(q) \/ i = Len(q) + 1
      BY <1>1
    <2>. QED  BY <1>1, <2>1 DEF Range
  <1>4. Range(Append(q, x)) \subseteq Range(q) \cup {x}
    BY <1>1, <1>3 DEF Range
  <1>. QED  BY <1>2, <1>4

LEMMA AppendInjectiveSeq ==
    ASSUME NEW S, NEW q \in Seq(S), NEW x \in S, IsInjective(q), x \notin Range(q)
    PROVE  IsInjective(Append(q, x))
  BY DEF Range, IsInjective

LEMMA TailRange ==
    ASSUME NEW S, NEW q \in Seq(S), q # <<>>
    PROVE  /\ Head(q) \in Range(q)
           /\ Range(q) = Range(Tail(q)) \cup {Head(q)}
           /\ IsInjective(q) => IsInjective(Tail(q)) /\ Head(q) \notin Range(Tail(q))
  <1>1. Len(q) \in Nat /\ Len(q) >= 1 /\ Head(q) = q[1]
    OBVIOUS
  <1>2. /\ Tail(q) \in Seq(S)
        /\ DOMAIN Tail(q) = 1..(Len(q) - 1)
        /\ \A i \in 1..(Len(q) - 1) : Tail(q)[i] = q[i + 1]
    BY <1>1
  <1>3. Head(q) \in Range(q)
    BY <1>1 DEF Range
  <1>4. Range(q) = Range(Tail(q)) \cup {Head(q)}
    <2>1. ASSUME NEW i \in 1..Len(q), i # 1  PROVE q[i] \in Range(Tail(q))
      <3>1. i - 1 \in 1..(Len(q) - 1) /\ Tail(q)[i - 1] = q[i]
        BY <1>1, <1>2, <2>1
      <3>. QED  BY <3>1, <1>2, Zenon DEF Range
    <2>2. Range(Tail(q)) \subseteq Range(q)
      BY <1>1, <1>2 DEF Range
    <2>3. Range(q) \subseteq Range(Tail(q)) \cup {Head(q)}
      BY <1>1, <2>1 DEF Range
    <2>. QED  BY <1>3, <2>2, <2>3
  <1>5. ASSUME IsInjective(q)
        PROVE  IsInjective(Tail(q)) /\ Head(q) \notin Range(Tail(q))
    <2>1. \A i, j \in 1..Len(q) : q[i] = q[j] => i = j
      BY <1>5 DEF IsInjective
    <2>2. IsInjective(Tail(q))
      <3> SUFFICES ASSUME NEW i \in 1..(Len(q) - 1), NEW j \in 1..(Len(q) - 1),
                          Tail(q)[i] = Tail(q)[j]
                   PROVE  i = j
        BY <1>2 DEF IsInjective
      <3>. QED  BY <1>1, <1>2, <2>1
    <2>3. Head(q) \notin Range(Tail(q))
      <3> SUFFICES ASSUME NEW i \in 1..(Len(q) - 1), Tail(q)[i] = Head(q)  PROVE FALSE
        BY <1>2 DEF Range
      <3>. QED  BY <1>1, <1>2, <2>1
    <2>. QED  BY <2>2, <2>3
  <1>. QED  BY <1>3, <1>4, <1>5

-----------------------------------------------------------------------------
(* Every variable keeps its type: no handler, worker or shutdown step takes *)
(* the pool's state outside the shapes the code declares (pool.go:34-65).   *)
THEOREM TypeCorrect == Spec => []TypeOK
  <1> USE PoolAssumption DEF TypeOK, Threads, HandlerStates, Returned, WorkerStates,
          Outcomes, Answers, ShutdownStates, Snapshot, Zero
  <1>1. Init => TypeOK
    <2> SUFFICES ASSUME Init  PROVE TypeOK
      OBVIOUS
    <2>1. queue \in Seq(Requests)
      BY DEF Init
    <2>2. seen \in [Threads -> Snapshot] /\ reported \in Snapshot
      BY DEF Init
    <2>3. /\ handler \in [Requests -> HandlerStates]
          /\ ctxDone \in [Requests -> BOOLEAN] /\ done \in [Requests -> BOOLEAN]
          /\ answer \in [Requests -> Answers]
      BY DEF Init
    <2>4. /\ worker \in [Workers -> WorkerStates]
          /\ held \in [Workers -> Requests \cup {NoRequest}]
          /\ outcome \in [Workers -> Outcomes \cup {"none"}]
      BY DEF Init
    <2>5. notify \in [Threads -> {"quiet", "loadActive", "loadWaiting", "report"}]
      BY DEF Init
    <2>6. queueClosed \in BOOLEAN /\ cancelled \in BOOLEAN /\ shutdown \in ShutdownStates
      BY Zenon DEF Init
    <2>7. active \in Int /\ waiting \in Int
      BY DEF Init
    <2> HIDE DEF Threads, HandlerStates, WorkerStates, Outcomes, Answers, ShutdownStates, Snapshot
    <2>. QED  BY <2>1, <2>2, <2>3, <2>4, <2>5, <2>6, <2>7
  <1>2. TypeOK /\ [Next]_vars => TypeOK'
    <2> HIDE DEF TypeOK
    <2> SUFFICES ASSUME TypeOK, [Next]_vars  PROVE TypeOK'
      BY Zenon
    <2> USE DEF TypeOK, vars, counters, metrics, lifecycle, handlerVars, workerVars,
            StartNotify, Quiet, HandlerStep, WorkerStep, ShutdownStep
    <2>1. ASSUME NEW t \in Threads, NotifyNext(t)  PROVE TypeOK'
      <3>1. CASE LoadActive(t)  BY <3>1 DEF LoadActive
      <3>2. CASE LoadWaiting(t)  BY <3>2 DEF LoadWaiting
      <3>3. CASE Report(t)  BY <3>3 DEF Report
      <3> HIDE DEF TypeOK
      <3>. QED  BY <2>1, <3>1, <3>2, <3>3 DEF NotifyNext
    <2>2. ASSUME NEW r \in Requests, GetPool(r)  PROVE TypeOK'
      BY <2>2 DEF GetPool
    <2>3. ASSUME NEW r \in Requests, Disconnect(r)  PROVE TypeOK'
      BY <2>3 DEF Disconnect
    <2>4. ASSUME NEW r \in Requests, HandlerNext(r)  PROVE TypeOK'
      <3>1. CASE CountWaiting(r)  BY <3>1 DEF CountWaiting
      <3>2. CASE Enqueue(r)
        <4>1. Append(queue, r) \in Seq(Requests)
          OBVIOUS
        <4>. QED  BY <3>2, <4>1 DEF Enqueue
      <3>3. ASSUME NEW w \in Workers, HandOver(r, w)  PROVE TypeOK'
        BY <3>3 DEF HandOver
      <3>4. CASE QueueFull(r)  BY <3>4 DEF QueueFull
      <3>5. CASE SendOnClosed(r)  BY <3>5 DEF SendOnClosed
      <3>6. CASE UncountWaiting(r)  BY <3>6 DEF UncountWaiting
      <3>7. CASE Refuse(r)  BY <3>7 DEF Refuse
      <3>8. CASE ReturnServed(r)  BY <3>8 DEF ReturnServed
      <3>9. CASE ReturnCancelled(r)  BY <3>9 DEF ReturnCancelled
      <3> HIDE DEF TypeOK
      <3>. QED
        BY <2>4, <3>1, <3>2, <3>3, <3>4, <3>5, <3>6, <3>7, <3>8, <3>9 DEF HandlerNext
    <2>5. ASSUME NEW w \in Workers, WorkerNext(w)  PROVE TypeOK'
      <3>1. CASE Receive(w)
        <4>1. Head(queue) \in Requests /\ Tail(queue) \in Seq(Requests)
          BY <3>1 DEF Receive
        <4>. QED  BY <3>1, <4>1, Zenon DEF Receive
      <3>2. CASE Exit(w)  BY <3>2 DEF Exit
      <3>3. CASE CountActive(w)  BY <3>3 DEF CountActive
      <3>4. CASE LeaveWaiting(w)  BY <3>4 DEF LeaveWaiting
      <3>5. CASE Forward(w)  BY <3>5, SMTT(120) DEF Forward
      <3>6. CASE Respond(w)
        <4>1. answer' \in [Requests -> Answers] /\ done' \in [Requests -> BOOLEAN]
          BY <3>6, Zenon DEF Respond
        <4>. QED  BY <3>6, <4>1, SMTT(120) DEF Respond
      <3>7. CASE UncountActive(w)  BY <3>7 DEF UncountActive
      <3> HIDE DEF TypeOK
      <3>. QED  BY <2>5, <3>1, <3>2, <3>3, <3>4, <3>5, <3>6, <3>7 DEF WorkerNext
    <2>6. CASE RemovePool  BY <2>6 DEF RemovePool
    <2>7. CASE ShutdownNext
      <3>1. CASE Cancel  BY <3>1 DEF Cancel
      <3>2. CASE CloseQueue  BY <3>2 DEF CloseQueue
      <3>3. CASE ShutdownComplete  BY <3>3 DEF ShutdownComplete
      <3> HIDE DEF TypeOK
      <3>. QED  BY <2>7, <3>1, <3>2, <3>3 DEF ShutdownNext
    <2>8. CASE UNCHANGED vars  BY <2>8
    <2> HIDE DEF TypeOK, vars
    <2>. QED  BY <2>1, <2>2, <2>3, <2>4, <2>5, <2>6, <2>7, <2>8 DEF Next
  <1>. QED  BY <1>1, <1>2, PTL DEF Spec

-----------------------------------------------------------------------------
(* The inductive invariant: who owns a request, and where everyone stands. *)
OwnershipInv == TypeOK /\ SingleOwner /\ PhasesAgree /\ AnswersAgree

LEMMA OwnershipInit == Init => SingleOwner /\ PhasesAgree /\ AnswersAgree
  <1> SUFFICES ASSUME Init  PROVE SingleOwner /\ PhasesAgree /\ AnswersAgree
    OBVIOUS
  <1>1. queue = <<>> /\ Range(queue) = {} /\ IsInjective(queue)
    BY DEF Init, Range, IsInjective
  <1>. QED
    BY <1>1, PoolAssumption DEF Init, SingleOwner, PhasesAgree, AnswersAgree, InQueue

\* Steps that touch neither the requests' owners nor their phases.
LEMMA OwnershipFrame ==
    ASSUME SingleOwner, PhasesAgree, AnswersAgree,
           UNCHANGED <<handlerVars, done, answer, workerVars, queue, lifecycle>>
    PROVE  SingleOwner' /\ PhasesAgree' /\ AnswersAgree'
  BY DEF SingleOwner, PhasesAgree, AnswersAgree, InQueue, handlerVars, workerVars, lifecycle

\* What the handlers and workers have, and the parts of the invariant.
LEMMA OwnershipParts ==
    ASSUME OwnershipInv
    PROVE  /\ SingleOwner /\ PhasesAgree /\ AnswersAgree
           /\ handler \in [Requests -> HandlerStates] /\ done \in [Requests -> BOOLEAN]
           /\ answer \in [Requests -> Answers] /\ ctxDone \in [Requests -> BOOLEAN]
           /\ worker \in [Workers -> WorkerStates] /\ queue \in Seq(Requests)
           /\ held \in [Workers -> Requests \cup {NoRequest}]
           /\ outcome \in [Workers -> Outcomes \cup {"none"}]
  BY Zenon DEF OwnershipInv, TypeOK

\* A handler that has not sent its request moves, and refuses or does not answer.
LEMMA HandlerMoves ==
    ASSUME OwnershipInv, NEW r \in Requests, NEW to \in HandlerStates \ {"waiting", "served"},
           handler[r] \in {"idle", "found", "counted", "full", "refusing"},
           handler' = [handler EXCEPT ![r] = to],
           \/ answer' = answer
           \/ /\ answer' = [answer EXCEPT ![r] = "unavailable"]
              /\ to \in {"refused", "notFound"},
           UNCHANGED <<ctxDone, done, workerVars, queue, lifecycle>>
    PROVE  SingleOwner' /\ PhasesAgree' /\ AnswersAgree'
  <1>1. /\ handler'[r] = to
        /\ \A q \in Requests : q # r => handler'[q] = handler[q] /\ answer'[q] = answer[q]
        /\ answer'[r] = answer[r] \/ to \in {"refused", "notFound"}
    BY OwnershipParts
  <1>2. /\ ctxDone' = ctxDone /\ done' = done /\ worker' = worker /\ held' = held
        /\ outcome' = outcome /\ queue' = queue /\ queueClosed' = queueClosed
        /\ cancelled' = cancelled /\ shutdown' = shutdown
    BY Zenon DEF workerVars, lifecycle
  <1>3. \A w \in Workers : held[w] = NoRequest \/ held[w] \in Requests
    BY OwnershipParts
  <1>4. SingleOwner'
    BY OwnershipParts, <1>1, <1>2 DEF SingleOwner, InQueue
  <1>5. PhasesAgree'
    BY OwnershipParts, <1>1, <1>2, <1>3 DEF PhasesAgree, InQueue
  <1>6. AnswersAgree'
    <2>1. PhasesAgree /\ AnswersAgree
      BY OwnershipParts, Zenon
    <2>2. ASSUME NEW q \in Requests, answer'[q] # "none"
          PROVE  done'[q] \/ handler'[q] \in {"refused", "notFound"}
      <3>1. CASE q = r
        <4>1. answer[r] # "none" => done[r]
          BY <2>1 DEF AnswersAgree
        <4>. QED  BY <1>1, <1>2, <2>2, <3>1, <4>1
      <3>2. CASE q # r
        BY <1>1, <1>2, <2>1, <2>2, <3>2, Zenon DEF AnswersAgree
      <3>. QED  BY <3>1, <3>2
    <2>3. \A q \in Requests : done'[q] => answer'[q] # "none" \/ cancelled' \/ ctxDone'[q]
      <3>1. ~done[r]
        BY <2>1 DEF PhasesAgree
      <3>. QED  BY <1>1, <1>2, <2>1, <3>1, ZenonT(60) DEF AnswersAgree
    <2>. QED  BY <1>2, <2>1, <2>2, <2>3, Zenon DEF AnswersAgree
  <1>. QED  BY <1>4, <1>5, <1>6, Zenon

LEMMA OwnershipHandler ==
    ASSUME OwnershipInv, TypeOK', NEW r \in Requests,
           GetPool(r) \/ HandlerNext(r) \/ Disconnect(r)
    PROVE  SingleOwner' /\ PhasesAgree' /\ AnswersAgree'
  <1>0. /\ SingleOwner /\ PhasesAgree /\ AnswersAgree
        /\ handler \in [Requests -> HandlerStates] /\ done \in [Requests -> BOOLEAN]
        /\ answer \in [Requests -> Answers] /\ ctxDone \in [Requests -> BOOLEAN]
        /\ worker \in [Workers -> WorkerStates] /\ queue \in Seq(Requests)
        /\ held \in [Workers -> Requests \cup {NoRequest}]
        /\ outcome \in [Workers -> Outcomes \cup {"none"}]
    BY OwnershipParts, Zenon
  <1>1. CASE GetPool(r)
    <2>1. CASE shutdown = "open"
      BY <1>1, <2>1, HandlerMoves, Zenon DEF GetPool, HandlerStep, HandlerStates, Returned
    <2>2. CASE shutdown # "open"
      BY <1>1, <2>2, HandlerMoves, Zenon DEF GetPool, HandlerStep, HandlerStates, Returned
    <2>. QED  BY <2>1, <2>2
  <1>2. CASE Disconnect(r)
    <2>1. SingleOwner'
      BY <1>0, <1>2 DEF Disconnect, SingleOwner, InQueue, workerVars, lifecycle
    <2>2. PhasesAgree'
      BY <1>0, <1>2 DEF Disconnect, PhasesAgree, InQueue, workerVars, lifecycle
    <2>3. AnswersAgree'
      BY <1>0, <1>2 DEF Disconnect, AnswersAgree, workerVars, lifecycle
    <2>. QED  BY <2>1, <2>2, <2>3, Zenon
  <1>3. CASE CountWaiting(r) \/ UncountWaiting(r)
    BY <1>3, HandlerMoves
       DEF CountWaiting, UncountWaiting, HandlerStep, HandlerStates, Returned
  <1>4. CASE Enqueue(r)
    <2>0. /\ handler[r] = "counted" /\ handler' = [handler EXCEPT ![r] = "waiting"]
          /\ queue' = Append(queue, r)
          /\ ctxDone' = ctxDone /\ done' = done /\ answer' = answer
          /\ worker' = worker /\ held' = held /\ outcome' = outcome
          /\ queueClosed' = queueClosed /\ cancelled' = cancelled /\ shutdown' = shutdown
      BY <1>4, Zenon DEF Enqueue, HandlerStep, workerVars, lifecycle
    <2>1. r \notin Range(queue) /\ ~done[r]
      BY <1>0, <2>0 DEF PhasesAgree, InQueue
    <2>2. Range(queue') = Range(queue) \cup {r} /\ IsInjective(queue')
      BY <1>0, <2>0, <2>1, AppendRange, AppendInjectiveSeq DEF SingleOwner
    <2>3. \A w \in Workers : held[w] # r
      <3> SUFFICES ASSUME NEW w \in Workers, held[w] = r  PROVE FALSE
        BY Zenon
      <3>1. handler[r] \in {"waiting", "cancelled", "served"}
        BY <1>0, PoolAssumption DEF PhasesAgree
      <3>. QED  BY <2>0, <3>1
    <2>5. SingleOwner'
      BY <1>0, <2>0, <2>1, <2>2, <2>3 DEF SingleOwner, InQueue
    <2>6. PhasesAgree'
      BY <1>0, <2>0, <2>2 DEF PhasesAgree, InQueue
    <2>7. AnswersAgree'
      BY <1>0, <2>0 DEF AnswersAgree
    <2>. QED  BY <2>5, <2>6, <2>7, Zenon
  <1>5. ASSUME NEW w \in Workers, HandOver(r, w)
        PROVE  SingleOwner' /\ PhasesAgree' /\ AnswersAgree'
    <2>0. /\ handler[r] = "counted" /\ handler' = [handler EXCEPT ![r] = "waiting"]
          /\ worker[w] = "select" /\ worker' = [worker EXCEPT ![w] = "received"]
          /\ held' = [held EXCEPT ![w] = r]
          /\ ctxDone' = ctxDone /\ done' = done /\ answer' = answer /\ outcome' = outcome
          /\ queue' = queue
          /\ queueClosed' = queueClosed /\ cancelled' = cancelled /\ shutdown' = shutdown
      BY <1>5, Zenon DEF HandOver, HandlerStep, workerVars, lifecycle
    <2>1. ~done[r] /\ ~InQueue(r) /\ held[w] = NoRequest /\ \A v \in Workers : held[v] # r
      BY <1>0, <2>0, PoolAssumption DEF PhasesAgree
    <2>2. SingleOwner'
      BY <1>0, <2>0, <2>1, PoolAssumption DEF SingleOwner, InQueue
    <2>3. PhasesAgree'
      BY <1>0, <2>0, <2>1, PoolAssumption DEF PhasesAgree, InQueue
    <2>4. AnswersAgree'
      BY <1>0, <2>0 DEF AnswersAgree
    <2>. QED  BY <2>2, <2>3, <2>4, Zenon
  <1>6. CASE QueueFull(r) \/ SendOnClosed(r)
    BY <1>6, HandlerMoves, Zenon
       DEF QueueFull, SendOnClosed, HandlerStep, HandlerStates, Returned
  <1>7. CASE Refuse(r)
    BY <1>7, HandlerMoves, Zenon DEF Refuse, HandlerStep, HandlerStates, Returned
  <1>8. CASE ReturnServed(r) \/ ReturnCancelled(r)
    <2>0. /\ handler[r] = "waiting"
          /\ \/ done[r] /\ handler' = [handler EXCEPT ![r] = "served"]
             \/ ctxDone[r] /\ handler' = [handler EXCEPT ![r] = "cancelled"]
          /\ ctxDone' = ctxDone /\ done' = done /\ answer' = answer
          /\ worker' = worker /\ held' = held /\ outcome' = outcome /\ queue' = queue
          /\ queueClosed' = queueClosed /\ cancelled' = cancelled /\ shutdown' = shutdown
      BY <1>8, Zenon DEF ReturnServed, ReturnCancelled, HandlerStep, workerVars, lifecycle
    <2>1. SingleOwner'
      BY <1>0, <2>0 DEF SingleOwner, InQueue
    <2>2. PhasesAgree'
      <3>1. /\ handler'[r] \in {"served", "cancelled"} /\ (handler'[r] = "served" => done[r])
            /\ \A q \in Requests : q # r => handler'[q] = handler[q]
        BY <1>0, <2>0
      <3>2. InQueue(r) => ~done[r] /\ handler'[r] = "cancelled"
        BY <1>0, <2>0 DEF SingleOwner
      <3>3. \A v \in Workers : held[v] = NoRequest \/ held[v] \in Requests
        BY <1>0
      <3>. QED  BY <1>0, <2>0, <3>1, <3>2, <3>3 DEF PhasesAgree, InQueue
    <2>3. AnswersAgree'
      BY <1>0, <2>0 DEF AnswersAgree
    <2>. QED  BY <2>1, <2>2, <2>3, Zenon
  <1>. QED
    BY <1>1, <1>2, <1>3, <1>4, <1>5, <1>6, <1>7, <1>8, Zenon DEF HandlerNext

\* A worker goes on with the request it has, or exits with none.
LEMMA WorkerMoves ==
    ASSUME OwnershipInv, NEW w \in Workers, NEW to,
           \/ worker[w] = "select" /\ to = "exited"
           \/ /\ worker[w] \in {"received", "started", "forwarding"}
              /\ to \in {"started", "forwarding", "replied"},
           worker' = [worker EXCEPT ![w] = to],
           \A v \in Workers : v # w => outcome'[v] = outcome[v],
           to = "replied" => /\ outcome'[w] \in Outcomes
                             /\ outcome'[w] = "dropped" => cancelled \/ ctxDone[held[w]],
           UNCHANGED <<handlerVars, done, answer, held, queue, lifecycle>>
    PROVE  SingleOwner' /\ PhasesAgree' /\ AnswersAgree'
  <1>1. worker'[w] = to /\ \A v \in Workers : v # w => worker'[v] = worker[v]
    BY OwnershipParts
  <1>2. /\ handler' = handler /\ ctxDone' = ctxDone /\ done' = done /\ answer' = answer
        /\ held' = held /\ queue' = queue
        /\ queueClosed' = queueClosed /\ cancelled' = cancelled /\ shutdown' = shutdown
    BY Zenon DEF handlerVars, lifecycle
  <1>3. SingleOwner /\ PhasesAgree /\ AnswersAgree
    BY OwnershipParts, Zenon
  <1>4. SingleOwner'
    BY <1>1, <1>2, <1>3 DEF SingleOwner, InQueue
  <1>5. PhasesAgree'
    BY <1>1, <1>2, <1>3 DEF PhasesAgree, InQueue
  <1>6. AnswersAgree'
    BY <1>1, <1>2, <1>3 DEF AnswersAgree
  <1>. QED  BY <1>4, <1>5, <1>6, Zenon

LEMMA OwnershipWorker ==
    ASSUME OwnershipInv, TypeOK', NEW w \in Workers, WorkerNext(w)
    PROVE  SingleOwner' /\ PhasesAgree' /\ AnswersAgree'
  <1>0. /\ SingleOwner /\ PhasesAgree /\ AnswersAgree
        /\ handler \in [Requests -> HandlerStates] /\ done \in [Requests -> BOOLEAN]
        /\ answer \in [Requests -> Answers] /\ ctxDone \in [Requests -> BOOLEAN]
        /\ worker \in [Workers -> WorkerStates] /\ queue \in Seq(Requests)
        /\ held \in [Workers -> Requests \cup {NoRequest}]
        /\ outcome \in [Workers -> Outcomes \cup {"none"}]
    BY OwnershipParts, Zenon
  <1>1. CASE Receive(w)
    <2>0. /\ queue # <<>> /\ queue' = Tail(queue) /\ held' = [held EXCEPT ![w] = Head(queue)]
          /\ worker[w] = "select" /\ worker' = [worker EXCEPT ![w] = "received"]
          /\ done' = done /\ answer' = answer /\ outcome' = outcome
          /\ handler' = handler /\ ctxDone' = ctxDone
          /\ queueClosed' = queueClosed /\ cancelled' = cancelled /\ shutdown' = shutdown
      BY <1>1, Zenon DEF Receive, WorkerStep, handlerVars, lifecycle
    <2>1. /\ Head(queue) \in Range(queue) /\ Head(queue) \in Requests
          /\ Range(queue) = Range(queue') \cup {Head(queue)}
          /\ IsInjective(queue') /\ Head(queue) \notin Range(queue')
      BY <1>0, <2>0, TailRange DEF SingleOwner
    <2>2. /\ ~done[Head(queue)] /\ held[w] = NoRequest
          /\ handler[Head(queue)] \in {"waiting", "cancelled"}
          /\ \A v \in Workers : held[v] # Head(queue)
      BY <1>0, <2>0, <2>1, PoolAssumption DEF SingleOwner, PhasesAgree, InQueue
    <2> DEFINE first == Head(queue)
    <2>3. SingleOwner'
      BY <1>0, <2>0, <2>1, <2>2, PoolAssumption DEF SingleOwner, InQueue
    <2>4. PhasesAgree'
      BY <1>0, <2>0, <2>1, <2>2, PoolAssumption DEF PhasesAgree, InQueue
    <2>5. AnswersAgree'
      BY <1>0, <2>0, <2>1 DEF AnswersAgree
    <2>. QED  BY <2>3, <2>4, <2>5, Zenon
  <1>2. CASE Exit(w)
    BY <1>2, WorkerMoves, Zenon DEF Exit, WorkerStep
  <1>3. CASE CountActive(w) \/ LeaveWaiting(w)
    BY <1>3, WorkerMoves DEF CountActive, LeaveWaiting, WorkerStep
  <1>4. CASE Forward(w)
    <2>1. PICK o \in Outcomes : /\ o = "dropped" => cancelled \/ ctxDone[held[w]]
                                /\ outcome' = [outcome EXCEPT ![w] = o]
      BY <1>4, Zenon DEF Forward
    <2>2. outcome'[w] = o /\ \A v \in Workers : v # w => outcome'[v] = outcome[v]
      BY <1>0, <2>1
    <2>3. /\ worker[w] = "forwarding" /\ worker' = [worker EXCEPT ![w] = "replied"]
          /\ UNCHANGED <<handlerVars, done, answer, held, queue, lifecycle>>
      BY <1>4, Zenon DEF Forward, WorkerStep
    <2>. QED  BY <2>1, <2>2, <2>3, WorkerMoves, Zenon
  <1>5. CASE Respond(w)
    <2>0. /\ worker[w] = "replied" /\ worker' = [worker EXCEPT ![w] = "finishing"]
          /\ answer' = IF outcome[w] = "dropped" THEN answer
                       ELSE [answer EXCEPT ![held[w]] = outcome[w]]
          /\ done' = [done EXCEPT ![held[w]] = TRUE]
          /\ held' = held /\ outcome' = outcome /\ queue' = queue
          /\ handler' = handler /\ ctxDone' = ctxDone
          /\ queueClosed' = queueClosed /\ cancelled' = cancelled /\ shutdown' = shutdown
      BY <1>5, Zenon DEF Respond, WorkerStep, handlerVars, lifecycle
    <2>1. held[w] \in Requests /\ held[w] # NoRequest
      BY <1>0, <2>0, PoolAssumption DEF PhasesAgree
    <2>2. SingleOwner'
      BY <1>0, <2>0, <2>1 DEF SingleOwner, InQueue
    <2>3. PhasesAgree'
      BY <1>0, <2>0, <2>1, PoolAssumption DEF PhasesAgree, SingleOwner, InQueue
    <2>4. AnswersAgree'
      BY <1>0, <2>0, <2>1 DEF AnswersAgree, Outcomes
    <2>. QED  BY <2>2, <2>3, <2>4, Zenon
  <1>6. CASE UncountActive(w)
    <2>0. /\ worker[w] = "finishing" /\ worker' = [worker EXCEPT ![w] = "select"]
          /\ held' = [held EXCEPT ![w] = NoRequest]
          /\ outcome' = [outcome EXCEPT ![w] = "none"]
          /\ done' = done /\ answer' = answer /\ queue' = queue
          /\ handler' = handler /\ ctxDone' = ctxDone
          /\ queueClosed' = queueClosed /\ cancelled' = cancelled /\ shutdown' = shutdown
      BY <1>6, Zenon DEF UncountActive, WorkerStep, handlerVars, lifecycle
    <2>1. held[w] \in Requests /\ done[held[w]]
      BY <1>0, <2>0 DEF PhasesAgree
    <2>2. SingleOwner'
      BY <1>0, <2>0, <2>1, PoolAssumption DEF SingleOwner, InQueue
    <2>3. PhasesAgree'
      BY <1>0, <2>0 DEF PhasesAgree, InQueue
    <2>4. AnswersAgree'
      BY <1>0, <2>0 DEF AnswersAgree
    <2>. QED  BY <2>2, <2>3, <2>4, Zenon
  <1>. QED  BY <1>1, <1>2, <1>3, <1>4, <1>5, <1>6, Zenon DEF WorkerNext

LEMMA OwnershipShutdown ==
    ASSUME OwnershipInv, TypeOK', RemovePool \/ ShutdownNext
    PROVE  SingleOwner' /\ PhasesAgree' /\ AnswersAgree'
  <1>1. /\ handler' = handler /\ ctxDone' = ctxDone /\ done' = done /\ answer' = answer
        /\ worker' = worker /\ held' = held /\ outcome' = outcome /\ queue' = queue
    BY Zenon DEF RemovePool, ShutdownNext, Cancel, CloseQueue, ShutdownComplete, handlerVars,
                 workerVars
  <1>2. SingleOwner /\ PhasesAgree /\ AnswersAgree
    BY OwnershipParts, Zenon
  <1>3. SingleOwner'
    BY <1>1, <1>2, Zenon DEF SingleOwner, InQueue
  <1>4. PhasesAgree' /\ (cancelled => cancelled')
    <2>1. /\ cancelled' <=> shutdown' \in {"cancelled", "closed", "complete"}
          /\ queueClosed' <=> shutdown' \in {"closed", "complete"}
          /\ cancelled => cancelled'
      BY <1>2 DEF PhasesAgree, RemovePool, ShutdownNext, Cancel, CloseQueue, ShutdownComplete,
                  ShutdownStep
    <2>. QED  BY <1>1, <1>2, <2>1, Zenon DEF PhasesAgree, InQueue
  <1>5. AnswersAgree'
    BY <1>1, <1>2, <1>4, Zenon DEF AnswersAgree
  <1>. QED  BY <1>3, <1>4, <1>5, Zenon

LEMMA OwnershipStep ==
    ASSUME OwnershipInv, TypeOK', [Next]_vars
    PROVE  SingleOwner' /\ PhasesAgree' /\ AnswersAgree'
  <1>1. ASSUME NEW t \in Threads, NotifyNext(t)
        PROVE  SingleOwner' /\ PhasesAgree' /\ AnswersAgree'
    BY <1>1, OwnershipFrame DEF OwnershipInv, NotifyNext, LoadActive, LoadWaiting, Report
  <1>2. CASE UNCHANGED vars
    BY <1>2, OwnershipFrame DEF OwnershipInv, vars
  <1>. QED
    BY <1>1, <1>2, OwnershipHandler, OwnershipWorker, OwnershipShutdown DEF Next

(* Ownership holds always: a request is in the queue at most once or with    *)
(* one worker, and the phases of handlers, workers and answers agree          *)
(* (pool.go:293-392, 514-525).                                                *)
THEOREM OwnershipCorrect == Spec => [](SingleOwner /\ PhasesAgree /\ AnswersAgree)
  <1>1. Init => SingleOwner /\ PhasesAgree /\ AnswersAgree
    BY OwnershipInit
  <1>2. /\ TypeOK /\ TypeOK' /\ [Next]_vars
        /\ SingleOwner /\ PhasesAgree /\ AnswersAgree
        => SingleOwner' /\ PhasesAgree' /\ AnswersAgree'
    BY OwnershipStep DEF OwnershipInv
  <1>. QED  BY <1>1, <1>2, TypeCorrect, PTL DEF Spec

-----------------------------------------------------------------------------
(* The counters.  Every atomic add on waitingCount or activeCount goes with *)
(* one request or worker entering or leaving the set it counts.             *)

LEMMA CountingSets ==
    ASSUME TypeOK
    PROVE  /\ IsFiniteSet(CountedWaiting) /\ Cardinality(CountedWaiting) \in Nat
           /\ IsFiniteSet(CountedActive) /\ Cardinality(CountedActive) \in Nat
  <1>1. CountedWaiting \subseteq Requests /\ CountedActive \subseteq Workers
    BY DEF CountedWaiting, CountedActive
  <1>. QED  BY <1>1, PoolAssumption, FS_Subset, FS_CardinalityType

LEMMA WaitingFrame ==
    ASSUME CountersExact, UNCHANGED waiting, CountedWaiting' = CountedWaiting
    PROVE  waiting' = Cardinality(CountedWaiting')
  BY DEF CountersExact

LEMMA WaitingEnter ==
    ASSUME TypeOK, CountersExact, NEW r, r \notin CountedWaiting,
           waiting' = waiting + 1, CountedWaiting' = CountedWaiting \cup {r}
    PROVE  waiting' = Cardinality(CountedWaiting')
  BY CountingSets, FS_AddElement, Zenon DEF CountersExact

LEMMA WaitingLeave ==
    ASSUME TypeOK, CountersExact, NEW r, r \in CountedWaiting,
           waiting' = waiting - 1, CountedWaiting' = CountedWaiting \ {r}
    PROVE  waiting' = Cardinality(CountedWaiting')
  BY CountingSets, FS_RemoveElement, Zenon DEF CountersExact

LEMMA ActiveFrame ==
    ASSUME CountersExact, UNCHANGED active, CountedActive' = CountedActive
    PROVE  active' = Cardinality(CountedActive')
  BY DEF CountersExact

LEMMA ActiveEnter ==
    ASSUME TypeOK, CountersExact, NEW w, w \notin CountedActive,
           active' = active + 1, CountedActive' = CountedActive \cup {w}
    PROVE  active' = Cardinality(CountedActive')
  BY CountingSets, FS_AddElement, Zenon DEF CountersExact

LEMMA ActiveLeave ==
    ASSUME TypeOK, CountersExact, NEW w, w \in CountedActive,
           active' = active - 1, CountedActive' = CountedActive \ {w}
    PROVE  active' = Cardinality(CountedActive')
  BY CountingSets, FS_RemoveElement, Zenon DEF CountersExact

\* Handlers move waitingCount only.
LEMMA CountersHandler ==
    ASSUME OwnershipInv, TypeOK', CountersExact, NEW r \in Requests,
           GetPool(r) \/ HandlerNext(r) \/ Disconnect(r)
    PROVE  CountersExact'
  <1> USE DEF HandlerStep, handlerVars, workerVars, counters
  <1>0. /\ TypeOK
        /\ handler \in [Requests -> HandlerStates] /\ worker \in [Workers -> WorkerStates]
        /\ held \in [Workers -> Requests \cup {NoRequest}] /\ queue \in Seq(Requests)
        /\ InQueue(r) => handler[r] \in {"waiting", "cancelled"}
        /\ \A w \in Workers : held[w] = r => handler[r] \in {"waiting", "cancelled", "served"}
        /\ \A w \in Workers : worker[w] = "select" => held[w] = NoRequest
    BY PoolAssumption DEF OwnershipInv, TypeOK, PhasesAgree
  <1>1. CountedActive' = CountedActive /\ UNCHANGED active
    <2>1. ASSUME NEW w \in Workers, HandOver(r, w)
          PROVE  CountedActive' = CountedActive /\ UNCHANGED active
      BY <1>0, <2>1, Zenon DEF HandOver, CountedActive
    <2>2. CASE UNCHANGED <<worker, active>>
      BY <2>2 DEF CountedActive
    <2>. QED
      BY <2>1, <2>2, Zenon
         DEF HandlerNext, GetPool, CountWaiting, Enqueue, QueueFull, SendOnClosed,
         UncountWaiting, Refuse, ReturnServed, ReturnCancelled, Disconnect
  <1>2. active' = Cardinality(CountedActive')
    BY <1>1, ActiveFrame
  <1>3. waiting' = Cardinality(CountedWaiting')
    <2>1. CASE GetPool(r) \/ Refuse(r) \/ ReturnServed(r) \/ ReturnCancelled(r) \/ Disconnect(r)
      <3>1. CountedWaiting' = CountedWaiting
        BY <1>0, <2>1, Zenon DEF GetPool, Refuse, ReturnServed, ReturnCancelled, Disconnect,
           CountedWaiting, InQueue
      <3>2. UNCHANGED waiting
        BY <2>1, Zenon DEF GetPool, Refuse, ReturnServed, ReturnCancelled, Disconnect
      <3>. QED  BY <3>1, <3>2, WaitingFrame, Zenon
    <2>2. CASE QueueFull(r) \/ SendOnClosed(r)
      <3>1. CountedWaiting' = CountedWaiting
        BY <1>0, <2>2, Zenon DEF QueueFull, SendOnClosed, CountedWaiting, InQueue
      <3>2. UNCHANGED waiting
        BY <2>2 DEF QueueFull, SendOnClosed
      <3>. QED  BY <3>1, <3>2, WaitingFrame
    <2>3. CASE CountWaiting(r)
      <3>1. r \notin CountedWaiting /\ CountedWaiting' = CountedWaiting \cup {r}
        BY <1>0, <2>3, Zenon DEF CountWaiting, CountedWaiting, InQueue
      <3>2. waiting' = waiting + 1
        BY <2>3 DEF CountWaiting
      <3>. QED  BY <1>0, <3>1, <3>2, WaitingEnter, Zenon
    <2>4. CASE Enqueue(r)
      <3>1. Range(queue') = Range(queue) \cup {r}
        BY <1>0, <2>4, AppendRange DEF Enqueue
      <3>2. CountedWaiting' = CountedWaiting
        BY <1>0, <2>4, <3>1, SMTT(60) DEF Enqueue, CountedWaiting, InQueue
      <3>3. UNCHANGED waiting
        BY <2>4 DEF Enqueue
      <3>. QED  BY <3>2, <3>3, WaitingFrame
    <2>5. ASSUME NEW w \in Workers, HandOver(r, w)
          PROVE  waiting' = Cardinality(CountedWaiting')
      <3>1. CountedWaiting' = CountedWaiting
        BY <1>0, <2>5, PoolAssumption, Zenon DEF HandOver, CountedWaiting, InQueue
      <3>2. UNCHANGED waiting
        BY <2>5, Zenon DEF HandOver
      <3>. QED  BY <3>1, <3>2, WaitingFrame
    <2>6. CASE UncountWaiting(r)
      <3>1. r \in CountedWaiting /\ CountedWaiting' = CountedWaiting \ {r}
        BY <1>0, <2>6, Zenon DEF UncountWaiting, CountedWaiting, InQueue
      <3>2. waiting' = waiting - 1
        BY <2>6 DEF UncountWaiting
      <3>. QED  BY <1>0, <3>1, <3>2, WaitingLeave, Zenon
    <2>. QED
      BY <2>1, <2>2, <2>3, <2>4, <2>5, <2>6 DEF HandlerNext
  <1>. QED  BY <1>2, <1>3 DEF CountersExact

\* Workers move both counters.
LEMMA CountersWorker ==
    ASSUME OwnershipInv, TypeOK', CountersExact, NEW w \in Workers, WorkerNext(w)
    PROVE  CountersExact'
  <1> USE DEF WorkerStep, handlerVars, workerVars, counters
  <1>0. /\ TypeOK
        /\ worker \in [Workers -> WorkerStates] /\ queue \in Seq(Requests)
        /\ held \in [Workers -> Requests \cup {NoRequest}]
        /\ held[w] = NoRequest <=> worker[w] \in {"select", "exited"}
    BY Zenon DEF OwnershipInv, TypeOK, PhasesAgree
  <1>1. CASE Receive(w)
    <2>1. CountedActive' = CountedActive
      BY <1>0, <1>1, Zenon DEF Receive, CountedActive
    <2>2. Head(queue) \in Range(queue) /\ Range(queue) = Range(queue') \cup {Head(queue)}
      BY <1>0, <1>1, TailRange, Zenon DEF Receive
    <2>3. Head(queue) \in Requests
      BY <1>0, <1>1 DEF Receive
    <2>4. CountedWaiting' = CountedWaiting
      BY <1>0, <1>1, <2>2, <2>3, PoolAssumption, Zenon DEF Receive, CountedWaiting, InQueue
    <2>5. UNCHANGED <<active, waiting>>
      BY <1>1, Zenon DEF Receive
    <2>. QED  BY <2>1, <2>4, <2>5, ActiveFrame, WaitingFrame DEF CountersExact
  <1>2. CASE Exit(w) \/ Forward(w) \/ Respond(w)
    <2>1. CountedActive' = CountedActive
      BY <1>0, <1>2, Zenon DEF Exit, Forward, Respond, CountedActive
    <2>2. CountedWaiting' = CountedWaiting
      BY <1>0, <1>2, Zenon DEF Exit, Forward, Respond, CountedWaiting, InQueue
    <2>3. UNCHANGED <<active, waiting>>
      BY <1>2, Zenon DEF Exit, Forward, Respond
    <2>. QED  BY <2>1, <2>2, <2>3, ActiveFrame, WaitingFrame DEF CountersExact
  <1>3. CASE CountActive(w)
    <2>1. w \notin CountedActive /\ CountedActive' = CountedActive \cup {w}
      BY <1>0, <1>3 DEF CountActive, CountedActive
    <2>2. CountedWaiting' = CountedWaiting
      BY <1>0, <1>3, Zenon DEF CountActive, CountedWaiting, InQueue
    <2>3. active' = active + 1 /\ UNCHANGED waiting
      BY <1>3 DEF CountActive
    <2>4. active' = Cardinality(CountedActive')
      BY <1>0, <2>1, <2>3, ActiveEnter, Zenon
    <2>5. waiting' = Cardinality(CountedWaiting')
      BY <2>2, <2>3, WaitingFrame, Zenon
    <2>. QED  BY <2>4, <2>5 DEF CountersExact
  <1>4. CASE LeaveWaiting(w)
    <2>1. CountedActive' = CountedActive
      BY <1>0, <1>4 DEF LeaveWaiting, CountedActive
    <2>2. held[w] \in Requests /\ held[w] \in CountedWaiting
      BY <1>0, <1>4, Zenon DEF LeaveWaiting, CountedWaiting
    <2>3. /\ ~InQueue(held[w])
          /\ \A v \in Workers : held[v] = held[w] => v = w
          /\ handler[held[w]] \notin {"counted", "full", "panicked"}
      BY <2>2, PoolAssumption, ZenonT(60) DEF OwnershipInv, SingleOwner, PhasesAgree
    <2>4. CountedWaiting' = CountedWaiting \ {held[w]}
      BY <1>0, <1>4, <2>3, SMTT(60) DEF LeaveWaiting, CountedWaiting, InQueue
    <2>5. waiting' = waiting - 1 /\ UNCHANGED active
      BY <1>4, Zenon DEF LeaveWaiting
    <2>6. active' = Cardinality(CountedActive')
      BY <2>1, <2>5, ActiveFrame
    <2>7. waiting' = Cardinality(CountedWaiting')
      BY <1>0, <2>2, <2>4, <2>5, WaitingLeave, Zenon
    <2>. QED  BY <2>6, <2>7 DEF CountersExact
  <1>5. CASE UncountActive(w)
    <2>1. w \in CountedActive /\ CountedActive' = CountedActive \ {w}
      BY <1>0, <1>5, Zenon DEF UncountActive, CountedActive
    <2>2. CountedWaiting' = CountedWaiting
      BY <1>0, <1>5, PoolAssumption, Zenon DEF UncountActive, CountedWaiting, InQueue
    <2>3. active' = active - 1 /\ UNCHANGED waiting
      BY <1>5, Zenon DEF UncountActive
    <2>4. active' = Cardinality(CountedActive')
      BY <1>0, <2>1, <2>3, ActiveLeave, Zenon
    <2>5. waiting' = Cardinality(CountedWaiting')
      BY <2>2, <2>3, WaitingFrame, Zenon
    <2>. QED  BY <2>4, <2>5 DEF CountersExact
  <1>. QED  BY <1>1, <1>2, <1>3, <1>4, <1>5 DEF WorkerNext

\* Steps that move no handler, no worker and no queue entry.
LEMMA CountersFrame ==
    ASSUME CountersExact, UNCHANGED <<handler, worker, held, queue, active, waiting>>
    PROVE  CountersExact'
  BY Zenon DEF CountersExact, CountedWaiting, CountedActive, InQueue

LEMMA CountersStep ==
    ASSUME OwnershipInv, TypeOK', CountersExact, [Next]_vars
    PROVE  CountersExact'
  <1>1. ASSUME NEW t \in Threads, NotifyNext(t)  PROVE CountersExact'
    BY <1>1, CountersFrame, Zenon
       DEF NotifyNext, LoadActive, LoadWaiting, Report, handlerVars, workerVars, counters
  <1>2. CASE RemovePool \/ ShutdownNext
    BY <1>2, CountersFrame, Zenon DEF RemovePool, ShutdownNext, Cancel, CloseQueue,
       ShutdownComplete, handlerVars, workerVars, counters
  <1>3. CASE UNCHANGED vars
    BY <1>3, CountersFrame, Zenon DEF vars, handlerVars, workerVars, counters
  <1>. QED  BY <1>1, <1>2, <1>3, CountersHandler, CountersWorker DEF Next

(* waitingCount and activeCount are exact in every reachable state, for any *)
(* number of handlers and workers (pool.go:307-312, 374-381).               *)
THEOREM CountersCorrect == Spec => []CountersExact
  <1>1. Init => CountersExact
    <2> SUFFICES ASSUME Init  PROVE CountersExact
      OBVIOUS
    <2>1. Range(queue) = {}
      BY DEF Init, Range
    <2>2. CountedWaiting = {} /\ CountedActive = {}
      BY <2>1, PoolAssumption DEF Init, CountedWaiting, CountedActive, InQueue
    <2>. QED  BY <2>2, FS_EmptySet, Zenon DEF Init, CountersExact
  <1>2. /\ TypeOK /\ TypeOK' /\ SingleOwner /\ PhasesAgree /\ AnswersAgree
        /\ CountersExact /\ [Next]_vars
        => CountersExact'
    BY CountersStep DEF OwnershipInv
  <1>. QED  BY <1>1, <1>2, TypeCorrect, OwnershipCorrect, PTL DEF Spec

-----------------------------------------------------------------------------
(* What clients are told.                                                   *)

(* A served request has an answer unless its context had ended              *)
(* (pool.go:356-358, 386-391, 401-426).                                     *)
THEOREM ServedCorrect == Spec => []ServedHasAnswer
  <1>1. PhasesAgree /\ AnswersAgree => ServedHasAnswer
    BY Zenon DEF PhasesAgree, AnswersAgree, ServedHasAnswer
  <1>. QED  BY <1>1, OwnershipCorrect, PTL

(* Nothing is ever written over an answer: not by a second worker, not by   *)
(* the handler after a worker (pool.go:325, 382, 405, 424, 482).            *)
THEOREM AnsweredOnceCorrect == Spec => AnsweredOnce
  <1>1. ASSUME OwnershipInv, [Next]_vars
        PROVE  [\A r \in Requests : answer[r] # "none" => answer'[r] = answer[r]]_vars
    <2> SUFFICES ASSUME NEW q \in Requests, answer[q] # "none"
                 PROVE  answer'[q] = answer[q]
      BY Zenon
    <2> USE DEF OwnershipInv, TypeOK, PhasesAgree, AnswersAgree
    <2>1. CASE UNCHANGED answer
      BY <2>1
    <2>2. ASSUME NEW r \in Requests, GetPool(r) \/ Refuse(r)  PROVE answer'[q] = answer[q]
      BY <1>1, <2>2 DEF GetPool, Refuse, HandlerStep
    <2>3. ASSUME NEW w \in Workers, Respond(w)  PROVE answer'[q] = answer[q]
      <3>1. held[w] # NoRequest /\ ~done[held[w]]
        BY <1>1, <2>3, Zenon DEF Respond, WorkerStep
      <3>2. held[w] # q
        BY <1>1, <2>3, <3>1, PoolAssumption
      <3>. QED  BY <1>1, <2>3, <3>2 DEF Respond
    <2>4. UNCHANGED answer
          \/ (\E r \in Requests : GetPool(r) \/ Refuse(r))
          \/ (\E w \in Workers : Respond(w))
      <3>1. ASSUME NEW t \in Threads, NotifyNext(t)  PROVE UNCHANGED answer
        BY <3>1, Zenon DEF NotifyNext, LoadActive, LoadWaiting, Report
      <3>2. ASSUME NEW r \in Requests, HandlerNext(r), ~Refuse(r)  PROVE UNCHANGED answer
        BY <3>2, Zenon DEF HandlerNext, CountWaiting, Enqueue, HandOver, QueueFull, SendOnClosed,
           UncountWaiting, ReturnServed, ReturnCancelled
      <3>3. ASSUME NEW r \in Requests, Disconnect(r)  PROVE UNCHANGED answer
        BY <3>3, Zenon DEF Disconnect
      <3>4. ASSUME NEW w \in Workers, WorkerNext(w), ~Respond(w)  PROVE UNCHANGED answer
        BY <3>4, Zenon
           DEF WorkerNext, Receive, Exit, CountActive, LeaveWaiting, Forward, UncountActive
      <3>5. CASE RemovePool \/ ShutdownNext
        BY <3>5, Zenon DEF RemovePool, ShutdownNext, Cancel, CloseQueue, ShutdownComplete
      <3>6. CASE UNCHANGED vars
        BY <3>6 DEF vars
      <3>. QED  BY <3>1, <3>2, <3>3, <3>4, <3>5, <3>6, <1>1, Zenon DEF Next
    <2>. QED  BY <2>1, <2>2, <2>3, <2>4, Zenon
  <1>. QED  BY <1>1, TypeCorrect, OwnershipCorrect, PTL DEF Spec, AnsweredOnce, OwnershipInv

\* A channel that holds no request twice holds as many as it is long.
LEMMA QueueCardinality ==
    ASSUME NEW q \in Seq(Requests), IsInjective(q)
    PROVE  IsFiniteSet(Range(q)) /\ Cardinality(Range(q)) = Len(q)
  <1>1. q \in [1..Len(q) -> Range(q)] /\ Len(q) \in Nat
    BY DEF Range
  <1>2. q \in Bijection(1..Len(q), Range(q))
    BY <1>1 DEF Bijection, Injection, Surjection, IsInjective, Range
  <1>3. IsFiniteSet(1..Len(q)) /\ Cardinality(1..Len(q)) = Len(q)
    <2>1. 1 \in Int /\ Len(q) \in Int
      BY <1>1
    <2>2. /\ IsFiniteSet(1..Len(q))
          /\ Cardinality(1..Len(q)) = IF 1 > Len(q) THEN 0 ELSE Len(q) - 1 + 1
      BY <2>1, FS_Interval
    <2>. QED  BY <1>1, <2>2
  <1>. QED  BY <1>2, <1>3, FS_Bijection DEF ExistsBijection

(* A handler is refused only while waitingCount exceeds the capacity: the    *)
(* counter never lags behind the channel (pool.go:374-383).                  *)
THEOREM RefusalCorrect == Spec => RefusalJustified
  <1>1. ASSUME OwnershipInv, CountersExact, [Next]_vars
        PROVE  [\A r \in Requests : handler[r] = "counted" /\ handler'[r] = "full"
                                       => waiting > QueueCapacity]_vars
    <2> SUFFICES ASSUME NEW r \in Requests, handler[r] = "counted", handler'[r] = "full"
                 PROVE  waiting > QueueCapacity
      BY Zenon
    <2>1. Len(queue) = QueueCapacity
      <3> USE DEF handlerVars, HandlerStep
      <3>1. ASSUME NEW t \in Threads, NotifyNext(t)  PROVE FALSE
        BY <3>1, Zenon DEF NotifyNext, LoadActive, LoadWaiting, Report
      <3>2. ASSUME NEW p \in Requests, GetPool(p) \/ Disconnect(p)  PROVE FALSE
        BY <1>1, <3>2, Zenon DEF GetPool, Disconnect, OwnershipInv, TypeOK
      <3>3. ASSUME NEW p \in Requests, HandlerNext(p)  PROVE Len(queue) = QueueCapacity
        BY <1>1, <3>3, Zenon
           DEF HandlerNext, CountWaiting, Enqueue, HandOver, QueueFull, SendOnClosed,
           UncountWaiting, Refuse, ReturnServed, ReturnCancelled, OwnershipInv, TypeOK
      <3>4. ASSUME NEW w \in Workers, WorkerNext(w)  PROVE FALSE
        BY <3>4, Zenon DEF WorkerNext, Receive, Exit, CountActive, LeaveWaiting, Forward,
           Respond, UncountActive
      <3>5. CASE RemovePool \/ ShutdownNext
        BY <3>5, Zenon DEF RemovePool, ShutdownNext, Cancel, CloseQueue, ShutdownComplete
      <3>6. CASE UNCHANGED vars
        BY <3>6 DEF vars
      <3>. QED  BY <1>1, <3>1, <3>2, <3>3, <3>4, <3>5, <3>6, Zenon DEF Next
    <2>2. /\ queue \in Seq(Requests) /\ IsInjective(queue)
          /\ r \notin Range(queue) /\ Range(queue) \subseteq Requests
      <3>1. queue \in Seq(Requests) /\ IsInjective(queue)
        BY <1>1, Zenon DEF OwnershipInv, TypeOK, SingleOwner
      <3>2. r \notin Range(queue)
        BY <1>1, Zenon DEF OwnershipInv, PhasesAgree, InQueue
      <3>3. Range(queue) \subseteq Requests
        BY <3>1, SMTT(120) DEF Range
      <3>. QED  BY <3>1, <3>2, <3>3
    <2>3. IsFiniteSet(Range(queue)) /\ Cardinality(Range(queue)) = QueueCapacity
      BY <2>1, <2>2, QueueCardinality, Zenon
    <2>4. Cardinality(Range(queue) \cup {r}) = QueueCapacity + 1
      BY <2>2, <2>3, FS_AddElement, Zenon
    <2>5. Range(queue) \cup {r} \subseteq CountedWaiting
      BY <2>2, Zenon DEF CountedWaiting, InQueue
    <2>6. IsFiniteSet(CountedWaiting)
      BY <1>1, CountingSets, Zenon DEF OwnershipInv
    <2>7. Cardinality(Range(queue) \cup {r}) <= Cardinality(CountedWaiting)
      BY <2>5, <2>6, FS_Subset, Zenon
    <2>8. waiting = Cardinality(CountedWaiting) /\ Cardinality(CountedWaiting) \in Nat
      BY <1>1, CountingSets, Zenon DEF OwnershipInv, CountersExact
    <2>. QED  BY <2>4, <2>7, <2>8, PoolAssumption
  <1>. QED
    BY <1>1, TypeCorrect, OwnershipCorrect, CountersCorrect, PTL
       DEF Spec, RefusalJustified, OwnershipInv

-----------------------------------------------------------------------------
(* The pool implements PoolService.                                         *)

\* A worker at its select leaves room at the backend.
LEMMA RoomAtBackend ==
    ASSUME OwnershipInv, NEW w \in Workers, held[w] = NoRequest
    PROVE  Cardinality(RunningRequests) < Cardinality(Workers)
  <1> DEFINE Busy == {v \in Workers : held[v] \in RunningRequests}
             f == [v \in Busy |-> held[v]]
  <1>1. f \in Surjection(Busy, RunningRequests)
    BY Zenon DEF Surjection, RunningRequests
  <1>2. Busy \subseteq Workers \ {w}
    BY PoolAssumption DEF RunningRequests
  <1>3. IsFiniteSet(Workers \ {w}) /\ Cardinality(Workers \ {w}) = Cardinality(Workers) - 1
    BY PoolAssumption, FS_RemoveElement
  <1>4. IsFiniteSet(Busy) /\ Cardinality(Busy) <= Cardinality(Workers) - 1
    BY <1>2, <1>3, FS_Subset
  <1>5. Cardinality(RunningRequests) <= Cardinality(Busy) /\ IsFiniteSet(RunningRequests)
    BY <1>1, <1>4, FS_Surjection, Zenon
  <1>6. /\ Cardinality(RunningRequests) \in Nat /\ Cardinality(Busy) \in Nat
        /\ Cardinality(Workers) \in Nat
    BY <1>4, <1>5, PoolAssumption, FS_CardinalityType, Zenon
  <1>. QED  BY <1>4, <1>5, <1>6

\* A step that leaves the mapped state alone is a stutter of the service.
LEMMA ServiceStutter ==
    ASSUME UNCHANGED <<queue, done, queueClosed>>, RunningRequests' = RunningRequests,
           \A r \in Requests : ClientView(r)' = ClientView(r)
    PROVE  UNCHANGED Service!abstractVars
  BY DEF Service!abstractVars

\* The service's instance of FiniteSets counts as FiniteSets does.
LEMMA SameCardinality ==
    ASSUME NEW S  PROVE Service!Cardinality(S) = Cardinality(S)
  BY Zenon DEF Service!Cardinality, Cardinality

\* One handler's move changes the view of its own client only.
LEMMA ClientMove ==
    ASSUME TypeOK, NEW r \in Requests, NEW to, NEW label,
           handler' = [handler EXCEPT ![r] = to], ClientView(r)' = label
    PROVE  [p \in Requests |-> ClientView(p)]' =
               [[p \in Requests |-> ClientView(p)] EXCEPT ![r] = label]
  <1>1. ASSUME NEW p \in Requests, p # r  PROVE ClientView(p)' = ClientView(p)
    <2>1. handler'[p] = handler[p]
      BY <1>1 DEF TypeOK
    <2>. QED  BY <2>1 DEF ClientView
  <1>. QED  BY <1>1, Zenon

LEMMA RunningFrame ==
    ASSUME UNCHANGED <<worker, held>>
    PROVE  RunningRequests' = RunningRequests
  BY Zenon DEF RunningRequests

LEMMA RefineHandler ==
    ASSUME OwnershipInv, TypeOK', NEW r \in Requests,
           GetPool(r) \/ HandlerNext(r) \/ Disconnect(r)
    PROVE  [Service!ServiceNext]_Service!abstractVars
  <1> USE DEF HandlerStep, handlerVars, workerVars, lifecycle
  <1>0. /\ TypeOK
        /\ handler \in [Requests -> HandlerStates] /\ worker \in [Workers -> WorkerStates]
        /\ held \in [Workers -> Requests \cup {NoRequest}]
    BY Zenon DEF OwnershipInv, TypeOK
  <1> DEFINE view == [p \in Requests |-> ClientView(p)]
  <1>1. CASE GetPool(r) \/ CountWaiting(r) \/ UncountWaiting(r) \/ Refuse(r)
    <2>1. \A p \in Requests : ClientView(p)' = ClientView(p)
      BY <1>0, <1>1, Zenon DEF GetPool, CountWaiting, UncountWaiting, Refuse, ClientView
    <2>2. UNCHANGED <<queue, done, queueClosed, worker, held>>
      BY <1>1, Zenon DEF GetPool, CountWaiting, UncountWaiting, Refuse
    <2>. QED  BY <2>1, <2>2, RunningFrame, ServiceStutter
  <1>2. CASE Disconnect(r)
    <2>1. \A p \in Requests : ClientView(p)' = ClientView(p)
      BY <1>2 DEF Disconnect, ClientView
    <2>. QED  BY <1>2, <2>1, RunningFrame, ServiceStutter DEF Disconnect
  <1>3. CASE Enqueue(r)
    <2>a. handler' = [handler EXCEPT ![r] = "waiting"] /\ handler'[r] = "waiting"
      BY <1>0, <1>3, Zenon DEF Enqueue
    <2>b. ClientView(r) = "outside" /\ ClientView(r)' = "waiting"
      BY <1>3, <2>a DEF Enqueue, ClientView
    <2>1. view[r] = "outside" /\ view' = [view EXCEPT ![r] = "waiting"]
      BY <1>0, <2>a, <2>b, ClientMove, Zenon
    <2>2. RunningRequests' = RunningRequests
      BY <1>3, RunningFrame, Zenon DEF Enqueue
    <2>3. Service!Admit(r)
      BY <1>3, <2>1, <2>2, Zenon DEF Enqueue, Service!Admit, Service!ClientBecomes
    <2>. QED  BY <2>3 DEF Service!ServiceNext
  <1>4. ASSUME NEW w \in Workers, HandOver(r, w)
        PROVE  [Service!ServiceNext]_Service!abstractVars
    <2>a. handler' = [handler EXCEPT ![r] = "waiting"] /\ handler'[r] = "waiting"
      BY <1>0, <1>4, Zenon DEF HandOver
    <2>b. ClientView(r) = "outside" /\ ClientView(r)' = "waiting"
      BY <1>4, <2>a DEF HandOver, ClientView
    <2>1. view[r] = "outside" /\ view' = [view EXCEPT ![r] = "waiting"]
      BY <1>0, <2>a, <2>b, ClientMove, Zenon
    <2>2. held[w] = NoRequest /\ ~queueClosed
      BY <1>4, Zenon DEF HandOver, OwnershipInv, PhasesAgree
    <2>3. RunningRequests' = RunningRequests \cup {r}
      BY <1>0, <1>4, <2>2, PoolAssumption, Zenon DEF HandOver, RunningRequests
    <2>4. Cardinality(RunningRequests) < Cardinality(Workers)
      BY <2>2, RoomAtBackend
    <2>5. Service!AdmitAndStart(r)
      BY <1>4, <2>1, <2>2, <2>3, <2>4, SameCardinality, Zenon
         DEF HandOver, Service!AdmitAndStart, Service!ClientBecomes
    <2>. QED  BY <2>5, Zenon DEF Service!ServiceNext
  <1>5. CASE QueueFull(r)
    <2>a. handler' = [handler EXCEPT ![r] = "full"] /\ handler'[r] = "full"
      BY <1>0, <1>5, Zenon DEF QueueFull
    <2>b. ClientView(r) = "outside" /\ ClientView(r)' = "refused"
      BY <1>5, <2>a DEF QueueFull, ClientView
    <2>1. view[r] = "outside" /\ view' = [view EXCEPT ![r] = "refused"]
      BY <1>0, <2>a, <2>b, ClientMove, Zenon
    <2>2. RunningRequests' = RunningRequests
      BY <1>5, RunningFrame, Zenon DEF QueueFull
    <2>3. Service!Turn(r)
      BY <1>5, <2>1, <2>2, Zenon DEF QueueFull, Service!Turn, Service!ClientBecomes
    <2>. QED  BY <2>3, Zenon DEF Service!ServiceNext
  <1>6. CASE SendOnClosed(r)
    <2>a. handler' = [handler EXCEPT ![r] = "panicked"] /\ handler'[r] = "panicked"
      BY <1>0, <1>6 DEF SendOnClosed
    <2>b. ClientView(r) = "outside" /\ ClientView(r)' = "failed"
      BY <1>6, <2>a DEF SendOnClosed, ClientView
    <2>1. view[r] = "outside" /\ view' = [view EXCEPT ![r] = "failed"]
      BY <1>0, <2>a, <2>b, ClientMove, Zenon
    <2>2. RunningRequests' = RunningRequests
      BY <1>6, RunningFrame, Zenon DEF SendOnClosed
    <2>3. Service!Fail(r)
      BY <1>6, <2>1, <2>2, Zenon DEF SendOnClosed, Service!Fail, Service!ClientBecomes
    <2>. QED  BY <2>3 DEF Service!ServiceNext
  <1>7. CASE ReturnServed(r)
    <2>a. handler' = [handler EXCEPT ![r] = "served"] /\ handler'[r] = "served"
      BY <1>0, <1>7 DEF ReturnServed
    <2>b. ClientView(r) = "waiting" /\ ClientView(r)' = "answered"
      BY <1>7, <2>a DEF ReturnServed, ClientView
    <2>1. view[r] = "waiting" /\ view' = [view EXCEPT ![r] = "answered"]
      BY <1>0, <2>a, <2>b, ClientMove, Zenon
    <2>2. RunningRequests' = RunningRequests
      BY <1>7, RunningFrame, Zenon DEF ReturnServed
    <2>3. Service!Answered(r)
      BY <1>7, <2>1, <2>2, Zenon DEF ReturnServed, Service!Answered, Service!ClientBecomes
    <2>. QED  BY <2>3 DEF Service!ServiceNext
  <1>8. CASE ReturnCancelled(r)
    <2>a. handler' = [handler EXCEPT ![r] = "cancelled"] /\ handler'[r] = "cancelled"
      BY <1>0, <1>8, Zenon DEF ReturnCancelled
    <2>b. ClientView(r) = "waiting" /\ ClientView(r)' = "gone"
      BY <1>8, <2>a DEF ReturnCancelled, ClientView
    <2>1. view[r] = "waiting" /\ view' = [view EXCEPT ![r] = "gone"]
      BY <1>0, <2>a, <2>b, ClientMove, Zenon
    <2>2. RunningRequests' = RunningRequests
      BY <1>8, RunningFrame, Zenon DEF ReturnCancelled
    <2>3. Service!Leave(r)
      BY <1>8, <2>1, <2>2, Zenon DEF ReturnCancelled, Service!Leave, Service!ClientBecomes
    <2>. QED  BY <2>3, Zenon DEF Service!ServiceNext
  <1>. QED  BY <1>1, <1>2, <1>3, <1>4, <1>5, <1>6, <1>7, <1>8 DEF HandlerNext

LEMMA RefineWorker ==
    ASSUME OwnershipInv, TypeOK', NEW w \in Workers, WorkerNext(w)
    PROVE  [Service!ServiceNext]_Service!abstractVars
  <1> USE DEF WorkerStep, handlerVars, workerVars, lifecycle
  <1>0. /\ worker \in [Workers -> WorkerStates] /\ done \in [Requests -> BOOLEAN]
        /\ held \in [Workers -> Requests \cup {NoRequest}] /\ queue \in Seq(Requests)
        /\ held[w] = NoRequest <=> worker[w] \in {"select", "exited"}
        /\ held[w] # NoRequest => (done[held[w]] <=> worker[w] = "finishing")
        /\ \A v \in Workers : held[v] = held[w] /\ held[v] # NoRequest => v = w
    BY Zenon DEF OwnershipInv, TypeOK, PhasesAgree, SingleOwner
  <1>1. \A r \in Requests : ClientView(r)' = ClientView(r)
    BY DEF WorkerNext, Receive, Exit, CountActive, LeaveWaiting, Forward, Respond,
       UncountActive, ClientView
  <1>2. CASE Receive(w)
    <2>1. held[w] = NoRequest
      BY <1>0, <1>2, Zenon DEF Receive
    <2>2. RunningRequests' = RunningRequests \cup {Head(queue)}
      BY <1>0, <1>2, <2>1, PoolAssumption DEF Receive, RunningRequests
    <2>3. Cardinality(RunningRequests) < Cardinality(Workers)
      BY <2>1, RoomAtBackend
    <2>4. [r \in Requests |-> ClientView(r)]' = [r \in Requests |-> ClientView(r)]
      BY <1>1
    <2>5. UNCHANGED <<done, queueClosed>> /\ queue # <<>> /\ queue' = Tail(queue)
      BY <1>2 DEF Receive
    <2>6. Service!StartFirst
      BY <2>2, <2>3, <2>4, <2>5, SameCardinality, Zenon DEF Service!StartFirst
    <2>. QED  BY <2>6 DEF Service!ServiceNext
  <1>3. CASE Exit(w) \/ CountActive(w) \/ LeaveWaiting(w) \/ Forward(w)
    <2>1. UNCHANGED <<queue, done, queueClosed, held>>
      BY <1>3, Zenon DEF Exit, CountActive, LeaveWaiting, Forward
    <2>2. RunningRequests' = RunningRequests
      <3>1. \A v \in Workers : worker'[v] = "finishing" <=> worker[v] = "finishing"
        BY <1>0, <1>3, Zenon DEF Exit, CountActive, LeaveWaiting, Forward
      <3>. QED  BY <2>1, <3>1, Zenon DEF RunningRequests
    <2>. QED  BY <1>1, <2>1, <2>2, ServiceStutter, Zenon
  <1>4. CASE Respond(w)
    <2>1. PICK r \in Requests : r = held[w]
      BY <1>0, <1>4, Zenon DEF Respond
    <2>2. ~done[r] /\ \A v \in Workers : held[v] = r => v = w
      BY <1>0, <1>4, <2>1, PoolAssumption, Zenon DEF Respond
    <2>3. r \in RunningRequests /\ RunningRequests' = RunningRequests \ {r}
      BY <1>0, <1>4, <2>1, <2>2, Zenon DEF Respond, RunningRequests
    <2>4. {p \in Requests : done[p]}' = {p \in Requests : done[p]} \cup {r}
      BY <1>0, <1>4, <2>1, Zenon DEF Respond
    <2>5. Service!Finish(r)
      BY <1>1, <1>4, <2>2, <2>3, <2>4, Zenon DEF Respond, Service!Finish
    <2>. QED  BY <2>5 DEF Service!ServiceNext
  <1>5. CASE UncountActive(w)
    <2>1. RunningRequests' = RunningRequests
      BY <1>0, <1>5, PoolAssumption, Zenon DEF UncountActive, RunningRequests
    <2>. QED  BY <1>1, <1>5, <2>1, ServiceStutter, Zenon DEF UncountActive
  <1>. QED  BY <1>2, <1>3, <1>4, <1>5, Zenon DEF WorkerNext

LEMMA RefineRest ==
    ASSUME OwnershipInv, TypeOK',
           RemovePool \/ ShutdownNext \/ (\E t \in Threads : NotifyNext(t)) \/ UNCHANGED vars
    PROVE  [Service!ServiceNext]_Service!abstractVars
  <1> USE DEF handlerVars, workerVars, lifecycle
  <1>1. /\ \A r \in Requests : ClientView(r)' = ClientView(r)
        /\ UNCHANGED <<queue, done, worker, held>>
    BY DEF RemovePool, ShutdownNext, Cancel, CloseQueue, ShutdownComplete, NotifyNext,
       LoadActive, LoadWaiting, Report, vars, ClientView
  <1>2. RunningRequests' = RunningRequests
    BY <1>1, RunningFrame
  <1>3. CASE CloseQueue
    <2>1. ~queueClosed
      BY <1>3, Zenon DEF OwnershipInv, PhasesAgree, CloseQueue, ShutdownStep
    <2>2. Service!Close
      BY <1>1, <1>2, <1>3, <2>1, Zenon DEF CloseQueue, Service!Close
    <2>. QED  BY <2>2 DEF Service!ServiceNext
  <1>4. CASE ~CloseQueue
    <2>1. UNCHANGED queueClosed
      BY <1>4, Zenon DEF RemovePool, ShutdownNext, Cancel, ShutdownComplete, NotifyNext,
         LoadActive, LoadWaiting, Report, vars
    <2>. QED  BY <1>1, <1>2, <2>1, ServiceStutter, Zenon
  <1>. QED  BY <1>3, <1>4

(* The pool implements the service it promises: bounded concurrency and       *)
(* queue, first come first served, refusal only when the queue is full, one   *)
(* finish per started request, whatever the number of goroutines and whenever *)
(* the pool is removed (pool.go:253-392, 514-525).                            *)
THEOREM PoolImplementsService == Spec => ImplementsService
  <1>1. Init => Service!ServiceInit
    <2> SUFFICES ASSUME Init  PROVE Service!ServiceInit
      OBVIOUS
    <2>1. RunningRequests = {} /\ {r \in Requests : done[r]} = {}
      BY PoolAssumption, Zenon DEF Init, RunningRequests
    <2>2. \A r \in Requests : ClientView(r) = "outside"
      BY DEF Init, ClientView
    <2>. QED  BY <2>1, <2>2, Zenon DEF Init, Service!ServiceInit
  <1>2. OwnershipInv /\ TypeOK' /\ [Next]_vars => [Service!ServiceNext]_Service!abstractVars
    BY RefineHandler, RefineWorker, RefineRest DEF Next
  <1>. QED
    BY <1>1, <1>2, TypeCorrect, OwnershipCorrect, PTL
       DEF Spec, ImplementsService, Service!ServiceSpec, OwnershipInv

-----------------------------------------------------------------------------
(* The reports.  Every step that moves a counter makes its goroutine report, *)
(* and what a goroutine has loaded stays current while it reports alone.     *)

Current == [active |-> active, waiting |-> waiting]

ReportInv ==
    /\ (\A t \in Threads : Quiet(t)) => reported = Current
    /\ \A t \in Threads : notify[t] = "loadWaiting" => seen[t].active = active
    /\ \A t \in Threads : notify[t] = "report" => seen[t] = Current

\* A goroutine that begins to report is the only one.
LEMMA ReportBegins ==
    ASSUME TypeOK, NEW t \in Threads, StartNotify(t), OneReports'
    PROVE  ReportInv'
  <1>1. notify'[t] = "loadActive"
    BY Zenon DEF TypeOK, StartNotify
  <1>2. \A u \in Threads : u # t => notify'[u] = "quiet"
    BY <1>1 DEF OneReports, Quiet
  <1>3. ~(\A u \in Threads : Quiet(u))'
    BY <1>1 DEF Quiet
  <1>4. \A u \in Threads : notify'[u] # "loadWaiting" /\ notify'[u] # "report"
    BY <1>1, <1>2
  <1>. QED  BY <1>3, <1>4, Zenon DEF ReportInv

\* The steps of a report.
LEMMA ReportGoesOn ==
    ASSUME TypeOK, ReportInv, NEW t \in Threads, NotifyNext(t)
    PROVE  ReportInv'
  <1>1. active' = active /\ waiting' = waiting /\ Current' = Current
    BY Zenon DEF NotifyNext, LoadActive, LoadWaiting, Report, counters, Current
  <1>2. CASE LoadActive(t)
    <2>1. /\ notify'[t] = "loadWaiting" /\ seen'[t] = [active |-> active, waiting |-> 0]
          /\ \A u \in Threads : u # t => notify'[u] = notify[u] /\ seen'[u] = seen[u]
      BY <1>2, Zenon DEF LoadActive, TypeOK
    <2>2. seen'[t].active = active
      BY <2>1, SMTT(60)
    <2>. QED  BY <1>1, <2>1, <2>2, Zenon DEF ReportInv, Quiet
  <1>3. CASE LoadWaiting(t)
    <2>1. /\ notify'[t] = "report" /\ notify[t] = "loadWaiting"
          /\ seen'[t] = [active |-> seen[t].active, waiting |-> waiting]
          /\ \A u \in Threads : u # t => notify'[u] = notify[u] /\ seen'[u] = seen[u]
      BY <1>3, Zenon DEF LoadWaiting, TypeOK
    <2>2. seen[t].active = active
      BY <2>1, Zenon DEF ReportInv
    <2>3. seen'[t] = Current
      BY <2>1, <2>2, Zenon DEF Current
    <2>. QED  BY <1>1, <2>1, <2>3, Zenon DEF ReportInv, Quiet
  <1>4. CASE Report(t)
    <2>1. /\ notify'[t] = "quiet" /\ notify[t] = "report" /\ reported' = seen[t]
          /\ \A u \in Threads : u # t => notify'[u] = notify[u] /\ seen'[u] = seen[u]
      BY <1>4, Zenon DEF Report, TypeOK
    <2>2. reported' = Current
      BY <2>1, Zenon DEF ReportInv
    <2>. QED  BY <1>1, <2>1, <2>2, Zenon DEF ReportInv
  <1>. QED  BY <1>2, <1>3, <1>4 DEF NotifyNext

LEMMA ReportStep ==
    ASSUME TypeOK, ReportInv, OneReports', [Next]_vars
    PROVE  ReportInv'
  <1>1. ASSUME NEW t \in Threads, NotifyNext(t)  PROVE ReportInv'
    BY <1>1, ReportGoesOn
  <1>2. CASE UNCHANGED <<counters, metrics>>
    BY <1>2, Zenon DEF counters, metrics, ReportInv, Quiet, Current
  <1>3. ASSUME NEW r \in Requests, CountWaiting(r) \/ UncountWaiting(r)  PROVE ReportInv'
    <2>1. StartNotify(r) /\ r \in Threads
      BY <1>3, Zenon DEF CountWaiting, UncountWaiting, Threads
    <2>. QED  BY <2>1, ReportBegins
  <1>4. ASSUME NEW w \in Workers, CountActive(w) \/ LeaveWaiting(w) \/ UncountActive(w)
        PROVE  ReportInv'
    <2>1. StartNotify(w) /\ w \in Threads
      BY <1>4, Zenon DEF CountActive, LeaveWaiting, UncountActive, Threads
    <2>. QED  BY <2>1, ReportBegins
  <1>5. ASSUME NEW r \in Requests,
               \/ GetPool(r) \/ Enqueue(r) \/ (\E w \in Workers : HandOver(r, w))
               \/ QueueFull(r) \/ SendOnClosed(r) \/ Refuse(r)
               \/ ReturnServed(r) \/ ReturnCancelled(r) \/ Disconnect(r)
        PROVE  UNCHANGED <<counters, metrics>>
    BY <1>5, Zenon DEF GetPool, Enqueue, HandOver, QueueFull, SendOnClosed, Refuse,
        ReturnServed, ReturnCancelled, Disconnect
  <1>6. ASSUME NEW w \in Workers, Receive(w) \/ Exit(w) \/ Forward(w) \/ Respond(w)
        PROVE  UNCHANGED <<counters, metrics>>
    BY <1>6, Zenon DEF Receive, Exit, Forward, Respond
  <1>7. CASE RemovePool \/ ShutdownNext
    BY <1>2, <1>7, Zenon DEF RemovePool, ShutdownNext, Cancel, CloseQueue, ShutdownComplete
  <1>8. CASE UNCHANGED vars
    BY <1>2, <1>8, Zenon DEF vars
  <1>9. CASE Next
    BY <1>1, <1>2, <1>3, <1>4, <1>5, <1>6, <1>7, <1>9, Zenon DEF Next, HandlerNext, WorkerNext
  <1>. QED  BY <1>8, <1>9, Zenon

(* The registry is told of every move of activeCount and waitingCount: as    *)
(* long as no two notifyMetricsChanged overlap, it has both as they are      *)
(* whenever none is under way (pool.go:307-315, 371-383, 506-512).           *)
THEOREM ReportCorrect == Spec => ReportCurrent
  <1>1. Init => ReportInv
    BY Zenon DEF Init, ReportInv, Current, Quiet, Zero, Threads
  <1>2. TypeOK /\ ReportInv /\ OneReports' /\ [Next]_vars => ReportInv'
    BY ReportStep
  <1>3. ReportInv =>
            ((\A t \in Threads : Quiet(t)) => reported = [active |-> active, waiting |-> waiting])
    BY Zenon DEF ReportInv, Current
  <1>. QED  BY <1>1, <1>2, <1>3, TypeCorrect, PTL DEF Spec, ReportCurrent
=============================================================================
