------------------------ MODULE PartitionSessionProofs ------------------------
(***************************************************************************)
(* What a partition session promises, for every launch, every payload and  *)
(* every endpoint map.  Without faults no transfer stops half-way.  After  *)
(* any number of faults the ends of a route still agree and the session's  *)
(* mailbox counts are the workers', the workers have carried out what the  *)
(* session reports, its reports never go back, and its scripts emit what   *)
(* their cadence asks for.                                                 *)
(***************************************************************************)
EXTENDS PartitionSession, SequenceTheorems, FiniteSetTheorems, TLAPS

(* A call in progress has the fields Begin and ScriptAction give it.       *)
CallShape ==
    call # NoCall =>
        call = [name |-> call.name, arg |-> call.arg, todo |-> call.todo,
                missing |-> call.missing, done |-> call.done, sum |-> call.sum]

AllInitialized == \A w \in Workers : ps[w].initialized

(* A deployment has initialised the workers it is past.                    *)
DeployProgress ==
    call.name = "Deploy" =>
        /\ call.done \in 0..(2 * NumWorkers)
        /\ call.todo \in Seq({DeployRequests[i] : i \in 1..(2 * NumWorkers)})
        /\ Len(call.todo) = 2 * NumWorkers - call.done
        /\ \A i \in 1..Len(call.todo) : call.todo[i] = DeployRequests[call.done + i]
        /\ \A w \in Workers : 2 * w - 1 <= call.done => ps[w].initialized

(* A transfer has checked what can be refused before it publishes.         *)
TransferProgress ==
    call.name = "Transfer" =>
        LET r == call.arg.route IN
        /\ session
        /\ r \in RouteIndexes
        /\ call.missing \cap {Routes[r].producer, Routes[r].consumer} = {}
        /\ \/ call.done = 0 /\ call.todo = TransferRequests(call.arg)
           \/ /\ call.done = 1
              /\ call.todo = <<Request(Routes[r].consumer, "Deliver", call.arg)>>
              /\ ValidPayload(r, call.arg.payload)
           \/ call.done = 2 /\ call.todo = <<>>

FaultFree ==
    /\ torn = {}
    /\ \A w \in Workers : up[w] /\ pending[w] = <<>>
    /\ session => AllInitialized
    /\ DeployProgress
    /\ TransferProgress

(* The inductive invariant.                                                *)
SessionInvariant ==
    /\ faults \in Nat
    /\ DOMAIN ps = Workers
    /\ \A w \in Workers : "initialized" \in DOMAIN ps[w]
    /\ CallShape
    /\ faults = 0 => FaultFree

-----------------------------------------------------------------------------
(* What a worker accepts leaves it initialised.                            *)
LEMMA AfterInitialized ==
    ASSUME NEW state, NEW q, "initialized" \in DOMAIN state, Accepted(state, q)
    PROVE  /\ After(state, q).initialized
           /\ "initialized" \in DOMAIN After(state, q)
<1>1. CASE q.kind = "Init"
    BY <1>1 DEF After, NewWorker
<1>2. CASE q.kind # "Init"
    <2>1. state.initialized
        BY <1>2 DEF Accepted
    <2>2. QED
        BY <1>2, <2>1 DEF After, Cleared
<1>3. QED
    BY <1>1, <1>2

LEMMA InvariantHoldsInitially == Init => SessionInvariant
BY DEF Init, SessionInvariant, CallShape, FaultFree, DeployProgress, TransferProgress,
       NoCall, NoWorker

(* Steps that leave the workers and the call alone.                        *)
LEMMA NothingHappens ==
    ASSUME SessionInvariant,
           UNCHANGED <<up, ps, pending, call, faults, torn>>,
           session' = session \/ (~session' /\ call = NoCall)
    PROVE  SessionInvariant'
BY DEF SessionInvariant, CallShape, FaultFree, AllInitialized, DeployProgress,
       TransferProgress, NoCall

(* The beginning of a call that is neither a deployment nor a transfer.    *)
LEMMA OtherCallBegins ==
    ASSUME SessionInvariant,
           NEW name, NEW arg, NEW todo, NEW missing,
           name \notin {"Deploy", "Transfer"},
           call' = [name |-> name, arg |-> arg, todo |-> todo, missing |-> missing,
                    done |-> 0, sum |-> Zeros],
           UNCHANGED <<up, ps, pending, session, faults, torn>>
    PROVE  SessionInvariant'
<1>1. CallShape' /\ call'.name \notin {"Deploy", "Transfer"}
    BY DEF CallShape
<1>2. DeployProgress' /\ TransferProgress'
    BY <1>1 DEF DeployProgress, TransferProgress
<1>3. QED
    BY <1>1, <1>2 DEF SessionInvariant, FaultFree, AllInitialized

LEMMA DeployBegins ==
    ASSUME SessionInvariant, Deploy
    PROVE  SessionInvariant'
<1>1. PICK m \in Missing : Begin("Deploy", 0, DeployRequests, m)
    BY DEF Deploy
<1>2. /\ call' = [name |-> "Deploy", arg |-> 0, todo |-> DeployRequests, missing |-> m,
                  done |-> 0, sum |-> Zeros]
      /\ UNCHANGED <<up, ps, pending, session, faults>>
      /\ torn' = {}
    BY <1>1 DEF Begin, Deploy, workerVars, sessionVars
<1>3. CallShape' /\ TransferProgress'
    BY <1>2 DEF CallShape, TransferProgress
<1>4. DeployProgress'
    <2>1. /\ DeployRequests \in Seq({DeployRequests[i] : i \in 1..(2 * NumWorkers)})
          /\ Len(DeployRequests) = 2 * NumWorkers
        <3> DEFINE S == {DeployRequests[i] : i \in 1..(2 * NumWorkers)}
        <3>1. 2 * NumWorkers \in Nat
            BY SessionAssumption
        <3>2. DOMAIN DeployRequests = 1..(2 * NumWorkers)
            BY DEF DeployRequests
        <3>3. DeployRequests = [i \in 1..(2 * NumWorkers) |-> DeployRequests[i]]
            BY DEF DeployRequests
        <3>4. DeployRequests \in [1..(2 * NumWorkers) -> S]
            BY <3>3
        <3>5. QED
            BY SMTT(30), <3>1, <3>2, <3>4
    <2>2. \A w \in Workers : ~(2 * w - 1 <= 0)
        BY SessionAssumption DEF Workers
    <2>3. QED
        BY <1>2, <2>1, <2>2, SessionAssumption DEF DeployProgress
<1>5. QED
    BY <1>2, <1>3, <1>4 DEF SessionInvariant, FaultFree, AllInitialized

LEMMA TransferBegins ==
    ASSUME SessionInvariant, TransferRoute
    PROVE  SessionInvariant'
<1>1. PICK r \in RouteIndexes, limbs \in Payloads, m \in Missing :
          /\ m \cap {Routes[r].producer, Routes[r].consumer} = {}
          /\ Begin("Transfer", RoutePayload(r, Routes[r].width, limbs),
                   TransferRequests(RoutePayload(r, Routes[r].width, limbs)), m)
    BY DEF TransferRoute
<1> DEFINE arg == RoutePayload(r, Routes[r].width, limbs)
<1>2. /\ call' = [name |-> "Transfer", arg |-> arg, todo |-> TransferRequests(arg),
                  missing |-> m, done |-> 0, sum |-> Zeros]
      /\ UNCHANGED <<up, ps, pending, session, faults, torn>>
      /\ session
    BY <1>1 DEF Begin, TransferRoute, workerVars, sessionVars, history
<1>3. arg.route = r
    BY DEF RoutePayload
<1> HIDE DEF arg
<1>4. CallShape' /\ DeployProgress'
    BY <1>2 DEF CallShape, DeployProgress
<1>5. TransferProgress'
    BY <1>1, <1>2, <1>3 DEF TransferProgress
<1>6. QED
    BY <1>2, <1>4, <1>5 DEF SessionInvariant, FaultFree, AllInitialized

(* The requests of a deployment go to the workers in order, two to each.   *)
LEMMA DeployOrder ==
    ASSUME NEW v \in Workers
    PROVE  DeployRequests[2 * v - 1].worker = v
<1>1. v \in Nat /\ 1 <= v /\ v <= NumWorkers /\ NumWorkers \in Nat
    BY SessionAssumption DEF Workers
<1>2. 2 * v - 1 \in 1..(2 * NumWorkers)
    BY <1>1
<1>3. ((2 * v - 1) + 1) \div 2 = v
    BY <1>1
<1>4. QED
    BY <1>2, <1>3 DEF DeployRequests, Request

(* The call in progress advances by one request.                           *)
LEMMA AnswerArrives ==
    ASSUME SessionInvariant, Answer
    PROVE  SessionInvariant'
<1> DEFINE q == Turn
           w == q.worker
<1>1. /\ call # NoCall
      /\ call.todo # <<>>
      /\ Accepted(ps[w], q)
      /\ ps' = [ps EXCEPT ![w] = After(ps[w], q)]
      /\ call' = [call EXCEPT !.todo = Tail(@), !.done = @ + 1,
                              !.sum = Added(@, Reported(ps[w], q))]
      /\ UNCHANGED <<up, pending, session, faults, torn>>
    BY DEF Answer, InCall
<1>2. call' = [name |-> call.name, arg |-> call.arg, todo |-> Tail(call.todo),
               missing |-> call.missing, done |-> call.done + 1,
               sum |-> Added(call.sum, Reported(ps[w], q))]
    BY <1>1 DEF SessionInvariant, CallShape
<1>3. CallShape'
    BY <1>2 DEF CallShape
<1>4. DOMAIN ps' = Workers
    BY <1>1 DEF SessionInvariant
<1>5. \A v \in Workers : ps'[v] = IF v = w THEN After(ps[w], q) ELSE ps[v]
    BY <1>1 DEF SessionInvariant
<1>6. w \in Workers => /\ "initialized" \in DOMAIN ps'[w]
                       /\ ps'[w].initialized
    BY <1>1, <1>5, AfterInitialized DEF SessionInvariant
<1>7. \A v \in Workers : /\ "initialized" \in DOMAIN ps'[v]
                         /\ ps[v].initialized => ps'[v].initialized
    BY <1>5, <1>6 DEF SessionInvariant
<1>8. ASSUME FaultFree
      PROVE  DeployProgress'
    <2> SUFFICES ASSUME call.name = "Deploy"
                 PROVE  DeployProgress'
        BY <1>2 DEF DeployProgress
    <2> DEFINE S == {DeployRequests[i] : i \in 1..(2 * NumWorkers)}
    <2>1. /\ call.done \in 0..(2 * NumWorkers)
          /\ call.todo \in Seq(S)
          /\ Len(call.todo) = 2 * NumWorkers - call.done
          /\ \A i \in 1..Len(call.todo) : call.todo[i] = DeployRequests[call.done + i]
          /\ \A v \in Workers : 2 * v - 1 <= call.done => ps[v].initialized
        BY <1>8 DEF FaultFree, DeployProgress
    <2> HIDE DEF S
    <2>2. /\ Tail(call.todo) \in Seq(S)
          /\ Len(Tail(call.todo)) = Len(call.todo) - 1
          /\ \A i \in 1..Len(Tail(call.todo)) : Tail(call.todo)[i] = call.todo[i + 1]
          /\ Len(call.todo) > 0
        BY <1>1, <2>1
    <2>3. q = DeployRequests[call.done + 1]
        BY <1>1, <2>1, <2>2 DEF Turn
    <2>4. \A v \in Workers : 2 * v - 1 = call.done + 1 => w = v
        BY <2>3, DeployOrder
    <2>5. \A v \in Workers : 2 * v - 1 <= call.done + 1 => ps'[v].initialized
        <3> HIDE DEF q, w
        <3> SUFFICES ASSUME NEW v \in Workers, 2 * v - 1 <= call.done + 1
                     PROVE  ps'[v].initialized
            OBVIOUS
        <3>1. v \in Nat /\ call.done \in Nat
            BY <2>1, SessionAssumption DEF Workers
        <3>2. CASE 2 * v - 1 <= call.done
            BY <1>7, <2>1, <3>2
        <3>3. CASE 2 * v - 1 = call.done + 1
            BY <1>6, <2>4, <3>3
        <3>4. QED
            BY <3>1, <3>2, <3>3
    <2>6. /\ call.done + 1 \in 0..(2 * NumWorkers)
          /\ Len(Tail(call.todo)) = 2 * NumWorkers - (call.done + 1)
          /\ \A i \in 1..Len(Tail(call.todo)) :
                Tail(call.todo)[i] = DeployRequests[(call.done + 1) + i]
        <3> DEFINE n == Len(call.todo)
                   rest == Tail(call.todo)
        <3>1. NumWorkers \in Nat /\ call.done \in Nat /\ n \in Nat
              /\ n = 2 * NumWorkers - call.done /\ n > 0 /\ Len(rest) = n - 1
            BY <2>1, <2>2, SessionAssumption
        <3>2. ASSUME NEW i \in 1..Len(rest)
              PROVE  rest[i] = DeployRequests[(call.done + 1) + i]
            <4>1. i \in Nat /\ i + 1 \in 1..n /\ call.done + (i + 1) = (call.done + 1) + i
                BY <3>1
            <4>2. rest[i] = call.todo[i + 1]
                BY <2>2
            <4>3. call.todo[i + 1] = DeployRequests[call.done + (i + 1)]
                BY <2>1, <4>1
            <4>4. QED
                BY <4>1, <4>2, <4>3
        <3>3. QED
            BY <3>1, <3>2
    <2>7. QED
        BY <1>2, <2>2, <2>5, <2>6 DEF DeployProgress, S
<1>9. ASSUME FaultFree
      PROVE  TransferProgress'
    <2> SUFFICES ASSUME call.name = "Transfer"
                 PROVE  TransferProgress'
        BY <1>2 DEF TransferProgress
    <2> DEFINE r == call.arg.route
               last == Request(Routes[r].consumer, "Deliver", call.arg)
    <2>1. /\ session
          /\ r \in RouteIndexes
          /\ call.missing \cap {Routes[r].producer, Routes[r].consumer} = {}
        BY <1>9 DEF FaultFree, TransferProgress
    <2>2. CASE call.done = 0 /\ call.todo = TransferRequests(call.arg)
        <3>1. /\ q = Request(Routes[r].producer, "Store", call.arg)
              /\ Tail(call.todo) = <<last>>
            BY <2>2 DEF Turn, TransferRequests
        <3>2. ValidPayload(r, call.arg.payload)
            BY <1>1, <3>1 DEF Accepted, Request
        <3>3. QED
            <4> HIDE DEF q, w, last, r
            <4>1. /\ call'.name = "Transfer" /\ call'.arg = call.arg
                  /\ call'.missing = call.missing /\ call'.done = 1
                  /\ call'.todo = <<last>> /\ session' = session
                BY <1>1, <1>2, <2>2, <3>1
            <4>2. QED
                BY <2>1, <3>2, <4>1 DEF TransferProgress, r, last
    <2>3. CASE call.done = 1 /\ call.todo = <<last>>
        BY <1>1, <1>2, <2>1, <2>3 DEF TransferProgress
    <2>4. QED
        BY <1>1, <1>9, <2>2, <2>3 DEF FaultFree, TransferProgress
<1>10. FaultFree => (session => AllInitialized)'
    BY <1>1, <1>7 DEF FaultFree, AllInitialized
<1>11. QED
    BY <1>1, <1>3, <1>4, <1>7, <1>8, <1>9, <1>10 DEF SessionInvariant, FaultFree

(* A call that is refused: had it been a transfer that was published, the  *)
(* consumer would have accepted it.                                        *)
LEMMA CallRefused ==
    ASSUME SessionInvariant, Refused
    PROVE  SessionInvariant'
<1>1. /\ call' = NoCall
      /\ call # NoCall
      /\ call.todo # <<>>
      /\ UNCHANGED <<up, ps, pending, session, faults>>
      /\ torn' = IF call.name = "Transfer" /\ call.done > 0
                 THEN torn \cup {call.arg.route} ELSE torn
      /\ \/ Turn.worker \in call.missing
         \/ ~Accepted(ps[Turn.worker], Turn)
    BY DEF Refused, InCall, Fail, workerVars, sessionVars
<1>2. CallShape' /\ DeployProgress' /\ TransferProgress'
    BY <1>1 DEF CallShape, DeployProgress, TransferProgress, NoCall
<1>3. ASSUME FaultFree, call.name = "Transfer", call.done > 0
      PROVE  FALSE
    <2> DEFINE r == call.arg.route
               last == Request(Routes[r].consumer, "Deliver", call.arg)
    <2>1. /\ session
          /\ r \in RouteIndexes
          /\ Routes[r].consumer \notin call.missing
          /\ call.todo = <<last>>
          /\ ValidPayload(r, call.arg.payload)
        BY <1>1, <1>3 DEF FaultFree, TransferProgress
    <2>2. Turn = last
        BY <2>1 DEF Turn
    <2>3. ps[Routes[r].consumer].initialized
        BY <1>3, <2>1, SessionAssumption DEF FaultFree, AllInitialized
    <2>4. /\ last.kind = "Deliver"
          /\ last.worker = Routes[r].consumer
          /\ last.arg = call.arg
        BY DEF Request
    <2> HIDE DEF last
    <2>5. Accepted(ps[last.worker], last)
        BY <2>1, <2>3, <2>4 DEF Accepted
    <2>6. QED
        BY <1>1, <2>1, <2>2, <2>4, <2>5
<1>4. FaultFree => torn' = {}
    BY <1>1, <1>3 DEF FaultFree
<1>5. QED
    BY <1>1, <1>2, <1>4 DEF SessionInvariant, FaultFree, AllInitialized

(* Steps that are faults, after which nothing is claimed.                  *)
LEMMA FaultHappens ==
    ASSUME SessionInvariant,
           faults' = faults + 1,
           DOMAIN ps' = Workers,
           \A w \in Workers : "initialized" \in DOMAIN ps'[w],
           CallShape'
    PROVE  SessionInvariant'
BY DEF SessionInvariant

LEMMA RequestLost ==
    ASSUME SessionInvariant, Lost
    PROVE  SessionInvariant'
<1>1. call' = NoCall /\ call.todo # <<>> /\ UNCHANGED <<up, ps, pending, session>>
    BY DEF Lost, Fail, workerVars, sessionVars
<1>2. CallShape'
    BY <1>1 DEF CallShape
<1>3. CASE up[Turn.worker]
    BY <1>1, <1>2, <1>3, FaultHappens DEF Lost, SessionInvariant
<1>4. CASE ~up[Turn.worker] /\ faults # 0
    BY <1>1, <1>2, <1>4 DEF Lost, SessionInvariant
<1>5. CASE ~up[Turn.worker] /\ faults = 0
    <2>1. call # NoCall /\ faults' = faults /\ Turn.worker \notin Workers /\ FaultFree
        BY <1>5 DEF SessionInvariant, FaultFree, Lost, InCall
    <2>2. ~(call.name = "Transfer" /\ call.done > 0)
        BY <1>1, <2>1, SessionAssumption DEF FaultFree, TransferProgress, Turn, Request
    <2>3. torn' = {}
        BY <2>1, <2>2 DEF Lost, Fail, FaultFree
    <2>4. DeployProgress' /\ TransferProgress'
        BY <1>1 DEF DeployProgress, TransferProgress, NoCall
    <2>5. QED
        BY <1>1, <1>2, <2>1, <2>3, <2>4 DEF SessionInvariant, FaultFree, AllInitialized
<1>6. QED
    BY <1>3, <1>4, <1>5

LEMMA CallReturned ==
    ASSUME SessionInvariant, Return
    PROVE  SessionInvariant'
<1>1. /\ call' = NoCall
      /\ call.todo = <<>>
      /\ UNCHANGED <<up, ps, pending, faults, torn>>
    BY DEF Return, workerVars
<1>2. CallShape' /\ DeployProgress' /\ TransferProgress'
    BY <1>1 DEF CallShape, DeployProgress, TransferProgress, NoCall
<1>3. ASSUME FaultFree, session'
      PROVE  AllInitialized
    <2>1. CASE session
        BY <1>3, <2>1 DEF FaultFree
    <2>2. CASE call.name = "Deploy"
        <3>1. call.done = 2 * NumWorkers
            BY <1>1, <1>3, <2>2, SessionAssumption DEF FaultFree, DeployProgress
        <3>2. \A w \in Workers : 2 * w - 1 <= call.done
            BY <3>1, SessionAssumption DEF Workers
        <3>3. QED
            BY <1>3, <2>2, <3>2 DEF FaultFree, DeployProgress, AllInitialized
    <2>3. QED
        BY <1>3, <2>1, <2>2 DEF Return, ReturnDeploy, ReturnAction, ReturnMailboxes, sessionVars
<1>4. QED
    BY <1>1, <1>2, <1>3 DEF SessionInvariant, FaultFree, AllInitialized

(* A worker process: a late request, its end, its successor.               *)
LEMMA WorkerSteps ==
    ASSUME SessionInvariant, NEW w \in Workers, CatchUp(w) \/ Crash(w) \/ Restart(w)
    PROVE  SessionInvariant'
<1>1. CASE CatchUp(w)
    <2>1. faults # 0
        BY <1>1 DEF CatchUp, SessionInvariant, FaultFree
    <2>2. /\ ps' = [ps EXCEPT ![w] = Handled(ps[w], Head(pending[w]))]
          /\ UNCHANGED <<call, faults>>
        BY <1>1 DEF CatchUp
    <2>3. "initialized" \in DOMAIN Handled(ps[w], Head(pending[w]))
        BY AfterInitialized DEF Handled, SessionInvariant
    <2>4. QED
        BY <2>1, <2>2, <2>3 DEF SessionInvariant, CallShape
<1>2. CASE Crash(w)
    <2>1. /\ faults' = faults + 1
          /\ ps' = [ps EXCEPT ![w] = NoWorker]
          /\ call' = call
        BY <1>2 DEF Crash
    <2>2. "initialized" \in DOMAIN NoWorker
        BY DEF NoWorker
    <2>3. CallShape'
        BY <2>1 DEF SessionInvariant, CallShape
    <2>4. QED
        BY <2>1, <2>2, <2>3, FaultHappens DEF SessionInvariant
<1>3. CASE Restart(w)
    BY <1>3 DEF Restart, sessionVars, history, SessionInvariant, CallShape, FaultFree
<1>4. QED
    BY <1>1, <1>2, <1>3

LEMMA OwnerSteps ==
    ASSUME SessionInvariant, Owner
    PROVE  SessionInvariant'
<1>1. CASE Deploy
    BY <1>1, DeployBegins
<1>2. CASE TransferRoute
    BY <1>2, TransferBegins
<1>3. CASE RunAction
    <2>1. PICK k \in Kinds, m \in Missing : Begin("Run", k, EachWorker("Run", k), m)
        BY <1>3 DEF RunAction
    <2>2. QED
        BY <1>3, <2>1, OtherCallBegins DEF RunAction, Begin, workerVars, sessionVars, history
<1>4. CASE CollectRouteMailboxes
    <2>1. PICK m \in Missing : Begin("Collect", 0, EachWorker("Mailbox", 0), m)
        BY <1>4 DEF CollectRouteMailboxes
    <2>2. QED
        BY <1>4, <2>1, OtherCallBegins
           DEF CollectRouteMailboxes, Begin, workerVars, sessionVars, history
<1>5. CASE ClearRouteMailboxes
    <2>1. PICK m \in Missing : Begin("Clear", 0, EachWorker("Clear", 0), m)
        BY <1>5 DEF ClearRouteMailboxes
    <2>2. QED
        BY <1>5, <2>1, OtherCallBegins
           DEF ClearRouteMailboxes, Begin, workerVars, sessionVars, history
<1>6. CASE PublishOutbound
    <2>1. PICK w \in Workers, r \in RouteIndexes, width \in Widths, limbs \in Payloads :
              Begin("Publish", RoutePayload(r, width, limbs),
                    <<Request(w, "Store", RoutePayload(r, width, limbs))>>, {})
        BY <1>6 DEF PublishOutbound
    <2>2. QED
        BY <1>6, <2>1, OtherCallBegins
           DEF PublishOutbound, Begin, workerVars, sessionVars, history
<1>7. CASE DeliverInbound
    <2>1. PICK w \in Workers, r \in RouteIndexes, width \in Widths, limbs \in Payloads :
              Begin("Deliver", RoutePayload(r, width, limbs),
                    <<Request(w, "Deliver", RoutePayload(r, width, limbs))>>, {})
        BY <1>7 DEF DeliverInbound
    <2>2. QED
        BY <1>7, <2>1, OtherCallBegins
           DEF DeliverInbound, Begin, workerVars, sessionVars, history
<1>8. CASE ClearActions \/ DropSession \/ StartScript
    BY <1>8, NothingHappens
       DEF ClearActions, DropSession, StartScript, Free, workerVars, sessionVars, history
<1>9. QED
    BY <1>1, <1>2, <1>3, <1>4, <1>5, <1>6, <1>7, <1>8 DEF Owner

LEMMA CallSteps ==
    ASSUME SessionInvariant, CallStep
    PROVE  SessionInvariant'
<1>1. CASE Late
    <2>1. faults' = faults + 1 /\ call' = NoCall /\ ps' = ps
        BY <1>1 DEF Late, Fail
    <2>2. QED
        BY <2>1, FaultHappens DEF SessionInvariant, CallShape
<1>2. QED
    BY <1>1, AnswerArrives, CallRefused, RequestLost, CallReturned DEF CallStep

LEMMA ScriptSteps ==
    ASSUME SessionInvariant, ScriptStep
    PROVE  SessionInvariant'
<1>1. CASE Emit \/ FinishScript
    BY <1>1, NothingHappens DEF Emit, FinishScript, workerVars, sessionVars, history
<1>2. CASE ScriptAction
    BY <1>2, OtherCallBegins DEF ScriptAction, workerVars, sessionVars, history
<1>3. QED
    BY <1>1, <1>2 DEF ScriptStep

(* Until the first fault every worker is up and has nothing waiting, a     *)
(* deployed session has all its workers initialised, and a transfer that   *)
(* has been published can only succeed.                                    *)
THEOREM SessionInvariance == Spec => []SessionInvariant
<1>1. Init => SessionInvariant
    BY InvariantHoldsInitially
<1>2. SessionInvariant /\ [Next]_vars => SessionInvariant'
    <2> SUFFICES ASSUME SessionInvariant, [Next]_vars
                 PROVE  SessionInvariant'
        OBVIOUS
    <2>1. CASE Next
        BY <2>1, OwnerSteps, CallSteps, ScriptSteps, WorkerSteps DEF Next
    <2>2. CASE UNCHANGED vars
        BY <2>2, NothingHappens DEF vars, workerVars, sessionVars, history
    <2>3. QED
        BY <2>1, <2>2
<1>3. QED
    BY <1>1, <1>2, PTL DEF Spec

(* A transfer of a partition session (transfer_route_tcp) stops between    *)
(* publication and delivery only if a fault occurred.                      *)
THEOREM TransfersWhole == Spec => []TornOnlyByFaults
<1>1. SessionInvariant => TornOnlyByFaults
    BY DEF SessionInvariant, FaultFree, TornOnlyByFaults
<1>2. QED
    BY <1>1, SessionInvariance, PTL
-----------------------------------------------------------------------------
(* The session and its workers after any number of faults.                 *)

Seqs == INSTANCE WorkerServiceProofs

WorkerRecord(s) ==
    /\ s = [initialized |-> TRUE, out |-> s.out, in |-> s.in, ops |-> s.ops]
    /\ s.out = [r \in RouteIndexes |-> s.out[r]]
    /\ s.in = [r \in RouteIndexes |-> s.in[r]]
    /\ s.ops = [c \in Counters |-> s.ops[c]]
    /\ \A c \in Counters : s.ops[c] \in Nat

Types ==
    /\ DOMAIN ps = Workers /\ \A w \in Workers : ps[w] = NoWorker \/ WorkerRecord(ps[w])
    /\ DOMAIN pending = Workers /\ \A w \in Workers : Seqs!IsSeq(pending[w])
    /\ session \in BOOLEAN
    /\ CallShape

(* How far a call has come: the requests that are left.                    *)
LoopKind == [Run |-> "Run", Collect |-> "Mailbox", Clear |-> "Clear"]

LoopProgress ==
    call.name \in {"Run", "Collect", "Clear"} =>
        /\ call.done \in 0..NumWorkers
        /\ Seqs!IsSeq(call.todo) /\ Len(call.todo) = NumWorkers - call.done
        /\ \A i \in 1..Len(call.todo) :
              call.todo[i] = Request(call.done + i, LoopKind[call.name], call.arg)

RouteProgress ==
    /\ call.name \in Routed => call.arg.route \in RouteIndexes
    /\ call.name = "Publish" =>
          \/ call.done = 0 /\ \E w \in Workers : call.todo = <<Request(w, "Store", call.arg)>>
          \/ call.done = 1 /\ call.todo = <<>>
    /\ call.name = "Deliver" =>
          \/ call.done = 0 /\ \E w \in Workers : call.todo = <<Request(w, "Deliver", call.arg)>>
          \/ call.done = 1 /\ call.todo = <<>>
    /\ call.name = "Transfer" =>
          /\ Routes[call.arg.route].producer # Routes[call.arg.route].consumer
          /\ \/ call.done = 0 /\ call.todo = TransferRequests(call.arg)
             \/ /\ call.done = 1
                /\ call.todo = <<Request(Routes[call.arg.route].consumer, "Deliver", call.arg)>>
             \/ call.done = 2 /\ call.todo = <<>>

DeployOrdered ==
    call.name = "Deploy" =>
        /\ call.done \in 0..(2 * NumWorkers)
        /\ Seqs!IsSeq(call.todo) /\ Len(call.todo) = 2 * NumWorkers - call.done
        /\ \A i \in 1..Len(call.todo) : call.todo[i] = DeployRequests[call.done + i]

CallProgress ==
    /\ call # NoCall => call.name \in {"Deploy", "Run", "Collect", "Clear"} \cup Routed
    /\ LoopProgress /\ RouteProgress /\ DeployOrdered

(* A deployment leaves new workers behind, or workers that have ended.     *)
Deployed ==
    call.name = "Deploy" =>
        /\ ~session
        /\ latest = EmptyMailbox /\ recorded = Zeros /\ failed = Zeros
        /\ \A w \in Workers : 2 * w - 1 <= call.done =>
              /\ pending[w] = <<>>
              /\ ps[w] = NewWorker \/ (w \in gone /\ ps[w] = NoWorker)

(* A worker of a session that has ended stays without a state.             *)
Members ==
    /\ (call # NoCall /\ call.name # "Deploy") => session
    /\ session =>
          \A w \in Workers :
              /\ ps[w].initialized \/ w \in gone
              /\ \A i \in 1..Len(pending[w]) : pending[w][i].kind # "Init"

BaseInv == Types /\ CallProgress /\ Deployed /\ Members

-----------------------------------------------------------------------------
(* Mailboxes.                                                              *)

(* The session knows the counts, and nothing that waits will change them.  *)
Unseen(q) == q.kind \in {"Store", "Deliver", "Clear"}

CountAt(s, waiting, count) ==
    /\ count = MailboxReport(s)
    /\ \A i \in 1..Len(waiting) : ~Unseen(waiting[i])

CountsRight ==
    session =>
        /\ DOMAIN mailboxes = Workers
        /\ \A w \in Workers \ (stale \cup gone) : CountAt(ps[w], pending[w], mailboxes[w])

(* An end of route r holds the payload, and nothing that waits changes it. *)
WaitsForOut(q, r) == q.kind = "Clear" \/ (q.kind = "Store" /\ q.arg.route = r)
WaitsForIn(q, r) == q.kind = "Clear" \/ (q.kind = "Deliver" /\ q.arg.route = r)

OutAt(s, waiting, r, payload) ==
    /\ s.out[r] = payload
    /\ \A i \in 1..Len(waiting) : ~WaitsForOut(waiting[i], r)

InAt(s, waiting, r, payload) ==
    /\ s.in[r] = payload
    /\ \A i \in 1..Len(waiting) : ~WaitsForIn(waiting[i], r)

(* Routes the call in progress has not reached.                            *)
RoutesRight ==
    /\ DOMAIN latest = RouteIndexes
    /\ session =>
          \A r \in RouteIndexes \ dirty :
              (call = NoCall \/ call.done = 0 \/ r \notin Touched) =>
                  LET p == Routes[r].producer
                      c == Routes[r].consumer IN
                  /\ p \notin gone => OutAt(ps[p], pending[p], r, latest[r])
                  /\ c \notin gone => InAt(ps[c], pending[c], r, latest[r])

(* A transfer that has been published, or delivered too.                   *)
TransferRight ==
    call.name = "Transfer" =>
        LET r == call.arg.route
            p == Routes[r].producer
            c == Routes[r].consumer IN
        /\ (call.done >= 1 /\ p \notin gone) => OutAt(ps[p], pending[p], r, call.arg.payload)
        /\ (call.done >= 2 /\ c \notin gone) => InAt(ps[c], pending[c], r, call.arg.payload)

(* The workers that have been cleared.                                     *)
ClearRight ==
    call.name = "Clear" =>
        \A w \in Workers \ gone : w <= call.done =>
            \A r \in RouteIndexes : /\ OutAt(ps[w], pending[w], r, None)
                                    /\ InAt(ps[w], pending[w], r, None)

MailInv == CountsRight /\ RoutesRight /\ TransferRight /\ ClearRight

-----------------------------------------------------------------------------
(* Actions.                                                                *)

IsRun(q, k) == q.kind = "Run" /\ q.arg = k

(* Actions of kind k that a worker has carried out or that wait for it.    *)
RunsAt(waiting, k) == {i \in 1..Len(waiting) : IsRun(waiting[i], k)}
Runs(waiting, k) == Cardinality(RunsAt(waiting, k))
Done(s, waiting, k) == s.ops[k] + Runs(waiting, k)

(* The worker has answered the action in progress.                         *)
One(P) == IF P THEN 1 ELSE 0
Now(w, k) == One(call.name = "Run" /\ call.arg = k /\ w <= call.done)

ActionsCounted ==
    /\ recorded \in [Counters -> Nat] /\ failed \in [Counters -> Nat]
    /\ session =>
          \A k \in Counters :
              /\ \A w \in Workers \ gone :
                    /\ recorded[k] + Now(w, k) <= Done(ps[w], pending[w], k)
                    /\ Done(ps[w], pending[w], k) <= recorded[k] + Now(w, k) + failed[k]
              /\ \A v, w \in Workers \ gone : v < w =>
                    Done(ps[v], pending[v], k) - Now(v, k) >= Done(ps[w], pending[w], k) - Now(w, k)

-----------------------------------------------------------------------------
(* Reports.  The counters of a report are those of the workers summed up   *)
(* one worker after the other: pre[w] is the sum up to worker w.           *)

Sums(workers, pre, n, total) ==
    /\ pre \in [0..NumWorkers -> [Counters -> Nat]]
    /\ pre[0] = Zeros
    /\ pre[n] = total
    /\ \A w \in 1..n : \A c \in Counters :
          /\ pre[w - 1][c] <= pre[w][c]
          /\ workers[w].initialized => pre[w][c] <= pre[w - 1][c] + workers[w].ops[c]

(* The report of the action in progress is ahead of the last one, worker   *)
(* by worker.                                                              *)
Ahead(pre, n, sum, arg) ==
    \A c \in Counters : sum[c] >= pre[n][c] + IF arg = c THEN n ELSE 0

LastOf(reports) == reports[Len(reports)].operations

LastRight ==
    (session /\ actions # <<>>) =>
        \E pre : /\ Sums(ps, pre, NumWorkers, LastOf(actions))
                 /\ call.name = "Run" => Ahead(pre, call.done, call.sum, call.arg)

SumRight == call.name = "Run" => \E pre : Sums(ps, pre, call.done, call.sum)

Ascending(reports) ==
    \A i, j \in 1..Len(reports) : i < j =>
        \A c \in Counters :
            /\ reports[i].operations[c] <= reports[j].operations[c]
            /\ reports[j].kind = c => reports[i].operations[c] < reports[j].operations[c]

ReportsRight ==
    /\ \A i \in 1..Len(actions) : actions[i].operations \in [Counters -> Nat]
    /\ Ascending(actions)
    /\ ~session => actions = <<>>
    /\ LastRight /\ SumRight

-----------------------------------------------------------------------------
(* Scripts.                                                                *)

Periodic(c) == (c > 0 /\ c % script.every = 0) \/ (c = 0 /\ script.initial)

Emitted == {emitted[i].completed : i \in DOMAIN emitted}

ScriptShape ==
    IF script.phase = "none" THEN script = NoScript ELSE
        /\ script = [phase |-> script.phase, todo |-> script.todo, every |-> script.every,
                     final |-> script.final, missing |-> script.missing,
                     completed |-> script.completed, last |-> script.last, due |-> script.due,
                     length |-> script.length, initial |-> script.initial, base |-> script.base]
        /\ script.phase \in {"run", "ok", "err"}

(* What has been emitted, in order, and with the actions of that moment.   *)
EmittedInOrder ==
    /\ Seqs!IsSeq(emitted)
    /\ script.phase = "none" => emitted = <<>>
    /\ \A i, j \in 1..Len(emitted) : i < j => emitted[i].completed < emitted[j].completed
    /\ \A i \in 1..Len(emitted) :
          /\ emitted[i].completed \in Nat
          /\ emitted[i].actions = script.base + emitted[i].completed

ScriptRuns ==
    script.phase = "run" =>
        /\ session
        /\ call = NoCall \/ call.name = "Run"
        /\ script.every \in Nat \ {0}
        /\ script.initial \in BOOLEAN /\ script.final \in BOOLEAN
        /\ Seqs!IsSeq(script.todo)
        /\ script.completed \in Nat /\ script.length \in Nat /\ script.base \in Nat
        /\ script.length = script.completed + Len(script.todo) + IF call = NoCall THEN 0 ELSE 1
        /\ Len(actions) = script.base + script.completed
        /\ script.due \in {"no", "Initial", "Cadence", "Final"}
        /\ script.due # "no" => call = NoCall
        /\ script.last \in Emitted \/ (script.last = -1 /\ emitted = <<>>)
        /\ \A c \in Emitted : c <= script.last
        /\ script.last <= script.completed
        /\ script.due # "no" => script.last < script.completed
        /\ script.due \in {"Initial", "Cadence"} => Periodic(script.completed)
        /\ script.due = "Final" => script.final /\ script.todo = <<>>

(* Everything periodic so far has been emitted, unless it is due now; and  *)
(* nothing else but the end.                                               *)
EmittedSoFar ==
    script.phase = "run" =>
        /\ \A c \in 0..script.completed :
              Periodic(c) => c \in Emitted \/ (c = script.completed /\ script.due \in {"Initial", "Cadence"})
        /\ \A c \in Emitted :
              \/ Periodic(c)
              \/ c = script.length /\ script.final /\ script.completed = script.length

EmittedAll ==
    script.phase = "ok" =>
        Emitted = {c \in 0..script.length : \/ c > 0 /\ c % script.every = 0
                                            \/ c = 0 /\ script.initial
                                            \/ c = script.length /\ script.final}

ScriptInv ==
    /\ ScriptShape /\ EmittedInOrder /\ ScriptRuns /\ EmittedSoFar /\ EmittedAll
    /\ Seqs!IsSeq(actions)
-----------------------------------------------------------------------------
(* What a worker makes of a request.                                       *)

LEMMA RecordFields ==
    ASSUME NEW s, WorkerRecord(s)
    PROVE  s.initialized = TRUE /\ s # NoWorker
<1>1. s = [initialized |-> TRUE, out |-> s.out, in |-> s.in, ops |-> s.ops]
    BY DEF WorkerRecord
<1>2. s.initialized = TRUE
    BY <1>1
<1>3. NoWorker.initialized = FALSE
    BY DEF NoWorker
<1>4. QED
    BY <1>2, <1>3

LEMMA NewRecord ==
    /\ WorkerRecord(NewWorker)
    /\ NewWorker.out = EmptyMailbox /\ NewWorker.in = EmptyMailbox /\ NewWorker.ops = Zeros
<1>1. /\ NewWorker = [initialized |-> TRUE, out |-> EmptyMailbox, in |-> EmptyMailbox,
                      ops |-> Zeros]
    BY DEF NewWorker
<1>2. /\ NewWorker.out = EmptyMailbox /\ NewWorker.in = EmptyMailbox /\ NewWorker.ops = Zeros
      /\ NewWorker.initialized = TRUE
    BY <1>1
<1>3. EmptyMailbox = [r \in RouteIndexes |-> EmptyMailbox[r]]
    BY DEF EmptyMailbox
<1>4. Zeros = [c \in Counters |-> Zeros[c]] /\ \A c \in Counters : Zeros[c] \in Nat
    BY DEF Zeros
<1>5. QED
    BY <1>1, <1>2, <1>3, <1>4 DEF WorkerRecord

(* The payloads at the two ends of route r after a request, and the        *)
(* counter of actions of kind k.                                           *)
OutAfter(s, q, r) ==
    IF q.kind = "Clear" THEN None
    ELSE IF q.kind = "Store" /\ q.arg.route = r THEN q.arg.payload ELSE s.out[r]

InAfter(s, q, r) ==
    IF q.kind = "Clear" THEN None
    ELSE IF q.kind = "Deliver" /\ q.arg.route = r THEN q.arg.payload ELSE s.in[r]

LEMMA AfterIs ==
    ASSUME NEW s, NEW q, s = NoWorker \/ WorkerRecord(s), Accepted(s, q)
    PROVE  /\ WorkerRecord(After(s, q))
           /\ q.kind = "Init" => s = NoWorker /\ After(s, q) = NewWorker
           /\ q.kind # "Init" =>
                 /\ WorkerRecord(s)
                 /\ \A r \in RouteIndexes : After(s, q).out[r] = OutAfter(s, q, r)
                 /\ \A r \in RouteIndexes : After(s, q).in[r] = InAfter(s, q, r)
                 /\ \A c \in Counters :
                       After(s, q).ops[c] = s.ops[c] + IF IsRun(q, c) THEN 1 ELSE 0
           /\ q.kind \notin {"Init", "Run", "Store", "Deliver", "Clear"} => After(s, q) = s
<1>1. CASE q.kind = "Init"
    <2>1. After(s, q) = NewWorker
        BY <1>1 DEF After
    <2>2. s = NoWorker
        BY <1>1, RecordFields DEF Accepted
    <2>3. QED
        BY <1>1, <2>1, <2>2, NewRecord
<1>2. CASE q.kind # "Init"
    <2>1. s.initialized
        BY <1>2 DEF Accepted
    <2>2. WorkerRecord(s)
        BY <2>1 DEF NoWorker
    <2> DEFINE o == s.out
               n == s.in
               x == s.ops
    <2>3. /\ s = [initialized |-> TRUE, out |-> o, in |-> n, ops |-> x]
          /\ o = [r \in RouteIndexes |-> o[r]] /\ n = [r \in RouteIndexes |-> n[r]]
          /\ x = [c \in Counters |-> x[c]] /\ \A c \in Counters : x[c] \in Nat
        BY <2>2 DEF WorkerRecord
    <2> HIDE DEF o, n, x
    <2> DEFINE a == After(s, q)
    <2>4. ASSUME NEW oo, NEW nn, NEW xx,
                 a = [initialized |-> TRUE, out |-> oo, in |-> nn, ops |-> xx],
                 DOMAIN oo = RouteIndexes, oo = [r \in RouteIndexes |-> oo[r]],
                 nn = [r \in RouteIndexes |-> nn[r]],
                 xx = [c \in Counters |-> xx[c]], \A c \in Counters : xx[c] \in Nat
          PROVE  WorkerRecord(a) /\ a.out = oo /\ a.in = nn /\ a.ops = xx
        <3> HIDE DEF a
        <3>1. a.out = oo /\ a.in = nn /\ a.ops = xx
            BY <2>4
        <3>2. QED
            BY <2>4, <3>1 DEF WorkerRecord
    <2>5. CASE q.kind = "Run"
        <3> DEFINE xx == [c \in Counters |-> x[c] + IF c = q.arg THEN 1 ELSE 0]
        <3>1. a = [s EXCEPT !.ops = Counted(s.ops, q.arg)]
            BY <2>5 DEF After
        <3>2. Counted(s.ops, q.arg) = xx
            BY DEF Counted, x
        <3>3. xx = [c \in Counters |-> xx[c]] /\ \A c \in Counters : xx[c] \in Nat
            BY <2>3
        <3> HIDE DEF xx, a
        <3>4. a = [initialized |-> TRUE, out |-> o, in |-> n, ops |-> xx]
            BY <2>3, <3>1, <3>2
        <3>5. WorkerRecord(a) /\ a.out = o /\ a.in = n /\ a.ops = xx
            BY <2>3, <2>4, <3>3, <3>4
        <3>6. \A c \in Counters : xx[c] = x[c] + IF IsRun(q, c) THEN 1 ELSE 0
            BY <2>5 DEF xx, IsRun
        <3>7. QED
            BY <1>2, <2>2, <2>5, <3>5, <3>6 DEF OutAfter, InAfter, a, o, n, x
    <2>6. CASE q.kind = "Store"
        <3> DEFINE oo == [o EXCEPT ![q.arg.route] = q.arg.payload]
        <3>1. a = [s EXCEPT !.out[q.arg.route] = q.arg.payload]
            BY <2>6 DEF After
        <3>2. /\ DOMAIN oo = RouteIndexes /\ oo = [r \in RouteIndexes |-> oo[r]]
              /\ \A r \in RouteIndexes : oo[r] = IF r = q.arg.route THEN q.arg.payload ELSE o[r]
            BY <2>3
        <3>3. a = [initialized |-> TRUE, out |-> oo, in |-> n, ops |-> x]
            <4> HIDE DEF a
            <4>1. s.out = o
                BY DEF o
            <4>2. a = [s EXCEPT !.out = oo]
                BY <3>1, <4>1
            <4> HIDE DEF oo
            <4>3. QED
                BY <2>3, <4>2
        <3> HIDE DEF oo, a
        <3>4. WorkerRecord(a) /\ a.out = oo /\ a.in = n /\ a.ops = x
            BY <2>3, <2>4, <3>2, <3>3
        <3>5. QED
            BY <1>2, <2>2, <2>3, <2>6, <3>2, <3>4 DEF OutAfter, InAfter, IsRun, a, o, n, x
    <2>7. CASE q.kind = "Deliver"
        <3> DEFINE nn == [n EXCEPT ![q.arg.route] = q.arg.payload]
        <3>1. a = [s EXCEPT !.in[q.arg.route] = q.arg.payload]
            BY <2>7 DEF After
        <3>2. /\ nn = [r \in RouteIndexes |-> nn[r]]
              /\ \A r \in RouteIndexes : nn[r] = IF r = q.arg.route THEN q.arg.payload ELSE n[r]
            BY <2>3
        <3>3. a = [initialized |-> TRUE, out |-> o, in |-> nn, ops |-> x]
            <4> HIDE DEF a
            <4>1. s.in = n
                BY DEF n
            <4>2. a = [s EXCEPT !.in = nn]
                BY <3>1, <4>1
            <4> HIDE DEF nn
            <4>3. QED
                BY <2>3, <4>2
        <3> HIDE DEF nn, a
        <3>4. WorkerRecord(a) /\ a.out = o /\ a.in = nn /\ a.ops = x
            BY <2>3, <2>4, <3>2, <3>3
        <3>5. QED
            BY <1>2, <2>2, <2>3, <2>7, <3>2, <3>4 DEF OutAfter, InAfter, IsRun, a, o, n, x
    <2>8. CASE q.kind = "Clear"
        <3> DEFINE e == EmptyMailbox
        <3>1. a = [s EXCEPT !.out = e, !.in = e]
            BY <2>8 DEF After, Cleared
        <3>2. e = [r \in RouteIndexes |-> e[r]] /\ \A r \in RouteIndexes : e[r] = None
            BY DEF EmptyMailbox
        <3> HIDE DEF e, a
        <3>3. a = [initialized |-> TRUE, out |-> e, in |-> e, ops |-> x]
            BY <2>3, <3>1
        <3>4. WorkerRecord(a) /\ a.out = e /\ a.in = e /\ a.ops = x
            BY <2>3, <2>4, <3>2, <3>3
        <3>5. QED
            BY <1>2, <2>2, <2>3, <2>8, <3>2, <3>4 DEF OutAfter, InAfter, IsRun, a, o, n, x
    <2>9. CASE q.kind \notin {"Run", "Store", "Deliver", "Clear"}
        <3>1. a = s
            BY <1>2, <2>9 DEF After
        <3>2. \A c \in Counters : s.ops[c] \in Nat
            BY <2>2 DEF WorkerRecord
        <3>3. QED
            BY <1>2, <2>2, <2>9, <3>1, <3>2 DEF OutAfter, InAfter, IsRun
    <2>10. QED
        BY <2>5, <2>6, <2>7, <2>8, <2>9
<1>3. QED
    BY <1>1, <1>2
-----------------------------------------------------------------------------
(* The types, the calls and the deployment.                                *)

LEMMA EmptyIsSeq == Seqs!IsSeq(<<>>) /\ Len(<<>>) = 0
<1>1. <<>> \in Seq({}) /\ Len(<<>>) = 0
    OBVIOUS
<1>2. QED
    BY <1>1, Seqs!SomeSeq

LEMMA BaseInit == Init => BaseInv
<1> SUFFICES ASSUME Init PROVE BaseInv
    OBVIOUS
<1>1. Types
    BY EmptyIsSeq DEF Init, Types, CallShape
<1>2. call = NoCall /\ call.name = "none" /\ session = FALSE
    BY DEF Init, NoCall
<1>3. QED
    BY <1>1, <1>2 DEF BaseInv, CallProgress, LoopProgress, RouteProgress, DeployOrdered, Deployed,
                      Members, Routed

LEMMA BaseSame ==
    ASSUME BaseInv,
           UNCHANGED <<ps, pending, session, call, latest, recorded, failed, gone>>
    PROVE  BaseInv'
<1>1. Types' /\ Deployed' /\ Members'
    BY DEF BaseInv, Types, CallShape, Deployed, Members
<1>2. CallProgress'
    BY DEF BaseInv, CallProgress, LoopProgress, RouteProgress, DeployOrdered
<1>3. QED
    BY <1>1, <1>2 DEF BaseInv

LEMMA NoCallProgress ==
    ASSUME call' = NoCall
    PROVE  CallProgress' /\ Deployed' /\ CallShape'
<1>1. call'.name = "none"
    BY DEF NoCall
<1>2. QED
    BY <1>1 DEF CallProgress, LoopProgress, RouteProgress, DeployOrdered, Deployed, CallShape,
                Routed

LEMMA EachWorkerIs ==
    ASSUME NEW kind, NEW arg
    PROVE  LET s == EachWorker(kind, arg)
           IN  /\ Seqs!IsSeq(s) /\ Len(s) = NumWorkers
               /\ \A i \in 1..Len(s) : s[i] = Request(i, kind, arg)
<1> DEFINE s == EachWorker(kind, arg)
           S == {Request(i, kind, arg) : i \in Workers}
<1>1. NumWorkers \in Nat /\ Workers = 1..NumWorkers
    BY SessionAssumption DEF Workers
<1>2. s \in [Workers -> S] /\ \A i \in Workers : s[i] = Request(i, kind, arg)
    BY DEF EachWorker
<1> HIDE DEF s, S
<1>3. s \in Seq(S) /\ Len(s) = NumWorkers
    BY <1>1, <1>2
<1>4. QED
    BY <1>1, <1>2, <1>3, Seqs!SomeSeq DEF s

(* A call of a deployed session begins.                                    *)
Begun(name, arg, todo, missing) ==
    /\ call = NoCall /\ session
    /\ call' = [name |-> name, arg |-> arg, todo |-> todo, missing |-> missing,
                done |-> 0, sum |-> Zeros]
    /\ UNCHANGED <<ps, pending, session, mailboxes, actions, latest, dirty, stale, gone,
                   recorded, failed>>

LEMMA BegunFields ==
    ASSUME NEW name, NEW arg, NEW todo, NEW missing, Begun(name, arg, todo, missing)
    PROVE  /\ call'.name = name /\ call'.arg = arg /\ call'.todo = todo
           /\ call'.done = 0 /\ call'.sum = Zeros
           /\ CallShape'
<1>1. call' = [name |-> name, arg |-> arg, todo |-> todo, missing |-> missing,
               done |-> 0, sum |-> Zeros]
    BY DEF Begun
<1>2. /\ call'.name = name /\ call'.arg = arg /\ call'.todo = todo /\ call'.missing = missing
      /\ call'.done = 0 /\ call'.sum = Zeros
    BY <1>1
<1>3. QED
    BY <1>1, <1>2 DEF CallShape

LEMMA BaseBegun ==
    ASSUME BaseInv, NEW name, NEW arg, NEW todo, NEW missing, Begun(name, arg, todo, missing),
           name # "Deploy", CallProgress'
    PROVE  BaseInv'
<1>1. call'.name = name /\ CallShape'
    BY BegunFields
<1>2. Types' /\ Deployed' /\ Members'
    BY <1>1 DEF BaseInv, Types, Begun, Deployed, Members
<1>3. QED
    BY <1>2 DEF BaseInv

LEMMA LoopBegins ==
    ASSUME NEW name \in {"Run", "Collect", "Clear"}, NEW arg, NEW missing,
           Begun(name, arg, EachWorker(LoopKind[name], arg), missing)
    PROVE  CallProgress'
<1> DEFINE s == EachWorker(LoopKind[name], arg)
<1>1. /\ Seqs!IsSeq(s) /\ Len(s) = NumWorkers
      /\ \A i \in 1..Len(s) : s[i] = Request(i, LoopKind[name], arg)
    BY EachWorkerIs
<1> HIDE DEF s
<1>2. call'.name = name /\ call'.arg = arg /\ call'.todo = s /\ call'.done = 0
    BY BegunFields DEF s
<1>3. NumWorkers \in Nat /\ \A i \in 1..NumWorkers : 0 + i = i
    BY SessionAssumption
<1>4. LoopProgress'
    <2>1. \A i \in 1..Len(s) : s[i] = Request(0 + i, LoopKind[name], arg)
        BY <1>1, <1>3
    <2>2. 0 \in 0..NumWorkers /\ Len(s) = NumWorkers - 0
        BY <1>1, <1>3
    <2>3. QED
        BY <1>1, <1>2, <2>1, <2>2 DEF LoopProgress
<1>5. QED
    BY <1>2, <1>4 DEF CallProgress, RouteProgress, DeployOrdered, Routed

(* The request that is next.                                               *)
LEMMA TurnOfLoop ==
    ASSUME BaseInv, call.name \in {"Run", "Collect", "Clear"}, call.todo # <<>>
    PROVE  /\ call.done \in Nat /\ call.done + 1 \in Workers
           /\ Turn = Request(call.done + 1, LoopKind[call.name], call.arg)
           /\ Turn.worker = call.done + 1 /\ Turn.arg = call.arg
           /\ Turn.kind = LoopKind[call.name]
<1> DEFINE n == Len(call.todo)
           d == call.done
<1>1. /\ d \in 0..NumWorkers /\ Seqs!IsSeq(call.todo) /\ n = NumWorkers - d
      /\ \A i \in 1..n : call.todo[i] = Request(d + i, LoopKind[call.name], call.arg)
    BY DEF BaseInv, CallProgress, LoopProgress
<1>2. n \in Nat \ {0} /\ Head(call.todo) = call.todo[1]
    BY <1>1, Seqs!TailSeq
<1> HIDE DEF n, d
<1>3. 1 \in 1..n /\ NumWorkers \in Nat
    BY <1>2, SessionAssumption
<1>4. d \in Nat /\ d + 1 \in 1..NumWorkers
    BY <1>1, <1>2, <1>3
<1>5. Turn = Request(d + 1, LoopKind[call.name], call.arg)
    BY <1>1, <1>2, <1>3 DEF Turn
<1>6. QED
    BY <1>4, <1>5 DEF Workers, Request, d

LEMMA TurnOfDeploy ==
    ASSUME BaseInv, call.name = "Deploy", call.todo # <<>>
    PROVE  /\ call.done \in Nat /\ call.done + 1 \in 1..(2 * NumWorkers)
           /\ Turn = DeployRequests[call.done + 1]
           /\ Turn.kind \in {"Init", "Health"}
           /\ \A w \in Workers : 2 * w - 1 = call.done + 1 =>
                 Turn.kind = "Init" /\ Turn.worker = w
<1> DEFINE n == Len(call.todo)
           d == call.done
           m == 2 * NumWorkers
<1>1. /\ d \in 0..m /\ Seqs!IsSeq(call.todo) /\ n = m - d
      /\ \A i \in 1..n : call.todo[i] = DeployRequests[d + i]
    BY DEF BaseInv, CallProgress, DeployOrdered
<1>2. n \in Nat \ {0} /\ Head(call.todo) = call.todo[1]
    BY <1>1, Seqs!TailSeq
<1>3. m \in Nat
    BY SessionAssumption
<1> HIDE DEF n, d, m
<1>4. 1 \in 1..n /\ d \in Nat /\ d + 1 \in 1..m
    BY <1>1, <1>2, <1>3
<1>5. Turn = DeployRequests[d + 1]
    BY <1>1, <1>2, <1>4 DEF Turn
<1>6. DeployRequests[d + 1] =
         Request(((d + 1) + 1) \div 2, IF (d + 1) % 2 = 1 THEN "Init" ELSE "Health", 0)
    BY <1>4 DEF DeployRequests, m
<1>7. Turn.kind = IF (d + 1) % 2 = 1 THEN "Init" ELSE "Health"
    BY <1>5, <1>6 DEF Request
<1>8. ASSUME NEW w \in Workers, 2 * w - 1 = d + 1
      PROVE  Turn.kind = "Init" /\ Turn.worker = w
    <2>1. w \in Nat
        BY SessionAssumption DEF Workers
    <2>2. (2 * w - 1) % 2 = 1
        BY <2>1
    <2>3. Turn.worker = w
        BY <1>5, <1>8, DeployOrder
    <2>4. QED
        BY <1>7, <1>8, <2>2, <2>3
<1>9. QED
    BY <1>4, <1>5, <1>7, <1>8 DEF d, m

LEMMA TurnOfRoute ==
    ASSUME BaseInv, call.name \in Routed, call.todo # <<>>
    PROVE  /\ call.arg.route \in RouteIndexes
           /\ Turn.kind \in {"Store", "Deliver"} /\ Turn.arg = call.arg
           /\ Turn.worker \in Workers
           /\ call.name # "Transfer" => call.done = 0 /\ Tail(call.todo) = <<>>
           /\ call.name = "Transfer" =>
                 \/ /\ call.done = 0 /\ Turn.kind = "Store"
                    /\ Turn.worker = Routes[call.arg.route].producer
                    /\ Tail(call.todo) =
                          <<Request(Routes[call.arg.route].consumer, "Deliver", call.arg)>>
                 \/ /\ call.done = 1 /\ Turn.kind = "Deliver"
                    /\ Turn.worker = Routes[call.arg.route].consumer
                    /\ Tail(call.todo) = <<>>
<1> DEFINE r == call.arg.route
           p == Routes[r].producer
           c == Routes[r].consumer
<1>1. r \in RouteIndexes /\ p \in Workers /\ c \in Workers
    BY SessionAssumption DEF BaseInv, CallProgress, RouteProgress
<1>2. CASE call.name = "Publish" \/ call.name = "Deliver"
    <2>1. PICK w \in Workers, k \in {"Store", "Deliver"} :
             call.todo = <<Request(w, k, call.arg)>> /\ call.done = 0
        BY <1>2 DEF BaseInv, CallProgress, RouteProgress
    <2>2. Turn = Request(w, k, call.arg) /\ Tail(call.todo) = <<>>
        BY <2>1 DEF Turn
    <2>3. QED
        BY <1>1, <1>2, <2>1, <2>2 DEF Request
<1>3. CASE call.name = "Transfer"
    <2> DEFINE a == Request(p, "Store", call.arg)
               b == Request(c, "Deliver", call.arg)
    <2>1. \/ call.done = 0 /\ call.todo = <<a, b>>
          \/ call.done = 1 /\ call.todo = <<b>>
        BY <1>3 DEF BaseInv, CallProgress, RouteProgress, TransferRequests
    <2>2. /\ a.kind = "Store" /\ a.worker = p /\ a.arg = call.arg
          /\ b.kind = "Deliver" /\ b.worker = c /\ b.arg = call.arg
        BY DEF Request
    <2> HIDE DEF a, b
    <2>3. CASE call.done = 0 /\ call.todo = <<a, b>>
        <3>1. Turn = a /\ Tail(call.todo) = <<b>>
            BY <2>3 DEF Turn
        <3>2. QED
            BY <1>1, <1>3, <2>2, <2>3, <3>1 DEF b
    <2>4. CASE call.done = 1 /\ call.todo = <<b>>
        <3>1. Turn = b /\ Tail(call.todo) = <<>>
            BY <2>4 DEF Turn
        <3>2. QED
            BY <1>1, <1>3, <2>2, <2>4, <3>1
    <2>5. QED
        BY <2>1, <2>3, <2>4
<1>4. QED
    BY <1>2, <1>3 DEF Routed

LEMMA TurnWorker ==
    ASSUME BaseInv, call # NoCall, call.todo # <<>>
    PROVE  /\ Turn.worker \in Workers
           /\ call.name # "Deploy" =>
                 session /\ Turn.kind \in {"Run", "Mailbox", "Store", "Deliver", "Clear"}
<1>1. call.name \in {"Deploy", "Run", "Collect", "Clear"} \cup Routed
    BY DEF BaseInv, CallProgress
<1>2. call.name # "Deploy" => session
    BY DEF BaseInv, Members
<1>3. CASE call.name = "Deploy"
    <2> DEFINE i == call.done + 1
    <2>1. Turn = DeployRequests[i] /\ i \in 1..(2 * NumWorkers)
        BY <1>3, TurnOfDeploy
    <2> HIDE DEF i
    <2>2. Turn.worker = (i + 1) \div 2
        BY <2>1 DEF DeployRequests, Request
    <2>3. NumWorkers \in Nat /\ i \in Nat /\ 1 <= i /\ i <= 2 * NumWorkers
        BY <2>1, SessionAssumption
    <2>4. (i + 1) \div 2 \in 1..NumWorkers
        BY <2>3
    <2>5. QED
        BY <1>3, <2>2, <2>4 DEF Workers
<1>4. CASE call.name \in {"Run", "Collect", "Clear"}
    BY <1>2, <1>4, TurnOfLoop DEF LoopKind
<1>5. CASE call.name \in Routed
    BY <1>2, <1>5, TurnOfRoute DEF Routed
<1>6. QED
    BY <1>1, <1>3, <1>4, <1>5

(* The worker of the next request answers it.                              *)
Answers(q, w) ==
    /\ call # NoCall /\ call.todo # <<>> /\ q = Turn /\ w = q.worker /\ w \in Workers
    /\ pending[w] = <<>> /\ Accepted(ps[w], q)
    /\ DOMAIN ps' = Workers /\ ps'[w] = After(ps[w], q)
    /\ \A v \in Workers : v # w => ps'[v] = ps[v]
    /\ call'.name = call.name /\ call'.arg = call.arg
    /\ call'.todo = Tail(call.todo) /\ call'.done = call.done + 1
    /\ call'.sum = Added(call.sum, Reported(ps[w], q))
    /\ call' # NoCall /\ CallShape'
    /\ UNCHANGED <<pending, session, actions, script, emitted, latest, dirty, gone, recorded,
                   failed>>
    /\ IF q.kind \in {"Store", "Deliver", "Mailbox", "Clear"}
       THEN /\ mailboxes' = [mailboxes EXCEPT ![w] = MailboxReport(ps'[w])]
            /\ stale' = stale \ {w}
       ELSE UNCHANGED <<mailboxes, stale>>

LEMMA AnswerIs ==
    ASSUME BaseInv, Answer
    PROVE  \E q, w : Answers(q, w)
<1> DEFINE q == Turn
           w == q.worker
<1>1. /\ call # NoCall /\ call.todo # <<>>
      /\ pending[w] = <<>> /\ Accepted(ps[w], q)
      /\ ps' = [ps EXCEPT ![w] = After(ps[w], q)]
      /\ call' = [call EXCEPT !.todo = Tail(@), !.done = @ + 1,
                              !.sum = Added(@, Reported(ps[w], q))]
      /\ UNCHANGED <<pending, session, actions, script, emitted, latest, dirty, gone, recorded,
                     failed>>
    BY DEF Answer, InCall, scriptVars
<1>2. IF q.kind \in {"Store", "Deliver", "Mailbox", "Clear"}
      THEN /\ mailboxes' = [mailboxes EXCEPT ![w] = MailboxReport(After(ps[w], q))]
           /\ stale' = stale \ {w}
      ELSE UNCHANGED <<mailboxes, stale>>
    BY DEF Answer, RecordRouteMailbox
<1>3. w \in Workers
    BY <1>1, TurnWorker
<1>4. call = [name |-> call.name, arg |-> call.arg, todo |-> call.todo,
              missing |-> call.missing, done |-> call.done, sum |-> call.sum]
    BY <1>1 DEF BaseInv, Types, CallShape
<1> HIDE DEF q, w
<1> DEFINE a == Added(call.sum, Reported(ps[w], q))
<1>5. call' = [call EXCEPT !.todo = Tail(call.todo), !.done = call.done + 1, !.sum = a]
    BY <1>1
<1> HIDE DEF a
<1>6. call' = [name |-> call.name, arg |-> call.arg, todo |-> Tail(call.todo),
               missing |-> call.missing, done |-> call.done + 1, sum |-> a]
    BY <1>4, <1>5
<1>7. /\ call'.name = call.name /\ call'.arg = call.arg /\ call'.missing = call.missing
      /\ call'.todo = Tail(call.todo) /\ call'.done = call.done + 1 /\ call'.sum = a
    BY <1>6
<1>8. CallShape'
    BY <1>6, <1>7 DEF CallShape
<1>9. call' # NoCall
    <2>1. call.name # "none"
        BY <1>1 DEF BaseInv, CallProgress, Routed
    <2>2. QED
        BY <1>7, <2>1 DEF NoCall
<1>10. DOMAIN ps' = Workers /\ ps'[w] = After(ps[w], q) /\ \A v \in Workers : v # w => ps'[v] = ps[v]
    BY <1>1, <1>3 DEF BaseInv, Types
<1>11. Answers(q, w)
    BY <1>1, <1>2, <1>3, <1>7, <1>8, <1>9, <1>10 DEF Answers, a, q, w
<1>12. QED
    BY <1>11

LEMMA AnswerProgress ==
    ASSUME BaseInv, NEW q, NEW w, Answers(q, w)
    PROVE  CallProgress'
<1> DEFINE d == call.done
           n == Len(call.todo)
<1>1. /\ call # NoCall /\ call.todo # <<>>
      /\ call'.name = call.name /\ call'.arg = call.arg
      /\ call'.todo = Tail(call.todo) /\ call'.done = d + 1
    BY DEF Answers
<1>2. CASE call.name = "Deploy"
    <2> DEFINE m == 2 * NumWorkers
    <2>1. /\ d \in 0..m /\ Seqs!IsSeq(call.todo) /\ n = m - d
          /\ \A i \in 1..n : call.todo[i] = DeployRequests[d + i]
        BY <1>2 DEF BaseInv, CallProgress, DeployOrdered
    <2>2. /\ n \in Nat \ {0} /\ Seqs!IsSeq(Tail(call.todo)) /\ Len(Tail(call.todo)) = n - 1
          /\ \A i \in 1..(n - 1) : Tail(call.todo)[i] = call.todo[i + 1]
        BY <1>1, <2>1, Seqs!TailSeq
    <2>3. m \in Nat
        BY SessionAssumption
    <2> HIDE DEF m, n, d
    <2>4. d + 1 \in 0..m /\ n - 1 = m - (d + 1)
        BY <2>1, <2>2, <2>3
    <2>5. \A i \in 1..(n - 1) : Tail(call.todo)[i] = DeployRequests[(d + 1) + i]
        <3> TAKE i \in 1..(n - 1)
        <3>1. i + 1 \in 1..n /\ d + (i + 1) = (d + 1) + i
            BY <2>1, <2>2, <2>3
        <3>2. call.todo[i + 1] = DeployRequests[d + (i + 1)]
            BY <2>1, <3>1
        <3>3. QED
            BY <2>2, <3>1, <3>2
    <2>6. DeployOrdered'
        BY <1>1, <2>2, <2>4, <2>5 DEF DeployOrdered, m
    <2>7. QED
        BY <1>1, <1>2, <2>6 DEF CallProgress, LoopProgress, RouteProgress, Routed
<1>3. CASE call.name \in {"Run", "Collect", "Clear"}
    <2> DEFINE k == LoopKind[call.name]
    <2>1. /\ d \in 0..NumWorkers /\ Seqs!IsSeq(call.todo) /\ n = NumWorkers - d
          /\ \A i \in 1..n : call.todo[i] = Request(d + i, k, call.arg)
        BY <1>3 DEF BaseInv, CallProgress, LoopProgress
    <2>2. /\ n \in Nat \ {0} /\ Seqs!IsSeq(Tail(call.todo)) /\ Len(Tail(call.todo)) = n - 1
          /\ \A i \in 1..(n - 1) : Tail(call.todo)[i] = call.todo[i + 1]
        BY <1>1, <2>1, Seqs!TailSeq
    <2>3. NumWorkers \in Nat
        BY SessionAssumption
    <2> HIDE DEF n, d, k
    <2>4. d + 1 \in 0..NumWorkers /\ n - 1 = NumWorkers - (d + 1)
        BY <2>1, <2>2, <2>3
    <2>5. \A i \in 1..(n - 1) : Tail(call.todo)[i] = Request((d + 1) + i, k, call.arg)
        <3> TAKE i \in 1..(n - 1)
        <3>1. i + 1 \in 1..n /\ d + (i + 1) = (d + 1) + i
            BY <2>1, <2>2, <2>3
        <3>2. call.todo[i + 1] = Request(d + (i + 1), k, call.arg)
            BY <2>1, <3>1
        <3>3. QED
            BY <2>2, <3>1, <3>2
    <2>6. LoopProgress'
        BY <1>1, <2>2, <2>4, <2>5 DEF LoopProgress, k
    <2>7. QED
        BY <1>1, <1>3, <2>6 DEF CallProgress, DeployOrdered, RouteProgress, Routed
<1>4. CASE call.name \in Routed
    <2>1. RouteProgress'
        <3>1. CASE call.name # "Transfer"
            <4>1. d = 0 /\ Tail(call.todo) = <<>> /\ call.arg.route \in RouteIndexes
                BY <1>1, <1>4, <3>1, TurnOfRoute
            <4>2. call'.done = 1 /\ call'.todo = <<>>
                BY <1>1, <4>1
            <4>3. QED
                BY <1>1, <3>1, <4>1, <4>2 DEF RouteProgress
        <3>2. CASE call.name = "Transfer"
            <4>1. /\ call.arg.route \in RouteIndexes
                  /\ Routes[call.arg.route].producer # Routes[call.arg.route].consumer
                BY <1>4, <3>2 DEF BaseInv, CallProgress, RouteProgress
            <4>2. \/ /\ d = 0
                     /\ Tail(call.todo) =
                          <<Request(Routes[call.arg.route].consumer, "Deliver", call.arg)>>
                  \/ d = 1 /\ Tail(call.todo) = <<>>
                BY <1>1, <1>4, <3>2, TurnOfRoute
            <4>3. \/ /\ call'.done = 1
                     /\ call'.todo =
                          <<Request(Routes[call.arg.route].consumer, "Deliver", call.arg)>>
                  \/ call'.done = 2 /\ call'.todo = <<>>
                BY <1>1, <4>2
            <4>4. QED
                BY <1>1, <3>2, <4>1, <4>3 DEF RouteProgress
        <3>3. QED
            BY <3>1, <3>2
    <2>2. QED
        BY <1>1, <1>4, <2>1 DEF CallProgress, LoopProgress, DeployOrdered, Routed
<1>5. QED
    BY <1>1, <1>2, <1>3, <1>4 DEF BaseInv, CallProgress

LEMMA BaseAnswer ==
    ASSUME BaseInv, NEW q, NEW w, Answers(q, w)
    PROVE  BaseInv'
<1>1. CallProgress'
    BY AnswerProgress
<1>2. /\ call # NoCall /\ call.todo # <<>> /\ q = Turn /\ w = q.worker /\ w \in Workers
      /\ pending[w] = <<>> /\ Accepted(ps[w], q)
      /\ DOMAIN ps' = Workers /\ ps'[w] = After(ps[w], q)
      /\ \A v \in Workers : v # w => ps'[v] = ps[v]
      /\ call'.name = call.name /\ call'.done = call.done + 1 /\ CallShape'
      /\ UNCHANGED <<pending, session, latest, gone, recorded, failed>>
    BY DEF Answers
<1>3. ps[w] = NoWorker \/ WorkerRecord(ps[w])
    BY <1>2 DEF BaseInv, Types
<1>4. /\ WorkerRecord(ps'[w])
      /\ q.kind = "Init" => ps'[w] = NewWorker
      /\ q.kind = "Health" => ps'[w] = ps[w]
    BY <1>2, <1>3, AfterIs
<1>5. Types'
    BY <1>2, <1>4 DEF BaseInv, Types
<1>6. Deployed'
    <2> SUFFICES ASSUME call.name = "Deploy"
                 PROVE  /\ ~session
                        /\ latest = EmptyMailbox /\ recorded = Zeros /\ failed = Zeros
                        /\ \A v \in Workers : 2 * v - 1 <= call.done + 1 =>
                              /\ pending[v] = <<>>
                              /\ ps'[v] = NewWorker \/ (v \in gone /\ ps'[v] = NoWorker)
        BY <1>2 DEF Deployed
    <2>1. /\ ~session
          /\ latest = EmptyMailbox /\ recorded = Zeros /\ failed = Zeros
          /\ \A v \in Workers : 2 * v - 1 <= call.done =>
                /\ pending[v] = <<>>
                /\ ps[v] = NewWorker \/ (v \in gone /\ ps[v] = NoWorker)
        BY DEF BaseInv, Deployed
    <2>2. /\ call.done \in Nat /\ q.kind \in {"Init", "Health"}
          /\ \A v \in Workers : 2 * v - 1 = call.done + 1 => q.kind = "Init" /\ w = v
        BY <1>2, TurnOfDeploy
    <2>3. ASSUME NEW v \in Workers, 2 * v - 1 <= call.done + 1
          PROVE  /\ pending[v] = <<>>
                 /\ ps'[v] = NewWorker \/ (v \in gone /\ ps'[v] = NoWorker)
        <3>1. v \in Nat
            BY SessionAssumption DEF Workers
        <3>2. CASE 2 * v - 1 <= call.done
            BY <1>2, <1>4, <2>1, <2>2, <3>2
        <3>3. CASE 2 * v - 1 = call.done + 1
            BY <1>2, <1>4, <2>2, <3>3
        <3>4. call.done \in Nat
            BY <2>2
        <3>5. 2 * v - 1 <= call.done \/ 2 * v - 1 = call.done + 1
            BY <2>3, <3>1, <3>4
        <3>6. QED
            BY <3>2, <3>3, <3>5
    <2>4. QED
        BY <2>1, <2>3
<1>7. Members'
    <2>1. ps'[w].initialized
        BY <1>4, RecordFields
    <2>2. QED
        BY <1>2, <2>1 DEF BaseInv, Members
<1>8. QED
    BY <1>1, <1>5, <1>6, <1>7 DEF BaseInv

(* A call that fails: nothing happens at the workers, or the request waits *)
(* for the next one.                                                       *)
Fails(waits) ==
    /\ call # NoCall /\ call.todo # <<>> /\ call' = NoCall
    /\ ps' = ps
    /\ DOMAIN pending' = Workers
    /\ \A v \in Workers : pending'[v] = IF waits /\ v = Turn.worker
                                        THEN Append(pending[v], Turn) ELSE pending[v]
    /\ stale' = IF waits /\ Unseen(Turn) THEN stale \cup {Turn.worker} ELSE stale
    /\ UNCHANGED <<session, mailboxes, actions, emitted, latest, gone, recorded>>
    /\ dirty' = IF waits \/ call.done > 0 THEN dirty \cup Touched ELSE dirty
    /\ failed' = IF call.name = "Run" /\ (waits \/ call.done > 0)
                 THEN Counted(failed, call.arg) ELSE failed
    /\ script' = [script EXCEPT !.phase = IF @ = "run" THEN "err" ELSE @]

LEMMA FailIs ==
    ASSUME BaseInv, Refused \/ Lost \/ Late
    PROVE  \E waits \in BOOLEAN : Fails(waits)
<1>1. DOMAIN pending = Workers
    BY DEF BaseInv, Types
<1>2. CASE Refused \/ Lost
    <2>1. Fails(FALSE)
        BY <1>1, <1>2 DEF Refused, Lost, InCall, Fail, Fails, workerVars, sessionVars
    <2>2. QED
        BY <2>1
<1>3. CASE Late
    <2>1. /\ call # NoCall /\ call.todo # <<>> /\ call' = NoCall /\ ps' = ps
          /\ pending' = [pending EXCEPT ![Turn.worker] = Append(@, Turn)]
        BY <1>3 DEF Late, InCall, Fail
    <2>2. /\ DOMAIN pending' = Workers
          /\ \A v \in Workers : pending'[v] = IF v = Turn.worker
                                              THEN Append(pending[v], Turn) ELSE pending[v]
        BY <1>1, <2>1
    <2>3. /\ stale' = IF Unseen(Turn) THEN stale \cup {Turn.worker} ELSE stale
          /\ UNCHANGED <<session, mailboxes, actions, emitted, latest, gone, recorded>>
          /\ dirty' = dirty \cup Touched
          /\ failed' = IF call.name = "Run" THEN Counted(failed, call.arg) ELSE failed
          /\ script' = [script EXCEPT !.phase = IF @ = "run" THEN "err" ELSE @]
        BY <1>3 DEF Late, Fail, Unseen, sessionVars
    <2>4. Fails(TRUE)
        BY <2>1, <2>2, <2>3 DEF Fails
    <2>5. QED
        BY <2>4
<1>4. QED
    BY <1>2, <1>3

LEMMA BaseFails ==
    ASSUME BaseInv, NEW waits \in BOOLEAN, Fails(waits)
    PROVE  BaseInv'
<1>1. /\ call # NoCall /\ call.todo # <<>> /\ call' = NoCall
      /\ UNCHANGED <<ps, session, gone>>
      /\ DOMAIN pending' = Workers
      /\ \A v \in Workers : pending'[v] = IF waits /\ v = Turn.worker
                                          THEN Append(pending[v], Turn) ELSE pending[v]
    BY DEF Fails
<1>2. CallProgress' /\ Deployed' /\ CallShape'
    BY <1>1, NoCallProgress
<1>3. \A v \in Workers : Seqs!IsSeq(pending[v])
    BY DEF BaseInv, Types
<1>4. Types'
    <2>1. \A v \in Workers : Seqs!IsSeq(Append(pending[v], Turn))
        BY <1>3, Seqs!AppendSeq
    <2>2. \A v \in Workers : Seqs!IsSeq(pending'[v])
        BY <1>1, <1>3, <2>1
    <2>3. QED
        BY <1>1, <1>2, <2>2 DEF BaseInv, Types
<1>5. Members'
    <2> SUFFICES ASSUME session, NEW v \in Workers
                 PROVE  /\ ps[v].initialized \/ v \in gone
                        /\ \A i \in 1..Len(pending'[v]) : pending'[v][i].kind # "Init"
        BY <1>1 DEF Members
    <2>1. /\ ps[v].initialized \/ v \in gone
          /\ \A i \in 1..Len(pending[v]) : pending[v][i].kind # "Init"
        BY DEF BaseInv, Members
    <2>2. Turn.kind # "Init"
        BY <1>1, TurnWorker DEF BaseInv, Deployed
    <2>3. \A i \in 1..Len(Append(pending[v], Turn)) : Append(pending[v], Turn)[i].kind # "Init"
        <3> DEFINE n == Len(pending[v])
                   s == Append(pending[v], Turn)
        <3>1. /\ n \in Nat /\ Len(s) = n + 1 /\ s[n + 1] = Turn
              /\ \A i \in 1..n : s[i] = pending[v][i]
            BY <1>3, Seqs!AppendSeq, Seqs!LenSeq
        <3> HIDE DEF n, s
        <3>2. \A i \in 1..(n + 1) : i \in 1..n \/ i = n + 1
            BY <3>1
        <3>3. QED
            BY <2>1, <2>2, <3>1, <3>2 DEF n, s
    <2>4. QED
        BY <1>1, <2>1, <2>3
<1>6. QED
    BY <1>2, <1>4, <1>5 DEF BaseInv

(* The deployment has been through all workers.                            *)
LEMMA DeployComplete ==
    ASSUME BaseInv, call.name = "Deploy", call.todo = <<>>
    PROVE  /\ latest = EmptyMailbox /\ recorded = Zeros /\ failed = Zeros
           /\ \A w \in Workers : /\ pending[w] = <<>>
                                 /\ ps[w] = NewWorker \/ (w \in gone /\ ps[w] = NoWorker)
<1>1. /\ call.done \in 0..(2 * NumWorkers) /\ Len(call.todo) = 2 * NumWorkers - call.done
      /\ Len(call.todo) = 0 /\ NumWorkers \in Nat
    BY EmptyIsSeq, SessionAssumption DEF BaseInv, CallProgress, DeployOrdered
<1>2. call.done = 2 * NumWorkers
    BY <1>1
<1>3. \A w \in Workers : 2 * w - 1 <= call.done
    BY <1>1, <1>2 DEF Workers
<1>4. QED
    BY <1>3 DEF BaseInv, Deployed

LEMMA BaseReturn ==
    ASSUME BaseInv, Return
    PROVE  BaseInv'
<1>1. /\ call # NoCall /\ call.todo = <<>> /\ call' = NoCall /\ UNCHANGED <<ps, pending, gone>>
      /\ ReturnDeploy \/ ReturnAction \/ ReturnMailboxes
    BY DEF Return, InCall, workerVars
<1>2. CallProgress' /\ Deployed' /\ CallShape'
    BY <1>1, NoCallProgress
<1>3. CASE ReturnDeploy
    <2>1. session' = TRUE /\ call.name = "Deploy"
        BY <1>3 DEF ReturnDeploy
    <2>2. Types'
        BY <1>1, <1>2, <2>1 DEF BaseInv, Types
    <2>3. \A w \in Workers : ps[w].initialized \/ w \in gone
        BY <1>1, <2>1, DeployComplete, NewRecord, RecordFields
    <2>4. \A w \in Workers : \A i \in 1..Len(pending[w]) : pending[w][i].kind # "Init"
        BY <1>1, <2>1, DeployComplete, EmptyIsSeq
    <2>5. Members'
        BY <1>1, <2>1, <2>3, <2>4 DEF Members
    <2>6. QED
        BY <1>2, <2>2, <2>5 DEF BaseInv
<1>4. CASE ReturnAction \/ ReturnMailboxes
    <2>1. session' = session
        BY <1>4 DEF ReturnAction, ReturnMailboxes, sessionVars
    <2>2. Types' /\ Members'
        BY <1>1, <1>2, <2>1 DEF BaseInv, Types, Members
    <2>3. QED
        BY <1>2, <2>2 DEF BaseInv
<1>5. QED
    BY <1>1, <1>3, <1>4

(* A worker reads a request whose caller has left.                         *)
Reads(w, q, n) ==
    /\ w \in Workers /\ n \in Nat \ {0} /\ Len(pending[w]) = n /\ q = pending[w][1]
    /\ DOMAIN ps' = Workers /\ DOMAIN pending' = Workers
    /\ ps'[w] = IF Accepted(ps[w], q) THEN After(ps[w], q) ELSE ps[w]
    /\ Seqs!IsSeq(pending'[w]) /\ Len(pending'[w]) = n - 1
    /\ \A i \in 1..(n - 1) : i + 1 \in 1..n /\ pending'[w][i] = pending[w][i + 1]
    /\ \A v \in Workers : v # w => ps'[v] = ps[v] /\ pending'[v] = pending[v]
    /\ UNCHANGED <<session, mailboxes, actions, call, script, emitted, latest, dirty, stale, gone,
                   recorded, failed>>
    /\ pending[w] # <<>>

LEMMA ReadIs ==
    ASSUME BaseInv, NEW w \in Workers, CatchUp(w)
    PROVE  \E q, n : Reads(w, q, n)
<1> DEFINE s == pending[w]
           n == Len(s)
           q == Head(s)
<1>1. /\ s # <<>>
      /\ ps' = [ps EXCEPT ![w] = Handled(ps[w], q)]
      /\ pending' = [pending EXCEPT ![w] = Tail(s)]
      /\ UNCHANGED <<session, mailboxes, actions, call, script, emitted, latest, dirty, stale,
                     gone, recorded, failed>>
    BY DEF CatchUp, sessionVars, scriptVars, history
<1>2. DOMAIN ps = Workers /\ DOMAIN pending = Workers /\ Seqs!IsSeq(s)
    BY DEF BaseInv, Types
<1>3. /\ Seqs!IsSeq(Tail(s)) /\ n \in Nat \ {0} /\ Len(Tail(s)) = n - 1
      /\ \A i \in 1..(n - 1) : Tail(s)[i] = s[i + 1]
      /\ q = s[1]
    BY <1>1, <1>2, Seqs!TailSeq
<1>4. /\ DOMAIN ps' = Workers /\ ps'[w] = Handled(ps[w], q)
      /\ \A v \in Workers : v # w => ps'[v] = ps[v]
    BY <1>1, <1>2
<1>5. /\ DOMAIN pending' = Workers /\ pending'[w] = Tail(s)
      /\ \A v \in Workers : v # w => pending'[v] = pending[v]
    BY <1>1, <1>2
<1> HIDE DEF n, q
<1>6. \A i \in 1..(n - 1) : i + 1 \in 1..n
    BY <1>3
<1>7. ps'[w] = IF Accepted(ps[w], q) THEN After(ps[w], q) ELSE ps[w]
    BY <1>4 DEF Handled
<1>8. Len(pending[w]) = n
    BY DEF n
<1>9. Reads(w, q, n)
    BY <1>1, <1>3, <1>4, <1>5, <1>6, <1>7, <1>8 DEF Reads
<1>10. QED
    BY <1>9

LEMMA BaseReads ==
    ASSUME BaseInv, NEW w, NEW q, NEW n, Reads(w, q, n)
    PROVE  BaseInv'
<1>1. /\ w \in Workers /\ n \in Nat \ {0} /\ Len(pending[w]) = n /\ q = pending[w][1]
      /\ DOMAIN ps' = Workers /\ DOMAIN pending' = Workers
      /\ ps'[w] = IF Accepted(ps[w], q) THEN After(ps[w], q) ELSE ps[w]
      /\ Seqs!IsSeq(pending'[w]) /\ Len(pending'[w]) = n - 1
      /\ \A i \in 1..(n - 1) : i + 1 \in 1..n /\ pending'[w][i] = pending[w][i + 1]
      /\ \A v \in Workers : v # w => ps'[v] = ps[v] /\ pending'[v] = pending[v]
      /\ UNCHANGED <<session, call, latest, gone, recorded, failed>>
      /\ pending[w] # <<>>
    BY DEF Reads
<1>2. ps[w] = NoWorker \/ WorkerRecord(ps[w])
    BY <1>1 DEF BaseInv, Types
<1>3. ps'[w] = NoWorker \/ WorkerRecord(ps'[w])
    BY <1>1, <1>2, AfterIs
<1>4. Types'
    BY <1>1, <1>3 DEF BaseInv, Types, CallShape
<1>5. CallProgress'
    BY <1>1 DEF BaseInv, CallProgress, LoopProgress, RouteProgress, DeployOrdered
<1>6. Deployed'
    BY <1>1 DEF BaseInv, Deployed
<1>7. Members'
    <2>1. ps[w].initialized => ps'[w].initialized
        <3>1. CASE Accepted(ps[w], q)
            <4>1. WorkerRecord(ps'[w])
                BY <1>1, <1>2, <3>1, AfterIs
            <4>2. QED
                BY <4>1, RecordFields
        <3>2. CASE ~Accepted(ps[w], q)
            BY <1>1, <3>2
        <3>3. QED
            BY <3>1, <3>2
    <2>2. session => \A i \in 1..(n - 1) : pending'[w][i].kind # "Init"
        BY <1>1 DEF BaseInv, Members
    <2>3. QED
        BY <1>1, <2>1, <2>2 DEF BaseInv, Members
<1>8. QED
    BY <1>4, <1>5, <1>6, <1>7 DEF BaseInv

(* A worker's process ends.                                                *)
Ends(w) ==
    /\ w \in Workers
    /\ DOMAIN ps' = Workers /\ DOMAIN pending' = Workers
    /\ ps'[w] = NoWorker /\ pending'[w] = <<>>
    /\ \A v \in Workers : v # w => ps'[v] = ps[v] /\ pending'[v] = pending[v]
    /\ gone' = gone \cup {w}
    /\ UNCHANGED <<session, mailboxes, actions, call, script, emitted, latest, dirty, stale,
                   recorded, failed>>

LEMMA EndIs ==
    ASSUME BaseInv, NEW w \in Workers, Crash(w)
    PROVE  Ends(w)
BY DEF BaseInv, Types, Crash, Ends, sessionVars, scriptVars

LEMMA BaseEnds ==
    ASSUME BaseInv, NEW w, Ends(w)
    PROVE  BaseInv'
<1>1. /\ w \in Workers
      /\ DOMAIN ps' = Workers /\ DOMAIN pending' = Workers
      /\ ps'[w] = NoWorker /\ pending'[w] = <<>>
      /\ \A v \in Workers : v # w => ps'[v] = ps[v] /\ pending'[v] = pending[v]
      /\ gone' = gone \cup {w}
      /\ UNCHANGED <<session, call, latest, recorded, failed>>
    BY DEF Ends
<1>2. Seqs!IsSeq(pending'[w]) /\ Len(pending'[w]) = 0
    BY <1>1, EmptyIsSeq
<1>3. Types'
    BY <1>1, <1>2 DEF BaseInv, Types, CallShape
<1>4. CallProgress'
    BY <1>1 DEF BaseInv, CallProgress, LoopProgress, RouteProgress, DeployOrdered
<1>5. Deployed'
    BY <1>1 DEF BaseInv, Deployed
<1>6. Members'
    BY <1>1, <1>2 DEF BaseInv, Members
<1>7. QED
    BY <1>3, <1>4, <1>5, <1>6 DEF BaseInv

(* A call the owner makes of a deployed session.                           *)
OwnersCall(name, arg, todo, missing) ==
    /\ Begun(name, arg, todo, missing) /\ name # "Deploy"
    /\ CallProgress'
    /\ script.phase # "run" /\ UNCHANGED <<script, emitted>>

LEMMA BeginIs ==
    ASSUME NEW name, NEW arg, NEW todo, NEW missing, session, UNCHANGED history,
           Begin(name, arg, todo, missing)
    PROVE  Begun(name, arg, todo, missing) /\ script.phase # "run" /\ UNCHANGED <<script, emitted>>
BY DEF Begin, Begun, Free, workerVars, sessionVars, scriptVars, history

LEMMA RouteBegins ==
    ASSUME NEW name \in Routed, NEW arg, NEW todo, NEW missing, Begun(name, arg, todo, missing),
           arg.route \in RouteIndexes,
           name = "Publish" => \E w \in Workers : todo = <<Request(w, "Store", arg)>>,
           name = "Deliver" => \E w \in Workers : todo = <<Request(w, "Deliver", arg)>>,
           name = "Transfer" => /\ Routes[arg.route].producer # Routes[arg.route].consumer
                                /\ todo = TransferRequests(arg)
    PROVE  CallProgress'
<1>1. call'.name = name /\ call'.arg = arg /\ call'.todo = todo /\ call'.done = 0
    BY BegunFields
<1>2. RouteProgress'
    BY <1>1 DEF RouteProgress
<1>3. QED
    BY <1>1, <1>2 DEF CallProgress, LoopProgress, DeployOrdered, Routed

LEMMA CallBegins ==
    ASSUME \/ RunAction \/ CollectRouteMailboxes \/ ClearRouteMailboxes
           \/ PublishOutbound \/ DeliverInbound \/ TransferRoute
    PROVE  \E name, arg, todo, missing : OwnersCall(name, arg, todo, missing)
<1>0. LoopKind["Run"] = "Run" /\ LoopKind["Collect"] = "Mailbox" /\ LoopKind["Clear"] = "Clear"
    BY DEF LoopKind
<1>1. CASE RunAction
    <2>1. PICK k \in Kinds, m \in Missing : Begin("Run", k, EachWorker("Run", k), m)
        BY <1>1 DEF RunAction
    <2>2. /\ Begun("Run", k, EachWorker("Run", k), m)
          /\ script.phase # "run" /\ UNCHANGED <<script, emitted>>
        BY <1>1, <2>1, BeginIs DEF RunAction
    <2>3. CallProgress'
        BY <1>0, <2>2, LoopBegins
    <2>4. QED
        BY <2>2, <2>3 DEF OwnersCall
<1>2. CASE CollectRouteMailboxes
    <2>1. PICK m \in Missing : Begin("Collect", 0, EachWorker("Mailbox", 0), m)
        BY <1>2 DEF CollectRouteMailboxes
    <2>2. /\ Begun("Collect", 0, EachWorker("Mailbox", 0), m)
          /\ script.phase # "run" /\ UNCHANGED <<script, emitted>>
        BY <1>2, <2>1, BeginIs DEF CollectRouteMailboxes
    <2>3. CallProgress'
        BY <1>0, <2>2, LoopBegins
    <2>4. QED
        BY <2>2, <2>3 DEF OwnersCall
<1>3. CASE ClearRouteMailboxes
    <2>1. PICK m \in Missing : Begin("Clear", 0, EachWorker("Clear", 0), m)
        BY <1>3 DEF ClearRouteMailboxes
    <2>2. /\ Begun("Clear", 0, EachWorker("Clear", 0), m)
          /\ script.phase # "run" /\ UNCHANGED <<script, emitted>>
        BY <1>3, <2>1, BeginIs DEF ClearRouteMailboxes
    <2>3. CallProgress'
        BY <1>0, <2>2, LoopBegins
    <2>4. QED
        BY <2>2, <2>3 DEF OwnersCall
<1>4. CASE PublishOutbound
    <2>1. PICK w \in Workers, r \in RouteIndexes, width \in Widths, limbs \in Payloads :
              Begin("Publish", RoutePayload(r, width, limbs),
                    <<Request(w, "Store", RoutePayload(r, width, limbs))>>, {})
        BY <1>4 DEF PublishOutbound
    <2> DEFINE arg == RoutePayload(r, width, limbs)
    <2>2. /\ Begun("Publish", arg, <<Request(w, "Store", arg)>>, {})
          /\ script.phase # "run" /\ UNCHANGED <<script, emitted>>
        BY <1>4, <2>1, BeginIs DEF PublishOutbound
    <2>3. arg.route = r
        BY DEF RoutePayload
    <2> HIDE DEF arg
    <2>4. CallProgress'
        BY <2>2, <2>3, RouteBegins DEF Routed
    <2>5. QED
        BY <2>2, <2>4 DEF OwnersCall
<1>5. CASE DeliverInbound
    <2>1. PICK w \in Workers, r \in RouteIndexes, width \in Widths, limbs \in Payloads :
              Begin("Deliver", RoutePayload(r, width, limbs),
                    <<Request(w, "Deliver", RoutePayload(r, width, limbs))>>, {})
        BY <1>5 DEF DeliverInbound
    <2> DEFINE arg == RoutePayload(r, width, limbs)
    <2>2. /\ Begun("Deliver", arg, <<Request(w, "Deliver", arg)>>, {})
          /\ script.phase # "run" /\ UNCHANGED <<script, emitted>>
        BY <1>5, <2>1, BeginIs DEF DeliverInbound
    <2>3. arg.route = r
        BY DEF RoutePayload
    <2> HIDE DEF arg
    <2>4. CallProgress'
        BY <2>2, <2>3, RouteBegins DEF Routed
    <2>5. QED
        BY <2>2, <2>4 DEF OwnersCall
<1>6. CASE TransferRoute
    <2>1. PICK r \in RouteIndexes, limbs \in Payloads, m \in Missing :
              /\ Routes[r].producer # Routes[r].consumer
              /\ Begin("Transfer", RoutePayload(r, Routes[r].width, limbs),
                       TransferRequests(RoutePayload(r, Routes[r].width, limbs)), m)
        BY <1>6 DEF TransferRoute
    <2> DEFINE arg == RoutePayload(r, Routes[r].width, limbs)
    <2>2. /\ Begun("Transfer", arg, TransferRequests(arg), m)
          /\ script.phase # "run" /\ UNCHANGED <<script, emitted>>
        BY <1>6, <2>1, BeginIs DEF TransferRoute
    <2>3. arg.route = r
        BY DEF RoutePayload
    <2> HIDE DEF arg
    <2>4. CallProgress'
        BY <2>1, <2>2, <2>3, RouteBegins DEF Routed
    <2>5. QED
        BY <2>2, <2>4 DEF OwnersCall
<1>7. QED
    BY <1>1, <1>2, <1>3, <1>4, <1>5, <1>6

(* The deployment begins, with nothing of an earlier session held against  *)
(* the workers.                                                            *)
DeployBegun ==
    /\ call = NoCall /\ ~session
    /\ call'.name = "Deploy" /\ call'.done = 0 /\ call' # NoCall
    /\ script.phase # "run" /\ UNCHANGED <<script, emitted>>
    /\ UNCHANGED <<ps, pending, session, mailboxes, actions>>
    /\ latest' = EmptyMailbox /\ dirty' = {} /\ stale' = {} /\ gone' = {}
    /\ recorded' = Zeros /\ failed' = Zeros
    /\ CallShape' /\ CallProgress'

LEMMA DeployIs ==
    ASSUME Deploy
    PROVE  DeployBegun
<1>1. PICK m \in Missing : Begin("Deploy", 0, DeployRequests, m)
    BY DEF Deploy
<1>2. /\ call = NoCall /\ ~session /\ script.phase # "run" /\ UNCHANGED <<script, emitted>>
      /\ UNCHANGED <<ps, pending, session, mailboxes, actions>>
      /\ latest' = EmptyMailbox /\ dirty' = {} /\ stale' = {} /\ gone' = {}
      /\ recorded' = Zeros /\ failed' = Zeros
    BY <1>1 DEF Begin, Deploy, Free, workerVars, sessionVars, scriptVars
<1>3. call' = [name |-> "Deploy", arg |-> 0, todo |-> DeployRequests, missing |-> m,
               done |-> 0, sum |-> Zeros]
    BY <1>1 DEF Begin
<1>4. CallShape' /\ call'.name = "Deploy" /\ call'.done = 0 /\ call'.todo = DeployRequests
    BY <1>3 DEF CallShape
<1>5. call' # NoCall
    BY <1>4 DEF NoCall
<1> DEFINE n == 2 * NumWorkers
           S == {DeployRequests[i] : i \in 1..n}
<1>6. n \in Nat
    BY SessionAssumption
<1>7. DeployRequests \in [1..n -> S]
    <2>1. DeployRequests = [i \in 1..n |-> DeployRequests[i]]
        BY DEF DeployRequests
    <2>2. QED
        BY <2>1
<1> HIDE DEF n, S
<1>8. DeployRequests \in Seq(S) /\ Len(DeployRequests) = n
    BY <1>6, <1>7
<1>9. Seqs!IsSeq(DeployRequests)
    BY <1>8, Seqs!SomeSeq
<1>10. DeployOrdered'
    <2>1. 0 \in 0..n /\ n = n - 0 /\ \A i \in 1..n : 0 + i = i
        BY <1>6
    <2>2. \A i \in 1..n : DeployRequests[i] = DeployRequests[0 + i]
        BY <2>1
    <2>3. QED
        BY <1>4, <1>8, <1>9, <2>1, <2>2 DEF DeployOrdered, n
<1>11. CallProgress'
    BY <1>4, <1>10 DEF CallProgress, LoopProgress, RouteProgress, Routed
<1>12. QED
    BY <1>2, <1>4, <1>5, <1>11 DEF DeployBegun

LEMMA BaseDeploy ==
    ASSUME BaseInv, DeployBegun
    PROVE  BaseInv'
<1>1. \A w \in Workers : ~(2 * w - 1 <= 0)
    BY SessionAssumption DEF Workers
<1>2. Types' /\ Members'
    BY DEF BaseInv, Types, Members, DeployBegun
<1>3. Deployed'
    BY <1>1 DEF Deployed, DeployBegun
<1>4. QED
    BY <1>2, <1>3 DEF BaseInv, DeployBegun

(* The action of a script.                                                 *)
LEMMA ScriptActionIs ==
    ASSUME ScriptAction, script.phase = "run" => session
    PROVE  \E k, missing : /\ Begun("Run", k, EachWorker("Run", k), missing)
                           /\ CallProgress'
<1> DEFINE k == Head(script.todo)
<1>1. Begun("Run", k, EachWorker("Run", k), script.missing)
    BY DEF ScriptAction, Running, Begun, workerVars, sessionVars, history
<1>2. LoopKind["Run"] = "Run"
    BY DEF LoopKind
<1> HIDE DEF k
<1>3. CallProgress'
    BY <1>1, <1>2, LoopBegins
<1>4. QED
    BY <1>1, <1>3

-----------------------------------------------------------------------------
(* Scripts and their telemetry.                                            *)

LEMMA ScriptInit == Init => ScriptInv
<1> SUFFICES ASSUME Init PROVE ScriptInv
    OBVIOUS
<1>1. /\ script = NoScript /\ script.phase = "none" /\ emitted = <<>> /\ actions = <<>>
      /\ Seqs!IsSeq(<<>>) /\ Len(<<>>) = 0
    BY EmptyIsSeq DEF Init, NoScript
<1>2. EmittedInOrder
    BY <1>1 DEF EmittedInOrder
<1>3. QED
    BY <1>1, <1>2 DEF ScriptInv, ScriptShape, ScriptRuns, EmittedSoFar, EmittedAll

(* Nothing happens to a script that does not run.                          *)
LEMMA ScriptIdle ==
    ASSUME ScriptInv, script.phase # "run", UNCHANGED <<script, emitted>>, Seqs!IsSeq(actions')
    PROVE  ScriptInv'
<1>1. ScriptShape' /\ ScriptRuns' /\ EmittedSoFar' /\ EmittedInOrder'
    BY DEF ScriptInv, ScriptShape, ScriptRuns, EmittedSoFar, EmittedInOrder
<1>2. EmittedAll'
    BY DEF ScriptInv, EmittedAll, Emitted
<1>3. QED
    BY <1>1, <1>2 DEF ScriptInv

(* Nothing happens to the script of the call in progress.                  *)
LEMMA ScriptKept ==
    ASSUME ScriptInv, UNCHANGED <<script, emitted, session, actions>>,
           call' = NoCall <=> call = NoCall, call'.name = call.name
    PROVE  ScriptInv'
<1>1. ScriptShape' /\ EmittedInOrder' /\ Seqs!IsSeq(actions')
    BY DEF ScriptInv, ScriptShape, EmittedInOrder
<1>2. Emitted' = Emitted /\ \A c : Periodic(c)' <=> Periodic(c)
    BY DEF Emitted, Periodic
<1>3. EmittedSoFar'
    BY <1>2 DEF ScriptInv, EmittedSoFar
<1>4. EmittedAll'
    BY <1>2 DEF ScriptInv, EmittedAll
<1>5. ScriptRuns'
    BY <1>2 DEF ScriptInv, ScriptRuns
<1>6. QED
    BY <1>1, <1>3, <1>4, <1>5 DEF ScriptInv

(* The script ends with an error.                                          *)
LEMMA ScriptFails ==
    ASSUME ScriptInv, UNCHANGED <<emitted, actions>>,
           script' = [script EXCEPT !.phase = "err"], script.phase # "none"
    PROVE  ScriptInv'
<1>1. script = [phase |-> script.phase, todo |-> script.todo, every |-> script.every,
                final |-> script.final, missing |-> script.missing,
                completed |-> script.completed, last |-> script.last, due |-> script.due,
                length |-> script.length, initial |-> script.initial, base |-> script.base]
    BY DEF ScriptInv, ScriptShape
<1>2. script' = [phase |-> "err", todo |-> script.todo, every |-> script.every,
                final |-> script.final, missing |-> script.missing,
                completed |-> script.completed, last |-> script.last, due |-> script.due,
                length |-> script.length, initial |-> script.initial, base |-> script.base]
    BY <1>1
<1>3. script'.phase = "err" /\ script'.base = script.base /\ ScriptShape'
    BY <1>2 DEF ScriptShape
<1>4. EmittedInOrder'
    BY <1>3 DEF ScriptInv, EmittedInOrder
<1>5. QED
    BY <1>3, <1>4 DEF ScriptInv, ScriptRuns, EmittedSoFar, EmittedAll

LEMMA ScriptOfFails ==
    ASSUME ScriptInv, NEW waits \in BOOLEAN, Fails(waits)
    PROVE  ScriptInv'
<1>1. /\ UNCHANGED <<emitted, actions>>
      /\ script' = [script EXCEPT !.phase = IF @ = "run" THEN "err" ELSE @]
    BY DEF Fails
<1>2. CASE script.phase = "run"
    <2>1. script' = [script EXCEPT !.phase = "err"]
        BY <1>1, <1>2
    <2>2. QED
        BY <1>1, <1>2, <2>1, ScriptFails
<1>3. CASE script.phase # "run"
    <2>1. script' = [script EXCEPT !.phase = script.phase]
        BY <1>1, <1>3
    <2>2. script' = script
        <3>1. CASE script.phase = "none"
            BY <2>1, <3>1 DEF ScriptInv, ScriptShape, NoScript
        <3>2. CASE script.phase # "none"
            BY <2>1, <3>2 DEF ScriptInv, ScriptShape
        <3>3. QED
            BY <3>1, <3>2
    <2>3. QED
        BY <1>1, <1>3, <2>2, ScriptIdle DEF ScriptInv
<1>4. QED
    BY <1>2, <1>3

(* A script begins.                                                        *)
LEMMA ScriptStarts ==
    ASSUME ScriptInv, StartScript
    PROVE  ScriptInv'
<1>1. PICK todo \in Scripts, every \in 0..MaxEvery, initial \in BOOLEAN, final \in BOOLEAN,
           m \in Missing :
          script' = [phase |-> IF every = 0 THEN "err" ELSE "run",
                     todo |-> todo, every |-> every, final |-> final, missing |-> m,
                     completed |-> 0, last |-> -1,
                     due |-> IF initial THEN "Initial" ELSE "no",
                     length |-> Len(todo), initial |-> initial, base |-> Len(actions)]
    BY DEF StartScript
<1>2. /\ session /\ call = NoCall /\ emitted' = <<>> /\ UNCHANGED <<session, actions, call>>
    BY DEF StartScript, Free, sessionVars
<1> DEFINE n == Len(todo)
           b == Len(actions)
<1>3. Seqs!IsSeq(todo) /\ Seqs!IsSeq(actions) /\ n \in Nat /\ b \in Nat
    <2>1. todo \in Seq(ActionKinds)
        BY SessionAssumption
    <2>2. QED
        BY <2>1, Seqs!SomeSeq, Seqs!LenSeq DEF ScriptInv
<1>4. /\ script'.phase = IF every = 0 THEN "err" ELSE "run"
      /\ script'.todo = todo /\ script'.every = every /\ script'.final = final
      /\ script'.missing = m /\ script'.completed = 0 /\ script'.last = -1
      /\ script'.due = IF initial THEN "Initial" ELSE "no"
      /\ script'.length = n /\ script'.initial = initial /\ script'.base = b
    BY <1>1
<1>5. ScriptShape'
    BY <1>1, <1>4 DEF ScriptShape
<1> HIDE DEF n, b
<1>6. EmittedInOrder'
    BY <1>2, <1>4, EmptyIsSeq DEF EmittedInOrder
<1>7. Emitted' = {}
    <2>1. DOMAIN emitted' = {}
        BY <1>2
    <2>2. QED
        BY <2>1 DEF Emitted
<1>8. ScriptRuns'
    <2>1. Periodic(0)' <=> initial
        BY <1>4 DEF Periodic
    <2>2. every \in Nat /\ 0 + n + 0 = n /\ b = b + 0
        BY <1>3, SessionAssumption
    <2>3. every # 0 => every \in Nat \ {0}
        BY <2>2
    <2>4. script'.phase = "run" =>
             /\ script'.length = script'.completed + Len(script'.todo) + IF call' = NoCall THEN 0 ELSE 1
             /\ Len(actions') = script'.base + script'.completed
        BY <1>2, <1>3, <1>4, <2>2 DEF n, b
    <2>5. (script'.due \in {"Initial", "Cadence"}) => Periodic(script.completed)'
        BY <1>4, <2>1 DEF Periodic
    <2>6. QED
        BY <1>2, <1>3, <1>4, <1>7, <2>3, <2>4, <2>5 DEF ScriptRuns
<1>9. EmittedSoFar'
    <2>1. \A c \in 0..0 : c = 0
        OBVIOUS
    <2>2. QED
        BY <1>4, <1>7, <2>1 DEF EmittedSoFar, Periodic
<1>10. EmittedAll'
    BY <1>4 DEF EmittedAll
<1>11. QED
    BY <1>2, <1>3, <1>5, <1>6, <1>8, <1>9, <1>10 DEF ScriptInv

(* The fields of a script that runs.                                       *)
LEMMA RunningFields ==
    ASSUME ScriptInv, script.phase = "run"
    PROVE  /\ script = [phase |-> "run", todo |-> script.todo, every |-> script.every,
                        final |-> script.final, missing |-> script.missing,
                        completed |-> script.completed, last |-> script.last, due |-> script.due,
                        length |-> script.length, initial |-> script.initial, base |-> script.base]
           /\ script.every \in Nat \ {0} /\ script.completed \in Nat /\ script.length \in Nat
           /\ script.base \in Nat /\ Seqs!IsSeq(script.todo) /\ Len(script.todo) \in Nat
           /\ script.initial \in BOOLEAN /\ script.final \in BOOLEAN
           /\ script.last \in Int
           /\ Seqs!IsSeq(emitted) /\ Len(emitted) \in Nat /\ DOMAIN emitted = 1..Len(emitted)
           /\ Emitted \subseteq Nat
<1>1. /\ script.every \in Nat \ {0} /\ script.completed \in Nat /\ script.length \in Nat
      /\ script.base \in Nat /\ Seqs!IsSeq(script.todo)
      /\ script.initial \in BOOLEAN /\ script.final \in BOOLEAN
      /\ script.last \in Emitted \/ (script.last = -1 /\ emitted = <<>>)
      /\ Seqs!IsSeq(emitted)
    BY DEF ScriptInv, ScriptRuns, EmittedInOrder
<1>2. Len(script.todo) \in Nat /\ Len(emitted) \in Nat
    BY <1>1, Seqs!LenSeq
<1>3. DOMAIN emitted = 1..Len(emitted)
    <2>1. emitted \in Seq(Seqs!Range(emitted))
        BY <1>1 DEF Seqs!IsSeq
    <2> HIDE DEF Seqs!Range
    <2>2. QED
        BY <2>1
<1>4. Emitted \subseteq Nat
    BY <1>3 DEF ScriptInv, EmittedInOrder, Emitted
<1>5. script.last \in Int
    <2>1. CASE script.last \in Emitted
        <3>1. script.last \in Nat
            BY <1>4, <2>1
        <3>2. QED
            BY <3>1
    <2>2. CASE script.last = -1
        BY <2>2
    <2>3. QED
        BY <1>1, <2>1, <2>2
<1>6. script = [phase |-> "run", todo |-> script.todo, every |-> script.every,
                final |-> script.final, missing |-> script.missing,
                completed |-> script.completed, last |-> script.last, due |-> script.due,
                length |-> script.length, initial |-> script.initial, base |-> script.base]
    BY DEF ScriptInv, ScriptShape
<1>7. QED
    BY <1>1, <1>2, <1>3, <1>4, <1>5, <1>6

(* The next action of the script begins.                                   *)
LEMMA ScriptTakes ==
    ASSUME ScriptInv, ScriptAction
    PROVE  ScriptInv'
<1>1. /\ script.phase = "run" /\ call = NoCall /\ script.due = "no" /\ script.todo # <<>>
      /\ script' = [script EXCEPT !.todo = Tail(script.todo)]
      /\ call' = [name |-> "Run", arg |-> Head(script.todo),
                  todo |-> EachWorker("Run", Head(script.todo)),
                  missing |-> script.missing, done |-> 0, sum |-> Zeros]
      /\ UNCHANGED <<emitted, session, actions>>
    BY DEF ScriptAction, Running, sessionVars
<1> DEFINE t == Tail(script.todo)
           n == Len(script.todo)
<1>2. Seqs!IsSeq(t) /\ n \in Nat \ {0} /\ Len(t) = n - 1
    BY <1>1, RunningFields, Seqs!TailSeq
<1> HIDE DEF t
<1>3. script' = [phase |-> "run", todo |-> t, every |-> script.every,
                 final |-> script.final, missing |-> script.missing,
                 completed |-> script.completed, last |-> script.last, due |-> script.due,
                 length |-> script.length, initial |-> script.initial, base |-> script.base]
    BY <1>1, RunningFields DEF t
<1>4. /\ script'.phase = "run" /\ script'.todo = t /\ script'.every = script.every
      /\ script'.final = script.final /\ script'.completed = script.completed
      /\ script'.last = script.last /\ script'.due = "no" /\ script'.length = script.length
      /\ script'.initial = script.initial /\ script'.base = script.base
    BY <1>1, <1>3
<1>5. ScriptShape'
    BY <1>3, <1>4 DEF ScriptShape
<1>6. call'.name = "Run" /\ call' # NoCall
    <2>1. call'.name = "Run"
        BY <1>1
    <2>2. QED
        BY <2>1 DEF NoCall
<1>7. Emitted' = Emitted /\ \A c : Periodic(c)' <=> Periodic(c)
    BY <1>1, <1>4 DEF Emitted, Periodic
<1>8. EmittedInOrder' /\ EmittedAll'
    BY <1>1, <1>4 DEF ScriptInv, EmittedInOrder, EmittedAll
<1>9. EmittedSoFar'
    BY <1>1, <1>4, <1>7 DEF ScriptInv, EmittedSoFar
<1>10. ScriptRuns'
    <2> DEFINE d == script.completed
    <2>1. d \in Nat /\ script.length \in Nat
        BY <1>1, RunningFields
    <2>2. script.length = d + n + 0
        BY <1>1 DEF ScriptInv, ScriptRuns
    <2> HIDE DEF n, d
    <2>3. script.length = d + (n - 1) + 1
        BY <1>2, <2>1, <2>2
    <2>4. script'.length = script'.completed + Len(script'.todo) + IF call' = NoCall THEN 0 ELSE 1
        BY <1>2, <1>4, <1>6, <2>3 DEF d
    <2>5. /\ session /\ script.every \in Nat \ {0} /\ script.initial \in BOOLEAN
          /\ script.final \in BOOLEAN /\ script.completed \in Nat /\ script.base \in Nat
          /\ Len(actions) = script.base + script.completed
          /\ script.last \in Emitted \/ (script.last = -1 /\ emitted = <<>>)
          /\ \A c \in Emitted : c <= script.last
          /\ script.last <= script.completed
        BY <1>1 DEF ScriptInv, ScriptRuns
    <2>6. /\ session' /\ call'.name = "Run"
          /\ script'.every \in Nat \ {0}
          /\ script'.initial \in BOOLEAN /\ script'.final \in BOOLEAN
          /\ Seqs!IsSeq(script'.todo)
          /\ script'.completed \in Nat /\ script'.length \in Nat /\ script'.base \in Nat
          /\ script'.due = "no"
        BY <1>1, <1>2, <1>4, <1>6, <2>1, <2>5
    <2>7. /\ Len(actions') = script'.base + script'.completed
          /\ script'.last \in Emitted' \/ (script'.last = -1 /\ emitted' = <<>>)
          /\ \A c \in Emitted' : c <= script'.last
          /\ script'.last <= script'.completed
        BY <1>1, <1>4, <1>7, <2>5
    <2>8. QED
        BY <2>4, <2>6, <2>7 DEF ScriptRuns
<1>11. QED
    BY <1>1, <1>5, <1>8, <1>9, <1>10 DEF ScriptInv

(* The script has no more actions.                                         *)
LEMMA ScriptFinishes ==
    ASSUME ScriptInv, FinishScript
    PROVE  ScriptInv'
<1>1. /\ script.phase = "run" /\ call = NoCall /\ script.due = "no" /\ script.todo = <<>>
      /\ UNCHANGED <<emitted, session, actions, call>>
    BY DEF FinishScript, Running, sessionVars
<1>2. script' = IF script.final /\ script.last # script.completed
                THEN [script EXCEPT !.due = "Final"] ELSE [script EXCEPT !.phase = "ok"]
    BY DEF FinishScript
<1>3. script.length = script.completed
    <2>1. script.length = script.completed + Len(script.todo) + 0
        BY <1>1 DEF ScriptInv, ScriptRuns
    <2>2. Len(script.todo) = 0 /\ script.completed \in Nat
        BY <1>1, EmptyIsSeq, RunningFields
    <2>3. QED
        BY <2>1, <2>2
<1>4. CASE script.final /\ script.last # script.completed
    <2>1. script' = [phase |-> "run", todo |-> script.todo, every |-> script.every,
                     final |-> script.final, missing |-> script.missing,
                     completed |-> script.completed, last |-> script.last, due |-> "Final",
                     length |-> script.length, initial |-> script.initial, base |-> script.base]
        BY <1>1, <1>2, <1>4, RunningFields
    <2>2. /\ script'.phase = "run" /\ script'.todo = script.todo /\ script'.every = script.every
          /\ script'.final = script.final /\ script'.completed = script.completed
          /\ script'.last = script.last /\ script'.due = "Final"
          /\ script'.length = script.length
          /\ script'.initial = script.initial /\ script'.base = script.base
        BY <2>1
    <2>3. ScriptShape'
        BY <2>1, <2>2 DEF ScriptShape
    <2>4. Emitted' = Emitted /\ \A c : Periodic(c)' <=> Periodic(c)
        BY <1>1, <2>2 DEF Emitted, Periodic
    <2>5. EmittedInOrder' /\ EmittedAll'
        BY <1>1, <2>2 DEF ScriptInv, EmittedInOrder, EmittedAll
    <2>6. EmittedSoFar'
        BY <1>1, <2>2, <2>4 DEF ScriptInv, EmittedSoFar
    <2>7. script.last < script.completed
        <3>1. script.last <= script.completed /\ script.last \in Int /\ script.completed \in Nat
            BY <1>1, RunningFields DEF ScriptInv, ScriptRuns
        <3>2. QED
            BY <1>4, <3>1
    <2>8. ScriptRuns'
        BY <1>1, <1>4, <2>2, <2>4, <2>7 DEF ScriptInv, ScriptRuns
    <2>9. QED
        BY <1>1, <2>3, <2>5, <2>6, <2>8 DEF ScriptInv
<1>5. CASE ~(script.final /\ script.last # script.completed)
    <2>1. script' = [phase |-> "ok", todo |-> script.todo, every |-> script.every,
                     final |-> script.final, missing |-> script.missing,
                     completed |-> script.completed, last |-> script.last, due |-> script.due,
                     length |-> script.length, initial |-> script.initial, base |-> script.base]
        BY <1>1, <1>2, <1>5, RunningFields
    <2>2. /\ script'.phase = "ok" /\ script'.every = script.every
          /\ script'.final = script.final /\ script'.length = script.length
          /\ script'.initial = script.initial /\ script'.base = script.base
        BY <2>1
    <2>3. ScriptShape'
        BY <2>1, <2>2 DEF ScriptShape
    <2>4. Emitted' = Emitted
        BY <1>1 DEF Emitted
    <2>5. EmittedInOrder'
        BY <1>1, <2>2 DEF ScriptInv, EmittedInOrder
    <2> DEFINE n == script.length
    <2>6. n \in Nat /\ script.last \in Int /\ Emitted \subseteq Nat
        BY <1>1, RunningFields
    <2>7. /\ \A c \in 0..n : Periodic(c) => c \in Emitted
          /\ \A c \in Emitted : Periodic(c) \/ (c = n /\ script.final)
        BY <1>1, <1>3 DEF ScriptInv, EmittedSoFar
    <2>8. /\ \A c \in Emitted : c <= script.last
          /\ script.last <= n
          /\ script.last \in Emitted \/ script.last = -1
        BY <1>1, <1>3 DEF ScriptInv, ScriptRuns
    <2> HIDE DEF n
    <2>9. \A c \in Emitted : c \in 0..n
        BY <2>6, <2>8
    <2>10. script.final => n \in Emitted
        <3>1. script.final => script.last = n
            BY <1>3, <1>5 DEF n
        <3>2. n # -1
            BY <2>6
        <3>3. QED
            BY <2>8, <3>1, <3>2
    <2>11. Emitted = {c \in 0..n : \/ c > 0 /\ c % script.every = 0
                                   \/ c = 0 /\ script.initial
                                   \/ c = n /\ script.final}
        BY <2>7, <2>9, <2>10 DEF Periodic
    <2>12. EmittedAll'
        BY <2>2, <2>4, <2>11 DEF EmittedAll, n
    <2>13. QED
        BY <1>1, <2>2, <2>3, <2>5, <2>12 DEF ScriptInv, ScriptRuns, EmittedSoFar
<1>6. QED
    BY <1>4, <1>5

(* The sink accepts the telemetry that is due.                             *)
LEMMA ScriptEmits ==
    ASSUME ScriptInv, Emit
    PROVE  ScriptInv'
<1>1. /\ script.phase = "run" /\ call = NoCall /\ script.due # "no"
      /\ UNCHANGED <<session, actions, call>>
    BY DEF Emit, Running, sessionVars
<1>2. CASE script' = [script EXCEPT !.phase = "err"] /\ emitted' = emitted
    BY <1>1, <1>2, ScriptFails
<1>3. CASE /\ emitted' = Append(emitted, [completed |-> script.completed,
                                          actions |-> Len(actions)])
           /\ script' = [script EXCEPT !.due = "no", !.last = script.completed]
    <2> DEFINE d == script.completed
               n == Len(emitted)
               e == [completed |-> d, actions |-> Len(actions)]
    <2>1. /\ d \in Nat /\ n \in Nat /\ Seqs!IsSeq(emitted) /\ DOMAIN emitted = 1..n
          /\ script.last \in Int /\ Emitted \subseteq Nat /\ script.length \in Nat
          /\ Seqs!IsSeq(script.todo)
        BY <1>1, RunningFields
    <2>2. /\ Seqs!IsSeq(emitted') /\ Len(emitted') = n + 1
          /\ \A i \in 1..n : emitted'[i] = emitted[i]
          /\ emitted'[n + 1] = e
        BY <1>3, <2>1, Seqs!AppendSeq
    <2>3. e.completed = d /\ e.actions = Len(actions)
        OBVIOUS
    <2>4. /\ Len(actions) = script.base + d
          /\ script.length = d + Len(script.todo) + 0
          /\ \A c \in Emitted : c <= script.last
          /\ script.last < d
          /\ script.due \in {"Initial", "Cadence"} => Periodic(d)
          /\ script.due = "Final" => script.final /\ script.todo = <<>>
          /\ script.due \in {"no", "Initial", "Cadence", "Final"}
        BY <1>1 DEF ScriptInv, ScriptRuns
    <2>5. /\ script' = [phase |-> "run", todo |-> script.todo, every |-> script.every,
                        final |-> script.final, missing |-> script.missing,
                        completed |-> d, last |-> d, due |-> "no",
                        length |-> script.length, initial |-> script.initial,
                        base |-> script.base]
        BY <1>1, <1>3, RunningFields
    <2>6. /\ script'.phase = "run" /\ script'.todo = script.todo /\ script'.every = script.every
          /\ script'.final = script.final /\ script'.completed = d
          /\ script'.last = d /\ script'.due = "no" /\ script'.length = script.length
          /\ script'.initial = script.initial /\ script'.base = script.base
        BY <2>5
    <2>7. ScriptShape'
        BY <2>5, <2>6 DEF ScriptShape
    <2> HIDE DEF e, d, n
    <2>8. \A i \in 1..(n + 1) : i \in 1..n \/ i = n + 1
        BY <2>1
    <2>9. \A i \in 1..n : emitted[i].completed \in Emitted /\ emitted[i].completed \in Nat
        BY <2>1 DEF Emitted
    <2>10. \A i \in 1..n : emitted[i].completed < d
        <3> TAKE i \in 1..n
        <3>1. emitted[i].completed \in Nat /\ emitted[i].completed <= script.last
            BY <2>4, <2>9
        <3>2. QED
            BY <2>1, <2>4, <3>1
    <2>11. Emitted' = Emitted \cup {d}
        <3>1. DOMAIN emitted' = 1..(n + 1)
            <4>1. emitted' \in Seq(Seqs!Range(emitted'))
                BY <2>2 DEF Seqs!IsSeq
            <4> HIDE DEF Seqs!Range
            <4>2. QED
                BY <2>2, <4>1
        <3>2. \A i \in 1..n : i \in 1..(n + 1)
            BY <2>1
        <3>3. n + 1 \in 1..(n + 1)
            BY <2>1
        <3>4. QED
            BY <2>1, <2>2, <2>3, <2>8, <3>1, <3>2, <3>3 DEF Emitted
    <2>12. EmittedInOrder'
        <3>1. ASSUME NEW i \in 1..(n + 1), NEW j \in 1..(n + 1), i < j
              PROVE  emitted'[i].completed < emitted'[j].completed
            <4>1. i \in 1..n
                BY <2>1, <3>1
            <4>2. CASE j \in 1..n
                BY <2>2, <3>1, <4>1, <4>2 DEF ScriptInv, EmittedInOrder, n
            <4>3. CASE j = n + 1
                BY <2>2, <2>3, <2>10, <4>1, <4>3
            <4>4. QED
                BY <2>8, <4>2, <4>3
        <3>2. ASSUME NEW i \in 1..(n + 1)
              PROVE  /\ emitted'[i].completed \in Nat
                     /\ emitted'[i].actions = script.base + emitted'[i].completed
            <4>1. CASE i \in 1..n
                BY <2>2, <4>1 DEF ScriptInv, EmittedInOrder, n
            <4>2. CASE i = n + 1
                BY <2>1, <2>2, <2>3, <2>4, <4>2
            <4>3. QED
                BY <2>8, <4>1, <4>2
        <3>3. QED
            BY <2>2, <2>6, <3>1, <3>2 DEF EmittedInOrder
    <2>13. \A c : Periodic(c)' <=> Periodic(c)
        BY <2>6 DEF Periodic
    <2>14. EmittedSoFar'
        <3>1. \A c \in 0..d : Periodic(c) => c \in Emitted \/ c = d
            BY <1>1 DEF ScriptInv, EmittedSoFar, d
        <3>2. \A c \in Emitted : Periodic(c) \/ (c = script.length /\ script.final /\ d = script.length)
            BY <1>1 DEF ScriptInv, EmittedSoFar, d
        <3>3. Periodic(d) \/ (script.final /\ d = script.length)
            <4>1. CASE script.due = "Final"
                <5>1. script.length = d + 0 + 0
                    BY <2>4, <4>1, EmptyIsSeq
                <5>2. QED
                    BY <2>1, <2>4, <4>1, <5>1
            <4>2. QED
                BY <1>1, <2>4, <4>1
        <3>4. QED
            BY <2>6, <2>11, <2>13, <3>1, <3>2, <3>3 DEF EmittedSoFar
    <2>15. ScriptRuns'
        <3>1. /\ session /\ script.every \in Nat \ {0} /\ script.initial \in BOOLEAN
              /\ script.final \in BOOLEAN /\ script.completed \in Nat /\ script.base \in Nat
            BY <1>1 DEF ScriptInv, ScriptRuns
        <3>2. /\ session' /\ call' = NoCall
              /\ script'.every \in Nat \ {0}
              /\ script'.initial \in BOOLEAN /\ script'.final \in BOOLEAN
              /\ Seqs!IsSeq(script'.todo)
              /\ script'.completed \in Nat /\ script'.length \in Nat /\ script'.base \in Nat
              /\ script'.due = "no"
            BY <1>1, <2>1, <2>6, <3>1
        <3>3. \A c \in Emitted' : c <= d
            <4> TAKE c \in Emitted'
            <4>1. CASE c \in Emitted
                <5>1. c \in Nat /\ c <= script.last
                    BY <2>1, <2>4, <4>1
                <5>2. QED
                    BY <2>1, <2>4, <5>1
            <4>2. CASE c = d
                BY <2>1, <4>2
            <4>3. QED
                BY <2>11, <4>1, <4>2
        <3>4. d <= d /\ d \in Emitted'
            BY <2>1, <2>11
        <3>5. /\ script'.length = script'.completed + Len(script'.todo) + IF call' = NoCall THEN 0 ELSE 1
              /\ Len(actions') = script'.base + script'.completed
            BY <1>1, <2>4, <2>6
        <3>6. QED
            BY <2>6, <3>2, <3>3, <3>4, <3>5 DEF ScriptRuns
    <2>16. QED
        BY <1>1, <2>6, <2>7, <2>12, <2>14, <2>15 DEF ScriptInv, EmittedAll
<1>4. QED
    BY <1>2, <1>3 DEF Emit

(* An action of the script has returned.                                   *)
LEMMA ScriptAdvances ==
    ASSUME ScriptInv, Return, ReturnAction
    PROVE  ScriptInv'
<1>1. /\ call' = NoCall /\ call # NoCall
      /\ actions' = Append(actions, [kind |-> call.arg, operations |-> call.sum])
      /\ UNCHANGED <<session, emitted>>
    BY DEF Return, InCall, ReturnAction
<1>2. script' = IF script.phase # "run" THEN script
                ELSE [script EXCEPT !.completed = @ + 1, !.due = DueAfter(script.completed + 1)]
    BY DEF ReturnAction
<1>3. /\ Seqs!IsSeq(actions') /\ Len(actions') = Len(actions) + 1 /\ Len(actions) \in Nat
    BY <1>1, Seqs!AppendSeq, Seqs!LenSeq DEF ScriptInv
<1>4. CASE script.phase # "run"
    BY <1>1, <1>2, <1>3, <1>4, ScriptIdle
<1>5. CASE script.phase = "run"
    <2> DEFINE d == script.completed
               t == Len(script.todo)
               due == DueAfter(d + 1)
    <2>1. /\ d \in Nat /\ t \in Nat /\ script.last \in Int /\ Emitted \subseteq Nat
          /\ script.length \in Nat /\ script.base \in Nat /\ Seqs!IsSeq(script.todo)
          /\ script.every \in Nat \ {0} /\ script.initial \in BOOLEAN /\ script.final \in BOOLEAN
        BY <1>5, RunningFields
    <2>2. /\ session /\ script.due = "no"
          /\ script.length = d + t + 1
          /\ Len(actions) = script.base + d
          /\ script.last \in Emitted \/ (script.last = -1 /\ emitted = <<>>)
          /\ \A c \in Emitted : c <= script.last
          /\ script.last <= d
        BY <1>1, <1>5 DEF ScriptInv, ScriptRuns
    <2>3. due = IF (d + 1) % script.every = 0 THEN "Cadence" ELSE "no"
        BY DEF DueAfter
    <2>4. script' = [script EXCEPT !.completed = d + 1, !.due = due]
        BY <1>2, <1>5
    <2> HIDE DEF due, t
    <2>5. script' = [phase |-> "run", todo |-> script.todo, every |-> script.every,
                     final |-> script.final, missing |-> script.missing,
                     completed |-> d + 1, last |-> script.last, due |-> due,
                     length |-> script.length, initial |-> script.initial,
                     base |-> script.base]
        BY <1>5, <2>4, RunningFields
    <2>6. /\ script'.phase = "run" /\ script'.todo = script.todo /\ script'.every = script.every
          /\ script'.final = script.final /\ script'.completed = d + 1
          /\ script'.last = script.last /\ script'.due = due /\ script'.length = script.length
          /\ script'.initial = script.initial /\ script'.base = script.base
        BY <2>5
    <2>7. ScriptShape'
        BY <2>5, <2>6 DEF ScriptShape
    <2>8. Emitted' = Emitted /\ \A c : Periodic(c)' <=> Periodic(c)
        BY <1>1, <2>6 DEF Emitted, Periodic
    <2>9. EmittedInOrder' /\ EmittedAll'
        BY <1>1, <1>5, <2>6 DEF ScriptInv, EmittedInOrder, EmittedAll
    <2>10. /\ \A c \in 0..d : Periodic(c) => c \in Emitted
           /\ \A c \in Emitted : Periodic(c) \/ (c = script.length /\ script.final /\ d = script.length)
        BY <1>5, <2>2 DEF ScriptInv, EmittedSoFar
    <2> HIDE DEF d
    <2>11. d # script.length
        BY <2>1, <2>2
    <2>12. \A c \in 0..(d + 1) : c \in 0..d \/ c = d + 1
        BY <2>1
    <2>13. /\ Periodic(d + 1) => due = "Cadence"
           /\ due = "Cadence" => Periodic(d + 1)
           /\ due \in {"no", "Cadence"}
        <3>1. d + 1 > 0 /\ d + 1 # 0
            BY <2>1
        <3>2. QED
            BY <2>3, <3>1 DEF Periodic
    <2>14. EmittedSoFar'
        <3>1. \A c \in 0..(d + 1) : Periodic(c) => c \in Emitted \/ (c = d + 1 /\ due = "Cadence")
            BY <2>10, <2>12, <2>13
        <3>2. \A c \in Emitted : Periodic(c)
            BY <2>10, <2>11
        <3>3. QED
            BY <2>6, <2>8, <3>1, <3>2 DEF EmittedSoFar
    <2>15. ScriptRuns'
        <3>1. /\ session' /\ call' = NoCall
              /\ script'.every \in Nat \ {0}
              /\ script'.initial \in BOOLEAN /\ script'.final \in BOOLEAN
              /\ Seqs!IsSeq(script'.todo)
            BY <1>1, <2>1, <2>2, <2>6
        <3>2. /\ script'.completed \in Nat /\ script'.length \in Nat /\ script'.base \in Nat
              /\ script'.last <= script'.completed /\ script'.last < script'.completed
            BY <2>1, <2>2, <2>6
        <3> DEFINE a == Len(actions)
                   b == script.base
                   l == script.length
        <3>a. a \in Nat /\ b \in Nat /\ l \in Nat /\ a = b + d /\ l = d + t + 1
            BY <1>3, <2>1, <2>2
        <3> HIDE DEF a, b, l
        <3>b. l = (d + 1) + t + 0 /\ a + 1 = b + (d + 1)
            BY <2>1, <3>a
        <3>3. /\ script.length = (d + 1) + t + 0
              /\ a + 1 = script.base + (d + 1)
            BY <3>b DEF b, l
        <3>4. /\ script'.length = script'.completed + Len(script'.todo) + IF call' = NoCall THEN 0 ELSE 1
              /\ Len(actions') = script'.base + script'.completed
            BY <1>1, <1>3, <2>6, <3>3 DEF t, a
        <3>5. /\ script'.last \in Emitted' \/ (script'.last = -1 /\ emitted' = <<>>)
              /\ \A c \in Emitted' : c <= script'.last
            BY <1>1, <2>2, <2>6, <2>8
        <3>6. /\ script'.due \in {"no", "Cadence"}
              /\ script'.due = "Cadence" => Periodic(script.completed)'
            <4>1. d + 1 > 0
                BY <2>1
            <4>2. QED
                BY <2>3, <2>6, <4>1 DEF Periodic
        <3>7. QED
            BY <3>1, <3>2, <3>4, <3>5, <3>6 DEF ScriptRuns
    <2>16. QED
        BY <1>3, <2>7, <2>9, <2>14, <2>15 DEF ScriptInv
<1>6. QED
    BY <1>4, <1>5

-----------------------------------------------------------------------------
(* What the steps do to the workers, the session and its call.             *)

CallOf(name, arg, todo, missing) ==
    Begun(name, arg, todo, missing) /\ name # "Deploy" /\ CallProgress'

Drops ==
    /\ call = NoCall /\ call' = NoCall /\ session' = FALSE /\ actions' = <<>>
    /\ UNCHANGED <<ps, pending, latest, dirty, stale, gone, recorded, failed>>

Quiet ==
    /\ UNCHANGED <<ps, pending, session, mailboxes, call, latest, dirty, stale, gone, recorded,
                   failed>>
    /\ actions' = actions \/ (actions' = <<>> /\ call = NoCall)

SessionStep ==
    \/ \E q, w : Answers(q, w)
    \/ \E waits \in BOOLEAN : Fails(waits)
    \/ Return
    \/ \E w, q, n : Reads(w, q, n)
    \/ \E w : Ends(w)
    \/ \E name, arg, todo, missing : CallOf(name, arg, todo, missing)
    \/ DeployBegun
    \/ Drops
    \/ Quiet

LEMMA StepIs ==
    ASSUME BaseInv, ScriptInv, [Next]_vars
    PROVE  SessionStep /\ ScriptInv'
<1>0. Seqs!IsSeq(actions) /\ Seqs!IsSeq(<<>>)
    BY EmptyIsSeq DEF ScriptInv
<1>1. CASE Answer
    <2>1. PICK q, w : Answers(q, w)
        BY <1>1, AnswerIs
    <2>2. /\ UNCHANGED <<script, emitted, session, actions>>
          /\ call # NoCall /\ call' # NoCall /\ call'.name = call.name
        BY <2>1 DEF Answers
    <2>3. ScriptInv'
        BY <2>2, ScriptKept
    <2>4. QED
        BY <2>1, <2>3 DEF SessionStep
<1>2. CASE Refused \/ Lost \/ Late
    <2>1. PICK waits \in BOOLEAN : Fails(waits)
        BY <1>2, FailIs
    <2>2. ScriptInv'
        BY <2>1, ScriptOfFails
    <2>3. QED
        BY <2>1, <2>2 DEF SessionStep
<1>3. CASE Return
    <2>1. ReturnDeploy \/ ReturnAction \/ ReturnMailboxes
        BY <1>3 DEF Return
    <2>2. CASE ReturnAction
        BY <1>3, <2>2, ScriptAdvances DEF SessionStep
    <2>3. CASE ReturnDeploy \/ ReturnMailboxes
        <3>1. /\ call.name # "Run" /\ UNCHANGED <<script, emitted>>
              /\ actions' = actions \/ actions' = <<>>
            BY <2>3 DEF ReturnDeploy, ReturnMailboxes, Routed, scriptVars, sessionVars
        <3>2. script.phase # "run"
            BY <1>3, <3>1 DEF ScriptInv, ScriptRuns, Return, InCall
        <3>3. ScriptInv'
            BY <1>0, <3>1, <3>2, ScriptIdle
        <3>4. QED
            BY <1>3, <3>3 DEF SessionStep
    <2>4. QED
        BY <2>1, <2>2, <2>3
<1>4. CASE \E w \in Workers : CatchUp(w)
    <2>1. PICK w \in Workers : CatchUp(w)
        BY <1>4
    <2>2. PICK q, n : Reads(w, q, n)
        BY <2>1, ReadIs
    <2>3. UNCHANGED <<script, emitted, session, actions, call>>
        BY <2>2 DEF Reads
    <2>4. ScriptInv'
        BY <2>3, ScriptKept
    <2>5. QED
        BY <2>2, <2>4 DEF SessionStep
<1>5. CASE \E w \in Workers : Crash(w)
    <2>1. PICK w \in Workers : Crash(w)
        BY <1>5
    <2>2. Ends(w)
        BY <2>1, EndIs
    <2>3. UNCHANGED <<script, emitted, session, actions, call>>
        BY <2>2 DEF Ends
    <2>4. ScriptInv'
        BY <2>3, ScriptKept
    <2>5. QED
        BY <2>2, <2>4 DEF SessionStep
<1>6. CASE \/ RunAction \/ CollectRouteMailboxes \/ ClearRouteMailboxes
           \/ PublishOutbound \/ DeliverInbound \/ TransferRoute
    <2>1. PICK name, arg, todo, missing : OwnersCall(name, arg, todo, missing)
        BY <1>6, CallBegins
    <2>2. /\ CallOf(name, arg, todo, missing)
          /\ script.phase # "run" /\ UNCHANGED <<script, emitted>>
        BY <2>1 DEF OwnersCall, CallOf
    <2>3. actions' = actions
        BY <2>2 DEF CallOf, Begun
    <2>4. ScriptInv'
        BY <1>0, <2>2, <2>3, ScriptIdle
    <2>5. QED
        BY <2>2, <2>4 DEF SessionStep
<1>7. CASE Deploy
    <2>1. DeployBegun
        BY <1>7, DeployIs
    <2>2. script.phase # "run" /\ UNCHANGED <<script, emitted, actions>>
        BY <2>1 DEF DeployBegun
    <2>3. ScriptInv'
        BY <1>0, <2>2, ScriptIdle
    <2>4. QED
        BY <2>1, <2>3 DEF SessionStep
<1>8. CASE DropSession
    <2>1. Drops /\ script.phase # "run" /\ UNCHANGED <<script, emitted>> /\ actions' = <<>>
        BY <1>8 DEF DropSession, Drops, Free, workerVars, scriptVars, history
    <2>2. ScriptInv'
        BY <1>0, <2>1, ScriptIdle
    <2>3. QED
        BY <2>1, <2>2 DEF SessionStep
<1>9. CASE ClearActions
    <2>1. Quiet /\ script.phase # "run" /\ UNCHANGED <<script, emitted>> /\ actions' = <<>>
        BY <1>9 DEF ClearActions, Quiet, Free, workerVars, scriptVars, history
    <2>2. ScriptInv'
        BY <1>0, <2>1, ScriptIdle
    <2>3. QED
        BY <2>1, <2>2 DEF SessionStep
<1>10. CASE StartScript \/ Emit \/ FinishScript
    <2>1. Quiet
        BY <1>10 DEF StartScript, Emit, FinishScript, Quiet, workerVars, sessionVars, history
    <2>2. ScriptInv'
        BY <1>10, ScriptStarts, ScriptEmits, ScriptFinishes
    <2>3. QED
        BY <2>1, <2>2 DEF SessionStep
<1>11. CASE ScriptAction
    <2>1. script.phase = "run" => session
        BY DEF ScriptInv, ScriptRuns
    <2>2. PICK k, missing : Begun("Run", k, EachWorker("Run", k), missing) /\ CallProgress'
        BY <1>11, <2>1, ScriptActionIs
    <2>3. CallOf("Run", k, EachWorker("Run", k), missing)
        BY <2>2 DEF CallOf
    <2>4. ScriptInv'
        BY <1>11, ScriptTakes
    <2>5. QED
        BY <2>3, <2>4 DEF SessionStep
<1>12. CASE (\E w \in Workers : Restart(w)) \/ UNCHANGED vars
    <2>1. UNCHANGED <<ps, pending, session, mailboxes, actions, call, script, emitted, latest,
                      dirty, stale, gone, recorded, failed>>
        BY <1>12 DEF Restart, vars, workerVars, sessionVars, scriptVars, history
    <2>2. ScriptInv'
        BY <2>1, ScriptKept
    <2>3. Quiet
        BY <2>1 DEF Quiet
    <2>4. QED
        BY <2>2, <2>3 DEF SessionStep
<1>13. QED
    BY <1>1, <1>2, <1>3, <1>4, <1>5, <1>6, <1>7, <1>8, <1>9, <1>10, <1>11, <1>12
    DEF Next, Owner, CallStep, ScriptStep

LEMMA BaseDrops ==
    ASSUME BaseInv, Drops
    PROVE  BaseInv'
<1>1. CallProgress' /\ Deployed' /\ CallShape'
    BY NoCallProgress DEF Drops
<1>2. Types' /\ Members'
    BY <1>1 DEF BaseInv, Types, Members, Drops
<1>3. QED
    BY <1>1, <1>2 DEF BaseInv

LEMMA BaseStep ==
    ASSUME BaseInv, SessionStep
    PROVE  BaseInv'
<1>1. ASSUME NEW q, NEW w, Answers(q, w) PROVE BaseInv'
    BY <1>1, BaseAnswer
<1>2. ASSUME NEW waits \in BOOLEAN, Fails(waits) PROVE BaseInv'
    BY <1>2, BaseFails
<1>3. ASSUME NEW w, NEW q, NEW n, Reads(w, q, n) PROVE BaseInv'
    BY <1>3, BaseReads
<1>4. ASSUME NEW w, Ends(w) PROVE BaseInv'
    BY <1>4, BaseEnds
<1>5. ASSUME NEW name, NEW arg, NEW todo, NEW missing, CallOf(name, arg, todo, missing)
      PROVE  BaseInv'
    BY <1>5, BaseBegun DEF CallOf
<1>6. CASE Quiet
    BY <1>6, BaseSame DEF Quiet
<1>7. QED
    BY <1>1, <1>2, <1>3, <1>4, <1>5, <1>6, BaseReturn, BaseDeploy, BaseDrops DEF SessionStep

(* The session, its workers and its scripts keep to their types; a call    *)
(* asks the workers in order, a deployment leaves new workers behind, and  *)
(* what a script emits is in step with the actions it has completed.       *)
THEOREM SessionProgress == Spec => [](BaseInv /\ ScriptInv)
<1>1. Init => BaseInv /\ ScriptInv
    BY BaseInit, ScriptInit
<1>2. ASSUME BaseInv /\ ScriptInv, [Next]_vars
      PROVE  (BaseInv /\ ScriptInv)'
    BY <1>2, StepIs, BaseStep
<1>3. QED
    BY <1>1, <1>2, PTL DEF Spec

(* Telemetry of run_script_with_telemetry is emitted when its cadence says *)
(* so, once each and in order, with the actions of that moment: the last   *)
(* part of ReportsFaithful.                                                *)
THEOREM TelemetryIsExact == Spec => []TelemetryExact
<1>1. ASSUME ScriptInv PROVE TelemetryExact
    <2>1. DOMAIN emitted = 1..Len(emitted)
        <3>1. emitted \in Seq(Seqs!Range(emitted))
            BY <1>1 DEF ScriptInv, EmittedInOrder, Seqs!IsSeq
        <3> HIDE DEF Seqs!Range
        <3>2. QED
            BY <3>1
    <2>2. script.phase = "ok" =>
             {emitted[i].completed : i \in DOMAIN emitted} =
                 {c \in 0..script.length : \/ c > 0 /\ c % script.every = 0
                                           \/ c = 0 /\ script.initial
                                           \/ c = script.length /\ script.final}
        BY <1>1 DEF ScriptInv, EmittedAll, Emitted
    <2>3. QED
        BY <1>1, <2>1, <2>2 DEF ScriptInv, EmittedInOrder, TelemetryExact
<1>2. QED
    BY <1>1, SessionProgress, PTL

-----------------------------------------------------------------------------
(* Mailboxes.                                                              *)

LEMMA MailInit == Init => MailInv
<1> SUFFICES ASSUME Init PROVE MailInv
    OBVIOUS
<1>1. call.name = "none" /\ session = FALSE /\ DOMAIN latest = RouteIndexes
    BY DEF Init, NoCall, EmptyMailbox
<1>2. QED
    BY <1>1 DEF MailInv, CountsRight, RoutesRight, TransferRight, ClearRight

(* Nothing waits.                                                          *)
LEMMA NothingWaits ==
    ASSUME NEW s
    PROVE  /\ \A r, payload : OutAt(s, <<>>, r, payload) <=> s.out[r] = payload
           /\ \A r, payload : InAt(s, <<>>, r, payload) <=> s.in[r] = payload
           /\ \A count : CountAt(s, <<>>, count) <=> count = MailboxReport(s)
<1>1. 1..Len(<<>>) = {}
    BY EmptyIsSeq
<1>2. QED
    BY <1>1 DEF OutAt, InAt, CountAt

(* One more request waits.                                                 *)
LEMMA OneMoreWaits ==
    ASSUME NEW s, NEW waiting, NEW q, Seqs!IsSeq(waiting)
    PROVE  LET more == Append(waiting, q) IN
           /\ \A r, payload : OutAt(s, waiting, r, payload) /\ ~WaitsForOut(q, r)
                                 => OutAt(s, more, r, payload)
           /\ \A r, payload : InAt(s, waiting, r, payload) /\ ~WaitsForIn(q, r)
                                 => InAt(s, more, r, payload)
           /\ \A count : CountAt(s, waiting, count) /\ ~Unseen(q) => CountAt(s, more, count)
<1> DEFINE n == Len(waiting)
           more == Append(waiting, q)
<1>1. /\ n \in Nat /\ Len(more) = n + 1 /\ more[n + 1] = q
      /\ \A i \in 1..n : more[i] = waiting[i]
    BY Seqs!AppendSeq, Seqs!LenSeq
<1> HIDE DEF n, more
<1>2. \A i \in 1..(n + 1) : i \in 1..n \/ i = n + 1
    BY <1>1
<1>3. \A r, payload : OutAt(s, waiting, r, payload) /\ ~WaitsForOut(q, r)
                         => OutAt(s, more, r, payload)
    BY <1>1, <1>2 DEF OutAt, n
<1>4. \A r, payload : InAt(s, waiting, r, payload) /\ ~WaitsForIn(q, r)
                         => InAt(s, more, r, payload)
    BY <1>1, <1>2 DEF InAt, n
<1>5. \A count : CountAt(s, waiting, count) /\ ~Unseen(q) => CountAt(s, more, count)
    BY <1>1, <1>2 DEF CountAt, n
<1>6. QED
    BY <1>3, <1>4, <1>5 DEF more

(* A request that does not touch an end leaves it as it was.               *)
LEMMA UntouchedEnds ==
    ASSUME NEW s, NEW q, WorkerRecord(s), Accepted(s, q), q.kind # "Init"
    PROVE  /\ \A r \in RouteIndexes : ~WaitsForOut(q, r) => After(s, q).out[r] = s.out[r]
           /\ \A r \in RouteIndexes : ~WaitsForIn(q, r) => After(s, q).in[r] = s.in[r]
           /\ ~Unseen(q) => MailboxReport(After(s, q)) = MailboxReport(s)
<1> DEFINE a == After(s, q)
<1>1. /\ \A r \in RouteIndexes : a.out[r] = OutAfter(s, q, r)
      /\ \A r \in RouteIndexes : a.in[r] = InAfter(s, q, r)
    BY AfterIs
<1> HIDE DEF a
<1>2. /\ \A r \in RouteIndexes : ~WaitsForOut(q, r) => a.out[r] = s.out[r]
      /\ \A r \in RouteIndexes : ~WaitsForIn(q, r) => a.in[r] = s.in[r]
    BY <1>1 DEF OutAfter, InAfter, WaitsForOut, WaitsForIn
<1>3. ~Unseen(q) => MailboxReport(a) = MailboxReport(s)
    <2> SUFFICES ASSUME ~Unseen(q) PROVE MailboxReport(a) = MailboxReport(s)
        OBVIOUS
    <2>1. \A r \in RouteIndexes : a.out[r] = s.out[r] /\ a.in[r] = s.in[r]
        BY <1>2 DEF Unseen, WaitsForOut, WaitsForIn
    <2>2. /\ {r \in RouteIndexes : a.out[r] # None} = {r \in RouteIndexes : s.out[r] # None}
          /\ {r \in RouteIndexes : a.in[r] # None} = {r \in RouteIndexes : s.in[r] # None}
        BY <2>1
    <2>3. QED
        BY <2>2 DEF MailboxReport
<1>4. QED
    BY <1>2, <1>3 DEF a

(* The worker reads the first of the requests that wait.                   *)
LEMMA OneLessWaits ==
    ASSUME NEW s, NEW waiting, NEW n \in Nat \ {0}, NEW t, NEW rest,
           WorkerRecord(s), Len(waiting) = n, waiting[1].kind # "Init",
           t = IF Accepted(s, waiting[1]) THEN After(s, waiting[1]) ELSE s,
           Len(rest) = n - 1,
           \A i \in 1..(n - 1) : i + 1 \in 1..n /\ rest[i] = waiting[i + 1]
    PROVE  /\ \A r \in RouteIndexes : \A payload :
                 OutAt(s, waiting, r, payload) => OutAt(t, rest, r, payload)
           /\ \A r \in RouteIndexes : \A payload :
                 InAt(s, waiting, r, payload) => InAt(t, rest, r, payload)
           /\ \A count : CountAt(s, waiting, count) => CountAt(t, rest, count)
<1> DEFINE q == waiting[1]
<1>1. 1 \in 1..n
    OBVIOUS
<1>2. /\ \A r \in RouteIndexes : ~WaitsForOut(q, r) => t.out[r] = s.out[r]
      /\ \A r \in RouteIndexes : ~WaitsForIn(q, r) => t.in[r] = s.in[r]
      /\ ~Unseen(q) => MailboxReport(t) = MailboxReport(s)
    BY UntouchedEnds
<1>3. ASSUME NEW r \in RouteIndexes, NEW payload, OutAt(s, waiting, r, payload)
      PROVE  OutAt(t, rest, r, payload)
    <2>1. s.out[r] = payload /\ \A i \in 1..n : ~WaitsForOut(waiting[i], r)
        BY <1>3 DEF OutAt
    <2>2. QED
        BY <1>1, <1>2, <2>1 DEF OutAt
<1>4. ASSUME NEW r \in RouteIndexes, NEW payload, InAt(s, waiting, r, payload)
      PROVE  InAt(t, rest, r, payload)
    <2>1. s.in[r] = payload /\ \A i \in 1..n : ~WaitsForIn(waiting[i], r)
        BY <1>4 DEF InAt
    <2>2. QED
        BY <1>1, <1>2, <2>1 DEF InAt
<1>5. ASSUME NEW count, CountAt(s, waiting, count)
      PROVE  CountAt(t, rest, count)
    <2>1. count = MailboxReport(s) /\ \A i \in 1..n : ~Unseen(waiting[i])
        BY <1>5 DEF CountAt
    <2>2. QED
        BY <1>1, <1>2, <2>1 DEF CountAt
<1>6. QED
    BY <1>3, <1>4, <1>5

(* What the next request of the call may change, the call touches.         *)
LEMMA TurnTouches ==
    ASSUME BaseInv, call # NoCall, call.todo # <<>>, session
    PROVE  /\ Turn.kind # "Init" /\ call.done \in Nat
           /\ \A r \in RouteIndexes : r \notin Touched =>
                 ~WaitsForOut(Turn, r) /\ ~WaitsForIn(Turn, r)
<1>1. call.name # "Deploy"
    BY DEF BaseInv, Deployed
<1>2. call.name \in {"Run", "Collect", "Clear"} \cup Routed
    BY <1>1 DEF BaseInv, CallProgress
<1>3. Turn.kind # "Init"
    BY <1>1, TurnWorker
<1>4. CASE call.name \in {"Run", "Collect"}
    <2>1. Turn.kind \in {"Run", "Mailbox"} /\ call.done \in Nat
        BY <1>4, TurnOfLoop DEF LoopKind
    <2>2. QED
        BY <1>3, <2>1 DEF WaitsForOut, WaitsForIn
<1>5. CASE call.name = "Clear"
    <2>1. Touched = RouteIndexes
        BY <1>5 DEF Touched, Routed
    <2>2. call.done \in Nat
        BY <1>5, TurnOfLoop
    <2>3. QED
        BY <1>3, <2>1, <2>2
<1>6. CASE call.name \in Routed
    <2>1. Touched = {call.arg.route}
        BY <1>6 DEF Touched, Routed
    <2>2. Turn.kind \in {"Store", "Deliver"} /\ Turn.arg = call.arg
        BY <1>6, TurnOfRoute
    <2>3. call.done \in Nat
        BY <1>6, TurnOfRoute DEF Routed
    <2>4. QED
        BY <1>3, <2>1, <2>2, <2>3 DEF WaitsForOut, WaitsForIn
<1>7. QED
    BY <1>2, <1>4, <1>5, <1>6

(* A worker of the session that has not ended.                             *)
LEMMA MemberRecord ==
    ASSUME BaseInv, session, NEW w \in Workers, w \notin gone
    PROVE  /\ WorkerRecord(ps[w]) /\ Seqs!IsSeq(pending[w])
           /\ \A i \in 1..Len(pending[w]) : pending[w][i].kind # "Init"
<1>1. /\ ps[w].initialized /\ Seqs!IsSeq(pending[w])
      /\ ps[w] = NoWorker \/ WorkerRecord(ps[w])
      /\ \A i \in 1..Len(pending[w]) : pending[w][i].kind # "Init"
    BY DEF BaseInv, Types, Members
<1>2. QED
    BY <1>1 DEF NoWorker

LEMMA MailAnswer ==
    ASSUME BaseInv, MailInv, NEW q, NEW w, Answers(q, w)
    PROVE  MailInv'
<1>1. /\ call # NoCall /\ call.todo # <<>> /\ q = Turn /\ w = q.worker /\ w \in Workers
      /\ pending[w] = <<>> /\ Accepted(ps[w], q)
      /\ DOMAIN ps' = Workers /\ ps'[w] = After(ps[w], q)
      /\ \A v \in Workers : v # w => ps'[v] = ps[v]
      /\ call' # NoCall
      /\ call'.name = call.name /\ call'.arg = call.arg /\ call'.done = call.done + 1
      /\ UNCHANGED <<pending, session, latest, dirty, gone>>
    BY DEF Answers
<1>2. /\ \A r, payload : OutAt(ps'[w], pending[w], r, payload) <=> ps'[w].out[r] = payload
      /\ \A r, payload : InAt(ps'[w], pending[w], r, payload) <=> ps'[w].in[r] = payload
      /\ \A count : CountAt(ps'[w], pending[w], count) <=> count = MailboxReport(ps'[w])
      /\ \A r, payload : OutAt(ps[w], pending[w], r, payload) <=> ps[w].out[r] = payload
      /\ \A r, payload : InAt(ps[w], pending[w], r, payload) <=> ps[w].in[r] = payload
      /\ \A count : CountAt(ps[w], pending[w], count) <=> count = MailboxReport(ps[w])
    BY <1>1, NothingWaits
<1>3. CASE ~session
    <2>1. call.name = "Deploy"
        BY <1>1, <1>3 DEF BaseInv, Members
    <2>2. QED
        BY <1>1, <1>3, <2>1 DEF MailInv, CountsRight, RoutesRight, TransferRight, ClearRight
<1>4. CASE session
    <2>1. /\ q.kind # "Init" /\ call.done \in Nat
          /\ \A r \in RouteIndexes : r \notin Touched => ~WaitsForOut(q, r) /\ ~WaitsForIn(q, r)
        BY <1>1, <1>4, TurnTouches
    <2>2. call.name # "Deploy" /\ q.kind \in {"Run", "Mailbox", "Store", "Deliver", "Clear"}
        BY <1>1, <1>4, TurnWorker DEF BaseInv, Deployed
    <2>3. ps[w] = NoWorker \/ WorkerRecord(ps[w])
        BY <1>1 DEF BaseInv, Types
    <2>4. WorkerRecord(ps[w])
        BY <1>1, <2>1, <2>3, AfterIs
    <2>5. /\ \A r \in RouteIndexes : ~WaitsForOut(q, r) => ps'[w].out[r] = ps[w].out[r]
          /\ \A r \in RouteIndexes : ~WaitsForIn(q, r) => ps'[w].in[r] = ps[w].in[r]
          /\ ~Unseen(q) => MailboxReport(ps'[w]) = MailboxReport(ps[w])
        BY <1>1, <2>1, <2>4, UntouchedEnds
    <2>6. /\ \A r \in RouteIndexes : ps'[w].out[r] = OutAfter(ps[w], q, r)
          /\ \A r \in RouteIndexes : ps'[w].in[r] = InAfter(ps[w], q, r)
        BY <1>1, <2>1, <2>3, AfterIs
    <2>7. CountsRight'
        <3>1. /\ DOMAIN mailboxes = Workers
              /\ \A v \in Workers \ (stale \cup gone) : CountAt(ps[v], pending[v], mailboxes[v])
            BY <1>4 DEF MailInv, CountsRight
        <3>2. CASE q.kind \in {"Store", "Deliver", "Mailbox", "Clear"}
            <4>1. /\ mailboxes' = [mailboxes EXCEPT ![w] = MailboxReport(ps'[w])]
                  /\ stale' = stale \ {w}
                BY <3>2 DEF Answers
            <4>2. /\ DOMAIN mailboxes' = Workers /\ mailboxes'[w] = MailboxReport(ps'[w])
                  /\ \A v \in Workers : v # w => mailboxes'[v] = mailboxes[v]
                BY <1>1, <3>1, <4>1
            <4>3. QED
                BY <1>1, <1>2, <3>1, <4>1, <4>2 DEF CountsRight
        <3>3. CASE q.kind = "Run"
            <4>1. UNCHANGED <<mailboxes, stale>>
                BY <3>3 DEF Answers
            <4>2. MailboxReport(ps'[w]) = MailboxReport(ps[w])
                BY <2>5, <3>3 DEF Unseen
            <4>3. QED
                BY <1>1, <1>2, <3>1, <4>1, <4>2 DEF CountsRight
        <3>4. QED
            BY <2>2, <3>2, <3>3
    <2>8. RoutesRight'
        <3>1. call'.done # 0
            BY <1>1, <2>1
        <3>2. Touched' = Touched
            BY <1>1 DEF Touched
        <3>3. ASSUME NEW r \in RouteIndexes, r \notin dirty, r \notin Touched
              PROVE  /\ Routes[r].producer \notin gone =>
                           OutAt(ps'[Routes[r].producer], pending[Routes[r].producer], r, latest[r])
                     /\ Routes[r].consumer \notin gone =>
                           InAt(ps'[Routes[r].consumer], pending[Routes[r].consumer], r, latest[r])
            <4> DEFINE p == Routes[r].producer
                       c == Routes[r].consumer
            <4>1. /\ p \notin gone => OutAt(ps[p], pending[p], r, latest[r])
                  /\ c \notin gone => InAt(ps[c], pending[c], r, latest[r])
                BY <1>4, <3>3 DEF MailInv, RoutesRight
            <4>2. p \in Workers /\ c \in Workers
                BY SessionAssumption
            <4>3. /\ ps'[w].out[r] = ps[w].out[r]
                  /\ ps'[w].in[r] = ps[w].in[r]
                BY <2>1, <2>5, <3>3
            <4> HIDE DEF p, c
            <4>4. p \notin gone => OutAt(ps'[p], pending[p], r, latest[r])
                BY <1>1, <1>2, <4>1, <4>2, <4>3
            <4>5. c \notin gone => InAt(ps'[c], pending[c], r, latest[r])
                BY <1>1, <1>2, <4>1, <4>2, <4>3
            <4>6. QED
                BY <4>4, <4>5 DEF p, c
        <3>4. DOMAIN latest = RouteIndexes
            BY DEF MailInv, RoutesRight
        <3>5. QED
            BY <1>1, <3>1, <3>2, <3>3, <3>4 DEF RoutesRight
    <2>9. TransferRight'
        <3> SUFFICES ASSUME call.name = "Transfer" PROVE TransferRight'
            BY <1>1 DEF TransferRight
        <3> DEFINE r == call.arg.route
                   p == Routes[r].producer
                   c == Routes[r].consumer
                   x == call.arg.payload
        <3>1. /\ r \in RouteIndexes /\ q.arg = call.arg
              /\ \/ call.done = 0 /\ q.kind = "Store" /\ w = p
                 \/ call.done = 1 /\ q.kind = "Deliver" /\ w = c
            BY <1>1, TurnOfRoute DEF Routed
        <3>2. p # c
            BY DEF BaseInv, CallProgress, RouteProgress, Routed
        <3>3. p \in Workers /\ c \in Workers
            BY <3>1, SessionAssumption
        <3> SUFFICES /\ (call.done + 1 >= 1 /\ p \notin gone) => OutAt(ps'[p], pending[p], r, x)
                     /\ (call.done + 1 >= 2 /\ c \notin gone) => InAt(ps'[c], pending[c], r, x)
            BY <1>1 DEF TransferRight
        <3>4. (call.done >= 1 /\ p \notin gone) => OutAt(ps[p], pending[p], r, x)
            BY DEF MailInv, TransferRight
        <3> HIDE DEF p, c, x, r
        <3>5. CASE call.done = 0 /\ q.kind = "Store" /\ w = p
            <4>1. ps'[w].out[r] = x
                BY <2>6, <3>1, <3>5 DEF OutAfter, r, x
            <4>2. ~(call.done + 1 >= 2)
                BY <3>5
            <4>3. QED
                BY <1>2, <3>5, <4>1, <4>2
        <3>6. CASE call.done = 1 /\ q.kind = "Deliver" /\ w = c
            <4>1. ps'[w].in[r] = x
                BY <2>6, <3>1, <3>6 DEF InAfter, r, x
            <4>2. ps'[p] = ps[p]
                BY <1>1, <3>2, <3>3, <3>6
            <4>3. QED
                BY <1>2, <3>4, <3>6, <4>1, <4>2
        <3>7. QED
            BY <3>1, <3>5, <3>6
    <2>10. ClearRight'
        <3> SUFFICES ASSUME call.name = "Clear", NEW v \in Workers, v \notin gone,
                            v <= call.done + 1, NEW r \in RouteIndexes
                     PROVE  OutAt(ps'[v], pending[v], r, None) /\ InAt(ps'[v], pending[v], r, None)
            BY <1>1 DEF ClearRight
        <3>1. w = call.done + 1 /\ q.kind = "Clear"
            BY <1>1, TurnOfLoop DEF LoopKind
        <3>2. CASE v = w
            <4>1. ps'[w].out[r] = None /\ ps'[w].in[r] = None
                BY <2>6, <3>1 DEF OutAfter, InAfter
            <4>2. QED
                BY <1>2, <3>2, <4>1
        <3>3. CASE v # w
            <4>1. v \in Nat
                BY SessionAssumption DEF Workers
            <4>2. v <= call.done
                BY <2>1, <3>1, <3>3, <4>1
            <4>3. OutAt(ps[v], pending[v], r, None) /\ InAt(ps[v], pending[v], r, None)
                BY <4>2 DEF MailInv, ClearRight
            <4>4. QED
                BY <1>1, <3>3, <4>3
        <3>4. QED
            BY <3>2, <3>3
    <2>11. QED
        BY <2>7, <2>8, <2>9, <2>10 DEF MailInv
<1>5. QED
    BY <1>3, <1>4 DEF BaseInv, Types

LEMMA MailFails ==
    ASSUME BaseInv, MailInv, NEW waits \in BOOLEAN, Fails(waits)
    PROVE  MailInv'
<1>1. /\ call # NoCall /\ call.todo # <<>> /\ call' = NoCall /\ ps' = ps
      /\ \A v \in Workers : pending'[v] = IF waits /\ v = Turn.worker
                                          THEN Append(pending[v], Turn) ELSE pending[v]
      /\ stale' = IF waits /\ Unseen(Turn) THEN stale \cup {Turn.worker} ELSE stale
      /\ UNCHANGED <<session, mailboxes, latest, gone>>
      /\ dirty' = IF waits \/ call.done > 0 THEN dirty \cup Touched ELSE dirty
    BY DEF Fails
<1>2. call'.name = "none"
    BY <1>1 DEF NoCall
<1>3. TransferRight' /\ ClearRight'
    BY <1>2 DEF TransferRight, ClearRight
<1>4. DOMAIN latest = RouteIndexes
    BY DEF MailInv, RoutesRight
<1>5. CASE ~session
    BY <1>1, <1>3, <1>4, <1>5 DEF MailInv, CountsRight, RoutesRight
<1>6. CASE session
    <2>1. /\ call.done \in Nat
          /\ \A r \in RouteIndexes : r \notin Touched =>
                ~WaitsForOut(Turn, r) /\ ~WaitsForIn(Turn, r)
        BY <1>1, <1>6, TurnTouches
    <2>2. \A v \in Workers : Seqs!IsSeq(pending[v])
        BY DEF BaseInv, Types
    <2>3. CountsRight'
        <3>1. /\ DOMAIN mailboxes = Workers
              /\ \A v \in Workers \ (stale \cup gone) : CountAt(ps[v], pending[v], mailboxes[v])
            BY <1>6 DEF MailInv, CountsRight
        <3>2. ASSUME NEW v \in Workers, v \notin stale', v \notin gone
              PROVE  CountAt(ps[v], pending'[v], mailboxes[v])
            <4>1. CountAt(ps[v], pending[v], mailboxes[v])
                BY <1>1, <3>1, <3>2
            <4>2. CASE waits /\ v = Turn.worker
                <5>1. ~Unseen(Turn)
                    BY <1>1, <3>2, <4>2
                <5>2. CountAt(ps[v], Append(pending[v], Turn), mailboxes[v])
                    BY <2>2, <4>1, <5>1, OneMoreWaits
                <5>3. QED
                    BY <1>1, <4>2, <5>2
            <4>3. CASE ~(waits /\ v = Turn.worker)
                BY <1>1, <4>1, <4>3
            <4>4. QED
                BY <4>2, <4>3
        <3>3. QED
            BY <1>1, <3>1, <3>2 DEF CountsRight
    <2>4. ASSUME NEW r \in RouteIndexes, r \notin dirty'
          PROVE  /\ Routes[r].producer \notin gone =>
                       OutAt(ps[Routes[r].producer], pending'[Routes[r].producer], r, latest[r])
                 /\ Routes[r].consumer \notin gone =>
                       InAt(ps[Routes[r].consumer], pending'[Routes[r].consumer], r, latest[r])
        <3> DEFINE p == Routes[r].producer
                   c == Routes[r].consumer
        <3>1. p \in Workers /\ c \in Workers
            BY SessionAssumption
        <3>2. r \notin dirty /\ (waits => r \notin Touched)
              /\ (call.done = 0 \/ r \notin Touched)
            BY <1>1, <2>1, <2>4
        <3>3. /\ p \notin gone => OutAt(ps[p], pending[p], r, latest[r])
              /\ c \notin gone => InAt(ps[c], pending[c], r, latest[r])
            BY <1>6, <3>2 DEF MailInv, RoutesRight
        <3> HIDE DEF p, c
        <3>4. ASSUME waits
              PROVE  ~WaitsForOut(Turn, r) /\ ~WaitsForIn(Turn, r)
            BY <2>1, <3>2, <3>4
        <3>5. p \notin gone => OutAt(ps[p], pending'[p], r, latest[r])
            <4>1. CASE waits /\ p = Turn.worker
                <5>1. p \notin gone => OutAt(ps[p], Append(pending[p], Turn), r, latest[r])
                    BY <2>2, <3>1, <3>3, <3>4, <4>1, OneMoreWaits
                <5>2. QED
                    BY <1>1, <3>1, <4>1, <5>1
            <4>2. CASE ~(waits /\ p = Turn.worker)
                BY <1>1, <3>1, <3>3, <4>2
            <4>3. QED
                BY <4>1, <4>2
        <3>6. c \notin gone => InAt(ps[c], pending'[c], r, latest[r])
            <4>1. CASE waits /\ c = Turn.worker
                <5>1. c \notin gone => InAt(ps[c], Append(pending[c], Turn), r, latest[r])
                    BY <2>2, <3>1, <3>3, <3>4, <4>1, OneMoreWaits
                <5>2. QED
                    BY <1>1, <3>1, <4>1, <5>1
            <4>2. CASE ~(waits /\ c = Turn.worker)
                BY <1>1, <3>1, <3>3, <4>2
            <4>3. QED
                BY <4>1, <4>2
        <3>7. QED
            BY <3>5, <3>6 DEF p, c
    <2>5. RoutesRight'
        BY <1>1, <1>4, <2>4 DEF RoutesRight
    <2>6. QED
        BY <1>3, <2>3, <2>5 DEF MailInv
<1>7. QED
    BY <1>5, <1>6 DEF BaseInv, Types

(* A call that has been through all its requests.                          *)
LEMMA CallComplete ==
    ASSUME BaseInv, call.todo = <<>>
    PROVE  /\ call.name \in {"Run", "Collect", "Clear"} => call.done = NumWorkers
           /\ call.name = "Transfer" => call.done = 2
<1>1. Len(call.todo) = 0
    BY EmptyIsSeq
<1>2. CASE call.name \in {"Run", "Collect", "Clear"}
    <2>1. call.done \in 0..NumWorkers /\ 0 = NumWorkers - call.done /\ NumWorkers \in Nat
        BY <1>1, <1>2, SessionAssumption DEF BaseInv, CallProgress, LoopProgress
    <2>2. call.done = NumWorkers
        BY <2>1
    <2>3. QED
        BY <1>2, <2>2
<1>3. CASE call.name = "Transfer"
    <2>1. call.done = 2 \/ call.todo = TransferRequests(call.arg)
             \/ call.todo = <<Request(Routes[call.arg.route].consumer, "Deliver", call.arg)>>
        BY <1>3 DEF BaseInv, CallProgress, RouteProgress
    <2>2. call.done = 2
        BY <1>1, <2>1 DEF TransferRequests
    <2>3. QED
        BY <1>3, <2>2
<1>4. QED
    BY <1>2, <1>3

(* The mailboxes of a new worker.                                          *)
LEMMA NewMailboxes ==
    /\ MailboxReport(NewWorker) = [out |-> 0, in |-> 0]
    /\ \A r \in RouteIndexes : NewWorker.out[r] = None /\ NewWorker.in[r] = None
<1>1. \A r \in RouteIndexes : NewWorker.out[r] = None /\ NewWorker.in[r] = None
    BY NewRecord DEF EmptyMailbox
<1>2. /\ {r \in RouteIndexes : NewWorker.out[r] # None} = {}
      /\ {r \in RouteIndexes : NewWorker.in[r] # None} = {}
    BY <1>1
<1>3. Cardinality({}) = 0
    BY FS_EmptySet
<1>4. QED
    BY <1>1, <1>2, <1>3 DEF MailboxReport

LEMMA MailReturn ==
    ASSUME BaseInv, MailInv, Return
    PROVE  MailInv'
<1>1. /\ call # NoCall /\ call.todo = <<>> /\ call' = NoCall
      /\ UNCHANGED <<ps, pending, stale, gone>>
      /\ ReturnDeploy \/ ReturnAction \/ ReturnMailboxes
    BY DEF Return, InCall, workerVars
<1>2. call'.name = "none"
    BY <1>1 DEF NoCall
<1>3. TransferRight' /\ ClearRight'
    BY <1>2 DEF TransferRight, ClearRight
<1>4. DOMAIN latest = RouteIndexes
    BY DEF MailInv, RoutesRight
<1>5. \A r \in RouteIndexes : Routes[r].producer \in Workers /\ Routes[r].consumer \in Workers
    BY SessionAssumption
<1>6. CASE ReturnDeploy
    <2>1. /\ call.name = "Deploy" /\ session' = TRUE /\ UNCHANGED <<latest, dirty>>
          /\ mailboxes' = [w \in Workers |-> [out |-> 0, in |-> 0]]
        BY <1>6 DEF ReturnDeploy
    <2>2. /\ latest = EmptyMailbox
          /\ \A w \in Workers : /\ pending[w] = <<>>
                                /\ ps[w] = NewWorker \/ w \in gone
        BY <1>1, <2>1, DeployComplete
    <2>3. \A r \in RouteIndexes : latest[r] = None
        BY <2>2 DEF EmptyMailbox
    <2>4. ASSUME NEW w \in Workers, w \notin gone
          PROVE  /\ CountAt(ps[w], pending[w], [out |-> 0, in |-> 0])
                 /\ \A r \in RouteIndexes : /\ OutAt(ps[w], pending[w], r, None)
                                            /\ InAt(ps[w], pending[w], r, None)
        <3>1. pending[w] = <<>> /\ ps[w] = NewWorker
            BY <2>2, <2>4
        <3>2. QED
            BY <3>1, NothingWaits, NewMailboxes
    <2>5. CountsRight'
        BY <1>1, <2>1, <2>4 DEF CountsRight
    <2>6. RoutesRight'
        BY <1>1, <1>4, <1>5, <2>1, <2>3, <2>4 DEF RoutesRight
    <2>7. QED
        BY <1>3, <2>5, <2>6 DEF MailInv
<1>7. CASE ReturnAction \/ ReturnMailboxes
    <2>1. UNCHANGED <<session, mailboxes>>
        BY <1>7 DEF ReturnAction, ReturnMailboxes, sessionVars
    <2>2. CountsRight'
        BY <1>1, <2>1 DEF MailInv, CountsRight
    <2> DEFINE Right(r) ==
                  session => /\ Routes[r].producer \notin gone =>
                                   OutAt(ps[Routes[r].producer], pending[Routes[r].producer], r,
                                         latest'[r])
                             /\ Routes[r].consumer \notin gone =>
                                   InAt(ps[Routes[r].consumer], pending[Routes[r].consumer], r,
                                        latest'[r])
    <2>3. ASSUME NEW r \in RouteIndexes, r \notin dirty, r \notin Touched, latest'[r] = latest[r]
          PROVE  Right(r)
        BY <2>3 DEF MailInv, RoutesRight
    <2>4. DOMAIN latest' = RouteIndexes /\ \A r \in RouteIndexes \ dirty' : Right(r)
        <3>1. CASE ReturnAction
            <4>1. UNCHANGED <<latest, dirty>> /\ call.name = "Run"
                BY <3>1 DEF ReturnAction
            <4>2. Touched = {}
                BY <4>1 DEF Touched, Routed
            <4>3. QED
                BY <1>4, <2>3, <4>1, <4>2
        <3>2. CASE ReturnMailboxes /\ call.name = "Transfer"
            <4> DEFINE t == call.arg.route
                       x == call.arg.payload
            <4>1. latest' = [latest EXCEPT ![t] = x] /\ dirty' = dirty \ {t}
                BY <3>2 DEF ReturnMailboxes
            <4>2. t \in RouteIndexes /\ Touched = {t} /\ call.done = 2
                BY <1>1, <3>2, CallComplete
                DEF Touched, Routed, BaseInv, CallProgress, RouteProgress
            <4>3. DOMAIN latest' = RouteIndexes /\ latest'[t] = x
                  /\ \A r \in RouteIndexes : r # t => latest'[r] = latest[r]
                BY <1>4, <4>1, <4>2
            <4>4. Right(t)
                <5>1. 2 >= 1 /\ 2 >= 2
                    OBVIOUS
                <5>2. /\ Routes[t].producer \notin gone =>
                            OutAt(ps[Routes[t].producer], pending[Routes[t].producer], t, x)
                      /\ Routes[t].consumer \notin gone =>
                            InAt(ps[Routes[t].consumer], pending[Routes[t].consumer], t, x)
                    BY <3>2, <4>2, <5>1 DEF MailInv, TransferRight
                <5>3. QED
                    BY <4>3, <5>2
            <4> HIDE DEF t, x, Right
            <4>5. ASSUME NEW r \in RouteIndexes, r \notin dirty' PROVE Right(r)
                <5>1. CASE r = t
                    BY <4>4, <5>1
                <5>2. CASE r # t
                    <6>1. r \notin dirty /\ r \notin Touched /\ latest'[r] = latest[r]
                        BY <4>1, <4>2, <4>3, <4>5, <5>2
                    <6>2. QED
                        BY <2>3, <6>1
                <5>3. QED
                    BY <5>1, <5>2
            <4>6. QED
                BY <4>3, <4>5
        <3>3. CASE ReturnMailboxes /\ call.name = "Clear"
            <4>1. latest' = EmptyMailbox
                BY <3>3 DEF ReturnMailboxes
            <4>2. DOMAIN latest' = RouteIndexes /\ \A r \in RouteIndexes : latest'[r] = None
                BY <4>1 DEF EmptyMailbox
            <4>3. \A w \in Workers : w <= call.done
                <5>1. call.done = NumWorkers
                    BY <1>1, <3>3, CallComplete
                <5>2. QED
                    BY <5>1, SessionAssumption DEF Workers
            <4>4. \A w \in Workers \ gone : \A r \in RouteIndexes :
                     OutAt(ps[w], pending[w], r, None) /\ InAt(ps[w], pending[w], r, None)
                BY <3>3, <4>3 DEF MailInv, ClearRight
            <4>5. QED
                BY <1>5, <4>2, <4>4
        <3>4. CASE ReturnMailboxes /\ call.name \notin {"Transfer", "Clear"}
            <4>1. latest' = latest /\ dirty' = dirty \cup Touched
                BY <3>4 DEF ReturnMailboxes
            <4>2. QED
                BY <1>4, <2>3, <4>1
        <3>5. QED
            BY <1>7, <3>1, <3>2, <3>3, <3>4
    <2>5. RoutesRight'
        BY <1>1, <2>1, <2>4 DEF RoutesRight
    <2>6. QED
        BY <1>3, <2>2, <2>5 DEF MailInv
<1>8. QED
    BY <1>1, <1>6, <1>7

LEMMA MailReads ==
    ASSUME BaseInv, MailInv, NEW w, NEW q, NEW n, Reads(w, q, n)
    PROVE  MailInv'
<1>1. /\ w \in Workers /\ n \in Nat \ {0} /\ Len(pending[w]) = n /\ q = pending[w][1]
      /\ ps'[w] = IF Accepted(ps[w], q) THEN After(ps[w], q) ELSE ps[w]
      /\ Len(pending'[w]) = n - 1
      /\ \A i \in 1..(n - 1) : i + 1 \in 1..n /\ pending'[w][i] = pending[w][i + 1]
      /\ \A v \in Workers : v # w => ps'[v] = ps[v] /\ pending'[v] = pending[v]
      /\ UNCHANGED <<session, mailboxes, call, latest, dirty, stale, gone>>
    BY DEF Reads
<1>2. DOMAIN latest = RouteIndexes
    BY DEF MailInv, RoutesRight
<1>3. CASE ~session
    <2>1. call = NoCall \/ call.name = "Deploy"
        BY <1>3 DEF BaseInv, Members
    <2>2. call.name \notin {"Transfer", "Clear"}
        BY <2>1 DEF NoCall
    <2>3. QED
        BY <1>1, <1>2, <1>3, <2>2 DEF MailInv, CountsRight, RoutesRight, TransferRight, ClearRight
<1>4. CASE session
    <2>1. ASSUME NEW v \in Workers, v \notin gone
          PROVE  /\ \A r \in RouteIndexes : \A payload :
                       OutAt(ps[v], pending[v], r, payload) => OutAt(ps'[v], pending'[v], r, payload)
                 /\ \A r \in RouteIndexes : \A payload :
                       InAt(ps[v], pending[v], r, payload) => InAt(ps'[v], pending'[v], r, payload)
                 /\ \A count :
                       CountAt(ps[v], pending[v], count) => CountAt(ps'[v], pending'[v], count)
        <3>1. CASE v # w
            BY <1>1, <3>1
        <3>2. CASE v = w
            <4>1. WorkerRecord(ps[w]) /\ q.kind # "Init"
                <5>1. 1 \in 1..n
                    BY <1>1
                <5>2. QED
                    BY <1>1, <1>4, <2>1, <3>2, <5>1, MemberRecord
            <4> DEFINE s == ps[w]
                       t == ps'[w]
                       waiting == pending[w]
                       rest == pending'[w]
            <4>2. /\ WorkerRecord(s) /\ Len(waiting) = n /\ waiting[1].kind # "Init"
                  /\ t = IF Accepted(s, waiting[1]) THEN After(s, waiting[1]) ELSE s
                  /\ Len(rest) = n - 1
                  /\ \A i \in 1..(n - 1) : i + 1 \in 1..n /\ rest[i] = waiting[i + 1]
                BY <1>1, <4>1
            <4>3. n \in Nat \ {0}
                BY <1>1
            <4> HIDE DEF s, t, waiting, rest
            <4>4. /\ \A r \in RouteIndexes : \A payload :
                       OutAt(s, waiting, r, payload) => OutAt(t, rest, r, payload)
                  /\ \A r \in RouteIndexes : \A payload :
                       InAt(s, waiting, r, payload) => InAt(t, rest, r, payload)
                  /\ \A count : CountAt(s, waiting, count) => CountAt(t, rest, count)
                BY <4>2, <4>3, OneLessWaits
            <4>5. QED
                BY <3>2, <4>4 DEF s, t, waiting, rest
        <3>3. QED
            BY <3>1, <3>2
    <2>2. CountsRight'
        BY <1>1, <1>4, <2>1 DEF MailInv, CountsRight
    <2>3. \A r \in RouteIndexes : Routes[r].producer \in Workers /\ Routes[r].consumer \in Workers
        BY SessionAssumption
    <2>4. RoutesRight'
        <3>1. Touched' = Touched
            BY <1>1 DEF Touched
        <3>2. QED
            BY <1>1, <1>2, <1>4, <2>1, <2>3, <3>1 DEF MailInv, RoutesRight
    <2>5. TransferRight'
        <3>1. call.name = "Transfer" => call.arg.route \in RouteIndexes
            BY DEF BaseInv, CallProgress, RouteProgress, Routed
        <3>2. QED
            BY <1>1, <2>1, <2>3, <3>1 DEF MailInv, TransferRight
    <2>6. ClearRight'
        BY <1>1, <2>1 DEF MailInv, ClearRight
    <2>7. QED
        BY <2>2, <2>4, <2>5, <2>6 DEF MailInv
<1>5. QED
    BY <1>3, <1>4 DEF BaseInv, Types

LEMMA MailEnds ==
    ASSUME BaseInv, MailInv, NEW w, Ends(w)
    PROVE  MailInv'
<1>1. /\ w \in Workers
      /\ \A v \in Workers : v # w => ps'[v] = ps[v] /\ pending'[v] = pending[v]
      /\ gone' = gone \cup {w}
      /\ UNCHANGED <<session, mailboxes, call, latest, dirty, stale>>
    BY DEF Ends
<1>2. CountsRight'
    BY <1>1 DEF MailInv, CountsRight
<1>3. \A r \in RouteIndexes : Routes[r].producer \in Workers /\ Routes[r].consumer \in Workers
    BY SessionAssumption
<1>4. RoutesRight'
    <2>1. Touched' = Touched
        BY <1>1 DEF Touched
    <2>2. QED
        BY <1>1, <1>3, <2>1 DEF MailInv, RoutesRight
<1>5. TransferRight'
    <2>1. call.name = "Transfer" => call.arg.route \in RouteIndexes
        BY DEF BaseInv, CallProgress, RouteProgress, Routed
    <2>2. QED
        BY <1>1, <1>3, <2>1 DEF MailInv, TransferRight
<1>6. ClearRight'
    BY <1>1 DEF MailInv, ClearRight
<1>7. QED
    BY <1>2, <1>4, <1>5, <1>6 DEF MailInv

LEMMA MailBegun ==
    ASSUME MailInv, NEW name, NEW arg, NEW todo, NEW missing, Begun(name, arg, todo, missing)
    PROVE  MailInv'
<1>1. /\ call = NoCall /\ call'.done = 0
      /\ UNCHANGED <<ps, pending, session, mailboxes, latest, dirty, stale, gone>>
    BY BegunFields DEF Begun
<1>2. CountsRight'
    BY <1>1 DEF MailInv, CountsRight
<1>3. RoutesRight'
    BY <1>1 DEF MailInv, RoutesRight
<1>4. TransferRight'
    BY <1>1 DEF TransferRight
<1>5. ClearRight'
    <2>1. \A w \in Workers : ~(w <= 0)
        BY SessionAssumption DEF Workers
    <2>2. QED
        BY <1>1, <2>1 DEF ClearRight
<1>6. QED
    BY <1>2, <1>3, <1>4, <1>5 DEF MailInv

LEMMA MailDeploy ==
    ASSUME DeployBegun
    PROVE  MailInv'
<1>1. ~session' /\ call'.name = "Deploy" /\ DOMAIN latest' = RouteIndexes
    BY DEF DeployBegun, EmptyMailbox
<1>2. QED
    BY <1>1 DEF MailInv, CountsRight, RoutesRight, TransferRight, ClearRight

LEMMA MailDrops ==
    ASSUME MailInv, Drops
    PROVE  MailInv'
<1>1. ~session' /\ call'.name = "none" /\ DOMAIN latest' = RouteIndexes
    BY DEF Drops, NoCall, MailInv, RoutesRight
<1>2. QED
    BY <1>1 DEF MailInv, CountsRight, RoutesRight, TransferRight, ClearRight

LEMMA MailQuiet ==
    ASSUME MailInv, Quiet
    PROVE  MailInv'
<1>1. UNCHANGED <<ps, pending, session, mailboxes, call, latest, dirty, stale, gone>>
    BY DEF Quiet
<1>2. Touched' = Touched
    BY <1>1 DEF Touched
<1>3. CountsRight' /\ TransferRight' /\ ClearRight'
    BY <1>1 DEF MailInv, CountsRight, TransferRight, ClearRight
<1>4. RoutesRight'
    BY <1>1, <1>2 DEF MailInv, RoutesRight
<1>5. QED
    BY <1>3, <1>4 DEF MailInv

LEMMA MailStep ==
    ASSUME BaseInv, MailInv, SessionStep
    PROVE  MailInv'
<1>1. ASSUME NEW q, NEW w, Answers(q, w) PROVE MailInv'
    BY <1>1, MailAnswer
<1>2. ASSUME NEW waits \in BOOLEAN, Fails(waits) PROVE MailInv'
    BY <1>2, MailFails
<1>3. ASSUME NEW w, NEW q, NEW n, Reads(w, q, n) PROVE MailInv'
    BY <1>3, MailReads
<1>4. ASSUME NEW w, Ends(w) PROVE MailInv'
    BY <1>4, MailEnds
<1>5. ASSUME NEW name, NEW arg, NEW todo, NEW missing, CallOf(name, arg, todo, missing)
      PROVE  MailInv'
    BY <1>5, MailBegun DEF CallOf
<1>6. QED
    BY <1>1, <1>2, <1>3, <1>4, <1>5, MailReturn, MailDeploy, MailDrops, MailQuiet DEF SessionStep

(* The mailboxes: between calls the two ends of a route agree with its     *)
(* latest transfer, and the session's counts are the workers', for every   *)
(* launch and any number of faults.                                        *)
THEOREM MailboxesAreFaithful == Spec => []MailboxesFaithful
<1>1. Init => MailInv
    BY MailInit
<1>2. ASSUME BaseInv, ScriptInv, MailInv, [Next]_vars
      PROVE  MailInv'
    BY <1>2, StepIs, MailStep
<1>3. ASSUME MailInv PROVE MailboxesFaithful
    <2>1. MailboxesCurrent
        BY <1>3 DEF MailInv, CountsRight, CountAt, MailboxesCurrent
    <2>2. RoutesAgree
        BY <1>3 DEF MailInv, RoutesRight, OutAt, InAt, RoutesAgree
    <2>3. QED
        BY <2>1, <2>2 DEF MailboxesFaithful
<1>4. QED
    BY <1>1, <1>2, <1>3, SessionProgress, PTL DEF Spec

-----------------------------------------------------------------------------
(* Actions: how many of the requests that wait are actions of kind k.      *)

LEMMA RunsFinite ==
    ASSUME NEW waiting, NEW k, Len(waiting) \in Nat
    PROVE  IsFiniteSet(RunsAt(waiting, k)) /\ Runs(waiting, k) \in Nat
<1> DEFINE n == Len(waiting)
           S == RunsAt(waiting, k)
<1>1. IsFiniteSet(1..n)
    BY FS_Interval
<1>2. S \in SUBSET (1..n)
    BY DEF RunsAt
<1> HIDE DEF n, S
<1>3. IsFiniteSet(S)
    BY <1>1, <1>2, FS_Subset
<1>4. QED
    BY <1>3, FS_CardinalityType DEF S, Runs

LEMMA NoRuns ==
    ASSUME NEW k
    PROVE  Runs(<<>>, k) = 0
<1>1. RunsAt(<<>>, k) = {}
    BY EmptyIsSeq DEF RunsAt
<1>2. QED
    BY <1>1, FS_EmptySet DEF Runs

LEMMA OneMoreRuns ==
    ASSUME NEW waiting, NEW q, NEW k, Seqs!IsSeq(waiting)
    PROVE  Runs(Append(waiting, q), k) = Runs(waiting, k) + One(IsRun(q, k))
<1> DEFINE n == Len(waiting)
           more == Append(waiting, q)
           S == RunsAt(waiting, k)
           T == RunsAt(more, k)
<1>1. /\ n \in Nat /\ Len(more) = n + 1 /\ more[n + 1] = q
      /\ \A i \in 1..n : more[i] = waiting[i]
    BY Seqs!AppendSeq, Seqs!LenSeq
<1>2. IsFiniteSet(S) /\ Cardinality(S) \in Nat
    BY <1>1, RunsFinite DEF Runs
<1> HIDE DEF n, more
<1>3. 1..(n + 1) = (1..n) \cup {n + 1} /\ n + 1 \notin 1..n
    BY <1>1
<1>4. /\ S = {i \in 1..n : IsRun(waiting[i], k)}
      /\ T = {i \in 1..(n + 1) : IsRun(more[i], k)}
    BY <1>1 DEF RunsAt, n
<1> HIDE DEF S, T
<1>5. CASE IsRun(q, k)
    <2>1. T = S \cup {n + 1} /\ n + 1 \notin S
        BY <1>1, <1>3, <1>4, <1>5
    <2>2. Cardinality(T) = Cardinality(S) + 1
        BY <1>2, <2>1, FS_AddElement
    <2>3. QED
        BY <1>5, <2>2 DEF Runs, One, S, T, more
<1>6. CASE ~IsRun(q, k)
    <2>1. T = S
        BY <1>1, <1>3, <1>4, <1>6
    <2>2. Cardinality(S) = Cardinality(S) + 0
        BY <1>2
    <2>3. QED
        BY <1>6, <2>1, <2>2 DEF Runs, One, S, T, more
<1>7. QED
    BY <1>5, <1>6

LEMMA OneLessRuns ==
    ASSUME NEW waiting, NEW n \in Nat \ {0}, NEW rest, NEW k,
           Len(waiting) = n, Len(rest) = n - 1,
           \A i \in 1..(n - 1) : i + 1 \in 1..n /\ rest[i] = waiting[i + 1]
    PROVE  Runs(waiting, k) = Runs(rest, k) + One(IsRun(waiting[1], k))
<1> DEFINE S == RunsAt(rest, k)
           U == {i \in 2..n : IsRun(waiting[i], k)}
           T == RunsAt(waiting, k)
<1>1. n - 1 \in Nat
    OBVIOUS
<1>2. IsFiniteSet(S) /\ Cardinality(S) \in Nat
    BY <1>1, RunsFinite DEF Runs
<1>3. /\ S = {i \in 1..(n - 1) : IsRun(rest[i], k)}
      /\ T = {i \in 1..n : IsRun(waiting[i], k)}
    BY DEF RunsAt
<1>4. IsFiniteSet(U) /\ Cardinality(U) = Cardinality(S)
    <2> DEFINE f == [i \in S |-> i + 1]
    <2>1. \A i \in 1..(n - 1) : i + 1 \in 2..n
        OBVIOUS
    <2>2. f \in [S -> U]
        BY <1>3, <2>1
    <2>3. \A i, j \in S : f[i] = f[j] => i = j
        BY <1>3
    <2>4. \A u \in U : \E i \in S : f[i] = u
        <3> TAKE u \in U
        <3>1. u \in 2..n /\ u - 1 \in 1..(n - 1) /\ (u - 1) + 1 = u
            OBVIOUS
        <3>2. u - 1 \in S
            BY <1>3, <3>1
        <3>3. QED
            BY <3>1, <3>2
    <2> HIDE DEF f, S, U
    <2>5. f \in Bijection(S, U)
        BY <2>2, <2>3, <2>4 DEF Bijection, Injection, Surjection, IsInjective
    <2>6. ExistsBijection(S, U)
        BY <2>5 DEF ExistsBijection
    <2>7. QED
        BY <1>2, <2>6, FS_Bijection
<1>5. 1..n = {1} \cup (2..n) /\ 1 \notin 2..n
    OBVIOUS
<1>6. CASE IsRun(waiting[1], k)
    <2>1. T = U \cup {1} /\ 1 \notin U
        BY <1>3, <1>5, <1>6
    <2> HIDE DEF T, U, S
    <2>2. Cardinality(U \cup {1}) = IF 1 \in U THEN Cardinality(U) ELSE Cardinality(U) + 1
        BY <1>4, FS_AddElement
    <2>3. Cardinality(T) = Cardinality(S) + 1
        BY <1>4, <2>1, <2>2
    <2>4. QED
        BY <1>6, <2>3 DEF Runs, One, S, T
<1>7. CASE ~IsRun(waiting[1], k)
    <2>1. T = U
        BY <1>3, <1>5, <1>7
    <2> HIDE DEF T, U, S
    <2>2. Cardinality(T) = Cardinality(S) + 0
        BY <1>2, <1>4, <2>1
    <2>3. QED
        BY <1>7, <2>2 DEF Runs, One, S, T
<1>8. QED
    BY <1>6, <1>7

LEMMA DoneIsNat ==
    ASSUME BaseInv, session, NEW w \in Workers, w \notin gone, NEW k \in Counters
    PROVE  Done(ps[w], pending[w], k) \in Nat
<1>1. WorkerRecord(ps[w]) /\ Seqs!IsSeq(pending[w])
    BY MemberRecord
<1>2. ps[w].ops[k] \in Nat
    BY <1>1 DEF WorkerRecord
<1>3. Runs(pending[w], k) \in Nat
    BY <1>1, Seqs!LenSeq, RunsFinite
<1>4. QED
    BY <1>2, <1>3 DEF Done

LEMMA NowIs ==
    ASSUME NEW w, NEW k
    PROVE  Now(w, k) \in {0, 1} /\ Now(w, k)' \in {0, 1}
BY DEF Now, One

LEMMA CountedInit == Init => ActionsCounted
BY DEF Init, ActionsCounted, Zeros

(* The workers have done as many more actions as have been answered.       *)
LEMMA CountedKept ==
    ASSUME BaseInv, ActionsCounted, session' => session, UNCHANGED <<recorded, failed>>,
           gone \subseteq gone',
           session' =>
              \A w \in Workers \ gone', k \in Counters :
                 Done(ps'[w], pending'[w], k) =
                    Done(ps[w], pending[w], k) + (Now(w, k)' - Now(w, k))
    PROVE  ActionsCounted'
<1> SUFFICES ASSUME session', NEW k \in Counters
             PROVE  /\ \A w \in Workers \ gone' :
                          /\ recorded[k] + Now(w, k)' <= Done(ps'[w], pending'[w], k)
                          /\ Done(ps'[w], pending'[w], k) <= recorded[k] + Now(w, k)' + failed[k]
                    /\ \A v, w \in Workers \ gone' : v < w =>
                          Done(ps'[v], pending'[v], k) - Now(v, k)'
                             >= Done(ps'[w], pending'[w], k) - Now(w, k)'
    BY DEF ActionsCounted
<1> DEFINE rec == recorded[k]
           fld == failed[k]
           a(w) == Done(ps[w], pending[w], k)
           b(w) == Done(ps'[w], pending'[w], k)
           m(w) == Now(w, k)
           n(w) == Now(w, k)'
<1>1. rec \in Nat /\ fld \in Nat
    BY DEF ActionsCounted
<1>2. \A w \in Workers \ gone' :
         /\ a(w) \in Nat /\ m(w) \in {0, 1} /\ n(w) \in {0, 1}
         /\ b(w) = a(w) + (n(w) - m(w))
         /\ rec + m(w) <= a(w) /\ a(w) <= rec + m(w) + fld
    BY DoneIsNat, NowIs DEF ActionsCounted
<1>3. \A v, w \in Workers \ gone' : v < w => a(v) - m(v) >= a(w) - m(w)
    BY DEF ActionsCounted
<1> HIDE DEF rec, fld, a, b, m, n
<1>4. \A w \in Workers \ gone' : rec + n(w) <= b(w) /\ b(w) <= rec + n(w) + fld
    BY <1>1, <1>2
<1>5. \A w \in Workers \ gone' : b(w) - n(w) = a(w) - m(w)
    BY <1>2
<1>6. QED
    BY <1>3, <1>4, <1>5 DEF rec, fld, b, n

LEMMA CountedSame ==
    ASSUME BaseInv, ActionsCounted, UNCHANGED <<ps, pending, session, recorded, failed, gone>>,
           \A w \in Workers, k \in Counters : Now(w, k)' = Now(w, k)
    PROVE  ActionsCounted'
<1>1. ASSUME session, NEW w \in Workers \ gone, NEW k \in Counters
      PROVE  Done(ps'[w], pending'[w], k) = Done(ps[w], pending[w], k) + (Now(w, k)' - Now(w, k))
    <2> DEFINE a == Done(ps[w], pending[w], k)
               m == Now(w, k)
    <2>1. a \in Nat /\ m \in {0, 1}
        BY <1>1, DoneIsNat, NowIs
    <2> HIDE DEF a, m
    <2>2. a = a + (m - m)
        BY <2>1
    <2>3. QED
        BY <2>2 DEF a, m
<1>2. QED
    BY <1>1, CountedKept

LEMMA CountedAnswer ==
    ASSUME BaseInv, ActionsCounted, NEW q, NEW w, Answers(q, w)
    PROVE  ActionsCounted'
<1>1. /\ call # NoCall /\ call.todo # <<>> /\ q = Turn /\ w = q.worker /\ w \in Workers
      /\ pending[w] = <<>> /\ Accepted(ps[w], q) /\ ps'[w] = After(ps[w], q)
      /\ \A v \in Workers : v # w => ps'[v] = ps[v]
      /\ call'.name = call.name /\ call'.arg = call.arg /\ call'.done = call.done + 1
      /\ UNCHANGED <<pending, session, gone, recorded, failed>>
    BY DEF Answers
<1>2. ASSUME session, NEW v \in Workers, v \notin gone, NEW k \in Counters
      PROVE  Done(ps'[v], pending'[v], k) = Done(ps[v], pending[v], k) + (Now(v, k)' - Now(v, k))
    <2>1. call.name # "Deploy" /\ q.kind # "Init"
        BY <1>1, <1>2, TurnTouches DEF BaseInv, Deployed
    <2>2. IsRun(q, k) <=> (call.name = "Run" /\ call.arg = k)
        <3>1. CASE call.name \in {"Run", "Collect", "Clear"}
            BY <1>1, <3>1, TurnOfLoop DEF LoopKind, IsRun
        <3>2. CASE call.name \in Routed
            BY <1>1, <3>2, TurnOfRoute DEF IsRun, Routed
        <3>3. QED
            BY <1>1, <2>1, <3>1, <3>2 DEF BaseInv, CallProgress
    <2>3. ps[w] = NoWorker \/ WorkerRecord(ps[w])
        BY <1>1 DEF BaseInv, Types
    <2>4. ps'[w].ops[k] = ps[w].ops[k] + One(IsRun(q, k))
        BY <1>1, <2>1, <2>3, AfterIs DEF One
    <2> DEFINE a == Done(ps[v], pending[v], k)
    <2>5. a \in Nat
        BY <1>2, DoneIsNat
    <2>6. CASE v # w
        <3>1. Now(v, k)' = Now(v, k)
            <4>1. CASE call.name = "Run"
                <5>1. w = call.done + 1 /\ call.done \in Nat
                    BY <1>1, <4>1, TurnOfLoop
                <5>2. v \in Nat
                    BY SessionAssumption DEF Workers
                <5>3. v <= call.done + 1 <=> v <= call.done
                    BY <2>6, <5>1, <5>2
                <5>4. QED
                    BY <1>1, <5>3 DEF Now, One
            <4>2. CASE call.name # "Run"
                BY <1>1, <4>2 DEF Now, One
            <4>3. QED
                BY <4>1, <4>2
        <3>2. Now(v, k) \in {0, 1}
            BY NowIs
        <3>3. Done(ps'[v], pending'[v], k) = a
            BY <1>1, <2>6
        <3> HIDE DEF a
        <3>4. a = a + (Now(v, k) - Now(v, k))
            BY <2>5, <3>2
        <3>5. QED
            BY <3>1, <3>3, <3>4 DEF a
    <2>7. CASE v = w
        <3>1. Now(w, k)' = One(IsRun(q, k)) /\ Now(w, k) = 0
            <4>1. CASE call.name = "Run"
                <5>1. w = call.done + 1 /\ call.done \in Nat
                    BY <1>1, <4>1, TurnOfLoop
                <5>2. w <= call.done + 1 /\ ~(w <= call.done)
                    BY <5>1
                <5>3. QED
                    BY <1>1, <2>2, <5>2 DEF Now, One
            <4>2. CASE call.name # "Run"
                BY <1>1, <2>2, <4>2 DEF Now, One
            <4>3. QED
                BY <4>1, <4>2
        <3>2. Runs(pending[w], k) = 0
            BY <1>1, NoRuns
        <3> DEFINE x == ps[w].ops[k]
                   e == One(IsRun(q, k))
        <3>3. Done(ps'[v], pending'[v], k) = (x + e) + 0 /\ a = x + 0
            BY <1>1, <2>4, <2>7, <3>2 DEF Done
        <3>4. x \in Nat
            BY <1>1, <1>2, <2>7, MemberRecord DEF WorkerRecord
        <3>5. e \in {0, 1}
            BY DEF One
        <3> HIDE DEF x, e, a
        <3>6. (x + e) + 0 = a + (e - 0)
            BY <3>3, <3>4, <3>5
        <3>7. QED
            BY <2>7, <3>1, <3>3, <3>6 DEF a, e
    <2>8. QED
        BY <2>6, <2>7
<1>3. QED
    BY <1>1, <1>2, CountedKept

LEMMA CountedReads ==
    ASSUME BaseInv, ActionsCounted, NEW w, NEW q, NEW n, Reads(w, q, n)
    PROVE  ActionsCounted'
<1>1. /\ w \in Workers /\ n \in Nat \ {0} /\ Len(pending[w]) = n /\ q = pending[w][1]
      /\ ps'[w] = IF Accepted(ps[w], q) THEN After(ps[w], q) ELSE ps[w]
      /\ Seqs!IsSeq(pending'[w]) /\ Len(pending'[w]) = n - 1
      /\ \A i \in 1..(n - 1) : i + 1 \in 1..n /\ pending'[w][i] = pending[w][i + 1]
      /\ \A v \in Workers : v # w => ps'[v] = ps[v] /\ pending'[v] = pending[v]
      /\ UNCHANGED <<session, call, gone, recorded, failed>>
    BY DEF Reads
<1>2. ASSUME session, NEW v \in Workers, v \notin gone, NEW k \in Counters
      PROVE  Done(ps'[v], pending'[v], k) = Done(ps[v], pending[v], k) + (Now(v, k)' - Now(v, k))
    <2> DEFINE a == Done(ps[v], pending[v], k)
               m == Now(v, k)
    <2>1. a \in Nat /\ m \in {0, 1}
        BY <1>2, DoneIsNat, NowIs
    <2>2. Now(v, k)' = m
        BY <1>1 DEF Now
    <2>3. Done(ps'[v], pending'[v], k) = a
        <3>1. CASE v # w
            BY <1>1, <3>1
        <3>2. CASE v = w
            <4>1. WorkerRecord(ps[w]) /\ Seqs!IsSeq(pending[w]) /\ q.kind # "Init"
                <5>1. 1 \in 1..n
                    BY <1>1
                <5>2. QED
                    BY <1>1, <1>2, <3>2, <5>1, MemberRecord
            <4>2. ps'[w].ops[k] = ps[w].ops[k] + One(IsRun(q, k))
                <5>1. CASE Accepted(ps[w], q)
                    BY <1>1, <4>1, <5>1, AfterIs DEF One
                <5>2. CASE ~Accepted(ps[w], q)
                    <6>1. ~IsRun(q, k)
                        BY <4>1, <5>2, RecordFields DEF Accepted, IsRun
                    <6>2. ps[w].ops[k] \in Nat
                        BY <4>1 DEF WorkerRecord
                    <6>3. QED
                        BY <1>1, <5>2, <6>1, <6>2 DEF One
                <5>3. QED
                    BY <5>1, <5>2
            <4>3. Runs(pending[w], k) = Runs(pending'[w], k) + One(IsRun(q, k))
                <5> DEFINE waiting == pending[w]
                           rest == pending'[w]
                <5>1. /\ Len(waiting) = n /\ Len(rest) = n - 1 /\ q = waiting[1]
                      /\ \A i \in 1..(n - 1) : i + 1 \in 1..n /\ rest[i] = waiting[i + 1]
                    BY <1>1
                <5>2. n \in Nat \ {0}
                    BY <1>1
                <5> HIDE DEF waiting, rest
                <5>3. Runs(waiting, k) = Runs(rest, k) + One(IsRun(waiting[1], k))
                    BY <5>1, <5>2, OneLessRuns
                <5>4. QED
                    BY <5>1, <5>3 DEF waiting, rest
            <4> DEFINE x == ps[w].ops[k]
                       y == Runs(pending'[w], k)
                       e == One(IsRun(q, k))
            <4>4. Done(ps'[v], pending'[v], k) = (x + e) + y /\ a = x + (y + e)
                BY <3>2, <4>2, <4>3 DEF Done
            <4>5. x \in Nat /\ y \in Nat /\ e \in {0, 1}
                <5>1. n - 1 \in Nat
                    BY <1>1
                <5>2. QED
                    BY <1>1, <4>1, <5>1, RunsFinite DEF WorkerRecord, One
            <4> HIDE DEF x, y, e, a
            <4>6. QED
                BY <4>4, <4>5
        <3>3. QED
            BY <3>1, <3>2
    <2> HIDE DEF a, m
    <2>4. a = a + (m - m)
        BY <2>1
    <2>5. QED
        BY <2>2, <2>3, <2>4 DEF a, m
<1>3. QED
    BY <1>1, <1>2, CountedKept

LEMMA CountedEnds ==
    ASSUME BaseInv, ActionsCounted, NEW w, Ends(w)
    PROVE  ActionsCounted'
<1>1. /\ w \in Workers
      /\ \A v \in Workers : v # w => ps'[v] = ps[v] /\ pending'[v] = pending[v]
      /\ gone' = gone \cup {w}
      /\ UNCHANGED <<session, call, recorded, failed>>
    BY DEF Ends
<1>2. ASSUME session, NEW v \in Workers, v \notin gone', NEW k \in Counters
      PROVE  Done(ps'[v], pending'[v], k) = Done(ps[v], pending[v], k) + (Now(v, k)' - Now(v, k))
    <2> DEFINE a == Done(ps[v], pending[v], k)
               m == Now(v, k)
    <2>1. a \in Nat /\ m \in {0, 1}
        BY <1>1, <1>2, DoneIsNat, NowIs
    <2>2. Now(v, k)' = m
        BY <1>1 DEF Now
    <2>3. Done(ps'[v], pending'[v], k) = a
        BY <1>1, <1>2
    <2> HIDE DEF a, m
    <2>4. a = a + (m - m)
        BY <2>1
    <2>5. QED
        BY <2>2, <2>3, <2>4 DEF a, m
<1>3. QED
    BY <1>1, <1>2, CountedKept

LEMMA CountedIs ==
    ASSUME NEW ops, NEW kind, ops \in [Counters -> Nat]
    PROVE  /\ Counted(ops, kind) \in [Counters -> Nat]
           /\ \A k \in Counters : Counted(ops, kind)[k] = ops[k] + One(kind = k)
BY DEF Counted, One

(* Which workers have got the action in progress, or will: those asked     *)
(* before, and the next one if its request is on the way.                  *)
LEMMA CountedFails ==
    ASSUME BaseInv, ActionsCounted, NEW waits \in BOOLEAN, Fails(waits)
    PROVE  ActionsCounted'
<1>1. /\ call # NoCall /\ call.todo # <<>> /\ call' = NoCall /\ ps' = ps
      /\ \A v \in Workers : pending'[v] = IF waits /\ v = Turn.worker
                                          THEN Append(pending[v], Turn) ELSE pending[v]
      /\ UNCHANGED <<session, gone, recorded>>
      /\ failed' = IF call.name = "Run" /\ (waits \/ call.done > 0)
                   THEN Counted(failed, call.arg) ELSE failed
    BY DEF Fails
<1>2. recorded \in [Counters -> Nat] /\ failed \in [Counters -> Nat]
    BY DEF ActionsCounted
<1>3. failed' \in [Counters -> Nat]
    BY <1>1, <1>2, CountedIs
<1>4. call'.name = "none"
    BY <1>1 DEF NoCall
<1>5. \A w, k : Now(w, k)' = 0
    BY <1>4 DEF Now, One
<1>6. ASSUME session, NEW k \in Counters
      PROVE  /\ \A w \in Workers \ gone :
                   /\ recorded[k] + 0 <= Done(ps[w], pending'[w], k)
                   /\ Done(ps[w], pending'[w], k) <= recorded[k] + 0 + failed'[k]
             /\ \A v, w \in Workers \ gone : v < w =>
                   Done(ps[v], pending'[v], k) - 0 >= Done(ps[w], pending'[w], k) - 0
    <2> DEFINE rec == recorded[k]
               fld == failed[k]
               fld2 == failed'[k]
               d == call.done
               a(w) == Done(ps[w], pending[w], k)
               b(w) == Done(ps[w], pending'[w], k)
               m(w) == Now(w, k)
               e(w) == One(waits /\ w = Turn.worker /\ IsRun(Turn, k))
    <2>1. rec \in Nat /\ fld \in Nat /\ fld2 \in Nat
        BY <1>2, <1>3, <1>6
    <2>2. \A w \in Workers \ gone :
             /\ a(w) \in Nat /\ m(w) \in {0, 1} /\ e(w) \in {0, 1}
             /\ rec + m(w) <= a(w) /\ a(w) <= rec + m(w) + fld
        BY <1>6, DoneIsNat, NowIs DEF ActionsCounted, One
    <2>3. \A v, w \in Workers \ gone : v < w => a(v) - m(v) >= a(w) - m(w)
        BY <1>6 DEF ActionsCounted
    <2>4. \A w \in Workers \ gone : b(w) = a(w) + e(w)
        <3> TAKE w \in Workers \ gone
        <3> DEFINE x == ps[w].ops[k]
                   y == Runs(pending[w], k)
        <3>1. WorkerRecord(ps[w]) /\ Seqs!IsSeq(pending[w])
            BY <1>6, MemberRecord
        <3>2. x \in Nat /\ y \in Nat
            BY <3>1, Seqs!LenSeq, RunsFinite DEF WorkerRecord
        <3>3. a(w) = x + y
            BY DEF Done
        <3>4. CASE waits /\ w = Turn.worker
            <4>1. pending'[w] = Append(pending[w], Turn)
                BY <1>1, <3>4
            <4>2. Runs(pending'[w], k) = y + One(IsRun(Turn, k))
                BY <3>1, <4>1, OneMoreRuns
            <4>3. e(w) = One(IsRun(Turn, k))
                BY <3>4 DEF One
            <4>4. b(w) = x + (y + e(w))
                BY <4>2, <4>3 DEF Done
            <4>5. e(w) \in {0, 1}
                BY DEF One
            <4> HIDE DEF a, b, e, x, y
            <4>6. QED
                BY <3>2, <3>3, <4>4, <4>5
        <3>5. CASE ~(waits /\ w = Turn.worker)
            <4>1. pending'[w] = pending[w] /\ e(w) = 0
                BY <1>1, <3>5 DEF One
            <4>2. b(w) = x + y
                BY <4>1 DEF Done
            <4> HIDE DEF a, b, e, x, y
            <4>3. QED
                BY <3>2, <3>3, <4>1, <4>2
        <3>6. QED
            BY <3>4, <3>5
    <2>5. CASE call.name = "Run" /\ call.arg = k
        <3>1. d \in Nat /\ Turn.worker = d + 1 /\ IsRun(Turn, k)
            BY <1>1, <2>5, TurnOfLoop DEF LoopKind, IsRun
        <3>2. \A w \in Workers : w \in Nat /\ w >= 1
            BY SessionAssumption DEF Workers
        <3>3. \A w \in Workers : m(w) = One(w <= d)
            BY <2>5 DEF Now
        <3>4. \A w \in Workers : e(w) = One(waits /\ w = d + 1)
            BY <3>1 DEF One
        <3>5. fld2 = fld + One(waits \/ d > 0)
            <4>1. One(call.arg = k) = 1
                BY <2>5 DEF One
            <4>2. CASE waits \/ d > 0
                <5>1. fld2 = fld + One(call.arg = k)
                    BY <1>1, <1>2, <2>5, <4>2, CountedIs
                <5>2. QED
                    BY <4>1, <4>2, <5>1 DEF One
            <4>3. CASE ~(waits \/ d > 0)
                <5>1. fld2 = fld /\ One(waits \/ d > 0) = 0
                    BY <1>1, <4>3 DEF One
                <5>2. QED
                    BY <2>1, <5>1
            <4>4. QED
                BY <4>2, <4>3
        <3> HIDE DEF rec, fld, fld2, d, a, b, m, e
        <3>6. ASSUME NEW w \in Workers \ gone
              PROVE  rec + 0 <= b(w) /\ b(w) <= rec + 0 + fld2
            <4>1. w \in Nat /\ w >= 1
                BY <3>2
            <4>2. m(w) + e(w) <= One(waits \/ d > 0)
                BY <3>1, <3>3, <3>4, <4>1 DEF One
            <4>3. One(waits \/ d > 0) \in {0, 1}
                BY DEF One
            <4>4. QED
                BY <2>1, <2>2, <2>4, <3>5, <4>2, <4>3
        <3>7. ASSUME NEW v \in Workers \ gone, NEW w \in Workers \ gone, v < w
              PROVE  b(v) - 0 >= b(w) - 0
            <4>1. v \in Nat /\ w \in Nat
                BY <3>2
            <4>2. m(v) + e(v) >= m(w) + e(w)
                BY <3>1, <3>3, <3>4, <3>7, <4>1 DEF One
            <4>3. a(v) - m(v) >= a(w) - m(w)
                BY <2>3, <3>7
            <4>4. QED
                BY <2>2, <2>4, <4>2, <4>3
        <3>8. QED
            BY <3>6, <3>7 DEF rec, fld2, b
    <2>6. CASE ~(call.name = "Run" /\ call.arg = k)
        <3>1. \A w \in Workers : m(w) = 0
            BY <2>6 DEF Now, One
        <3>2. \A w \in Workers : e(w) = 0
            <4>1. ~IsRun(Turn, k)
                <5>1. call.name # "Deploy"
                    BY <1>6 DEF BaseInv, Deployed
                <5>2. CASE call.name \in {"Run", "Collect", "Clear"}
                    BY <1>1, <2>6, <5>2, TurnOfLoop DEF LoopKind, IsRun
                <5>3. CASE call.name \in Routed
                    BY <1>1, <5>3, TurnOfRoute DEF IsRun
                <5>4. QED
                    BY <1>1, <5>1, <5>2, <5>3 DEF BaseInv, CallProgress
            <4>2. QED
                BY <4>1 DEF One
        <3>3. fld2 = fld
            <4>1. CASE call.name = "Run" /\ (waits \/ call.done > 0)
                <5>1. fld2 = fld + One(call.arg = k) /\ One(call.arg = k) = 0
                    BY <1>1, <1>2, <2>6, <4>1, CountedIs DEF One
                <5>2. QED
                    BY <2>1, <5>1
            <4>2. QED
                BY <1>1, <4>1
        <3> HIDE DEF rec, fld, fld2, a, b, m, e
        <3>4. \A w \in Workers \ gone : rec + 0 <= b(w) /\ b(w) <= rec + 0 + fld2
            BY <2>1, <2>2, <2>4, <3>1, <3>2, <3>3
        <3>5. \A v, w \in Workers \ gone : v < w => b(v) - 0 >= b(w) - 0
            <4> SUFFICES ASSUME NEW v \in Workers \ gone, NEW w \in Workers \ gone, v < w
                         PROVE  b(v) - 0 >= b(w) - 0
                OBVIOUS
            <4>1. a(v) - m(v) >= a(w) - m(w)
                BY <2>3
            <4>2. QED
                BY <2>2, <2>4, <3>1, <3>2, <4>1
        <3>6. QED
            BY <3>4, <3>5 DEF rec, fld2, b
    <2>7. QED
        BY <2>5, <2>6
<1>7. QED
    BY <1>1, <1>2, <1>3, <1>5, <1>6 DEF ActionsCounted

LEMMA CountedReturn ==
    ASSUME BaseInv, ActionsCounted, Return
    PROVE  ActionsCounted'
<1>1. /\ call # NoCall /\ call.todo = <<>> /\ call' = NoCall
      /\ UNCHANGED <<ps, pending, gone, failed>>
      /\ ReturnDeploy \/ ReturnAction \/ ReturnMailboxes
    BY DEF Return, InCall, workerVars
<1>2. recorded \in [Counters -> Nat] /\ failed \in [Counters -> Nat]
    BY DEF ActionsCounted
<1>3. call'.name = "none"
    BY <1>1 DEF NoCall
<1>4. \A w, k : Now(w, k)' = 0
    BY <1>3 DEF Now, One
<1>5. CASE ReturnDeploy
    <2>1. call.name = "Deploy" /\ recorded' = recorded
        BY <1>5 DEF ReturnDeploy
    <2>2. /\ recorded = Zeros /\ failed = Zeros
          /\ \A w \in Workers : pending[w] = <<>> /\ (ps[w] = NewWorker \/ w \in gone)
        BY <1>1, <2>1, DeployComplete
    <2>3. ASSUME NEW w \in Workers, w \notin gone, NEW k \in Counters
          PROVE  Done(ps[w], pending[w], k) = 0
        <3>1. pending[w] = <<>> /\ ps[w].ops = Zeros
            BY <2>2, <2>3, NewRecord
        <3>2. ps[w].ops[k] = 0 /\ Runs(pending[w], k) = 0
            BY <3>1, NoRuns DEF Zeros
        <3>3. QED
            BY <3>2 DEF Done
    <2>4. \A k \in Counters : recorded[k] = 0 /\ failed[k] = 0
        BY <2>2 DEF Zeros
    <2>5. QED
        BY <1>1, <1>2, <1>4, <2>1, <2>3, <2>4 DEF ActionsCounted
<1>6. CASE ReturnAction
    <2>1. /\ call.name = "Run" /\ recorded' = Counted(recorded, call.arg)
          /\ session' = session
        BY <1>6 DEF ReturnAction
    <2>2. call.done = NumWorkers
        BY <1>1, <2>1, CallComplete
    <2>3. \A w \in Workers : w <= call.done
        BY <2>2, SessionAssumption DEF Workers
    <2>4. /\ recorded' \in [Counters -> Nat]
          /\ \A k \in Counters : recorded'[k] = recorded[k] + One(call.arg = k)
        BY <1>2, <2>1, CountedIs
    <2>5. \A w \in Workers, k \in Counters : Now(w, k) = One(call.arg = k)
        BY <2>1, <2>3 DEF Now
    <2>6. ASSUME session, NEW k \in Counters
          PROVE  /\ \A w \in Workers \ gone :
                       /\ recorded'[k] + 0 <= Done(ps[w], pending[w], k)
                       /\ Done(ps[w], pending[w], k) <= recorded'[k] + 0 + failed[k]
                 /\ \A v, w \in Workers \ gone : v < w =>
                       Done(ps[v], pending[v], k) - 0 >= Done(ps[w], pending[w], k) - 0
        <3> DEFINE rec == recorded[k]
                   rec2 == recorded'[k]
                   fld == failed[k]
                   x == One(call.arg = k)
                   a(w) == Done(ps[w], pending[w], k)
        <3>1. rec \in Nat /\ fld \in Nat /\ x \in {0, 1} /\ rec2 = rec + x
            BY <1>2, <2>4, <2>6 DEF One
        <3>2. \A w \in Workers \ gone :
                 a(w) \in Nat /\ rec + x <= a(w) /\ a(w) <= rec + x + fld
            BY <2>5, <2>6, DoneIsNat DEF ActionsCounted
        <3>3. \A v, w \in Workers \ gone : v < w => a(v) - x >= a(w) - x
            BY <2>5, <2>6 DEF ActionsCounted
        <3> HIDE DEF rec, rec2, fld, x, a
        <3>4. \A w \in Workers \ gone : rec2 + 0 <= a(w) /\ a(w) <= rec2 + 0 + fld
            BY <3>1, <3>2
        <3>5. \A v, w \in Workers \ gone : v < w => a(v) - 0 >= a(w) - 0
            BY <3>1, <3>2, <3>3
        <3>6. QED
            BY <3>4, <3>5 DEF rec2, fld, a
    <2>7. QED
        BY <1>1, <1>2, <1>4, <2>1, <2>4, <2>6 DEF ActionsCounted
<1>7. CASE ReturnMailboxes
    <2>1. call.name # "Run" /\ UNCHANGED <<session, recorded>>
        BY <1>7 DEF ReturnMailboxes, sessionVars, Routed
    <2>2. \A w, k : Now(w, k) = 0
        BY <2>1 DEF Now, One
    <2>3. QED
        BY <1>1, <1>4, <2>1, <2>2, CountedSame
<1>8. QED
    BY <1>1, <1>5, <1>6, <1>7

LEMMA CountedBegun ==
    ASSUME BaseInv, ActionsCounted, NEW name, NEW arg, NEW todo, NEW missing,
           Begun(name, arg, todo, missing)
    PROVE  ActionsCounted'
<1>1. /\ call.name = "none" /\ call'.done = 0
      /\ UNCHANGED <<ps, pending, session, recorded, failed, gone>>
    BY BegunFields DEF Begun, NoCall
<1>2. \A w \in Workers : ~(w <= 0)
    BY SessionAssumption DEF Workers
<1>3. \A w \in Workers, k \in Counters : Now(w, k)' = Now(w, k)
    BY <1>1, <1>2 DEF Now, One
<1>4. QED
    BY <1>1, <1>3, CountedSame

LEMMA CountedStep ==
    ASSUME BaseInv, ActionsCounted, SessionStep
    PROVE  ActionsCounted'
<1>1. ASSUME NEW q, NEW w, Answers(q, w) PROVE ActionsCounted'
    BY <1>1, CountedAnswer
<1>2. ASSUME NEW waits \in BOOLEAN, Fails(waits) PROVE ActionsCounted'
    BY <1>2, CountedFails
<1>3. ASSUME NEW w, NEW q, NEW n, Reads(w, q, n) PROVE ActionsCounted'
    BY <1>3, CountedReads
<1>4. ASSUME NEW w, Ends(w) PROVE ActionsCounted'
    BY <1>4, CountedEnds
<1>5. ASSUME NEW name, NEW arg, NEW todo, NEW missing, CallOf(name, arg, todo, missing)
      PROVE  ActionsCounted'
    BY <1>5, CountedBegun DEF CallOf
<1>6. CASE DeployBegun
    <2>1. ~session' /\ recorded' = Zeros /\ failed' = Zeros
        BY <1>6 DEF DeployBegun
    <2>2. Zeros \in [Counters -> Nat]
        BY DEF Zeros
    <2>3. QED
        BY <2>1, <2>2 DEF ActionsCounted
<1>7. CASE Drops
    BY <1>7 DEF Drops, ActionsCounted
<1>8. CASE Quiet
    <2>1. UNCHANGED <<ps, pending, session, recorded, failed, gone, call>>
        BY <1>8 DEF Quiet
    <2>2. \A w \in Workers, k \in Counters : Now(w, k)' = Now(w, k)
        BY <2>1 DEF Now
    <2>3. QED
        BY <2>1, <2>2, CountedSame
<1>9. QED
    BY <1>1, <1>2, <1>3, <1>4, <1>5, <1>6, <1>7, <1>8, CountedReturn DEF SessionStep

(* Every recorded action was carried out by every worker, at most the      *)
(* failed ones in addition, in launch order: the first part of             *)
(* ReportsFaithful.                                                        *)
THEOREM WorkersHaveCounted == Spec => []WorkersCountActions
<1>1. Init => ActionsCounted
    BY CountedInit
<1>2. ASSUME BaseInv, ScriptInv, ActionsCounted, [Next]_vars
      PROVE  ActionsCounted'
    BY <1>2, StepIs, CountedStep
<1>3. ASSUME BaseInv, ActionsCounted PROVE WorkersCountActions
    <2> SUFFICES ASSUME session, NEW k \in Counters
                 PROVE  LET current == IF call # NoCall /\ call.name = "Run" /\ call.arg = k
                                       THEN 1 ELSE 0 IN
                        /\ \A w \in Workers \ gone :
                              /\ recorded[k] <= Performed(w, k)
                              /\ Performed(w, k) <= recorded[k] + failed[k] + current
                        /\ \A v, w \in Workers \ gone : v < w => Performed(v, k) >= Performed(w, k)
        BY DEF WorkersCountActions
    <2> DEFINE current == IF call # NoCall /\ call.name = "Run" /\ call.arg = k THEN 1 ELSE 0
               a(w) == Done(ps[w], pending[w], k)
               m(w) == Now(w, k)
               rec == recorded[k]
               fld == failed[k]
    <2>1. \A w \in Workers : Performed(w, k) = a(w)
        <3> TAKE w \in Workers
        <3>1. DOMAIN pending[w] = 1..Len(pending[w])
            <4>1. pending[w] \in Seq(Seqs!Range(pending[w]))
                BY <1>3 DEF BaseInv, Types, Seqs!IsSeq
            <4> HIDE DEF Seqs!Range
            <4>2. QED
                BY <4>1
        <3>2. {i \in DOMAIN pending[w] : pending[w][i].kind = "Run" /\ pending[w][i].arg = k}
                 = RunsAt(pending[w], k)
            BY <3>1 DEF RunsAt, IsRun
        <3>3. QED
            BY <3>2 DEF Performed, Done, Runs
    <2>2. \A w \in Workers \ gone :
             /\ a(w) \in Nat /\ m(w) \in {0, 1}
             /\ rec + m(w) <= a(w) /\ a(w) <= rec + m(w) + fld
        BY <1>3, DoneIsNat, NowIs DEF ActionsCounted
    <2>3. \A v, w \in Workers \ gone : v < w => a(v) - m(v) >= a(w) - m(w)
        BY <1>3 DEF ActionsCounted
    <2>4. rec \in Nat /\ fld \in Nat /\ current \in {0, 1}
        BY <1>3 DEF ActionsCounted
    <2>5. \A w \in Workers : m(w) <= current
        BY DEF Now, One, NoCall
    <2>6. \A v, w \in Workers : v < w => m(v) >= m(w)
        <3> SUFFICES ASSUME NEW v \in Workers, NEW w \in Workers, v < w PROVE m(v) >= m(w)
            OBVIOUS
        <3>1. v \in Nat /\ w \in Nat
            BY SessionAssumption DEF Workers
        <3>2. CASE call.name = "Run"
            <4>1. call.done \in 0..NumWorkers
                BY <1>3, <3>2 DEF BaseInv, CallProgress, LoopProgress
            <4>2. call.done \in Nat
                BY <4>1, SessionAssumption
            <4>3. w <= call.done => v <= call.done
                BY <3>1, <4>2
            <4>4. QED
                BY <4>3 DEF Now, One
        <3>3. CASE call.name # "Run"
            BY <3>3 DEF Now, One
        <3>4. QED
            BY <3>2, <3>3
    <2> HIDE DEF current, a, m, rec, fld
    <2>7. \A w \in Workers \ gone : rec <= a(w) /\ a(w) <= rec + fld + current
        BY <2>2, <2>4, <2>5
    <2>8. \A v, w \in Workers \ gone : v < w => a(v) >= a(w)
        BY <2>2, <2>3, <2>6
    <2>9. QED
        BY <2>1, <2>7, <2>8 DEF current, rec, fld
<1>4. QED
    BY <1>1, <1>2, <1>3, SessionProgress, PTL DEF Spec

-----------------------------------------------------------------------------
(* Reports.                                                                *)

LEMMA ReportsInit == Init => ReportsRight
<1> SUFFICES ASSUME Init PROVE ReportsRight
    OBVIOUS
<1>1. call.name = "none" /\ session = FALSE /\ actions = <<>> /\ Len(actions) = 0
    BY EmptyIsSeq DEF Init, NoCall
<1>2. QED
    BY <1>1 DEF ReportsRight, LastRight, SumRight, Ascending

(* No worker is new, and none counts backwards.                            *)
Grows ==
    \A w \in Workers : ps'[w].initialized =>
        /\ ps[w].initialized
        /\ \A c \in Counters : /\ ps[w].ops[c] \in Nat /\ ps'[w].ops[c] \in Nat
                               /\ ps[w].ops[c] <= ps'[w].ops[c]

LEMMA SumsGrow ==
    ASSUME Grows, NEW pre, NEW n \in 0..NumWorkers, NEW total, Sums(ps, pre, n, total)
    PROVE  Sums(ps', pre, n, total)
<1>1. pre \in [0..NumWorkers -> [Counters -> Nat]] /\ NumWorkers \in Nat
    BY SessionAssumption DEF Sums
<1>2. ASSUME NEW w \in 1..n, NEW c \in Counters, ps'[w].initialized
      PROVE  pre[w][c] <= pre[w - 1][c] + ps'[w].ops[c]
    <2> DEFINE x == pre[w][c]
               y == pre[w - 1][c]
               a == ps[w].ops[c]
               b == ps'[w].ops[c]
    <2>1. w \in Workers /\ w \in 0..NumWorkers /\ w - 1 \in 0..NumWorkers
        BY <1>1 DEF Workers
    <2>2. x \in Nat /\ y \in Nat
        BY <1>1, <2>1
    <2>3. ps[w].initialized /\ a \in Nat /\ b \in Nat /\ a <= b
        BY <1>2, <2>1 DEF Grows
    <2>4. x <= y + a
        BY <2>3 DEF Sums
    <2> HIDE DEF x, y, a, b
    <2>5. x <= y + b
        BY <2>2, <2>3, <2>4
    <2>6. QED
        BY <2>5 DEF x, y, b
<1>3. QED
    BY <1>2 DEF Sums

(* A step under which no worker is new and no report is recorded.          *)
LEMMA ReportsKept ==
    ASSUME BaseInv, ReportsRight, Grows, UNCHANGED <<session, actions>>,
           call' = call \/ call'.name # "Run"
    PROVE  ReportsRight'
<1>1. NumWorkers \in 0..NumWorkers
    BY SessionAssumption
<1>2. LastRight'
    <2> SUFFICES ASSUME session, actions # <<>>
                 PROVE  \E pre : /\ Sums(ps', pre, NumWorkers, LastOf(actions))
                                 /\ call'.name = "Run" =>
                                       Ahead(pre, call'.done, call'.sum, call'.arg)
        BY DEF LastRight
    <2>1. PICK pre : /\ Sums(ps, pre, NumWorkers, LastOf(actions))
                     /\ call.name = "Run" => Ahead(pre, call.done, call.sum, call.arg)
        BY DEF ReportsRight, LastRight
    <2>2. Sums(ps', pre, NumWorkers, LastOf(actions))
        BY <1>1, <2>1, SumsGrow
    <2>3. QED
        BY <2>1, <2>2
<1>3. SumRight'
    <2> SUFFICES ASSUME call' = call, call.name = "Run"
                 PROVE  \E pre : Sums(ps', pre, call.done, call.sum)
        BY DEF SumRight
    <2>1. PICK pre : Sums(ps, pre, call.done, call.sum)
        BY DEF ReportsRight, SumRight
    <2>2. call.done \in 0..NumWorkers
        BY DEF BaseInv, CallProgress, LoopProgress
    <2>3. QED
        BY <2>1, <2>2, SumsGrow
<1>4. QED
    BY <1>2, <1>3 DEF ReportsRight

(* Without a session there is nothing to report.                           *)
LEMMA NothingReported ==
    ASSUME actions' = <<>>, call'.name # "Run"
    PROVE  ReportsRight'
<1>1. Len(actions') = 0
    BY EmptyIsSeq
<1>2. QED
    BY <1>1 DEF ReportsRight, LastRight, SumRight, Ascending

LEMMA SameGrows ==
    ASSUME BaseInv, ps' = ps
    PROVE  Grows
<1>1. ASSUME NEW w \in Workers, ps[w].initialized, NEW c \in Counters
      PROVE  ps[w].ops[c] \in Nat /\ ps[w].ops[c] <= ps[w].ops[c]
    <2>1. WorkerRecord(ps[w])
        BY <1>1 DEF BaseInv, Types, NoWorker
    <2>2. ps[w].ops[c] \in Nat
        BY <2>1 DEF WorkerRecord
    <2>3. QED
        BY <2>2
<1>2. QED
    BY <1>1 DEF Grows

(* The same for a worker that carries out a request.                       *)
LEMMA HandledGrows ==
    ASSUME NEW s, NEW q, s = NoWorker \/ WorkerRecord(s), Accepted(s, q), q.kind # "Init"
    PROVE  /\ s.initialized
           /\ \A c \in Counters : /\ s.ops[c] \in Nat /\ After(s, q).ops[c] \in Nat
                                  /\ s.ops[c] <= After(s, q).ops[c]
                                  /\ After(s, q).ops[c] = s.ops[c] + One(IsRun(q, c))
<1>1. /\ WorkerRecord(s) /\ WorkerRecord(After(s, q))
      /\ \A c \in Counters : After(s, q).ops[c] = s.ops[c] + One(IsRun(q, c))
    BY AfterIs DEF One
<1>2. s.initialized
    BY <1>1, RecordFields
<1>3. ASSUME NEW c \in Counters
      PROVE  /\ s.ops[c] \in Nat /\ After(s, q).ops[c] \in Nat
             /\ s.ops[c] <= After(s, q).ops[c]
    <2> DEFINE x == s.ops[c]
               y == After(s, q).ops[c]
               e == One(IsRun(q, c))
    <2>1. x \in Nat /\ y \in Nat /\ y = x + e /\ e \in {0, 1}
        BY <1>1 DEF WorkerRecord, One
    <2> HIDE DEF x, y, e
    <2>2. x \in Nat /\ y \in Nat /\ x <= y
        BY <2>1
    <2>3. QED
        BY <2>2 DEF x, y
<1>4. QED
    BY <1>1, <1>2, <1>3

LEMMA ReportsReads ==
    ASSUME BaseInv, ReportsRight, NEW w, NEW q, NEW n, Reads(w, q, n)
    PROVE  ReportsRight'
<1>1. /\ w \in Workers /\ n \in Nat \ {0} /\ Len(pending[w]) = n /\ q = pending[w][1]
      /\ ps'[w] = IF Accepted(ps[w], q) THEN After(ps[w], q) ELSE ps[w]
      /\ \A v \in Workers : v # w => ps'[v] = ps[v]
      /\ UNCHANGED <<session, actions, call>>
    BY DEF Reads
<1>2. CASE session
    <2>1. q.kind # "Init"
        <3>1. 1 \in 1..n
            BY <1>1
        <3>2. QED
            BY <1>1, <1>2, <3>1 DEF BaseInv, Members
    <2>2. ps[w] = NoWorker \/ WorkerRecord(ps[w])
        BY <1>1 DEF BaseInv, Types
    <2>3. ASSUME NEW v \in Workers, ps'[v].initialized
          PROVE  /\ ps[v].initialized
                 /\ \A c \in Counters : /\ ps[v].ops[c] \in Nat /\ ps'[v].ops[c] \in Nat
                                        /\ ps[v].ops[c] <= ps'[v].ops[c]
        <3>1. CASE v = w /\ Accepted(ps[w], q)
            BY <1>1, <2>1, <2>2, <3>1, HandledGrows
        <3>2. CASE ~(v = w /\ Accepted(ps[w], q))
            <4>1. ps'[v] = ps[v]
                BY <1>1, <3>2
            <4>2. WorkerRecord(ps[v])
                BY <2>3, <4>1 DEF BaseInv, Types, NoWorker
            <4>3. \A c \in Counters : ps[v].ops[c] \in Nat /\ ps[v].ops[c] <= ps[v].ops[c]
                BY <4>2 DEF WorkerRecord
            <4>4. QED
                BY <2>3, <4>1, <4>3
        <3>3. QED
            BY <3>1, <3>2
    <2>4. Grows
        BY <2>3 DEF Grows
    <2>5. QED
        BY <1>1, <2>4, ReportsKept
<1>3. CASE ~session
    <2>1. call = NoCall \/ call.name = "Deploy"
        BY <1>3 DEF BaseInv, Members
    <2>2. call'.name # "Run"
        BY <1>1, <2>1 DEF NoCall
    <2>3. actions' = <<>>
        BY <1>1, <1>3 DEF ReportsRight
    <2>4. QED
        BY <2>2, <2>3, NothingReported
<1>4. QED
    BY <1>2, <1>3 DEF BaseInv, Types

LEMMA ReportsEnds ==
    ASSUME BaseInv, ReportsRight, NEW w, Ends(w)
    PROVE  ReportsRight'
<1>1. /\ w \in Workers /\ ps'[w] = NoWorker
      /\ \A v \in Workers : v # w => ps'[v] = ps[v]
      /\ UNCHANGED <<session, actions, call>>
    BY DEF Ends
<1>2. ASSUME NEW v \in Workers, ps'[v].initialized
      PROVE  /\ ps[v].initialized
             /\ \A c \in Counters : /\ ps[v].ops[c] \in Nat /\ ps'[v].ops[c] \in Nat
                                    /\ ps[v].ops[c] <= ps'[v].ops[c]
    <2>1. v # w /\ ps'[v] = ps[v]
        BY <1>1, <1>2 DEF NoWorker
    <2>2. WorkerRecord(ps[v])
        BY <1>2, <2>1 DEF BaseInv, Types, NoWorker
    <2>3. \A c \in Counters : ps[v].ops[c] \in Nat /\ ps[v].ops[c] <= ps[v].ops[c]
        BY <2>2 DEF WorkerRecord
    <2>4. QED
        BY <1>2, <2>1, <2>3
<1>3. Grows
    BY <1>2 DEF Grows
<1>4. QED
    BY <1>1, <1>3, ReportsKept

(* The worker's counters are added to the report.                          *)
LEMMA SumsAdded ==
    ASSUME NEW workers, NEW pre, NEW n, NEW sum, NEW ops,
           n \in Nat, n + 1 \in 1..NumWorkers, Sums(workers, pre, n, sum),
           ops \in [Counters -> Nat], workers[n + 1].ops = ops
    PROVE  /\ sum \in [Counters -> Nat]
           /\ Added(sum, ops) \in [Counters -> Nat]
           /\ \A c \in Counters : Added(sum, ops)[c] = sum[c] + ops[c]
           /\ \E pre2 : Sums(workers, pre2, n + 1, Added(sum, ops))
<1> DEFINE t == Added(sum, ops)
           pre2 == [pre EXCEPT ![n + 1] = t]
<1>1. NumWorkers \in Nat /\ n \in 0..NumWorkers /\ n + 1 \in 0..NumWorkers
    BY SessionAssumption
<1>2. /\ pre \in [0..NumWorkers -> [Counters -> Nat]]
      /\ pre[0] = Zeros /\ pre[n] = sum
      /\ \A w \in 1..n : \A c \in Counters :
            /\ pre[w - 1][c] <= pre[w][c]
            /\ workers[w].initialized => pre[w][c] <= pre[w - 1][c] + workers[w].ops[c]
    BY DEF Sums
<1>3. sum \in [Counters -> Nat]
    BY <1>1, <1>2
<1>4. t \in [Counters -> Nat] /\ \A c \in Counters : t[c] = sum[c] + ops[c]
    BY <1>3 DEF Added
<1> HIDE DEF t
<1>5. /\ pre2 \in [0..NumWorkers -> [Counters -> Nat]]
      /\ pre2[n + 1] = t
      /\ \A i \in 0..NumWorkers : i # n + 1 => pre2[i] = pre[i]
    BY <1>1, <1>2, <1>4
<1> HIDE DEF pre2
<1>6. pre2[0] = Zeros
    <2>1. 0 \in 0..NumWorkers /\ 0 # n + 1
        BY <1>1
    <2>2. QED
        BY <1>2, <1>5, <2>1
<1>7. ASSUME NEW w \in 1..(n + 1), NEW c \in Counters
      PROVE  /\ pre2[w - 1][c] <= pre2[w][c]
             /\ workers[w].initialized => pre2[w][c] <= pre2[w - 1][c] + workers[w].ops[c]
    <2>1. w - 1 \in 0..NumWorkers /\ w - 1 # n + 1
        BY <1>1
    <2>2. pre2[w - 1] = pre[w - 1]
        BY <1>5, <2>1
    <2>3. CASE w \in 1..n
        <3>1. w \in 0..NumWorkers /\ w # n + 1
            BY <1>1, <2>3
        <3>2. pre2[w] = pre[w]
            BY <1>5, <3>1
        <3>3. QED
            BY <1>2, <2>2, <2>3, <3>2
    <2>4. CASE w = n + 1
        <3>1. w - 1 = n
            BY <1>1, <2>4
        <3>2. pre2[w - 1][c] = sum[c] /\ pre2[w][c] = sum[c] + ops[c]
            BY <1>2, <1>4, <1>5, <2>2, <2>4, <3>1
        <3>3. workers[w].ops[c] = ops[c]
            BY <2>4
        <3>4. sum[c] \in Nat /\ ops[c] \in Nat
            BY <1>3
        <3>5. QED
            BY <3>2, <3>3, <3>4
    <2>5. w \in 1..n \/ w = n + 1
        BY <1>1
    <2>6. QED
        BY <2>3, <2>4, <2>5
<1>8. Sums(workers, pre2, n + 1, t)
    BY <1>5, <1>6, <1>7 DEF Sums
<1>9. QED
    BY <1>3, <1>4, <1>8 DEF t

(* So the report stays ahead of the last one.                              *)
LEMMA AheadAdded ==
    ASSUME NEW workers, NEW pre, NEW n, NEW sum, NEW arg, NEW before, NEW ops, NEW total,
           n \in Nat, n + 1 \in 1..NumWorkers,
           Sums(workers, pre, NumWorkers, total), Ahead(pre, n, sum, arg),
           sum \in [Counters -> Nat], ops \in [Counters -> Nat],
           workers[n + 1].initialized, workers[n + 1].ops = before,
           \A c \in Counters : before[c] \in Nat /\ ops[c] = before[c] + One(arg = c)
    PROVE  Ahead(pre, n + 1, Added(sum, ops), arg)
<1> SUFFICES ASSUME NEW c \in Counters
             PROVE  Added(sum, ops)[c] >= pre[n + 1][c] + IF arg = c THEN n + 1 ELSE 0
    BY DEF Ahead
<1> DEFINE s == sum[c]
           o == ops[c]
           b == before[c]
           x == pre[n][c]
           y == pre[n + 1][c]
           t == Added(sum, ops)[c]
<1>1. NumWorkers \in Nat /\ n \in 0..NumWorkers /\ n + 1 \in 0..NumWorkers /\ (n + 1) - 1 = n
    BY SessionAssumption
<1>2. s \in Nat /\ o \in Nat /\ b \in Nat /\ t = s + o /\ o = b + One(arg = c)
    BY DEF Added
<1>3. x \in Nat /\ y \in Nat
    BY <1>1 DEF Sums
<1>4. y <= x + b
    <2>1. pre[n + 1][c] <= pre[(n + 1) - 1][c] + workers[n + 1].ops[c]
        BY DEF Sums
    <2>2. QED
        BY <1>1, <2>1
<1>5. s >= x + IF arg = c THEN n ELSE 0
    BY DEF Ahead
<1> HIDE DEF s, o, b, x, y, t
<1>6. CASE arg = c
    <2>1. o = b + 1 /\ s >= x + n
        BY <1>2, <1>5, <1>6 DEF One
    <2>2. t >= y + (n + 1)
        BY <1>2, <1>3, <1>4, <2>1
    <2>3. QED
        BY <1>6, <2>2 DEF t, y
<1>7. CASE arg # c
    <2>1. o = b + 0 /\ s >= x + 0
        BY <1>2, <1>5, <1>7 DEF One
    <2>2. t >= y + 0
        BY <1>2, <1>3, <1>4, <2>1
    <2>3. QED
        BY <1>7, <2>2 DEF t, y
<1>8. QED
    BY <1>6, <1>7

LEMMA ReportsAnswer ==
    ASSUME BaseInv, ReportsRight, NEW q, NEW w, Answers(q, w)
    PROVE  ReportsRight'
<1>1. /\ call # NoCall /\ call.todo # <<>> /\ q = Turn /\ w = q.worker /\ w \in Workers
      /\ Accepted(ps[w], q) /\ ps'[w] = After(ps[w], q)
      /\ \A v \in Workers : v # w => ps'[v] = ps[v]
      /\ call'.name = call.name /\ call'.arg = call.arg /\ call'.done = call.done + 1
      /\ call'.sum = Added(call.sum, Reported(ps[w], q))
      /\ UNCHANGED <<session, actions>>
    BY DEF Answers
<1>2. CASE ~session
    <2>1. call.name = "Deploy"
        BY <1>1, <1>2 DEF BaseInv, Members
    <2>2. call'.name # "Run" /\ actions' = <<>>
        BY <1>1, <1>2, <2>1 DEF ReportsRight
    <2>3. QED
        BY <2>2, NothingReported
<1>3. CASE session
    <2>1. q.kind # "Init"
        BY <1>1, <1>3, TurnTouches
    <2>2. ps[w] = NoWorker \/ WorkerRecord(ps[w])
        BY <1>1 DEF BaseInv, Types
    <2>3. /\ ps[w].initialized
          /\ \A c \in Counters : /\ ps[w].ops[c] \in Nat /\ ps'[w].ops[c] \in Nat
                                 /\ ps[w].ops[c] <= ps'[w].ops[c]
                                 /\ ps'[w].ops[c] = ps[w].ops[c] + One(IsRun(q, c))
        BY <1>1, <2>1, <2>2, HandledGrows
    <2>4. Grows
        <3>1. ASSUME NEW v \in Workers, ps'[v].initialized
              PROVE  /\ ps[v].initialized
                     /\ \A c \in Counters : /\ ps[v].ops[c] \in Nat /\ ps'[v].ops[c] \in Nat
                                            /\ ps[v].ops[c] <= ps'[v].ops[c]
            <4>1. CASE v = w
                BY <2>3, <4>1
            <4>2. CASE v # w
                <5>1. ps'[v] = ps[v]
                    BY <1>1, <4>2
                <5>2. WorkerRecord(ps[v])
                    BY <3>1, <5>1 DEF BaseInv, Types, NoWorker
                <5>3. \A c \in Counters : ps[v].ops[c] \in Nat /\ ps[v].ops[c] <= ps[v].ops[c]
                    BY <5>2 DEF WorkerRecord
                <5>4. QED
                    BY <3>1, <5>1, <5>3
            <4>3. QED
                BY <4>1, <4>2
        <3>2. QED
            BY <3>1 DEF Grows
    <2>5. CASE call.name # "Run"
        BY <1>1, <2>4, <2>5, ReportsKept
    <2>6. CASE call.name = "Run"
        <3> DEFINE n == call.done
                   arg == call.arg
                   sum == call.sum
                   before == ps[w].ops
                   ops == ps'[w].ops
        <3>1. n \in Nat /\ w = n + 1 /\ q.kind = "Run" /\ q.arg = arg
            BY <1>1, <2>6, TurnOfLoop DEF LoopKind
        <3>2. n + 1 \in 1..NumWorkers /\ NumWorkers \in Nat
            BY <1>1, <3>1, SessionAssumption DEF Workers
        <3>3. n \in 0..NumWorkers /\ NumWorkers \in 0..NumWorkers
            BY <3>1, <3>2
        <3>4. call'.sum = Added(sum, ops)
            BY <1>1, <3>1 DEF Reported
        <3>5. /\ ops \in [Counters -> Nat]
              /\ \A c \in Counters : before[c] \in Nat /\ ops[c] = before[c] + One(arg = c)
            <4>1. WorkerRecord(ps'[w])
                BY <1>1, <2>2, AfterIs
            <4>2. ops \in [Counters -> Nat]
                BY <4>1 DEF WorkerRecord
            <4>3. \A c \in Counters : IsRun(q, c) <=> arg = c
                BY <3>1 DEF IsRun
            <4>4. QED
                BY <2>3, <4>2, <4>3 DEF One
        <3>6. PICK pre : Sums(ps, pre, n, sum)
            BY <2>6 DEF ReportsRight, SumRight
        <3>7. Sums(ps', pre, n, sum)
            BY <2>4, <3>3, <3>6, SumsGrow
        <3>8. ps'[n + 1].ops = ops /\ ps[n + 1].ops = before /\ ps[n + 1].initialized
            BY <2>3, <3>1
        <3> HIDE DEF n, arg, sum, before, ops
        <3>9. sum \in [Counters -> Nat] /\ \E pre2 : Sums(ps', pre2, n + 1, Added(sum, ops))
            BY <3>1, <3>2, <3>5, <3>7, <3>8, SumsAdded
        <3>10. SumRight'
            BY <1>1, <3>4, <3>9 DEF SumRight, n
        <3>11. LastRight'
            <4> SUFFICES ASSUME actions # <<>>
                         PROVE  \E pre2 : /\ Sums(ps', pre2, NumWorkers, LastOf(actions))
                                          /\ Ahead(pre2, n + 1, Added(sum, ops), arg)
                BY <1>1, <3>4 DEF LastRight, n, arg
            <4>1. PICK pre2 : /\ Sums(ps, pre2, NumWorkers, LastOf(actions))
                              /\ Ahead(pre2, n, sum, arg)
                BY <1>3, <2>6 DEF ReportsRight, LastRight, n, sum, arg
            <4>2. Sums(ps', pre2, NumWorkers, LastOf(actions))
                BY <2>4, <3>3, <4>1, SumsGrow
            <4>3. Ahead(pre2, n + 1, Added(sum, ops), arg)
                BY <3>1, <3>2, <3>5, <3>8, <3>9, <4>1, AheadAdded
            <4>4. QED
                BY <4>2, <4>3
        <3>12. QED
            BY <1>1, <3>10, <3>11 DEF ReportsRight
    <2>7. QED
        BY <2>5, <2>6
<1>4. QED
    BY <1>2, <1>3 DEF BaseInv, Types

LEMMA ReportsBegun ==
    ASSUME BaseInv, ReportsRight, NEW name, NEW arg, NEW todo, NEW missing,
           Begun(name, arg, todo, missing)
    PROVE  ReportsRight'
<1>1. /\ call'.done = 0 /\ call'.sum = Zeros
      /\ UNCHANGED <<ps, session, actions>>
    BY BegunFields DEF Begun
<1>2. NumWorkers \in Nat /\ Zeros \in [Counters -> Nat]
    BY SessionAssumption DEF Zeros
<1>3. SumRight'
    <2> DEFINE pre == [i \in 0..NumWorkers |-> Zeros]
    <2>1. pre \in [0..NumWorkers -> [Counters -> Nat]] /\ pre[0] = Zeros
        BY <1>2
    <2> HIDE DEF pre
    <2>2. 1..0 = {}
        OBVIOUS
    <2>3. Sums(ps, pre, 0, Zeros)
        BY <2>1, <2>2 DEF Sums
    <2>4. QED
        BY <1>1, <2>3 DEF SumRight
<1>4. LastRight'
    <2> SUFFICES ASSUME session, actions # <<>>
                 PROVE  \E pre : /\ Sums(ps, pre, NumWorkers, LastOf(actions))
                                 /\ Ahead(pre, 0, Zeros, call'.arg)
        BY <1>1 DEF LastRight
    <2>1. PICK pre : Sums(ps, pre, NumWorkers, LastOf(actions))
        BY DEF ReportsRight, LastRight
    <2>2. \A c \in Counters : pre[0][c] = 0 /\ Zeros[c] = 0
        BY <2>1 DEF Sums, Zeros
    <2>3. Ahead(pre, 0, Zeros, call'.arg)
        BY <2>2 DEF Ahead
    <2>4. QED
        BY <2>1, <2>3
<1>5. QED
    BY <1>1, <1>3, <1>4 DEF ReportsRight

(* A report that is ahead of the last one is ahead of all.                 *)
LEMMA AscendsFurther ==
    ASSUME NEW reports, NEW e, Seqs!IsSeq(reports), Ascending(reports),
           \A i \in 1..Len(reports) : reports[i].operations \in [Counters -> Nat],
           e.operations \in [Counters -> Nat],
           reports # <<>> =>
              \A c \in Counters :
                 /\ LastOf(reports)[c] <= e.operations[c]
                 /\ e.kind = c => LastOf(reports)[c] < e.operations[c]
    PROVE  LET more == Append(reports, e) IN
           /\ Ascending(more) /\ LastOf(more) = e.operations
           /\ \A i \in 1..Len(more) : more[i].operations \in [Counters -> Nat]
<1> DEFINE n == Len(reports)
           more == Append(reports, e)
<1>1. /\ n \in Nat /\ Len(more) = n + 1 /\ more[n + 1] = e
      /\ \A i \in 1..n : more[i] = reports[i]
      /\ n # 0 => reports # <<>>
    BY Seqs!AppendSeq, Seqs!LenSeq
<1> HIDE DEF n, more
<1>2. \A i \in 1..(n + 1) : i \in 1..n \/ i = n + 1
    BY <1>1
<1>3. \A i \in 1..(n + 1) : more[i].operations \in [Counters -> Nat]
    BY <1>1, <1>2 DEF n
<1>4. ASSUME NEW i \in 1..(n + 1), NEW j \in 1..(n + 1), i < j, NEW c \in Counters
      PROVE  /\ more[i].operations[c] <= more[j].operations[c]
             /\ more[j].kind = c => more[i].operations[c] < more[j].operations[c]
    <2>1. i \in 1..n /\ n \in 1..n /\ n # 0
        BY <1>1, <1>4
    <2>2. CASE j \in 1..n
        BY <1>1, <1>4, <2>1, <2>2 DEF Ascending, n
    <2>3. CASE j = n + 1
        <3> DEFINE x == reports[i].operations[c]
                   y == reports[n].operations[c]
                   z == e.operations[c]
        <3>1. x \in Nat /\ y \in Nat /\ z \in Nat
            BY <2>1 DEF n
        <3>2. y <= z /\ (e.kind = c => y < z)
            BY <1>1, <2>1 DEF LastOf, n
        <3>3. x <= y
            <4>1. CASE i = n
                BY <3>1, <4>1
            <4>2. CASE i < n
                BY <2>1, <4>2 DEF Ascending, n
            <4>3. i = n \/ i < n
                BY <1>1, <2>1
            <4>4. QED
                BY <4>1, <4>2, <4>3
        <3>4. more[i].operations[c] = x /\ more[j] = e
            BY <1>1, <2>1, <2>3
        <3> HIDE DEF x, y, z
        <3>5. x <= z /\ (e.kind = c => x < z)
            BY <3>1, <3>2, <3>3
        <3>6. QED
            BY <3>4, <3>5 DEF z
    <2>4. QED
        BY <1>2, <2>2, <2>3
<1>5. Ascending(more)
    BY <1>1, <1>4 DEF Ascending
<1>6. LastOf(more) = e.operations
    BY <1>1 DEF LastOf
<1>7. QED
    BY <1>1, <1>3, <1>5, <1>6 DEF more

LEMMA ReportsReturn ==
    ASSUME BaseInv, ScriptInv, ReportsRight, Return
    PROVE  ReportsRight'
<1>1. /\ call # NoCall /\ call.todo = <<>> /\ call' = NoCall
      /\ UNCHANGED ps
      /\ ReturnDeploy \/ ReturnAction \/ ReturnMailboxes
    BY DEF Return, InCall, workerVars
<1>2. call'.name = "none"
    BY <1>1 DEF NoCall
<1>3. CASE ReturnDeploy
    BY <1>2, <1>3, NothingReported DEF ReturnDeploy
<1>4. CASE ReturnMailboxes
    <2>1. UNCHANGED <<session, actions>>
        BY <1>4 DEF ReturnMailboxes, sessionVars
    <2>2. QED
        BY <1>1, <1>2, <2>1, SameGrows, ReportsKept
<1>5. CASE ReturnAction
    <2> DEFINE e == [kind |-> call.arg, operations |-> call.sum]
    <2>1. call.name = "Run" /\ actions' = Append(actions, e) /\ session' = session
        BY <1>5 DEF ReturnAction
    <2>2. call.done = NumWorkers /\ session
        BY <1>1, <2>1, CallComplete DEF BaseInv, Members
    <2>3. NumWorkers \in Nat /\ NumWorkers > 0 /\ NumWorkers \in 0..NumWorkers
        BY SessionAssumption
    <2>4. PICK pre : Sums(ps, pre, NumWorkers, call.sum)
        BY <2>1, <2>2 DEF ReportsRight, SumRight
    <2>5. call.sum \in [Counters -> Nat]
        BY <2>3, <2>4 DEF Sums
    <2>6. e.kind = call.arg /\ e.operations = call.sum
        OBVIOUS
    <2> HIDE DEF e
    <2>7. ASSUME actions # <<>>, NEW c \in Counters
          PROVE  /\ LastOf(actions)[c] <= e.operations[c]
                 /\ e.kind = c => LastOf(actions)[c] < e.operations[c]
        <3>1. PICK last : /\ Sums(ps, last, NumWorkers, LastOf(actions))
                          /\ Ahead(last, NumWorkers, call.sum, call.arg)
            BY <2>1, <2>2, <2>7 DEF ReportsRight, LastRight
        <3> DEFINE x == LastOf(actions)[c]
                   y == call.sum[c]
        <3>2. x \in Nat /\ y \in Nat
            BY <2>3, <2>5, <3>1 DEF Sums
        <3>3. y >= x + IF call.arg = c THEN NumWorkers ELSE 0
            BY <3>1 DEF Ahead, Sums
        <3> HIDE DEF x, y
        <3>4. x <= y /\ (call.arg = c => x < y)
            BY <2>3, <3>2, <3>3
        <3>5. QED
            BY <2>6, <3>4 DEF x, y
    <2>8. Seqs!IsSeq(actions) /\ Ascending(actions)
          /\ \A i \in 1..Len(actions) : actions[i].operations \in [Counters -> Nat]
        BY DEF ScriptInv, ReportsRight
    <2>9. /\ Ascending(actions') /\ LastOf(actions') = e.operations
          /\ \A i \in 1..Len(actions') : actions'[i].operations \in [Counters -> Nat]
        BY <2>1, <2>5, <2>6, <2>7, <2>8, AscendsFurther
    <2>10. LastRight' /\ SumRight'
        BY <1>1, <1>2, <2>4, <2>6, <2>9 DEF LastRight, SumRight
    <2>11. QED
        BY <2>1, <2>2, <2>9, <2>10 DEF ReportsRight
<1>6. QED
    BY <1>1, <1>3, <1>4, <1>5

LEMMA ReportsStep ==
    ASSUME BaseInv, ScriptInv, ReportsRight, SessionStep
    PROVE  ReportsRight'
<1>1. ASSUME NEW q, NEW w, Answers(q, w) PROVE ReportsRight'
    BY <1>1, ReportsAnswer
<1>2. ASSUME NEW waits \in BOOLEAN, Fails(waits) PROVE ReportsRight'
    <2>1. ps' = ps /\ UNCHANGED <<session, actions>> /\ call'.name = "none"
        BY <1>2 DEF Fails, NoCall
    <2>2. QED
        BY <2>1, SameGrows, ReportsKept
<1>3. ASSUME NEW w, NEW q, NEW n, Reads(w, q, n) PROVE ReportsRight'
    BY <1>3, ReportsReads
<1>4. ASSUME NEW w, Ends(w) PROVE ReportsRight'
    BY <1>4, ReportsEnds
<1>5. ASSUME NEW name, NEW arg, NEW todo, NEW missing, CallOf(name, arg, todo, missing)
      PROVE  ReportsRight'
    BY <1>5, ReportsBegun DEF CallOf
<1>6. CASE DeployBegun
    <2>1. ~session /\ actions' = actions /\ call'.name # "Run"
        BY <1>6 DEF DeployBegun
    <2>2. QED
        BY <2>1, NothingReported DEF ReportsRight
<1>7. CASE Drops
    BY <1>7, NothingReported DEF Drops, NoCall
<1>8. CASE Quiet
    <2>1. UNCHANGED <<ps, session, call>> /\ (actions' = actions \/ (actions' = <<>> /\ call = NoCall))
        BY <1>8 DEF Quiet
    <2>2. CASE actions' = actions
        BY <2>1, <2>2, SameGrows, ReportsKept
    <2>3. CASE actions' = <<>> /\ call = NoCall
        BY <2>1, <2>3, NothingReported DEF NoCall
    <2>4. QED
        BY <2>1, <2>2, <2>3
<1>9. QED
    BY <1>1, <1>2, <1>3, <1>4, <1>5, <1>6, <1>7, <1>8, ReportsReturn DEF SessionStep

(* The counters in the session's reports never go back, whatever processes *)
(* end, restart or answer late: the second part of ReportsFaithful.        *)
THEOREM ReportsNeverGoBack == Spec => []ReportsAscend
<1>1. Init => ReportsRight
    BY ReportsInit
<1>2. ASSUME BaseInv, ScriptInv, ReportsRight, [Next]_vars
      PROVE  ReportsRight'
    BY <1>2, StepIs, ReportsStep
<1>3. ASSUME ScriptInv, ReportsRight PROVE ReportsAscend
    <2>1. DOMAIN actions = 1..Len(actions)
        <3>1. actions \in Seq(Seqs!Range(actions))
            BY <1>3 DEF ScriptInv, Seqs!IsSeq
        <3> HIDE DEF Seqs!Range
        <3>2. QED
            BY <3>1
    <2>2. QED
        BY <1>3, <2>1 DEF ReportsRight, Ascending, ReportsAscend
<1>4. QED
    BY <1>1, <1>2, <1>3, SessionProgress, PTL DEF Spec

(* What the session reports of its actions is what its workers have done,  *)
(* and what its scripts emit is what their cadence asks for, for every     *)
(* launch, every script and any number of faults.                          *)
THEOREM ReportsAreFaithful == Spec => []ReportsFaithful
<1>1. WorkersCountActions /\ ReportsAscend /\ TelemetryExact => ReportsFaithful
    BY DEF ReportsFaithful
<1>2. QED
    BY <1>1, WorkersHaveCounted, ReportsNeverGoBack, TelemetryIsExact, PTL
=============================================================================
