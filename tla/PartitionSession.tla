--------------------------- MODULE PartitionSession ---------------------------
(***************************************************************************)
(* RuntimePartitionSession over the partition worker services it deploys   *)
(* to: deployment, structural actions, route mailboxes, transfers between  *)
(* workers and scripted runs with telemetry.                               *)
(*                                                                         *)
(* A call of the session is a list of requests, one worker after the       *)
(* other, and ends at the first that fails.  Over TCP every request goes   *)
(* over a connection of its own (deployment's two share one), dropped      *)
(* after the first error, so an answer is never taken for another's; but   *)
(* a request that timed out may still be carried out, before any later     *)
(* one to that worker: the server serves its connections in order.  The    *)
(* local and the loopback session are the case without faults.             *)
(***************************************************************************)
EXTENDS Integers, Sequences, FiniteSets, FiniteSetsExt

CONSTANTS
    NumWorkers,     \* launch.workers, sorted by id
    Routes,         \* launch.routes: [producer, consumer, width], by route_index
    Payloads,       \* limb sequences the caller transfers
    Operations,     \* the operations of the session the caller uses
    Kinds,          \* kinds of structural action the caller uses
    Scripts,        \* action lists of the scripts the caller runs
    MaxEvery,       \* bound on a script's every_actions
    Missing,        \* sets of workers that the caller's endpoint map leaves out
    MaxCalls,       \* bound on the calls of the session's owner
    MaxFaults       \* bound on lost and late requests and on crashes

Workers == 1..NumWorkers
RouteIndexes == 1..Len(Routes)
Widths == {Routes[r].width : r \in RouteIndexes}
ActionKinds == {"EvalCombinational", "Tick", "TickMany", "TickManyZero"}

ASSUME SessionAssumption ==
    /\ NumWorkers \in Nat \ {0}
    /\ \A r \in RouteIndexes : /\ Routes[r].producer \in Workers
                               /\ Routes[r].consumer \in Workers
                               /\ Routes[r].width \in Nat
    /\ Kinds \subseteq ActionKinds
    /\ Scripts \subseteq Seq(ActionKinds)
    /\ Missing \subseteq SUBSET Workers
    /\ MaxCalls \in Nat /\ MaxFaults \in Nat /\ MaxEvery \in Nat

VARIABLES
    \* Worker processes.
    up,         \* the process of the worker runs
    ps,         \* partition_workers: its RuntimePartitionWorkerState, or NoWorker
    pending,    \* requests whose caller has given up, not yet read by the worker
    \* The session.
    session,    \* it is deployed
    mailboxes,  \* session.route_mailboxes: payload counts by worker
    actions,    \* session.actions
    call,       \* the session's call in progress, or NoCall
    script,     \* run_script_with_telemetry
    emitted,    \* telemetry the sink of the latest script has accepted
    calls, faults

(* History: what the properties compare the state with.                    *)
VARIABLES
    latest,     \* route -> payload of its last successful transfer
    dirty,      \* routes touched by something other than a complete call
    torn,       \* routes whose transfer failed after it was published
    stale,      \* workers whose mailbox may have changed unseen
    gone,       \* workers whose process ended since they were initialised
    recorded,   \* kind -> actions recorded since the deployment
    failed      \* kind -> actions that failed after some worker got them

workerVars == <<up, ps, pending>>
sessionVars == <<session, mailboxes, actions>>
scriptVars == <<script, emitted>>
history == <<latest, dirty, torn, stale, gone, recorded, failed>>
vars == <<workerVars, sessionVars, call, scriptVars, calls, faults, history>>

None == [limbs |-> <<>>, width |-> 0]
NoWorker == [initialized |-> FALSE]
NoCall == [name |-> "none"]
Counters == {"EvalCombinational", "Tick", "TickMany"}
Zeros == [c \in Counters |-> 0]

-----------------------------------------------------------------------------
(* The partition worker service.                                           *)

Request(w, kind, arg) == [worker |-> w, kind |-> kind, arg |-> arg]
RoutePayload(r, width, limbs) == [route |-> r, payload |-> [width |-> width, limbs |-> limbs]]

RouteWidthLimbs(width) == (width + 31) \div 32

(* validate_partition_route_payload: a payload may be shorter than its     *)
(* route, never empty (unless the route is) and never longer.              *)
ValidPayload(r, payload) ==
    LET required == RouteWidthLimbs(Routes[r].width) IN
    /\ payload.width = Routes[r].width
    /\ required > 0 => payload.limbs # <<>>
    /\ Len(payload.limbs) <= required

\* Mutant: a worker takes payloads of any route.
AcceptedAnyRoute(state, q) ==
    CASE q.kind = "Init" -> ~state.initialized
      [] q.kind \in {"Store", "Deliver"} -> /\ state.initialized
                                            /\ ValidPayload(q.arg.route, q.arg.payload)
      [] OTHER -> state.initialized

(* Requests the worker answers with what the caller insists on.  The       *)
(* health of a worker without a state is answered, and then refused by     *)
(* validate_partition_deployment_health.                                   *)
Accepted(state, q) ==
    CASE q.kind = "Init" -> ~state.initialized
      [] q.kind = "Store" -> /\ state.initialized
                             /\ Routes[q.arg.route].producer = q.worker
                             /\ ValidPayload(q.arg.route, q.arg.payload)
      [] q.kind = "Deliver" -> /\ state.initialized
                               /\ Routes[q.arg.route].consumer = q.worker
                               /\ ValidPayload(q.arg.route, q.arg.payload)
      [] OTHER -> state.initialized

EmptyMailbox == [r \in RouteIndexes |-> None]

NewWorker == [initialized |-> TRUE, out |-> EmptyMailbox, in |-> EmptyMailbox,
              ops |-> Zeros]

(* record_partition_worker_action: TickMany(0) is run and not counted.     *)
Counted(ops, kind) == [c \in Counters |-> ops[c] + IF c = kind THEN 1 ELSE 0]

\* Mutant: clearing a worker's mailboxes forgets the inbound ones.
ClearedOutbound(state) == [state EXCEPT !.out = EmptyMailbox]

Cleared(state) == [state EXCEPT !.out = EmptyMailbox, !.in = EmptyMailbox]

(* The worker's state after a request it accepts.                          *)
After(state, q) ==
    CASE q.kind = "Init" -> NewWorker
      [] q.kind = "Run" -> [state EXCEPT !.ops = Counted(@, q.arg)]
      [] q.kind = "Store" -> [state EXCEPT !.out[q.arg.route] = q.arg.payload]
      [] q.kind = "Deliver" -> [state EXCEPT !.in[q.arg.route] = q.arg.payload]
      [] q.kind = "Clear" -> Cleared(state)
      [] OTHER -> state     \* Health, Mailbox

Handled(state, q) == IF Accepted(state, q) THEN After(state, q) ELSE state

(* partition_route_mailbox_report: how many payloads, not which.           *)
MailboxReport(state) ==
    [out |-> Cardinality({r \in RouteIndexes : state.out[r] # None}),
     in  |-> Cardinality({r \in RouteIndexes : state.in[r] # None})]

-----------------------------------------------------------------------------
(* The requests of a call.                                                 *)

DeployRequests ==
    [i \in 1..(2 * NumWorkers) |->
        Request((i + 1) \div 2, IF i % 2 = 1 THEN "Init" ELSE "Health", 0)]

\* Mutant: the loop runs from the last worker to the first.
EachWorkerReversed(kind, arg) ==
    [i \in Workers |-> Request(NumWorkers + 1 - i, kind, arg)]

EachWorker(kind, arg) == [w \in Workers |-> Request(w, kind, arg)]

TransferRequests(arg) ==
    <<Request(Routes[arg.route].producer, "Store", arg),
      Request(Routes[arg.route].consumer, "Deliver", arg)>>

(* The session's owner makes one call at a time (&mut self), and a script  *)
(* holds the session until it returns.                                     *)
Free == call = NoCall /\ script.phase # "run"

Begin(name, arg, todo, missing) ==
    /\ Free
    /\ calls < MaxCalls
    /\ name \in Operations
    /\ calls' = calls + 1
    /\ call' = [name |-> name, arg |-> arg, todo |-> todo, missing |-> missing,
                done |-> 0, sum |-> Zeros]
    /\ UNCHANGED <<workerVars, sessionVars, scriptVars, faults>>

Deploy ==
    /\ ~session
    /\ \E m \in Missing : Begin("Deploy", 0, DeployRequests, m)
    /\ latest' = EmptyMailbox
    /\ dirty' = {} /\ torn' = {} /\ stale' = {} /\ gone' = {}
    /\ recorded' = Zeros
    /\ failed' = Zeros

RunAction ==
    /\ session
    /\ \E k \in Kinds, m \in Missing : Begin("Run", k, EachWorker("Run", k), m)
    /\ UNCHANGED history

CollectRouteMailboxes ==
    /\ session
    /\ \E m \in Missing : Begin("Collect", 0, EachWorker("Mailbox", 0), m)
    /\ UNCHANGED history

ClearRouteMailboxes ==
    /\ session
    /\ \E m \in Missing : Begin("Clear", 0, EachWorker("Clear", 0), m)
    /\ UNCHANGED history

(* publish_route_outbound and deliver_route_inbound: the caller names the  *)
(* worker, its endpoint and the payload's width itself.                    *)
PublishOutbound ==
    /\ session
    /\ \E w \in Workers, r \in RouteIndexes, width \in Widths, limbs \in Payloads :
          LET arg == RoutePayload(r, width, limbs) IN
          Begin("Publish", arg, <<Request(w, "Store", arg)>>, {})
    /\ UNCHANGED history

DeliverInbound ==
    /\ session
    /\ \E w \in Workers, r \in RouteIndexes, width \in Widths, limbs \in Payloads :
          LET arg == RoutePayload(r, width, limbs) IN
          Begin("Deliver", arg, <<Request(w, "Deliver", arg)>>, {})
    /\ UNCHANGED history

\* Mutant: endpoints are looked up when their turn comes.
TransferRouteUnchecked ==
    /\ session
    /\ \E r \in RouteIndexes, limbs \in Payloads, m \in Missing :
          /\ Routes[r].producer # Routes[r].consumer
          /\ LET arg == RoutePayload(r, Routes[r].width, limbs)
             IN  Begin("Transfer", arg, TransferRequests(arg), m)
    /\ UNCHANGED history

(* transfer_route finds the route and refuses one that stays on a worker;  *)
(* transfer_route_tcp then looks up both endpoints before it publishes.    *)
(* A refusal leaves everything as it was.                                  *)
TransferRoute ==
    /\ session
    /\ \E r \in RouteIndexes, limbs \in Payloads, m \in Missing :
          /\ Routes[r].producer # Routes[r].consumer
          /\ m \cap {Routes[r].producer, Routes[r].consumer} = {}
          /\ LET arg == RoutePayload(r, Routes[r].width, limbs)
             IN  Begin("Transfer", arg, TransferRequests(arg), m)
    /\ UNCHANGED history

ClearActions ==
    /\ session
    /\ Free
    /\ "ClearActions" \in Operations
    /\ actions' = <<>>
    /\ UNCHANGED <<workerVars, session, mailboxes, call, scriptVars, calls, faults, history>>

(* The owner drops the session; its workers keep their state.              *)
DropSession ==
    /\ session
    /\ Free
    /\ session' = FALSE
    /\ actions' = <<>>
    /\ mailboxes' = <<>>
    /\ UNCHANGED <<workerVars, call, scriptVars, calls, faults, history>>

-----------------------------------------------------------------------------
(* One request of the call in progress.                                    *)

InCall == call # NoCall
Turn == Head(call.todo)
Routed == {"Transfer", "Publish", "Deliver"}

Touched ==
    CASE call.name \in Routed -> {call.arg.route}
      [] call.name = "Clear" -> RouteIndexes
      [] OTHER -> {}

\* Mutant: the answer is recorded for the first worker only.
RecordFirstMailbox(w, state) ==
    /\ mailboxes' = [mailboxes EXCEPT ![1] = MailboxReport(state)]
    /\ stale' = stale \ {w}

(* record_route_mailbox: the answer replaces the worker's entry.           *)
RecordRouteMailbox(w, state) ==
    /\ mailboxes' = [mailboxes EXCEPT ![w] = MailboxReport(state)]
    /\ stale' = stale \ {w}

\* Mutant: the report is taken before the action is counted.
ReportedBefore(state, q) == IF q.kind = "Run" THEN state.ops ELSE Zeros

Reported(state, q) == IF q.kind = "Run" THEN After(state, q).ops ELSE Zeros

(* runtime_partition_session_action_report sums the workers' counters.     *)
Added(sum, ops) == [c \in Counters |-> sum[c] + ops[c]]

(* The worker carries out the request and its answer arrives.              *)
Answer ==
    /\ InCall /\ call.todo # <<>>
    /\ LET q == Turn
           w == q.worker
           state == After(ps[w], q) IN
       /\ w \notin call.missing /\ up[w] /\ pending[w] = <<>>
       /\ Accepted(ps[w], q)
       /\ ps' = [ps EXCEPT ![w] = state]
       /\ call' = [call EXCEPT !.todo = Tail(@), !.done = @ + 1,
                               !.sum = Added(@, Reported(ps[w], q))]
       /\ IF q.kind \in {"Store", "Deliver", "Mailbox", "Clear"}
          THEN RecordRouteMailbox(w, state)
          ELSE UNCHANGED <<mailboxes, stale>>
    /\ UNCHANGED <<up, pending, session, actions, scriptVars, calls, faults,
                   latest, dirty, torn, gone, recorded, failed>>

(* The call returns an error, and with it the script it belongs to.  The   *)
(* session keeps what the answers so far have changed.                     *)
Fail(mayHappen) ==
    /\ call' = NoCall
    /\ script' = [script EXCEPT !.phase = IF @ = "run" THEN "err" ELSE @]
    /\ dirty' = IF mayHappen \/ call.done > 0 THEN dirty \cup Touched ELSE dirty
    /\ torn' = IF call.name = "Transfer" /\ call.done > 0 THEN torn \cup {call.arg.route} ELSE torn
    /\ failed' = IF call.name = "Run" /\ (mayHappen \/ call.done > 0)
                 THEN Counted(failed, call.arg) ELSE failed
    /\ UNCHANGED <<sessionVars, emitted, calls, latest, gone, recorded>>

\* Mutant: a missing endpoint is not an error.
RefusedByWorker ==
    /\ InCall /\ call.todo # <<>>
    /\ LET w == Turn.worker
       IN  w \notin call.missing /\ up[w] /\ pending[w] = <<>> /\ ~Accepted(ps[w], Turn)
    /\ Fail(FALSE)
    /\ UNCHANGED <<workerVars, faults, stale>>

(* The worker answers with an error, or the endpoint map lacks it.         *)
Refused ==
    /\ InCall /\ call.todo # <<>>
    /\ LET w == Turn.worker IN
       \/ w \in call.missing
       \/ up[w] /\ pending[w] = <<>> /\ ~Accepted(ps[w], Turn)
    /\ Fail(FALSE)
    /\ UNCHANGED <<workerVars, faults, stale>>

(* The connection is refused or the request is cut short on its way.       *)
Lost ==
    /\ InCall /\ call.todo # <<>>
    /\ Turn.worker \notin call.missing
    /\ IF up[Turn.worker] THEN faults < MaxFaults /\ faults' = faults + 1
                          ELSE faults' = faults
    /\ Fail(FALSE)
    /\ UNCHANGED <<workerVars, stale>>

(* The answer does not arrive in time; the request is on its way.          *)
Late ==
    /\ InCall /\ call.todo # <<>>
    /\ LET w == Turn.worker IN
       /\ w \notin call.missing /\ up[w]
       /\ faults < MaxFaults
       /\ faults' = faults + 1
       /\ pending' = [pending EXCEPT ![w] = Append(@, Turn)]
       /\ stale' = IF Turn.kind \in {"Store", "Deliver", "Clear"} THEN stale \cup {w} ELSE stale
    /\ Fail(TRUE)
    /\ UNCHANGED <<up, ps>>

(* Every worker has answered.                                              *)
ReturnDeploy ==
    /\ call.name = "Deploy"
    /\ session' = TRUE
    /\ mailboxes' = [w \in Workers |-> [out |-> 0, in |-> 0]]
    /\ actions' = <<>>
    /\ UNCHANGED <<scriptVars, latest, dirty, recorded>>

\* Mutant: the action just completed is not counted.
DueAfterPrevious(completed) ==
    IF (completed - 1) % script.every = 0 THEN "Cadence" ELSE "no"

DueAfter(completed) == IF completed % script.every = 0 THEN "Cadence" ELSE "no"

ReturnAction ==
    /\ call.name = "Run"
    /\ actions' = Append(actions, [kind |-> call.arg, operations |-> call.sum])
    /\ recorded' = Counted(recorded, call.arg)
    /\ script' = IF script.phase # "run" THEN script
                 ELSE [script EXCEPT !.completed = @ + 1,
                                     !.due = DueAfter(script.completed + 1)]
    /\ UNCHANGED <<session, mailboxes, emitted, latest, dirty>>

ReturnMailboxes ==
    /\ call.name \in {"Collect", "Clear"} \cup Routed
    /\ CASE call.name = "Transfer" ->
              /\ latest' = [latest EXCEPT ![call.arg.route] = call.arg.payload]
              /\ dirty' = dirty \ {call.arg.route}
         [] call.name = "Clear" -> latest' = EmptyMailbox /\ dirty' = {}
         [] OTHER -> latest' = latest /\ dirty' = dirty \cup Touched
    /\ UNCHANGED <<sessionVars, scriptVars, recorded>>

Return ==
    /\ InCall /\ call.todo = <<>>
    /\ call' = NoCall
    /\ ReturnDeploy \/ ReturnAction \/ ReturnMailboxes
    /\ UNCHANGED <<workerVars, calls, faults, torn, stale, gone, failed>>

-----------------------------------------------------------------------------
(* The worker processes.                                                   *)

(* The server reaches the connection of a request its caller gave up on.   *)
CatchUp(w) ==
    /\ pending[w] # <<>>
    /\ ps' = [ps EXCEPT ![w] = Handled(@, Head(pending[w]))]
    /\ pending' = [pending EXCEPT ![w] = Tail(@)]
    /\ UNCHANGED <<up, sessionVars, call, scriptVars, calls, faults, history>>

(* The process ends, and what it held with it; among the reasons is the    *)
(* error of answering a caller that has left.                              *)
Crash(w) ==
    /\ up[w]
    /\ faults < MaxFaults
    /\ faults' = faults + 1
    /\ up' = [up EXCEPT ![w] = FALSE]
    /\ ps' = [ps EXCEPT ![w] = NoWorker]
    /\ pending' = [pending EXCEPT ![w] = <<>>]
    /\ gone' = gone \cup {w}
    /\ UNCHANGED <<sessionVars, call, scriptVars, calls, latest, dirty, torn, stale,
                   recorded, failed>>

(* The owner starts a new process and passes its endpoint from now on.     *)
Restart(w) ==
    /\ ~up[w]
    /\ up' = [up EXCEPT ![w] = TRUE]
    /\ UNCHANGED <<ps, pending, sessionVars, call, scriptVars, calls, faults, history>>

-----------------------------------------------------------------------------
(* run_script_with_telemetry.                                              *)

NoScript == [phase |-> "none"]

StartScript ==
    /\ session
    /\ Free
    /\ calls < MaxCalls
    /\ "Script" \in Operations
    /\ calls' = calls + 1
    /\ \E todo \in Scripts, every \in 0..MaxEvery, initial, final \in BOOLEAN, m \in Missing :
          script' = [phase |-> IF every = 0 THEN "err" ELSE "run",
                     todo |-> todo, every |-> every, final |-> final, missing |-> m,
                     completed |-> 0, last |-> -1,
                     due |-> IF initial THEN "Initial" ELSE "no",
                     \* history: what was asked for, and the actions before it
                     length |-> Len(todo), initial |-> initial, base |-> Len(actions)]
    /\ emitted' = <<>>
    /\ UNCHANGED <<workerVars, sessionVars, call, faults, history>>

Running == script.phase = "run" /\ call = NoCall

(* emit_run_script_telemetry: the sink accepts the telemetry, or its error *)
(* ends the script.                                                        *)
Emit ==
    /\ Running
    /\ script.due # "no"
    /\ \/ /\ emitted' = Append(emitted, [completed |-> script.completed,
                                         actions |-> Len(actions)])
          /\ script' = [script EXCEPT !.due = "no", !.last = script.completed]
       \/ /\ script' = [script EXCEPT !.phase = "err"]
          /\ emitted' = emitted
    /\ UNCHANGED <<workerVars, sessionVars, call, calls, faults, history>>

ScriptAction ==
    /\ Running
    /\ script.due = "no"
    /\ script.todo # <<>>
    /\ script' = [script EXCEPT !.todo = Tail(@)]
    /\ LET k == Head(script.todo)
       IN  call' = [name |-> "Run", arg |-> k, todo |-> EachWorker("Run", k),
                    missing |-> script.missing, done |-> 0, sum |-> Zeros]
    /\ UNCHANGED <<workerVars, sessionVars, emitted, calls, faults, history>>

FinishScript ==
    /\ Running
    /\ script.due = "no"
    /\ script.todo = <<>>
    /\ script' = IF script.final /\ script.last # script.completed
                 THEN [script EXCEPT !.due = "Final"]
                 ELSE [script EXCEPT !.phase = "ok"]
    /\ UNCHANGED <<workerVars, sessionVars, call, emitted, calls, faults, history>>

-----------------------------------------------------------------------------
Init ==
    /\ up = [w \in Workers |-> TRUE]
    /\ ps = [w \in Workers |-> NoWorker]
    /\ pending = [w \in Workers |-> <<>>]
    /\ session = FALSE /\ mailboxes = <<>> /\ actions = <<>>
    /\ call = NoCall
    /\ script = NoScript /\ emitted = <<>>
    /\ calls = 0 /\ faults = 0
    /\ latest = EmptyMailbox
    /\ dirty = {} /\ torn = {} /\ stale = {} /\ gone = {}
    /\ recorded = Zeros
    /\ failed = Zeros

Owner ==
    \/ Deploy \/ RunAction \/ CollectRouteMailboxes \/ ClearRouteMailboxes
    \/ PublishOutbound \/ DeliverInbound \/ TransferRoute
    \/ ClearActions \/ DropSession \/ StartScript

CallStep == Answer \/ Refused \/ Lost \/ Late \/ Return

ScriptStep == Emit \/ ScriptAction \/ FinishScript

Next ==
    \/ Owner \/ CallStep \/ ScriptStep
    \/ \E w \in Workers : CatchUp(w) \/ Crash(w) \/ Restart(w)

(* The session's calls run on the owner's thread, every request returns by *)
(* its timeout, and a worker serves what is in its queue.                  *)
Fairness ==
    /\ WF_vars(CallStep)
    /\ WF_vars(ScriptStep)
    /\ \A w \in Workers : WF_vars(CatchUp(w))

Spec == Init /\ [][Next]_vars /\ Fairness

-----------------------------------------------------------------------------
(* Properties.                                                             *)

Mailbox == [RouteIndexes -> {None} \cup [width : Widths, limbs : Payloads]]

WorkerState ==
    {NoWorker} \cup [initialized : {TRUE}, out : Mailbox, in : Mailbox,
                     ops : [Counters -> 0..(MaxCalls * Max({1} \cup {Len(s) : s \in Scripts}))]]

(* Types, and the worker's own limits: a mailbox holds only payloads that  *)
(* fit the route, of routes that end at this worker.                       *)
TypeOK ==
    /\ up \in [Workers -> BOOLEAN]
    /\ \A w \in Workers :
          /\ ps[w] \in WorkerState
          /\ ps[w].initialized =>
                \A r \in RouteIndexes :
                    /\ ps[w].out[r] # None =>
                          Routes[r].producer = w /\ ValidPayload(r, ps[w].out[r])
                    /\ ps[w].in[r] # None =>
                          Routes[r].consumer = w /\ ValidPayload(r, ps[w].in[r])
    /\ session \in BOOLEAN
    /\ session => DOMAIN mailboxes = Workers
    /\ {dirty, torn} \subseteq SUBSET RouteIndexes
    /\ {stale, gone} \subseteq SUBSET Workers
    /\ calls \in 0..MaxCalls /\ faults \in 0..MaxFaults

(* Between calls, a route that only complete transfers and clears have     *)
(* touched last holds the payload of its latest transfer at both of its    *)
(* ends, or nothing at both: requests that timed out earlier cannot        *)
(* surface in it afterwards (transfer_route_tcp, clear_route_mailboxes).   *)
RoutesAgree ==
    session /\ call = NoCall =>
        \A r \in RouteIndexes \ dirty :
            LET p == Routes[r].producer
                c == Routes[r].consumer IN
            {p, c} \cap gone = {} => /\ ps[p].out[r] = latest[r]
                                     /\ ps[c].in[r] = latest[r]

(* A transfer stops between its two halves only because of a fault:        *)
(* whatever can be refused (the route, an endpoint, the payload) is        *)
(* refused before the producer's mailbox is touched.                       *)
TornOnlyByFaults == torn # {} => faults > 0

(* The mailbox counts the session shows in its telemetry are the worker's, *)
(* at every moment, also in the middle of a call and after a failed one,   *)
(* except for a worker that ended or that was sent something unanswered    *)
(* and has not answered since.                                             *)
MailboxesCurrent ==
    session =>
        \A w \in Workers \ (stale \cup gone) : mailboxes[w] = MailboxReport(ps[w])

(* Actions of kind k that worker w has carried out or will.                *)
Performed(w, k) ==
    ps[w].ops[k] + Cardinality({i \in DOMAIN pending[w] : /\ pending[w][i].kind = "Run"
                                                          /\ pending[w][i].arg = k})

(* Every action the session recorded was carried out by every worker, and  *)
(* a worker has carried out at most the failed ones in addition, the       *)
(* workers earlier in the launch order at least as many as the later ones: *)
(* the loop of run_tcp_action stops at the first that fails.               *)
WorkersCountActions ==
    session =>
        \A k \in Counters :
            LET current == IF call # NoCall /\ call.name = "Run" /\ call.arg = k
                           THEN 1 ELSE 0 IN
            /\ \A w \in Workers \ gone :
                  /\ recorded[k] <= Performed(w, k)
                  /\ Performed(w, k) <= recorded[k] + failed[k] + current
            /\ \A v, w \in Workers \ gone : v < w => Performed(v, k) >= Performed(w, k)

(* The operation counters in the session's reports never go back, and each *)
(* report of a counted action is ahead of all before it in that counter:   *)
(* no worker's counters restart under a session, whatever process answers. *)
ReportsAscend ==
    \A i, j \in DOMAIN actions : i < j =>
        \A c \in Counters :
            /\ actions[i].operations[c] <= actions[j].operations[c]
            /\ actions[j].kind = c => actions[i].operations[c] < actions[j].operations[c]

(* The telemetry of a script that returned Ok was emitted exactly at the   *)
(* multiples of every_actions, at the start and at the end if asked for,   *)
(* once each and in order; and all telemetry, of a failed script too,      *)
(* contains the actions completed at that point, no more and no fewer.     *)
TelemetryExact ==
    LET n == script.length
        expected == {c \in 0..n : \/ c > 0 /\ c % script.every = 0
                                  \/ c = 0 /\ script.initial
                                  \/ c = n /\ script.final} IN
    /\ script.phase = "ok" => {emitted[i].completed : i \in DOMAIN emitted} = expected
    /\ \A i, j \in DOMAIN emitted : i < j => emitted[i].completed < emitted[j].completed
    /\ \A i \in DOMAIN emitted : emitted[i].actions = script.base + emitted[i].completed

(* What the session believes of its workers' mailboxes.                    *)
MailboxesFaithful == RoutesAgree /\ MailboxesCurrent

(* What the session reports of the actions its workers have carried out.   *)
ReportsFaithful == WorkersCountActions /\ ReportsAscend /\ TelemetryExact

(* Every call and every script returns.                                    *)
CallsReturn == (call # NoCall \/ script.phase = "run") ~> Free
=============================================================================
