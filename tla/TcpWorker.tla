------------------------------ MODULE TcpWorker ------------------------------
(***************************************************************************)
(* One rrtl-runtime-worker process and the TCP shard clients that talk to  *)
(* it: TcpRuntimeShardClient on the coordinator's side, TcpRuntimeWorker-  *)
(* Server and LocalRuntimeWorkerService on the worker's.                   *)
(*                                                                         *)
(* A connection carries newline-delimited JSON frames and no request       *)
(* numbers: request() writes one frame and takes the next frame that       *)
(* arrives as its answer.  A read that times out returns an error and      *)
(* keeps the connection.  The server accepts one connection at a time and  *)
(* ends, with its process, at the first I/O error.                         *)
(*                                                                         *)
(* The numbers `id' carried by frames below are history: they number the   *)
(* frames a client has put on its connection, and no guard reads them.     *)
(***************************************************************************)
EXTENDS Integers, FiniteSets, Sequences, SequencesExt, WorkerService

CONSTANTS
    Clients,          \* shard clients, each one connection attempt
    Requests,         \* Requests[c]: requests client c may make
    MaxRequests,      \* MaxRequests[c]: bound on the request() calls of client c
    MaxConnections,   \* --max-connections; Unlimited when absent
    Unlimited,
    ClientTimeouts,   \* the clients whose read and write timeouts are not `none'
    WorkerTimeouts,   \* the worker's read timeout is not `none'
    Crashes           \* the process may be killed from outside

ASSUME TcpAssumption ==
    /\ MaxRequests \in [Clients -> Nat]
    /\ MaxConnections \in Nat \cup {Unlimited}
    /\ Unlimited \notin Nat
    /\ ClientTimeouts \subseteq Clients
    /\ "none" \notin Clients
    /\ {WorkerTimeouts, Crashes} \subseteq BOOLEAN

VARIABLES
    client,     \* client[c]: "new", "idle", "waiting" (in read_line) or "dropped"
    calls,      \* calls[c]: number of request() calls made
    frames,     \* frames[c]: number of complete request lines written
    partial,    \* partial[c]: a failed write left an unterminated line
    pending,    \* pending[c]: the request being waited for
    timeouts,   \* timeouts[c]: number of reads that timed out
    returns,    \* returns[c]: what the calls returned, oldest first
    toWorker,   \* toWorker[c]: request lines not yet read by the worker
    toClient,   \* toClient[c]: response lines not yet read by the client
    backlog,    \* connections waiting in the listener's accept queue
    serving,    \* the connection in serve_stream, or NoClient
    closed,     \* connections the worker has finished with
    accepted,   \* number of connections accepted
    process,    \* "up", or why the process ended: "done", "io_error", "killed"
    shard,      \* the service's shard, or NoShard
    executed    \* history: the frame and the client of every request carried out

clientVars == <<client, calls, frames, partial, pending, timeouts, returns>>
workerVars == <<backlog, serving, closed, accepted, process, shard, executed>>
vars == <<client, calls, frames, partial, pending, timeouts, returns,
          toWorker, toClient, backlog, serving, closed, accepted, process,
          shard, executed>>

NoClient == "none"

(* A line that is not a JSON request or response, and a response never     *)
(* read.                                                                   *)
Garbled == [kind |-> "Garbled"]
NoAnswer == [kind |-> "none"]

Init ==
    /\ client = [c \in Clients |-> "new"]
    /\ calls = [c \in Clients |-> 0]
    /\ frames = [c \in Clients |-> 0]
    /\ partial = [c \in Clients |-> FALSE]
    /\ pending = [c \in Clients |-> Garbled]
    /\ timeouts = [c \in Clients |-> 0]
    /\ returns = [c \in Clients |-> << >>]
    /\ toWorker = [c \in Clients |-> << >>]
    /\ toClient = [c \in Clients |-> << >>]
    /\ backlog = << >>
    /\ serving = NoClient
    /\ closed = {}
    /\ accepted = 0
    /\ process = "up"
    /\ shard = NoShard
    /\ executed = << >>

-----------------------------------------------------------------------------
(* The client.                                                             *)

(* TcpRuntimeShardClient::connect: the kernel completes the connection     *)
(* while the listener exists, whether or not the worker is busy.           *)
Connect(c) ==
    /\ client[c] = "new"
    /\ IF process = "up"
       THEN /\ client' = [client EXCEPT ![c] = "idle"]
            /\ backlog' = Append(backlog, c)
       ELSE /\ client' = [client EXCEPT ![c] = "dropped"]
            /\ UNCHANGED backlog
    /\ UNCHANGED <<calls, frames, partial, pending, timeouts, returns, toWorker, toClient,
                   serving, closed, accepted, process, shard, executed>>

(* A call returns: `of' is the number of the frame that was answered.      *)
Returned(c, out, of, answer) ==
    returns' = [returns EXCEPT ![c] =
                   Append(@, [req |-> pending'[c], frame |-> frames'[c], out |-> out,
                              of |-> of, answer |-> answer, late |-> timeouts'[c]])]

(* write_json_line completes.  A prefix left by an earlier failed write    *)
(* turns the line into something that is not a request.                    *)
SendRequest(c, req) ==
    /\ client[c] = "idle"
    /\ calls[c] < MaxRequests[c]
    /\ calls' = [calls EXCEPT ![c] = @ + 1]
    /\ frames' = [frames EXCEPT ![c] = @ + 1]
    /\ toWorker' = [toWorker EXCEPT ![c] =
                       Append(@, [id |-> frames'[c],
                                  line |-> IF partial[c] THEN Garbled ELSE req])]
    /\ partial' = [partial EXCEPT ![c] = FALSE]
    /\ pending' = [pending EXCEPT ![c] = req]
    /\ client' = [client EXCEPT ![c] = "waiting"]
    /\ UNCHANGED <<timeouts, returns, toClient>> /\ UNCHANGED workerVars

(* write_json_line fails, after none or part of the line: the socket is    *)
(* closed, or the worker is not reading and the write times out.           *)
SendFails(c, req) ==
    /\ client[c] = "idle"
    /\ calls[c] < MaxRequests[c]
    /\ c \in closed \/ c \in ClientTimeouts
    /\ calls' = [calls EXCEPT ![c] = @ + 1]
    /\ \E some \in BOOLEAN : partial' = [partial EXCEPT ![c] = @ \/ some]
    /\ pending' = [pending EXCEPT ![c] = req]
    /\ UNCHANGED <<frames, timeouts>>
    /\ Returned(c, "err", 0, NoAnswer)
    /\ UNCHANGED <<client, toWorker, toClient>> /\ UNCHANGED workerVars

\* Mutant: the reader throws away stale lines and keeps the newest one.
ReadNewestResponse(c) ==
    /\ client[c] = "waiting"
    /\ toClient[c] # << >>
    /\ LET r == Last(toClient[c])
       IN  /\ toClient' = [toClient EXCEPT ![c] = << >>]
           /\ UNCHANGED <<frames, pending, timeouts>>
           /\ Returned(c, IF r.line.kind = ExpectedKind(pending[c]) THEN "ok" ELSE "err",
                       r.id, r.line)
    /\ client' = [client EXCEPT ![c] = "idle"]
    /\ UNCHANGED <<calls, partial, toWorker>> /\ UNCHANGED workerVars

(* read_worker_wire_response and the caller's match on the response kind:  *)
(* the oldest unread line is the answer, whatever request it was for.      *)
ReadResponse(c) ==
    /\ client[c] = "waiting"
    /\ toClient[c] # << >>
    /\ LET r == Head(toClient[c])
       IN  /\ toClient' = [toClient EXCEPT ![c] = Tail(@)]
           /\ UNCHANGED <<frames, pending, timeouts>>
           /\ Returned(c, IF r.line.kind = ExpectedKind(pending[c]) THEN "ok" ELSE "err",
                       r.id, r.line)
    /\ client' = [client EXCEPT ![c] = "idle"]
    /\ UNCHANGED <<calls, partial, toWorker>> /\ UNCHANGED workerVars

(* The read times out.  If part of a response line had arrived, the bytes  *)
(* already taken from the reader are lost and the rest is no response.     *)
ReadTimeout(c) ==
    /\ client[c] = "waiting"
    /\ c \in ClientTimeouts
    /\ timeouts' = [timeouts EXCEPT ![c] = @ + 1]
    /\ \/ UNCHANGED toClient
       \/ /\ toClient[c] # << >>
          /\ toClient' = [toClient EXCEPT ![c][1].line = Garbled]
    /\ UNCHANGED <<frames, pending>>
    /\ Returned(c, "err", 0, NoAnswer)
    /\ client' = [client EXCEPT ![c] = "idle"]
    /\ UNCHANGED <<calls, partial, toWorker>> /\ UNCHANGED workerVars

(* The worker has closed the connection and nothing is left to read.       *)
ReadEof(c) ==
    /\ client[c] = "waiting"
    /\ c \in closed
    /\ toClient[c] = << >>
    /\ UNCHANGED <<frames, pending, timeouts>>
    /\ Returned(c, "err", 0, NoAnswer)
    /\ client' = [client EXCEPT ![c] = "idle"]
    /\ UNCHANGED <<calls, partial, toWorker, toClient>> /\ UNCHANGED workerVars

(* The client is dropped and its socket closed.                            *)
DropClient(c) ==
    /\ client[c] = "idle"
    /\ client' = [client EXCEPT ![c] = "dropped"]
    /\ UNCHANGED <<calls, frames, partial, pending, timeouts, returns, toWorker, toClient>>
    /\ UNCHANGED workerVars

-----------------------------------------------------------------------------
(* The worker.                                                             *)

(* The end of the process closes every connection, queued ones included.   *)
(* Its memory is lost with it: shard is only history from then on.         *)
Exit(why) ==
    /\ process' = why
    /\ serving' = NoClient
    /\ backlog' = << >>
    /\ closed' = closed \cup Range(backlog) \cup ({serving} \cap Clients)

(* serve_once: accept the oldest queued connection.                        *)
Accept ==
    /\ process = "up"
    /\ serving = NoClient
    /\ backlog # << >>
    /\ serving' = Head(backlog)
    /\ backlog' = Tail(backlog)
    /\ accepted' = accepted + 1
    /\ UNCHANGED <<closed, process, shard, executed, toWorker, toClient>>
    /\ UNCHANGED clientVars

\* Mutant: the line may stay in the reader when it has been handled.
HandleTwice ==
    /\ serving # NoClient
    /\ toWorker[serving] # << >>
    /\ Len(executed) < 2 * MaxRequests[serving]
    /\ LET req == Head(toWorker[serving])
       IN  /\ \/ UNCHANGED toWorker
              \/ toWorker' = [toWorker EXCEPT ![serving] = Tail(@)]
           /\ shard' = ShardAfter(shard, req.line)
           /\ executed' = Append(executed, [client |-> serving, frame |-> req])
           /\ toClient' = [toClient EXCEPT ![serving] =
                  Append(@, [id |-> req.id, line |-> ResponseTo(shard, req.line)])]
    /\ UNCHANGED <<backlog, serving, closed, accepted, process>> /\ UNCHANGED clientVars

(* One turn of serve_stream: read a line, handle it, write the response.   *)
HandleRequest ==
    /\ serving # NoClient
    /\ toWorker[serving] # << >>
    /\ LET req == Head(toWorker[serving])
       IN  /\ toWorker' = [toWorker EXCEPT ![serving] = Tail(@)]
           /\ shard' = ShardAfter(shard, req.line)
           /\ executed' = IF Accepted(shard, req.line)
                          THEN Append(executed, [client |-> serving, frame |-> req])
                          ELSE executed
           /\ toClient' = [toClient EXCEPT ![serving] =
                  Append(@, [id |-> req.id, line |-> ResponseTo(shard, req.line)])]
    /\ UNCHANGED <<backlog, serving, closed, accepted, process>> /\ UNCHANGED clientVars

\* Mutant: serve_connections counts one connection too few.
ServeEofOffByOne ==
    /\ serving # NoClient
    /\ client[serving] = "dropped"
    /\ toWorker[serving] = << >>
    /\ IF accepted - 1 = MaxConnections
       THEN Exit("done")
       ELSE /\ closed' = closed \cup {serving}
            /\ serving' = NoClient
            /\ UNCHANGED <<process, backlog>>
    /\ UNCHANGED <<accepted, shard, executed, toWorker, toClient>> /\ UNCHANGED clientVars

(* read_line returns 0 bytes: serve_stream returns Ok, and the process     *)
(* ends if this was the last connection serve_connections asked for.       *)
ServeEof ==
    /\ serving # NoClient
    /\ client[serving] = "dropped"
    /\ toWorker[serving] = << >>
    /\ IF accepted = MaxConnections
       THEN Exit("done")
       ELSE /\ closed' = closed \cup {serving}
            /\ serving' = NoClient
            /\ UNCHANGED <<process, backlog>>
    /\ UNCHANGED <<accepted, shard, executed, toWorker, toClient>> /\ UNCHANGED clientVars

\* Mutant: the worker's read on an idle connection never times out.
ServeIoErrorOnReset ==
    /\ serving # NoClient
    /\ client[serving] = "dropped"
    /\ toClient[serving] # << >> \/ toWorker[serving] # << >>
    /\ Exit("io_error")
    /\ UNCHANGED <<accepted, shard, executed, toWorker, toClient>> /\ UNCHANGED clientVars

(* An I/O error of serve_stream is returned by serve and ends the process: *)
(* the read timeout on an idle connection, or the reset of a connection    *)
(* whose client went away leaving responses unread or a line unfinished    *)
(* (which the worker answers before it sees the end of the stream).        *)
ServeIoError ==
    /\ serving # NoClient
    /\ \/ WorkerTimeouts /\ toWorker[serving] = << >>
       \/ /\ client[serving] = "dropped"
          /\ toClient[serving] # << >> \/ toWorker[serving] # << >> \/ partial[serving]
    /\ Exit("io_error")
    /\ UNCHANGED <<accepted, shard, executed, toWorker, toClient>> /\ UNCHANGED clientVars

(* TcpRuntimeWorkerProcess::kill, or a crash.                              *)
Kill ==
    /\ Crashes
    /\ process = "up"
    /\ Exit("killed")
    /\ UNCHANGED <<accepted, shard, executed, toWorker, toClient>> /\ UNCHANGED clientVars

ClientStep(c) ==
    \/ Connect(c)
    \/ \E req \in Requests[c] : SendRequest(c, req) \/ SendFails(c, req)
    \/ ReadResponse(c) \/ ReadTimeout(c) \/ ReadEof(c)
    \/ DropClient(c)

WorkerStep == Accept \/ HandleRequest \/ ServeEof \/ ServeIoError

Next == (\E c \in Clients : ClientStep(c)) \/ WorkerStep \/ Kill

(* A blocked read returns when there is something to return, or when its   *)
(* timeout elapses; the worker's loop runs until it blocks.                *)
Fairness ==
    /\ \A c \in Clients : WF_vars(ReadResponse(c) \/ ReadTimeout(c) \/ ReadEof(c))
    /\ WF_vars(Accept \/ HandleRequest \/ ServeEof \/ ServeIoError)

Spec == Init /\ [][Next]_vars /\ Fairness

-----------------------------------------------------------------------------
(* How far an answer can be from its question.  The connection carries no  *)
(* request numbers, so a call answered after n read timeouts gets the      *)
(* answer to the request n frames before its own: the lag is never more,   *)
(* never less, and never repaired while the connection lives.              *)
AnswerLag ==
    \A c \in Clients : \A i \in 1..Len(returns[c]) :
        LET r == returns[c][i] IN r.of # 0 => r.of = r.frame - r.late

(* What a client may conclude from Ok on a connection that never timed out *)
(* (AnswerLag gives it its own answer): the worker carried out this very   *)
(* request, whether or not the worker has ended since.                     *)
OkMeansDone ==
    \A c \in Clients : \A i \in 1..Len(returns[c]) :
        LET r == returns[c][i]
        IN  (r.out = "ok" /\ r.late = 0) =>
                \E j \in 1..Len(executed) :
                    /\ executed[j].client = c
                    /\ executed[j].frame.id = r.frame
                    /\ executed[j].frame.line = r.req

(* A request is carried out at most once, and those of one connection in   *)
(* the order they were made: timeouts and failed writes are not replayed.  *)
InOrderAtMostOnce ==
    \A i, j \in 1..Len(executed) :
        (i < j /\ executed[i].client = executed[j].client) =>
            executed[i].frame.id < executed[j].frame.id

(* The operations carried out that the shard counts: each tick and         *)
(* evaluation since its statistics were last reset, whoever asked for it.  *)
Counted ==
    {j \in 1..Len(executed) :
        /\ executed[j].frame.line.kind \in {"Tick", "Eval"}
        /\ \A k \in (j + 1)..Len(executed) : executed[k].frame.line.kind # "ResetStats"}

(* A worker process is initialised once: the operations its shard has      *)
(* counted are those carried out over all its connections, so a second     *)
(* runtime cannot silently replace the shard of the first.                 *)
NoCycleForgotten == shard # NoShard => shard.ops = Cardinality(Counted)

(* What the worker did is what its clients were told: every Ok was carried *)
(* out, once, in order, and no later connection resets the shard.          *)
CarriedOut == OkMeansDone /\ InOrderAtMostOnce /\ NoCycleForgotten

(* While a client that never timed out holds the connection, the snapshot  *)
(* it got last is the worker's state: no other client's request can slip   *)
(* in between, because connections are served one after the other.         *)
SnapshotIsCurrent ==
    (serving # NoClient /\ client[serving] = "idle" /\ returns[serving] # << >>) =>
        LET r == Last(returns[serving])
        IN  (r.out = "ok" /\ r.req.kind = "Snapshot" /\ r.late = 0) =>
                r.answer.storage = Storage(shard)

(* request() returns, even to a client queued behind another connection.   *)
CallReturns == \A c \in Clients : client[c] = "waiting" ~> client[c] # "waiting"

(* A worker started with --max-connections ends after its clients are gone *)
(* (TcpRuntimeWorkerProcessSet::wait_all waits for that).                  *)
BoundedServiceEnds ==
    (\A c \in Clients : client[c] = "dropped") ~> (process # "up")

(* The documentation on --max-connections: a worker that is not killed     *)
(* exits after it has served that many connections.                        *)
ExitsAfterItsConnections ==
    process \in {"done", "io_error"} => accepted = MaxConnections
=============================================================================
