--------------------------- MODULE TcpWorkerProofs ---------------------------
(***************************************************************************)
(* Proofs about TcpWorker, for every set of clients, every requests they   *)
(* make, and every pattern of timeouts, failed writes, I/O errors and      *)
(* kills: how far an answer is from its question, that Ok means done, and  *)
(* that a snapshot is current while its client holds the connection.       *)
(***************************************************************************)
EXTENDS TcpWorker, WorkerServiceProofs, FiniteSetTheorems

(* How many lines wait to be read on each end of a connection.             *)
Unread(c) == Len(toClient[c])
Unhandled(c) == Len(toWorker[c])

(* The types of what belongs to one client.                                *)
ClientType(c) ==
    /\ client[c] \in {"new", "idle", "waiting", "dropped"}
    /\ frames[c] \in Nat
    /\ timeouts[c] \in Nat
    /\ IsSeq(returns[c]) /\ IsSeq(toWorker[c]) /\ IsSeq(toClient[c])
    /\ \A k \in 1..Unread(c) :
          toClient[c][k] = [id |-> toClient[c][k].id, line |-> toClient[c][k].line]

TypeInv ==
    /\ DOMAIN client = Clients /\ DOMAIN frames = Clients /\ DOMAIN timeouts = Clients
    /\ DOMAIN pending = Clients /\ DOMAIN returns = Clients
    /\ DOMAIN toWorker = Clients /\ DOMAIN toClient = Clients
    /\ \A c \in Clients : ClientType(c)
    /\ backlog \in Seq(Clients)
    /\ serving \in Clients \cup {NoClient}
    /\ closed \subseteq Clients
    /\ IsSeq(executed)

(* A connection is queued, then served, then closed, once.                 *)
Stations ==
    /\ serving \notin closed
    /\ \A i \in 1..Len(backlog) : backlog[i] \notin closed /\ backlog[i] # serving
    /\ \A i, j \in 1..Len(backlog) : i # j => backlog[i] # backlog[j]
    /\ \A c \in Clients : client[c] = "new" =>
          /\ c \notin closed
          /\ c # serving
          /\ \A i \in 1..Len(backlog) : backlog[i] # c

Waiting(c) == IF client[c] = "waiting" THEN 1 ELSE 0

(* The number of the frame whose answer client c reads next.               *)
NextAnswered(c) == frames[c] - timeouts[c] + 1 - Waiting(c)

(* The frames on a connection are numbered without gaps, from the answer   *)
(* read next to the request written last; a client that is not waiting has *)
(* as many of them under way as it had timeouts.                           *)
FramesInOrder(c) ==
    /\ \A k \in 1..Unread(c) : toClient[c][k].id = NextAnswered(c) + k - 1
    /\ c \notin closed =>
          /\ \A k \in 1..Unhandled(c) :
                toWorker[c][k].id = NextAnswered(c) + Unread(c) + k - 1
          /\ Unread(c) + Unhandled(c) = timeouts[c] + Waiting(c)

(* The newest frame on its way to the worker is the request waited for.    *)
NewestIsPending(c) ==
    (c \notin closed /\ client[c] = "waiting") =>
        \A k \in 1..Unhandled(c) :
            toWorker[c][k].id = frames[c] => toWorker[c][k].line \in {pending[c], Garbled}

(* What was carried out was written before what is still on its way; the   *)
(* newest of it may be the request waited for.                             *)
ExecutedInPast(c) ==
    \A j \in 1..Len(executed) : executed[j].client = c =>
        /\ executed[j].frame.id \in Int
        /\ executed[j].frame.id <= frames[c]
        /\ c \notin closed => executed[j].frame.id < NextAnswered(c) + Unread(c)
        /\ (client[c] = "waiting" /\ executed[j].frame.id = frames[c]) =>
               executed[j].frame.line = pending[c]

(* Frame number id of client c was carried out.                            *)
Done(c, id) ==
    \E j \in 1..Len(executed) : executed[j].client = c /\ executed[j].frame.id = id

(* A response other than an error was earned.                              *)
ResponsesEarned(c) ==
    \A k \in 1..Unread(c) :
        toClient[c][k].line.kind \notin {"Err", "Garbled"} => Done(c, toClient[c][k].id)

(* A connection that has not been served has had no answer.                *)
UnservedUnanswered(c) ==
    (c \notin closed /\ c # serving) =>
        /\ toClient[c] = << >>
        /\ \A i \in 1..Len(returns[c]) : returns[c][i].out # "ok"

(* The newest return records the timeouts there have been; each is as      *)
(* AnswerLag and OkMeansDone have it.                                      *)
ReturnsRight(c) ==
    /\ returns[c] # << >> => Last(returns[c]).late = timeouts[c]
    /\ \A i \in 1..Len(returns[c]) :
          LET r == returns[c][i]
          IN  /\ r.of # 0 => r.of = r.frame - r.late
              /\ (r.out = "ok" /\ r.late = 0) =>
                     \E j \in 1..Len(executed) :
                         /\ executed[j].client = c
                         /\ executed[j].frame.id = r.frame
                         /\ executed[j].frame.line = r.req

(* A snapshot on its way to a client that never timed out, or the last one *)
(* it got, is the worker's state: the client has asked for nothing else.   *)
SnapshotsRight(c) ==
    serving = c =>
        /\ (client[c] = "waiting" /\ timeouts[c] = 0 /\ toClient[c] # << >>
              /\ toClient[c][1].line.kind = "Snapshot") =>
                toClient[c][1].line.storage = Storage(shard)
        /\ (client[c] = "idle" /\ returns[c] # << >>) =>
              LET r == Last(returns[c])
              IN  (r.out = "ok" /\ r.req.kind = "Snapshot" /\ r.late = 0) =>
                      r.answer.storage = Storage(shard)

ClientInv(c) ==
    /\ FramesInOrder(c) /\ NewestIsPending(c) /\ ExecutedInPast(c)
    /\ ResponsesEarned(c) /\ UnservedUnanswered(c) /\ ReturnsRight(c) /\ SnapshotsRight(c)

(* The shard of an initialised worker, and what a worker without one has   *)
(* carried out.                                                            *)
ShardShape ==
    IF shard = NoShard
    THEN \A j \in 1..Len(executed) : executed[j].frame.line.kind = "Health"
    ELSE ShardRecord(shard)

WorkerInv == ShardShape /\ InOrderAtMostOnce /\ NoCycleForgotten

(* The inductive invariant.                                                *)
TcpInv == TypeInv /\ Stations /\ (\A c \in Clients : ClientInv(c)) /\ WorkerInv

-----------------------------------------------------------------------------
(* What the types say of the lengths on the connection of a client.        *)
Lengths(c) ==
    /\ frames[c] \in Nat /\ timeouts[c] \in Nat /\ Waiting(c) \in Nat
    /\ Unhandled(c) \in Nat /\ (toWorker[c] = << >> <=> Unhandled(c) = 0)
    /\ Unread(c) \in Nat /\ (toClient[c] = << >> <=> Unread(c) = 0)
    /\ NextAnswered(c) \in Int
    /\ NextAnswered(c) = frames[c] - timeouts[c] + 1 - Waiting(c)
    /\ client[c] = "waiting" => Waiting(c) = 1
    /\ client[c] # "waiting" => Waiting(c) = 0

LEMMA LengthsOfClient ==
    ASSUME TypeInv, NEW c \in Clients
    PROVE  Lengths(c)
<1>1. /\ frames[c] \in Nat /\ timeouts[c] \in Nat
      /\ IsSeq(toWorker[c]) /\ IsSeq(toClient[c])
  BY DEF TypeInv, ClientType
<1>2. Waiting(c) = IF client[c] = "waiting" THEN 1 ELSE 0
  BY DEF Waiting
<1>3. NextAnswered(c) = frames[c] - timeouts[c] + 1 - Waiting(c)
  BY DEF NextAnswered
<1> QED
  BY <1>1, <1>2, <1>3, LenSeq DEF Lengths, Unread, Unhandled

(* The invariant of a client that a step leaves alone: it neither returns  *)
(* nor serves it, and ends its connection at most.                         *)
LEMMA Elsewhere ==
    ASSUME NEW d, ClientInv(d), Len(executed) \in Nat,
           client'[d] = client[d], frames'[d] = frames[d], timeouts'[d] = timeouts[d],
           pending'[d] = pending[d], returns'[d] = returns[d],
           toWorker'[d] = toWorker[d], toClient'[d] = toClient[d],
           serving' = d => (serving = d /\ shard' = shard),
           d \notin closed' => d \notin closed /\ (serving = d => serving' = d),
           \/ executed' = executed
           \/ /\ Len(executed') = Len(executed) + 1
              /\ \A j \in 1..Len(executed) : executed'[j] = executed[j]
              /\ executed'[Len(executed) + 1].client # d
    PROVE  ClientInv(d)'
<1>1. /\ Unread(d)' = Unread(d) /\ Unhandled(d)' = Unhandled(d)
      /\ NextAnswered(d)' = NextAnswered(d) /\ Waiting(d)' = Waiting(d)
  BY DEF Unread, Unhandled, NextAnswered, Waiting
<1>2. FramesInOrder(d)' /\ NewestIsPending(d)'
  BY <1>1 DEF ClientInv, FramesInOrder, NewestIsPending
<1>3. /\ \A j \in 1..Len(executed') :
            executed'[j].client = d => j \in 1..Len(executed) /\ executed'[j] = executed[j]
      /\ \A j \in 1..Len(executed) : j \in 1..Len(executed') /\ executed'[j] = executed[j]
  <2> DEFINE n == Len(executed)
  <2>1. CASE executed' = executed
    BY <2>1
  <2>2. CASE Len(executed') = n + 1
    <3> HIDE DEF n
    <3>1. n \in Nat /\ 1..(n + 1) = (1..n) \cup {n + 1}
      BY DEF n
    <3> QED
      BY <2>2, <3>1 DEF n
  <2> QED
    BY <2>1, <2>2
<1>4. ExecutedInPast(d)'
  BY <1>1, <1>3 DEF ClientInv, ExecutedInPast
<1>5. ResponsesEarned(d)'
  BY <1>1, <1>3 DEF ClientInv, ResponsesEarned, Done
<1>6. UnservedUnanswered(d)'
  BY DEF ClientInv, UnservedUnanswered
<1>7. ReturnsRight(d)'
  BY <1>3 DEF ClientInv, ReturnsRight
<1>8. SnapshotsRight(d)'
  BY DEF ClientInv, SnapshotsRight
<1> QED
  BY <1>2, <1>4, <1>5, <1>6, <1>7, <1>8 DEF ClientInv

-----------------------------------------------------------------------------
(* The steps of a client.  What such a step leaves alone:                  *)
OnlyClient(c) ==
    /\ DOMAIN client' = DOMAIN client /\ DOMAIN frames' = DOMAIN frames
    /\ DOMAIN timeouts' = DOMAIN timeouts /\ DOMAIN pending' = DOMAIN pending
    /\ DOMAIN returns' = DOMAIN returns /\ DOMAIN toWorker' = DOMAIN toWorker
    /\ DOMAIN toClient' = DOMAIN toClient
    /\ \A d \in Clients \ {c} :
          /\ client'[d] = client[d] /\ frames'[d] = frames[d] /\ timeouts'[d] = timeouts[d]
          /\ pending'[d] = pending[d] /\ returns'[d] = returns[d]
          /\ toWorker'[d] = toWorker[d] /\ toClient'[d] = toClient[d]
    /\ UNCHANGED <<serving, closed, shard, executed>>

LEMMA ClientAlone ==
    ASSUME TcpInv, NEW c \in Clients, OnlyClient(c), ClientType(c)', ClientInv(c)', Stations',
           backlog' \in Seq(Clients)
    PROVE  TcpInv'
<1>1. \A d \in Clients : ClientType(d)'
  <2> SUFFICES ASSUME NEW d \in Clients, d # c
               PROVE  ClientType(d)'
    OBVIOUS
  <2>1. ClientType(d) /\ Unread(d)' = Unread(d)
    BY DEF TcpInv, TypeInv, OnlyClient, Unread
  <2> QED
    BY <2>1 DEF ClientType, OnlyClient
<1>2. TypeInv'
  BY <1>1 DEF TcpInv, TypeInv, OnlyClient
<1>3. \A d \in Clients : ClientInv(d)'
  <2> SUFFICES ASSUME NEW d \in Clients, d # c
               PROVE  ClientInv(d)'
    OBVIOUS
  <2>1. ClientInv(d) /\ Len(executed) \in Nat
    BY LenSeq DEF TcpInv, TypeInv
  <2> QED
    BY <2>1, Elsewhere DEF OnlyClient
<1>4. WorkerInv'
  BY DEF TcpInv, WorkerInv, OnlyClient, ShardShape, InOrderAtMostOnce, NoCycleForgotten, Counted
<1> QED
  BY <1>2, <1>3, <1>4 DEF TcpInv

(* A step of a client that was connected leaves the stations alone.        *)
LEMMA SameStations ==
    ASSUME TcpInv, NEW c \in Clients, OnlyClient(c), client[c] # "new", client'[c] # "new",
           backlog' = backlog
    PROVE  Stations' /\ backlog' \in Seq(Clients)
BY DEF TcpInv, TypeInv, Stations, OnlyClient

(* TcpRuntimeShardClient::connect.                                         *)
LEMMA ConnectStep ==
    ASSUME TcpInv, NEW c \in Clients, Connect(c)
    PROVE  TcpInv'
<1>1. /\ client[c] = "new" /\ client'[c] \in {"idle", "dropped"}
      /\ UNCHANGED <<frames, timeouts, pending, returns, toWorker, toClient, serving, closed,
                     shard, executed>>
      /\ DOMAIN client' = DOMAIN client
      /\ \A d \in Clients \ {c} : client'[d] = client[d]
      /\ backlog' = backlog \/ backlog' = Append(backlog, c)
  BY DEF Connect, TcpInv, TypeInv
<1>2. OnlyClient(c)
  BY <1>1 DEF OnlyClient
<1>3. ClientType(c)'
  BY <1>1 DEF TcpInv, TypeInv, ClientType, Unread
<1>4. /\ FramesInOrder(c) /\ NewestIsPending(c) /\ ExecutedInPast(c) /\ ResponsesEarned(c)
      /\ UnservedUnanswered(c) /\ ReturnsRight(c)
      /\ serving # c
  BY <1>1 DEF TcpInv, ClientInv, Stations
<1>5. ClientInv(c)'
  <2>1. /\ Unread(c)' = Unread(c) /\ Unhandled(c)' = Unhandled(c)
        /\ NextAnswered(c)' = NextAnswered(c) /\ Waiting(c)' = Waiting(c)
    BY <1>1 DEF Unread, Unhandled, NextAnswered, Waiting
  <2>2. FramesInOrder(c)' /\ NewestIsPending(c)' /\ ExecutedInPast(c)'
    BY <1>1, <1>4, <2>1 DEF FramesInOrder, NewestIsPending, ExecutedInPast
  <2>3. ResponsesEarned(c)' /\ UnservedUnanswered(c)' /\ ReturnsRight(c)'
    BY <1>1, <1>4, <2>1 DEF ResponsesEarned, Done, UnservedUnanswered, ReturnsRight
  <2>4. SnapshotsRight(c)'
    BY <1>1, <1>4 DEF SnapshotsRight
  <2> QED
    BY <2>2, <2>3, <2>4 DEF ClientInv
<1>6. backlog \in Seq(Clients)
  BY DEF TcpInv, TypeInv
<1>7. Stations' /\ backlog' \in Seq(Clients)
  <2>1. CASE backlog' = backlog
    BY <1>1, <1>6, <2>1 DEF TcpInv, Stations
  <2>2. CASE backlog' = Append(backlog, c)
    <3> DEFINE n == Len(backlog)
    <3>1. /\ n \in Nat
          /\ backlog' \in Seq(Clients)
          /\ Len(backlog') = n + 1
          /\ \A i \in 1..n : backlog'[i] = backlog[i]
          /\ backlog'[n + 1] = c
      BY <1>6, <2>2, AppendProperties
    <3> HIDE DEF n
    <3>2. 1..(n + 1) = (1..n) \cup {n + 1}
      BY <3>1
    <3>3. /\ c \notin closed /\ c # serving
          /\ \A i \in 1..n : backlog[i] # c
      BY <1>1 DEF TcpInv, Stations, n
    <3>4. \A i \in 1..Len(backlog') : backlog'[i] \notin closed' /\ backlog'[i] # serving'
      BY <1>1, <3>1, <3>2, <3>3 DEF TcpInv, Stations, n
    <3>5. \A i, j \in 1..Len(backlog') : i # j => backlog'[i] # backlog'[j]
      BY <1>1, <3>1, <3>2, <3>3 DEF TcpInv, Stations, n
    <3>6. \A d \in Clients : client'[d] = "new" =>
             /\ d \notin closed' /\ d # serving'
             /\ \A i \in 1..Len(backlog') : backlog'[i] # d
      BY <1>1, <3>1, <3>2 DEF TcpInv, Stations, n
    <3> QED
      BY <1>1, <3>1, <3>4, <3>5, <3>6 DEF TcpInv, Stations
  <2> QED
    BY <1>1, <2>1, <2>2
<1> QED
  BY <1>2, <1>3, <1>5, <1>7, ClientAlone

(* The client is dropped.                                                  *)
LEMMA DropStep ==
    ASSUME TcpInv, NEW c \in Clients, DropClient(c)
    PROVE  TcpInv'
<1>1. /\ client[c] = "idle" /\ client'[c] = "dropped"
      /\ UNCHANGED <<frames, timeouts, pending, returns, toWorker, toClient, serving, closed,
                     shard, executed, backlog>>
      /\ DOMAIN client' = DOMAIN client
      /\ \A d \in Clients \ {c} : client'[d] = client[d]
  BY DEF DropClient, TcpInv, TypeInv, workerVars
<1>2. OnlyClient(c)
  BY <1>1 DEF OnlyClient
<1>3. ClientType(c)'
  BY <1>1 DEF TcpInv, TypeInv, ClientType, Unread
<1>4. ClientInv(c)
  BY DEF TcpInv
<1>5. /\ Unread(c)' = Unread(c) /\ Unhandled(c)' = Unhandled(c)
      /\ NextAnswered(c)' = NextAnswered(c) /\ Waiting(c)' = Waiting(c)
  BY <1>1 DEF Unread, Unhandled, NextAnswered, Waiting
<1>6. FramesInOrder(c)' /\ NewestIsPending(c)' /\ ExecutedInPast(c)'
  BY <1>1, <1>4, <1>5 DEF ClientInv, FramesInOrder, NewestIsPending, ExecutedInPast
<1>7. ResponsesEarned(c)' /\ UnservedUnanswered(c)' /\ ReturnsRight(c)'
  BY <1>1, <1>4, <1>5 DEF ClientInv, ResponsesEarned, Done, UnservedUnanswered, ReturnsRight
<1>8. SnapshotsRight(c)'
  BY <1>1 DEF SnapshotsRight
<1> QED
  BY <1>1, <1>2, <1>3, <1>6, <1>7, <1>8, ClientAlone, SameStations DEF ClientInv

(* A call that returns an error says nothing of any answer.                *)
LEMMA ErrReturned ==
    ASSUME TcpInv, NEW c \in Clients, NEW r, returns'[c] = Append(returns[c], r),
           r.out = "err", r.of = 0, r.late = timeouts'[c],
           UNCHANGED <<serving, closed, executed, shard>>, client'[c] = "idle",
           toClient[c] = << >> => toClient'[c] = << >>
    PROVE  /\ IsSeq(returns'[c])
           /\ UnservedUnanswered(c)' /\ ReturnsRight(c)' /\ SnapshotsRight(c)'
<1> DEFINE n == Len(returns[c])
<1>1. IsSeq(returns[c]) /\ ClientInv(c)
  BY DEF TcpInv, TypeInv, ClientType
<1>2. /\ n \in Nat /\ IsSeq(returns'[c]) /\ returns'[c] # << >> /\ Len(returns'[c]) = n + 1
      /\ \A i \in 1..n : returns'[c][i] = returns[c][i]
      /\ returns'[c][n + 1] = r
  BY SMTT(30), <1>1, AppendSeq, LenSeq
<1>3. Last(returns'[c]) = r
  BY <1>2 DEF Last
<1> HIDE DEF n
<1>4. 1..(n + 1) = (1..n) \cup {n + 1}
  BY <1>2
<1>5. UnservedUnanswered(c)'
  BY <1>1, <1>2, <1>4 DEF ClientInv, UnservedUnanswered, n
<1>6. ReturnsRight(c)'
  BY <1>1, <1>2, <1>3, <1>4 DEF ClientInv, ReturnsRight, n
<1>7. SnapshotsRight(c)'
  BY <1>2, <1>3 DEF SnapshotsRight
<1> QED
  BY <1>2, <1>5, <1>6, <1>7

(* write_json_line fails.                                                  *)
LEMMA SendFailsStep ==
    ASSUME TcpInv, NEW c \in Clients, NEW req, SendFails(c, req)
    PROVE  TcpInv'
<1> DEFINE r == [req |-> pending'[c], frame |-> frames'[c], out |-> "err", of |-> 0,
                 answer |-> NoAnswer, late |-> timeouts'[c]]
<1>1. /\ client[c] = "idle"
      /\ UNCHANGED <<client, frames, timeouts, toWorker, toClient, serving, closed, shard,
                     executed, backlog>>
      /\ DOMAIN pending' = DOMAIN pending /\ DOMAIN returns' = DOMAIN returns
      /\ \A d \in Clients \ {c} : pending'[d] = pending[d] /\ returns'[d] = returns[d]
      /\ returns'[c] = Append(returns[c], r)
  BY DEF SendFails, Returned, TcpInv, TypeInv, workerVars
<1>2. OnlyClient(c)
  BY <1>1 DEF OnlyClient
<1>3. IsSeq(returns'[c]) /\ UnservedUnanswered(c)' /\ ReturnsRight(c)' /\ SnapshotsRight(c)'
  <2>1. r.out = "err" /\ r.of = 0 /\ r.late = timeouts'[c]
    OBVIOUS
  <2> HIDE DEF r
  <2> QED
    BY <1>1, <2>1, ErrReturned
<1>4. ClientType(c)'
  BY <1>1, <1>3 DEF TcpInv, TypeInv, ClientType, Unread
<1>5. ClientInv(c)
  BY DEF TcpInv
<1>6. /\ Unread(c)' = Unread(c) /\ Unhandled(c)' = Unhandled(c)
      /\ NextAnswered(c)' = NextAnswered(c) /\ Waiting(c)' = Waiting(c)
  BY <1>1 DEF Unread, Unhandled, NextAnswered, Waiting
<1>7. FramesInOrder(c)' /\ NewestIsPending(c)' /\ ExecutedInPast(c)' /\ ResponsesEarned(c)'
  BY <1>1, <1>5, <1>6
    DEF ClientInv, FramesInOrder, NewestIsPending, ExecutedInPast, ResponsesEarned, Done
<1> QED
  BY <1>1, <1>2, <1>3, <1>4, <1>7, ClientAlone, SameStations DEF ClientInv

(* The worker closed the connection: nothing is left to be numbered.       *)
LEMMA ReadEofStep ==
    ASSUME TcpInv, NEW c \in Clients, ReadEof(c)
    PROVE  TcpInv'
<1> DEFINE r == [req |-> pending'[c], frame |-> frames'[c], out |-> "err", of |-> 0,
                 answer |-> NoAnswer, late |-> timeouts'[c]]
<1>1. /\ client[c] = "waiting" /\ client'[c] = "idle"
      /\ c \in closed /\ toClient[c] = << >>
      /\ UNCHANGED <<frames, timeouts, pending, toWorker, toClient, serving, closed, shard,
                     executed, backlog>>
      /\ DOMAIN client' = DOMAIN client /\ DOMAIN returns' = DOMAIN returns
      /\ \A d \in Clients \ {c} : client'[d] = client[d] /\ returns'[d] = returns[d]
      /\ returns'[c] = Append(returns[c], r)
  BY DEF ReadEof, Returned, TcpInv, TypeInv, workerVars
<1>2. OnlyClient(c)
  BY <1>1 DEF OnlyClient
<1>3. IsSeq(returns'[c]) /\ UnservedUnanswered(c)' /\ ReturnsRight(c)' /\ SnapshotsRight(c)'
  <2>1. r.out = "err" /\ r.of = 0 /\ r.late = timeouts'[c]
    OBVIOUS
  <2> HIDE DEF r
  <2> QED
    BY <1>1, <2>1, ErrReturned
<1>4. ClientType(c)'
  BY <1>1, <1>3 DEF TcpInv, TypeInv, ClientType, Unread
<1>5. ClientInv(c) /\ Lengths(c)
  BY LengthsOfClient DEF TcpInv
<1>6. Unread(c)' = 0
  BY <1>1, <1>5 DEF Unread, Lengths
<1>7. FramesInOrder(c)' /\ NewestIsPending(c)' /\ ExecutedInPast(c)' /\ ResponsesEarned(c)'
  BY <1>1, <1>5, <1>6
    DEF ClientInv, FramesInOrder, NewestIsPending, ExecutedInPast, ResponsesEarned, Done
<1> QED
  BY <1>1, <1>2, <1>3, <1>4, <1>7, ClientAlone, SameStations DEF ClientInv

(* The read times out: the answer waited for stays under way, and every    *)
(* later call is one frame further from its own.                           *)
LEMMA ReadTimeoutStep ==
    ASSUME TcpInv, NEW c \in Clients, ReadTimeout(c)
    PROVE  TcpInv'
<1> DEFINE r == [req |-> pending'[c], frame |-> frames'[c], out |-> "err", of |-> 0,
                 answer |-> NoAnswer, late |-> timeouts'[c]]
<1>0. ClientInv(c) /\ Lengths(c) /\ ClientType(c)
  BY LengthsOfClient DEF TcpInv, TypeInv
<1>1. /\ client[c] = "waiting" /\ client'[c] = "idle"
      /\ timeouts'[c] = timeouts[c] + 1
      /\ UNCHANGED <<frames, pending, toWorker, serving, closed, shard, executed, backlog>>
      /\ DOMAIN client' = DOMAIN client /\ DOMAIN returns' = DOMAIN returns
      /\ DOMAIN timeouts' = DOMAIN timeouts
      /\ \A d \in Clients \ {c} :
            client'[d] = client[d] /\ returns'[d] = returns[d] /\ timeouts'[d] = timeouts[d]
      /\ returns'[c] = Append(returns[c], r)
  BY DEF ReadTimeout, Returned, TcpInv, TypeInv, workerVars
<1>2. /\ DOMAIN toClient' = DOMAIN toClient
      /\ \A d \in Clients \ {c} : toClient'[d] = toClient[d]
      /\ \/ toClient'[c] = toClient[c]
         \/ toClient[c] # << >> /\ toClient'[c] = [toClient[c] EXCEPT ![1].line = Garbled]
  BY DEF ReadTimeout, TcpInv, TypeInv
<1>3. /\ IsSeq(toClient'[c])
      /\ Unread(c)' = Unread(c)
      /\ \A k \in 1..Unread(c) :
            /\ toClient'[c][k].id = toClient[c][k].id
            /\ toClient'[c][k] = [id |-> toClient'[c][k].id, line |-> toClient'[c][k].line]
            /\ toClient'[c][k].line \in {toClient[c][k].line, Garbled}
  <2>1. CASE toClient'[c] = toClient[c]
    BY <1>0, <2>1 DEF ClientType, Unread
  <2>2. CASE toClient[c] # << >> /\ toClient'[c] = [toClient[c] EXCEPT ![1].line = Garbled]
    <3> DEFINE s == toClient[c]
               t == toClient'[c]
               u == Unread(c)
    <3>1. u \in Nat /\ u # 0 /\ 1 \in 1..u /\ IsSeq(s)
      BY <1>0, <2>2 DEF ClientType, Lengths
    <3>2. s[1] = [id |-> s[1].id, line |-> s[1].line]
      BY <1>0, <3>1 DEF ClientType
    <3>3. /\ IsSeq(t) /\ Unread(c)' = u
          /\ t[1] = [id |-> s[1].id, line |-> Garbled]
          /\ \A k \in 2..u : t[k] = s[k]
      <4> DEFINE e == [id |-> s[1].id, line |-> Garbled]
      <4>1. [s[1] EXCEPT !.line = Garbled] = e
        <5>1. [[id |-> s[1].id, line |-> s[1].line] EXCEPT !.line = Garbled] = e
          OBVIOUS
        <5> QED
          BY <3>2, <5>1
      <4>2. t = [s EXCEPT ![1] = [s[1] EXCEPT !.line = Garbled]]
        BY <2>2
      <4>3. IsSeq(s) /\ s # << >> /\ t = [s EXCEPT ![1] = e]
        BY <2>2, <3>1, <4>1, <4>2
      <4>4. u = Len(s) /\ Unread(c)' = Len(t)
        BY DEF Unread
      <4> HIDE DEF u, e
      <4>5. IsSeq(t) /\ Len(t) = Len(s) /\ t[1] = e /\ \A k \in 2..Len(s) : t[k] = s[k]
        BY <4>3, FirstReplaced
      <4> QED
        BY <4>4, <4>5 DEF e
    <3>4. \A k \in 1..u : k = 1 \/ k \in 2..u
      BY <3>1
    <3> QED
      BY <1>0, <3>3, <3>4 DEF ClientType
  <2> QED
    BY <1>2, <2>1, <2>2
<1>4. OnlyClient(c)
  BY <1>1, <1>2 DEF OnlyClient
<1>5. IsSeq(returns'[c]) /\ UnservedUnanswered(c)' /\ ReturnsRight(c)' /\ SnapshotsRight(c)'
  <2>1. r.out = "err" /\ r.of = 0 /\ r.late = timeouts'[c]
    OBVIOUS
  <2>2. toClient[c] = << >> => toClient'[c] = << >>
    BY <1>2
  <2> HIDE DEF r
  <2> QED
    BY <1>1, <2>1, <2>2, ErrReturned
<1>6. ClientType(c)'
  BY <1>0, <1>1, <1>3, <1>5 DEF ClientType
<1>7. /\ NextAnswered(c)' = NextAnswered(c) /\ Waiting(c) = 1 /\ Waiting(c)' = 0
      /\ timeouts'[c] + Waiting(c)' = timeouts[c] + Waiting(c)
  <2>1. Waiting(c) = 1 /\ Waiting(c)' = 0
    BY <1>1 DEF Waiting
  <2>2. NextAnswered(c)' = frames[c] - (timeouts[c] + 1) + 1 - 0
    BY <2>1, <1>1 DEF NextAnswered
  <2> QED
    BY <2>1, <2>2, <1>0, <1>1 DEF Lengths
<1>8. Unhandled(c)' = Unhandled(c)
  BY <1>1 DEF Unhandled
<1>9. FramesInOrder(c)'
  BY ZenonT(30), <1>0, <1>1, <1>3, <1>7, <1>8 DEF ClientInv, FramesInOrder
<1>10. NewestIsPending(c)' /\ ExecutedInPast(c)'
  BY <1>0, <1>1, <1>3, <1>7 DEF ClientInv, NewestIsPending, ExecutedInPast
<1>11. ResponsesEarned(c)'
  <2> SUFFICES ASSUME NEW k \in 1..Unread(c), toClient'[c][k].line.kind \notin {"Err", "Garbled"}
               PROVE  Done(c, toClient[c][k].id)
    BY ZenonT(30), <1>1, <1>3 DEF ResponsesEarned, Done
  <2>1. toClient'[c][k].line = toClient[c][k].line
    <3>1. Garbled.kind = "Garbled"
      BY DEF Garbled
    <3> QED
      BY <1>3, <3>1
  <2> QED
    BY <1>0, <2>1 DEF ClientInv, ResponsesEarned
<1> QED
  BY <1>1, <1>4, <1>5, <1>6, <1>9, <1>10, <1>11, ClientAlone, SameStations DEF ClientInv

(* write_json_line completes: the frame joins the end of the connection.   *)
LEMMA SendStep ==
    ASSUME TcpInv, NEW c \in Clients, NEW req, SendRequest(c, req)
    PROVE  TcpInv'
<1> DEFINE f == [id |-> frames[c] + 1, line |-> IF partial[c] THEN Garbled ELSE req]
           n == Unhandled(c)
<1>0. ClientInv(c) /\ Lengths(c) /\ ClientType(c)
  BY LengthsOfClient DEF TcpInv, TypeInv
<1>1. /\ client[c] = "idle" /\ client'[c] = "waiting"
      /\ frames'[c] = frames[c] + 1 /\ pending'[c] = req
      /\ UNCHANGED <<timeouts, returns, toClient, serving, closed, shard, executed, backlog>>
      /\ DOMAIN client' = DOMAIN client /\ DOMAIN frames' = DOMAIN frames
      /\ DOMAIN pending' = DOMAIN pending /\ DOMAIN toWorker' = DOMAIN toWorker
      /\ \A d \in Clients \ {c} :
            /\ client'[d] = client[d] /\ frames'[d] = frames[d]
            /\ pending'[d] = pending[d] /\ toWorker'[d] = toWorker[d]
      /\ toWorker'[c] = Append(toWorker[c], f)
  BY DEF SendRequest, TcpInv, TypeInv, workerVars
<1>2. f.id = frames[c] + 1 /\ f.line \in {req, Garbled}
  OBVIOUS
<1> HIDE DEF f
<1>3. /\ IsSeq(toWorker'[c])
      /\ Unhandled(c)' = n + 1
      /\ \A k \in 1..n : toWorker'[c][k] = toWorker[c][k]
      /\ toWorker'[c][n + 1] = f
      /\ Unread(c)' = Unread(c)
  BY <1>0, <1>1, AppendSeq DEF ClientType, Unhandled, Unread
<1> HIDE DEF n
<1>4. OnlyClient(c)
  BY <1>1 DEF OnlyClient
<1>5. ClientType(c)'
  BY <1>0, <1>1, <1>3 DEF ClientType
<1>6. /\ n = Unhandled(c)
      /\ n \in Nat /\ Unread(c) \in Nat /\ frames[c] \in Nat /\ timeouts[c] \in Nat
      /\ NextAnswered(c) \in Int
      /\ NextAnswered(c) = frames[c] - timeouts[c] + 1
      /\ NextAnswered(c)' = NextAnswered(c)
      /\ Waiting(c)' = 1
      /\ c \notin closed => Unread(c) + n = timeouts[c]
      /\ 1..(n + 1) = (1..n) \cup {n + 1}
  <2>1. Waiting(c) = 0 /\ Waiting(c)' = 1
    BY <1>1 DEF Waiting
  <2>2. c \notin closed => Unread(c) + Unhandled(c) = timeouts[c] + Waiting(c)
    BY <1>0 DEF ClientInv, FramesInOrder
  <2>3. NextAnswered(c)' = (frames[c] + 1) - timeouts[c] + 1 - 1
    BY <2>1, <1>1 DEF NextAnswered
  <2> QED
    BY <2>1, <2>2, <2>3, <1>0 DEF Lengths, n
<1>7. FramesInOrder(c)'
  <2>1. \A k \in 1..Unread(c)' : toClient'[c][k].id = NextAnswered(c)' + k - 1
    BY <1>0, <1>1, <1>3, <1>6 DEF ClientInv, FramesInOrder
  <2>2. ASSUME c \notin closed
        PROVE  /\ \A k \in 1..n : toWorker'[c][k].id = NextAnswered(c) + Unread(c) + k - 1
               /\ toWorker'[c][n + 1].id = NextAnswered(c) + Unread(c) + (n + 1) - 1
               /\ Unread(c) + (n + 1) = timeouts[c] + 1
    <3>1. \A k \in 1..n : toWorker'[c][k].id = NextAnswered(c) + Unread(c) + k - 1
      BY <2>2, <1>0, <1>3, <1>6 DEF ClientInv, FramesInOrder
    <3>2. toWorker'[c][n + 1].id = NextAnswered(c) + Unread(c) + (n + 1) - 1
      BY <2>2, <1>2, <1>3, <1>6
    <3> QED
      BY <3>1, <3>2, <2>2, <1>6
  <2> QED
    BY <2>1, <2>2, <1>1, <1>3, <1>6 DEF FramesInOrder
<1>8. NewestIsPending(c)'
  <2> SUFFICES ASSUME c \notin closed, NEW k \in 1..(n + 1), toWorker'[c][k].id = frames[c] + 1
               PROVE  toWorker'[c][k].line \in {req, Garbled}
    BY <1>1, <1>3 DEF NewestIsPending
  <2>1. \A m \in 1..n : toWorker[c][m].id = NextAnswered(c) + Unread(c) + m - 1
    BY <1>0, <1>6 DEF ClientInv, FramesInOrder
  <2>2. ASSUME k \in 1..n PROVE FALSE
    <3>1. NextAnswered(c) + Unread(c) + k - 1 = frames[c] + 1
      BY <2>1, <2>2, <1>3
    <3> QED
      BY <2>2, <3>1, <1>6
  <2> QED
    BY <2>2, <1>2, <1>3, <1>6
<1>9. ExecutedInPast(c)'
  <2> SUFFICES ASSUME NEW j \in 1..Len(executed), executed[j].client = c
               PROVE  /\ executed[j].frame.id \in Int
                      /\ executed[j].frame.id <= frames[c] + 1
                      /\ c \notin closed => executed[j].frame.id < NextAnswered(c) + Unread(c)
                      /\ executed[j].frame.id # frames[c] + 1
    BY <1>1, <1>3, <1>6 DEF ExecutedInPast
  <2>1. /\ executed[j].frame.id \in Int /\ executed[j].frame.id <= frames[c]
        /\ c \notin closed => executed[j].frame.id < NextAnswered(c) + Unread(c)
    BY <1>0 DEF ClientInv, ExecutedInPast
  <2> QED
    BY <2>1, <1>6
<1>10. ResponsesEarned(c)' /\ UnservedUnanswered(c)' /\ ReturnsRight(c)'
  BY <1>0, <1>1, <1>3 DEF ClientInv, ResponsesEarned, Done, UnservedUnanswered, ReturnsRight
<1>11. SnapshotsRight(c)'
  <2>1. (serving = c /\ timeouts[c] = 0) => toClient[c] = << >>
    <3>1. serving = c => c \notin closed
      BY DEF TcpInv, Stations
    <3> QED
      BY <3>1, <1>0, <1>6 DEF Lengths
  <2> QED
    BY <2>1, <1>1 DEF SnapshotsRight
<1> QED
  BY <1>1, <1>4, <1>5, <1>7, <1>8, <1>9, <1>10, <1>11, ClientAlone, SameStations DEF ClientInv

(* The oldest unread line is the answer.                                   *)
LEMMA ReadResponseStep ==
    ASSUME TcpInv, NEW c \in Clients, ReadResponse(c)
    PROVE  TcpInv'
<1> DEFINE a == toClient[c][1]
           out == IF a.line.kind = ExpectedKind(pending[c]) THEN "ok" ELSE "err"
           r == [req |-> pending[c], frame |-> frames[c], out |-> out, of |-> a.id,
                 answer |-> a.line, late |-> timeouts[c]]
           n == Len(returns[c])
           u == Unread(c)
<1>0. ClientInv(c) /\ Lengths(c) /\ ClientType(c)
  BY LengthsOfClient DEF TcpInv, TypeInv
<1>1. /\ client[c] = "waiting" /\ client'[c] = "idle" /\ toClient[c] # << >>
      /\ UNCHANGED <<frames, timeouts, pending, toWorker, serving, closed, shard, executed,
                     backlog>>
      /\ DOMAIN client' = DOMAIN client /\ DOMAIN returns' = DOMAIN returns
      /\ DOMAIN toClient' = DOMAIN toClient
      /\ \A d \in Clients \ {c} :
            client'[d] = client[d] /\ returns'[d] = returns[d] /\ toClient'[d] = toClient[d]
      /\ toClient'[c] = Tail(toClient[c])
  BY DEF ReadResponse, Returned, TcpInv, TypeInv, workerVars
<1>2. Head(toClient[c]) = a
  BY <1>0, <1>1, TailSeq DEF ClientType
<1>3. returns'[c] = Append(returns[c], r)
  BY <1>1, <1>2 DEF ReadResponse, Returned, TcpInv, TypeInv
<1>4. /\ r.req = pending[c] /\ r.frame = frames[c] /\ r.of = a.id /\ r.answer = a.line
      /\ r.late = timeouts[c]
      /\ r.out = "ok" => a.line.kind = ExpectedKind(pending[c])
  OBVIOUS
<1> HIDE DEF r, out, a
<1>5. /\ n \in Nat /\ IsSeq(returns'[c]) /\ returns'[c] # << >> /\ Len(returns'[c]) = n + 1
      /\ \A i \in 1..n : returns'[c][i] = returns[c][i]
      /\ returns'[c][n + 1] = r
  BY SMTT(30), <1>0, <1>3, AppendSeq, LenSeq DEF ClientType
<1>6. Last(returns'[c]) = r
  BY <1>5 DEF Last
<1>7. /\ IsSeq(toClient'[c]) /\ Unread(c)' = u - 1
      /\ \A k \in 1..(u - 1) : toClient'[c][k] = toClient[c][k + 1]
  BY <1>0, <1>1, TailSeq DEF ClientType, Unread
<1> HIDE DEF n, u
<1>8. /\ u = Unread(c) /\ u \in Nat /\ u # 0 /\ Unhandled(c) \in Nat
      /\ frames[c] \in Nat /\ timeouts[c] \in Nat /\ NextAnswered(c) \in Int
      /\ NextAnswered(c) = frames[c] - timeouts[c]
      /\ NextAnswered(c)' = NextAnswered(c) + 1
      /\ Waiting(c) = 1 /\ Waiting(c)' = 0
      /\ Unhandled(c)' = Unhandled(c)
  <2>1. Waiting(c) = 1 /\ Waiting(c)' = 0
    BY <1>1 DEF Waiting
  <2>2. NextAnswered(c)' = frames[c] - timeouts[c] + 1 - 0
    BY <2>1, <1>1 DEF NextAnswered
  <2>3. Unhandled(c)' = Unhandled(c)
    BY <1>1 DEF Unhandled
  <2> QED
    BY <2>1, <2>2, <2>3, <1>0, <1>1 DEF Lengths, u
<1>9. OnlyClient(c)
  BY <1>1 DEF OnlyClient
<1>10. \A k \in 1..(u - 1) : k + 1 \in 1..u
  BY <1>8
<1>11. ClientType(c)'
  <2>1. /\ client'[c] \in {"new", "idle", "waiting", "dropped"}
        /\ frames'[c] \in Nat /\ timeouts'[c] \in Nat
        /\ IsSeq(returns'[c]) /\ IsSeq(toWorker'[c]) /\ IsSeq(toClient'[c])
    BY <1>0, <1>1, <1>5, <1>7 DEF ClientType
  <2>2. \A k \in 1..Unread(c)' :
           toClient'[c][k] = [id |-> toClient'[c][k].id, line |-> toClient'[c][k].line]
    <3>1. \A k \in 1..u :
             toClient[c][k] = [id |-> toClient[c][k].id, line |-> toClient[c][k].line]
      BY <1>0, <1>8 DEF ClientType
    <3> QED
      BY <1>7, <1>10, <3>1
  <2> QED
    BY <2>1, <2>2 DEF ClientType
<1>12. /\ a.id = frames[c] - timeouts[c]
       /\ a.line.kind \notin {"Err", "Garbled"} => Done(c, a.id)
  <2>1. 1 \in 1..u
    BY <1>8
  <2>2. a.id = NextAnswered(c) + 1 - 1
    BY <1>0, <1>8, <2>1 DEF ClientInv, FramesInOrder, a
  <2>3. a.line.kind \notin {"Err", "Garbled"} => Done(c, a.id)
    BY <1>0, <1>8, <2>1 DEF ClientInv, ResponsesEarned, a
  <2> QED
    BY <2>2, <2>3, <1>8
<1>13. FramesInOrder(c)'
  <2>1. \A k \in 1..(u - 1) : toClient'[c][k].id = (NextAnswered(c) + 1) + k - 1
    <3> TAKE k \in 1..(u - 1)
    <3>1. toClient[c][k + 1].id = NextAnswered(c) + (k + 1) - 1
      BY <1>0, <1>8, <1>10 DEF ClientInv, FramesInOrder
    <3> QED
      BY <3>1, <1>7, <1>8
  <2>2. ASSUME c \notin closed
        PROVE  /\ \A k \in 1..Unhandled(c) :
                     toWorker[c][k].id = (NextAnswered(c) + 1) + (u - 1) + k - 1
               /\ (u - 1) + Unhandled(c) = timeouts[c] + 0
    <3>1. /\ \A k \in 1..Unhandled(c) : toWorker[c][k].id = NextAnswered(c) + u + k - 1
          /\ u + Unhandled(c) = timeouts[c] + 1
      BY <2>2, <1>0, <1>8 DEF ClientInv, FramesInOrder
    <3> QED
      BY <3>1, <1>8
  <2> QED
    BY ZenonT(30), <2>1, <2>2, <1>1, <1>7, <1>8 DEF FramesInOrder
<1>14. NewestIsPending(c)'
  BY <1>1 DEF NewestIsPending
<1>15. ExecutedInPast(c)'
  <2>1. (NextAnswered(c) + 1) + (u - 1) = NextAnswered(c) + u
    BY <1>8
  <2> QED
    BY <2>1, <1>0, <1>1, <1>7, <1>8 DEF ClientInv, ExecutedInPast
<1>16. ResponsesEarned(c)'
  <2>1. \A k \in 1..u : toClient[c][k].line.kind \notin {"Err", "Garbled"} =>
                               Done(c, toClient[c][k].id)
    BY <1>0, <1>8 DEF ClientInv, ResponsesEarned
  <2>2. \A k \in 1..(u - 1) : toClient'[c][k].line.kind \notin {"Err", "Garbled"} =>
                                   Done(c, toClient'[c][k].id)
    BY <2>1, <1>7, <1>10
  <2> QED
    BY <2>2, <1>1, <1>7 DEF ResponsesEarned, Done
<1>17. UnservedUnanswered(c)'
  BY <1>0, <1>1 DEF ClientInv, UnservedUnanswered
<1>18. 1..(n + 1) = (1..n) \cup {n + 1}
  BY <1>5
<1>19. ReturnsRight(c)'
  <2>1. r.of = r.frame - r.late
    BY <1>4, <1>12
  <2>2. ASSUME r.out = "ok", r.late = 0
        PROVE  \E j \in 1..Len(executed) :
                   /\ executed[j].client = c
                   /\ executed[j].frame.id = r.frame
                   /\ executed[j].frame.line = r.req
    <3>1. Done(c, a.id)
      BY <2>2, <1>4, <1>12, ExpectedIsNoError
    <3>2. a.id = frames[c]
      BY <2>2, <1>4, <1>8, <1>12
    <3>3. PICK j \in 1..Len(executed) : executed[j].client = c /\ executed[j].frame.id = frames[c]
      BY <3>1, <3>2 DEF Done
    <3>4. executed[j].frame.line = pending[c]
      BY <3>3, <1>0, <1>1 DEF ClientInv, ExecutedInPast
    <3> QED
      BY <3>3, <3>4, <1>4
  <2> SUFFICES ASSUME NEW i \in 1..(n + 1)
               PROVE  LET q == returns'[c][i]
                      IN  /\ q.of # 0 => q.of = q.frame - q.late
                          /\ (q.out = "ok" /\ q.late = 0) =>
                                 \E j \in 1..Len(executed) :
                                     /\ executed[j].client = c
                                     /\ executed[j].frame.id = q.frame
                                     /\ executed[j].frame.line = q.req
    BY <1>1, <1>4, <1>5, <1>6 DEF ReturnsRight
  <2>3. CASE i \in 1..n
    BY <2>3, <1>0, <1>5 DEF ClientInv, ReturnsRight, n
  <2>4. CASE i = n + 1
    BY <2>1, <2>2, <2>4, <1>5
  <2> QED
    BY <2>3, <2>4, <1>18
<1>20. SnapshotsRight(c)'
  <2> SUFFICES ASSUME serving = c, r.out = "ok", r.req.kind = "Snapshot", r.late = 0
               PROVE  r.answer.storage = Storage(shard)
    BY <1>1, <1>5, <1>6 DEF SnapshotsRight
  <2>1. a.line.kind = "Snapshot" /\ timeouts[c] = 0
    BY <1>4, ExpectedIsNoError
  <2> QED
    BY <2>1, <1>0, <1>1, <1>4 DEF ClientInv, SnapshotsRight, a
<1> QED
  BY <1>1, <1>9, <1>11, <1>13, <1>14, <1>15, <1>16, <1>17, <1>19, <1>20, ClientAlone, SameStations
    DEF ClientInv

-----------------------------------------------------------------------------
(* The steps of the worker.  The end of a connection, or of the process    *)
(* with all its connections, changes nothing that a client can tell.       *)
ConnectionsEnd(gone) ==
    /\ serving' = NoClient
    /\ closed' = closed \cup gone \cup ({serving} \cap Clients)
    /\ \/ backlog' = backlog /\ gone = {}
       \/ backlog' = << >> /\ gone = Range(backlog)
    /\ UNCHANGED <<shard, executed, toWorker, toClient>> /\ UNCHANGED clientVars

LEMMA EndStep ==
    ASSUME TcpInv, NEW gone, ConnectionsEnd(gone)
    PROVE  TcpInv'
<1>1. /\ UNCHANGED <<client, frames, timeouts, pending, returns, toWorker, toClient, shard,
                     executed>>
      /\ serving' = NoClient
      /\ closed' = closed \cup gone \cup ({serving} \cap Clients)
  BY DEF ConnectionsEnd, clientVars
<1>2. /\ backlog \in Seq(Clients) /\ closed \subseteq Clients
      /\ serving \in Clients \cup {NoClient} /\ NoClient \notin Clients
  BY TcpAssumption DEF TcpInv, TypeInv, NoClient
<1>3. gone \subseteq {backlog[i] : i \in 1..Len(backlog)} /\ gone \subseteq Clients
  <2>1. Range(backlog) = {backlog[i] : i \in 1..Len(backlog)} /\ Range(backlog) \subseteq Clients
    BY <1>2, RangeEquality, RangeOfSeq
  <2> QED
    BY <2>1 DEF ConnectionsEnd
<1>4. TypeInv'
  <2>1. \A d \in Clients : ClientType(d)'
    BY <1>1 DEF TcpInv, TypeInv, ClientType, Unread
  <2>2. backlog' \in Seq(Clients)
    BY <1>2, EmptySeq DEF ConnectionsEnd
  <2> QED
    BY <2>1, <2>2, <1>1, <1>2, <1>3 DEF TcpInv, TypeInv
<1>5. Stations'
  <2>1. serving' \notin closed'
    BY <1>1, <1>2, <1>3
  <2>2. \A d \in Clients : client'[d] = "new" => d \notin closed' /\ d # serving'
    BY <1>1, <1>2, <1>3 DEF TcpInv, Stations
  <2>3. CASE backlog' = backlog /\ gone = {}
    BY <1>1, <1>2, <2>1, <2>2, <2>3 DEF TcpInv, Stations
  <2>4. CASE backlog' = << >>
    BY <1>1, <1>2, <2>1, <2>2, <2>4 DEF TcpInv, Stations
  <2> QED
    BY <2>3, <2>4 DEF ConnectionsEnd
<1>6. \A d \in Clients : ClientInv(d)'
  <2> TAKE d \in Clients
  <2>1. ClientInv(d) /\ Len(executed) \in Nat
    BY LenSeq DEF TcpInv, TypeInv
  <2>2. serving' # d /\ (d \notin closed' => d \notin closed /\ serving # d)
    BY <1>1, <1>2
  <2> QED
    BY <2>1, <2>2, <1>1, Elsewhere
<1>7. WorkerInv'
  BY <1>1 DEF TcpInv, WorkerInv, ShardShape, InOrderAtMostOnce, NoCycleForgotten, Counted
<1> QED
  BY <1>4, <1>5, <1>6, <1>7 DEF TcpInv

LEMMA ExitEnds ==
    ASSUME TcpInv, NEW why, Exit(why), UNCHANGED <<shard, executed, toWorker, toClient>>,
           UNCHANGED clientVars
    PROVE  TcpInv'
<1>1. ConnectionsEnd(Range(backlog))
  BY DEF Exit, ConnectionsEnd
<1> QED
  BY <1>1, EndStep

(* serve_once accepts the oldest connection, which has had no answer yet.  *)
LEMMA AcceptStep ==
    ASSUME TcpInv, Accept
    PROVE  TcpInv'
<1> DEFINE n == Len(backlog)
           c == backlog[1]
<1>1. /\ serving = NoClient /\ backlog # << >>
      /\ serving' = Head(backlog) /\ backlog' = Tail(backlog)
      /\ UNCHANGED <<client, frames, timeouts, pending, returns, toWorker, toClient, closed,
                     shard, executed>>
  BY DEF Accept, clientVars
<1>2. backlog \in Seq(Clients)
  BY DEF TcpInv, TypeInv
<1>3. /\ n \in Nat /\ n # 0
      /\ backlog' \in Seq(Clients) /\ Len(backlog') = n - 1
      /\ \A i \in 1..(n - 1) : backlog'[i] = backlog[i + 1]
      /\ serving' = c
  BY <1>1, <1>2, HeadTailProperties, EmptySeq
<1>4. /\ 1 \in 1..n /\ c \in Clients
      /\ c \notin closed /\ c # serving
      /\ \A i \in 1..n : i # 1 => backlog[i] # c
      /\ client[c] # "new"
  <2>1. 1 \in 1..n
    BY <1>3
  <2>2. c \in Clients
    BY <2>1, <1>2
  <2> QED
    BY <2>1, <2>2 DEF TcpInv, Stations
<1> HIDE DEF n, c
<1>5. \A i \in 1..(n - 1) : i + 1 \in 1..n /\ i + 1 # 1
  BY <1>3
<1>6. TypeInv'
  <2>1. \A d \in Clients : ClientType(d)'
    BY <1>1 DEF TcpInv, TypeInv, ClientType, Unread
  <2> QED
    BY <2>1, <1>1, <1>3, <1>4 DEF TcpInv, TypeInv
<1>7. Stations'
  <2>1. \A i \in 1..(n - 1) : backlog'[i] \notin closed' /\ backlog'[i] # serving'
    BY <1>1, <1>3, <1>4, <1>5 DEF TcpInv, Stations, n
  <2>2. \A i, j \in 1..(n - 1) : i # j => backlog'[i] # backlog'[j]
    <3> SUFFICES ASSUME NEW i \in 1..(n - 1), NEW j \in 1..(n - 1), i # j
                 PROVE  backlog[i + 1] # backlog[j + 1]
      BY <1>3
    <3>1. i + 1 # j + 1
      BY <1>3
    <3> QED
      BY <3>1, <1>5 DEF TcpInv, Stations, n
  <2>3. \A d \in Clients : client'[d] = "new" =>
           /\ d \notin closed' /\ d # serving'
           /\ \A i \in 1..(n - 1) : backlog'[i] # d
    BY <1>1, <1>3, <1>4, <1>5 DEF TcpInv, Stations, n
  <2> QED
    BY <2>1, <2>2, <2>3, <1>1, <1>3, <1>4 DEF Stations
<1>8. \A d \in Clients : ClientInv(d)'
  <2> TAKE d \in Clients
  <2>1. ClientInv(d) /\ Len(executed) \in Nat
    BY LenSeq DEF TcpInv, TypeInv
  <2>2. CASE d # c
    <3>1. serving # d
      BY <1>1, TcpAssumption DEF NoClient
    <3> QED
      BY <2>1, <2>2, <3>1, <1>1, <1>3, Elsewhere
  <2>3. CASE d = c
    <3>1. /\ Unread(d)' = Unread(d) /\ Unhandled(d)' = Unhandled(d)
          /\ NextAnswered(d)' = NextAnswered(d) /\ Waiting(d)' = Waiting(d)
      BY <1>1 DEF Unread, Unhandled, NextAnswered, Waiting
    <3>2. FramesInOrder(d)' /\ NewestIsPending(d)' /\ ExecutedInPast(d)'
      BY <2>1, <3>1, <1>1 DEF ClientInv, FramesInOrder, NewestIsPending, ExecutedInPast
    <3>3. ResponsesEarned(d)' /\ ReturnsRight(d)'
      BY <2>1, <3>1, <1>1 DEF ClientInv, ResponsesEarned, Done, ReturnsRight
    <3>4. UnservedUnanswered(d)'
      BY <2>3, <1>3 DEF UnservedUnanswered
    <3>5. toClient[d] = << >> /\ \A i \in 1..Len(returns[d]) : returns[d][i].out # "ok"
      BY <2>1, <2>3, <1>4 DEF ClientInv, UnservedUnanswered
    <3>6. returns[d] # << >> => Last(returns[d]).out # "ok"
      <4> SUFFICES ASSUME returns[d] # << >>
                   PROVE  Len(returns[d]) \in 1..Len(returns[d])
        BY <3>5 DEF Last
      <4> DEFINE m == Len(returns[d])
      <4>1. IsSeq(returns[d])
        BY DEF TcpInv, TypeInv, ClientType
      <4>2. m \in Nat /\ m # 0
        BY <4>1, LenSeq
      <4> HIDE DEF m
      <4> QED
        BY <4>2 DEF m
    <3>7. SnapshotsRight(d)'
      BY <3>5, <3>6, <1>1 DEF SnapshotsRight
    <3> QED
      BY <3>2, <3>3, <3>4, <3>7 DEF ClientInv
  <2> QED
    BY <2>2, <2>3
<1>9. WorkerInv'
  BY <1>1 DEF TcpInv, WorkerInv, ShardShape, InOrderAtMostOnce, NoCycleForgotten, Counted
<1> QED
  BY <1>6, <1>7, <1>8, <1>9 DEF TcpInv

(* A line that is not a request is refused.                                *)
LEMMA GarbledRefused == ASSUME NEW s PROVE ~Accepted(s, Garbled)
BY DEF Accepted, Garbled

(* What a request carried out adds to the operations the shard counts.     *)
LEMMA CountedNext ==
    ASSUME IsSeq(executed), NEW e, executed' = Append(executed, e)
    PROVE  /\ IsFiniteSet(Counted)
           /\ e.frame.line.kind \in {"Tick", "Eval"} =>
                 Cardinality(Counted') = Cardinality(Counted) + 1
           /\ e.frame.line.kind = "ResetStats" => Cardinality(Counted') = 0
           /\ e.frame.line.kind \notin {"Tick", "Eval", "ResetStats"} => Counted' = Counted
<1> DEFINE n == Len(executed)
           Kind(j) == executed[j].frame.line.kind
           Later(j) == \A k \in (j + 1)..n : Kind(k) # "ResetStats"
           kind == e.frame.line.kind
<1>1. /\ n \in Nat /\ Len(executed') = n + 1
      /\ \A j \in 1..n : executed'[j] = executed[j]
      /\ executed'[n + 1] = e
  BY AppendSeq, LenSeq
<1>2. Counted = {j \in 1..n : Kind(j) \in {"Tick", "Eval"} /\ Later(j)}
  BY DEF Counted
<1>3. Counted' = {j \in 1..(n + 1) :
                     /\ executed'[j].frame.line.kind \in {"Tick", "Eval"}
                     /\ \A k \in (j + 1)..(n + 1) : executed'[k].frame.line.kind # "ResetStats"}
  BY <1>1 DEF Counted
<1> HIDE DEF n
<1>4. /\ \A j \in 1..n : (j + 1)..(n + 1) = ((j + 1)..n) \cup {n + 1} /\ (j + 1)..n \subseteq 1..n
      /\ 1..(n + 1) = (1..n) \cup {n + 1} /\ n + 1 \notin 1..n /\ (n + 1 + 1)..(n + 1) = {}
  BY <1>1
<1>5. \A j \in 1..n : (\A k \in (j + 1)..(n + 1) : executed'[k].frame.line.kind # "ResetStats")
                        <=> Later(j) /\ kind # "ResetStats"
  BY <1>1, <1>4
<1>6. Counted' = {j \in 1..n : Kind(j) \in {"Tick", "Eval"} /\ Later(j) /\ kind # "ResetStats"}
                 \cup {j \in {n + 1} : kind \in {"Tick", "Eval"}}
  BY <1>1, <1>3, <1>4, <1>5
<1>7. IsFiniteSet(Counted) /\ n + 1 \notin Counted
  <2>1. IsFiniteSet(1..n)
    BY <1>1, FS_Interval
  <2>2. Counted \subseteq 1..n
    BY <1>2
  <2> QED
    BY <2>1, <2>2, <1>4, FS_Subset
<1>8. ASSUME kind \in {"Tick", "Eval"} PROVE Cardinality(Counted') = Cardinality(Counted) + 1
  <2>1. Counted' = Counted \cup {n + 1}
    BY <1>2, <1>6, <1>8
  <2> QED
    BY <2>1, <1>7, FS_AddElement
<1>9. ASSUME kind = "ResetStats" PROVE Cardinality(Counted') = 0
  <2>1. Counted' = {}
    BY <1>6, <1>9
  <2> QED
    BY <2>1, FS_EmptySet
<1>10. ASSUME kind \notin {"Tick", "Eval", "ResetStats"} PROVE Counted' = Counted
  BY <1>2, <1>6, <1>10
<1> QED
  BY <1>7, <1>8, <1>9, <1>10

(* What a request does to the worker's own part of the invariant.          *)
LEMMA WorkerHandles ==
    ASSUME WorkerInv, IsSeq(executed), NEW e, NEW q, q = e.frame.line, e.frame.id \in Int,
           shard' = ShardAfter(shard, q),
           executed' = IF Accepted(shard, q) THEN Append(executed, e) ELSE executed,
           \A j \in 1..Len(executed) : executed[j].client = e.client =>
               executed[j].frame.id < e.frame.id
    PROVE  WorkerInv'
<1>1. CASE ~Accepted(shard, q)
  BY <1>1, RefusedIsErr
    DEF WorkerInv, ShardShape, InOrderAtMostOnce, NoCycleForgotten, Counted
<1>2. CASE Accepted(shard, q)
  <2> DEFINE n == Len(executed)
  <2>1. executed' = Append(executed, e)
    BY <1>2
  <2>2. /\ n \in Nat /\ Len(executed') = n + 1
        /\ \A j \in 1..n : executed'[j] = executed[j]
        /\ executed'[n + 1] = e
    BY <2>1, AppendSeq, LenSeq
  <2> HIDE DEF n
  <2>3. 1..(n + 1) = (1..n) \cup {n + 1} /\ \A j \in 1..n : ~(n + 1 < j) /\ ~(n + 1 < n + 1)
    BY <2>2
  <2>4. InOrderAtMostOnce'
    <3> SUFFICES ASSUME NEW i \in 1..(n + 1), NEW j \in 1..(n + 1), i < j,
                        executed'[i].client = executed'[j].client
                 PROVE  executed'[i].frame.id < executed'[j].frame.id
      BY <2>2 DEF InOrderAtMostOnce
    <3>1. i \in 1..n
      BY <2>2
    <3>2. CASE j = n + 1
      BY <3>1, <3>2, <2>2 DEF n
    <3>3. CASE j \in 1..n
      BY <3>1, <3>3, <2>2 DEF WorkerInv, InOrderAtMostOnce, n
    <3> QED
      BY <3>2, <3>3, <2>3
  <2>5. /\ IsFiniteSet(Counted)
        /\ q.kind \in {"Tick", "Eval"} => Cardinality(Counted') = Cardinality(Counted) + 1
        /\ q.kind = "ResetStats" => Cardinality(Counted') = 0
        /\ q.kind \notin {"Tick", "Eval", "ResetStats"} => Counted' = Counted
    BY <2>1, CountedNext
  <2>6. CASE shard = NoShard
    <3>1. \A j \in 1..n : executed[j].frame.line.kind = "Health"
      BY <2>6 DEF WorkerInv, ShardShape, n
    <3>2. CASE q.kind = "Health" /\ shard' = NoShard
      BY <3>1, <3>2, <2>2, <2>3, <2>4 DEF WorkerInv, ShardShape, NoCycleForgotten
    <3>3. CASE q.kind = "InitShard" /\ ShardRecord(shard') /\ shard'.ops = 0
      <4>1. Counted = {}
        BY <3>1 DEF Counted, n
      <4>2. Cardinality(Counted') = 0
        BY <3>3, <4>1, <2>5, FS_EmptySet
      <4>3. shard' # NoShard
        BY <3>3 DEF ShardRecord, NoShard
      <4> QED
        BY <3>3, <4>2, <4>3, <2>4 DEF WorkerInv, ShardShape, NoCycleForgotten
    <3> QED
      BY <1>2, <2>6, <3>2, <3>3, ShardIsMade
  <2>7. CASE shard # NoShard
    <3>1. ShardRecord(shard) /\ shard.ops = Cardinality(Counted)
      BY <2>7 DEF WorkerInv, ShardShape, NoCycleForgotten
    <3>2. /\ ShardRecord(shard')
          /\ q.kind \in {"Tick", "Eval"} => shard'.ops = shard.ops + 1
          /\ q.kind = "ResetStats" => shard'.ops = 0
          /\ q.kind \notin {"Tick", "Eval", "ResetStats"} => shard'.ops = shard.ops
      BY <1>2, <3>1, ShardIsKept
    <3>3. shard' # NoShard
      BY <3>2 DEF ShardRecord, NoShard
    <3>4. shard'.ops = Cardinality(Counted')
      BY <3>1, <3>2, <2>5
    <3> QED
      BY <3>2, <3>3, <3>4, <2>4 DEF WorkerInv, ShardShape, NoCycleForgotten
  <2> QED
    BY <2>6, <2>7
<1> QED
  BY <1>1, <1>2

(* One turn of serve_stream.                                               *)
LEMMA HandleStep ==
    ASSUME TcpInv, HandleRequest
    PROVE  TcpInv'
<1>0. PICK c \in Clients : c = serving /\ c \notin closed
  BY DEF HandleRequest, TcpInv, TypeInv, Stations
<1> DEFINE q == toWorker[c][1]
           a == [id |-> q.id, line |-> ResponseTo(shard, q.line)]
           e == [client |-> c, frame |-> q]
           m == Len(executed)
           u == Unread(c)
           w == Unhandled(c)
<1>1. ClientInv(c) /\ Lengths(c) /\ ClientType(c) /\ IsSeq(executed)
  BY <1>0, LengthsOfClient DEF TcpInv, TypeInv
<1>2. Head(toWorker[c]) = q /\ toWorker[c] # << >>
  BY <1>0, <1>1, TailSeq DEF HandleRequest, ClientType
<1>3. /\ UNCHANGED <<client, frames, timeouts, pending, returns, backlog, serving, closed>>
      /\ DOMAIN toWorker' = DOMAIN toWorker /\ DOMAIN toClient' = DOMAIN toClient
      /\ \A d \in Clients \ {c} : toWorker'[d] = toWorker[d] /\ toClient'[d] = toClient[d]
      /\ toWorker'[c] = Tail(toWorker[c])
  BY <1>0 DEF HandleRequest, TcpInv, TypeInv, clientVars
<1>4. toClient'[c] = Append(toClient[c], a)
  BY <1>0, <1>2 DEF HandleRequest, TcpInv, TypeInv
<1>5. /\ shard' = ShardAfter(shard, q.line)
      /\ executed' = IF Accepted(shard, q.line) THEN Append(executed, e) ELSE executed
  BY <1>0, <1>2 DEF HandleRequest
<1>6. /\ a = [id |-> a.id, line |-> a.line]
      /\ a.id = q.id /\ a.line = ResponseTo(shard, q.line)
      /\ e.client = c /\ e.frame = q
  OBVIOUS
<1> HIDE DEF a, e, q
<1>7. /\ IsSeq(toClient'[c]) /\ Unread(c)' = u + 1
      /\ \A k \in 1..u : toClient'[c][k] = toClient[c][k]
      /\ toClient'[c][u + 1] = a
      /\ IsSeq(toWorker'[c]) /\ Unhandled(c)' = w - 1
      /\ \A k \in 1..(w - 1) : toWorker'[c][k] = toWorker[c][k + 1]
  <2>1. /\ IsSeq(toClient'[c]) /\ Unread(c)' = u + 1
        /\ \A k \in 1..u : toClient'[c][k] = toClient[c][k]
        /\ toClient'[c][u + 1] = a
    BY <1>1, <1>4, AppendSeq DEF ClientType, Unread
  <2>2. /\ IsSeq(toWorker'[c]) /\ Unhandled(c)' = w - 1
        /\ \A k \in 1..(w - 1) : toWorker'[c][k] = toWorker[c][k + 1]
    BY <1>1, <1>2, <1>3, TailSeq DEF ClientType, Unhandled
  <2> QED
    BY <2>1, <2>2
<1>8. /\ m \in Nat
      /\ \/ executed' = executed /\ ~Accepted(shard, q.line)
         \/ /\ Len(executed') = m + 1
            /\ \A j \in 1..m : executed'[j] = executed[j]
            /\ executed'[m + 1] = e
            /\ Accepted(shard, q.line)
      /\ IsSeq(executed')
  BY <1>1, <1>5, AppendSeq, LenSeq
<1> HIDE DEF m, u, w
<1>9. /\ u = Unread(c) /\ u \in Nat /\ w = Unhandled(c) /\ w \in Nat /\ w # 0
      /\ frames[c] \in Nat /\ timeouts[c] \in Nat /\ NextAnswered(c) \in Int
      /\ Waiting(c) \in Nat /\ (client[c] # "waiting" => Waiting(c) = 0)
      /\ (client[c] = "waiting" => Waiting(c) = 1)
      /\ NextAnswered(c) = frames[c] - timeouts[c] + 1 - Waiting(c)
      /\ NextAnswered(c)' = NextAnswered(c) /\ Waiting(c)' = Waiting(c)
  <2>1. NextAnswered(c)' = NextAnswered(c) /\ Waiting(c)' = Waiting(c)
    BY <1>3 DEF NextAnswered, Waiting
  <2> QED
    BY <2>1, <1>1, <1>2 DEF Lengths, u, w
<1>10. /\ u + w = timeouts[c] + Waiting(c)
       /\ q.id = NextAnswered(c) + u
       /\ \A k \in 1..w : toWorker[c][k].id = NextAnswered(c) + u + k - 1
  <2>1. /\ u + w = timeouts[c] + Waiting(c)
        /\ \A k \in 1..w : toWorker[c][k].id = NextAnswered(c) + u + k - 1
    BY <1>0, <1>1, <1>9 DEF ClientInv, FramesInOrder
  <2>2. 1 \in 1..w
    BY <1>9
  <2> QED
    BY <2>1, <2>2, <1>9 DEF q
<1>11. q.id \in Int /\ q.id <= frames[c] /\ q.id < NextAnswered(c) + (u + 1)
  BY <1>9, <1>10
<1>12. /\ 1..(u + 1) = (1..u) \cup {u + 1}
       /\ 1..(m + 1) = (1..m) \cup {m + 1}
       /\ \A k \in 1..(w - 1) : k + 1 \in 1..w
  BY <1>8, <1>9
<1>13. ClientType(c)'
  BY <1>1, <1>3, <1>6, <1>7, <1>9, <1>12 DEF ClientType
<1>14. TypeInv'
  <2>1. ASSUME NEW d \in Clients, d # c
        PROVE  ClientType(d)'
    <3>1. ClientType(d) /\ Unread(d)' = Unread(d)
      BY <2>1, <1>3 DEF TcpInv, TypeInv, Unread
    <3> QED
      BY <2>1, <3>1, <1>3 DEF ClientType
  <2> QED
    BY <2>1, <1>3, <1>8, <1>13 DEF TcpInv, TypeInv
<1>15. Stations'
  BY <1>3 DEF TcpInv, Stations
<1>16. WorkerInv'
  <2>1. \A j \in 1..Len(executed) : executed[j].client = e.client =>
             executed[j].frame.id < e.frame.id
    BY <1>0, <1>1, <1>6, <1>9, <1>10 DEF ClientInv, ExecutedInPast
  <2>2. WorkerInv /\ q.line = e.frame.line /\ e.frame.id \in Int
    BY <1>6, <1>11 DEF TcpInv
  <2> QED
    BY <2>1, <2>2, <1>1, <1>5, WorkerHandles
<1>17. \A d \in Clients \ {c} : ClientInv(d)'
  <2> TAKE d \in Clients \ {c}
  <2>1. ClientInv(d) /\ serving # d /\ serving' # d
    BY <1>0, <1>3 DEF TcpInv
  <2> QED
    BY <2>1, <1>3, <1>6, <1>8, Elsewhere DEF m
<1>18. FramesInOrder(c)'
  <2>1. \A k \in 1..u : toClient'[c][k].id = NextAnswered(c) + k - 1
    BY <1>1, <1>7, <1>9 DEF ClientInv, FramesInOrder
  <2>2. toClient'[c][u + 1].id = NextAnswered(c) + (u + 1) - 1
    BY <1>6, <1>7, <1>9, <1>10
  <2>3. \A k \in 1..(w - 1) : toWorker'[c][k].id = NextAnswered(c) + (u + 1) + k - 1
    <3> TAKE k \in 1..(w - 1)
    <3>1. toWorker'[c][k].id = NextAnswered(c) + u + (k + 1) - 1
      BY <1>7, <1>10, <1>12
    <3> QED
      BY <3>1, <1>9
  <2>4. (u + 1) + (w - 1) = timeouts[c] + Waiting(c)
    BY <1>9, <1>10
  <2> QED
    BY <2>1, <2>2, <2>3, <2>4, <1>3, <1>7, <1>9, <1>12 DEF FramesInOrder
<1>19. NewestIsPending(c)'
  <2>1. client[c] = "waiting" =>
           \A k \in 1..w : toWorker[c][k].id = frames[c] => toWorker[c][k].line \in {pending[c], Garbled}
    BY <1>0, <1>1, <1>9 DEF ClientInv, NewestIsPending
  <2>2. client[c] = "waiting" =>
           \A k \in 1..(w - 1) :
              toWorker'[c][k].id = frames[c] => toWorker'[c][k].line \in {pending[c], Garbled}
    BY <2>1, <1>7, <1>12
  <2> QED
    BY <2>2, <1>3, <1>7 DEF NewestIsPending
<1>20. Accepted(shard, q.line) /\ client[c] = "waiting" /\ q.id = frames[c] => q.line = pending[c]
  <2>1. 1 \in 1..w
    BY <1>9
  <2>2. client[c] = "waiting" /\ q.id = frames[c] => q.line \in {pending[c], Garbled}
    BY <2>1, <1>0, <1>1, <1>9 DEF ClientInv, NewestIsPending, q
  <2> QED
    BY <2>2, GarbledRefused
<1>21. ExecutedInPast(c)'
  <2>1. ASSUME NEW j \in 1..m, executed[j].client = c
        PROVE  /\ executed[j].frame.id \in Int
               /\ executed[j].frame.id <= frames[c]
               /\ executed[j].frame.id < NextAnswered(c) + (u + 1)
               /\ (client[c] = "waiting" /\ executed[j].frame.id = frames[c]) =>
                      executed[j].frame.line = pending[c]
    <3>1. /\ executed[j].frame.id \in Int
          /\ executed[j].frame.id <= frames[c]
          /\ executed[j].frame.id < NextAnswered(c) + u
          /\ (client[c] = "waiting" /\ executed[j].frame.id = frames[c]) =>
                 executed[j].frame.line = pending[c]
      BY <2>1, <1>0, <1>1, <1>9 DEF ClientInv, ExecutedInPast, m
    <3> QED
      BY <3>1, <1>9
  <2>2. CASE executed' = executed
    BY <2>1, <2>2, <1>3, <1>7, <1>9 DEF ExecutedInPast, m
  <2>3. CASE /\ Len(executed') = m + 1
             /\ \A j \in 1..m : executed'[j] = executed[j]
             /\ executed'[m + 1] = e
             /\ Accepted(shard, q.line)
    <3> SUFFICES ASSUME NEW j \in 1..(m + 1), executed'[j].client = c
                 PROVE  /\ executed'[j].frame.id \in Int
                        /\ executed'[j].frame.id <= frames[c]
                        /\ executed'[j].frame.id < NextAnswered(c) + (u + 1)
                        /\ (client[c] = "waiting" /\ executed'[j].frame.id = frames[c]) =>
                               executed'[j].frame.line = pending[c]
      BY <2>3, <1>3, <1>7, <1>9 DEF ExecutedInPast
    <3>1. CASE j \in 1..m
      BY <3>1, <2>1, <2>3
    <3>2. CASE j = m + 1
      BY <3>2, <2>3, <1>6, <1>11, <1>20
    <3> QED
      BY <3>1, <3>2, <1>12
  <2> QED
    BY <2>2, <2>3, <1>8
<1> DEFINE DoneNow(id) ==
             \E j \in 1..Len(executed') : executed'[j].client = c /\ executed'[j].frame.id = id
<1>22. \A id : Done(c, id) => DoneNow(id)
  BY <1>8, <1>12 DEF Done, m
<1>23. ResponsesEarned(c)'
  <2>1. \A k \in 1..u : toClient[c][k].line.kind \notin {"Err", "Garbled"} =>
                             Done(c, toClient[c][k].id)
    BY <1>1, <1>9 DEF ClientInv, ResponsesEarned
  <2>2. a.line.kind # "Err" => DoneNow(a.id)
    <3> SUFFICES ASSUME a.line.kind # "Err"
                 PROVE  DoneNow(a.id)
      OBVIOUS
    <3>1. Accepted(shard, q.line)
      BY <1>6, RefusedIsErr
    <3>2. m + 1 \in 1..Len(executed') /\ executed'[m + 1] = e
      BY <3>1, <1>8, <1>12
    <3> QED
      BY <3>2, <1>6
  <2> SUFFICES ASSUME NEW k \in 1..(u + 1), toClient'[c][k].line.kind \notin {"Err", "Garbled"}
               PROVE  DoneNow(toClient'[c][k].id)
    BY <1>7 DEF ResponsesEarned, Done
  <2>3. CASE k \in 1..u
    <3>1. Done(c, toClient[c][k].id) /\ toClient'[c][k] = toClient[c][k]
      BY <2>1, <2>3, <1>7
    <3> QED
      BY <3>1, <1>22
  <2>4. CASE k = u + 1
    BY <2>2, <2>4, <1>7
  <2> QED
    BY <2>3, <2>4, <1>12
<1>24. UnservedUnanswered(c)'
  BY <1>0, <1>3 DEF UnservedUnanswered
<1>25. ReturnsRight(c)'
  <2>1. \A j \in 1..m : j \in 1..Len(executed') /\ executed'[j] = executed[j]
    BY <1>8, <1>12 DEF m
  <2> QED
    BY <2>1, <1>1, <1>3 DEF ClientInv, ReturnsRight, m
<1>26. SnapshotsRight(c)'
  <2>1. ASSUME client[c] = "waiting", timeouts[c] = 0, toClient'[c][1].line.kind = "Snapshot"
        PROVE  toClient'[c][1].line.storage = Storage(shard')
    <3>1. u = 0
      BY <2>1, <1>9, <1>10
    <3>2. toClient'[c][1] = a
      BY <3>1, <1>7
    <3> QED
      BY <2>1, <3>2, <1>5, <1>6, SnapshotAnswer
  <2>2. client[c] = "idle" => timeouts[c] # 0
    BY <1>9, <1>10
  <2>3. returns[c] # << >> => Last(returns[c]).late = timeouts[c]
    BY <1>1 DEF ClientInv, ReturnsRight
  <2> QED
    BY <2>1, <2>2, <2>3, <1>3 DEF SnapshotsRight
<1> QED
  BY <1>14, <1>15, <1>16, <1>17, <1>18, <1>19, <1>21, <1>23, <1>24, <1>25, <1>26
    DEF TcpInv, ClientInv

-----------------------------------------------------------------------------
LEMMA InitiallyTcpInv == Init => TcpInv
<1> SUFFICES ASSUME Init
             PROVE  TcpInv
  OBVIOUS
<1>1. IsSeq(<< >>) /\ Len(<< >>) = 0
  BY EmptySeq, SomeSeq
<1>2. \A c \in Clients :
         /\ client[c] = "new" /\ frames[c] = 0 /\ timeouts[c] = 0
         /\ returns[c] = << >> /\ toWorker[c] = << >> /\ toClient[c] = << >>
         /\ Unread(c) = 0 /\ Unhandled(c) = 0 /\ Waiting(c) = 0
  BY <1>1 DEF Init, Unread, Unhandled, Waiting
<1>3. TypeInv
  BY <1>1, <1>2, EmptySeq DEF Init, TypeInv, ClientType
<1>4. Stations
  BY <1>1, TcpAssumption DEF Init, Stations, NoClient
<1>5. \A c \in Clients : ClientInv(c)
  BY <1>1, <1>2, TcpAssumption
    DEF Init, ClientInv, FramesInOrder, NewestIsPending, ExecutedInPast, ResponsesEarned,
        UnservedUnanswered, ReturnsRight, SnapshotsRight
<1>6. WorkerInv
  BY <1>1 DEF Init, WorkerInv, ShardShape, InOrderAtMostOnce, NoCycleForgotten
<1> QED
  BY <1>3, <1>4, <1>5, <1>6 DEF TcpInv

(* Every step of a client or of the worker preserves the invariant.        *)
LEMMA StepTcpInv == TcpInv /\ [Next]_vars => TcpInv'
<1> SUFFICES ASSUME TcpInv, [Next]_vars
             PROVE  TcpInv'
  OBVIOUS
<1>1. ASSUME NEW c \in Clients, ClientStep(c)
      PROVE  TcpInv'
  BY <1>1, ConnectStep, SendStep, SendFailsStep, ReadResponseStep, ReadTimeoutStep, ReadEofStep,
     DropStep DEF ClientStep
<1>2. CASE Accept
  BY <1>2, AcceptStep
<1>3. CASE HandleRequest
  BY <1>3, HandleStep
<1>4. CASE ServeEof
  <2>1. CASE Exit("done")
    BY <1>4, <2>1, ExitEnds DEF ServeEof
  <2>2. CASE /\ closed' = closed \cup {serving}
             /\ serving' = NoClient
             /\ UNCHANGED <<process, backlog>>
    <3>1. serving \in Clients
      BY <1>4 DEF ServeEof, TcpInv, TypeInv
    <3>2. ConnectionsEnd({})
      BY <1>4, <2>2, <3>1 DEF ServeEof, ConnectionsEnd
    <3> QED
      BY <3>2, EndStep
  <2> QED
    BY <1>4, <2>1, <2>2 DEF ServeEof
<1>5. CASE ServeIoError
  BY <1>5, ExitEnds DEF ServeIoError
<1>6. CASE Kill
  BY <1>6, ExitEnds DEF Kill
<1>7. CASE UNCHANGED vars
  <2>1. /\ UNCHANGED <<client, frames, timeouts, pending, returns, toWorker, toClient, serving,
                       closed, shard, executed, backlog>>
    BY <1>7 DEF vars
  <2>2. TypeInv'
    BY <2>1 DEF TcpInv, TypeInv, ClientType, Unread
  <2>3. Stations'
    BY <2>1 DEF TcpInv, Stations
  <2>4. \A d \in Clients : ClientInv(d)'
    <3> TAKE d \in Clients
    <3>1. ClientInv(d) /\ Len(executed) \in Nat
      BY LenSeq DEF TcpInv, TypeInv
    <3> QED
      BY <2>1, <3>1, Elsewhere
  <2>5. WorkerInv'
    BY <2>1 DEF TcpInv, WorkerInv, ShardShape, InOrderAtMostOnce, NoCycleForgotten, Counted
  <2> QED
    BY <2>2, <2>3, <2>4, <2>5 DEF TcpInv
<1> QED
  BY <1>1, <1>2, <1>3, <1>4, <1>5, <1>6, <1>7 DEF Next, WorkerStep

(* The inductive invariant of a worker process and its connections holds   *)
(* however the clients, the timeouts and the ends of the process           *)
(* interleave.                                                             *)
THEOREM TcpInvariance == Spec => []TcpInv
BY InitiallyTcpInv, StepTcpInv, PTL DEF Spec

(* request() takes the next line as its answer: after n read timeouts on a *)
(* connection that is the answer to the request n frames before, whatever  *)
(* the clients and the worker do.                                          *)
THEOREM AnswersLag == Spec => []AnswerLag
<1>1. TcpInv => AnswerLag
  BY DEF TcpInv, ClientInv, ReturnsRight, AnswerLag
<1> QED
  BY <1>1, TcpInvariance, PTL

(* Ok on a connection without timeouts means the worker carried out that   *)
(* request; no request is carried out twice or out of its connection's     *)
(* order; and a shard has counted all that was carried out.                *)
THEOREM RequestsCarriedOut == Spec => []CarriedOut
<1>1. TcpInv => CarriedOut
  BY DEF TcpInv, ClientInv, WorkerInv, ReturnsRight, CarriedOut, OkMeansDone
<1> QED
  BY <1>1, TcpInvariance, PTL

(* The last snapshot of a client that never timed out is the worker's      *)
(* state for as long as that client's connection is served.                *)
THEOREM SnapshotsCurrent == Spec => []SnapshotIsCurrent
<1>1. TcpInv => SnapshotIsCurrent
  BY TcpAssumption DEF TcpInv, TypeInv, ClientInv, SnapshotsRight, SnapshotIsCurrent
<1> QED
  BY <1>1, TcpInvariance, PTL
=============================================================================
