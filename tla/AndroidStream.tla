--------------------------- MODULE AndroidStream ---------------------------
(***************************************************************************)
(* The Android client: LocalSocks5Server with the three threads of one     *)
(* SOCKS connection (handleClient, pipeToTon, pipeFromTon) and the stream  *)
(* queues of NativeTonTransport.                                           *)
(*                                                                         *)
(* A session is one LocalSocks5Server object and the first connection it   *)
(* serves.  streamIdGenerator starts at 1 in every object while the        *)
(* transport is a singleton, so all sessions use the same stream_id; the   *)
(* next one begins when the one before has been stopped, whose threads may *)
(* still run.  Frames carry the session they belong to, which the code     *)
(* cannot see.  A frame that is never taken from the network is lost.      *)
(***************************************************************************)
EXTENDS Naturals, Sequences

CONSTANTS
    MaxSession,   \* sessions are 1..MaxSession
    None,
    MaxPush,      \* bound on the DATA frames the egress pushes for a stream
    MaxSends      \* bound on the DATA frames pipeToTon sends

ASSUME BoundsAssumption == MaxSession \in Nat \ {0} /\ MaxPush \in Nat /\ MaxSends \in Nat
ASSUME NoneAssumption ==
    None \notin Nat /\ None \notin BOOLEAN /\ None \notin {"ok", "failed", "timeout", "closed", "interrupted"}

VARIABLES
    running,      \* state of each server object: "new", "up", "down"
    accepting,    \* its accept thread: "accept", "submit", "ended"
    pc,           \* threads of its connection: handleClient, pipeToTon, pipeFromTon
    intr,         \* the threads whose interrupt flag is set
    hold,         \* the queue object a thread polls
    closeSeen,    \* openStream has seen a CLOSE
    skip,         \* skipCloseStream
    sessionDone,  \* shared by the two pipes; None before they exist
    guard,        \* closeIssued[streamId]
    sock,         \* the accepted socket: "none", "open", "shut", "closed"
    crashed,      \* an exception has left a thread, which ends the process
    queue,        \* streamQueues[streamId]: a queue object or None
    content,      \* frames in each queue object
    made,         \* queue objects made so far
    wire,         \* frames on their way to the egress
    air,          \* frames on their way to the client, gInboundQueue included
    registered,   \* the session whose stream the egress has under this id
    live,         \* sessions with a stream at the egress
    opened,       \* sessions whose OPEN the egress has accepted
    pushed,       \* DATA frames pushed for each session
    sends,        \* DATA frames sent by each session
    closes,       \* CLOSE frames sent by each session
    result,       \* what openStream returned: "ok" for 0, "failed" for -1 and -3,
                  \* "timeout" for -2, "closed" for -4, "interrupted" for -5
    got,          \* sessions whose DATA was written to each accepted socket
    lostIntr      \* the interrupt came before its thread had started

Sessions == 1..MaxSession
Threads  == {"h", "up", "down"}
Frames   == {"OPEN", "DATA", "CLOSE", "ERROR"} \X Sessions
Queues   == 1..(2 * MaxSession + 1)

server  == <<running, accepting>>
relay   == <<pc, intr, hold, closeSeen, skip, sessionDone, guard, sock>>
queues  == <<queue, content, made>>
egress  == <<registered, live, opened, pushed>>
ghosts  == <<sends, closes, result, got, lostIntr>>
vars    == <<server, relay, crashed, queues, wire, air, egress, ghosts>>

Init ==
    /\ running     = [n \in Sessions |-> "new"]
    /\ accepting   = [n \in Sessions |-> "ended"]
    /\ pc          = [n \in Sessions |-> [t \in Threads |-> "none"]]
    /\ intr        = [n \in Sessions |-> {}]
    /\ hold        = [n \in Sessions |-> [t \in Threads |-> None]]
    /\ closeSeen   = [n \in Sessions |-> FALSE]
    /\ skip        = [n \in Sessions |-> FALSE]
    /\ sessionDone = [n \in Sessions |-> FALSE]
    /\ guard       = [n \in Sessions |-> None]
    /\ sock        = [n \in Sessions |-> "none"]
    /\ crashed     = FALSE
    /\ queue = None  /\ content = [q \in Queues |-> <<>>]  /\ made = 0
    /\ wire = {}  /\ air = {}
    /\ registered = None  /\ live = {}  /\ opened = {}
    /\ pushed      = [n \in Sessions |-> 0]
    /\ sends       = [n \in Sessions |-> 0]
    /\ closes      = [n \in Sessions |-> 0]
    /\ result      = [n \in Sessions |-> None]
    /\ got         = [n \in Sessions |-> {}]
    /\ lostIntr    = [n \in Sessions |-> FALSE]

At(n, t, l)   == pc[n][t] = l
Goto(n, t, l) == pc' = [pc EXCEPT ![n][t] = l]
Shut(n)       == sock' = [sock EXCEPT ![n] = IF @ = "open" THEN "shut" ELSE @]
Return(n, r)  == result' = [result EXCEPT ![n] = r]

(***************************************************************************)
(* NativeTonTransport: the stream queues.                                  *)
(***************************************************************************)

\* registerStream: streamQueues.putIfAbsent.
RegisterStream ==
    IF queue = None
    THEN /\ queue' = made + 1
         /\ made'  = made + 1
    ELSE UNCHANGED <<queue, made>>

\* unregisterStream: the entry of this stream id, whoever put it there.
UnregisterStream == queue' = None

\* One turn of the receiver loop.  A control frame makes the queue it finds
\* missing; DATA without a queue is dropped.
ReceiveFrame(f) ==
    /\ f \in air
    /\ air' = air \ {f}
    /\ IF queue = None /\ f[1] = "DATA"
       THEN UNCHANGED queues
       ELSE /\ RegisterStream
            /\ content' = [content EXCEPT ![queue'] = Append(@, f)]
    /\ UNCHANGED <<server, relay, crashed, wire, egress, ghosts>>

\* awaitStreamFrame looks the queue up once and polls that object; without a
\* queue it returns null at once and the caller turns its loop again.
LookUp(n, t) ==
    /\ queue # None
    /\ hold' = [hold EXCEPT ![n][t] = queue]

\* poll: an interrupted thread gets the exception even when a frame is there.
CanPoll(n, t)   == t \notin intr[n] /\ content[hold[n][t]] # <<>>
Polled(n, t)    == Head(content[hold[n][t]])
Take(n, t)      == content' = [content EXCEPT ![hold[n][t]] = Tail(@)]
Release(n, t)   == hold' = [hold EXCEPT ![n][t] = None]

\* closeStream: one CLOSE to the egress.
SendClose(n) ==
    /\ wire'   = wire \cup {<<"CLOSE", n>>}
    /\ closes' = [closes EXCEPT ![n] = @ + 1]

CloseStreamAlways(n) ==
    /\ guard' = [guard EXCEPT ![n] = TRUE]
    /\ SendClose(n)

\* closeStreamOnce: computeIfAbsent, then compareAndSet.
CloseStreamOnce(n) ==
    /\ guard' = [guard EXCEPT ![n] = TRUE]
    /\ IF guard[n] = TRUE THEN UNCHANGED <<wire, closes>> ELSE SendClose(n)

(***************************************************************************)
(* LocalSocks5Server: start, stop and the accept thread.                   *)
(***************************************************************************)

\* start: the service makes the next object when the one before is stopped.
Start(n) ==
    /\ running[n] = "new"
    /\ \A k \in 1..(n - 1) : running[k] = "down"
    /\ running'   = [running EXCEPT ![n] = "up"]
    /\ accepting' = [accepting EXCEPT ![n] = "accept"]
    /\ UNCHANGED <<relay, crashed, queues, wire, air, egress, ghosts>>

\* stop: running is cleared, the server socket closed, and shutdownNow
\* interrupts the pool's threads.  The pipes and accepted sockets are not
\* reached.
Stop(n) ==
    /\ running[n] = "up"
    /\ running' = [running EXCEPT ![n] = "down"]
    /\ intr' = [intr EXCEPT ![n] = IF pc[n]["h"] \in {"none", "done"} THEN @ ELSE @ \cup {"h"}]
    /\ UNCHANGED <<accepting, pc, hold, closeSeen, skip, sessionDone, guard, sock, crashed,
                   queues, wire, air, egress, ghosts>>

\* accept returns a connection, or fails because the server was stopped.
AcceptConnection(n) ==
    /\ accepting[n] = "accept"  /\ running[n] = "up"
    /\ accepting' = [accepting EXCEPT ![n] = "submit"]
    /\ UNCHANGED <<running, relay, crashed, queues, wire, air, egress, ghosts>>

AcceptEnds(n) ==
    /\ accepting[n] = "accept"  /\ running[n] = "down"
    /\ accepting' = [accepting EXCEPT ![n] = "ended"]
    /\ UNCHANGED <<running, relay, crashed, queues, wire, air, egress, ghosts>>

\* pool.execute, which throws RejectedExecutionException after shutdownNow.
\* The one connection of the model is accepted, so the loop is left.
Submit(n) ==
    /\ accepting[n] = "submit"
    /\ accepting' = [accepting EXCEPT ![n] = "ended"]
    /\ IF running[n] = "up"
       THEN /\ Goto(n, "h", "hello")
            /\ sock' = [sock EXCEPT ![n] = "open"]
            /\ UNCHANGED crashed
       ELSE crashed' = TRUE /\ UNCHANGED <<pc, sock>>
    /\ UNCHANGED <<running, intr, hold, closeSeen, skip, sessionDone, guard,
                   queues, wire, air, egress, ghosts>>

(***************************************************************************)
(* handleClient up to the answer to CONNECT.                               *)
(***************************************************************************)

\* handshake false, no request, or a loop target: client.use closes.
HelloRefused(n) ==
    /\ At(n, "h", "hello")
    /\ Goto(n, "h", "done")
    /\ sock' = [sock EXCEPT ![n] = "closed"]
    /\ UNCHANGED <<server, intr, hold, closeSeen, skip, sessionDone, guard, crashed,
                   queues, wire, air, egress, ghosts>>

\* A read or write of the handshake throws: nothing catches it.
HelloThrows(n) ==
    /\ At(n, "h", "hello")
    /\ crashed' = TRUE
    /\ UNCHANGED <<server, relay, queues, wire, air, egress, ghosts>>

\* Register, make the guard, send OPEN; sendPacket may fail.
OpenStream(n) ==
    /\ At(n, "h", "hello")
    /\ RegisterStream
    /\ guard' = [guard EXCEPT ![n] = FALSE]
    /\ \/ /\ wire' = wire \cup {<<"OPEN", n>>}
          /\ Goto(n, "h", "await")
          /\ UNCHANGED result
       \/ /\ Goto(n, "h", "cleanup")
          /\ Return(n, "failed")
          /\ UNCHANGED wire
    /\ UNCHANGED <<server, intr, hold, closeSeen, skip, sessionDone, sock, crashed,
                   content, air, egress, sends, closes, got, lostIntr>>

AwaitLookUp(n) ==
    /\ At(n, "h", "await")
    /\ LookUp(n, "h")
    /\ Goto(n, "h", "poll")
    /\ UNCHANGED <<server, intr, closeSeen, skip, sessionDone, guard, sock, crashed,
                   queues, wire, air, egress, ghosts>>

OpenTimeoutSilent(n) ==
    /\ At(n, "h", "await")
    /\ Goto(n, "h", "cleanup")
    /\ Return(n, "timeout")
    /\ UNCHANGED <<server, intr, hold, closeSeen, skip, sessionDone, guard, sock, crashed,
                   queues, wire, air, egress, sends, closes, got, lostIntr>>

\* The deadline has passed: closeStream and -2.
OpenTimeout(n) ==
    /\ At(n, "h", "await")
    /\ Goto(n, "h", "cleanup")
    /\ Return(n, "timeout")
    /\ SendClose(n)
    /\ UNCHANGED <<server, intr, hold, closeSeen, skip, sessionDone, guard, sock, crashed,
                   queues, air, egress, sends, got, lostIntr>>

\* CLOSE was seen and the grace window is over: -4, no CLOSE is sent.
OpenGraceOver(n) ==
    /\ At(n, "h", "await")  /\ closeSeen[n]
    /\ Goto(n, "h", "cleanup")
    /\ Return(n, "closed")
    /\ UNCHANGED <<server, intr, hold, closeSeen, skip, sessionDone, guard, sock, crashed,
                   queues, wire, air, egress, sends, closes, got, lostIntr>>

\* What one poll of openStream brings: an interrupt, nothing, or a frame.
OpenInterrupted(n) ==
    /\ At(n, "h", "poll")  /\ "h" \in intr[n]
    /\ Goto(n, "h", "cleanup")
    /\ Return(n, "interrupted")
    /\ Release(n, "h")
    /\ UNCHANGED <<server, intr, closeSeen, skip, sessionDone, guard, sock, crashed,
                   queues, wire, air, egress, sends, closes, got, lostIntr>>

OpenPollEmpty(n) ==
    /\ At(n, "h", "poll")  /\ content[hold[n]["h"]] = <<>>
    /\ Goto(n, "h", "await")
    /\ Release(n, "h")
    /\ UNCHANGED <<server, intr, closeSeen, skip, sessionDone, guard, sock, crashed,
                   queues, wire, air, egress, ghosts>>

OpenPolled(n) ==
    /\ At(n, "h", "poll")  /\ CanPoll(n, "h")
    /\ Take(n, "h")
    /\ Release(n, "h")
    /\ LET f == Polled(n, "h")[1] IN
       /\ closeSeen' = [closeSeen EXCEPT ![n] = @ \/ f = "CLOSE"]
       /\ CASE f = "OPEN"  -> Goto(n, "h", "answer")  /\ Return(n, "ok")
            [] f = "ERROR" -> Goto(n, "h", "cleanup") /\ Return(n, "failed")
            [] OTHER       -> Goto(n, "h", "await")   /\ UNCHANGED result
    /\ UNCHANGED <<server, intr, skip, sessionDone, guard, sock, crashed, queue, made,
                   wire, air, egress, sends, closes, got, lostIntr>>

(***************************************************************************)
(* The established stream.                                                 *)
(***************************************************************************)

\* sendConnectSuccess, then both Thread objects exist and up is started.
AnswerSent(n) ==
    /\ At(n, "h", "answer")
    /\ pc' = [pc EXCEPT ![n]["h"] = "startDown", ![n]["up"] = "loop", ![n]["down"] = "unstarted"]
    /\ UNCHANGED <<server, intr, hold, closeSeen, skip, sessionDone, guard, sock, crashed,
                   queues, wire, air, egress, ghosts>>

\* sendConnectSuccess throws: finally closes the stream, then the exception
\* leaves the pool thread.
AnswerThrows(n) ==
    /\ At(n, "h", "answer")
    /\ CloseStreamOnce(n)
    /\ UnregisterStream
    /\ crashed' = TRUE
    /\ UNCHANGED <<server, pc, intr, hold, closeSeen, skip, sessionDone, sock, content, made,
                   air, egress, sends, result, got, lostIntr>>

StartDown(n) ==
    /\ At(n, "h", "startDown")
    /\ pc' = [pc EXCEPT ![n]["h"] = "join", ![n]["down"] = "loop"]
    /\ UNCHANGED <<server, intr, hold, closeSeen, skip, sessionDone, guard, sock, crashed,
                   queues, wire, air, egress, ghosts>>

\* Both pipes joined.  join of a thread that has ended returns normally, in
\* an interrupted thread too, unless the interrupt came while it waited.
Joined(n) ==
    /\ At(n, "h", "join")
    /\ At(n, "up", "done")  /\ At(n, "down", "done")
    /\ Goto(n, "h", "finally")
    /\ UNCHANGED <<server, intr, hold, closeSeen, skip, sessionDone, guard, sock, crashed,
                   queues, wire, air, egress, ghosts>>

\* InterruptedException from join: no CLOSE here, both pipes interrupted and
\* the socket shut down.
JoinInterrupted(n) ==
    /\ At(n, "h", "join")  /\ "h" \in intr[n]
    /\ skip' = [skip EXCEPT ![n] = TRUE]
    /\ intr' = [intr EXCEPT ![n] = Threads]
    /\ Shut(n)
    /\ Goto(n, "h", "finally")
    /\ UNCHANGED <<server, hold, closeSeen, sessionDone, guard, crashed,
                   queues, wire, air, egress, ghosts>>

Finally(n) ==
    /\ At(n, "h", "finally")
    /\ Goto(n, "h", "cleanup")
    /\ IF skip[n] THEN UNCHANGED <<guard, wire, closes>> ELSE CloseStreamOnce(n)
    /\ UNCHANGED <<server, intr, hold, closeSeen, skip, sessionDone, sock, crashed,
                   queues, air, egress, sends, result, got, lostIntr>>

\* closeIssued.remove, unregisterStream; client.use closes the socket.
Cleanup(n) ==
    /\ At(n, "h", "cleanup")
    /\ Goto(n, "h", "done")
    /\ guard' = [guard EXCEPT ![n] = None]
    /\ UnregisterStream
    /\ sock' = [sock EXCEPT ![n] = "closed"]
    /\ UNCHANGED <<server, intr, hold, closeSeen, skip, sessionDone, crashed, content, made,
                   wire, air, egress, ghosts>>

(***************************************************************************)
(* The pipes.  A pipe that leaves its loop goes to "end": the first one to *)
(* set sessionDone interrupts the other, shuts the socket down and closes  *)
(* the stream.                                                             *)
(***************************************************************************)

Other(t) == IF t = "up" THEN "down" ELSE "up"

InterruptNobody(n, t) == UNCHANGED <<intr, lostIntr>>

\* An interrupt of a thread that has not started may have no effect.
InterruptOther(n, t) ==
    IF At(n, Other(t), "unstarted")
    THEN \/ /\ intr' = [intr EXCEPT ![n] = @ \cup {Other(t)}]
            /\ UNCHANGED lostIntr
         \/ /\ lostIntr' = [lostIntr EXCEPT ![n] = TRUE]
            /\ UNCHANGED intr
    ELSE /\ intr' = [intr EXCEPT ![n] = @ \cup {Other(t)}]
         /\ UNCHANGED lostIntr

PipeEnds(n, t) ==
    /\ At(n, t, "end")
    /\ sessionDone' = [sessionDone EXCEPT ![n] = TRUE]
    /\ IF sessionDone[n]
       THEN Goto(n, t, "done") /\ UNCHANGED <<intr, sock, lostIntr>>
       ELSE Goto(n, t, "close") /\ InterruptOther(n, t) /\ Shut(n)
    /\ UNCHANGED <<server, hold, closeSeen, skip, guard, crashed,
                   queues, wire, air, egress, sends, closes, result, got>>

PipeCloses(n, t) ==
    /\ At(n, t, "close")
    /\ CloseStreamOnce(n)
    /\ Goto(n, t, "done")
    /\ UNCHANGED <<server, intr, hold, closeSeen, skip, sessionDone, sock, crashed,
                   queues, air, egress, sends, result, got, lostIntr>>

\* The loop condition and the interrupt check of both pipes.
PipeTurn(n, t) ==
    /\ At(n, t, "loop")
    /\ IF running[n] = "up" /\ t \notin intr[n]
       THEN Goto(n, t, IF t = "up" THEN "read" ELSE "await")
       ELSE Goto(n, t, "end")
    /\ UNCHANGED <<server, intr, hold, closeSeen, skip, sessionDone, guard, sock, crashed,
                   queues, wire, air, egress, ghosts>>

\* read ends the pipe: the program closed its side, or the socket is shut.
ReadEnds(n) ==
    /\ At(n, "up", "read")
    /\ Goto(n, "up", "end")
    /\ UNCHANGED <<server, intr, hold, closeSeen, skip, sessionDone, guard, sock, crashed,
                   queues, wire, air, egress, ghosts>>

\* read returned bytes and sendStreamData sends them, or fails.
ReadBytes(n) ==
    /\ At(n, "up", "read")  /\ sock[n] = "open"  /\ sends[n] < MaxSends
    /\ Goto(n, "up", "send")
    /\ UNCHANGED <<server, intr, hold, closeSeen, skip, sessionDone, guard, sock, crashed,
                   queues, wire, air, egress, ghosts>>

SendData(n) ==
    /\ At(n, "up", "send")
    /\ \/ /\ wire' = wire \cup {<<"DATA", n>>}
          /\ sends' = [sends EXCEPT ![n] = @ + 1]
          /\ Goto(n, "up", "loop")
       \/ /\ Goto(n, "up", "end")
          /\ UNCHANGED <<wire, sends>>
    /\ UNCHANGED <<server, intr, hold, closeSeen, skip, sessionDone, guard, sock, crashed,
                   queues, air, egress, closes, result, got, lostIntr>>

DownLookUp(n) ==
    /\ At(n, "down", "await")
    /\ \/ LookUp(n, "down") /\ Goto(n, "down", "poll")
       \/ queue = None /\ Goto(n, "down", "loop") /\ UNCHANGED hold
    /\ UNCHANGED <<server, intr, closeSeen, skip, sessionDone, guard, sock, crashed,
                   queues, wire, air, egress, ghosts>>

DownPollEnds(n) ==
    /\ At(n, "down", "poll")
    /\ \/ "down" \in intr[n] /\ Goto(n, "down", "end")
       \/ content[hold[n]["down"]] = <<>> /\ "down" \notin intr[n] /\ Goto(n, "down", "loop")
    /\ Release(n, "down")
    /\ UNCHANGED <<server, intr, closeSeen, skip, sessionDone, guard, sock, crashed,
                   queues, wire, air, egress, ghosts>>

\* DATA is written to the program; when that fails the stream is closed at
\* once.  CLOSE and ERROR end the pipe, OPEN is ignored.
DownPolled(n) ==
    /\ At(n, "down", "poll")  /\ CanPoll(n, "down")
    /\ Take(n, "down")
    /\ Release(n, "down")
    /\ LET f == Polled(n, "down") IN
       \/ /\ f[1] = "DATA"  /\ sock[n] = "open"
          /\ got' = [got EXCEPT ![n] = @ \cup {f[2]}]
          /\ Goto(n, "down", "loop")
          /\ UNCHANGED <<guard, wire, closes>>
       \/ /\ f[1] = "DATA"
          /\ CloseStreamOnce(n)
          /\ Goto(n, "down", "end")
          /\ UNCHANGED got
       \/ /\ f[1] # "DATA"
          /\ Goto(n, "down", IF f[1] = "OPEN" THEN "loop" ELSE "end")
          /\ UNCHANGED <<guard, wire, closes, got>>
    /\ UNCHANGED <<server, intr, closeSeen, skip, sessionDone, sock, crashed, queue, made,
                   air, egress, sends, result, lostIntr>>

(***************************************************************************)
(* The egress node, as far as one stream id of one client sees it.         *)
(***************************************************************************)

EgressOpens(n) ==
    /\ <<"OPEN", n>> \in wire
    /\ wire' = wire \ {<<"OPEN", n>>}
    /\ \/ /\ air' = air \cup {<<"OPEN", n>>}
          /\ registered' = n
          /\ live'   = live \cup {n}
          /\ opened' = opened \cup {n}
       \/ /\ air' = air \cup {<<"ERROR", n>>}
          /\ UNCHANGED <<registered, live, opened>>
    /\ UNCHANGED <<server, relay, crashed, queues, pushed, ghosts>>

\* CLOSE takes the registered stream away and is answered by CLOSE.
EgressCloses(n) ==
    /\ <<"CLOSE", n>> \in wire
    /\ wire' = wire \ {<<"CLOSE", n>>}
    /\ live' = live \ {registered}
    /\ registered' = None
    /\ air'  = air \cup {<<"CLOSE", IF registered = None THEN n ELSE registered>>}
    /\ UNCHANGED <<server, relay, crashed, queues, opened, pushed, ghosts>>

\* DATA for an unknown stream is answered by ERROR, or dropped when the
\* stream was closed a moment ago.
EgressTakesData(n) ==
    /\ <<"DATA", n>> \in wire
    /\ wire' = wire \ {<<"DATA", n>>}
    /\ \/ air' = air
       \/ registered = None /\ air' = air \cup {<<"ERROR", n>>}
    /\ UNCHANGED <<server, relay, crashed, queues, egress, ghosts>>

EgressPushes(n) ==
    /\ n \in live  /\ pushed[n] < MaxPush
    /\ air' = air \cup {<<"DATA", n>>}
    /\ pushed' = [pushed EXCEPT ![n] = @ + 1]
    /\ UNCHANGED <<server, relay, crashed, queues, wire, registered, live, opened, ghosts>>

\* The target ended, or the stream idled out.
EgressEnds(n) ==
    /\ n \in live
    /\ live' = live \ {n}
    /\ registered' = IF registered = n THEN None ELSE registered
    /\ air' = air \cup {<<"CLOSE", n>>}
    /\ UNCHANGED <<server, relay, crashed, queues, wire, opened, pushed, ghosts>>

-----------------------------------------------------------------------------
Handler(n) ==
    \/ HelloRefused(n) \/ HelloThrows(n) \/ OpenStream(n)
    \/ AwaitLookUp(n) \/ OpenTimeout(n) \/ OpenGraceOver(n)
    \/ OpenInterrupted(n) \/ OpenPollEmpty(n) \/ OpenPolled(n)
    \/ AnswerSent(n) \/ AnswerThrows(n) \/ StartDown(n)
    \/ Joined(n) \/ JoinInterrupted(n) \/ Finally(n) \/ Cleanup(n)

Pipe(n, t) == PipeTurn(n, t) \/ PipeEnds(n, t) \/ PipeCloses(n, t)

Up(n)   == Pipe(n, "up") \/ ReadEnds(n) \/ ReadBytes(n) \/ SendData(n)
Down(n) == Pipe(n, "down") \/ DownLookUp(n) \/ DownPollEnds(n) \/ DownPolled(n)

Accept(n) == AcceptConnection(n) \/ AcceptEnds(n) \/ Submit(n)

Egress(n) ==
    \/ EgressOpens(n) \/ EgressCloses(n) \/ EgressTakesData(n)
    \/ EgressPushes(n) \/ EgressEnds(n)

Next ==
    /\ ~crashed
    /\ \/ \E n \in Sessions : Start(n) \/ Stop(n) \/ Accept(n) \/ Handler(n) \/ Up(n) \/ Down(n)
                              \/ Egress(n)
       \/ \E f \in Frames : ReceiveFrame(f)

\* Threads run and timers fire.  A read of an open socket may block for ever,
\* and so may the handshake; frames may be lost.
Fairness ==
    \A n \in Sessions :
        /\ WF_vars(~crashed /\ (AcceptEnds(n) \/ Submit(n)))
        /\ WF_vars(~crashed /\ ~At(n, "h", "hello") /\ Handler(n))
        /\ SF_vars(~crashed /\ OpenTimeout(n))
        /\ WF_vars(~crashed /\ (Pipe(n, "up") \/ SendData(n) \/ (sock[n] # "open" /\ ReadEnds(n))))
        /\ WF_vars(~crashed /\ Down(n))

Spec == Init /\ [][Next]_vars /\ Fairness

-----------------------------------------------------------------------------
HandlerLabels == {"none", "hello", "await", "poll", "answer", "startDown", "join", "finally",
                  "cleanup", "done"}
PipeLabels    == {"none", "unstarted", "loop", "read", "send", "await", "poll", "end", "close",
                  "done"}

\* The types of the variables.
TypeOK ==
    /\ running \in [Sessions -> {"new", "up", "down"}]
    /\ accepting \in [Sessions -> {"accept", "submit", "ended"}]
    /\ \A n \in Sessions :
        /\ pc[n]["h"] \in HandlerLabels
        /\ pc[n]["up"] \in PipeLabels /\ pc[n]["down"] \in PipeLabels
        /\ intr[n] \subseteq Threads
        /\ \A t \in Threads : hold[n][t] \in Queues \cup {None}
        /\ \A t \in {"h", "down"} : At(n, t, "poll") => hold[n][t] # None
    /\ guard \in [Sessions -> BOOLEAN \cup {None}]
    /\ sock \in [Sessions -> {"none", "open", "shut", "closed"}]
    /\ queue \in (1..made) \cup {None}
    /\ made \in 0..(2 * MaxSession + 1)
    /\ wire \subseteq Frames  /\ air \subseteq Frames
    /\ live \subseteq opened  /\ registered \in live \cup {None}

Ended(n) ==
    /\ pc[n]["h"] = "done"
    /\ pc[n]["up"] \in {"none", "done"}  /\ pc[n]["down"] \in {"none", "done"}

\* closeStreamOnce keeps a stream's CLOSE single across the three threads.
\* A handler whose join was interrupted removes the guard while the pipes
\* still run, which costs at most one CLOSE more.
ClosedOnce ==
    \A n \in Sessions : closes[n] <= IF skip[n] THEN 2 ELSE 1

\* When the threads of a connection have ended without a CLOSE, openStream
\* had not succeeded, and the egress still has the stream only when
\* shutdownNow interrupted openStream (its one return that leaves the stream
\* to the egress's idle timeout).
EveryStreamClosed ==
    \A n \in Sessions :
        Ended(n) /\ closes[n] = 0 =>
            /\ result[n] # "ok"
            /\ n \in live => result[n] = "interrupted"

\* Once one pipe has ended, or the server was stopped after the stream was
\* requested, all threads of the connection end; the exception is an
\* interrupt that reached pipeFromTon before it was started and had no effect.
RelayEnds ==
    \A n \in Sessions :
        (sessionDone[n] \/ (running[n] = "down" /\ pc[n]["h"] \notin {"none", "hello"}))
            ~> (Ended(n) \/ crashed \/ lostIntr[n])

\* What a connection may rely on while stream ids are not used again: an
\* acknowledged stream is one the egress opened for it, and the bytes written
\* to its socket are its own.  Both fail with MaxSession = 2.
EstablishedIsOpen == \A n \in Sessions : result[n] = "ok" => n \in opened
OwnData           == \A n \in Sessions : got[n] \subseteq {n}
=============================================================================
