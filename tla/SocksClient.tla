---------------------------- MODULE SocksClient ----------------------------
(***************************************************************************)
(* The Windows client: TonClientCore (stream queues, receiver thread) and  *)
(* the workers of LocalSocks5Server that relay one SOCKS connection each,  *)
(* against an egress node and a network that reorders and loses frames.    *)
(*                                                                         *)
(* nextStreamId_ only counts up, so a worker and its stream_id are one     *)
(* value w here.  A worker is a thread (pc) with a second one (uplink)     *)
(* while it relays.  The queues of the network and of DirectAdnlBackend    *)
(* are one: down[w], what the egress has sent and the receiver thread has  *)
(* not yet taken.  The DATA frames of one recv of the uplink are one frame.*)
(***************************************************************************)
EXTENDS Naturals, Sequences

CONSTANTS
    Workers,      \* SOCKS connections, each with the stream_id it will get
    MaxSends,     \* bound on the DATA frames the egress pushes for a stream
    None,         \* no entry in streamQueues_
    MaxInFlight   \* bound on the frames of a stream on their way when DATA is added

ASSUME BoundsAssumption == MaxSends \in Nat /\ MaxInFlight \in Nat \ {0}

VARIABLES
    main,         \* LocalSocks5Server::stop, on the thread of the window
    pc,           \* where a worker is
    uplink,       \* its uplink thread
    alive,        \* the flag the two share
    remoteEnded,  \* the relay has seen CLOSE or ERROR
    client,       \* the accepted socket: "none", "open", "closed"
    queues,       \* streamQueues_; an absent entry is None
    got,          \* DATA frames handed to sendAll for the accepted socket
    up,           \* frames on their way to the egress
    down,         \* frames on their way from the egress
    egress,       \* the egress node's stream: "none", "live", "ending", "gone"
    rx,           \* its rx_thread has bytes to send
    pushed,       \* DATA frames the egress has sent
    before,       \* the ones it had sent before its CLOSE
    established,  \* openStream has returned 0
    disturbed,    \* the network has reordered or lost a frame from the egress
    lost          \* the network has lost a frame to the egress

flags  == <<established, disturbed, lost>>
relay  == <<uplink, alive, remoteEnded, client, got>>
remote == <<egress, rx, pushed, before>>
net    == <<up, down, remote>>
vars   == <<main, pc, relay, queues, net, flags>>

OPEN  == [type |-> "OPEN",  n |-> 0]
CLOSE == [type |-> "CLOSE", n |-> 0]
ERROR == [type |-> "ERROR", n |-> 0]
DATA(i) == [type |-> "DATA", n |-> i]
Control == {OPEN, CLOSE, ERROR}
Frames  == Control \cup {DATA(i) : i \in 0..MaxSends}

ASSUME NoneAssumption == None \notin Seq(Frames)

\* The frames on their way when the i-th of them has been delivered or lost.
RemoveAt(s, i) == SubSeq(s, 1, i - 1) \o SubSeq(s, i + 1, Len(s))

Init ==
    /\ main        = "run"
    /\ pc          = [w \in Workers |-> "listening"]
    /\ uplink      = [w \in Workers |-> "none"]
    /\ alive       = [w \in Workers |-> FALSE]
    /\ remoteEnded = [w \in Workers |-> FALSE]
    /\ client      = [w \in Workers |-> "none"]
    /\ queues      = [w \in Workers |-> None]
    /\ got         = [w \in Workers |-> <<>>]
    /\ up          = [w \in Workers |-> <<>>]
    /\ down        = [w \in Workers |-> <<>>]
    /\ egress      = [w \in Workers |-> "none"]
    /\ rx          = [w \in Workers |-> FALSE]
    /\ pushed      = [w \in Workers |-> 0]
    /\ before      = [w \in Workers |-> 0]
    /\ established = [w \in Workers |-> FALSE]
    /\ disturbed   = [w \in Workers |-> FALSE]
    /\ lost        = [w \in Workers |-> FALSE]

Goto(w, l) == pc' = [pc EXCEPT ![w] = l]
Send(w, f) == up' = [up EXCEPT ![w] = Append(@, f)]
HasFrame(w) == queues[w] \notin {None, <<>>}
Pop(w)      == queues' = [queues EXCEPT ![w] = Tail(@)]

-----------------------------------------------------------------------------
(* acceptLoop and handleClient up to bridgeViaBackend *)

\* A connection is accepted and a worker started for it.
Accept(w) ==
    /\ main \in {"run", "joinAccept"}
    /\ pc[w] = "listening"
    /\ client' = [client EXCEPT ![w] = "open"]
    /\ Goto(w, "handshake")
    /\ UNCHANGED <<main, uplink, alive, remoteEnded, got, queues, net, flags>>

\* The SOCKS request is malformed, or does not come within five seconds.
HandshakeFails(w) ==
    /\ pc[w] = "handshake"
    /\ client' = [client EXCEPT ![w] = "closed"]
    /\ Goto(w, "done")
    /\ UNCHANGED <<main, uplink, alive, remoteEnded, got, queues, net, flags>>

-----------------------------------------------------------------------------
(* openStream *)

NotRegistered(w) == UNCHANGED queues

\* registerStream keeps the entry that an early frame may have made.
Register(w) == queues' = [queues EXCEPT ![w] = IF @ = None THEN <<>> ELSE @]

\* registerStream; then OPEN goes out, unless the backend is not ready yet.
OpenBegin(w) ==
    /\ pc[w] = "handshake"
    /\ Register(w)
    /\ \/ Send(w, OPEN) /\ Goto(w, "open")
       \/ UNCHANGED up /\ Goto(w, "openFailed")
    /\ UNCHANGED <<main, relay, down, remote, flags>>

\* awaitStreamFrame returns a frame.  A CLOSE starts the grace period for an
\* ACK that it may have overtaken, DATA is thrown away.
OpenFrame(w) ==
    /\ pc[w] \in {"open", "grace"}
    /\ HasFrame(w)
    /\ Pop(w)
    /\ LET f == Head(queues[w]) IN
       \/ /\ f = OPEN
          /\ Goto(w, "relay")
          /\ uplink' = [uplink EXCEPT ![w] = "loop"]
          /\ alive' = [alive EXCEPT ![w] = TRUE]
          /\ established' = [established EXCEPT ![w] = TRUE]
       \/ /\ f # OPEN
          /\ Goto(w, CASE f = ERROR -> "openFailed"
                       [] f = CLOSE -> "grace"
                       [] OTHER     -> pc[w])
          /\ UNCHANGED <<uplink, alive, established>>
    /\ UNCHANGED <<main, remoteEnded, client, got, net, disturbed, lost>>

\* kOpenTimeoutMs, or after a CLOSE kOpenCloseGraceMs, have passed.
OpenTimeout(w) ==
    /\ pc[w] \in {"open", "grace"}
    /\ Goto(w, "openFailed")
    /\ UNCHANGED <<main, relay, queues, net, flags>>

\* bridgeViaBackend: unregisterStream, and the worker is through.
OpenFailed(w) ==
    /\ pc[w] = "openFailed"
    /\ queues' = [queues EXCEPT ![w] = None]
    /\ Goto(w, "done")
    /\ UNCHANGED <<main, relay, net, flags>>

-----------------------------------------------------------------------------
(* bridgeViaBackend: the uplink thread, the downlink loop, the teardown *)

GoesOnUntilEnd(w) == alive[w]

\* alive && running_, the condition of both loops.
GoesOn(w) == alive[w] /\ main = "run"

UplinkLoop(w) ==
    /\ uplink[w] = "loop"
    /\ GoesOn(w)
    /\ uplink' = [uplink EXCEPT ![w] = "recv"]
    /\ UNCHANGED <<main, pc, alive, remoteEnded, client, got, queues, net, flags>>

OnTheirWay(w) ==
    Len(up[w]) + Len(down[w]) + (IF queues[w] = None THEN 0 ELSE Len(queues[w]))

\* recv returns bytes of the local side ...
UplinkRecv(w) ==
    /\ uplink[w] = "recv"
    /\ client[w] = "open"
    /\ OnTheirWay(w) < MaxInFlight
    /\ uplink' = [uplink EXCEPT ![w] = "send"]
    /\ UNCHANGED <<main, pc, alive, remoteEnded, client, got, queues, net, flags>>

\* ... which go out as DATA.
UplinkSend(w) ==
    /\ uplink[w] = "send"
    /\ Send(w, DATA(0))
    /\ uplink' = [uplink EXCEPT ![w] = "loop"]
    /\ UNCHANGED <<main, pc, alive, remoteEnded, client, got, queues, down,
                   remote, flags>>

UplinkEndSilent(w) ==
    /\ \/ uplink[w] = "loop" /\ ~GoesOn(w)
       \/ uplink[w] \in {"recv", "send"}
    /\ uplink' = [uplink EXCEPT ![w] = "done"]
    /\ UNCHANGED <<main, pc, alive, remoteEnded, client, got, queues, net, flags>>

\* The loop ends, or recv fails (the local side is through, or silent for five
\* seconds, or the socket has been closed), or sendStreamData does.
UplinkEnd(w) ==
    /\ \/ uplink[w] = "loop" /\ ~GoesOn(w)
       \/ uplink[w] \in {"recv", "send"}
    /\ uplink' = [uplink EXCEPT ![w] = "done"]
    /\ alive' = [alive EXCEPT ![w] = FALSE]
    /\ UNCHANGED <<main, pc, remoteEnded, client, got, queues, net, flags>>

RelayLoop(w) ==
    /\ pc[w] = "relay"
    /\ Goto(w, IF GoesOn(w) THEN "await" ELSE "teardown")
    /\ UNCHANGED <<main, relay, queues, net, flags>>

\* awaitStreamFrame returns nothing for 100 ms.
RelayNoFrame(w) ==
    /\ pc[w] = "await"
    /\ ~HasFrame(w)
    /\ Goto(w, "relay")
    /\ UNCHANGED <<main, relay, queues, net, flags>>

\* A frame for the local side.  DATA goes to the accepted socket.
RelayFrame(w) ==
    /\ pc[w] = "await"
    /\ HasFrame(w)
    /\ Pop(w)
    /\ LET f == Head(queues[w]) IN
       /\ got' = IF f.type = "DATA" THEN [got EXCEPT ![w] = Append(@, f.n)] ELSE got
       /\ remoteEnded' = [remoteEnded EXCEPT ![w] = f \in {CLOSE, ERROR}]
       /\ Goto(w, CASE f.type = "DATA"      -> "write"
                    [] f \in {CLOSE, ERROR} -> "teardown"
                    [] OTHER                -> "relay")
    /\ UNCHANGED <<main, uplink, alive, client, net, flags>>

\* sendAll returns true or false; it waits for the local side to read.
RelayWrite(w) ==
    /\ pc[w] = "write"
    /\ Goto(w, "relay") \/ Goto(w, "teardown")
    /\ UNCHANGED <<main, relay, queues, net, flags>>

\* alive = false and closeNow().
Teardown(w) ==
    /\ pc[w] = "teardown"
    /\ alive' = [alive EXCEPT ![w] = FALSE]
    /\ client' = [client EXCEPT ![w] = "closed"]
    /\ Goto(w, "joinUplink")
    /\ UNCHANGED <<main, uplink, remoteEnded, got, queues, net, flags>>

JoinedAnyway(w) == TRUE

\* uplink.join() returns.
Joined(w) == uplink[w] = "done"

CloseNever(w) == UNCHANGED up

\* closeStream, unless the remote side has ended the stream.
CloseUnlessEnded(w) == IF remoteEnded[w] THEN UNCHANGED up ELSE Send(w, CLOSE)

JoinUplink(w) ==
    /\ pc[w] = "joinUplink"
    /\ Joined(w)
    /\ CloseUnlessEnded(w)
    /\ Goto(w, "unregister")
    /\ UNCHANGED <<main, relay, queues, down, remote, flags>>

Unregister(w) ==
    /\ pc[w] = "unregister"
    /\ queues' = [queues EXCEPT ![w] = None]
    /\ Goto(w, "done")
    /\ UNCHANGED <<main, relay, net, flags>>

-----------------------------------------------------------------------------
(* receiverLoop *)

EnqueuedInFront(w, f) == queues' = [queues EXCEPT ![w] =
    IF @ = None THEN (IF f \in Control THEN <<f>> ELSE @) ELSE <<f>> \o @]

ControlInFront(w, f) == queues' = [queues EXCEPT ![w] =
    CASE f \in Control -> IF @ = None THEN <<f>> ELSE <<f>> \o @
      [] OTHER         -> IF @ = None THEN @ ELSE Append(@, f)]

\* Control frames make an entry where there is none, DATA does not.
Enqueued(w, f) == queues' = [queues EXCEPT ![w] =
    IF @ = None THEN (IF f \in Control THEN <<f>> ELSE @) ELSE Append(@, f)]

\* The receiver thread takes the i-th of the frames on their way; the network
\* has reordered them unless it is the first.
Receive(w, i) ==
    /\ main # "stopped"
    /\ Enqueued(w, down[w][i])
    /\ down' = [down EXCEPT ![w] = RemoveAt(@, i)]
    /\ disturbed' = [disturbed EXCEPT ![w] = @ \/ i # 1]
    /\ UNCHANGED <<main, pc, relay, up, remote, established, lost>>

-----------------------------------------------------------------------------
(* LocalSocks5Server::stop *)

StopBegin ==
    /\ main = "run"
    /\ main' = "joinAccept"
    /\ UNCHANGED <<pc, relay, queues, net, flags>>

StopJoinAccept ==
    /\ main = "joinAccept"
    /\ main' = "joinWorkers"
    /\ UNCHANGED <<pc, relay, queues, net, flags>>

\* Every worker has been joined; the core is stopped next.
StopJoinWorkers ==
    /\ main = "joinWorkers"
    /\ \A w \in Workers : pc[w] \in {"listening", "done"}
    /\ main' = "stopped"
    /\ UNCHANGED <<pc, relay, queues, net, flags>>

-----------------------------------------------------------------------------
(* The network and the egress node, as its frames show it to the client *)

LoseUp(w, i) ==
    /\ up' = [up EXCEPT ![w] = RemoveAt(@, i)]
    /\ lost' = [lost EXCEPT ![w] = TRUE]
    /\ UNCHANGED <<main, pc, relay, queues, down, remote, established, disturbed>>

LoseDown(w, i) ==
    /\ down' = [down EXCEPT ![w] = RemoveAt(@, i)]
    /\ disturbed' = [disturbed EXCEPT ![w] = TRUE]
    /\ UNCHANGED <<main, pc, relay, queues, up, remote, established, lost>>

Answer(w, f) == down' = [down EXCEPT ![w] = Append(@, f)]
Become(w, e) == egress' = [egress EXCEPT ![w] = e]

\* handleOpen: the stream is registered and acknowledged, or refused.  (Its
\* rx_thread starts; if it did not, ERROR would follow the ACK of a live stream.)
EgressOpen(w) ==
    \/ Answer(w, OPEN) /\ Become(w, "live")
    \/ Answer(w, ERROR) /\ UNCHANGED egress

\* handleData: written, or the write fails and the stream is closed; if there is
\* no live stream, dropped or answered with ERROR.  (A segment of 1200 bytes is
\* within max_payload_bytes.)
EgressData(w) ==
    \/ UNCHANGED <<down, egress>>
    \/ egress[w] = "live" /\ Become(w, "ending") /\ UNCHANGED down
    \/ egress[w] # "live" /\ Answer(w, ERROR) /\ UNCHANGED egress

\* handleClose: closeStream, or a CLOSE in answer if there is no stream.
EgressClose(w) ==
    \/ egress[w] = "live" /\ Become(w, "ending") /\ UNCHANGED down
    \/ egress[w] # "live" /\ Answer(w, CLOSE) /\ UNCHANGED egress

\* The egress handles the i-th of the frames on their way to it.
EgressTakes(w, i) ==
    /\ up' = [up EXCEPT ![w] = RemoveAt(@, i)]
    /\ LET type == up[w][i].type IN
       \/ type = "OPEN"  /\ EgressOpen(w)
       \/ type = "DATA"  /\ EgressData(w)
       \/ type = "CLOSE" /\ EgressClose(w)
    /\ UNCHANGED <<main, pc, relay, queues, rx, pushed, before, flags>>

\* rx_thread: recv returns bytes of the remote host ...
EgressRecv(w) ==
    /\ egress[w] = "live"
    /\ ~rx[w] /\ pushed[w] < MaxSends
    /\ rx' = [rx EXCEPT ![w] = TRUE]
    /\ UNCHANGED <<main, pc, relay, queues, up, down, egress, pushed, before, flags>>

\* ... which it sends even if another thread has closed the stream since.
EgressPush(w) ==
    /\ rx[w]
    /\ rx' = [rx EXCEPT ![w] = FALSE]
    /\ pushed' = [pushed EXCEPT ![w] = @ + 1]
    /\ Answer(w, DATA(pushed[w] + 1))
    /\ UNCHANGED <<main, pc, relay, queues, up, egress, before, flags>>

\* closeStream takes the stream from the table: end of the remote host's bytes,
\* or the idle timeout.
EgressEnd(w) ==
    /\ egress[w] = "live"
    /\ Become(w, "ending")
    /\ UNCHANGED <<main, pc, relay, queues, up, down, rx, pushed, before, flags>>

\* closeStream sends CLOSE.
EgressNotify(w) ==
    /\ egress[w] = "ending"
    /\ Become(w, "gone")
    /\ Answer(w, CLOSE)
    /\ before' = [before EXCEPT ![w] = pushed[w]]
    /\ UNCHANGED <<main, pc, relay, queues, up, rx, pushed, flags>>

-----------------------------------------------------------------------------
Open(w)   == OpenBegin(w) \/ OpenFrame(w) \/ OpenTimeout(w) \/ OpenFailed(w)
Relay(w)  == \/ RelayLoop(w) \/ RelayNoFrame(w) \/ RelayFrame(w)
             \/ Teardown(w) \/ JoinUplink(w) \/ Unregister(w)
Worker(w) == HandshakeFails(w) \/ Open(w) \/ Relay(w) \/ RelayWrite(w)
Uplink(w) == UplinkLoop(w) \/ UplinkRecv(w) \/ UplinkSend(w) \/ UplinkEnd(w)
Stop      == StopJoinAccept \/ StopJoinWorkers

Environment(w) ==
    \/ \E i \in DOMAIN up[w] : EgressTakes(w, i) \/ LoseUp(w, i)
    \/ \E i \in DOMAIN down[w] : LoseDown(w, i)
    \/ EgressRecv(w) \/ EgressPush(w) \/ EgressEnd(w) \/ EgressNotify(w)

Next ==
    \/ StopBegin \/ Stop
    \/ \E w \in Workers :
        \/ Accept(w) \/ Worker(w) \/ Uplink(w)
        \/ \E i \in DOMAIN down[w] : Receive(w, i)
        \/ Environment(w)

Spec == Init /\ [][Next]_vars

\* Threads keep running, and waits that the code bounds by a timeout end: the
\* handshake and the uplink by SO_RCVTIMEO, openStream by its deadline.  The
\* network, the egress and the local side get no fairness.
Fairness ==
    /\ WF_vars(Stop)
    /\ \A w \in Workers :
        /\ WF_vars(HandshakeFails(w) \/ Open(w))
        /\ WF_vars(OpenTimeout(w))
        /\ WF_vars(Relay(w))
        /\ WF_vars(Uplink(w))

FairSpec == Spec /\ Fairness

\* The local side reads what it is sent, or closes its end: send returns.
ReadingSpec == FairSpec /\ \A w \in Workers : WF_vars(RelayWrite(w))

-----------------------------------------------------------------------------
(* Properties *)

\* The flags, queues and sockets of the client and the frames on their way have
\* the types of the code, and from registerStream to unregisterStream a worker
\* has an entry in streamQueues_.
TypeOK ==
    /\ main \in {"run", "joinAccept", "joinWorkers", "stopped"}
    /\ pc \in [Workers -> {"listening", "handshake", "open", "grace", "openFailed",
                           "relay", "await", "write", "teardown", "joinUplink",
                           "unregister", "done"}]
    /\ uplink \in [Workers -> {"none", "loop", "recv", "send", "done"}]
    /\ alive \in [Workers -> BOOLEAN]
    /\ remoteEnded \in [Workers -> BOOLEAN]
    /\ client \in [Workers -> {"none", "open", "closed"}]
    /\ \A w \in Workers : queues[w] = None \/ queues[w] \in Seq(Frames)
    /\ \A w \in Workers :
          queues[w] = None => pc[w] \in {"listening", "handshake", "done"}
    /\ got \in [Workers -> Seq(1..MaxSends)]
    /\ up \in [Workers -> Seq(Frames)]
    /\ down \in [Workers -> Seq(Frames)]
    /\ egress \in [Workers -> {"none", "live", "ending", "gone"}]
    /\ rx \in [Workers -> BOOLEAN]
    /\ pushed \in [Workers -> 0..MaxSends] /\ before \in [Workers -> 0..MaxSends]
    /\ established \in [Workers -> BOOLEAN]
    /\ disturbed \in [Workers -> BOOLEAN] /\ lost \in [Workers -> BOOLEAN]

\* What the local side receives is a prefix of what the egress pushed, in order
\* and without gaps, as long as the network keeps the order of the stream's
\* frames: openStream, the queue and the relay lose and swap nothing themselves.
InOrder ==
    \A w \in Workers : ~disturbed[w] => \A i \in DOMAIN got[w] : got[w][i] = i

\* A CLOSE of the egress does not cut off bytes it sent before: a relay that
\* ends by it has taken everything, if the network kept the order.
CompleteBeforeClose ==
    [][\A w \in Workers :
        (pc[w] = "await" /\ pc'[w] = "teardown" /\ Head(queues[w]) = CLOSE /\ ~disturbed[w])
            => Len(got[w]) >= before[w]]_vars

\* The CLOSE of the client is the last frame it sends for a stream: the uplink
\* thread has been joined before, so no DATA follows.
CloseIsLast ==
    [][\A w \in Workers : pc[w] \in {"unregister", "done"} => Len(up'[w]) <= Len(up[w])]_vars

\* A worker whose stream was established leaves no stream behind at the egress:
\* it is gone, or the CLOSE is on its way or was lost by the network.
NoStreamLeftBehind ==
    \A w \in Workers :
        (established[w] /\ pc[w] = "done" /\ egress[w] = "live")
            => lost[w] \/ \E i \in 1..Len(up[w]) : up[w][i] = CLOSE

\* stop() returns: every worker comes out of openStream or its relay and joins
\* its uplink thread, whatever the network and the egress do.
StopReturns == (main # "run") ~> (main = "stopped")

\* Either direction ends the other: once the local side is through or the egress
\* has ended the stream, the worker finishes.
RelayEnds == \A w \in Workers :
    (remoteEnded[w] \/ uplink[w] = "done") ~> (pc[w] = "done")
=============================================================================
