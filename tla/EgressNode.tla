----------------------------- MODULE EgressNode -----------------------------
(***************************************************************************)
(* The stream table of the egress node (ton-egress-node/src/egress_node.cpp)*)
(* and the threads that work on it:                                        *)
(*                                                                         *)
(*   "handler"  the ADNL scheduler thread, in onAdnlMessage.  The bridge   *)
(*              holds Impl::mu for the whole call, so one request is       *)
(*              handled at a time;                                         *)
(*   "idle"     idle_thread_, in monitorIdleTimeoutLoop;                   *)
(*   "main"     the thread of main(), in stop();                           *)
(*   s          the rx_thread of Stream object s.                          *)
(*                                                                         *)
(* One action is one critical section of mu_, or one access to a Stream,   *)
(* a socket or the transport between two of them.  Time is abstract: a     *)
(* stream is or is not idle longer than idle_timeout_sec, and an entry of  *)
(* recently_closed_streams_ms_ is or is not within the grace period (one   *)
(* that is not counts as absent, as it does in handleData).                *)
(***************************************************************************)
EXTENDS Naturals, FiniteSets

CONSTANTS
    Clients,      \* ADNL identities
    StreamIds,    \* stream_id values that clients use
    Streams,      \* Stream objects; bounds the number of successful OPENs
    FDs,          \* descriptor numbers the kernel hands out
    MaxStreams,   \* config_.max_streams
    None,         \* nullptr, fd -1, no key
    IdReuse,      \* a client may OPEN a stream_id it has opened before
    SlowOpen,     \* idle_timeout_sec may pass before handleOpen has returned
    FdRace        \* a number may be handed out again while an rx_thread is
                  \* between loading stream->fd and entering recv

Keys    == Clients \X StreamIds
Threads == {"handler", "idle", "main"} \cup Streams

ASSUME SetsAssumption ==
    /\ IsFiniteSet(Clients)
    /\ IsFiniteSet(StreamIds)
    /\ {"handler", "idle", "main"} \cap Streams = {}
    /\ None \notin Keys \cup Streams \cup FDs

ASSUME NumbersAssumption ==
    /\ MaxStreams \in Nat
    /\ IdReuse \in BOOLEAN
    /\ SlowOpen \in BOOLEAN
    /\ FdRace \in BOOLEAN

VARIABLES
    streams,     \* streams_: the registered Stream of each key
    perClient,   \* streams_per_client_
    recent,      \* keys of recently_closed_streams_ms_ within the grace period
    keyOf,       \* (client_id, stream_id) of a Stream, None until allocated
    fd,          \* Stream::fd, None for -1
    closed,      \* Stream::closed
    stale,       \* last_activity_ms is longer ago than idle_timeout_sec
    handle,      \* Stream::rx_thread: "empty", "joinable", "detached", "joined"
    sock,        \* the Stream whose connection a descriptor number denotes
    pc,          \* where each thread is
    arg,         \* the key the handler or the monitor works on
    held,        \* closeStream's (in "main", stop's) local StreamPtr
    local,       \* the StreamPtr local to handleOpen or handleData
    rxFd,        \* the number an rx_thread has loaded for its next recv
    sweep,       \* monitorIdleTimeoutLoop's local vector `stale`
    snapshot,    \* stop's streams_snapshot, the part not yet torn down
    acked,       \* the OPEN ACK of a Stream has been handed to the transport
    closes,      \* CLOSE frames that closeStream has sent for a Stream
    reply        \* to the handler's request: "free" (none is due), "owed", "sent"

table   == <<streams, perClient, recent>>
objects == <<keyOf, fd, closed, stale, handle, sock>>
wire    == <<acked, closes>>
vars    == <<table, objects, pc, arg, held, local, rxFd, sweep, snapshot,
             wire, reply>>

-----------------------------------------------------------------------------
\* running_, and the running_ of the ADNL runtime.  stop() clears first the one,
\* then the other; from there on sendToClient fails.
Running == pc["main"] = "run"
Up      == pc["main"] \in {"run", "stopping"}

\* A signal has ended the process.
Killed  == pc["main"] = "killed"

Allocated(s)  == keyOf[s] # None
Registered(s) == Allocated(s) /\ streams[keyOf[s]] = s
KeysOf(c)     == {k \in Keys : k[1] = c /\ streams[k] # None}

\* The threads that can still reach a Stream object through a StreamPtr.
Referenced(s) ==
    \/ \E k \in Keys : streams[k] = s
    \/ \E t \in Threads : held[t] = s
    \/ local = s
    \/ s \in snapshot
    \/ pc[s] \notin {"unborn", "done"}

AnsweredNever == reply

\* A frame of the request being handled goes to the client.
Answered == IF Up THEN "sent" ELSE reply

\* The key that closeStream was called with on thread t.
Target(t) == IF t \in Streams THEN keyOf[t] ELSE arg[t]

\* The locals of handler or monitor t go out of scope when its call returns.
Forget(t) == /\ arg' = IF t \in Streams THEN arg ELSE [arg EXCEPT ![t] = None]
             /\ local' = IF t = "handler" THEN None ELSE local

\* Where a thread goes on when closeStream returns.
Resume(t) == CASE t = "handler" -> "ready"
               [] t = "idle"    -> "sweep"
               [] OTHER         -> "done"

Init ==
    /\ streams   = [k \in Keys |-> None]
    /\ perClient = [c \in Clients |-> 0]
    /\ recent    = {}
    /\ keyOf     = [s \in Streams |-> None]
    /\ fd        = [s \in Streams |-> None]
    /\ closed    = [s \in Streams |-> FALSE]
    /\ stale     = [s \in Streams |-> FALSE]
    /\ handle    = [s \in Streams |-> "empty"]
    /\ sock      = [n \in FDs |-> None]
    /\ pc        = [t \in Threads |-> CASE t = "handler" -> "ready"
                                        [] t = "idle"    -> "sleep"
                                        [] t = "main"    -> "run"
                                        [] OTHER         -> "unborn"]
    /\ arg       = [t \in {"handler", "idle"} |-> None]
    /\ held      = [t \in Threads |-> None]
    /\ local     = None
    /\ rxFd      = [s \in Streams |-> None]
    /\ sweep     = {}
    /\ snapshot  = {}
    /\ acked     = [s \in Streams |-> FALSE]
    /\ closes    = [s \in Streams |-> 0]
    /\ reply     = "free"

-----------------------------------------------------------------------------
(* handleOpen *)

\* handleOpen up to the max_streams check: refused by the policy, by the
\* authorisation, or (under mu_) because the client has its share of streams.
OpenRefuse ==
    /\ pc["handler"] = "ready"
    /\ reply' = IF Up THEN "sent" ELSE "owed"
    /\ UNCHANGED <<table, objects, pc, arg, held, local, rxFd, sweep, snapshot, wire>>

HasRoomOffByOne(c) == perClient[c] <= MaxStreams

\* streams_per_client_[client_id] >= config_.max_streams does not hold.
HasRoom(c) == perClient[c] < MaxStreams

\* The checks pass; DNS and connect run next, outside mu_.
OpenAdmit(k) ==
    /\ pc["handler"] = "ready"
    /\ IdReuse \/ \A s \in Streams : keyOf[s] # k
    /\ HasRoom(k[1])
    /\ pc' = [pc EXCEPT !["handler"] = "connect"]
    /\ arg' = [arg EXCEPT !["handler"] = k]
    /\ reply' = "owed"
    /\ UNCHANGED <<table, objects, held, local, rxFd, sweep, snapshot, wire>>

\* DNS fails, every address is blocked, or no address accepts in time.
OpenFail ==
    /\ pc["handler"] = "connect"
    /\ pc' = [pc EXCEPT !["handler"] = "ready"]
    /\ Forget("handler")
    /\ reply' = Answered
    /\ UNCHANGED <<table, objects, held, rxFd, sweep, snapshot, wire>>

\* A number the kernel may return from socket().
FreeFd(n) == /\ sock[n] = None
             /\ FdRace \/ \A s \in Streams : pc[s] = "recv" => rxFd[s] # n

StartOfSpawned(s) == /\ handle' = [handle EXCEPT ![s] = "joinable"]
                     /\ pc' = [pc EXCEPT !["handler"] = "ack", ![s] = "loop"]

\* The new Stream has no rx_thread until the ACK is out.
StartOf(s) == UNCHANGED handle /\ pc' = [pc EXCEPT !["handler"] = "ack"]

\* connect succeeds; the new Stream s is put into streams_, over whatever the
\* key held, and counted.
OpenRegister(s, n) ==
    /\ pc["handler"] = "connect"
    /\ ~Allocated(s)
    /\ FreeFd(n)
    /\ LET k == arg["handler"] IN
       /\ keyOf' = [keyOf EXCEPT ![s] = k]
       /\ streams' = [streams EXCEPT ![k] = s]
       /\ perClient' = [perClient EXCEPT ![k[1]] = @ + 1]
    /\ fd' = [fd EXCEPT ![s] = n]
    /\ sock' = [sock EXCEPT ![n] = s]
    /\ local' = s
    /\ StartOf(s)
    /\ UNCHANGED <<recent, closed, stale, arg, held, rxFd, sweep,
                   snapshot, wire, reply>>

OpenAck ==
    /\ pc["handler"] = "ack"
    /\ pc' = [pc EXCEPT !["handler"] = "spawn"]
    /\ acked' = [acked EXCEPT ![local] = Up]
    /\ reply' = Answered
    /\ UNCHANGED <<table, objects, arg, held, local, rxFd, sweep, snapshot, closes>>

\* stream->rx_thread is assigned and handleOpen returns.
OpenSpawn ==
    /\ pc["handler"] = "spawn"
    /\ handle' = [handle EXCEPT ![local] = "joinable"]
    /\ pc' = [pc EXCEPT !["handler"] = "ready", ![local] = "loop"]
    /\ Forget("handler")
    /\ UNCHANGED <<table, keyOf, fd, closed, stale, sock, held, rxFd,
                   sweep, snapshot, wire, reply>>

\* The std::thread constructor throws: an ERROR follows the ACK, and the
\* Stream stays registered without a reader.
OpenSpawnThrows ==
    /\ pc["handler"] = "spawn"
    /\ pc' = [pc EXCEPT !["handler"] = "ready"]
    /\ Forget("handler")
    /\ reply' = Answered
    /\ UNCHANGED <<table, objects, held, rxFd, sweep, snapshot, wire>>

-----------------------------------------------------------------------------
(* handleData and handleClose *)

\* A payload over max_payload_bytes is refused before the table is looked at.
DataTooLarge ==
    /\ pc["handler"] = "ready"
    /\ reply' = IF Up THEN "sent" ELSE "free"
    /\ UNCHANGED <<table, objects, pc, arg, held, local, rxFd, sweep, snapshot, wire>>

\* The lookup under mu_.  Late DATA of a fresh entry is dropped silently, DATA
\* of an unknown or forgotten stream is answered with ERROR.
DataUnknown(k) ==
    /\ pc["handler"] = "ready"
    /\ streams[k] = None
    /\ reply' = IF k \notin recent /\ Up THEN "sent" ELSE "free"
    /\ UNCHANGED <<table, objects, pc, arg, held, local, rxFd, sweep, snapshot, wire>>

DataFound(k) ==
    /\ pc["handler"] = "ready"
    /\ streams[k] # None
    /\ local' = streams[k]
    /\ arg' = [arg EXCEPT !["handler"] = k]
    /\ pc' = [pc EXCEPT !["handler"] = "data"]
    /\ reply' = "free"
    /\ UNCHANGED <<table, objects, held, rxFd, sweep, snapshot, wire>>

\* Outside mu_: "stream closed" is an ERROR, an empty payload is ignored.
DataCheck ==
    /\ pc["handler"] = "data"
    /\ \/ /\ fd[local] = None \/ closed[local]
          /\ pc' = [pc EXCEPT !["handler"] = "ready"]
          /\ Forget("handler")
          /\ reply' = Answered
       \/ /\ fd[local] # None /\ ~closed[local]
          /\ \/ pc' = [pc EXCEPT !["handler"] = "ready"] /\ Forget("handler")
             \/ pc' = [pc EXCEPT !["handler"] = "send"] /\ UNCHANGED <<arg, local>>
          /\ UNCHANGED reply
    /\ UNCHANGED <<table, objects, held, rxFd, sweep, snapshot, wire>>

\* ::send on stream->fd, loaded again.
DataSent ==
    /\ pc["handler"] = "send"
    /\ fd[local] # None
    /\ stale' = [stale EXCEPT ![local] = FALSE]
    /\ pc' = [pc EXCEPT !["handler"] = "ready"]
    /\ Forget("handler")
    /\ UNCHANGED <<table, keyOf, fd, closed, handle, sock, held, rxFd,
                   sweep, snapshot, wire, reply>>

\* The peer reset the connection, or the descriptor is gone: closeStream.
DataSendFails ==
    /\ pc["handler"] = "send"
    /\ pc' = [pc EXCEPT !["handler"] = "erase"]
    /\ UNCHANGED <<table, objects, arg, held, local, rxFd, sweep, snapshot, wire, reply>>

\* The connection was reset before: ::send without MSG_NOSIGNAL raises SIGPIPE,
\* for which the program installs no handler.
DataSendKills ==
    /\ pc["handler"] = "send"
    /\ fd[local] # None
    /\ pc' = [pc EXCEPT !["main"] = "killed"]
    /\ UNCHANGED <<table, objects, arg, held, local, rxFd, sweep, snapshot, wire, reply>>

HandleClose(k) ==
    /\ pc["handler"] = "ready"
    /\ pc' = [pc EXCEPT !["handler"] = "erase"]
    /\ arg' = [arg EXCEPT !["handler"] = k]
    /\ reply' = "owed"
    /\ UNCHANGED <<table, objects, held, local, rxFd, sweep, snapshot, wire>>

-----------------------------------------------------------------------------
(* closeStream, on whichever thread calls it *)

\* The key is not registered.  handleClose answers such a CLOSE itself.
CloseAbsent(t) ==
    /\ pc[t] = "erase"
    /\ streams[Target(t)] = None
    /\ recent' = recent \cup {Target(t)}
    /\ pc' = [pc EXCEPT ![t] = Resume(t)]
    /\ Forget(t)
    /\ reply' = IF t = "handler" /\ reply = "owed" THEN Answered ELSE reply
    /\ UNCHANGED <<streams, perClient, objects, held, rxFd, sweep, snapshot, wire>>

UnregisterUncounted(k) ==
    streams' = [streams EXCEPT ![k] = None] /\ UNCHANGED perClient

UnregisterKeepsEntry(k) ==
    /\ UNCHANGED streams
    /\ perClient' = [perClient EXCEPT ![k[1]] = IF @ > 0 THEN @ - 1 ELSE @]

\* The entry of key k goes, and its client's count with it.
Unregister(k) ==
    /\ streams' = [streams EXCEPT ![k] = None]
    /\ perClient' = [perClient EXCEPT ![k[1]] = IF @ > 0 THEN @ - 1 ELSE @]

\* The entry is erased under mu_; thread t is now the one that tears it down.
CloseErase(t) ==
    /\ pc[t] = "erase"
    /\ streams[Target(t)] # None
    /\ held' = [held EXCEPT ![t] = streams[Target(t)]]
    /\ Unregister(Target(t))
    /\ recent' = recent \cup {Target(t)}
    /\ pc' = [pc EXCEPT ![t] = "mark"]
    /\ UNCHANGED <<objects, arg, local, rxFd, sweep, snapshot, wire, reply>>

CloseMarkLoaded(t) ==
    /\ pc[t] = "mark"
    /\ pc' = [pc EXCEPT ![t] = IF closed[held[t]] THEN "join" ELSE "shut"]
    /\ UNCHANGED <<table, objects, arg, held, local, rxFd, sweep, snapshot, wire, reply>>

\* closed.exchange(true)
CloseMark(t) ==
    /\ pc[t] = "mark"
    /\ closed' = [closed EXCEPT ![held[t]] = TRUE]
    /\ pc' = [pc EXCEPT ![t] = IF closed[held[t]] THEN "join" ELSE "shut"]
    /\ UNCHANGED <<table, keyOf, fd, stale, handle, sock, arg, held, local,
                   rxFd, sweep, snapshot, wire, reply>>

ShutFdLeaking(s) == fd' = [fd EXCEPT ![s] = None] /\ UNCHANGED sock

\* The kernel forgets the number of Stream s and stream->fd becomes -1.
ShutFd(s) ==
    /\ fd' = [fd EXCEPT ![s] = None]
    /\ sock' = IF fd[s] = None THEN sock ELSE [sock EXCEPT ![fd[s]] = None]

NotifyNobody(s) == UNCHANGED closes

\* The CLOSE frame for Stream s.
NotifyClosed(s) == closes' = IF Up THEN [closes EXCEPT ![s] = @ + 1] ELSE closes

CloseShut(t) ==
    /\ pc[t] = "shut"
    /\ ShutFd(held[t])
    /\ NotifyClosed(held[t])
    /\ reply' = IF t = "handler" THEN Answered ELSE reply
    /\ pc' = [pc EXCEPT ![t] = "join"]
    /\ UNCHANGED <<table, keyOf, closed, stale, handle, arg, held, local, rxFd,
                   sweep, snapshot, acked>>

EndJoinableOfOthers(t, s) ==
    /\ handle[s] = "joinable" /\ s # t => pc[s] = "done"
    /\ handle' = [handle EXCEPT ![s] = IF @ = "joinable" /\ s # t THEN "joined" ELSE @]

EndJoinableByDetach(t, s) ==
    handle' = [handle EXCEPT ![s] = IF @ = "joinable" THEN "detached" ELSE @]

\* End the joinable state of Stream s on thread t: nothing to do, detach
\* oneself, or wait for the rx_thread to finish.
EndJoinable(t, s) ==
    \/ handle[s] # "joinable" /\ UNCHANGED handle
    \/ /\ handle[s] = "joinable" /\ s = t
       /\ handle' = [handle EXCEPT ![s] = "detached"]
    \/ /\ handle[s] = "joinable" /\ s # t /\ pc[s] = "done"
       /\ handle' = [handle EXCEPT ![s] = "joined"]

CloseJoin(t) ==
    /\ pc[t] = "join"
    /\ EndJoinable(t, held[t])
    /\ held' = [held EXCEPT ![t] = None]
    /\ pc' = [pc EXCEPT ![t] = Resume(t)]
    /\ Forget(t)
    /\ UNCHANGED <<table, keyOf, fd, closed, stale, sock, rxFd, sweep,
                   snapshot, wire, reply>>

-----------------------------------------------------------------------------
(* rx_thread of Stream s *)

\* The loop condition, and the load of stream->fd for recv.
RxLoad(s) ==
    /\ pc[s] = "loop"
    /\ \/ /\ closed[s]
          /\ pc' = [pc EXCEPT ![s] = "done"]
          /\ UNCHANGED rxFd
       \/ /\ ~closed[s]
          /\ pc' = [pc EXCEPT ![s] = "recv"]
          /\ rxFd' = [rxFd EXCEPT ![s] = fd[s]]
    /\ UNCHANGED <<table, objects, arg, held, local, sweep, snapshot, wire, reply>>

\* The loaded number denotes no connection any more.
RxDead(s) == rxFd[s] \notin {n \in FDs : sock[n] # None}

\* recv returns bytes, which go out as DATA frames; a failed push closes.
RxData(s) ==
    /\ pc[s] = "recv"
    /\ ~RxDead(s)
    /\ stale' = [stale EXCEPT ![s] = FALSE]
    /\ pc' = [pc EXCEPT ![s] = IF Up THEN "loop" ELSE "erase"]
    /\ rxFd' = [rxFd EXCEPT ![s] = None]
    /\ UNCHANGED <<table, keyOf, fd, closed, handle, sock, arg, held, local,
                   sweep, snapshot, wire, reply>>

\* recv returns 0 or an error (or an exception is caught): closeStream.
RxEof(s) ==
    /\ pc[s] = "recv"
    /\ pc' = [pc EXCEPT ![s] = "erase"]
    /\ rxFd' = [rxFd EXCEPT ![s] = None]
    /\ UNCHANGED <<table, objects, arg, held, local, sweep, snapshot, wire, reply>>

-----------------------------------------------------------------------------
(* monitorIdleTimeoutLoop *)

StaleKeysInverted == {k \in Keys : streams[k] # None /\ ~stale[streams[k]]}

\* idle > idle_timeout_sec
StaleKeys == {k \in Keys : streams[k] # None /\ stale[streams[k]]}

\* After the sleep, under mu_: collect the stale keys.  The entries it purges
\* from recently_closed_streams_ms_ are the ones AgeRecent has taken out.
MonitorScan ==
    /\ pc["idle"] = "sleep"
    /\ sweep' = StaleKeys
    /\ pc' = [pc EXCEPT !["idle"] = "sweep"]
    /\ UNCHANGED <<table, objects, arg, held, local, rxFd, snapshot, wire, reply>>

\* closeStream for the next collected key.
MonitorClose(k) ==
    /\ pc["idle"] = "sweep"
    /\ k \in sweep
    /\ sweep' = sweep \ {k}
    /\ arg' = [arg EXCEPT !["idle"] = k]
    /\ pc' = [pc EXCEPT !["idle"] = "erase"]
    /\ UNCHANGED <<table, objects, held, local, rxFd, snapshot, wire, reply>>

MonitorLoop ==
    /\ pc["idle"] = "sweep"
    /\ sweep = {}
    /\ pc' = [pc EXCEPT !["idle"] = IF Running THEN "sleep" ELSE "done"]
    /\ UNCHANGED <<table, objects, arg, held, local, rxFd, sweep, snapshot, wire, reply>>

-----------------------------------------------------------------------------
(* stop, on the main thread *)

StopBegin ==
    /\ Running
    /\ pc' = [pc EXCEPT !["main"] = "stopping"]
    /\ UNCHANGED <<table, objects, arg, held, local, rxFd, sweep, snapshot, wire, reply>>

\* transport_->stop(): the ADNL runtime is told to stop ...
StopRuntime ==
    /\ pc["main"] = "stopping"
    /\ pc' = [pc EXCEPT !["main"] = "joinHandler"]
    /\ UNCHANGED <<table, objects, arg, held, local, rxFd, sweep, snapshot, wire, reply>>

\* ... and its scheduler thread is joined; it finishes the request it is handling.
StopTransport ==
    /\ pc["main"] = "joinHandler"
    /\ pc["handler"] = "ready"
    /\ pc' = [pc EXCEPT !["main"] = "joinIdle", !["handler"] = "done"]
    /\ UNCHANGED <<table, objects, arg, held, local, rxFd, sweep, snapshot, wire, reply>>

StopJoinIdle ==
    /\ pc["main"] = "joinIdle"
    /\ pc["idle"] = "done"
    /\ pc' = [pc EXCEPT !["main"] = "snapshot"]
    /\ UNCHANGED <<table, objects, arg, held, local, rxFd, sweep, snapshot, wire, reply>>

LiveStreamsAndNulls == {streams[k] : k \in Keys}

\* The values of streams_.
LiveStreams == {streams[k] : k \in Keys} \ {None}

\* Under mu_: the streams move to the snapshot, the tables are cleared.
StopSnapshot ==
    /\ pc["main"] = "snapshot"
    /\ snapshot' = LiveStreams
    /\ streams' = [k \in Keys |-> None]
    /\ perClient' = [c \in Clients |-> 0]
    /\ pc' = [pc EXCEPT !["main"] = "teardown"]
    /\ UNCHANGED <<recent, objects, arg, held, local, rxFd, sweep, wire, reply>>

StopClose(s) ==
    /\ pc["main"] = "teardown"
    /\ s \in snapshot
    /\ closed' = [closed EXCEPT ![s] = TRUE]
    /\ ShutFd(s)
    /\ held' = [held EXCEPT !["main"] = s]
    /\ snapshot' = snapshot \ {s}
    /\ pc' = [pc EXCEPT !["main"] = "joinRx"]
    /\ UNCHANGED <<table, keyOf, stale, handle, arg, local, rxFd, sweep, wire, reply>>

StopJoinRx ==
    /\ pc["main"] = "joinRx"
    /\ EndJoinable("main", held["main"])
    /\ held' = [held EXCEPT !["main"] = None]
    /\ pc' = [pc EXCEPT !["main"] = "teardown"]
    /\ UNCHANGED <<table, keyOf, fd, closed, stale, sock, arg, local, rxFd,
                   sweep, snapshot, wire, reply>>

StopReturn ==
    /\ pc["main"] = "teardown"
    /\ snapshot = {}
    /\ pc' = [pc EXCEPT !["main"] = "stopped"]
    /\ UNCHANGED <<table, objects, arg, held, local, rxFd, sweep, snapshot, wire, reply>>

-----------------------------------------------------------------------------
(* Time *)

\* idle_timeout_sec passes without activity on a registered Stream s.
AgeStream(s) ==
    /\ Registered(s) /\ ~stale[s]
    /\ SlowOpen \/ local # s \/ pc["handler"] \notin {"ack", "spawn"}
    /\ stale' = [stale EXCEPT ![s] = TRUE]
    /\ UNCHANGED <<table, keyOf, fd, closed, handle, sock, pc, arg, held, local,
                   rxFd, sweep, snapshot, wire, reply>>

\* kRecentlyClosedGraceMs passes.
AgeRecent(k) ==
    /\ k \in recent
    /\ recent' = recent \ {k}
    /\ UNCHANGED <<streams, perClient, objects, pc, arg, held, local, rxFd,
                   sweep, snapshot, wire, reply>>

-----------------------------------------------------------------------------
Close(t) ==
    CloseAbsent(t) \/ CloseErase(t) \/ CloseMark(t) \/ CloseShut(t) \/ CloseJoin(t)

\* A request arrives: a choice of the environment.
Request ==
    \/ OpenRefuse \/ DataTooLarge
    \/ \E k \in Keys : \/ OpenAdmit(k)
                       \/ DataUnknown(k) \/ DataFound(k)
                       \/ HandleClose(k)

\* getaddrinfo with connect, and ::send, return.
HandlerReturns ==
    \/ OpenFail
    \/ \E s \in Streams, n \in FDs : OpenRegister(s, n)
    \/ DataSent \/ DataSendFails \/ DataSendKills

HandlerRuns == OpenAck \/ OpenSpawn \/ OpenSpawnThrows \/ DataCheck \/ Close("handler")

HandlerStep == HandlerReturns \/ HandlerRuns

RxStep(s) == RxLoad(s) \/ RxData(s) \/ RxEof(s) \/ Close(s)

MonitorStep ==
    MonitorScan \/ (\E k \in Keys : MonitorClose(k)) \/ MonitorLoop \/ Close("idle")

StopStep ==
    \/ StopRuntime \/ StopTransport \/ StopJoinIdle \/ StopSnapshot
    \/ \E s \in Streams : StopClose(s)
    \/ StopJoinRx \/ StopReturn

Age == (\E s \in Streams : AgeStream(s)) \/ (\E k \in Keys : AgeRecent(k))

Next ==
    /\ ~Killed
    /\ \/ Request \/ HandlerStep
       \/ \E s \in Streams : RxStep(s)
       \/ MonitorStep
       \/ StopBegin \/ StopStep
       \/ Age

Spec == Init /\ [][Next]_vars

(* Fairness: a thread that computes, sleeps, waits for mu_ or for a thread that
   has ended goes on.  recv is only sure to return once its descriptor has been
   shut down.  getaddrinfo, connect and ::send get no fairness: nothing bounds
   them but the resolver and the peer (connect has kTcpConnectTimeoutMs, for each
   address).  The scheduler thread tests running_ between two calls of run(0.05),
   so requests that keep coming do not hold up its exit (strong fairness of
   StopTransport).  Requests, the shutdown signal, incoming bytes and time are
   the environment's. *)
Fairness ==
    /\ WF_vars(~Killed /\ HandlerRuns)
    /\ WF_vars(~Killed /\ MonitorStep)
    /\ WF_vars(~Killed /\ StopStep)
    /\ SF_vars(StopTransport)
    /\ \A s \in Streams :
        /\ WF_vars(~Killed /\ (RxLoad(s) \/ Close(s)))
        /\ WF_vars(~Killed /\ RxDead(s) /\ RxEof(s))

FairSpec == Spec /\ Fairness

-----------------------------------------------------------------------------
(* Properties *)

\* The tables, the Stream objects and each thread's position and locals have the
\* types the class declares; stop()'s snapshot holds Streams, never a null.
TypeOK ==
    /\ streams \in [Keys -> Streams \cup {None}]
    /\ perClient \in [Clients -> Nat]
    /\ recent \subseteq Keys
    /\ keyOf \in [Streams -> Keys \cup {None}]
    /\ fd \in [Streams -> FDs \cup {None}]
    /\ closed \in [Streams -> BOOLEAN]
    /\ stale \in [Streams -> BOOLEAN]
    /\ handle \in [Streams -> {"empty", "joinable", "detached", "joined"}]
    /\ sock \in [FDs -> Streams \cup {None}]
    /\ DOMAIN pc = Threads
    /\ pc["handler"] \in {"ready", "connect", "ack", "spawn", "data", "send",
                          "erase", "mark", "shut", "join", "done"}
    /\ pc["idle"] \in {"sleep", "sweep", "erase", "mark", "shut", "join", "done"}
    /\ pc["main"] \in {"run", "stopping", "joinHandler", "joinIdle", "snapshot",
                       "teardown", "joinRx", "stopped", "killed"}
    /\ \A s \in Streams : pc[s] \in {"unborn", "loop", "recv", "erase", "mark",
                                     "shut", "join", "done"}
    /\ arg \in [{"handler", "idle"} -> Keys \cup {None}]
    /\ held \in [Threads -> Streams \cup {None}]
    /\ local \in Streams \cup {None}
    /\ rxFd \in [Streams -> FDs \cup {None}]
    /\ sweep \subseteq Keys
    /\ snapshot \subseteq Streams
    /\ acked \in [Streams -> BOOLEAN]
    /\ closes \in [Streams -> Nat]
    /\ reply \in {"free", "owed", "sent"}

\* No client ever has more than max_streams registered streams, although the
\* check of streams_per_client_ and its increment in handleOpen are two
\* critical sections with DNS and connect in between.
StreamLimit == \A c \in Clients : Cardinality(KeysOf(c)) <= MaxStreams

\* streams_per_client_ counts exactly the registered streams of the client: no
\* interleaving of opens and closes makes a client lose or gain capacity.
CountExact == \A c \in Clients : perClient[c] = Cardinality(KeysOf(c))

\* Erasing the entry hands a Stream to one thread: no two threads are in the
\* teardown part of closeStream or stop() for the same Stream, so its
\* rx_thread is never joined or detached twice and its fd is closed once.
OneCloser ==
    \A t \in Threads : held[t] # None =>
        /\ ~Registered(held[t])
        /\ held[t] \notin snapshot
        /\ \A u \in Threads \ {t} : held[u] # held[t]

\* A Stream that no StreamPtr refers to any more is destroyed; its rx_thread
\* must not be joinable then, or ~std::thread() calls terminate().
NoTerminate ==
    \A s \in Streams : handle[s] = "joinable" => Referenced(s)

\* A descriptor number in use belongs to a Stream that is registered, or that
\* some thread is about to shut: no path of open or close leaks a socket.
NoFdLeak ==
    \A n \in FDs : sock[n] # None =>
        LET s == sock[n] IN
        /\ fd[s] = n
        /\ \/ Registered(s)
           \/ s \in snapshot
           \/ \E t \in Threads : held[t] = s /\ pc[t] \in {"mark", "shut"}

\* closeStream "removes stream and notifies client": once its teardown is over,
\* a Stream that was closed while the node runs has had exactly one CLOSE.
CloseNotifiedOnce ==
    \A s \in Streams :
        /\ closes[s] <= 1
        /\ (Up /\ Allocated(s) /\ ~Registered(s) /\
              \A t \in Threads : held[t] = s => pc[t] = "join")
           => closes[s] = 1

\* On the wire the OPEN ACK of a stream comes before its CLOSE.
AckPrecedesClose == \A s \in Streams : closes[s] > 0 => acked[s]

\* While the transport is up the handler never returns from an OPEN or CLOSE
\* request without having sent a frame for it (each answers an ADNL query).
RequestsAnswered == (pc["handler"] = "ready" /\ Up) => reply # "owed"

\* When stop() has returned (and the node is about to be destroyed) the only
\* rx_threads still running are those that tear down their own Stream: stop()
\* and closeStream wait for every other one, and these have detached or are
\* about to.
OnlyDetachingOutlive ==
    pc["main"] = "stopped" =>
        \A s \in Streams : pc[s] \in {"unborn", "done"} \/ held[s] = s

\* An rx_thread never receives from another stream's connection: the number it
\* has loaded denotes its own connection or none.
OwnConnection ==
    \A s \in Streams : pc[s] = "recv" => RxDead(s) \/ sock[rxFd[s]] = s

\* As long as its Stream has not been marked closed, an rx_thread in recv waits
\* on its own, open connection: closed is set before the descriptor goes, so a
\* number that changes hands between the load of stream->fd and recv (the case
\* OwnConnection is about) is always one of a Stream that is being torn down.
OwnWhileOpen ==
    \A s \in Streams :
        pc[s] = "recv" /\ ~closed[s] => rxFd[s] = fd[s] /\ sock[rxFd[s]] = s

\* Whoever joins an rx_thread, in closeStream or stop(), has marked the Stream
\* closed, and if the rx_thread is in recv, the number it waits on is dead: the
\* join does not wait for bytes from a peer.  This holds for the handler and for
\* stop() because no OPEN can be handled while they join.  The monitor has no such
\* protection: the next OPEN may be given the number it has just closed, and then
\* the rx_thread waits on the connection of another Stream.
JoinWakes ==
    \A t \in Threads :
        (pc[t] \in {"join", "joinRx"} /\ held[t] # t) =>
            /\ closed[held[t]]
            /\ pc[held[t]] = "recv" =>
                 \/ RxDead(held[t])
                 \/ t \notin {"handler", "main"} /\ sock[rxFd[held[t]]] # held[t]

(* What can hold a thread up for ever. *)

\* The monitor joins an rx_thread whose number has changed hands before its recv,
\* and which so waits for the bytes or the end of another stream's connection.
MonitorStuck ==
    pc["idle"] = "join" /\ pc[held["idle"]] = "recv" /\ ~RxDead(held["idle"])

\* getaddrinfo, connect or ::send does not return.
HandlerStuck == pc["handler"] \in {"connect", "send"}

StopStuck == \/ pc["main"] = "joinHandler" /\ HandlerStuck
             \/ pc["main"] = "joinIdle" /\ MonitorStuck

\* A registered stream that stays idle is closed by the monitor, or by stop(),
\* unless the monitor stays in a join of an rx_thread whose number has changed
\* hands, or stop() waits for a handler that is stuck.  A handler that is stuck
\* while the node runs does not keep the monitor from closing streams.
IdleEventuallyClosed ==
    \/ <>[](MonitorStuck \/ StopStuck \/ Killed)
    \/ \A s \in Streams :
          (Registered(s) /\ stale[s]) ~> (~Registered(s) \/ ~stale[s])

\* The scheduler thread comes back from every request unless it stays in
\* getaddrinfo, connect or ::send: closeStream comes back on it, also when the
\* rx_thread it joins is itself on its way into closeStream.
RequestReturns ==
    \/ <>[]HandlerStuck
    \/ []<>(pc["handler"] \in {"ready", "done"} \/ Killed)

\* stop() returns unless the scheduler thread or the monitor is stuck: no join in
\* it waits for a thread that waits for it.
StopReturns ==
    \/ <>[]StopStuck
    \/ (~Running) ~> (pc["main"] \in {"stopped", "killed"})
=============================================================================
