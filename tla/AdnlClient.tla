------------------------------- MODULE AdnlClient -------------------------------
(***************************************************************************)
(* The client's ADNL runtime (ton_adnl_client_backend.cpp) under its two   *)
(* users: the Android library, where NativeTonTransport.initialize makes   *)
(* the runtime through JNI (ton_transport.cpp) once per process, and the   *)
(* Windows program, where DirectAdnlBackend makes one per session and      *)
(* destroys it on stop.  host says which of the two this behaviour is.     *)
(*                                                                         *)
(* A runtime is a number.  Its scheduler thread runs init_adnl_udp, then   *)
(* lets the Adnl actor take the messages posted to it, then shuts down.    *)
(* The Adnl actor itself belongs to the TON library: a box of messages     *)
(* taken in order, and the set of calls it has already carried out.        *)
(***************************************************************************)
EXTENDS Naturals, Sequences

CONSTANTS
    Callers,        \* Android threads bringing a VPN service up
    Senders,        \* relay threads, which call sendPacket
    Configs,        \* transport configurations met: see Config
    MaxRuntimes,    \* bound: runtimes made in one process
    MaxBox,         \* bound: messages waiting for the Adnl actor
    MaxQueue,       \* bound: packets waiting in the receive queue
    MaxArrived,     \* bound: packets received in one process
    None            \* no configuration yet

\* A configuration is what becomes of its three strings.
Config == [egress : BOOLEAN,    \* parse_egress accepts egress_adnl_address
           named : BOOLEAN,     \* its host is a name, to be resolved
           key : BOOLEAN,       \* client_private_key is one PrivateKey::import reads
           advertise : {"usable", "name", "unusable"}]

ASSUME BoundsAssumption ==
    {MaxRuntimes, MaxBox, MaxQueue, MaxArrived} \subseteq Nat \ {0}

ASSUME SetsAssumption ==
    /\ Configs \subseteq Config
    /\ None \notin Configs \cup Callers
    /\ "main" \notin Callers

VARIABLES
    host,           \* "android" or "desktop"
    rt,             \* the runtimes: TonAdnlClientRuntime
    made,           \* how many were created
    box,            \* messages posted to each runtime's Adnl actor
    done,           \* the configuration calls that actor has carried out
    ctx,            \* gContext / g_adnlHandle: a runtime or 0
    started,        \* gNativeReady / g_adnlStarted
    queue,          \* gInboundQueue / g_adnlInboundQueue: the runtime of each packet
    arrived,        \* packets the Adnl actor handed to receive_message
    ptr,            \* nativeContextPtr
    pending,        \* gPendingAddress and the other strings of configureAdnlPeer
    runtimeConfig,  \* NativeTonTransport.runtimeConfig, which has the token
    receiving,      \* the receiver loop runs
    lock,           \* holder of the monitor of NativeTonTransport
    want,           \* configuration a caller of initialize passes
    new,            \* context being made by a thread
    pc,             \* place of each caller and of the Windows main thread
    serving,        \* the local SOCKS server accepts connections
    at,             \* place of each sender
    hold            \* the runtime a sender read

vars == <<host, rt, made, box, done, ctx, started, queue, arrived, ptr,
          pending, runtimeConfig, receiving, lock, want, new, pc, serving, at, hold>>

Runtimes == 1..MaxRuntimes
Threads == Callers \cup {"main"}
--------------------------------------------------------------------------------
(* Configuration values. *)

\* The key in its TL form or as 32 bytes, in hex: normalize_private_key_for_import
\* turns both into what PrivateKey::import reads, and nothing else.
Imports(c) == c.key

\* Nothing to advertise, or an IPv4 address other than 0.0.0.0 and 127.0.0.1
Advertises(c) == c.advertise = "usable"

\* What the Android service lets through to initialize; the Windows program
\* only asks for a key and an egress address.
Validated(c) == c.egress /\ c.advertise # "unusable"
--------------------------------------------------------------------------------
(* The runtime. *)

\* The places of init_adnl_udp on the scheduler thread, each with the next; past
\* the last the thread enters its loop.
After == [parse |-> "create", create |-> "key", key |-> "peer", peer |-> "advertise",
          advertise |-> "addId", addId |-> "addPeer", addPeer |-> "subscribe",
          subscribe |-> "ready", ready |-> "loop"]

Calls == {"addId", "addPeer", "subscribe"}

NoRuntime == [cfg |-> None, callback |-> FALSE, running |-> FALSE, ready |-> FALSE,
              adnl |-> FALSE, thread |-> "off", deleted |-> FALSE]

Init ==
    /\ host \in {"android", "desktop"}
    /\ rt = [h \in Runtimes |-> NoRuntime]
    /\ made = 0
    /\ box = [h \in Runtimes |-> <<>>]
    /\ done = [h \in Runtimes |-> {}]
    /\ ctx = 0
    /\ started = FALSE
    /\ queue = <<>>
    /\ arrived = 0
    /\ ptr = 0
    /\ pending = None
    /\ runtimeConfig = None
    /\ receiving = FALSE
    /\ lock = None
    /\ want = [c \in Threads |-> None]
    /\ new = 0
    /\ pc = [t \in Threads |-> "idle"]
    /\ serving = FALSE
    /\ at = [s \in Senders |-> "gone"]
    /\ hold = [s \in Senders |-> 0]

hostVars == <<host, ctx, started, ptr, pending, runtimeConfig, receiving, lock, want, new, pc, serving>>
senderVars == <<at, hold>>
queueVars == <<queue, arrived>>
runtimeVars == <<rt, made, box, done>>

\* init_adnl_udp goes on, or logs an error, leaves ready_ false and returns.
Proceed(h, ok) ==
    rt' = [rt EXCEPT ![h].thread = IF ok THEN After[@] ELSE "loop",
                     ![h].ready = @ /\ ok]

\* The checks: parse_egress, the key's import, the resolution of the egress
\* host (which may fail for a name) and the host to advertise.
InitCheck(h) ==
    /\ LET c == rt[h].cfg IN
       \/ rt[h].thread = "parse" /\ Proceed(h, c.egress)
       \/ rt[h].thread = "key" /\ Proceed(h, Imports(c))
       \/ rt[h].thread = "peer" /\ Proceed(h, TRUE)
       \/ rt[h].thread = "peer" /\ c.named /\ Proceed(h, FALSE)
       \/ rt[h].thread = "advertise" /\ Proceed(h, Advertises(c))
    /\ UNCHANGED <<made, box, done>>

\* Keyring, network manager and Adnl are created: adnl_ is no longer empty.
InitCreate(h) ==
    /\ rt[h].thread = "create"
    /\ rt' = [rt EXCEPT ![h].thread = After[@], ![h].adnl = TRUE]
    /\ UNCHANGED <<made, box, done>>

\* add_id, add_peer and subscribe are posted.
InitCall(h) ==
    /\ rt[h].thread \in Calls
    /\ box' = [box EXCEPT ![h] = Append(@, rt[h].thread)]
    /\ rt' = [rt EXCEPT ![h].thread = After[@]]
    /\ UNCHANGED <<made, done>>

InitReady(h) ==
    /\ rt[h].thread = "ready"
    /\ rt' = [rt EXCEPT ![h].thread = After[@], ![h].ready = TRUE]
    /\ UNCHANGED <<made, box, done>>

\* The thread's loop: while running_ is set, one more scheduler_->run(0.05).
Slice(h) ==
    /\ \/ rt[h].thread = "loop" /\ rt[h].running /\ rt' = [rt EXCEPT ![h].thread = "run"]
       \/ rt[h].thread = "run" /\ rt' = [rt EXCEPT ![h].thread = "loop"]
    /\ UNCHANGED <<made, box, done>>

\* In scheduler_->run the Adnl actor takes its next message.
Take(h) ==
    /\ rt[h].thread = "run"
    /\ box[h] # <<>>
    /\ box' = [box EXCEPT ![h] = Tail(@)]
    /\ done' = [done EXCEPT ![h] = @ \cup ({Head(box[h])} \cap Calls)]
    /\ UNCHANGED <<rt, made>>

\* A packet of the peer, also after running_ was cleared and until the slice is
\* over: receive_message, emit_inbound and onAdnlMessage, which queues it;
\* without a callback it is dropped.
Arrive(h) ==
    /\ rt[h].thread = "run"
    /\ Calls \subseteq done[h]
    /\ arrived < MaxArrived /\ Len(queue) < MaxQueue
    /\ arrived' = arrived + 1
    /\ queue' = IF rt[h].callback THEN Append(queue, h) ELSE queue
    /\ UNCHANGED <<runtimeVars, hostVars, senderVars>>

\* Variant: a runtime that did not become ready initialises again instead.
ShutdownRetries(h) ==
    /\ rt[h].thread = "loop" /\ ~rt[h].running
    /\ rt' = [rt EXCEPT ![h].ready = FALSE, ![h].adnl = FALSE,
                        ![h].thread = IF rt[h].ready THEN "ended" ELSE "parse"]
    /\ UNCHANGED <<made, box, done>>

\* The loop sees running_ cleared; shutdown_adnl_udp runs and the thread ends.
Shutdown(h) ==
    /\ rt[h].thread = "loop" /\ ~rt[h].running
    /\ rt' = [rt EXCEPT ![h].ready = FALSE, ![h].adnl = FALSE, ![h].thread = "ended"]
    /\ UNCHANGED <<made, box, done>>

Scheduler(h) ==
    /\ \/ InitCheck(h) \/ InitCreate(h) \/ InitCall(h) \/ InitReady(h)
       \/ Slice(h) \/ Take(h) \/ Shutdown(h)
    /\ UNCHANGED <<hostVars, senderVars, queueVars>>
--------------------------------------------------------------------------------
(* The C API, as changes of the runtimes. *)

\* ton_adnl_client_create and ton_adnl_client_set_on_message
Create(h, cfg) ==
    /\ made' = h
    /\ rt' = [rt EXCEPT ![h] = [NoRuntime EXCEPT !.cfg = cfg, !.callback = TRUE]]

\* ton_adnl_client_start: never fails, init runs on the new thread
StartRuntime(h) ==
    rt' = [rt EXCEPT ![h].running = TRUE, ![h].thread = "parse"]

\* ton_adnl_client_stop up to the join
StopRuntime(h) == rt' = [rt EXCEPT ![h].running = FALSE]

\* The join, the end of the scheduler and ton_adnl_client_destroy
Joined(h) == rt[h].thread \in {"off", "ended"}

Destroy(h) ==
    /\ rt' = [rt EXCEPT ![h].deleted = TRUE]
    /\ box' = [box EXCEPT ![h] = <<>>]
--------------------------------------------------------------------------------
(* Android: NativeTonTransport.initialize and initAdnlContext. *)

\* Variant: every call keeps its configuration.
CallOverwrites(c) ==
    /\ host = "android" /\ pc[c] = "idle"
    /\ \E cfg \in {d \in Configs : Validated(d)} :
          IF ptr # 0
          THEN serving' = TRUE /\ runtimeConfig' = cfg /\ UNCHANGED <<pc, want>>
          ELSE /\ pc' = [pc EXCEPT ![c] = "enter"]
               /\ want' = [want EXCEPT ![c] = cfg]
               /\ UNCHANGED <<serving, runtimeConfig>>
    /\ UNCHANGED <<host, pending, runtimeVars, ctx, started, ptr, receiving, lock,
                   new, queueVars, senderVars>>

\* initialize: a context pointer already there is returned without the lock.
Call(c) ==
    /\ host = "android" /\ pc[c] = "idle"
    /\ \E cfg \in {d \in Configs : Validated(d)} :
          IF ptr # 0
          THEN serving' = TRUE /\ UNCHANGED <<pc, want>>
          ELSE /\ pc' = [pc EXCEPT ![c] = "enter"]
               /\ want' = [want EXCEPT ![c] = cfg]
               /\ UNCHANGED serving
    /\ UNCHANGED <<host, pending, runtimeVars, ctx, started, ptr, runtimeConfig, receiving, lock,
                   new, queueVars, senderVars>>

\* The monitor is entered and the pointer read again.
Enter(c) ==
    /\ pc[c] = "enter" /\ lock = None
    /\ IF ptr = 0
       THEN /\ pc' = [pc EXCEPT ![c] = "configure"]
            /\ lock' = c
            /\ UNCHANGED serving
       ELSE /\ pc' = [pc EXCEPT ![c] = "idle"]
            /\ serving' = TRUE
            /\ UNCHANGED lock
    /\ UNCHANGED <<host, pending, runtimeVars, ctx, started, ptr, runtimeConfig, receiving, want,
                   new, queueVars, senderVars>>

\* configureAdnlPeer stores the caller's strings; initAdnlContext stops the
\* runtime of an earlier context, if there is one.
Configure(c) ==
    /\ pc[c] = "configure"
    /\ pending' = want[c]
    /\ IF ctx = 0 THEN UNCHANGED rt ELSE StopRuntime(ctx)
    /\ pc' = [pc EXCEPT ![c] = "replace"]
    /\ UNCHANGED <<host, made, box, done, ctx, started, ptr, runtimeConfig, receiving, lock,
                   want, new, serving, queueVars, senderVars>>

Replace(c) ==
    /\ pc[c] = "replace"
    /\ IF ctx = 0 THEN UNCHANGED <<rt, box>> ELSE Joined(ctx) /\ Destroy(ctx)
    /\ ctx' = 0
    /\ pc' = [pc EXCEPT ![c] = "create"]
    /\ UNCHANGED <<host, pending, made, done, started, ptr, runtimeConfig, receiving, lock,
                   want, new, serving, queueVars, senderVars>>

\* The runtime is made with its callback; when there is no memory for it
\* initAdnlContext returns 0.
CreateContext(c) ==
    /\ pc[c] = "create" /\ made < MaxRuntimes
    /\ Create(made + 1, pending)
    /\ new' = made + 1
    /\ pc' = [pc EXCEPT ![c] = "start"]
    /\ UNCHANGED <<host, pending, box, done, ctx, started, ptr, runtimeConfig, receiving, lock,
                   want, serving, queueVars, senderVars>>

CreateFails(c) ==
    /\ pc[c] = "create"
    /\ started' = FALSE
    /\ lock' = None
    /\ pc' = [pc EXCEPT ![c] = "idle"]
    /\ UNCHANGED <<host, pending, runtimeVars, ctx, ptr, runtimeConfig, receiving,
                   want, new, serving, queueVars, senderVars>>

StartContext(c) ==
    /\ pc[c] = "start"
    /\ StartRuntime(new)
    /\ pc' = [pc EXCEPT ![c] = "publish"]
    /\ UNCHANGED <<host, pending, made, box, done, ctx, started, ptr, runtimeConfig, receiving, lock,
                   want, new, serving, queueVars, senderVars>>

\* gContext and gNativeReady
Publish(c) ==
    /\ pc[c] = "publish"
    /\ ctx' = new
    /\ started' = TRUE
    /\ pc' = [pc EXCEPT ![c] = "assign"]
    /\ UNCHANGED <<host, pending, runtimeVars, ptr, runtimeConfig, receiving, lock,
                   want, new, serving, queueVars, senderVars>>

\* nativeContextPtr: from here on other callers return without the lock.
Assign(c) ==
    /\ pc[c] = "assign"
    /\ ptr' = new
    /\ pc' = [pc EXCEPT ![c] = "record"]
    /\ UNCHANGED <<host, pending, runtimeVars, ctx, started, runtimeConfig, receiving, lock,
                   want, new, serving, queueVars, senderVars>>

\* runtimeConfig, startReceiverLoop and the return
Record(c) ==
    /\ pc[c] = "record"
    /\ runtimeConfig' = want[c]
    /\ receiving' = TRUE
    /\ lock' = None
    /\ serving' = TRUE
    /\ pc' = [pc EXCEPT ![c] = "idle"]
    /\ UNCHANGED <<host, pending, runtimeVars, ctx, started, ptr, want, new, queueVars, senderVars>>

Initialize(c) ==
    \/ Enter(c) \/ Configure(c) \/ Replace(c) \/ CreateContext(c) \/ CreateFails(c)
    \/ StartContext(c) \/ Publish(c) \/ Assign(c) \/ Record(c)
--------------------------------------------------------------------------------
(* Windows: startTunnel and stopCore, from the SOCKS server's stop on. *)

\* Start, with a configuration, or Stop; both begin with stopCore, which closes
\* the SOCKS server to new connections.
Press ==
    /\ host = "desktop" /\ pc["main"] = "idle"
    /\ \E cfg \in Configs \cup {None} : want' = [want EXCEPT !["main"] = cfg]
    /\ serving' = FALSE
    /\ pc' = [pc EXCEPT !["main"] = "joinSenders"]
    /\ UNCHANGED <<host, pending, runtimeVars, ctx, started, ptr, runtimeConfig, receiving, lock,
                   new, queueVars, senderVars>>

\* Variant: the workers are not waited for.
JoinReceiverOnly ==
    /\ pc["main"] = "joinSenders"
    /\ receiving' = FALSE
    /\ pc' = [pc EXCEPT !["main"] = IF ctx = 0 THEN "clearAgain" ELSE "clear"]
    /\ UNCHANGED <<host, pending, runtimeVars, ctx, started, ptr, runtimeConfig, lock,
                   want, new, serving, queueVars, senderVars>>

\* The SOCKS workers, each of which has to end, and the core's receiver thread
\* are joined; the core, if there is one, then drops its backend.
JoinSenders ==
    /\ pc["main"] = "joinSenders"
    /\ \A s \in Senders : at[s] = "gone"
    /\ receiving' = FALSE
    /\ pc' = [pc EXCEPT !["main"] = IF ctx = 0 THEN "clearAgain" ELSE "clear"]
    /\ UNCHANGED <<host, pending, runtimeVars, ctx, started, ptr, runtimeConfig, lock,
                   want, new, serving, queueVars, senderVars>>

\* ~DirectAdnlBackend: its stop() clears the receive queue
Clear ==
    /\ pc["main"] = "clear"
    /\ started' = FALSE
    /\ queue' = <<>>
    /\ pc' = [pc EXCEPT !["main"] = "stop"]
    /\ UNCHANGED <<host, pending, runtimeVars, ctx, ptr, runtimeConfig, receiving, lock,
                   want, new, serving, arrived, senderVars>>

\* and tells the runtime to stop,
StopHandle ==
    /\ pc["main"] = "stop"
    /\ StopRuntime(ctx)
    /\ pc' = [pc EXCEPT !["main"] = "join"]
    /\ UNCHANGED <<host, pending, made, box, done, ctx, started, ptr, runtimeConfig, receiving, lock,
                   want, new, serving, queueVars, senderVars>>

\* which joins the scheduler thread; the runtime is deleted.
Join ==
    /\ pc["main"] = "join"
    /\ Joined(ctx) /\ Destroy(ctx)
    /\ ctx' = 0
    /\ pc' = [pc EXCEPT !["main"] = "clearAgain"]
    /\ UNCHANGED <<host, pending, made, done, started, ptr, runtimeConfig, receiving, lock,
                   want, new, serving, queueVars, senderVars>>

\* Variant: the queue is only cleared by the backend.
ClearOnce ==
    /\ pc["main"] = "clearAgain"
    /\ started' = FALSE
    /\ pc' = [pc EXCEPT !["main"] = IF want["main"] = None THEN "idle" ELSE "create"]
    /\ UNCHANGED <<host, pending, runtimeVars, ctx, ptr, runtimeConfig, receiving, lock,
                   want, new, serving, queueVars, senderVars>>

\* stopCore clears the queue itself, of what came while the runtime stopped.
ClearAgain ==
    /\ pc["main"] = "clearAgain"
    /\ started' = FALSE
    /\ queue' = <<>>
    /\ pc' = [pc EXCEPT !["main"] = IF want["main"] = None THEN "idle" ELSE "create"]
    /\ UNCHANGED <<host, pending, runtimeVars, ctx, ptr, runtimeConfig, receiving, lock,
                   want, new, serving, arrived, senderVars>>

\* DirectAdnlBackend::start
CreateHandle ==
    /\ pc["main"] = "create"
    /\ \/ /\ made < MaxRuntimes
          /\ Create(made + 1, want["main"])
          /\ ctx' = made + 1
          /\ pc' = [pc EXCEPT !["main"] = "start"]
       \/ /\ pc' = [pc EXCEPT !["main"] = "idle"]
          /\ UNCHANGED <<rt, made, ctx>>
    /\ UNCHANGED <<host, pending, box, done, started, ptr, runtimeConfig, receiving, lock,
                   want, new, serving, queueVars, senderVars>>

StartHandle ==
    /\ pc["main"] = "start"
    /\ StartRuntime(ctx)
    /\ pc' = [pc EXCEPT !["main"] = "up"]
    /\ UNCHANGED <<host, pending, made, box, done, ctx, started, ptr, runtimeConfig, receiving, lock,
                   want, new, serving, queueVars, senderVars>>

\* g_adnlStarted, then the core and the SOCKS server are started; when the
\* server has no port stopCore is called again.
Up ==
    /\ pc["main"] = "up"
    /\ started' = TRUE
    /\ receiving' = TRUE
    /\ \/ serving' = TRUE /\ pc' = [pc EXCEPT !["main"] = "idle"] /\ UNCHANGED want
       \/ /\ pc' = [pc EXCEPT !["main"] = "joinSenders"]
          /\ want' = [want EXCEPT !["main"] = None]
          /\ UNCHANGED serving
    /\ UNCHANGED <<host, pending, runtimeVars, ctx, ptr, runtimeConfig, lock,
                   new, queueVars, senderVars>>

Main ==
    \/ JoinSenders \/ Clear \/ StopHandle \/ Join \/ ClearAgain
    \/ CreateHandle \/ StartHandle \/ Up
--------------------------------------------------------------------------------
(* Sending and receiving. *)

\* A connection's relay thread begins while the SOCKS server accepts, and ends
\* when the connection does, not when the server is told to stop.
Worker(s) ==
    /\ \/ at[s] = "gone" /\ serving /\ at' = [at EXCEPT ![s] = "idle"]
       \/ at[s] = "idle" /\ at' = [at EXCEPT ![s] = "gone"]
    /\ UNCHANGED <<runtimeVars, hostVars, queueVars, hold>>

\* sendPacket, sendPacketDirect: refused without a context, else the context
\* read is used for the call.
Check(s) ==
    /\ at[s] = "idle"
    /\ started /\ ctx # 0
    /\ hold' = [hold EXCEPT ![s] = ctx]
    /\ at' = [at EXCEPT ![s] = "send"]
    /\ UNCHANGED <<runtimeVars, hostVars, queueVars>>

\* TonAdnlClientRuntime::send: refused before ready_; a DATA frame without
\* payload counts as sent and is dropped.
Refuse(s) ==
    /\ at[s] = "send"
    /\ ~rt[hold[s]].ready \/ ~rt[hold[s]].adnl
    /\ at' = [at EXCEPT ![s] = "idle"]
    /\ UNCHANGED <<runtimeVars, hostVars, queueVars, hold>>

\* Variant: an Adnl that exists is enough.
AcceptUnready(s) ==
    /\ at[s] = "send"
    /\ rt[hold[s]].adnl
    /\ \E payload \in BOOLEAN : at' = [at EXCEPT ![s] = IF payload THEN "post" ELSE "idle"]
    /\ UNCHANGED <<runtimeVars, hostVars, queueVars, hold>>

Accept(s) ==
    /\ at[s] = "send"
    /\ rt[hold[s]].ready /\ rt[hold[s]].adnl
    /\ \E payload \in BOOLEAN : at' = [at EXCEPT ![s] = IF payload THEN "post" ELSE "idle"]
    /\ UNCHANGED <<runtimeVars, hostVars, queueVars, hold>>

\* run_in_context posts Adnl::send_message.
Post(s) ==
    /\ at[s] = "post"
    /\ Len(box[hold[s]]) < MaxBox
    /\ box' = [box EXCEPT ![hold[s]] = Append(@, "send")]
    /\ at' = [at EXCEPT ![s] = "idle"]
    /\ UNCHANGED <<rt, made, done, hostVars, queueVars, hold>>

Sender(s) == Refuse(s) \/ Accept(s) \/ Post(s)

\* receivePacket, called by the one receiver loop; a packet for which the JVM
\* has no array is lost.
ReceivePacket ==
    /\ receiving /\ started /\ ctx # 0
    /\ queue # <<>>
    /\ queue' = Tail(queue)
    /\ UNCHANGED <<runtimeVars, hostVars, senderVars, arrived>>

Next ==
    \/ \E h \in Runtimes : Scheduler(h) \/ Arrive(h)
    \/ \E c \in Callers : Call(c) \/ Initialize(c)
    \/ Press \/ Main
    \/ \E s \in Senders : Worker(s) \/ Check(s) \/ Sender(s)
    \/ ReceivePacket

\* The scheduler thread is in the resolver, which answers when it likes.
Resolving(h) == rt[h].thread = "peer" /\ rt[h].cfg.named

\* The scheduler thread outside the resolver and the Windows main thread go on
\* when they can; a worker need not end, and nobody has to call, press or send.
Fairness ==
    /\ \A h \in Runtimes : WF_vars(~Resolving(h) /\ Scheduler(h))
    /\ WF_vars(Main)

Spec == Init /\ [][Next]_vars /\ Fairness
--------------------------------------------------------------------------------
(* Properties. *)

Runtime ==
    [cfg : Configs \cup {None}, callback : BOOLEAN, running : BOOLEAN, ready : BOOLEAN,
     adnl : BOOLEAN, thread : {"off", "loop", "run", "ended"} \cup DOMAIN After, deleted : BOOLEAN]

\* Places of initialize, which holds the monitor there, and of the Windows main thread
Critical == {"configure", "replace", "create", "start", "publish", "assign", "record"}

Places == Critical \cup {"idle", "enter", "joinSenders", "clear", "stop", "join", "clearAgain", "up"}

\* Every variable has its type: the state of ton_transport.cpp, of the runtime
\* class and of NativeTonTransport.
TypeOK ==
    /\ host \in {"android", "desktop"}
    /\ rt \in [Runtimes -> Runtime]
    /\ box \in [Runtimes -> Seq(Calls \cup {"send"})]
    /\ done \in [Runtimes -> SUBSET Calls]
    /\ made \in 0..MaxRuntimes /\ ctx \in 0..MaxRuntimes
    /\ ptr \in 0..MaxRuntimes /\ new \in 0..MaxRuntimes
    /\ started \in BOOLEAN /\ receiving \in BOOLEAN /\ serving \in BOOLEAN
    /\ queue \in Seq(Runtimes)
    /\ arrived \in 0..MaxArrived
    /\ pending \in Configs \cup {None}
    /\ runtimeConfig \in Configs \cup {None}
    /\ lock \in Callers \cup {None}
    /\ \A c \in Callers : lock = c <=> pc[c] \in Critical
    /\ want \in [Threads -> Configs \cup {None}]
    /\ pc \in [Threads -> Places]
    /\ at \in [Senders -> {"gone", "idle", "send", "post"}]
    /\ hold \in [Senders -> 0..MaxRuntimes]

\* A frame send() accepted reaches an Adnl actor that has been told the local
\* id, the peer and the subscription before it: ready_ is raised after the
\* calls of init_adnl_udp are posted, and an Adnl left behind by a failed
\* initialisation is never given a frame.
PeerKnownFirst ==
    \A h \in Runtimes : \A i \in 1..Len(box[h]) :
        box[h][i] = "send" => Calls \subseteq done[h] \cup {box[h][j] : j \in 1..(i - 1)}

\* No thread works on a runtime that was destroyed: not a sender between
\* reading the handle and posting its frame, which also finds the Adnl it
\* checked, and not the scheduler thread.  On Android this rests on the second
\* look at nativeContextPtr under the lock, on Windows on stopCore joining the
\* SOCKS workers first.
UsesLiveRuntime ==
    /\ \A s \in Senders :
          /\ at[s] \in {"send", "post"} => ~rt[hold[s]].deleted
          /\ at[s] = "post" => rt[hold[s]].adnl
    /\ \A h \in Runtimes : rt[h].deleted => Joined(h)
    /\ started /\ ctx # 0 => ~rt[ctx].deleted

\* A session only ever finds packets of its own runtime in the receive queue.
\* On Windows the queue outlives the runtimes, and packets come in until the
\* scheduler thread is joined, after the backend has cleared the queue: the
\* second clearing of stopCore is what keeps them from the next session.
PacketsOfRuntime ==
    started /\ ctx # 0 => \A i \in 1..Len(queue) : queue[i] = ctx

\* The token openStream sends belongs to the peer the runtime talks to: of
\* several threads calling initialize with different configurations, the one
\* that made the runtime is the one whose configuration is kept.
TokenOfPeer ==
    runtimeConfig # None => ctx # 0 /\ rt[ctx].cfg = runtimeConfig

\* Once the workers have ended, Start and Stop of the Windows program come to
\* an end, whatever became of the runtime's initialisation, provided the
\* resolver always answers: the scheduler thread cannot be joined before.
StopEnds ==
    (\A h \in Runtimes : []<>~Resolving(h)) => (pc["main"] = "clear" ~> pc["main"] = "idle")
================================================================================
