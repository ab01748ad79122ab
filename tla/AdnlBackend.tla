---------------------------- MODULE AdnlBackend ----------------------------
(***************************************************************************)
(* The ADNL backend of the egress node (ton_adnl_backend.cpp) behind the C *)
(* API that TonTransportAdnl loads (ton_transport_factory.cpp).            *)
(*                                                                         *)
(* The scheduler thread runs the callbacks for messages and queries, which *)
(* hand each frame to the EgressNode; relay threads of the node call       *)
(* sendToClient on their own; the main thread starts and stops.            *)
(***************************************************************************)
EXTENDS FrameFormat

CONSTANTS
    Clients,
    Datagrams,    \* byte sequences a client may send
    Ids,          \* stream ids
    FramesOf(_),  \* the frames onAdnlMessage makes of a datagram: <<type, stream id>>
    Queries,      \* 1..n, used in this order
    Relays,       \* threads of the node that send by themselves
    MaxMessages,  \* bound on the messages received
    MaxSends,     \* bound on the frames the relays send
    None

Types   == {Open, Data, Close, Error}
Threads == Relays \cup {"sched"}
Streams == Clients \X Ids     \* client_id + "#" + stream_id

ASSUME DatagramsAssumption ==
    \A d \in Datagrams :
        /\ FramesOf(d) \in Seq(Types \X Ids)
        /\ Len(d) >= 5 => StreamId(d, 1) \in Ids
        /\ FramesOf(d) # <<>> => FramesOf(d)[1][2] = StreamId(d, 1)

\* The callback in progress, and what is remembered of a query.
Calls == Clients \X Seq(Types \X Ids) \X (Queries \cup {None})
Asks  == (Types \cup {0}) \X (Streams \cup {None})

ASSUME QueriesAssumption == Queries \subseteq Nat
ASSUME RelaysAssumption  == "sched" \notin Relays
ASSUME NoneAssumption    == None \notin Queries \cup Calls \cup Asks

VARIABLES
    main,       \* start and stop: "new", "up", "join", "destroy", "forget", "down"
    handle,     \* TonTransportAdnl's handle: "null", "live", "freed"
    running,    \* running_
    adnl,       \* adnl_: "none", "deaf" when the key could not be imported, "on"
    sched,      \* the scheduler thread: "none", "init", "run", "ended"
    scheduler,  \* scheduler_ has an object
    call,       \* the callback in progress: <<client, frames left, query>>, or None
    known,      \* known_clients_
    pending,    \* pending_query_promises_
    log,        \* what the promise of each query was settled with
    asked,      \* first frame and stream of each query, None before it arrives
    send,       \* sendToClient of each thread: where it is and for which stream
    received,   \* messages received
    sends,      \* frames the relays began to send
    broken      \* a thread used an object that had been deleted

vars == <<main, handle, running, adnl, sched, scheduler, call, known, pending, log, asked, send,
          received, sends, broken>>

Idle    == [at |-> "idle", stream |-> None]

Init ==
    /\ main = "new"  /\ handle = "null"  /\ running = FALSE  /\ adnl = "none"
    /\ sched = "none"  /\ scheduler = FALSE  /\ call = None  /\ known = {}
    /\ pending = [s \in Streams |-> None]
    /\ log     = [q \in Queries |-> <<>>]
    /\ asked   = [q \in Queries |-> None]
    /\ send    = [t \in Threads |-> Idle]
    /\ received = 0  /\ sends = 0  /\ broken = FALSE

(***************************************************************************)
(* Start and stop.                                                         *)
(***************************************************************************)

\* TonTransportAdnl::start: create, set_handler, start.
Start ==
    /\ main = "new"  /\ main' = "up"
    /\ handle' = "live"  /\ running' = TRUE
    /\ sched' = "init"  /\ scheduler' = TRUE
    /\ UNCHANGED <<adnl, call, known, pending, log, asked, send, received, sends, broken>>

\* The library or its symbols are missing, or create fails.
StartFails ==
    /\ main = "new"  /\ main' = "down"
    /\ UNCHANGED <<handle, running, adnl, sched, scheduler, call, known, pending, log, asked, send,
                   received, sends, broken>>

\* init_adnl_runtime: adnl_ exists even when the key is not imported, but
\* then nothing is subscribed.
InitAdnlRuntime ==
    /\ sched = "init"  /\ sched' = "run"
    /\ adnl' \in {"deaf", "on"}
    /\ UNCHANGED <<main, handle, running, scheduler, call, known, pending, log, asked, send,
                   received, sends, broken>>

\* ton_adnl_stop: running_ is cleared, then the scheduler thread is joined.
Stop ==
    /\ main = "up"  /\ main' = "join"
    /\ running' = FALSE
    /\ UNCHANGED <<handle, adnl, sched, scheduler, call, known, pending, log, asked, send,
                   received, sends, broken>>

\* The scheduler loop sees running_ cleared: shutdown_adnl_runtime.
ShutdownAdnlRuntime ==
    /\ sched = "run"  /\ ~running  /\ call = None
    /\ sched' = "ended"
    /\ adnl' = "none"
    /\ UNCHANGED <<main, handle, running, scheduler, call, known, pending, log, asked, send,
                   received, sends, broken>>

StopJoined ==
    /\ main = "join"  /\ sched = "ended"  /\ main' = "destroy"
    /\ scheduler' = FALSE
    /\ UNCHANGED <<handle, running, adnl, sched, call, known, pending, log, asked, send,
                   received, sends, broken>>

DestroyKeepsPromises ==
    /\ main = "destroy"  /\ main' = "forget"
    /\ handle' = "freed"
    /\ pending' = [s \in Streams |-> None]
    /\ UNCHANGED <<running, adnl, sched, scheduler, call, known, log, asked, send, received, sends,
                   broken>>

\* ton_adnl_destroy: a promise that dies with the map is settled with an error.
Destroy ==
    /\ main = "destroy"  /\ main' = "forget"
    /\ handle' = "freed"
    /\ log' = [q \in Queries |-> IF \E s \in Streams : pending[s] = q
                                 THEN Append(log[q], "lost") ELSE log[q]]
    /\ pending' = [s \in Streams |-> None]
    /\ UNCHANGED <<running, adnl, sched, scheduler, call, known, asked, send, received, sends, broken>>

\* TonTransportAdnl::stop clears its pointer last.
Forget ==
    /\ main = "forget"  /\ main' = "down"
    /\ handle' = "null"
    /\ UNCHANGED <<running, adnl, sched, scheduler, call, known, pending, log, asked, send,
                   received, sends, broken>>

(***************************************************************************)
(* Callbacks of the scheduler thread.                                      *)
(***************************************************************************)

CanReceive == sched = "run"  /\ adnl = "on"  /\ call = None

\* on_adnl_message, up to the call of the handler.
ReceiveMessage(c, d) ==
    /\ CanReceive  /\ received < MaxMessages
    /\ received' = received + 1
    /\ known' = known \cup {c}
    /\ call' = <<c, FramesOf(d), None>>
    /\ UNCHANGED <<main, handle, running, adnl, sched, scheduler, pending, log, asked, send, sends,
                   broken>>

NextQuery(q) == asked[q] = None  /\ \A r \in Queries : r < q => asked[r] # None

\* on_adnl_query with fewer than five bytes.
RefuseQuery(q, d) ==
    /\ CanReceive  /\ NextQuery(q)  /\ Len(d) < 5
    /\ asked' = [asked EXCEPT ![q] = <<0, None>>]
    /\ log' = [log EXCEPT ![q] = Append(@, "invalid")]
    /\ UNCHANGED <<main, handle, running, adnl, sched, scheduler, call, known, pending, send,
                   received, sends, broken>>

\* The table of promises in on_adnl_query: a promise that waits for the
\* stream is settled with an error and replaced.
Supersede(q, s) ==
    /\ log' = IF pending[s] = None THEN log
              ELSE [log EXCEPT ![pending[s]] = Append(@, "superseded")]
    /\ pending' = [pending EXCEPT ![s] = q]

ReceiveQuery(q, c, d) ==
    /\ CanReceive  /\ NextQuery(q)  /\ Len(d) >= 5
    /\ LET s  == <<c, StreamId(d, 1)>>
           fs == FramesOf(d)
       IN  /\ asked' = [asked EXCEPT ![q] = <<IF fs = <<>> THEN 0 ELSE fs[1][1], s>>]
           /\ Supersede(q, s)
           /\ call' = <<c, fs, q>>
    /\ known' = known \cup {c}
    /\ UNCHANGED <<main, handle, running, adnl, sched, scheduler, send, received, sends, broken>>

DispatchSilentClose ==
    /\ call # None  /\ send["sched"] = Idle
    /\ IF call[2] = <<>>
       THEN call' = None /\ UNCHANGED send
       ELSE LET f == Head(call[2]) IN
            /\ call' = <<call[1], Tail(call[2]), call[3]>>
            /\ \/ /\ f[1] \in {Open, Data}
                  /\ send' = [send EXCEPT !["sched"] = [at |-> "check", stream |-> <<call[1], f[2]>>]]
               \/ f[1] \in {Close, Data, Error} /\ UNCHANGED send
    /\ UNCHANGED <<main, handle, running, adnl, sched, scheduler, known, pending, log, asked,
                   received, sends, broken>>

\* EgressNode::onAdnlMessage dispatches the next frame.  OPEN and CLOSE are
\* replied to on this thread, DATA only when the stream is not known.
Dispatch ==
    /\ call # None  /\ send["sched"] = Idle
    /\ IF call[2] = <<>>
       THEN call' = None /\ UNCHANGED send
       ELSE LET f == Head(call[2]) IN
            /\ call' = <<call[1], Tail(call[2]), call[3]>>
            /\ \/ /\ f[1] \in {Open, Close, Data}
                  /\ send' = [send EXCEPT !["sched"] = [at |-> "check", stream |-> <<call[1], f[2]>>]]
               \/ f[1] \in {Data, Error} /\ UNCHANGED send
    /\ UNCHANGED <<main, handle, running, adnl, sched, scheduler, known, pending, log, asked,
                   received, sends, broken>>

(***************************************************************************)
(* sendToClient.                                                           *)
(***************************************************************************)

At(t, l)   == send[t].at = l
Move(t, l) == send' = [send EXCEPT ![t] = IF l = "idle" THEN Idle ELSE [@ EXCEPT !.at = l]]

\* A relay thread has a frame for a stream; the pointer is tested first.
RelaySends(t, s) ==
    /\ send[t] = Idle  /\ sends < MaxSends
    /\ handle # "null"
    /\ sends' = sends + 1
    /\ send' = [send EXCEPT ![t] = [at |-> "check", stream |-> s]]
    /\ UNCHANGED <<main, handle, running, adnl, sched, scheduler, call, known, pending, log, asked,
                   received, broken>>

\* From here on the runtime is used; it may have been deleted meanwhile.
SendCheck(t) ==
    /\ At(t, "check")  /\ handle = "live"
    /\ Move(t, IF running /\ adnl # "none" THEN "answer" ELSE "idle")
    /\ UNCHANGED <<main, handle, running, adnl, sched, scheduler, call, known, pending, log, asked,
                   received, sends, broken>>

\* The frame answers the query that waits for its stream.
SendAnswer(t) ==
    /\ At(t, "answer")  /\ handle = "live"
    /\ LET s == send[t].stream IN
       /\ log' = IF pending[s] = None THEN log
                 ELSE [log EXCEPT ![pending[s]] = Append(@, "answer")]
       /\ pending' = [pending EXCEPT ![s] = None]
    /\ Move(t, "lookup")
    /\ UNCHANGED <<main, handle, running, adnl, sched, scheduler, call, known, asked,
                   received, sends, broken>>

\* The client's address, then the message is posted to the scheduler.
SendLookup(t) ==
    /\ At(t, "lookup")  /\ handle = "live"
    /\ Move(t, IF send[t].stream[1] \in known THEN "post" ELSE "idle")
    /\ UNCHANGED <<main, handle, running, adnl, sched, scheduler, call, known, pending, log, asked,
                   received, sends, broken>>

SendPost(t) ==
    /\ At(t, "post")  /\ handle = "live"  /\ scheduler
    /\ Move(t, "idle")
    /\ UNCHANGED <<main, handle, running, adnl, sched, scheduler, call, known, pending, log, asked,
                   received, sends, broken>>

\* A thread inside sendToClient meets the deleted runtime or scheduler; what
\* the program does then is not defined, and the model stops.
UseAfterDelete(t) ==
    /\ ~At(t, "idle")
    /\ handle # "live" \/ (At(t, "post") /\ ~scheduler)
    /\ broken' = TRUE
    /\ UNCHANGED <<main, handle, running, adnl, sched, scheduler, call, known, pending, log, asked,
                   send, received, sends>>

-----------------------------------------------------------------------------
Next ==
    /\ ~broken
    /\ \/ Start \/ StartFails \/ InitAdnlRuntime \/ Stop \/ ShutdownAdnlRuntime
       \/ StopJoined \/ Destroy \/ Forget \/ Dispatch
       \/ \E c \in Clients, d \in Datagrams : ReceiveMessage(c, d)
       \/ \E q \in Queries, d \in Datagrams :
            RefuseQuery(q, d) \/ \E c \in Clients : ReceiveQuery(q, c, d)
       \/ \E t \in Relays, s \in Streams : RelaySends(t, s)
       \/ \E t \in Threads :
            SendCheck(t) \/ SendAnswer(t) \/ SendLookup(t) \/ SendPost(t) \/ UseAfterDelete(t)

Spec == Init /\ [][Next]_vars

-----------------------------------------------------------------------------
\* The types of the variables; a waiting promise is one not settled yet.
TypeOK ==
    /\ main \in {"new", "up", "join", "destroy", "forget", "down"}
    /\ handle \in {"null", "live", "freed"}  /\ adnl \in {"none", "deaf", "on"}
    /\ sched \in {"none", "init", "run", "ended"}
    /\ known \subseteq Clients
    /\ pending \in [Streams -> Queries \cup {None}]
    /\ \A s \in Streams : pending[s] # None => log[pending[s]] = <<>>
    /\ \A t \in Threads : send[t].at \in {"idle", "check", "answer", "lookup", "post"}

\* The backend implements QueryPromise: every query's promise is settled
\* exactly once, by the answer, by the query that takes its place, by the
\* refusal or by the destruction of the runtime.
Promises == INSTANCE QueryPromise WITH
    waiting <- {<<s, pending[s]>> : s \in {r \in Streams : pending[r] # None}},
    settled <- [q \in Queries |-> Len(log[q])],
    open    <- handle # "freed" /\ main # "down"

PromisesKept == Promises!Spec

\* A query whose first frame is a complete OPEN or CLOSE is settled when its
\* callback is over, whatever relay threads send meanwhile, unless the
\* backend is being stopped.
RequestQueriesAnswered ==
    \A q \in Queries :
        /\ asked[q] # None  /\ asked[q][1] \in {Open, Close}
        /\ call = None \/ call[3] # q
        /\ running
        => log[q] # <<>>
=============================================================================
