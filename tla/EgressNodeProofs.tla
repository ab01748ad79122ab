------------------------- MODULE EgressNodeProofs --------------------------
(***************************************************************************)
(* Theorems about EgressNode, for every value of its constants and         *)
(* whatever stream_ids the clients use: types, closeStream and stop() from *)
(* the moment a Stream leaves the table, the answers to requests, and the  *)
(* per-client limit.  Each inductive invariant adds to the property what a *)
(* thread still knows, at its place in the code, of what it read before.   *)
(***************************************************************************)
EXTENDS EgressNode, FiniteSetTheorems, TLAPS

\* What the locals of a thread hold at each place: a key where a lookup
\* follows, a Stream with a key where its rx_thread is about to be started.
Locals ==
    /\ pc["handler"] \in {"connect", "data", "send", "erase"} => arg["handler"] \in Keys
    /\ pc["handler"] \in {"ack", "spawn"} => local \in Streams /\ keyOf[local] \in Keys
    /\ pc["idle"] = "erase" => arg["idle"] \in Keys
    /\ \A s \in Streams : pc[s] # "unborn" => keyOf[s] \in Keys

TypeInv == TypeOK /\ Locals

\* The threads that call closeStream.
Closers == {"handler", "idle"} \cup Streams

\* The names of the node's own threads differ from each other and from Streams.
LEMMA ThreadsDistinct ==
    /\ "handler" \notin Streams /\ "idle" \notin Streams /\ "main" \notin Streams
    /\ "handler" \in Threads /\ "idle" \in Threads /\ "main" \in Threads
    /\ Streams \subseteq Threads /\ Closers \subseteq Threads
    /\ None \notin Keys /\ None \notin Streams /\ None \notin FDs
BY SetsAssumption, Zenon DEF Threads, Closers

\* start() leaves a well-typed state.
LEMMA TypeInit == Init => TypeInv
<1> SUFFICES ASSUME Init PROVE TypeInv
  BY Zenon
<1> USE ThreadsDistinct
<1>1. TypeOK
  BY Zenon DEF Init, TypeOK, Threads
<1>2. Locals
  BY Zenon DEF Init, Locals, Threads
<1> QED
  BY <1>1, <1>2, Zenon DEF TypeInv

\* Every step keeps the types and sets the locals the next step needs.
LEMMA TypeNext == TypeInv /\ [Next]_vars => TypeInv'
<1> SUFFICES ASSUME TypeInv, [Next]_vars PROVE TypeInv'
  BY Zenon
<1> USE ThreadsDistinct DEF TypeInv, TypeOK, Locals, table, objects, wire
<1>1. CASE OpenRefuse BY <1>1, Zenon DEF OpenRefuse
<1>2. ASSUME NEW k \in Keys, OpenAdmit(k) PROVE TypeInv' BY <1>2, Zenon DEF OpenAdmit
<1>3. CASE OpenFail BY <1>3, Zenon DEF OpenFail, Forget, Answered
<1>4. ASSUME NEW s \in Streams, NEW n \in FDs, OpenRegister(s, n) PROVE TypeInv'
  BY <1>4 DEF OpenRegister, StartOf, Keys
<1>5. CASE OpenAck BY <1>5 DEF OpenAck, Answered, Up
<1>6. CASE OpenSpawn BY <1>6, Zenon DEF OpenSpawn, Forget
<1>7. CASE OpenSpawnThrows BY <1>7, Zenon DEF OpenSpawnThrows, Forget, Answered
<1>8. CASE DataTooLarge BY <1>8, Zenon DEF DataTooLarge
<1>9. ASSUME NEW k \in Keys, DataUnknown(k) PROVE TypeInv' BY <1>9, Zenon DEF DataUnknown
<1>10. ASSUME NEW k \in Keys, DataFound(k) PROVE TypeInv' BY <1>10, Zenon DEF DataFound
<1>11. CASE DataCheck BY <1>11 DEF DataCheck, Forget, Answered
<1>12. CASE DataSent BY <1>12, Zenon DEF DataSent, Forget
<1>13. CASE DataSendFails BY <1>13, Zenon DEF DataSendFails
<1>13a. CASE DataSendKills BY <1>13a, Zenon DEF DataSendKills
<1>14. ASSUME NEW k \in Keys, HandleClose(k) PROVE TypeInv' BY <1>14, Zenon DEF HandleClose
<1>15. ASSUME NEW t \in Closers, CloseAbsent(t) PROVE TypeInv'
  BY <1>15 DEF CloseAbsent, Target, Forget, Resume, Answered, Closers
<1>16. ASSUME NEW t \in Closers, CloseErase(t) PROVE TypeInv'
  <2>1. /\ Target(t) \in Keys /\ Target(t)[1] \in Clients
        /\ streams[Target(t)] \in Streams
    BY <1>16, Zenon DEF CloseErase, Target, Closers, Keys
  <2>2. perClient' \in [Clients -> Nat]
    BY <1>16, <2>1 DEF CloseErase, Unregister
  <2> QED
    BY <1>16, <2>1, <2>2, Zenon DEF CloseErase, Unregister, Closers
<1>17. ASSUME NEW t \in Closers, CloseMark(t) PROVE TypeInv'
  BY <1>17, Zenon DEF CloseMark, Closers
<1>18. ASSUME NEW t \in Closers, CloseShut(t) PROVE TypeInv'
  <2>1. closes' \in [Streams -> Nat]
    <3>1. \/ closes' = [closes EXCEPT ![held[t]] = @ + 1]
          \/ closes' = closes
      BY <1>18, Zenon DEF CloseShut, NotifyClosed
    <3>2. closes \in [Streams -> Nat] /\ held[t] \in Streams \cup {None}
      BY Zenon DEF Closers
    <3> HIDE DEF TypeInv, TypeOK, Locals
    <3> QED
      BY <3>1, <3>2
  <2>2. fd' \in [Streams -> FDs \cup {None}] /\ sock' \in [FDs -> Streams \cup {None}]
    BY <1>18, Zenon DEF CloseShut, ShutFd
  <2> QED
    BY <1>18, <2>1, <2>2, Zenon DEF CloseShut, Answered, Closers
<1>19. ASSUME NEW t \in Closers, CloseJoin(t) PROVE TypeInv'
  BY <1>19 DEF CloseJoin, EndJoinable, Forget, Resume, Closers
<1>20. ASSUME NEW s \in Streams, RxLoad(s) PROVE TypeInv' BY <1>20 DEF RxLoad
<1>21. ASSUME NEW s \in Streams, RxData(s) PROVE TypeInv' BY <1>21, Zenon DEF RxData
<1>22. ASSUME NEW s \in Streams, RxEof(s) PROVE TypeInv' BY <1>22, Zenon DEF RxEof
<1>23. CASE MonitorScan BY <1>23, Zenon DEF MonitorScan, StaleKeys
<1>24. ASSUME NEW k \in Keys, MonitorClose(k) PROVE TypeInv' BY <1>24, Zenon DEF MonitorClose
<1>25. CASE MonitorLoop BY <1>25, Zenon DEF MonitorLoop
<1>26. CASE StopBegin BY <1>26, Zenon DEF StopBegin
<1>27. CASE StopRuntime BY <1>27, Zenon DEF StopRuntime
<1>28. CASE StopTransport BY <1>28, Zenon DEF StopTransport
<1>29. CASE StopJoinIdle BY <1>29, Zenon DEF StopJoinIdle
<1>30. CASE StopSnapshot BY <1>30 DEF StopSnapshot, LiveStreams
<1>31. ASSUME NEW s \in Streams, StopClose(s) PROVE TypeInv'
  BY <1>31, Zenon DEF StopClose, ShutFd
<1>32. CASE StopJoinRx BY <1>32, Zenon DEF StopJoinRx, EndJoinable
<1>33. CASE StopReturn BY <1>33, Zenon DEF StopReturn
<1>34. ASSUME NEW s \in Streams, AgeStream(s) PROVE TypeInv' BY <1>34 DEF AgeStream
<1>35. ASSUME NEW k \in Keys, AgeRecent(k) PROVE TypeInv' BY <1>35 DEF AgeRecent
<1>36. CASE UNCHANGED vars BY <1>36 DEF vars
<1> QED
  BY <1>1, <1>2, <1>3, <1>4, <1>5, <1>6, <1>7, <1>8, <1>9, <1>10, <1>11, <1>12,
     <1>13, <1>13a, <1>14, <1>15, <1>16, <1>17, <1>18, <1>19, <1>20, <1>21, <1>22,
     <1>23, <1>24, <1>25, <1>26, <1>27, <1>28, <1>29, <1>30, <1>31, <1>32,
     <1>33, <1>34, <1>35, <1>36, Zenon
  DEF Next, Request, HandlerStep, HandlerReturns, HandlerRuns, RxStep, MonitorStep, StopStep, Age, Close, Closers

\* The type invariant holds in every reachable state of the egress node, for
\* any clients, ids, limits and environment: no thread ever looks up, erases
\* or joins through a local that was not set on its path through the code.
THEOREM TypeCorrect == Spec => []TypeOK
<1>1. TypeInv => TypeOK
  BY Zenon DEF TypeInv
<1> QED
  BY <1>1, TypeInit, TypeNext, PTL DEF Spec

\* The part of the types that the proofs about Stream objects use.
ObjectTypes ==
    /\ streams \in [Keys -> Streams \cup {None}]
    /\ keyOf \in [Streams -> Keys \cup {None}]
    /\ stale \in [Streams -> BOOLEAN]
    /\ handle \in [Streams -> {"empty", "joinable", "detached", "joined"}]
    /\ DOMAIN pc = Threads
    /\ arg \in [{"handler", "idle"} -> Keys \cup {None}]
    /\ held \in [Threads -> Streams \cup {None}]
    /\ local \in Streams \cup {None}
    /\ sweep \subseteq Keys /\ snapshot \subseteq Streams

\* It is part of the type invariant, before and after a step.
LEMMA TypesOfObjects == (TypeInv => ObjectTypes /\ Locals) /\ (TypeInv' => ObjectTypes' /\ Locals')
BY Zenon DEF TypeInv, TypeOK, ObjectTypes

-----------------------------------------------------------------------------
(* Ownership of Stream objects *)

\* A Stream is registered under its own key only; every Stream that a thread or
\* the snapshot holds has a key, and the snapshot holds unregistered ones.
Ownership ==
    /\ \A k \in Keys : streams[k] # None => keyOf[streams[k]] = k
    /\ \A t \in Threads : held[t] # None => Allocated(held[t])
    /\ \A s \in snapshot : Allocated(s) /\ ~Registered(s)
    /\ OneCloser

OwnInv == TypeInv /\ Ownership

\* The steps that change who owns a Stream.
LEMMA OwnerSteps ==
    ASSUME [Next]_vars
    PROVE  \/ UNCHANGED <<streams, perClient, keyOf, held, snapshot>>
           \/ \E s \in Streams, n \in FDs : OpenRegister(s, n)
           \/ \E t \in Closers : CloseErase(t) \/ CloseJoin(t)
           \/ StopSnapshot \/ StopJoinRx
           \/ \E s \in Streams : StopClose(s)
<1> DEFINE Same == UNCHANGED <<streams, perClient, keyOf, held, snapshot>>
<1> USE DEF table, objects, wire
<1>1. CASE Request
  BY <1>1, Zenon DEF Request, OpenRefuse, OpenAdmit, DataTooLarge, DataUnknown, DataFound, HandleClose
<1>2. ASSUME NEW t \in Closers, Close(t)
      PROVE  Same \/ CloseErase(t) \/ CloseJoin(t)
  BY <1>2, Zenon DEF Close, CloseAbsent, CloseMark, CloseShut
<1>3. CASE HandlerStep
  BY <1>2, <1>3, Zenon DEF HandlerStep, HandlerReturns, HandlerRuns, OpenFail, OpenAck, OpenSpawn, OpenSpawnThrows,
                    DataCheck, DataSent, DataSendFails,
                    DataSendKills, Closers
<1>4. ASSUME NEW s \in Streams, RxStep(s)
      PROVE  Same \/ CloseErase(s) \/ CloseJoin(s)
  BY <1>2, <1>4, Zenon DEF RxStep, RxLoad, RxData, RxEof, Closers
<1>5. CASE MonitorStep
  BY <1>2, <1>5, Zenon DEF MonitorStep, MonitorScan, MonitorClose, MonitorLoop, Closers
<1>6. CASE StopBegin \/ StopStep
  BY <1>6, Zenon DEF StopBegin, StopStep, StopRuntime, StopTransport, StopJoinIdle, StopReturn
<1>7. CASE Age
  BY <1>7, Zenon DEF Age, AgeStream, AgeRecent
<1>8. CASE UNCHANGED vars
  BY <1>8, Zenon DEF vars
<1> QED
  BY <1>1, <1>3, <1>4, <1>5, <1>6, <1>7, <1>8, Zenon DEF Next, Closers

\* Nothing is owned when the node starts.
LEMMA OwnInit == Init => OwnInv
BY TypeInit, ThreadsDistinct DEF Init, OwnInv, Ownership, OneCloser, Threads

\* Every step keeps a Stream with one owner: table, snapshot or one thread.
LEMMA OwnNext == OwnInv /\ [Next]_vars => OwnInv'
<1> SUFFICES ASSUME OwnInv, [Next]_vars PROVE Ownership'
  BY TypeNext, Zenon DEF OwnInv
<1>0. ObjectTypes /\ Locals /\ ObjectTypes'
  BY TypeNext, TypesOfObjects, Zenon DEF OwnInv
<1> USE ThreadsDistinct DEF Ownership, OneCloser, Registered, Allocated
<1>1. CASE UNCHANGED <<streams, perClient, keyOf, held, snapshot>>
  BY <1>0, <1>1, Zenon DEF OwnInv
<1>2. ASSUME NEW s \in Streams, NEW n \in FDs, OpenRegister(s, n) PROVE Ownership'
  <2>1. arg["handler"] \in Keys
    BY <1>0, <1>2, Zenon DEF Locals, OpenRegister
  <2> QED
    BY <1>0, <1>2, <2>1 DEF OwnInv, OpenRegister, ObjectTypes
<1>3. ASSUME NEW t \in Closers, CloseErase(t) PROVE Ownership'
  <2>1. Target(t) \in Keys
    BY <1>0, <1>3, Zenon DEF CloseErase, Target, Closers, ObjectTypes, Locals
  <2> QED
    BY <1>0, <1>3, <2>1 DEF OwnInv, CloseErase, Unregister, objects, ObjectTypes
<1>4. ASSUME NEW t \in Closers, CloseJoin(t) PROVE Ownership'
  BY <1>0, <1>4, Zenon DEF OwnInv, CloseJoin, table, ObjectTypes
<1>5. CASE StopSnapshot
  BY <1>0, <1>5 DEF OwnInv, StopSnapshot, LiveStreams, objects, ObjectTypes
<1>6. CASE StopJoinRx
  BY <1>0, <1>6, Zenon DEF OwnInv, StopJoinRx, table, ObjectTypes
<1>7. ASSUME NEW s \in Streams, StopClose(s) PROVE Ownership'
  BY <1>0, <1>7 DEF OwnInv, StopClose, table, ObjectTypes
<1> QED
  BY <1>1, <1>2, <1>3, <1>4, <1>5, <1>6, <1>7, OwnerSteps, Zenon

\* No Stream is ever torn down by two threads, whatever ids clients use and
\* however open, close, idle timeout, EOF and shutdown interleave: erasing the
\* entry under mu_ in closeStream, or taking it into stop()'s snapshot, passes
\* the Stream to exactly one thread.
THEOREM SingleTeardown == Spec => []OneCloser
<1>1. OwnInv => OneCloser
  BY Zenon DEF OwnInv, Ownership
<1> QED
  BY <1>1, OwnInit, OwnNext, PTL DEF Spec

\* Only OpenAdmit brings the handler to the connect phase, and while it is
\* there no other thread touches its key.
LEMMA ConnectSteps ==
    ASSUME TypeInv, [Next]_vars, pc'["handler"] = "connect"
    PROVE  \/ \E k \in Keys : OpenAdmit(k)
           \/ pc["handler"] = "connect" /\ arg'["handler"] = arg["handler"]
<1>0. ObjectTypes
  BY TypesOfObjects, Zenon
<1> USE <1>0, ThreadsDistinct DEF ObjectTypes
<1> DEFINE Goal == \/ \E k \in Keys : OpenAdmit(k)
                   \/ pc["handler"] = "connect" /\ arg'["handler"] = arg["handler"]
<1>1. CASE Request
  BY <1>1, Zenon DEF Request, OpenRefuse, DataTooLarge, DataUnknown, DataFound, HandleClose
<1>2. ASSUME NEW t \in Closers, Close(t) PROVE Goal
  BY <1>2, Zenon DEF Close, CloseAbsent, CloseErase, CloseMark, CloseShut, CloseJoin,
              Forget, Resume, Closers
<1>3. CASE HandlerStep
  BY <1>2, <1>3, Zenon DEF HandlerStep, HandlerReturns, HandlerRuns, OpenFail, OpenRegister, StartOf, OpenAck, OpenSpawn,
                    OpenSpawnThrows, DataCheck, DataSent, DataSendFails,
                    DataSendKills, Closers
<1>4. ASSUME NEW s \in Streams, RxStep(s) PROVE Goal
  <2>1. CASE RxLoad(s) BY <2>1, SMTT(30), ZenonT(30) DEF RxLoad
  <2>2. CASE RxData(s) \/ RxEof(s) BY <2>2, Zenon DEF RxData, RxEof
  <2>3. CASE Close(s) BY <1>2, <2>3, Zenon DEF Closers
  <2> QED BY <1>4, <2>1, <2>2, <2>3, Zenon DEF RxStep
<1>5. CASE MonitorStep
  BY <1>2, <1>5, Zenon DEF MonitorStep, MonitorScan, MonitorClose, MonitorLoop, Closers
<1>6. CASE StopBegin \/ StopStep
  BY <1>6, Zenon DEF StopBegin, StopStep, StopRuntime, StopTransport, StopJoinIdle,
              StopSnapshot, StopClose, StopJoinRx, StopReturn
<1>7. CASE Age
  BY <1>7, Zenon DEF Age, AgeStream, AgeRecent
<1>8. CASE UNCHANGED vars
  BY <1>8, Zenon DEF vars
<1> QED
  BY <1>1, <1>3, <1>4, <1>5, <1>6, <1>7, <1>8, Zenon DEF Next

-----------------------------------------------------------------------------
(* Places of the threads *)

\* What the place of each thread says about the objects: a closer holds a Stream
\* from erase to join only, the snapshot is filled during teardown only, the
\* handler outlives the first phase of stop(), the rx_thread of the Stream being
\* opened does not exist yet, and a Stream that was never registered is as it
\* was allocated.
Phases ==
    /\ \A t \in Closers : pc[t] \notin {"mark", "shut", "join"} => held[t] = None
    /\ pc["main"] # "joinRx" => held["main"] = None
    /\ pc["main"] \notin {"teardown", "joinRx"} => snapshot = {}
    /\ pc["handler"] # "done" => pc["main"] \in {"run", "stopping", "joinHandler", "killed"}
    /\ pc["handler"] \in {"ack", "spawn"} => pc[local] = "unborn" /\ handle[local] = "empty"
    /\ \A s \in Streams :
          ~Allocated(s) => ~stale[s] /\ handle[s] = "empty" /\ pc[s] = "unborn"

PhaseInv == OwnInv /\ Phases

\* No Stream exists when the node starts.
LEMMA PhaseInit == Init => PhaseInv
BY OwnInit, ThreadsDistinct DEF Init, PhaseInv, Phases, Closers, Threads, Allocated

\* Every step keeps the phase of a Stream and of its rx_thread in agreement.
LEMMA PhaseNext == PhaseInv /\ [Next]_vars => PhaseInv'
<1> SUFFICES ASSUME PhaseInv, [Next]_vars PROVE Phases'
  BY OwnNext, Zenon DEF PhaseInv
<1>0. OwnInv /\ ObjectTypes /\ Locals /\ Phases
  BY TypesOfObjects, Zenon DEF PhaseInv, OwnInv
<1> USE <1>0, ThreadsDistinct DEF Phases, Locals, Allocated, Closers, ObjectTypes, table, objects, wire
<1>1. CASE OpenRefuse \/ DataTooLarge \/ \E k \in Keys : OpenAdmit(k)
  <2>1. CASE OpenRefuse BY <2>1, Zenon DEF OpenRefuse
  <2>2. CASE DataTooLarge BY <2>2, Zenon DEF DataTooLarge
  <2>3. ASSUME NEW k \in Keys, OpenAdmit(k) PROVE Phases' BY <2>3, Zenon DEF OpenAdmit
  <2> QED BY <1>1, <2>1, <2>2, <2>3, Zenon
<1>2. CASE \E k \in Keys : DataUnknown(k) \/ DataFound(k) \/ HandleClose(k)
  <2>1. ASSUME NEW k \in Keys, DataUnknown(k) PROVE Phases' BY <2>1, Zenon DEF DataUnknown
  <2>2. ASSUME NEW k \in Keys, DataFound(k) PROVE Phases' BY <2>2, Zenon DEF DataFound
  <2>3. ASSUME NEW k \in Keys, HandleClose(k) PROVE Phases' BY <2>3, Zenon DEF HandleClose
  <2> QED BY <1>2, <2>1, <2>2, <2>3, Zenon
<1>3. CASE OpenFail \/ OpenAck \/ OpenSpawnThrows
  <2>1. CASE OpenFail BY <2>1, Zenon DEF OpenFail
  <2>3. CASE OpenSpawnThrows BY <2>3, Zenon DEF OpenSpawnThrows
  <2>2. CASE OpenAck BY <2>2, Zenon DEF OpenAck
  <2> QED BY <1>3, <2>1, <2>2, <2>3, Zenon
<1>4. ASSUME NEW s \in Streams, NEW n \in FDs, OpenRegister(s, n) PROVE Phases'
  <2>1. arg["handler"] \in Keys
    BY <1>4, Zenon DEF Locals, OpenRegister
  <2> QED
    BY <1>4, <2>1, Zenon DEF OpenRegister, StartOf, Locals
<1>5. CASE OpenSpawn
  <2>1. local \in Streams /\ keyOf[local] # None /\ pc["handler"] = "spawn"
    BY <1>5, Zenon DEF OpenSpawn, Locals
  <2>2. \A t \in Threads : pc'[t] = IF t = "handler" THEN "ready"
                                    ELSE IF t = local THEN "loop" ELSE pc[t]
    BY <1>5, <2>1, Zenon DEF OpenSpawn
  <2>3. /\ \A s \in Streams : s # local => handle'[s] = handle[s]
        /\ UNCHANGED <<keyOf, stale, held, snapshot>>
    BY <1>5, Zenon DEF OpenSpawn
  <2> QED
    BY <2>1, <2>2, <2>3
<1>6. CASE DataCheck \/ DataSent \/ DataSendFails \/ DataSendKills
  <2>1. CASE DataCheck BY <2>1, Zenon DEF DataCheck
  <2>2. CASE DataSent BY <2>2, SMTT(30), ZenonT(30) DEF DataSent
  <2>3. CASE DataSendFails BY <2>3, Zenon DEF DataSendFails
  <2>4. CASE DataSendKills BY <2>4, Zenon DEF DataSendKills
  <2> QED BY <1>6, <2>1, <2>2, <2>3, <2>4, Zenon
<1>7. ASSUME NEW t \in Closers, CloseAbsent(t) PROVE Phases'
  BY <1>7, Zenon DEF CloseAbsent, Resume, Forget
<1>8. ASSUME NEW t \in Closers, CloseErase(t) PROVE Phases'
  BY <1>8, Zenon DEF CloseErase, Locals
<1>9. ASSUME NEW t \in Closers, CloseMark(t) PROVE Phases'
  BY <1>9, Zenon DEF CloseMark, Locals
<1>10. ASSUME NEW t \in Closers, CloseShut(t) PROVE Phases'
  BY <1>10, Zenon DEF CloseShut, Locals
<1>11. ASSUME NEW t \in Closers, CloseJoin(t) PROVE Phases'
  BY <1>11, SMTT(30) DEF CloseJoin, EndJoinable, Resume, Forget, OwnInv, Ownership
<1>12. ASSUME NEW s \in Streams, RxLoad(s) \/ RxData(s) \/ RxEof(s) PROVE Phases'
  <2>1. CASE RxLoad(s) BY <2>1, Zenon DEF RxLoad
  <2>2. CASE RxData(s) BY <2>2, Zenon DEF RxData
  <2>3. CASE RxEof(s) BY <2>3, Zenon DEF RxEof
  <2> QED BY <1>12, <2>1, <2>2, <2>3, Zenon
<1>13. CASE MonitorScan \/ MonitorLoop \/ \E k \in Keys : MonitorClose(k)
  <2>1. CASE MonitorScan BY <2>1, Zenon DEF MonitorScan
  <2>2. CASE MonitorLoop BY <2>2, Zenon DEF MonitorLoop
  <2>3. ASSUME NEW k \in Keys, MonitorClose(k) PROVE Phases' BY <2>3, Zenon DEF MonitorClose
  <2> QED BY <1>13, <2>1, <2>2, <2>3, Zenon
<1>14. CASE StopBegin \/ StopRuntime \/ StopTransport \/ StopJoinIdle \/ StopReturn
  <2>1. CASE StopBegin BY <2>1, Zenon DEF StopBegin, Running
  <2>2. CASE StopRuntime BY <2>2, Zenon DEF StopRuntime
  <2>3. CASE StopTransport BY <2>3, Zenon DEF StopTransport
  <2>4. CASE StopJoinIdle BY <2>4, Zenon DEF StopJoinIdle
  <2>5. CASE StopReturn BY <2>5, Zenon DEF StopReturn
  <2> QED BY <1>14, <2>1, <2>2, <2>3, <2>4, <2>5, Zenon
<1>15. CASE StopSnapshot
  BY <1>15, Zenon DEF StopSnapshot
<1>16. ASSUME NEW s \in Streams, StopClose(s) PROVE Phases'
  BY <1>16, Zenon DEF StopClose
<1>17. CASE StopJoinRx
  BY <1>17, Zenon DEF StopJoinRx, EndJoinable, OwnInv, Ownership
<1>18. CASE Age
  <2>1. ASSUME NEW s \in Streams, AgeStream(s) PROVE Phases'
    BY <2>1, Zenon DEF AgeStream, Registered
  <2>2. ASSUME NEW k \in Keys, AgeRecent(k) PROVE Phases'
    BY <2>2, Zenon DEF AgeRecent
  <2> QED BY <1>18, <2>1, <2>2, Zenon DEF Age
<1>19. CASE UNCHANGED vars
  BY <1>19, Zenon DEF vars
<1> QED
  BY <1>1, <1>2, <1>3, <1>4, <1>5, <1>6, <1>7, <1>8, <1>9, <1>10, <1>11, <1>12,
     <1>13, <1>14, <1>15, <1>16, <1>17, <1>18, <1>19, Zenon
  DEF Next, Request, HandlerStep, HandlerReturns, HandlerRuns, RxStep, MonitorStep, StopStep, Close

\* Which steps make a Stream stale, touch an rx_thread handle, give the monitor
\* a key to close, and bring the handler to the end of handleOpen.
LEMMA StepEffects ==
    ASSUME TypeInv, [Next]_vars
    PROVE  /\ \A s \in Streams : stale'[s] => stale[s] \/ AgeStream(s)
           /\ UNCHANGED handle \/ OpenSpawn \/ (\E t \in Closers : CloseJoin(t)) \/ StopJoinRx
           /\ \/ /\ UNCHANGED sweep
                 /\ pc'["idle"] = "erase" => pc["idle"] = "erase" /\ arg'["idle"] = arg["idle"]
              \/ MonitorScan \/ \E k \in Keys : MonitorClose(k)
           /\ pc'["handler"] \in {"ack", "spawn"} =>
                \/ \E s \in Streams, n \in FDs : OpenRegister(s, n)
                \/ pc["handler"] \in {"ack", "spawn"} /\ local' = local
<1> DEFINE Effects ==
      /\ \A s \in Streams : stale'[s] => stale[s] \/ AgeStream(s)
      /\ UNCHANGED handle \/ OpenSpawn \/ (\E t \in Closers : CloseJoin(t)) \/ StopJoinRx
      /\ \/ /\ UNCHANGED sweep
            /\ pc'["idle"] = "erase" => pc["idle"] = "erase" /\ arg'["idle"] = arg["idle"]
         \/ MonitorScan \/ \E k \in Keys : MonitorClose(k)
      /\ pc'["handler"] \in {"ack", "spawn"} =>
           \/ \E s \in Streams, n \in FDs : OpenRegister(s, n)
           \/ pc["handler"] \in {"ack", "spawn"} /\ local' = local
<1>0. /\ DOMAIN pc = Threads
      /\ arg \in [{"handler", "idle"} -> Keys \cup {None}]
      /\ stale \in [Streams -> BOOLEAN]
  BY Zenon DEF TypeInv, TypeOK
<1> USE <1>0, ThreadsDistinct DEF table, objects, wire
<1>1. CASE Request
  BY <1>1, Zenon DEF Request, OpenRefuse, OpenAdmit, DataTooLarge, DataUnknown, DataFound, HandleClose
<1>2. ASSUME NEW t \in Closers, Close(t) PROVE Effects
  <2>1. CASE CloseAbsent(t) BY <2>1, Zenon DEF CloseAbsent, Forget, Resume, Closers
  <2>2. CASE CloseErase(t) BY <2>2, Zenon DEF CloseErase, Closers
  <2>3. CASE CloseMark(t) BY <2>3, Zenon DEF CloseMark, Closers
  <2>4. CASE CloseShut(t) BY <2>4, Zenon DEF CloseShut, Closers
  <2>5. CASE CloseJoin(t)
    <3>1. UNCHANGED <<stale, sweep>>
      BY <2>5, Zenon DEF CloseJoin
    <3>2. /\ pc'["idle"] = "erase" => pc["idle"] = "erase" /\ arg'["idle"] = arg["idle"]
          /\ pc'["handler"] \in {"ack", "spawn"} =>
               pc["handler"] \in {"ack", "spawn"} /\ local' = local
      BY <2>5, Zenon DEF CloseJoin, Forget, Resume, Closers
    <3> QED
      BY <2>5, <3>1, <3>2, Zenon
  <2> QED
    BY <1>2, <2>1, <2>2, <2>3, <2>4, <2>5, Zenon DEF Close
<1>3. CASE HandlerStep
  <2>1. CASE OpenFail BY <2>1, Zenon DEF OpenFail, Forget
  <2>a. CASE OpenAck BY <2>a, Zenon DEF OpenAck
  <2>b. CASE OpenSpawnThrows BY <2>b, Zenon DEF OpenSpawnThrows, Forget
  <2>2. ASSUME NEW s \in Streams, NEW n \in FDs, OpenRegister(s, n) PROVE Effects
    <3>1. UNCHANGED <<stale, handle, sweep, arg>> /\ pc'["idle"] = pc["idle"]
      BY <2>2, Zenon DEF OpenRegister, StartOf
    <3> QED
      BY <2>2, <3>1, Zenon
  <2>3. CASE OpenSpawn
    BY <2>3, Zenon DEF OpenSpawn, Forget
  <2>4. CASE DataCheck BY <2>4, Zenon DEF DataCheck, Forget
  <2>c. CASE DataSent BY <2>c, Zenon DEF DataSent, Forget
  <2>d. CASE DataSendFails \/ DataSendKills BY <2>d, Zenon DEF DataSendFails, DataSendKills
  <2> QED
    BY <1>2, <1>3, <2>1, <2>2, <2>3, <2>4, <2>a, <2>b, <2>c, <2>d, Zenon DEF HandlerStep, HandlerReturns, HandlerRuns, Closers
<1>4. ASSUME NEW s \in Streams, RxStep(s) PROVE Effects
  <2>1. CASE RxLoad(s) \/ RxEof(s) BY <2>1, Zenon DEF RxLoad, RxEof
  <2>2. CASE RxData(s) BY <2>2, Zenon DEF RxData
  <2>3. CASE Close(s) BY <1>2, <2>3, Zenon DEF Closers
  <2> QED
    BY <1>4, <2>1, <2>2, <2>3, Zenon DEF RxStep
<1>5. CASE MonitorStep
  <2>1. CASE MonitorScan BY <2>1, Zenon DEF MonitorScan
  <2>2. ASSUME NEW k \in Keys, MonitorClose(k) PROVE Effects
    <3>1. UNCHANGED <<stale, handle, local>> /\ pc'["handler"] = pc["handler"]
      BY <2>2, Zenon DEF MonitorClose
    <3> QED
      BY <2>2, <3>1, Zenon
  <2>3. CASE MonitorLoop BY <2>3, Zenon DEF MonitorLoop
  <2> QED
    BY <1>2, <1>5, <2>1, <2>2, <2>3, Zenon DEF MonitorStep, Closers
<1>6. CASE StopBegin \/ StopStep
  <2>1. CASE StopBegin \/ StopRuntime \/ StopTransport \/ StopJoinIdle \/ StopReturn
    BY <2>1, Zenon DEF StopBegin, StopRuntime, StopTransport, StopJoinIdle, StopReturn
  <2>2. CASE StopSnapshot \/ StopJoinRx \/ \E s \in Streams : StopClose(s)
    BY <2>2, Zenon DEF StopSnapshot, StopClose, StopJoinRx
  <2> QED
    BY <1>6, <2>1, <2>2, Zenon DEF StopStep
<1>7. CASE Age
  <2>1. ASSUME NEW s \in Streams, AgeStream(s) PROVE Effects
    <3>1. \A u \in Streams : stale'[u] => stale[u] \/ u = s
      BY <2>1, Zenon DEF AgeStream
    <3>2. UNCHANGED <<handle, sweep, pc, arg, local>>
      BY <2>1, Zenon DEF AgeStream
    <3> QED
      BY <2>1, <3>1, <3>2, Zenon
  <2>2. ASSUME NEW k \in Keys, AgeRecent(k) PROVE Effects
    BY <2>2, Zenon DEF AgeRecent
  <2> QED
    BY <1>7, <2>1, <2>2, Zenon DEF Age
<1>8. CASE UNCHANGED vars
  BY <1>8, Zenon DEF vars
<1> QED
  BY <1>1, <1>3, <1>4, <1>5, <1>6, <1>7, <1>8, Zenon DEF Next

-----------------------------------------------------------------------------
(* Closing a Stream *)

\* The places in closeStream and stop() between taking a Stream out of the
\* table (or the snapshot) and letting go of it.
Tearing == {"mark", "shut", "join", "joinRx"}

\* `closed' is set once, by the thread that has taken the Stream, and the
\* descriptor is gone before that thread waits for the rx_thread.
Closing ==
    /\ \A s \in Streams : closed[s] =>
          /\ Allocated(s) /\ ~Registered(s) /\ s \notin snapshot
          /\ \A t \in Threads : held[t] = s => pc[t] # "mark"
    /\ \A t \in Threads : pc[t] \in Tearing => held[t] \in Streams
    /\ \A t \in Threads : pc[t] \in {"shut", "join", "joinRx"} => closed[held[t]]
    /\ \A t \in Threads : pc[t] \in {"join", "joinRx"} => fd[held[t]] = None

\* Stream::fd and the kernel's table agree.
Descriptors ==
    /\ \A s \in Streams : fd[s] # None => sock[fd[s]] = s
    /\ \A n \in FDs : sock[n] # None => fd[sock[n]] = n
    /\ \A s \in Streams : ~Allocated(s) => fd[s] = None

CloseInv == PhaseInv /\ Closing /\ Descriptors

\* The steps that touch a Stream on its way out, or a descriptor.
LEMMA TeardownSteps ==
    ASSUME TypeInv, Phases, [Next]_vars
    PROVE  \/ /\ UNCHANGED <<streams, keyOf, held, snapshot, closed, fd, sock>>
              /\ \A t \in Threads : pc'[t] = pc[t] \/ {pc[t], pc'[t]} \cap Tearing = {}
           \/ \E s \in Streams, n \in FDs : OpenRegister(s, n)
           \/ \E t \in Closers : CloseErase(t) \/ CloseMark(t) \/ CloseShut(t) \/ CloseJoin(t)
           \/ StopSnapshot \/ StopJoinRx
           \/ \E s \in Streams : StopClose(s)
<1> DEFINE Quiet == /\ UNCHANGED <<streams, keyOf, held, snapshot, closed, fd, sock>>
                    /\ \A t \in Threads : pc'[t] = pc[t] \/ {pc[t], pc'[t]} \cap Tearing = {}
<1>0. DOMAIN pc = Threads /\ (pc["handler"] \in {"ack", "spawn"} => local \in Streams)
  BY Zenon DEF TypeInv, TypeOK, Locals
<1>a. pc["handler"] = "spawn" => local \in Streams
  BY <1>0, Zenon
<1> USE <1>0, ThreadsDistinct DEF table, objects, wire, Tearing
<1>1. CASE Request
  BY <1>1, Zenon DEF Request, OpenRefuse, OpenAdmit, DataTooLarge, DataUnknown, DataFound, HandleClose
<1>2. ASSUME NEW t \in Closers, Close(t)
      PROVE  Quiet \/ CloseErase(t) \/ CloseMark(t) \/ CloseShut(t) \/ CloseJoin(t)
  <2>1. CASE CloseAbsent(t)
    BY <2>1, Zenon DEF CloseAbsent, Resume
  <2> QED
    BY <1>2, <2>1, Zenon DEF Close
<1>3. CASE HandlerStep
  <2>1. CASE OpenFail \/ OpenAck \/ OpenSpawnThrows
    BY <2>1, Zenon DEF OpenFail, OpenAck, OpenSpawnThrows
  <2>2. CASE OpenSpawn
    BY <2>2 DEF OpenSpawn
  <2>3. CASE DataCheck \/ DataSent \/ DataSendFails
    BY <2>3, Zenon DEF DataCheck, DataSent, DataSendFails
  <2>4. CASE DataSendKills
    <3>1. pc["main"] \in {"run", "stopping", "joinHandler", "killed"}
      BY <2>4, Zenon DEF DataSendKills, Phases
    <3> QED
      BY <2>4, <3>1, Zenon DEF DataSendKills
  <2> QED
    BY <1>2, <1>3, <2>1, <2>2, <2>3, <2>4, Zenon DEF HandlerStep, HandlerReturns, HandlerRuns, Closers
<1>4. ASSUME NEW s \in Streams, RxStep(s)
      PROVE  Quiet \/ CloseErase(s) \/ CloseMark(s) \/ CloseShut(s) \/ CloseJoin(s)
  <2>1. CASE RxLoad(s) \/ RxData(s) \/ RxEof(s)
    BY <2>1, Zenon DEF RxLoad, RxData, RxEof
  <2> QED
    BY <1>2, <1>4, <2>1, Zenon DEF RxStep, Closers
<1>5. CASE MonitorStep
  <2>1. CASE MonitorScan \/ MonitorLoop \/ \E k \in Keys : MonitorClose(k)
    BY <2>1, Zenon DEF MonitorScan, MonitorClose, MonitorLoop
  <2> QED
    BY <1>2, <1>5, <2>1, Zenon DEF MonitorStep, Closers
<1>6. CASE StopBegin \/ StopStep
  <2>1. CASE StopBegin \/ StopRuntime \/ StopTransport \/ StopJoinIdle \/ StopReturn
    BY <2>1, Zenon DEF StopBegin, StopRuntime, StopTransport, StopJoinIdle, StopReturn, Running
  <2> QED
    BY <1>6, <2>1, Zenon DEF StopStep
<1>7. CASE Age
  BY <1>7, Zenon DEF Age, AgeStream, AgeRecent
<1>8. CASE UNCHANGED vars
  BY <1>8, Zenon DEF vars
<1> QED
  BY <1>1, <1>3, <1>4, <1>5, <1>6, <1>7, <1>8, Zenon DEF Next, Closers
\* No Stream is closed, and no descriptor open, when the node starts.
LEMMA CloseInit == Init => CloseInv
BY PhaseInit, ThreadsDistinct
DEF Init, CloseInv, Closing, Descriptors, Tearing, Allocated, Threads

\* The part of the types that the proofs about closing use.
LEMMA TypesOfClosing ==
    ASSUME TypeInv
    PROVE  /\ fd \in [Streams -> FDs \cup {None}]
           /\ sock \in [FDs -> Streams \cup {None}]
           /\ closed \in [Streams -> BOOLEAN]
           /\ rxFd \in [Streams -> FDs \cup {None}]
           /\ ObjectTypes /\ Locals
BY TypesOfObjects, Zenon DEF TypeInv, TypeOK

\* Every step keeps `closed', the descriptors and the place of the thread that
\* tears a Stream down in agreement.
LEMMA CloseNext == CloseInv /\ [Next]_vars => CloseInv'
<1> SUFFICES ASSUME CloseInv, [Next]_vars PROVE Closing' /\ Descriptors'
  BY PhaseNext, Zenon DEF CloseInv
<1>0. /\ TypeInv /\ Ownership /\ Phases /\ Closing /\ Descriptors
      /\ fd \in [Streams -> FDs \cup {None}]
      /\ sock \in [FDs -> Streams \cup {None}]
      /\ closed \in [Streams -> BOOLEAN]
      /\ ObjectTypes /\ Locals /\ ObjectTypes'
  BY TypesOfClosing, TypesOfObjects, TypeNext, Zenon DEF CloseInv, PhaseInv, OwnInv
<1> USE <1>0, ThreadsDistinct DEF Tearing, Allocated, Registered, ObjectTypes, table, objects
<1>1. CASE /\ UNCHANGED <<streams, keyOf, held, snapshot, closed, fd, sock>>
           /\ \A t \in Threads : pc'[t] = pc[t] \/ {pc[t], pc'[t]} \cap Tearing = {}
  <2>1. Closing'
    BY <1>1, Zenon DEF Closing
  <2>2. Descriptors'
    BY <1>1, Zenon DEF Descriptors
  <2> QED BY <2>1, <2>2, Zenon
<1>2. ASSUME NEW s \in Streams, NEW n \in FDs, OpenRegister(s, n) PROVE Closing' /\ Descriptors'
  <2>1. arg["handler"] \in Keys /\ sock[n] = None /\ keyOf[s] = None /\ fd[s] = None /\ ~closed[s]
    BY <1>2, Zenon DEF OpenRegister, Locals, FreeFd, Descriptors, Closing
  <2>2. Closing'
    BY <1>2, <2>1 DEF OpenRegister, StartOf, Closing, Ownership
  <2>3. Descriptors'
    BY <1>2, <2>1 DEF OpenRegister, Descriptors
  <2> QED BY <2>2, <2>3, Zenon
<1>3. ASSUME NEW t \in Closers, CloseErase(t) PROVE Closing' /\ Descriptors'
  <2>1. Target(t) \in Keys /\ streams[Target(t)] \in Streams
    BY <1>3, Zenon DEF CloseErase, Target, Closers, Locals
  <2>2. Closing'
    BY <1>3, <2>1 DEF CloseErase, Unregister, Closing, Ownership, Closers
  <2>3. Descriptors'
    BY <1>3, Zenon DEF CloseErase, Descriptors
  <2> QED BY <2>2, <2>3, Zenon
<1>4. ASSUME NEW t \in Closers, CloseMark(t) PROVE Closing' /\ Descriptors'
  <2>1. held[t] \in Streams /\ ~closed[held[t]]
    BY <1>4, Zenon DEF CloseMark, Closing, Closers
  <2>2. Closing'
    BY <1>4, <2>1 DEF CloseMark, Closing, Ownership, OneCloser, Closers
  <2>3. Descriptors'
    BY <1>4, Zenon DEF CloseMark, Descriptors
  <2> QED BY <2>2, <2>3, Zenon
<1>5. ASSUME NEW t \in Closers, CloseShut(t) PROVE Closing' /\ Descriptors'
  <2>1. held[t] \in Streams /\ closed[held[t]] /\ t \in Threads
    BY <1>5, Zenon DEF CloseShut, Closing, Closers
  <2>2. Closing'
    <3>1. /\ UNCHANGED <<streams, held, keyOf, closed, snapshot>>
          /\ pc' = [pc EXCEPT ![t] = "join"] /\ fd' = [fd EXCEPT ![held[t]] = None]
      BY <1>5, Zenon DEF CloseShut, ShutFd
    <3>2. \A s \in Streams : (Allocated(s) <=> Allocated(s)') /\ (Registered(s) <=> Registered(s)')
      BY <3>1, Zenon DEF Allocated, Registered
    <3>3. \A u \in Threads : u # t => pc'[u] = pc[u]
      BY <3>1, Zenon
    <3>4. pc'[t] = "join"
      BY <3>1, <2>1, Zenon
    <3>5. \A u \in Threads : u # t /\ held[u] \in Streams => held[u] # held[t] /\ fd'[held[u]] = fd[held[u]]
      BY <3>1, <2>1 DEF Ownership, OneCloser
    <3>6. \A s \in Streams : closed'[s] =>
            /\ Allocated(s)' /\ ~Registered(s)' /\ s \notin snapshot'
            /\ \A u \in Threads : held'[u] = s => pc'[u] # "mark"
      BY <3>1, <3>2, <3>3, <3>4 DEF Closing
    <3>7. \A u \in Threads : pc'[u] \in Tearing => held'[u] \in Streams
      BY <3>1, <3>3, <2>1, Zenon DEF Closing
    <3>8. \A u \in Threads : pc'[u] \in {"shut", "join", "joinRx"} => closed'[held'[u]]
      BY <3>1, <3>3, <2>1, Zenon DEF Closing
    <3>9. \A u \in Threads : pc'[u] \in {"join", "joinRx"} => fd'[held'[u]] = None
      <4>1. fd'[held[t]] = None
        BY <3>1, <2>1, Zenon
      <4>2. \A u \in Threads : pc[u] \in {"join", "joinRx"} => held[u] \in Streams /\ fd[held[u]] = None
        BY Zenon DEF Closing, Tearing
      <4> QED
        BY <3>1, <3>3, <3>5, <4>1, <4>2, Zenon
    <3> QED
      BY <3>6, <3>7, <3>8, <3>9, Zenon DEF Closing
  <2>3. Descriptors'
    BY <1>5, <2>1 DEF CloseShut, ShutFd, Descriptors
  <2> QED BY <2>2, <2>3, Zenon
<1>6. ASSUME NEW t \in Closers, CloseJoin(t) PROVE Closing' /\ Descriptors'
  <2>1. Closing'
    BY <1>6, Zenon DEF CloseJoin, Closing, Resume, Closers
  <2>2. Descriptors'
    BY <1>6, Zenon DEF CloseJoin, Descriptors
  <2> QED BY <2>1, <2>2, Zenon
<1>7. CASE StopSnapshot
  <2>1. Closing'
    BY <1>7 DEF StopSnapshot, Closing, LiveStreams, Ownership
  <2>2. Descriptors'
    BY <1>7, Zenon DEF StopSnapshot, Descriptors
  <2> QED BY <2>1, <2>2, Zenon
<1>8. CASE StopJoinRx
  <2>1. Closing'
    BY <1>8, Zenon DEF StopJoinRx, Closing
  <2>2. Descriptors'
    BY <1>8, Zenon DEF StopJoinRx, Descriptors
  <2> QED BY <2>1, <2>2, Zenon
<1>9. ASSUME NEW s \in Streams, StopClose(s) PROVE Closing' /\ Descriptors'
  <2>1. /\ ~Registered(s) /\ Allocated(s) /\ \A t \in Threads : held[t] # s
    BY <1>9, SMTT(30) DEF StopClose, Ownership, OneCloser
  <2>2. Closing'
    BY <1>9, <2>1, SMTT(30) DEF StopClose, ShutFd, Closing, Ownership, OneCloser
  <2>3. Descriptors'
    BY <1>9 DEF StopClose, ShutFd, Descriptors
  <2> QED BY <2>2, <2>3, Zenon
<1> QED
  BY <1>1, <1>2, <1>3, <1>4, <1>5, <1>6, <1>7, <1>8, <1>9, TeardownSteps, Zenon

-----------------------------------------------------------------------------
(* Answers to requests *)

\* While the transport is up, no frame is owed any more at the places that
\* lie behind the handler's answer, or that only an unanswered kind of request
\* (DATA) reaches.
Replying ==
    Up /\ pc["handler"] \in {"ready", "spawn", "data", "send", "join"} => reply # "owed"

\* Every step of the handler answers before it reaches such a place.
LEMMA ReplyNext == CloseInv /\ Replying /\ [Next]_vars => Replying'
<1> SUFFICES ASSUME CloseInv, Replying, [Next]_vars PROVE Replying'
  BY Zenon
<1>0. DOMAIN pc = Threads /\ reply \in {"free", "owed", "sent"} /\ Closing
  BY Zenon DEF CloseInv, PhaseInv, OwnInv, TypeInv, TypeOK
<1>a. pc["handler"] = "spawn" => local \in Streams
  BY Zenon DEF CloseInv, PhaseInv, OwnInv, TypeInv, Locals
<1> USE <1>0, ThreadsDistinct DEF Replying, Up, Answered
<1>1. CASE Request
  BY <1>1, Zenon DEF Request, OpenRefuse, OpenAdmit, DataTooLarge, DataUnknown, DataFound, HandleClose
<1>2. ASSUME NEW t \in Closers, Close(t) PROVE Replying'
  <2>1. CASE CloseAbsent(t) BY <2>1, Zenon DEF CloseAbsent, Closers
  <2>2. CASE CloseErase(t) BY <2>2, Zenon DEF CloseErase, Closers
  <2>3. CASE CloseMark(t)
    <3>1. pc[t] = "mark" /\ held[t] \in Streams /\ ~closed[held[t]]
      BY <2>3, Zenon DEF CloseMark, Closing, Tearing, Closers
    <3> QED
      BY <2>3, <3>1, Zenon DEF CloseMark, Closers
  <2>4. CASE CloseShut(t) BY <2>4, Zenon DEF CloseShut, Closers
  <2>5. CASE CloseJoin(t) BY <2>5, Zenon DEF CloseJoin, Closers
  <2> QED
    BY <1>2, <2>1, <2>2, <2>3, <2>4, <2>5, Zenon DEF Close
<1>3. CASE HandlerStep
  <2>1. CASE OpenFail \/ OpenAck \/ OpenSpawnThrows
    BY <2>1, Zenon DEF OpenFail, OpenAck, OpenSpawnThrows
  <2>2. CASE \E s \in Streams, n \in FDs : OpenRegister(s, n)
    BY <2>2, Zenon DEF OpenRegister, StartOf
  <2>3. CASE OpenSpawn
    BY <1>a, <2>3, Zenon DEF OpenSpawn
  <2>4. CASE DataCheck \/ DataSent \/ DataSendFails \/ DataSendKills
    BY <2>4, Zenon DEF DataCheck, DataSent, DataSendFails, DataSendKills
  <2> QED
    BY <1>2, <1>3, <2>1, <2>2, <2>3, <2>4, Zenon DEF HandlerStep, HandlerReturns, HandlerRuns, Closers
<1>4. ASSUME NEW s \in Streams, RxStep(s) PROVE Replying'
  <2>1. CASE RxLoad(s) \/ RxData(s) \/ RxEof(s)
    BY <2>1, Zenon DEF RxLoad, RxData, RxEof
  <2> QED
    BY <1>2, <1>4, <2>1, Zenon DEF RxStep, Closers
<1>5. CASE MonitorStep
  BY <1>2, <1>5, Zenon DEF MonitorStep, MonitorScan, MonitorClose, MonitorLoop, Closers
<1>6. CASE StopBegin \/ StopStep
  BY <1>6, Zenon DEF StopBegin, StopStep, StopRuntime, StopTransport, StopJoinIdle, StopSnapshot,
              StopClose, StopJoinRx, StopReturn, Running
<1>7. CASE Age
  BY <1>7, Zenon DEF Age, AgeStream, AgeRecent
<1>8. CASE UNCHANGED vars
  BY <1>8, Zenon DEF vars
<1> QED
  BY <1>1, <1>3, <1>4, <1>5, <1>6, <1>7, <1>8, Zenon DEF Next

\* Whatever the clients ask and however the other threads interleave, the
\* handler answers each OPEN and CLOSE before it returns while the transport is
\* up.  closeStream has a path that sends nothing (`closed' was set already);
\* the invariant shows that no thread ever takes it.
THEOREM AlwaysAnswered == Spec => []RequestsAnswered
<1>1. Init => Replying
  BY ThreadsDistinct, Zenon DEF Init, Replying
<1>2. Replying => RequestsAnswered
  BY Zenon DEF Replying, RequestsAnswered
<1> QED
  BY <1>1, <1>2, CloseInit, CloseNext, ReplyNext, PTL DEF Spec

-----------------------------------------------------------------------------
(* rx_threads and descriptor numbers *)

\* An rx_thread in recv has just loaded the number, or it still has it.
LEMMA ReceiveSteps ==
    ASSUME TypeInv, [Next]_vars, NEW s \in Streams, pc'[s] = "recv"
    PROVE  RxLoad(s) \/ (pc[s] = "recv" /\ rxFd'[s] = rxFd[s])
<1> DEFINE Goal == RxLoad(s) \/ (pc[s] = "recv" /\ rxFd'[s] = rxFd[s])
<1>0. DOMAIN pc = Threads /\ rxFd \in [Streams -> FDs \cup {None}]
  BY Zenon DEF TypeInv, TypeOK
<1>a. pc["handler"] = "spawn" => local \in Streams
  BY Zenon DEF TypeInv, Locals
<1> USE <1>0, ThreadsDistinct DEF table, objects, wire
<1>1. CASE Request
  BY <1>1, Zenon DEF Request, OpenRefuse, OpenAdmit, DataTooLarge, DataUnknown, DataFound, HandleClose
<1>2. ASSUME NEW t \in Closers, Close(t) PROVE Goal
  BY <1>2, Zenon DEF Close, CloseAbsent, CloseErase, CloseMark, CloseShut, CloseJoin, Resume, Closers
<1>3. CASE HandlerStep
  <2>1. CASE OpenFail \/ OpenAck \/ OpenSpawnThrows
    BY <2>1, Zenon DEF OpenFail, OpenAck, OpenSpawnThrows
  <2>2. CASE \E u \in Streams, n \in FDs : OpenRegister(u, n)
    BY <2>2, Zenon DEF OpenRegister, StartOf
  <2>3. CASE OpenSpawn
    BY <1>a, <2>3, Zenon DEF OpenSpawn
  <2>4. CASE DataCheck \/ DataSent \/ DataSendFails \/ DataSendKills
    BY <2>4, Zenon DEF DataCheck, DataSent, DataSendFails, DataSendKills
  <2> QED
    BY <1>2, <1>3, <2>1, <2>2, <2>3, <2>4, Zenon DEF HandlerStep, HandlerReturns, HandlerRuns, Closers
<1>4. ASSUME NEW u \in Streams, RxStep(u) PROVE Goal
  <2>1. CASE RxLoad(u) \/ RxData(u) \/ RxEof(u)
    BY <2>1, Zenon DEF RxLoad, RxData, RxEof
  <2> QED
    BY <1>2, <1>4, <2>1, Zenon DEF RxStep, Closers
<1>5. CASE MonitorStep
  BY <1>2, <1>5, Zenon DEF MonitorStep, MonitorScan, MonitorClose, MonitorLoop, Closers
<1>6. CASE StopBegin \/ StopStep
  <2>1. CASE StopBegin \/ StopRuntime \/ StopTransport \/ StopJoinIdle
    BY <2>1, Zenon DEF StopBegin, StopRuntime, StopTransport, StopJoinIdle, Running
  <2>2. CASE StopSnapshot
    BY <2>2, Zenon DEF StopSnapshot
  <2>3. CASE \E u \in Streams : StopClose(u)
    BY <2>3, Zenon DEF StopClose
  <2>4. CASE StopJoinRx \/ StopReturn
    BY <2>4, Zenon DEF StopJoinRx, StopReturn
  <2> QED
    BY <1>6, <2>1, <2>2, <2>3, <2>4, Zenon DEF StopStep
<1>7. CASE Age
  BY <1>7, Zenon DEF Age, AgeStream, AgeRecent
<1>8. CASE UNCHANGED vars
  BY <1>8, Zenon DEF vars
<1> QED
  BY <1>1, <1>3, <1>4, <1>5, <1>6, <1>7, <1>8, Zenon DEF Next

\* A Stream has its descriptor until the thread that took it shuts it down; an
\* rx_thread in recv has loaded that descriptor; and an rx_thread that the handler
\* or stop() joins is not in recv on a live number.
Receiving ==
    /\ \A s \in Streams : Allocated(s) /\ ~closed[s] => fd[s] # None
    /\ \A t \in Threads : pc[t] = "shut" => fd[held[t]] # None
    /\ \A s \in Streams : pc[s] = "recv" /\ fd[s] # None => rxFd[s] = fd[s]
    /\ \A t \in {"handler", "main"} :
          pc[t] \in {"join", "joinRx"} /\ pc[held[t]] = "recv" => RxDead(held[t])

ReceiveInv == CloseInv /\ Receiving

\* No rx_thread exists when the node starts.
LEMMA ReceiveInit == Init => ReceiveInv
BY CloseInit, ThreadsDistinct, Zenon DEF Init, ReceiveInv, Receiving, Allocated, Threads

\* Which steps change a Stream's descriptor or the kernel's table.
LEMMA DescriptorSteps ==
    ASSUME TypeInv, Phases, [Next]_vars
    PROVE  \/ UNCHANGED <<fd, sock>>
           \/ \E s \in Streams, n \in FDs : OpenRegister(s, n)
           \/ \E t \in Closers : CloseShut(t)
           \/ \E s \in Streams : StopClose(s)
BY TeardownSteps, Zenon DEF CloseErase, CloseMark, CloseJoin, StopSnapshot, StopJoinRx, objects

\* Every step keeps the rx_threads and the descriptors in agreement.
LEMMA ReceiveNext == ReceiveInv /\ [Next]_vars => ReceiveInv'
<1> SUFFICES ASSUME ReceiveInv, [Next]_vars PROVE Receiving'
  BY CloseNext, Zenon DEF ReceiveInv
<1>0. /\ TypeInv /\ TypeInv' /\ Ownership /\ Phases /\ Closing /\ Descriptors /\ Receiving
      /\ CloseInv'
      /\ fd \in [Streams -> FDs \cup {None}]
      /\ sock \in [FDs -> Streams \cup {None}]
      /\ closed \in [Streams -> BOOLEAN]
      /\ DOMAIN pc = Threads /\ held \in [Threads -> Streams \cup {None}]
      /\ ObjectTypes /\ Locals
  BY TypesOfClosing, TypeNext, CloseNext, Zenon DEF ReceiveInv, CloseInv, PhaseInv, OwnInv, TypeInv, TypeOK
<1> USE ThreadsDistinct DEF table, objects
<1>a. ASSUME NEW t \in Closers, CloseShut(t)
      PROVE  /\ held[t] \in Streams /\ closed[held[t]]
             /\ fd' = [fd EXCEPT ![held[t]] = None]
             /\ fd[held[t]] # None => sock' = [sock EXCEPT ![fd[held[t]]] = None]
             /\ UNCHANGED <<closed, keyOf, held, rxFd>>
             /\ pc' = [pc EXCEPT ![t] = "join"]
  BY <1>0, <1>a, Zenon DEF CloseShut, ShutFd, Closing, Tearing, Closers
<1>b. ASSUME NEW s \in Streams, StopClose(s)
      PROVE  /\ Allocated(s) /\ ~closed[s] /\ fd[s] # None
             /\ fd' = [fd EXCEPT ![s] = None]
             /\ sock' = [sock EXCEPT ![fd[s]] = None]
             /\ closed' = [closed EXCEPT ![s] = TRUE] /\ UNCHANGED <<keyOf, rxFd>>
             /\ held' = [held EXCEPT !["main"] = s]
             /\ pc' = [pc EXCEPT !["main"] = "joinRx"]
  <2>1. Allocated(s) /\ ~closed[s]
    BY <1>0, <1>b, Zenon DEF StopClose, Ownership, Closing
  <2>2. fd[s] # None
    BY <1>0, <2>1, Zenon DEF Receiving
  <2> QED
    BY <1>b, <2>1, <2>2, Zenon DEF StopClose, ShutFd
<1>c. ASSUME NEW s \in Streams, NEW n \in FDs, OpenRegister(s, n)
      PROVE  /\ fd' = [fd EXCEPT ![s] = n] /\ sock' = [sock EXCEPT ![n] = s]
             /\ ~Allocated(s) /\ pc["handler"] = "connect"
             /\ UNCHANGED <<closed, held, rxFd>>
             /\ pc' = [pc EXCEPT !["handler"] = "ack"]
             /\ \A u \in Streams : u # s => keyOf'[u] = keyOf[u]
  BY <1>0, <1>c, Zenon DEF OpenRegister, StartOf, ObjectTypes
<1>d. \/ UNCHANGED keyOf \/ \E s \in Streams, n \in FDs : OpenRegister(s, n)
  BY <1>0, TeardownSteps, Zenon DEF CloseErase, CloseMark, CloseShut, CloseJoin, StopSnapshot,
                                    StopJoinRx, StopClose
<1>e. \A s \in Streams : closed[s] => closed'[s]
  <2>1. ASSUME NEW t \in Closers, CloseMark(t) PROVE \A s \in Streams : closed[s] => closed'[s]
    BY <1>0, <2>1, Zenon DEF CloseMark
  <2>2. ASSUME NEW u \in Streams, StopClose(u) PROVE \A s \in Streams : closed[s] => closed'[s]
    BY <1>0, <1>b, <2>2, Zenon
  <2> QED
    BY <1>0, <2>1, <2>2, TeardownSteps, Zenon DEF OpenRegister, CloseErase, CloseShut, CloseJoin,
                                                  StopSnapshot, StopJoinRx
<1>1. ASSUME NEW s \in Streams, Allocated(s)', ~closed'[s] PROVE fd'[s] # None
  <2>0. ~closed[s]
    BY <1>1, <1>e, Zenon
  <2>1. ASSUME NEW u \in Streams, NEW n \in FDs, OpenRegister(u, n) PROVE fd'[s] # None
    <3>1. fd' = [fd EXCEPT ![u] = n] /\ n # None /\ (s # u => keyOf'[s] = keyOf[s])
      BY <1>c, <2>1, Zenon
    <3>2. CASE s = u
      BY <1>0, <3>1, <3>2, Zenon
    <3>3. CASE s # u
      BY <1>0, <1>1, <2>0, <3>1, <3>3, Zenon DEF Receiving, Allocated
    <3> QED
      BY <3>2, <3>3, Zenon
  <2>2. CASE UNCHANGED keyOf
    <3>1. fd[s] # None
      BY <1>0, <1>1, <2>0, <2>2, Zenon DEF Receiving, Allocated
    <3>2. ASSUME NEW t \in Closers, CloseShut(t) PROVE s # held[t]
      BY <1>a, <2>0, <3>2, Zenon
    <3>3. ASSUME NEW u \in Streams, StopClose(u) PROVE s # u
      BY <1>0, <1>1, <1>b, <3>3, Zenon
    <3>4. ASSUME NEW t \in Closers, CloseShut(t) PROVE fd'[s] # None
      <4>1. fd' = [fd EXCEPT ![held[t]] = None] /\ s # held[t]
        BY <1>a, <3>2, <3>4, Zenon
      <4> QED
        BY <1>0, <3>1, <4>1, Zenon
    <3>5. ASSUME NEW u \in Streams, StopClose(u) PROVE fd'[s] # None
      <4>1. fd' = [fd EXCEPT ![u] = None] /\ s # u
        BY <1>b, <3>3, <3>5, Zenon
      <4> QED
        BY <1>0, <3>1, <4>1, Zenon
    <3> QED
      BY <1>0, <2>1, <3>1, <3>4, <3>5, DescriptorSteps, Zenon
  <2> QED
    BY <1>d, <2>1, <2>2, Zenon
<1>f. ASSUME NEW t \in Threads, pc[t] = "shut", pc'[t] = "shut", held'[t] = held[t]
      PROVE  fd'[held[t]] = fd[held[t]]
  <2>0. held[t] \in Streams /\ closed[held[t]] /\ Allocated(held[t]) /\ held[t] # None
    BY <1>0, <1>f, Zenon DEF Closing, Tearing, Ownership
  <2>1. ASSUME NEW u \in Streams, NEW n \in FDs, OpenRegister(u, n) PROVE fd'[held[t]] = fd[held[t]]
    BY <1>0, <1>c, <2>0, <2>1, Zenon
  <2>2. ASSUME NEW u \in Closers, CloseShut(u) PROVE fd'[held[t]] = fd[held[t]]
    <3>1. u \in Threads /\ pc'[u] = "join"
      <4>1. u \in Threads /\ pc' = [pc EXCEPT ![u] = "join"]
        BY <1>a, <2>2, Zenon DEF Closers, Threads
      <4> QED
        BY <1>0, <4>1, Zenon
    <3>2. u # t /\ held[u] # held[t]
      BY <1>0, <1>a, <1>f, <2>0, <2>2, <3>1, Zenon DEF Ownership, OneCloser
    <3> QED
      <4>1. fd' = [fd EXCEPT ![held[u]] = None]
        BY <1>a, <2>2, Zenon
      <4> QED
        BY <1>0, <2>0, <3>2, <4>1, Zenon
  <2>3. ASSUME NEW u \in Streams, StopClose(u) PROVE fd'[held[t]] = fd[held[t]]
    <3>1. u # held[t]
      BY <1>b, <2>0, <2>3, Zenon
    <3> QED
      <4>1. fd' = [fd EXCEPT ![u] = None]
        BY <1>b, <2>3, Zenon
      <4> QED
        BY <1>0, <2>0, <3>1, <4>1, Zenon
  <2> QED
    BY <1>0, <2>1, <2>2, <2>3, DescriptorSteps, Zenon
<1>2. ASSUME NEW t \in Threads, pc'[t] = "shut" PROVE fd'[held'[t]] # None
  <2>1. CASE pc[t] = "shut" /\ held'[t] = held[t]
    BY <1>0, <1>2, <1>f, <2>1, Zenon DEF Receiving
  <2>2. ASSUME t \in Closers, CloseMark(t) PROVE fd'[held'[t]] # None
    <3>1. held[t] \in Streams /\ ~closed[held[t]] /\ Allocated(held[t])
      <4>1. pc[t] = "mark" /\ held[t] \in Streams
        BY <1>0, <2>2, Zenon DEF CloseMark, Closing, Tearing
      <4> QED
        BY <1>0, <4>1, ThreadsDistinct, Zenon DEF Closing, Ownership
    <3> QED
      BY <1>0, <2>2, <3>1, Zenon DEF CloseMark, Receiving
  <2>3. (pc[t] = "shut" /\ held'[t] = held[t]) \/ (t \in Closers /\ CloseMark(t))
    <3>1. CASE /\ UNCHANGED <<streams, keyOf, held, snapshot, closed, fd, sock>>
               /\ \A u \in Threads : pc'[u] = pc[u] \/ {pc[u], pc'[u]} \cap Tearing = {}
      BY <1>2, <3>1, Zenon DEF Tearing
    <3>2. ASSUME NEW u \in Streams, NEW n \in FDs, OpenRegister(u, n)
          PROVE  pc[t] = "shut" /\ held'[t] = held[t]
      BY <1>0, <1>2, <1>c, <3>2, Zenon
    <3>3. ASSUME NEW u \in Closers, CloseErase(u) \/ CloseJoin(u)
          PROVE  pc[t] = "shut" /\ held'[t] = held[t]
      BY <1>0, <1>2, <3>3, Zenon DEF CloseErase, CloseJoin, Resume
    <3>4. ASSUME NEW u \in Closers, CloseMark(u)
          PROVE  (pc[t] = "shut" /\ held'[t] = held[t]) \/ u = t
      BY <1>0, <1>2, <3>4, Zenon DEF CloseMark
    <3>5. ASSUME NEW u \in Closers, CloseShut(u) PROVE pc[t] = "shut" /\ held'[t] = held[t]
      BY <1>0, <1>2, <1>a, <3>5, Zenon
    <3>6. CASE StopSnapshot \/ StopJoinRx \/ \E u \in Streams : StopClose(u)
      BY <1>0, <1>2, <3>6, Zenon DEF StopSnapshot, StopJoinRx, StopClose
    <3> QED
      BY <1>0, <3>1, <3>2, <3>3, <3>4, <3>5, <3>6, TeardownSteps, Zenon
  <2> QED
    BY <2>1, <2>2, <2>3, Zenon
<1>3. ASSUME NEW s \in Streams, pc'[s] = "recv", fd'[s] # None PROVE rxFd'[s] = fd'[s]
  <2>1. CASE RxLoad(s)
    <3>1. rxFd \in [Streams -> FDs \cup {None}]
      BY <1>0, Zenon DEF TypeInv, TypeOK
    <3> QED
      BY <1>0, <1>3, <2>1, <3>1, Zenon DEF RxLoad
  <2>2. CASE pc[s] = "recv" /\ rxFd'[s] = rxFd[s]
    <3>1. fd'[s] = fd[s]
      <4>1. CASE UNCHANGED fd
        BY <4>1, Zenon
      <4>2. ASSUME NEW u \in Streams, NEW n \in FDs, OpenRegister(u, n) PROVE fd'[s] = fd[s]
        <5>1. s # u
          BY <1>0, <1>c, <2>2, <4>2, Zenon DEF Phases
        <5> QED
          BY <1>0, <1>c, <4>2, <5>1, Zenon
      <4>3. ASSUME NEW t \in Closers, CloseShut(t) PROVE fd'[s] = fd[s]
        BY <1>0, <1>3, <1>a, <4>3, Zenon
      <4>4. ASSUME NEW u \in Streams, StopClose(u) PROVE fd'[s] = fd[s]
        <5>1. fd' = [fd EXCEPT ![u] = None]
          BY <1>b, <4>4, Zenon
        <5> QED
          BY <1>0, <1>3, <5>1, Zenon
      <4> QED
        BY <1>0, <4>1, <4>2, <4>3, <4>4, DescriptorSteps, Zenon
    <3> QED
      BY <1>0, <1>3, <2>2, <3>1, Zenon DEF Receiving
  <2> QED
    BY <1>0, <1>3, <2>1, <2>2, ReceiveSteps, Zenon
\* The number that the handler or stop() has just shut is dead, and until they
\* have joined nobody handles an OPEN that could be given it again.
<1>4. ASSUME NEW t \in {"handler", "main"}, pc'[t] \in {"join", "joinRx"}, pc'[held'[t]] = "recv"
      PROVE  RxDead(held[t])'
  <2> DEFINE s == held'[t]
  <2>0. t \in Threads /\ s \in Streams /\ closed'[s] /\ fd'[s] = None
    BY <1>0, <1>4, Zenon DEF CloseInv, Closing, Tearing, Threads
  <2>1. ASSUME pc[t] \in {"join", "joinRx"}, held'[t] = held[t] PROVE RxDead(held[t])'
    <3>1. pc[s] = "recv" /\ rxFd'[s] = rxFd[s]
      <4>1. ~RxLoad(s)
        BY <1>0, <1>4, <2>0, <2>1, Zenon DEF RxLoad, Closing
      <4> QED
        BY <1>0, <1>4, <2>0, <4>1, ReceiveSteps, Zenon
    <3>2. RxDead(s)
      BY <1>0, <2>1, <3>1, Zenon DEF Receiving
    <3>3. \A n \in FDs : sock'[n] # None => sock[n] # None
      <4>1. ASSUME NEW u \in Streams, NEW n \in FDs, OpenRegister(u, n) PROVE FALSE
        BY <1>0, <1>c, <2>1, <4>1, Zenon DEF Phases
      <4>2. ASSUME NEW u \in Closers, CloseShut(u) PROVE \A n \in FDs : sock'[n] # None => sock[n] # None
        BY <1>0, <4>2, Zenon DEF CloseShut, ShutFd
      <4>3. ASSUME NEW u \in Streams, StopClose(u) PROVE \A n \in FDs : sock'[n] # None => sock[n] # None
        BY <1>0, <4>3, Zenon DEF StopClose, ShutFd
      <4> QED
        BY <1>0, <4>1, <4>2, <4>3, DescriptorSteps, Zenon
    <3> QED
      BY <2>1, <3>1, <3>2, <3>3, Zenon DEF RxDead
  <2>2. ASSUME fd[s] # None, fd[s] \in FDs, sock' = [sock EXCEPT ![fd[s]] = None],
               rxFd'[s] = rxFd[s], pc[s] = "recv"
        PROVE  RxDead(held[t])'
    BY <1>0, <2>0, <2>2, Zenon DEF RxDead, Receiving
  <2>3. CASE t = "handler" /\ CloseShut("handler")
    <3>1. "handler" \in Closers /\ pc["handler"] = "shut" /\ "handler" \in Threads
      BY <2>3, Zenon DEF CloseShut, Closers, Threads
    <3>2. held[t] = s /\ fd[s] # None /\ fd[s] \in FDs
      <4>1. held[t] = s
        BY <1>a, <2>3, <3>1, Zenon
      <4>2. fd[s] # None
        BY <1>0, <2>3, <3>1, <4>1, Zenon DEF Receiving
      <4> QED
        BY <1>0, <2>0, <4>1, <4>2, Zenon
    <3>3. pc[s] = "recv" /\ rxFd'[s] = rxFd[s]
      BY <1>0, <1>4, <1>a, <2>0, <2>3, <3>1, <3>2, Zenon
    <3> QED
      BY <1>a, <2>2, <2>3, <3>1, <3>2, <3>3, Zenon
  <2>4. ASSUME t = "main", NEW u \in Streams, StopClose(u) PROVE RxDead(held[t])'
    <3>1. u = s /\ fd[s] # None /\ fd[s] \in FDs
      BY <1>0, <1>b, <2>0, <2>4, Zenon
    <3>2. pc[s] = "recv" /\ rxFd'[s] = rxFd[s]
      <4>1. pc' = [pc EXCEPT !["main"] = "joinRx"] /\ rxFd' = rxFd
        BY <1>b, <2>4, Zenon
      <4> QED
        BY <1>0, <1>4, <2>0, <4>1, ThreadsDistinct, Zenon
    <3> QED
      BY <1>b, <2>2, <2>4, <3>1, <3>2, Zenon
  <2>5. \/ pc[t] \in {"join", "joinRx"} /\ held'[t] = held[t]
        \/ t = "handler" /\ CloseShut("handler")
        \/ t = "main" /\ \E u \in Streams : StopClose(u)
    <3> DEFINE Kept == pc[t] \in {"join", "joinRx"} /\ held'[t] = held[t]
    <3>1. CASE /\ UNCHANGED <<streams, keyOf, held, snapshot, closed, fd, sock>>
               /\ \A u \in Threads : pc'[u] = pc[u] \/ {pc[u], pc'[u]} \cap Tearing = {}
      BY <1>4, <2>0, <3>1, Zenon DEF Tearing
    <3>2. ASSUME NEW u \in Streams, NEW n \in FDs, OpenRegister(u, n) PROVE Kept
      BY <1>0, <1>4, <1>c, <2>0, <3>2, Zenon
    <3>3. ASSUME NEW u \in Closers, CloseErase(u) \/ CloseJoin(u) PROVE Kept
      BY <1>0, <1>4, <2>0, <3>3, Zenon DEF CloseErase, CloseJoin, Resume, Closers
    <3>4. ASSUME NEW u \in Closers, CloseMark(u) PROVE Kept
      <4>1. ~closed[held[u]]
        BY <1>0, <3>4, Zenon DEF CloseMark, Closing, Tearing, Closers, Threads
      <4> QED
        BY <1>0, <1>4, <2>0, <3>4, <4>1, Zenon DEF CloseMark, Closers
    <3>5. ASSUME NEW u \in Closers, CloseShut(u) PROVE Kept \/ u = t
      BY <1>0, <1>4, <1>a, <2>0, <3>5, Zenon
    <3>6. CASE StopSnapshot \/ StopJoinRx
      BY <1>0, <1>4, <2>0, <3>6, Zenon DEF StopSnapshot, StopJoinRx
    <3>7. ASSUME NEW u \in Streams, StopClose(u) PROVE Kept \/ t = "main"
      BY <1>0, <1>4, <1>b, <2>0, <3>7, Zenon
    <3>8. "main" \notin Closers
      BY ThreadsDistinct, Zenon DEF Closers
    <3> QED
      BY <1>0, <3>1, <3>2, <3>3, <3>4, <3>5, <3>6, <3>7, <3>8, TeardownSteps, Zenon
  <2> QED
    BY <2>1, <2>3, <2>4, <2>5, Zenon
<1> QED
  BY <1>1, <1>2, <1>3, <1>4, Zenon DEF Receiving

\* Whatever the kernel does with descriptor numbers, an rx_thread whose Stream has
\* not been marked closed receives from its own, open connection.
THEOREM ReceivesOwn == Spec => []OwnWhileOpen
<1>1. ReceiveInv => OwnWhileOpen
  <2> SUFFICES ASSUME ReceiveInv, NEW s \in Streams, pc[s] = "recv", ~closed[s]
               PROVE  rxFd[s] = fd[s] /\ sock[rxFd[s]] = s
    BY Zenon DEF OwnWhileOpen
  <2>1. Phases /\ Receiving /\ Descriptors
    BY Zenon DEF ReceiveInv, CloseInv, PhaseInv
  <2>2. Allocated(s)
    BY <2>1, Zenon DEF Phases
  <2> QED
    BY <2>1, <2>2, Zenon DEF Receiving, Descriptors
<1> QED
  BY <1>1, ReceiveInit, ReceiveNext, PTL DEF Spec

\* A thread that waits for an rx_thread, in closeStream or in stop(), has marked
\* the Stream closed.  When it is the handler or stop(), the rx_thread's recv is
\* on a dead number, however the kernel hands numbers out; when it is the monitor,
\* the number is dead or has gone to another Stream.
THEOREM JoinsEnd == Spec => []JoinWakes
<1>1. ReceiveInv => JoinWakes
  <2> SUFFICES ASSUME ReceiveInv, NEW t \in Threads, pc[t] \in {"join", "joinRx"}
               PROVE  /\ closed[held[t]]
                      /\ pc[held[t]] = "recv" =>
                           \/ RxDead(held[t])
                           \/ t \notin {"handler", "main"} /\ sock[rxFd[held[t]]] # held[t]
    BY Zenon DEF JoinWakes
  <2>1. /\ held[t] \in Streams /\ closed[held[t]] /\ fd[held[t]] = None
        /\ Descriptors /\ Receiving
    BY Zenon DEF ReceiveInv, CloseInv, Closing, Tearing
  <2>2. CASE t \in {"handler", "main"}
    BY <2>1, <2>2, Zenon DEF Receiving
  <2>3. ASSUME pc[held[t]] = "recv", ~RxDead(held[t]) PROVE sock[rxFd[held[t]]] # held[t]
    <3>1. rxFd[held[t]] \in FDs /\ held[t] # None
      BY <2>1, <2>3, ThreadsDistinct, Zenon DEF RxDead
    <3> QED
      BY <2>1, <3>1, ThreadsDistinct, Zenon DEF Descriptors
  <2> QED
    BY <2>1, <2>2, <2>3, Zenon
<1> QED
  BY <1>1, ReceiveInit, ReceiveNext, PTL DEF Spec

-----------------------------------------------------------------------------
(* The per-client stream limit *)

\* streams_per_client_ never undercounts and never passes max_streams; between
\* the check in handleOpen and the increment there is still room.
Counted ==
    /\ \A c \in Clients : /\ Cardinality(KeysOf(c)) <= perClient[c]
                          /\ perClient[c] <= MaxStreams
    /\ pc["handler"] = "connect" => HasRoom(arg["handler"][1])

CountInv == OwnInv /\ Counted

\* A client has finitely many keys, so the registered ones can be counted.
LEMMA KeysOfFinite ==
    ASSUME NEW c \in Clients
    PROVE  IsFiniteSet(KeysOf(c)) /\ Cardinality(KeysOf(c)) \in Nat
<1>1. IsFiniteSet(Keys)
  BY SetsAssumption, FS_Product, Zenon DEF Keys
<1>2. KeysOf(c) \in SUBSET Keys
  BY Zenon DEF KeysOf
<1> QED
  BY <1>1, <1>2, FS_Subset, FS_CardinalityType, Zenon

\* The counts are 0 when the node starts.
LEMMA CountInit == Init => CountInv
<1> SUFFICES ASSUME Init PROVE Counted
  BY OwnInit, Zenon DEF CountInv
<1>1. ASSUME NEW c \in Clients PROVE KeysOf(c) = {}
  BY Zenon DEF Init, KeysOf
<1>2. Cardinality({}) = 0
  BY FS_EmptySet, Zenon
<1>3. /\ \A c \in Clients : perClient[c] = 0
      /\ pc["handler"] = "ready"
  BY ThreadsDistinct, Zenon DEF Init
<1> QED
  BY <1>1, <1>2, <1>3, NumbersAssumption DEF Counted

\* How the set of a client's registered keys changes when one entry does.
LEMMA KeysOfSet ==
    ASSUME NEW k \in Keys, NEW v, NEW c \in Clients,
           streams \in [Keys -> Streams \cup {None}],
           streams' = [streams EXCEPT ![k] = v]
    PROVE  /\ v = None => KeysOf(c)' = KeysOf(c) \ {k}
           /\ v # None => KeysOf(c)' = IF k[1] = c THEN KeysOf(c) \cup {k} ELSE KeysOf(c)
BY Zenon DEF KeysOf

\* Every step keeps streams_per_client_ at or above the registered streams and
\* within max_streams.
LEMMA CountNext == CountInv /\ [Next]_vars => CountInv'
<1> SUFFICES ASSUME CountInv, [Next]_vars PROVE Counted'
  BY OwnNext, Zenon DEF CountInv
<1>0. /\ TypeInv /\ TypeInv' /\ Counted /\ MaxStreams \in Nat
      /\ streams \in [Keys -> Streams \cup {None}]
      /\ perClient \in [Clients -> Nat]
  BY TypeNext, NumbersAssumption, Zenon DEF CountInv, OwnInv, TypeInv, TypeOK
<1> DEFINE Connecting == pc["handler"] = "connect" => HasRoom(arg["handler"][1])
<1>a. \A k \in Keys : k[1] \in Clients
  BY Zenon DEF Keys
<1>b. pc["handler"] = "connect" => arg["handler"] \in Keys
  BY <1>0, Zenon DEF TypeInv, Locals
\* Room is not taken while the handler connects: only it adds to the count.
<1>c. ASSUME \A c \in Clients : perClient'[c] <= perClient[c] PROVE Connecting'
  <2> SUFFICES ASSUME pc'["handler"] = "connect" PROVE HasRoom(arg["handler"][1])'
    BY Zenon
  <2>1. arg'["handler"] \in Keys
    BY <1>0, Zenon DEF TypeInv, Locals
  <2>2. HasRoom(arg'["handler"][1])
    <3>1. ASSUME NEW k \in Keys, OpenAdmit(k) PROVE HasRoom(arg'["handler"][1])
      BY <1>0, <3>1, Zenon DEF OpenAdmit, TypeInv, TypeOK
    <3>2. CASE pc["handler"] = "connect" /\ arg'["handler"] = arg["handler"]
      BY <1>0, <3>2, Zenon DEF Counted
    <3> QED
      BY <1>0, <3>1, <3>2, ConnectSteps, Zenon
  <2> QED
    <3>1. arg'["handler"][1] \in Clients
      BY <1>a, <2>1, Zenon
    <3>2. \A c \in Clients : perClient[c] \in Nat /\ perClient'[c] \in Nat
      BY <1>0, Zenon DEF TypeInv, TypeOK
    <3> QED
      BY <1>0, <1>c, <2>2, <3>1, <3>2 DEF HasRoom
<1>1. CASE UNCHANGED <<streams, perClient, keyOf, held, snapshot>>
  <2>1. Connecting'
    <3>1. \A c \in Clients : perClient[c] \in Nat /\ perClient'[c] = perClient[c]
      BY <1>0, <1>1, Zenon
    <3>2. \A c \in Clients : perClient'[c] <= perClient[c]
      BY ONLY <3>1, SMTT(30)
    <3> QED
      BY <1>c, <3>2, Zenon
  <2> QED
    BY <1>0, <1>1, <2>1, Zenon DEF Counted, KeysOf
<1>2. ASSUME NEW s \in Streams, NEW n \in FDs, OpenRegister(s, n) PROVE Counted'
  <2> DEFINE k == arg["handler"]
  <2>1. k \in Keys /\ k[1] \in Clients /\ perClient[k[1]] + 1 <= MaxStreams
    <3>1. pc["handler"] = "connect"
      BY <1>2, Zenon DEF OpenRegister
    <3>2. k \in Keys /\ k[1] \in Clients /\ HasRoom(k[1])
      BY <1>0, <1>a, <1>b, <3>1, Zenon DEF Counted
    <3>3. perClient[k[1]] \in Nat
      BY <1>0, <3>2, Zenon
    <3> QED
      BY <1>0, <3>2, <3>3, SMTT(30) DEF HasRoom
  <2>2. /\ streams' = [streams EXCEPT ![k] = s]
        /\ perClient' = [perClient EXCEPT ![k[1]] = @ + 1]
        /\ pc'["handler"] = "ack"
    BY <1>0, <1>2, ThreadsDistinct, Zenon DEF OpenRegister, StartOf, TypeInv, TypeOK
  <2>3. ASSUME NEW c \in Clients
        PROVE  Cardinality(KeysOf(c)') <= perClient'[c] /\ perClient'[c] <= MaxStreams
    <3>1. KeysOf(c)' = IF k[1] = c THEN KeysOf(c) \cup {k} ELSE KeysOf(c)
      BY <1>0, <2>1, <2>2, KeysOfSet, ThreadsDistinct, Zenon
    <3>2. /\ Cardinality(KeysOf(c)) \in Nat
          /\ Cardinality(KeysOf(c) \cup {k}) <= Cardinality(KeysOf(c)) + 1
      <4>1. IsFiniteSet(KeysOf(c)) /\ Cardinality(KeysOf(c)) \in Nat
        BY KeysOfFinite, Zenon
      <4>2. Cardinality(KeysOf(c) \cup {k}) =
              IF k \in KeysOf(c) THEN Cardinality(KeysOf(c)) ELSE Cardinality(KeysOf(c)) + 1
        BY <4>1, FS_AddElement, Zenon
      <4> QED
        BY <4>1, <4>2
    <3>3. perClient'[c] = IF k[1] = c THEN perClient[c] + 1 ELSE perClient[c]
      BY <1>0, <2>1, <2>2, Zenon
    <3>4. Cardinality(KeysOf(c)) <= perClient[c] /\ perClient[c] <= MaxStreams
      BY <1>0, Zenon DEF Counted
    <3>5. CASE k[1] = c
      <4>1. Cardinality(KeysOf(c)') <= Cardinality(KeysOf(c)) + 1
        BY <3>1, <3>2, <3>5, Zenon
      <4>2. Cardinality(KeysOf(c)') \in Nat
        BY <3>1, <3>5, KeysOfFinite, FS_AddElement, FS_CardinalityType, Zenon
      <4> HIDE DEF k
      <4> QED
        BY <1>0, <2>1, <3>2, <3>3, <3>4, <3>5, <4>1, <4>2, SMTT(30)
    <3>6. CASE k[1] # c
      BY <3>1, <3>3, <3>4, <3>6, Zenon
    <3> QED
      BY <3>5, <3>6, Zenon
  <2> QED
    BY <2>2, <2>3, Zenon DEF Counted
<1>3. ASSUME NEW t \in Closers, CloseErase(t) PROVE Counted'
  <2> DEFINE k == Target(t)
  <2>1. k \in Keys /\ k[1] \in Clients /\ streams[k] # None
    BY <1>0, <1>3, <1>a, Zenon DEF CloseErase, Target, Closers, TypeInv, TypeOK, Locals
  <2>2. /\ streams' = [streams EXCEPT ![k] = None]
        /\ perClient' = [perClient EXCEPT ![k[1]] = IF @ > 0 THEN @ - 1 ELSE @]
    BY <1>3, Zenon DEF CloseErase, Unregister
  <2>3. ASSUME NEW c \in Clients
        PROVE  /\ Cardinality(KeysOf(c)') <= perClient'[c]
               /\ perClient'[c] <= perClient[c] /\ perClient'[c] <= MaxStreams
    <3>1. KeysOf(c)' = KeysOf(c) \ {k}
      BY <1>0, <2>1, <2>2, KeysOfSet, Zenon
    <3>2. k \in KeysOf(c) <=> k[1] = c
      BY <2>1, Zenon DEF KeysOf
    <3>3. /\ Cardinality(KeysOf(c)) \in Nat
          /\ Cardinality(KeysOf(c)') =
               IF k[1] = c THEN Cardinality(KeysOf(c)) - 1 ELSE Cardinality(KeysOf(c))
          /\ Cardinality(KeysOf(c)') \in Nat
      <4>1. IsFiniteSet(KeysOf(c)) /\ Cardinality(KeysOf(c)) \in Nat
        BY KeysOfFinite, Zenon
      <4>2. /\ IsFiniteSet(KeysOf(c) \ {k})
            /\ Cardinality(KeysOf(c) \ {k}) =
                 IF k \in KeysOf(c) THEN Cardinality(KeysOf(c)) - 1 ELSE Cardinality(KeysOf(c))
        BY <4>1, FS_RemoveElement, Zenon
      <4>3. Cardinality(KeysOf(c) \ {k}) \in Nat
        BY <4>2, FS_CardinalityType, Zenon
      <4> QED
        BY <3>1, <3>2, <4>1, <4>2, <4>3, Zenon
    <3>4. Cardinality(KeysOf(c)) <= perClient[c] /\ perClient[c] <= MaxStreams
      BY <1>0, Zenon DEF Counted
    <3>5. perClient'[c] = IF k[1] = c /\ perClient[c] > 0 THEN perClient[c] - 1 ELSE perClient[c]
      BY <1>0, <2>1, <2>2, Zenon
    <3> QED
      BY <1>0, <3>3, <3>4, <3>5
  <2> QED
    BY <2>3, <1>c, Zenon DEF Counted
<1>4. CASE StopSnapshot
  <2>1. ASSUME NEW c \in Clients PROVE KeysOf(c)' = {} /\ perClient'[c] = 0
    BY <1>4, Zenon DEF StopSnapshot, KeysOf
  <2> QED
    <3>1. \A c \in Clients : perClient[c] \in Nat /\ perClient'[c] <= perClient[c]
      BY ONLY <1>0, <2>1, SMTT(30)
    <3>2. Connecting'
      BY <1>c, <3>1, Zenon
    <3>3. \A c \in Clients : Cardinality(KeysOf(c)') <= perClient'[c] /\ perClient'[c] <= MaxStreams
      BY ONLY <1>0, <2>1, FS_EmptySet
    <3> QED
      BY <3>2, <3>3, Zenon DEF Counted
<1>5. CASE StopJoinRx \/ (\E t \in Closers : CloseJoin(t)) \/ \E s \in Streams : StopClose(s)
  <2>1. UNCHANGED <<streams, perClient>>
    BY <1>5, Zenon DEF StopJoinRx, CloseJoin, StopClose, table
  <2> QED
    <3>1. \A c \in Clients : perClient[c] \in Nat /\ perClient'[c] = perClient[c]
      BY <1>0, <2>1, Zenon
    <3>2. \A c \in Clients : perClient'[c] <= perClient[c]
      BY ONLY <3>1
    <3>3. Connecting'
      BY <1>c, <3>2, Zenon
    <3> QED
      BY <1>0, <2>1, <3>3, Zenon DEF Counted, KeysOf
<1> QED
  BY <1>1, <1>2, <1>3, <1>4, <1>5, OwnerSteps, Zenon

\* However many OPENs a client sends, with whatever ids and with closes of any
\* origin in between, it never has more than max_streams registered streams,
\* although handleOpen checks the count in one critical section of mu_ and
\* raises it in another: requests are handled one at a time, and every other
\* thread only lowers the count.
THEOREM LimitHolds == Spec => []StreamLimit
<1>1. CountInv => StreamLimit
  <2> SUFFICES ASSUME CountInv, NEW c \in Clients PROVE Cardinality(KeysOf(c)) <= MaxStreams
    BY Zenon DEF StreamLimit
  <2>1. perClient[c] \in Nat /\ Cardinality(KeysOf(c)) \in Nat /\ MaxStreams \in Nat
    BY KeysOfFinite, NumbersAssumption, Zenon DEF CountInv, OwnInv, TypeInv, TypeOK
  <2>2. Cardinality(KeysOf(c)) <= perClient[c] /\ perClient[c] <= MaxStreams
    BY Zenon DEF CountInv, Counted
  <2> QED
    BY ONLY <2>1, <2>2
<1> QED
  BY <1>1, CountInit, CountNext, PTL DEF Spec
=============================================================================
