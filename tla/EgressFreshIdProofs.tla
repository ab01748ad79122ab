------------------------ MODULE EgressFreshIdProofs ------------------------
(***************************************************************************)
(* What holds of EgressNode when no client opens a stream_id twice (and, for*)
(* some theorems, no stream expires while it is still being opened).       *)
(***************************************************************************)
EXTENDS EgressNodeProofs

(* rx_threads are joined or detached *)

\* Without reuse of ids a key belongs to one Stream ever; the handler connects
\* for a new key, and the monitor only works on keys of existing Streams.
FreshKeys ==
    /\ \A s, u \in Streams : Allocated(s) /\ keyOf[s] = keyOf[u] => s = u
    /\ pc["handler"] = "connect" => \A s \in Streams : keyOf[s] # arg["handler"]
    /\ \A k \in sweep : \E s \in Streams : keyOf[s] = k
    /\ pc["idle"] = "erase" => \E s \in Streams : keyOf[s] = arg["idle"]

\* Until handleOpen has started the rx_thread, nobody else closes the Stream.
Opening ==
    pc["handler"] \in {"ack", "spawn"} =>
        /\ Registered(local) /\ ~stale[local]
        /\ keyOf[local] \notin sweep
        /\ pc["idle"] = "erase" => arg["idle"] # keyOf[local]

\* A Stream with a joinable rx_thread is registered, or in the snapshot, or in
\* the hands of the thread that is tearing it down.
Owned ==
    \A s \in Streams : handle[s] = "joinable" =>
        Registered(s) \/ s \in snapshot \/ \E t \in Threads : held[t] = s

JoinInv  == PhaseInv /\ FreshKeys /\ Opening /\ Owned

\* No rx_thread exists when the node starts.
LEMMA JoinInit == Init => JoinInv
BY PhaseInit, ThreadsDistinct
DEF Init, JoinInv, FreshKeys, Opening, Owned, Allocated, Threads

\* With ids used once, every step keeps the key being opened new.
LEMMA FreshNext ==
    ASSUME ~IdReuse, PhaseInv, FreshKeys, [Next]_vars
    PROVE  FreshKeys'
<1>0. TypeInv /\ Ownership /\ ObjectTypes /\ Locals /\ ObjectTypes' /\ Locals'
  BY TypeNext, TypesOfObjects, Zenon DEF PhaseInv, OwnInv
<1> USE <1>0, ThreadsDistinct DEF ObjectTypes, Allocated
<1>1. \A s, u \in Streams : Allocated(s)' /\ keyOf'[s] = keyOf'[u] => s = u
  <2>1. CASE UNCHANGED keyOf
    BY <2>1, Zenon DEF FreshKeys
  <2>2. ASSUME NEW s \in Streams, NEW n \in FDs, OpenRegister(s, n)
        PROVE  \A v, u \in Streams : Allocated(v)' /\ keyOf'[v] = keyOf'[u] => v = u
    <3>1. /\ \A u \in Streams : keyOf[u] # arg["handler"]
          /\ keyOf' = [keyOf EXCEPT ![s] = arg["handler"]]
      BY <2>2, Zenon DEF OpenRegister, FreshKeys
    <3>2. \A v, u \in Streams : keyOf[v] # None /\ keyOf[v] = keyOf[u] => v = u
      BY Zenon DEF FreshKeys
    <3> QED
      BY <3>1, <3>2, Zenon
  <2> QED
    BY <2>1, <2>2, OwnerSteps, Zenon DEF CloseErase, CloseJoin, StopSnapshot, StopJoinRx,
                                  StopClose, objects
<1>2. ASSUME pc'["handler"] = "connect", NEW s \in Streams
      PROVE  keyOf'[s] # arg'["handler"]
  <2>1. UNCHANGED keyOf
    <3>1. ~\E u \in Streams, n \in FDs : OpenRegister(u, n)
      BY <1>2, Zenon DEF OpenRegister, StartOf
    <3> QED
      BY <3>1, OwnerSteps, Zenon DEF CloseErase, CloseJoin, StopSnapshot, StopJoinRx,
                              StopClose, objects
  <2>2. CASE \E k \in Keys : OpenAdmit(k)
    BY <2>1, <2>2, Zenon DEF OpenAdmit
  <2>3. CASE pc["handler"] = "connect" /\ arg'["handler"] = arg["handler"]
    BY <2>1, <2>3, Zenon DEF FreshKeys
  <2> QED
    BY <1>2, <2>2, <2>3, ConnectSteps, Zenon
<1>3. \A s \in Streams : Allocated(s) => keyOf'[s] = keyOf[s]
  <2>1. UNCHANGED keyOf \/ \E s \in Streams, n \in FDs : OpenRegister(s, n)
    BY OwnerSteps, Zenon DEF CloseErase, CloseJoin, StopSnapshot, StopJoinRx, StopClose, objects
  <2>2. ASSUME NEW s \in Streams, NEW n \in FDs, OpenRegister(s, n)
        PROVE  \A u \in Streams : Allocated(u) => keyOf'[u] = keyOf[u]
    <3>1. keyOf[s] = None /\ keyOf' = [keyOf EXCEPT ![s] = arg["handler"]]
      BY <2>2, Zenon DEF OpenRegister
    <3>2. keyOf \in [Streams -> Keys \cup {None}]
      BY Zenon
    <3> QED
      BY ONLY <3>1, <3>2, Zenon DEF Allocated
  <2> QED
    BY <2>1, <2>2, Zenon
<1>4. /\ \A k \in sweep' : \E s \in Streams : keyOf[s] = k
      /\ pc'["idle"] = "erase" => \E s \in Streams : keyOf[s] = arg'["idle"]
  <2>1. CASE MonitorScan
    <3>1. sweep' = StaleKeys /\ pc'["idle"] = "sweep"
      BY <2>1, Zenon DEF MonitorScan
    <3>2. \A k \in StaleKeys : streams[k] \in Streams /\ keyOf[streams[k]] = k
      BY Zenon DEF StaleKeys, Ownership
    <3> QED
      BY <3>1, <3>2, Zenon
  <2>2. ASSUME NEW k \in Keys, MonitorClose(k)
        PROVE  /\ \A j \in sweep' : \E s \in Streams : keyOf[s] = j
               /\ \E s \in Streams : keyOf[s] = arg'["idle"]
    BY <2>2, Zenon DEF MonitorClose, FreshKeys
  <2> QED
    BY <2>1, <2>2, StepEffects, Zenon DEF FreshKeys
<1>5. sweep' \subseteq Keys /\ (pc'["idle"] = "erase" => arg'["idle"] \in Keys)
  BY Zenon DEF Locals
<1>6. \A k \in Keys : (\E s \in Streams : keyOf[s] = k) => \E s \in Streams : keyOf'[s] = k
  BY <1>3, SetsAssumption, Zenon
<1>7. /\ \A k \in sweep' : \E s \in Streams : keyOf'[s] = k
      /\ pc'["idle"] = "erase" => \E s \in Streams : keyOf'[s] = arg'["idle"]
  BY <1>4, <1>5, <1>6, Zenon
<1>8. pc'["handler"] = "connect" => \A s \in Streams : keyOf'[s] # arg'["handler"]
  BY <1>2, Zenon
<1> QED
  BY ONLY <1>1, <1>7, <1>8, Zenon DEF FreshKeys

\* With ids used once and no expiry during handleOpen, no step takes the Stream
\* being opened from the table.
LEMMA OpeningNext ==
    ASSUME ~SlowOpen, PhaseInv, FreshKeys, Opening, [Next]_vars
    PROVE  Opening'
<1> SUFFICES ASSUME pc'["handler"] \in {"ack", "spawn"}
             PROVE  /\ Registered(local)' /\ ~stale'[local']
                    /\ keyOf'[local'] \notin sweep'
                    /\ pc'["idle"] = "erase" => arg'["idle"] # keyOf'[local']
  BY Zenon DEF Opening
<1>0. TypeInv /\ Ownership /\ Phases /\ ObjectTypes /\ Locals
  BY TypesOfObjects, Zenon DEF PhaseInv, OwnInv
<1> USE <1>0, ThreadsDistinct DEF ObjectTypes, Allocated, Registered
<1>1. ASSUME NEW s \in Streams, NEW n \in FDs, OpenRegister(s, n)
      PROVE  /\ Registered(local)' /\ ~stale'[local']
             /\ keyOf'[local'] \notin sweep'
             /\ pc'["idle"] = "erase" => arg'["idle"] # keyOf'[local']
  <2>1. arg["handler"] \in Keys /\ pc["handler"] = "connect" /\ ~stale[s]
    BY <1>1, Zenon DEF OpenRegister, Locals, Phases
  <2>2. /\ local' = s /\ keyOf'[s] = arg["handler"] /\ streams'[arg["handler"]] = s
        /\ UNCHANGED <<stale, sweep, arg>> /\ pc'["idle"] = pc["idle"]
    BY <1>1, <2>1, Zenon DEF OpenRegister, StartOf
  <2>3. arg["handler"] \notin sweep /\ (pc["idle"] = "erase" => arg["idle"] # arg["handler"])
    BY <2>1, Zenon DEF FreshKeys
  <2> QED
    BY <2>1, <2>2, <2>3, Zenon
<1>2. CASE /\ pc["handler"] \in {"ack", "spawn"} /\ local' = local
           /\ ~\E s \in Streams, n \in FDs : OpenRegister(s, n)
  <2>1. /\ local \in Streams /\ keyOf[local] \in Keys /\ streams[keyOf[local]] = local
        /\ ~stale[local] /\ keyOf[local] \notin sweep /\ pc[local] = "unborn"
        /\ pc["idle"] = "erase" => arg["idle"] # keyOf[local]
        /\ pc["main"] \in {"run", "stopping", "joinHandler", "killed"}
    BY <1>2, Zenon DEF Opening, Locals, Phases
  <2>2. keyOf'[local] = keyOf[local]
    BY <1>2, OwnerSteps, Zenon DEF CloseErase, CloseJoin, StopSnapshot, StopJoinRx, StopClose, objects
  <2>3. streams'[keyOf[local]] = local
    <3>1. ASSUME NEW t \in Closers, CloseErase(t) PROVE streams'[keyOf[local]] = local
      <4>1. pc[t] = "erase"
        BY <3>1, Zenon DEF CloseErase
      <4>2. ASSUME t = "idle" PROVE Target(t) # keyOf[local]
        BY <2>1, <4>1, <4>2, Zenon DEF Target
      <4>3. ASSUME t \in Streams PROVE Target(t) # keyOf[local]
        <5>1. t # local /\ keyOf[t] \in Keys
          BY <2>1, <4>1, <4>3, Zenon DEF Locals
        <5> QED
          BY <2>1, <4>3, <5>1, Zenon DEF Target, FreshKeys
      <4>4. Target(t) # keyOf[local]
        BY <1>2, <4>1, <4>2, <4>3, Zenon DEF Closers
      <4>5. streams' = [streams EXCEPT ![Target(t)] = None]
        BY <3>1, Zenon DEF CloseErase, Unregister
      <4> QED
        BY <2>1, <4>4, <4>5, Zenon
    <3>2. ~StopSnapshot
      BY <2>1, Zenon DEF StopSnapshot
    <3>3. UNCHANGED streams => streams'[keyOf[local]] = local
      BY <2>1, Zenon
    <3> QED
      BY <1>2, <3>1, <3>2, <3>3, OwnerSteps, Zenon
      DEF CloseJoin, StopJoinRx, StopClose, table
  <2>4. ~stale'[local]
    BY <1>2, <2>1, StepEffects, Zenon DEF AgeStream
  <2>5. /\ keyOf[local] \notin sweep'
        /\ pc'["idle"] = "erase" => arg'["idle"] # keyOf[local]
    <3>1. CASE MonitorScan
      BY <2>1, <3>1, Zenon DEF MonitorScan, StaleKeys
    <3>2. ASSUME NEW k \in Keys, MonitorClose(k)
          PROVE  keyOf[local] \notin sweep' /\ arg'["idle"] # keyOf[local]
      BY <2>1, <3>2, Zenon DEF MonitorClose
    <3> QED
      BY <2>1, <3>1, <3>2, StepEffects, Zenon
  <2> QED
    BY <1>2, <2>1, <2>2, <2>3, <2>4, <2>5, Zenon
<1> QED
  BY <1>1, <1>2, StepEffects, Zenon

\* Every step keeps a joinable rx_thread with a Stream that somebody owns.
LEMMA OwnedNext ==
    ASSUME PhaseInv, FreshKeys, Opening, Owned, [Next]_vars
    PROVE  Owned'
<1> SUFFICES ASSUME NEW s \in Streams, handle'[s] = "joinable"
             PROVE  \/ Registered(s)' \/ s \in snapshot'
                    \/ \E t \in Threads : held'[t] = s
  BY Zenon DEF Owned
<1>0. TypeInv /\ Ownership /\ Phases /\ ObjectTypes /\ Locals
  BY TypesOfObjects, Zenon DEF PhaseInv, OwnInv
<1> USE <1>0, ThreadsDistinct DEF ObjectTypes, Allocated, Registered
\* handle[s] was joinable before, or OpenSpawn has just started the rx_thread.
<1>1. Registered(s) \/ s \in snapshot \/ \E t \in Threads : held[t] = s
  <2>1. handle[s] = "joinable" \/ (OpenSpawn /\ s = local)
    <3>1. CASE UNCHANGED handle
      BY <3>1, Zenon
    <3>2. CASE OpenSpawn
      BY <3>2, Zenon DEF OpenSpawn
    <3>3. ASSUME NEW t \in Threads, NEW u, EndJoinable(t, u) PROVE handle[s] = "joinable"
      BY <3>3, Zenon DEF EndJoinable
    <3>4. CASE \E t \in Closers : CloseJoin(t)
      BY <3>3, <3>4, Zenon DEF CloseJoin, Closers, Threads
    <3>5. CASE StopJoinRx
      BY <3>3, <3>5, Zenon DEF StopJoinRx
    <3> QED
      BY <3>1, <3>2, <3>4, <3>5, StepEffects, Zenon
  <2>2. CASE OpenSpawn /\ s = local
    BY <2>2, Zenon DEF OpenSpawn, Opening
  <2> QED
    BY <2>1, <2>2, Zenon DEF Owned
<1>2. CASE UNCHANGED <<streams, perClient, keyOf, held, snapshot>>
  BY <1>1, <1>2, Zenon
<1>3. ASSUME NEW u \in Streams, NEW n \in FDs, OpenRegister(u, n)
      PROVE  Registered(s)' \/ s \in snapshot' \/ \E t \in Threads : held'[t] = s
  <2>1. arg["handler"] \in Keys /\ \A v \in Streams : keyOf[v] # arg["handler"]
    BY <1>3, Zenon DEF OpenRegister, Locals, FreshKeys
  <2>2. CASE Registered(s)
    BY <1>3, <2>1, <2>2, Zenon DEF OpenRegister
  <2> QED
    BY <1>1, <1>3, <2>2, Zenon DEF OpenRegister
<1>4. ASSUME NEW t \in Closers, CloseErase(t)
      PROVE  Registered(s)' \/ s \in snapshot' \/ \E x \in Threads : held'[x] = s
  <2>1. held[t] = None /\ Target(t) \in Keys
    BY <1>4, Zenon DEF CloseErase, Phases, Target, Closers, Locals
  <2>2. UNCHANGED <<keyOf, snapshot>> /\ held' = [held EXCEPT ![t] = streams[Target(t)]]
    BY <1>4, Zenon DEF CloseErase, objects
  <2>3. CASE Registered(s)
    <3>1. CASE keyOf[s] = Target(t)
      BY <2>2, <2>3, <3>1, Zenon
    <3>2. CASE keyOf[s] # Target(t)
      BY <1>4, <2>1, <2>2, <2>3, <3>2, SMTT(30), ZenonT(30) DEF CloseErase, Unregister
    <3> QED
      BY <3>1, <3>2, Zenon
  <2>4. ASSUME NEW x \in Threads, held[x] = s PROVE held'[x] = s
    BY <2>1, <2>2, <2>4, Zenon
  <2> QED
    BY <1>1, <2>2, <2>3, <2>4, Zenon
<1>5. ASSUME NEW t \in Threads, held' = [held EXCEPT ![t] = None],
             EndJoinable(t, held[t]), UNCHANGED <<streams, keyOf, snapshot>>
      PROVE  Registered(s)' \/ s \in snapshot' \/ \E x \in Threads : held'[x] = s
  <2>1. held[t] # s
    BY <1>5, Zenon DEF EndJoinable
  <2> QED
    BY <1>1, <1>5, <2>1, Zenon
<1>6. CASE \E t \in Closers : CloseJoin(t)
  BY <1>5, <1>6, Zenon DEF CloseJoin, table
<1>7. CASE StopJoinRx
  BY <1>5, <1>7, Zenon DEF StopJoinRx, table
<1>8. CASE StopSnapshot
  <2>1. snapshot = {} /\ UNCHANGED <<keyOf, held>>
    BY <1>8, Zenon DEF StopSnapshot, Phases, objects
  <2>2. Registered(s) => s \in snapshot'
    BY <1>8, Zenon DEF StopSnapshot, LiveStreams
  <2> QED
    BY <1>1, <2>1, <2>2, Zenon
<1>9. ASSUME NEW u \in Streams, StopClose(u)
      PROVE  Registered(s)' \/ s \in snapshot' \/ \E x \in Threads : held'[x] = s
  <2>1. /\ held["main"] = None /\ UNCHANGED <<streams, keyOf>>
        /\ snapshot' = snapshot \ {u} /\ held' = [held EXCEPT !["main"] = u]
    BY <1>9, Zenon DEF StopClose, Phases, table
  <2> QED
    BY <1>1, <2>1, Zenon
<1> QED
  BY <1>2, <1>3, <1>4, <1>6, <1>7, <1>8, <1>9, OwnerSteps, Zenon

\* If clients do not open an id twice and the stream does not go idle while it
\* is still being opened, no Stream is destroyed with a joinable rx_thread, so
\* ~std::thread() never calls terminate(): on every path closeStream joins or
\* detaches it, or stop() joins it, before the last StreamPtr is gone.
THEOREM RxThreadEnded ==
    ASSUME ~IdReuse, ~SlowOpen
    PROVE  Spec => []NoTerminate
<1>1. JoinInv /\ [Next]_vars => JoinInv'
  BY PhaseNext, FreshNext, OpeningNext, OwnedNext, Zenon DEF JoinInv
<1>2. JoinInv => NoTerminate
  <2> SUFFICES ASSUME JoinInv, NEW s \in Streams, handle[s] = "joinable"
               PROVE  Referenced(s)
    BY Zenon DEF NoTerminate
  <2>1. Registered(s) => \E k \in Keys : streams[k] = s
    BY Zenon DEF Registered, Allocated, JoinInv, PhaseInv, OwnInv, TypeInv, TypeOK
  <2> QED
    BY <2>1, Zenon DEF JoinInv, Owned, Referenced
<1> QED
  BY <1>1, <1>2, JoinInit, PTL DEF Spec

-----------------------------------------------------------------------------
(* What happens to a Stream whose id is used once *)

FreshInv == CloseInv /\ FreshKeys

\* No id has been used when the node starts, and every step keeps ids fresh.
LEMMA FreshInvariant ==
    ASSUME ~IdReuse
    PROVE  (Init => FreshInv) /\ (FreshInv /\ [Next]_vars => FreshInv')
<1>1. FreshInv /\ [Next]_vars => FreshInv'
  BY CloseNext, FreshNext, Zenon DEF FreshInv, CloseInv
<1> QED
  BY <1>1, CloseInit, JoinInit, Zenon DEF FreshInv, JoinInv

\* handleOpen puts the new Stream into an empty entry.
LEMMA EntryFree ==
    ASSUME FreshInv, NEW s \in Streams, NEW n \in FDs, OpenRegister(s, n)
    PROVE  arg["handler"] \in Keys /\ streams[arg["handler"]] = None
<1>1. Ownership /\ ObjectTypes /\ Locals /\ pc["handler"] = "connect"
  BY TypesOfObjects, Zenon DEF FreshInv, CloseInv, PhaseInv, OwnInv, OpenRegister
<1> QED
  BY <1>1, SMTT(30) DEF Ownership, ObjectTypes, Locals, FreshInv, FreshKeys

\* A thread that has taken a Stream out of the table and not yet shut it down.
TakenBy(t, s) == held[t] = s /\ pc[t] \in {"mark", "shut"}

\* The Streams that somebody still has to shut down.
Pending(s) == \/ Registered(s) \/ s \in snapshot
              \/ \E t \in Threads : TakenBy(t, s)

\* A step shuts a Stream down, or leaves it pending; and only handleOpen makes
\* a Stream pending.
LEMMA PendingSteps ==
    ASSUME FreshInv, [Next]_vars, NEW s \in Streams
    PROVE  /\ Pending(s) => \/ Pending(s)'
                            \/ \E t \in Closers : CloseShut(t) /\ held[t] = s
                            \/ StopClose(s)
           /\ Pending(s)' => Pending(s) \/ \E n \in FDs : OpenRegister(s, n)
<1>0. /\ TypeInv /\ Ownership /\ Phases /\ Closing
      /\ closed \in [Streams -> BOOLEAN]
      /\ ObjectTypes /\ Locals /\ ObjectTypes'
  BY TypesOfClosing, TypesOfObjects, TypeNext, Zenon DEF FreshInv, CloseInv, PhaseInv, OwnInv
<1> USE <1>0, ThreadsDistinct
        DEF Tearing, Allocated, Registered, TakenBy, Pending, ObjectTypes, table, objects
<1>1. CASE /\ UNCHANGED <<streams, keyOf, held, snapshot, closed, fd, sock>>
           /\ \A t \in Threads : pc'[t] = pc[t] \/ {pc[t], pc'[t]} \cap Tearing = {}
  BY <1>1, Zenon
<1>2. ASSUME NEW u \in Streams, NEW n \in FDs, OpenRegister(u, n)
      PROVE  (Pending(s) => Pending(s)') /\ (Pending(s)' => Pending(s) \/ OpenRegister(s, n))
  <2>1. arg["handler"] \in Keys /\ streams[arg["handler"]] = None /\ keyOf[u] = None
    BY <1>2, EntryFree, Zenon DEF OpenRegister
  <2>2. /\ keyOf' = [keyOf EXCEPT ![u] = arg["handler"]]
        /\ streams' = [streams EXCEPT ![arg["handler"]] = u]
        /\ \A t \in Threads : t # "handler" => pc'[t] = pc[t]
        /\ pc["handler"] = "connect" /\ pc'["handler"] = "ack"
        /\ UNCHANGED <<held, snapshot>>
    BY <1>2, Zenon DEF OpenRegister, StartOf
  <2> QED
    BY <1>2, <2>1, <2>2
<1>3. ASSUME NEW t \in Closers, CloseErase(t) PROVE Pending(s) <=> Pending(s)'
  <2>1. Target(t) \in Keys /\ streams[Target(t)] \in Streams
    BY <1>3, Zenon DEF CloseErase, Target, Closers, Locals
  <2>2. keyOf[streams[Target(t)]] = Target(t) /\ held[t] = None /\ t \in Threads
    BY <1>3, <2>1, Zenon DEF Ownership, Phases, CloseErase
  <2>3. /\ streams' = [streams EXCEPT ![Target(t)] = None]
        /\ held' = [held EXCEPT ![t] = streams[Target(t)]]
        /\ pc' = [pc EXCEPT ![t] = "mark"]
        /\ UNCHANGED <<keyOf, snapshot>>
    BY <1>3, Zenon DEF CloseErase, Unregister
  <2>4. CASE s = streams[Target(t)]
    BY <2>1, <2>2, <2>3, <2>4, SMTT(30)
  <2>5. CASE s # streams[Target(t)]
    <3>1. Registered(s)' <=> Registered(s)
      BY <2>1, <2>2, <2>3, <2>5, SMTT(30)
    <3>2. \A x \in Threads : TakenBy(x, s)' <=> TakenBy(x, s)
      BY <2>1, <2>2, <2>3, <2>5, SMTT(30)
    <3> QED
      BY <2>3, <3>1, <3>2, Zenon
  <2> QED
    BY <2>4, <2>5, Zenon
<1>4. ASSUME NEW t \in Closers, CloseMark(t) PROVE Pending(s) <=> Pending(s)'
  <2>1. held[t] \in Streams /\ ~closed[held[t]] /\ pc[t] = "mark" /\ t \in Threads
    BY <1>4, Zenon DEF CloseMark, Closing
  <2> QED
    BY <1>4, <2>1, Zenon DEF CloseMark
<1>5. ASSUME NEW t \in Closers, CloseShut(t)
      PROVE  (Pending(s) => Pending(s)' \/ held[t] = s) /\ (Pending(s)' => Pending(s))
  BY <1>5, Zenon DEF CloseShut
<1>6. ASSUME NEW t \in Closers, CloseJoin(t) PROVE Pending(s) <=> Pending(s)'
  BY <1>6, Zenon DEF CloseJoin, Resume
<1>7. CASE StopSnapshot
  <2>1. snapshot = {} /\ \A t \in Threads : TakenBy(t, s)' <=> TakenBy(t, s)
    BY <1>7, Zenon DEF StopSnapshot, Phases
  <2>2. Registered(s) <=> s \in LiveStreams
    BY SMTT(30) DEF LiveStreams, Ownership
  <2> QED
    BY <1>7, <2>1, <2>2, SMTT(30) DEF StopSnapshot
<1>8. CASE StopJoinRx
  BY <1>8, Zenon DEF StopJoinRx
<1>9. ASSUME NEW u \in Streams, StopClose(u)
      PROVE  (Pending(s) => Pending(s)' \/ u = s) /\ (Pending(s)' => Pending(s))
  <2>1. held["main"] = None /\ pc["main"] = "teardown"
    BY <1>9, Zenon DEF StopClose, Phases
  <2> QED
    <3>1. /\ \A t \in Threads \ {"main"} : pc'[t] = pc[t] /\ held'[t] = held[t]
          /\ pc'["main"] = "joinRx" /\ UNCHANGED <<streams, keyOf>>
          /\ snapshot' = snapshot \ {u}
      BY <1>9, Zenon DEF StopClose
    <3>2. \A t \in Threads : TakenBy(t, s)' <=> TakenBy(t, s)
      BY <2>1, <3>1, Zenon
    <3>3. Registered(s)' <=> Registered(s)
      BY <3>1, Zenon
    <3> QED
      BY <3>1, <3>2, <3>3, Zenon
<1> HIDE DEF Pending
<1> QED
  BY <1>1, <1>2, <1>3, <1>4, <1>5, <1>6, <1>7, <1>8, <1>9, TeardownSteps, Zenon

\* A Stream with a descriptor is pending: somebody will close the descriptor.
DescriptorOwned == \A s \in Streams : fd[s] # None => Pending(s)

\* A step that closes the Stream's last way to be shut down closes its
\* descriptor.
LEMMA DescriptorNext ==
    ASSUME FreshInv, DescriptorOwned, [Next]_vars
    PROVE  DescriptorOwned'
<1> SUFFICES ASSUME NEW s \in Streams, fd'[s] # None PROVE Pending(s)'
  BY Zenon DEF DescriptorOwned
<1>0. /\ TypeInv /\ fd \in [Streams -> FDs \cup {None}] /\ ObjectTypes /\ Locals
      /\ Closing /\ Phases
  BY TypesOfClosing, Zenon DEF FreshInv, CloseInv, PhaseInv, OwnInv
<1> USE <1>0, ThreadsDistinct DEF table, objects
<1>1. ASSUME NEW n \in FDs, OpenRegister(s, n) PROVE Pending(s)'
  <2>1. arg["handler"] \in Keys
    BY <1>1, EntryFree, Zenon
  <2> QED
    BY <1>1, <2>1, Zenon DEF OpenRegister, ObjectTypes, Pending, Registered, Allocated
<1>2. CASE fd[s] # None
  <2>1. ASSUME NEW t \in Closers, CloseShut(t), held[t] = s PROVE FALSE
    BY <2>1, Zenon DEF CloseShut, ShutFd
  <2>2. ~StopClose(s)
    BY Zenon DEF StopClose, ShutFd
  <2> QED
    BY <1>2, <2>1, <2>2, PendingSteps, Zenon DEF DescriptorOwned
<1>3. CASE fd[s] = None
  <2>1. ASSUME NEW u \in Streams, NEW n \in FDs, OpenRegister(u, n) PROVE u = s
    BY <1>3, <2>1, Zenon DEF OpenRegister
  <2>2. ASSUME NEW t \in Closers, CloseShut(t) PROVE FALSE
    <3>1. held[t] \in Streams
      BY <2>2, Zenon DEF CloseShut, Closing, Tearing, Closers
    <3> QED
      BY <1>3, <2>2, <3>1, Zenon DEF CloseShut, ShutFd
  <2>3. ASSUME NEW u \in Streams, StopClose(u) PROVE FALSE
    BY <1>3, <2>3, Zenon DEF StopClose, ShutFd
  <2> QED
    BY <1>1, <1>3, <2>1, <2>2, <2>3, DescriptorSteps, Zenon
<1> QED
  BY <1>2, <1>3, Zenon

\* If no client opens an id twice, no path of open, close, idle timeout, EOF and
\* shutdown leaks a socket: a descriptor number in use belongs to a Stream that
\* is registered, in stop()'s snapshot, or about to be shut by some thread.
THEOREM SocketsOwned ==
    ASSUME ~IdReuse
    PROVE  Spec => []NoFdLeak
<1>1. Init => DescriptorOwned
  BY Zenon DEF Init, DescriptorOwned
<1>2. FreshInv /\ DescriptorOwned => NoFdLeak
  <2> SUFFICES ASSUME FreshInv, DescriptorOwned, NEW n \in FDs, sock[n] # None
               PROVE  fd[sock[n]] = n /\ Pending(sock[n])
    BY Zenon DEF NoFdLeak, Pending, TakenBy
  <2>1. sock[n] \in Streams /\ fd[sock[n]] = n
    BY TypesOfClosing, Zenon DEF FreshInv, CloseInv, PhaseInv, OwnInv, Descriptors
  <2> QED
    BY <2>1, ThreadsDistinct, Zenon DEF DescriptorOwned
<1> QED
  BY <1>1, <1>2, FreshInvariant, DescriptorNext, PTL DEF Spec

\* The transport does not come back up, and the frames counted for a Stream are
\* those of OpenAck and CloseShut.
LEMMA WireSteps ==
    ASSUME TypeInv, [Next]_vars
    PROVE  /\ Up' => Up
           /\ UNCHANGED closes \/ \E t \in Closers : CloseShut(t)
           /\ UNCHANGED acked \/ OpenAck
           /\ pc["handler"] = "ack" => OpenAck \/ (pc'["handler"] = "ack" /\ local' = local)
<1> DEFINE Goal ==
      /\ Up' => Up
      /\ UNCHANGED closes \/ \E t \in Closers : CloseShut(t)
      /\ UNCHANGED acked \/ OpenAck
      /\ pc["handler"] = "ack" => OpenAck \/ (pc'["handler"] = "ack" /\ local' = local)
<1>0. DOMAIN pc = Threads /\ (pc["handler"] = "spawn" => local \in Streams)
  BY Zenon DEF TypeInv, TypeOK, Locals
<1> USE <1>0, ThreadsDistinct DEF table, objects, wire, Up
<1>1. CASE Request
  BY <1>1, Zenon DEF Request, OpenRefuse, OpenAdmit, DataTooLarge, DataUnknown, DataFound, HandleClose
<1>2. ASSUME NEW t \in Closers, Close(t) PROVE Goal
  <2>1. CASE CloseAbsent(t) BY <2>1, Zenon DEF CloseAbsent, Forget, Closers
  <2>2. CASE CloseErase(t) BY <2>2, Zenon DEF CloseErase, Closers
  <2>3. CASE CloseMark(t) BY <2>3, Zenon DEF CloseMark, Closers
  <2>4. CASE CloseShut(t)
    <3>1. /\ Up' => Up
          /\ UNCHANGED acked
          /\ pc["handler"] = "ack" => pc'["handler"] = "ack" /\ local' = local
      BY <2>4, Zenon DEF CloseShut, Closers
    <3> QED
      BY <2>4, <3>1, Zenon
  <2>5. CASE CloseJoin(t) BY <2>5, Zenon DEF CloseJoin, Forget, Closers
  <2> QED
    BY <1>2, <2>1, <2>2, <2>3, <2>4, <2>5, Zenon DEF Close
<1>3. CASE HandlerStep
  <2>1. CASE OpenFail \/ OpenSpawnThrows
    BY <2>1, Zenon DEF OpenFail, OpenSpawnThrows
  <2>2. CASE \E s \in Streams, n \in FDs : OpenRegister(s, n)
    BY <2>2, Zenon DEF OpenRegister, StartOf
  <2>3. CASE OpenSpawn
    BY <2>3, Zenon DEF OpenSpawn
  <2>4. CASE DataCheck \/ DataSent \/ DataSendFails \/ DataSendKills
    BY <2>4, Zenon DEF DataCheck, DataSent, DataSendFails, DataSendKills
  <2>5. CASE OpenAck
    <3>1. (Up' => Up) /\ UNCHANGED closes
      BY <2>5, Zenon DEF OpenAck
    <3> QED
      BY <2>5, <3>1, Zenon
  <2> QED
    BY <1>2, <1>3, <2>1, <2>2, <2>3, <2>4, <2>5, Zenon DEF HandlerStep, HandlerReturns, HandlerRuns, Closers
<1>4. ASSUME NEW s \in Streams, RxStep(s) PROVE Goal
  <2>1. CASE RxLoad(s) \/ RxData(s) \/ RxEof(s)
    BY <2>1, Zenon DEF RxLoad, RxData, RxEof
  <2> QED
    BY <1>2, <1>4, <2>1, Zenon DEF RxStep, Closers
<1>5. CASE MonitorStep
  <2>1. CASE MonitorScan \/ MonitorLoop \/ \E k \in Keys : MonitorClose(k)
    BY <2>1, Zenon DEF MonitorScan, MonitorClose, MonitorLoop
  <2> QED
    BY <1>2, <1>5, <2>1, Zenon DEF MonitorStep, Closers
<1>6. CASE StopBegin \/ StopStep
  BY <1>6, Zenon DEF StopBegin, StopStep, StopRuntime, StopTransport, StopJoinIdle, StopSnapshot,
              StopClose, StopJoinRx, StopReturn, Running
<1>7. CASE Age
  BY <1>7, Zenon DEF Age, AgeStream, AgeRecent
<1>8. CASE UNCHANGED vars
  BY <1>8, Zenon DEF vars
<1> QED
  BY <1>1, <1>3, <1>4, <1>5, <1>6, <1>7, <1>8, Zenon DEF Next

\* A Stream has had its CLOSE exactly when it is no longer pending.
Notified ==
    \A s \in Streams :
        /\ closes[s] \in {0, 1}
        /\ ~Allocated(s) \/ Pending(s) => closes[s] = 0
        /\ Up /\ Allocated(s) => Pending(s) \/ closes[s] = 1

\* The step that shuts a Stream down sends its CLOSE, and no other step does.
LEMMA NotifiedNext ==
    ASSUME FreshInv, Notified, [Next]_vars
    PROVE  Notified'
<1> SUFFICES ASSUME NEW s \in Streams
             PROVE  /\ closes'[s] \in {0, 1}
                    /\ ~Allocated(s)' \/ Pending(s)' => closes'[s] = 0
                    /\ Up' /\ Allocated(s)' => Pending(s)' \/ closes'[s] = 1
  BY Zenon DEF Notified
<1>0. /\ TypeInv /\ Ownership /\ Phases /\ Closing
      /\ ObjectTypes /\ Locals /\ closes \in [Streams -> Nat]
  BY TypesOfClosing, Zenon DEF FreshInv, CloseInv, PhaseInv, OwnInv, TypeInv, TypeOK
<1>a. (Up' => Up) /\ (UNCHANGED closes \/ \E t \in Closers : CloseShut(t))
  BY <1>0, WireSteps, Zenon
<1>b. /\ Allocated(s) => Allocated(s)'
      /\ Allocated(s)' => Allocated(s) \/ \E n \in FDs : OpenRegister(s, n)
  <2>1. UNCHANGED keyOf \/ \E u \in Streams, n \in FDs : OpenRegister(u, n)
    BY OwnerSteps, Zenon DEF CloseErase, CloseJoin, StopSnapshot, StopJoinRx, StopClose, objects
  <2>2. ASSUME NEW u \in Streams, NEW n \in FDs, OpenRegister(u, n)
        PROVE  /\ Allocated(s) => Allocated(s)'
               /\ Allocated(s)' => Allocated(s) \/ OpenRegister(s, n)
    BY <1>0, <2>2, Zenon DEF OpenRegister, Allocated, ObjectTypes
  <2> QED
    BY <2>1, <2>2, Zenon DEF Allocated
<1>1. ASSUME NEW t \in Closers, CloseShut(t), held[t] = s
      PROVE  /\ closes'[s] \in {0, 1} /\ (Up => closes'[s] = 1)
             /\ Allocated(s)' /\ ~Pending(s)'
  <2>1. t \in Threads /\ pc[t] = "shut" /\ s # None /\ TakenBy(t, s)
    BY <1>1, ThreadsDistinct, Zenon DEF CloseShut, TakenBy
  <2>2. closes[s] = 0
    BY <2>1, Zenon DEF Notified, Pending
  <2>3. closes' = IF Up THEN [closes EXCEPT ![s] = @ + 1] ELSE closes
    BY <1>1, Zenon DEF CloseShut, NotifyClosed
  <2>4. closes'[s] = IF Up THEN 1 ELSE 0
    BY <1>0, <2>2, <2>3
  <2>5. /\ Allocated(s) /\ ~Registered(s) /\ s \notin snapshot
        /\ \A x \in Threads \ {t} : held[x] # s
    BY <1>0, <1>1, <2>1, Zenon DEF Ownership, OneCloser
  <2>6. /\ UNCHANGED <<streams, keyOf, held, snapshot>> /\ pc'[t] = "join"
    BY <1>0, <1>1, <2>1, Zenon DEF CloseShut, table, ObjectTypes
  <2>7. Allocated(s)' /\ ~Pending(s)'
    BY <2>5, <2>6, Zenon DEF Allocated, Registered, Pending, TakenBy
  <2> QED
    BY <2>4, <2>7, Zenon
<1>2. CASE ~\E t \in Closers : CloseShut(t) /\ held[t] = s
  <2>1. closes'[s] = closes[s]
    <3>1. ASSUME NEW t \in Closers, CloseShut(t) PROVE closes'[s] = closes[s]
      BY <1>0, <1>2, <3>1, Zenon DEF CloseShut, NotifyClosed
    <3> QED
      BY <1>a, <3>1, Zenon
  <2>2. ASSUME NEW n \in FDs, OpenRegister(s, n) PROVE ~Allocated(s) /\ Pending(s)'
    <3>1. arg["handler"] \in Keys
      BY <2>2, EntryFree, Zenon
    <3> QED
      BY <1>0, <2>2, <3>1, ThreadsDistinct, Zenon DEF OpenRegister, ObjectTypes, Pending, Registered, Allocated
  <2>3. Up => ~StopClose(s)
    BY Zenon DEF Up, StopClose
  <2> QED
    BY <1>2, <1>a, <1>b, <2>1, <2>2, <2>3, PendingSteps, Zenon DEF Notified
<1> QED
  BY <1>1, <1>2, <1>a, Zenon

\* If no client opens an id twice, the client is told of the end of a stream
\* exactly once, whichever of CLOSE, failed send, EOF and idle timeout ended it
\* and however many of them race for it.
THEOREM NotifiedOnce ==
    ASSUME ~IdReuse
    PROVE  Spec => []CloseNotifiedOnce
<1>1. Init => Notified
  BY ThreadsDistinct DEF Init, Notified, Allocated
<1>2. FreshInv /\ Notified => CloseNotifiedOnce
  <2> SUFFICES ASSUME FreshInv, Notified, NEW s \in Streams
               PROVE  /\ closes[s] <= 1
                      /\ (Up /\ Allocated(s) /\ ~Registered(s) /\
                            \A t \in Threads : held[t] = s => pc[t] = "join")
                         => closes[s] = 1
    BY Zenon DEF CloseNotifiedOnce
  <2>1. Up => snapshot = {}
    BY Zenon DEF FreshInv, CloseInv, PhaseInv, Phases, Up
  <2> QED
    BY <2>1 DEF Notified, Pending, TakenBy
<1> QED
  BY <1>1, <1>2, FreshInvariant, NotifiedNext, PTL DEF Spec

-----------------------------------------------------------------------------
(* streams_per_client_ *)

\* With ids used once a step raises the count with the entry and lowers it with
\* the entry.
LEMMA ExactNext ==
    ASSUME FreshInv, CountExact, [Next]_vars
    PROVE  CountExact'
<1> SUFFICES ASSUME NEW c \in Clients PROVE perClient'[c] = Cardinality(KeysOf(c)')
  BY Zenon DEF CountExact
<1>0. /\ TypeInv /\ ObjectTypes /\ Locals /\ perClient \in [Clients -> Nat]
      /\ streams \in [Keys -> Streams \cup {None}]
      /\ perClient[c] = Cardinality(KeysOf(c)) /\ IsFiniteSet(KeysOf(c))
      /\ Cardinality(KeysOf(c)) \in Nat
  BY TypesOfClosing, KeysOfFinite, Zenon
  DEF FreshInv, CloseInv, PhaseInv, OwnInv, TypeInv, TypeOK, CountExact
<1>1. CASE UNCHANGED <<streams, perClient>>
  BY <1>0, <1>1, Zenon DEF KeysOf
<1>2. ASSUME NEW s \in Streams, NEW n \in FDs, OpenRegister(s, n)
      PROVE  perClient'[c] = Cardinality(KeysOf(c)')
  <2> DEFINE k == arg["handler"]
  <2>1. k \in Keys /\ streams[k] = None /\ k[1] \in Clients
    BY <1>2, EntryFree, Zenon DEF Keys
  <2>2. /\ streams' = [streams EXCEPT ![k] = s]
        /\ perClient' = [perClient EXCEPT ![k[1]] = @ + 1]
    BY <1>2, Zenon DEF OpenRegister
  <2>3. KeysOf(c)' = IF k[1] = c THEN KeysOf(c) \cup {k} ELSE KeysOf(c)
    BY <1>0, <2>1, <2>2, KeysOfSet, ThreadsDistinct, ZenonT(30), SMTT(30)
  <2>4. k \notin KeysOf(c)
    BY <2>1, Zenon DEF KeysOf
  <2>5. Cardinality(KeysOf(c) \cup {k}) = Cardinality(KeysOf(c)) + 1
    BY <1>0, <2>4, FS_AddElement, Zenon
  <2>6. perClient'[c] = IF k[1] = c THEN perClient[c] + 1 ELSE perClient[c]
    BY <1>0, <2>1, <2>2, Zenon
  <2> QED
    BY <1>0, <2>3, <2>5, <2>6, Zenon
<1>3. ASSUME NEW t \in Closers, CloseErase(t)
      PROVE  perClient'[c] = Cardinality(KeysOf(c)')
  <2> DEFINE k == Target(t)
  <2>1. k \in Keys /\ k[1] \in Clients /\ streams[k] # None
    BY <1>0, <1>3, Zenon DEF CloseErase, Target, Closers, TypeInv, TypeOK, Locals, Keys
  <2>2. /\ streams' = [streams EXCEPT ![k] = None]
        /\ perClient' = [perClient EXCEPT ![k[1]] = IF @ > 0 THEN @ - 1 ELSE @]
    BY <1>3, Zenon DEF CloseErase, Unregister
  <2>3. KeysOf(c)' = KeysOf(c) \ {k}
    BY <1>0, <2>1, <2>2, KeysOfSet, Zenon
  <2>4. k \in KeysOf(c) <=> k[1] = c
    BY <2>1, Zenon DEF KeysOf
  <2>5. /\ IsFiniteSet(KeysOf(c) \ {k})
        /\ Cardinality(KeysOf(c) \ {k}) =
             IF k \in KeysOf(c) THEN Cardinality(KeysOf(c)) - 1 ELSE Cardinality(KeysOf(c))
    BY <1>0, FS_RemoveElement, Zenon
  <2>6. Cardinality(KeysOf(c) \ {k}) \in Nat
    BY <2>5, FS_CardinalityType, Zenon
  <2>7. perClient'[c] = IF k[1] = c /\ perClient[c] > 0 THEN perClient[c] - 1 ELSE perClient[c]
    BY <1>0, <2>1, <2>2, Zenon
  <2> QED
    BY <1>0, <2>3, <2>4, <2>5, <2>6, <2>7, SMTT(30)
<1>4. CASE StopSnapshot
  <2>1. KeysOf(c)' = {} /\ perClient'[c] = 0
    BY <1>4, Zenon DEF StopSnapshot, KeysOf
  <2> QED
    BY <2>1, FS_EmptySet, Zenon
<1> QED
  BY <1>1, <1>2, <1>3, <1>4, OwnerSteps, Zenon DEF CloseJoin, StopJoinRx, StopClose, table

\* If no client opens an id twice, streams_per_client_ is exactly the number of
\* the client's registered streams: no order of opens and closes costs a client
\* capacity or gives it some.
THEOREM CapacityExact ==
    ASSUME ~IdReuse
    PROVE  Spec => []CountExact
<1>1. Init => CountExact
  <2> SUFFICES ASSUME Init, NEW c \in Clients PROVE perClient[c] = Cardinality(KeysOf(c))
    BY Zenon DEF CountExact
  <2>1. KeysOf(c) = {} /\ perClient[c] = 0
    BY Zenon DEF Init, KeysOf
  <2> QED
    BY <2>1, FS_EmptySet, Zenon
<1> QED
  BY <1>1, FreshInvariant, ExactNext, PTL DEF Spec

-----------------------------------------------------------------------------
(* The order of ACK and CLOSE *)

\* While the transport is up, a Stream is acknowledged unless the handler is
\* just about to do so.
Acknowledged ==
    \A s \in Streams : Up /\ Allocated(s) => acked[s] \/ (pc["handler"] = "ack" /\ local = s)

AckInv == FreshInv /\ JoinInv /\ Notified /\ Acknowledged /\ AckPrecedesClose

\* Nobody closes a Stream before its ACK is out, and the ACK stays.
LEMMA AckNext ==
    ASSUME AckInv, [Next]_vars
    PROVE  Acknowledged' /\ AckPrecedesClose'
<1>0. /\ TypeInv /\ Ownership /\ ObjectTypes /\ Locals
      /\ acked \in [Streams -> BOOLEAN] /\ closes \in [Streams -> Nat]
  BY TypesOfClosing, Zenon DEF AckInv, FreshInv, CloseInv, PhaseInv, OwnInv, TypeInv, TypeOK
<1>1. /\ Up' => Up
      /\ UNCHANGED closes \/ \E t \in Closers : CloseShut(t)
      /\ UNCHANGED acked \/ OpenAck
      /\ pc["handler"] = "ack" => OpenAck \/ (pc'["handler"] = "ack" /\ local' = local)
  BY <1>0, WireSteps, Zenon
<1> USE <1>0, ThreadsDistinct DEF ObjectTypes
<1>2. CASE OpenAck
  <2>1. local \in Streams /\ Registered(local) /\ closes[local] = 0
    BY <1>2, Zenon DEF OpenAck, AckInv, JoinInv, Opening, Locals, Notified, Pending
  <2>2. /\ acked' = [acked EXCEPT ![local] = Up] /\ UNCHANGED <<closes, keyOf, local>>
        /\ pc["handler"] = "ack"
    BY <1>2, Zenon DEF OpenAck, objects
  <2>3. ASSUME NEW s \in Streams, Up', Allocated(s)' PROVE acked'[s]
    BY <1>1, <2>1, <2>2, <2>3, Zenon DEF AckInv, Acknowledged, Allocated
  <2>4. ASSUME NEW s \in Streams, closes'[s] > 0 PROVE acked'[s]
    <3>1. s # local /\ closes[s] > 0
      BY <2>1, <2>2, <2>4, SMTT(30)
    <3> QED
      BY <2>1, <2>2, <3>1, Zenon DEF AckInv, AckPrecedesClose
  <2> QED
    BY <2>3, <2>4, Zenon DEF Acknowledged, AckPrecedesClose
<1>3. CASE ~OpenAck
  <2>1. UNCHANGED acked
    BY <1>1, <1>3, Zenon
  <2>2. ASSUME NEW s \in Streams, Up', Allocated(s)'
        PROVE  acked'[s] \/ (pc'["handler"] = "ack" /\ local' = s)
    <3>1. CASE Allocated(s)
      BY <1>1, <1>3, <2>1, <2>2, <3>1, Zenon DEF AckInv, Acknowledged
    <3>2. ASSUME NEW n \in FDs, OpenRegister(s, n) PROVE pc'["handler"] = "ack" /\ local' = s
      BY <3>2, Zenon DEF OpenRegister, StartOf
    <3>3. ASSUME NEW u \in Streams, NEW n \in FDs, OpenRegister(u, n) PROVE Allocated(s) \/ u = s
      BY <2>2, <3>3, Zenon DEF OpenRegister, Allocated
    <3>4. UNCHANGED keyOf \/ \E u \in Streams, n \in FDs : OpenRegister(u, n)
      BY OwnerSteps, Zenon DEF CloseErase, CloseJoin, StopSnapshot, StopJoinRx, StopClose, objects
    <3> QED
      BY <2>2, <3>1, <3>2, <3>3, <3>4, SMTT(30) DEF Allocated
  <2>3. ASSUME NEW s \in Streams, closes'[s] > 0 PROVE acked'[s]
    <3>1. CASE closes[s] > 0
      BY <2>1, <3>1, Zenon DEF AckInv, AckPrecedesClose
    <3>2. ASSUME NEW t \in Closers, CloseShut(t), ~(closes[s] > 0) PROVE acked[s]
      <4>1. Up /\ held[t] = s
        BY <2>3, <3>2, Zenon DEF CloseShut, NotifyClosed
      <4>2. Allocated(s) /\ ~Registered(s)
        BY <4>1, Zenon DEF Ownership, OneCloser, Closers
      <4> QED
        BY <4>1, <4>2, Zenon DEF AckInv, Acknowledged, JoinInv, Opening
    <3> QED
      BY <1>1, <2>1, <2>3, <3>1, <3>2, Zenon
  <2> QED
    BY <2>2, <2>3, Zenon DEF Acknowledged, AckPrecedesClose
<1> QED
  BY <1>2, <1>3, Zenon

\* If no client opens an id twice and no stream expires while it is being
\* opened, the CLOSE of a stream never overtakes its OPEN ACK.
THEOREM AckFirst ==
    ASSUME ~IdReuse, ~SlowOpen
    PROVE  Spec => []AckPrecedesClose
<1>1. Init => AckInv
  <2> SUFFICES ASSUME Init PROVE Notified /\ Acknowledged /\ AckPrecedesClose
    BY FreshInvariant, JoinInit, Zenon DEF AckInv
  <2> QED
    BY ThreadsDistinct DEF Init, Notified, Acknowledged, AckPrecedesClose, Allocated
<1>2. AckInv /\ [Next]_vars => AckInv'
  <2> SUFFICES ASSUME AckInv, [Next]_vars PROVE AckInv'
    BY Zenon
  <2>1. FreshInv' /\ JoinInv' /\ Notified'
    BY FreshInvariant, PhaseNext, FreshNext, OpeningNext, OwnedNext, NotifiedNext, Zenon
    DEF AckInv, JoinInv
  <2> QED
    BY <2>1, AckNext, Zenon DEF AckInv
<1>3. AckInv => AckPrecedesClose
  BY Zenon DEF AckInv
<1> QED
  BY <1>1, <1>2, <1>3, PTL DEF Spec

-----------------------------------------------------------------------------
(* What is left when stop() returns *)

\* A running rx_thread is joinable and closes no Stream but its own; from its
\* snapshot on, stop() is alone with the rx_threads and the table is empty.
Outliving ==
    /\ \A s \in Streams : pc[s] \notin {"unborn", "done"} => handle[s] = "joinable"
    /\ \A s \in Streams : held[s] \in {None, s}
    /\ pc["main"] \in {"snapshot", "teardown", "joinRx", "stopped"} => pc["idle"] = "done"
    /\ pc["main"] \in {"teardown", "joinRx", "stopped"} => \A k \in Keys : streams[k] = None

\* An rx_thread is started by OpenSpawn, stop() gets past its join of the monitor
\* when that is done, and past its snapshot by taking it.
LEMMA LifeSteps ==
    ASSUME TypeInv, [Next]_vars
    PROVE  /\ \A s \in Streams : pc'[s] \notin {"unborn", "done"} =>
                pc[s] \notin {"unborn", "done"} \/ (OpenSpawn /\ local = s)
           /\ pc'["main"] \in {"snapshot", "teardown", "joinRx", "stopped"} =>
                \/ pc["main"] \in {"snapshot", "teardown", "joinRx", "stopped"}
                \/ pc["idle"] = "done"
           /\ pc["idle"] = "done" => pc'["idle"] = "done"
           /\ pc'["main"] \in {"teardown", "joinRx", "stopped"} =>
                pc["main"] \in {"teardown", "joinRx", "stopped"} \/ StopSnapshot
<1> DEFINE Goal ==
      /\ \A s \in Streams : pc'[s] \notin {"unborn", "done"} =>
           pc[s] \notin {"unborn", "done"} \/ (OpenSpawn /\ local = s)
      /\ pc'["main"] \in {"snapshot", "teardown", "joinRx", "stopped"} =>
           \/ pc["main"] \in {"snapshot", "teardown", "joinRx", "stopped"}
           \/ pc["idle"] = "done"
      /\ pc["idle"] = "done" => pc'["idle"] = "done"
      /\ pc'["main"] \in {"teardown", "joinRx", "stopped"} =>
           pc["main"] \in {"teardown", "joinRx", "stopped"} \/ StopSnapshot
<1>0. DOMAIN pc = Threads /\ (pc["handler"] = "spawn" => local \in Streams)
  BY Zenon DEF TypeInv, TypeOK, Locals
<1> USE <1>0, ThreadsDistinct
<1>1. CASE Request
  BY <1>1, Zenon DEF Request, OpenRefuse, OpenAdmit, DataTooLarge, DataUnknown, DataFound, HandleClose
<1>2. ASSUME NEW t \in Closers, Close(t) PROVE Goal
  BY <1>2, Zenon DEF Close, CloseAbsent, CloseErase, CloseMark, CloseShut, CloseJoin, Resume, Closers
<1>3. CASE HandlerStep
  <2>1. CASE OpenFail \/ OpenSpawnThrows \/ OpenAck
    BY <2>1, Zenon DEF OpenFail, OpenSpawnThrows, OpenAck
  <2>2. CASE \E s \in Streams, n \in FDs : OpenRegister(s, n)
    BY <2>2, Zenon DEF OpenRegister, StartOf
  <2>3. CASE OpenSpawn
    <3>1. local \in Streams /\ pc' = [pc EXCEPT !["handler"] = "ready", ![local] = "loop"]
      BY <2>3, Zenon DEF OpenSpawn
    <3> QED
      BY <2>3, <3>1, Zenon
  <2>4. CASE DataCheck \/ DataSent \/ DataSendFails \/ DataSendKills
    BY <2>4, Zenon DEF DataCheck, DataSent, DataSendFails, DataSendKills
  <2> QED
    BY <1>2, <1>3, <2>1, <2>2, <2>3, <2>4, Zenon DEF HandlerStep, HandlerReturns, HandlerRuns, Closers
<1>4. ASSUME NEW s \in Streams, RxStep(s) PROVE Goal
  <2>1. CASE RxLoad(s) \/ RxData(s) \/ RxEof(s)
    BY <2>1, Zenon DEF RxLoad, RxData, RxEof
  <2> QED
    BY <1>2, <1>4, <2>1, Zenon DEF RxStep, Closers
<1>5. CASE MonitorStep
  <2>1. CASE MonitorScan \/ MonitorLoop \/ \E k \in Keys : MonitorClose(k)
    BY <2>1, Zenon DEF MonitorScan, MonitorClose, MonitorLoop
  <2> QED
    BY <1>2, <1>5, <2>1, Zenon DEF MonitorStep, Closers
<1>6. CASE StopBegin \/ StopStep
  <2>1. CASE StopSnapshot
    <3>1. pc["main"] = "snapshot" /\ pc' = [pc EXCEPT !["main"] = "teardown"]
      BY <2>1, Zenon DEF StopSnapshot
    <3> QED
      BY <2>1, <3>1, Zenon
  <2> QED
    BY <1>6, <2>1, Zenon DEF StopBegin, StopStep, StopRuntime, StopTransport, StopJoinIdle,
                      StopClose, StopJoinRx, StopReturn, Running
<1>7. CASE Age
  BY <1>7, Zenon DEF Age, AgeStream, AgeRecent
<1>8. CASE UNCHANGED vars
  BY <1>8, Zenon DEF vars
<1> QED
  BY <1>1, <1>3, <1>4, <1>5, <1>6, <1>7, <1>8, Zenon DEF Next

\* Every step keeps this.
LEMMA OutlivingNext ==
    ASSUME PhaseInv, FreshKeys, Outliving, [Next]_vars
    PROVE  Outliving'
<1>0. TypeInv /\ Ownership /\ Phases /\ ObjectTypes /\ Locals /\ ObjectTypes'
  BY TypesOfObjects, TypeNext, Zenon DEF PhaseInv, OwnInv
<1> USE <1>0, ThreadsDistinct DEF ObjectTypes
<1>1. ASSUME NEW s \in Streams, pc'[s] \notin {"unborn", "done"} PROVE handle'[s] = "joinable"
  <2>1. CASE OpenSpawn
    <3>1. handle' = [handle EXCEPT ![local] = "joinable"] /\ local \in Streams
      BY <2>1, Zenon DEF OpenSpawn, Locals
    <3>2. s = local \/ handle[s] = "joinable"
      BY <1>1, LifeSteps, Zenon DEF Outliving
    <3> QED
      BY <3>1, <3>2, Zenon
  <2>2. CASE ~OpenSpawn
    <3>1. pc[s] \notin {"unborn", "done"} /\ handle[s] = "joinable"
      BY <1>1, <2>2, LifeSteps, Zenon DEF Outliving
    <3>2. ASSUME NEW t \in Closers, CloseJoin(t) PROVE handle'[s] = "joinable"
      <4>1. CASE t = s
        BY <1>1, <3>2, <4>1, Zenon DEF CloseJoin, Resume
      <4>2. CASE t # s
        BY <3>1, <3>2, <4>2, SMTT(30) DEF CloseJoin, EndJoinable
      <4> QED BY <4>1, <4>2, Zenon
    <3>3. CASE StopJoinRx
      BY <3>1, <3>3, SMTT(30) DEF StopJoinRx, EndJoinable
    <3> QED
      BY <2>2, <3>1, <3>2, <3>3, StepEffects, Zenon
  <2> QED
    BY <2>1, <2>2, Zenon
<1>2. ASSUME NEW s \in Streams PROVE held'[s] \in {None, s}
  <2>1. CASE UNCHANGED held
    BY <2>1, Zenon DEF Outliving
  <2>2. ASSUME NEW t \in Closers, CloseErase(t) PROVE held'[s] \in {None, s}
    <3>1. CASE t = s
      <4>1. keyOf[s] \in Keys /\ streams[keyOf[s]] \in Streams /\ held'[s] = streams[keyOf[s]]
        BY <2>2, <3>1, Zenon DEF CloseErase, Target, Locals
      <4>2. keyOf[streams[keyOf[s]]] = keyOf[s]
        BY <4>1, Zenon DEF Ownership
      <4> QED
        BY <4>1, <4>2, Zenon DEF FreshKeys, Allocated
    <3>2. CASE t # s
      BY <2>2, <3>2, Zenon DEF CloseErase, Outliving
    <3> QED BY <3>1, <3>2, Zenon
  <2>3. CASE StopJoinRx \/ (\E u \in Streams : StopClose(u)) \/ \E t \in Closers : CloseJoin(t)
    BY <2>3, SMTT(30) DEF StopJoinRx, StopClose, CloseJoin, Outliving
  <2> QED
    BY <2>1, <2>2, <2>3, OwnerSteps, Zenon DEF OpenRegister, StopSnapshot
<1>3. pc'["main"] \in {"snapshot", "teardown", "joinRx", "stopped"} => pc'["idle"] = "done"
  BY LifeSteps, Zenon DEF Outliving
<1>4. ASSUME pc'["main"] \in {"teardown", "joinRx", "stopped"}, NEW k \in Keys
      PROVE  streams'[k] = None
  <2>1. CASE StopSnapshot
    BY <2>1, Zenon DEF StopSnapshot
  <2>2. CASE ~StopSnapshot
    <3>1. pc["main"] \in {"teardown", "joinRx", "stopped"} /\ pc["handler"] = "done" /\ streams[k] = None
      BY <1>4, <2>2, LifeSteps, Zenon DEF Outliving, Phases
    <3>2. ASSUME NEW t \in Closers, CloseErase(t) PROVE streams'[k] = None
      BY <3>1, <3>2, Zenon DEF CloseErase, Unregister
    <3> QED
      BY <2>2, <3>1, <3>2, OwnerSteps, Zenon
      DEF OpenRegister, CloseJoin, StopJoinRx, StopClose, table
  <2> QED
    BY <2>1, <2>2, Zenon
<1> QED
  BY <1>1, <1>2, <1>3, <1>4, Zenon DEF Outliving

\* If no client opens an id twice and no stream expires while it is being
\* opened, stop() returns only when every rx_thread has ended, except those that
\* are in closeStream for their own Stream and detach themselves.
THEOREM StopWaitsForReaders ==
    ASSUME ~IdReuse, ~SlowOpen
    PROVE  Spec => []OnlyDetachingOutlive
<1>1. Init => JoinInv /\ Outliving
  <2> SUFFICES ASSUME Init PROVE Outliving
    BY JoinInit, Zenon
  <2> QED
    BY ThreadsDistinct, Zenon DEF Init, Outliving, Threads
<1>2. JoinInv /\ Outliving /\ [Next]_vars => (JoinInv /\ Outliving)'
  BY PhaseNext, FreshNext, OpeningNext, OwnedNext, OutlivingNext, Zenon DEF JoinInv
<1>3. JoinInv /\ Outliving => OnlyDetachingOutlive
  <2> SUFFICES ASSUME JoinInv, Outliving, pc["main"] = "stopped",
                      NEW s \in Streams, pc[s] \notin {"unborn", "done"}
               PROVE  held[s] = s
    BY Zenon DEF OnlyDetachingOutlive
  <2>1. ObjectTypes /\ Phases /\ Owned
    BY TypesOfObjects, Zenon DEF JoinInv, PhaseInv, OwnInv
  <2>2. /\ ~Registered(s) /\ snapshot = {} /\ held["main"] = None
        /\ held["handler"] = None /\ held["idle"] = None
    <3>1. pc["handler"] = "done" /\ pc["idle"] = "done" /\ \A k \in Keys : streams[k] = None
      BY <2>1, Zenon DEF Outliving, Phases
    <3> QED
      BY <2>1, <3>1, ThreadsDistinct, Zenon DEF Phases, Closers, Registered, Allocated, ObjectTypes
  <2>3. PICK t \in Threads : held[t] = s
    BY <2>1, <2>2, Zenon DEF Outliving, Owned
  <2> QED
    BY <2>2, <2>3, ThreadsDistinct, Zenon DEF Threads, Outliving
<1> QED
  BY <1>1, <1>2, <1>3, PTL DEF Spec
=============================================================================
