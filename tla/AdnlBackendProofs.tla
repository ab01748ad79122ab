------------------------- MODULE AdnlBackendProofs -------------------------
(***************************************************************************)
(* The ADNL backend implements QueryPromise, for every set of clients,     *)
(* datagrams, queries and relay threads.                                   *)
(***************************************************************************)
EXTENDS AdnlBackend, TLAPS

Outcomes == {"answer", "invalid", "superseded", "lost"}
Places   == {"idle", "check", "answer", "lookup", "post"}

TableTypes ==
    /\ pending \in [Streams -> Queries \cup {None}]
    /\ log \in [Queries -> Seq(Outcomes)]
    /\ asked \in [Queries -> Asks \cup {None}]
    /\ call \in Calls \cup {None}
    /\ send \in [Threads -> [at : Places, stream : Streams \cup {None}]]
    /\ \A t \in Threads : send[t].at # "idle" => send[t].stream \in Streams

\* A promise waits for one stream only and is not settled; a query that was
\* settled has been asked.
Waiting ==
    /\ \A s \in Streams : pending[s] # None => log[pending[s]] = <<>> /\ asked[pending[s]] # None
    /\ \A s, r \in Streams : pending[s] # None /\ pending[s] = pending[r] => s = r
    /\ \A q \in Queries : log[q] # <<>> => asked[q] # None

\* The callbacks run only while the runtime exists.
Phases ==
    /\ main = "new" => handle = "null" /\ sched = "none" /\ \A s \in Streams : pending[s] = None
    /\ sched \in {"init", "run"} => main \in {"up", "join"}
    /\ main \in {"up", "join", "destroy"} => handle = "live"
    /\ main = "forget" => handle = "freed"
    /\ main = "down" => handle = "null"
    /\ main \in {"new", "up", "join", "destroy", "forget", "down"}

IInv == TableTypes /\ Waiting /\ Phases

\* None is not confused with a query, a callback or a stream's question.
LEMMA NoneDistinct == None \notin Queries /\ None \notin Calls /\ None \notin Asks
BY NoneAssumption, Zenon

\* Nothing waits before start.
LEMMA InvInit == Init => IInv
<1> SUFFICES ASSUME Init PROVE IInv
  BY Zenon
<1> USE NoneDistinct DEF Init
<1>1. TableTypes BY DEF TableTypes, Idle, Places, Threads
<1>2. Waiting BY Zenon DEF Waiting
<1>3. Phases BY Zenon DEF Phases
<1> QED BY <1>1, <1>2, <1>3, Zenon DEF IInv

\* sendToClient is at one of its places, with a stream when it is not idle.
LEMMA MoveTyped ==
    ASSUME TableTypes, NEW t \in Threads, NEW l \in Places, send[t].at # "idle", Move(t, l)
    PROVE  /\ send' \in [Threads -> [at : Places, stream : Streams \cup {None}]]
           /\ \A u \in Threads : send'[u].at # "idle" => send'[u].stream \in Streams
BY Zenon DEF TableTypes, Move, Idle, Places

\* What the promise table looks like after an answer.
LEMMA AnswerKept ==
    ASSUME IInv, NEW t \in Threads, SendAnswer(t) PROVE IInv'
<1> USE NoneDistinct
<1> DEFINE s == send[t].stream
<1>1. s \in Streams /\ send[t].at # "idle" BY Zenon DEF IInv, TableTypes, SendAnswer, At
<1>2. CASE pending[s] = None
  <2>1. log' = log /\ pending' = pending
    BY <1>1, <1>2, Zenon DEF SendAnswer, IInv, TableTypes
  <2>2. TableTypes' BY <1>1, <2>1, MoveTyped, Zenon DEF SendAnswer, IInv, TableTypes, Places
  <2>3. Waiting' BY <2>1, Zenon DEF SendAnswer, IInv, Waiting
  <2>4. Phases' BY <2>1, Zenon DEF SendAnswer, IInv, Phases
  <2> QED BY <2>2, <2>3, <2>4, Zenon DEF IInv
<1>3. CASE pending[s] # None
  <2> DEFINE q == pending[s]
  <2>1. q \in Queries BY <1>1, <1>3, Zenon DEF IInv, TableTypes
  <2>2. /\ log' = [log EXCEPT ![q] = Append(@, "answer")]
        /\ pending' = [pending EXCEPT ![s] = None]
    BY <1>3, Zenon DEF SendAnswer
  <2>3. TableTypes'
    <3>1. log' \in [Queries -> Seq(Outcomes)]
      BY <2>1, <2>2 DEF IInv, TableTypes, Outcomes
    <3>2. pending' \in [Streams -> Queries \cup {None}]
      BY <1>1, <2>2, Zenon DEF IInv, TableTypes
    <3> QED BY <1>1, <3>1, <3>2, MoveTyped, Zenon DEF SendAnswer, IInv, TableTypes, Places
  <2>4. Waiting'
    <3>1. \A r \in Streams : pending'[r] # None => pending'[r] = pending[r] /\ r # s /\ pending[r] # q
      BY <1>1, <2>2, <1>3, Zenon DEF IInv, TableTypes, Waiting
    <3>2. \A p \in Queries : p # q => log'[p] = log[p]
      BY <2>2, Zenon DEF IInv, TableTypes
    <3>3. asked' = asked /\ asked[q] # None
      BY <1>1, <1>3, Zenon DEF SendAnswer, IInv, Waiting
    <3> QED BY <2>1, <3>1, <3>2, <3>3 DEF IInv, Waiting, TableTypes
  <2>5. Phases' BY <1>1, <1>3, <2>2, Zenon DEF SendAnswer, IInv, Phases
  <2> QED BY <2>3, <2>4, <2>5, Zenon DEF IInv
<1> QED BY <1>2, <1>3, Zenon

\* on_adnl_query puts a promise into the table that was in no place before.
LEMMA QueryKept ==
    ASSUME IInv, NEW q \in Queries, NEW c \in Clients, NEW d \in Datagrams, ReceiveQuery(q, c, d)
    PROVE  IInv'
<1> USE NoneDistinct
<1> DEFINE s == <<c, StreamId(d, 1)>>
           fs == FramesOf(d)
           a == <<IF fs = <<>> THEN 0 ELSE fs[1][1], s>>
<1>1. /\ s \in Streams /\ fs \in Seq(Types \X Ids)
      /\ <<c, fs, q>> \in Calls
  BY DatagramsAssumption, Zenon DEF ReceiveQuery, Streams, Calls
<1>2. a \in Asks /\ a # None
  <2>1. fs # <<>> => fs[1] \in Types \X Ids BY <1>1
  <2>2. a \in Asks BY <1>1, <2>1, Zenon DEF Asks
  <2> QED BY <2>2, Zenon
<1>3. /\ asked[q] = None
      /\ asked' = [asked EXCEPT ![q] = a]
      /\ pending' = [pending EXCEPT ![s] = q]
      /\ call' = <<c, fs, q>>
      /\ UNCHANGED <<main, handle, running, adnl, sched, scheduler, send>>
  BY Zenon DEF ReceiveQuery, NextQuery, Supersede
<1>4. \A p \in Queries : pending[s] # p => log'[p] = log[p]
  BY <1>1, Zenon DEF ReceiveQuery, Supersede, IInv, TableTypes
<1>5. log' \in [Queries -> Seq(Outcomes)]
  BY <1>1 DEF ReceiveQuery, Supersede, IInv, TableTypes, Outcomes
<1>6. \A r \in Streams : pending[r] # q
  BY <1>3, Zenon DEF IInv, Waiting
<1>7. TableTypes'
  BY <1>1, <1>2, <1>3, <1>5, Zenon DEF IInv, TableTypes
<1>8. Waiting'
  <2>1. \A r \in Streams : r # s /\ pending[r] # None => pending[r] # pending[s]
    BY <1>1, Zenon DEF IInv, Waiting
  <2>2. log'[q] = <<>>
    BY <1>1, <1>3, <1>4, <1>6, Zenon DEF IInv, Waiting
  <2>3. \A r \in Streams : pending'[r] = IF r = s THEN q ELSE pending[r]
    BY <1>1, <1>3, Zenon DEF IInv, TableTypes
  <2>4. \A p \in Queries : asked'[p] = IF p = q THEN a ELSE asked[p]
    BY <1>3, Zenon DEF IInv, TableTypes
  <2>5. \A r \in Streams : pending'[r] # None =>
            log'[pending'[r]] = <<>> /\ asked'[pending'[r]] # None
    <3> SUFFICES ASSUME NEW r \in Streams, pending'[r] # None
                 PROVE  log'[pending'[r]] = <<>> /\ asked'[pending'[r]] # None
      BY Zenon
    <3>1. CASE r = s BY <3>1, <1>2, <2>2, <2>3, <2>4, Zenon
    <3>2. CASE r # s
      <4>1. pending'[r] = pending[r] /\ pending[r] \in Queries /\ pending[r] # q
        BY <3>2, <1>6, <2>3, Zenon DEF IInv, TableTypes
      <4>2. log[pending[r]] = <<>> /\ asked[pending[r]] # None
        BY <4>1, Zenon DEF IInv, Waiting
      <4> QED BY <3>2, <4>1, <4>2, <2>1, <2>4, <1>4, Zenon
    <3> QED BY <3>1, <3>2, Zenon
  <2>6. \A r, u \in Streams : pending'[r] # None /\ pending'[r] = pending'[u] => r = u
    BY <1>6, <2>3, Zenon DEF IInv, Waiting
  <2>7. \A p \in Queries : log'[p] # <<>> => asked'[p] # None
    BY <1>1, <1>2, <1>4, <2>4, Zenon DEF IInv, Waiting
  <2> QED BY <2>5, <2>6, <2>7, Zenon DEF Waiting
<1>9. Phases'
  BY <1>3, Zenon DEF ReceiveQuery, CanReceive, IInv, Phases
<1> QED BY <1>7, <1>8, <1>9, Zenon DEF IInv

\* ton_adnl_destroy empties the table.
LEMMA DestroyKept == ASSUME IInv, Destroy PROVE IInv'
<1> USE NoneDistinct
<1>1. TableTypes'
  <2>1. log' \in [Queries -> Seq(Outcomes)]
    BY DEF Destroy, IInv, TableTypes, Outcomes
  <2> QED BY <2>1, Zenon DEF Destroy, IInv, TableTypes
<1>2. Waiting' BY Zenon DEF Destroy, IInv, TableTypes, Waiting
<1>3. Phases' BY Zenon DEF Destroy, IInv, Phases
<1> QED BY <1>1, <1>2, <1>3, Zenon DEF IInv

\* Every step of the backend keeps the invariant.
LEMMA InvNext == IInv /\ [Next]_vars => IInv'
<1> SUFFICES ASSUME IInv, [Next]_vars PROVE IInv'
  BY Zenon
<1> USE NoneDistinct
<1>1. CASE Start BY <1>1, Zenon DEF Start, IInv, TableTypes, Waiting, Phases
<1>2. CASE StartFails BY <1>2, Zenon DEF StartFails, IInv, TableTypes, Waiting, Phases
<1>3. CASE InitAdnlRuntime BY <1>3, Zenon DEF InitAdnlRuntime, IInv, TableTypes, Waiting, Phases
<1>4. CASE Stop BY <1>4, Zenon DEF Stop, IInv, TableTypes, Waiting, Phases
<1>5. CASE ShutdownAdnlRuntime
  BY <1>5, Zenon DEF ShutdownAdnlRuntime, IInv, TableTypes, Waiting, Phases
<1>6. CASE StopJoined BY <1>6, Zenon DEF StopJoined, IInv, TableTypes, Waiting, Phases
<1>7. CASE Destroy BY <1>7, DestroyKept, Zenon
<1>8. CASE Forget BY <1>8, Zenon DEF Forget, IInv, TableTypes, Waiting, Phases
<1>9. CASE Dispatch
  <2>1. call \in Calls /\ "sched" \in Threads /\ UNCHANGED <<pending, log, asked>>
    BY <1>9, Zenon DEF Dispatch, IInv, TableTypes, Threads
  <2>2. call' \in Calls \cup {None}
    <3>1. call[2] \in Seq(Types \X Ids) /\ call[1] \in Clients /\ call[3] \in Queries \cup {None}
      BY <2>1, Zenon DEF Calls
    <3>2. call[2] # <<>> => Tail(call[2]) \in Seq(Types \X Ids) BY <3>1
    <3>3. call' = None \/ (call[2] # <<>> /\ call' = <<call[1], Tail(call[2]), call[3]>>)
      BY <1>9, Zenon DEF Dispatch
    <3>4. call[2] # <<>> => <<call[1], Tail(call[2]), call[3]>> \in Calls
      BY <3>1, <3>2, Zenon DEF Calls
    <3> QED BY <3>3, <3>4, Zenon
  <2>3. CASE send' = send
    BY <1>9, <2>1, <2>2, <2>3, Zenon DEF Dispatch, IInv, TableTypes, Waiting, Phases
  <2>4. CASE send' # send
    <3> DEFINE s == <<call[1], Head(call[2])[2]>>
    <3>1. send' = [send EXCEPT !["sched"] = [at |-> "check", stream |-> s]] /\ call[2] # <<>>
      BY <1>9, <2>4, Zenon DEF Dispatch
    <3>2. s \in Streams
      <4>1. call[2] \in Seq(Types \X Ids) /\ call[1] \in Clients BY <2>1, Zenon DEF Calls
      <4>2. Head(call[2]) \in Types \X Ids BY <3>1, <4>1
      <4> QED BY <4>1, <4>2, Zenon DEF Streams
    <3>3. TableTypes'
      BY <2>1, <2>2, <3>1, <3>2, Zenon DEF IInv, TableTypes, Places
    <3> QED BY <1>9, <2>1, <3>3, Zenon DEF Dispatch, IInv, Waiting, Phases
  <2> QED BY <2>3, <2>4, Zenon
<1>10. ASSUME NEW c \in Clients, NEW d \in Datagrams, ReceiveMessage(c, d) PROVE IInv'
  <2>1. <<c, FramesOf(d), None>> \in Calls BY DatagramsAssumption, Zenon DEF Calls
  <2> QED BY <1>10, <2>1, Zenon DEF ReceiveMessage, IInv, TableTypes, Waiting, Phases
<1>11. ASSUME NEW q \in Queries, NEW d \in Datagrams, RefuseQuery(q, d) PROVE IInv'
  <2>1. <<0, None>> \in Asks BY Zenon DEF Asks
  <2>2. <<0, None>> # None BY <2>1, Zenon
  <2>3. log' \in [Queries -> Seq(Outcomes)]
    BY <1>11 DEF RefuseQuery, IInv, TableTypes, Outcomes
  <2>4. \A s \in Streams : pending[s] # q
    BY <1>11, Zenon DEF RefuseQuery, NextQuery, IInv, Waiting
  <2>5. TableTypes' BY <1>11, <2>1, <2>3, Zenon DEF RefuseQuery, IInv, TableTypes
  <2>6. Waiting' BY <1>11, <2>2, <2>4, Zenon DEF RefuseQuery, IInv, TableTypes, Waiting
  <2>7. Phases' BY <1>11, Zenon DEF RefuseQuery, IInv, Phases
  <2> QED BY <2>5, <2>6, <2>7, Zenon DEF IInv
<1>12. ASSUME NEW q \in Queries, NEW c \in Clients, NEW d \in Datagrams, ReceiveQuery(q, c, d)
       PROVE  IInv'
  BY <1>12, QueryKept, Zenon
<1>13. ASSUME NEW t \in Relays, NEW s \in Streams, RelaySends(t, s) PROVE IInv'
  BY <1>13, Zenon DEF RelaySends, Threads, IInv, TableTypes, Waiting, Phases, Places
<1>14. ASSUME NEW t \in Threads, SendCheck(t) \/ SendLookup(t) \/ SendPost(t) PROVE IInv'
  <2>1. \E l \in Places : Move(t, l) BY <1>14, Zenon DEF SendCheck, SendLookup, SendPost, Places
  <2>2. send[t].at # "idle" /\ UNCHANGED <<pending, log, asked, call, main, handle, sched>>
    BY <1>14, Zenon DEF SendCheck, SendLookup, SendPost, At
  <2>3. TableTypes' BY <2>1, <2>2, MoveTyped, Zenon DEF IInv, TableTypes
  <2> QED BY <2>2, <2>3, Zenon DEF IInv, Waiting, Phases
<1>15. ASSUME NEW t \in Threads, UseAfterDelete(t) PROVE IInv'
  BY <1>15, Zenon DEF UseAfterDelete, IInv, TableTypes, Waiting, Phases
<1>16. ASSUME NEW t \in Threads, SendAnswer(t) PROVE IInv' BY <1>16, AnswerKept, Zenon
<1>17. CASE UNCHANGED vars BY <1>17, Zenon DEF vars, IInv, TableTypes, Waiting, Phases
<1> QED
  BY <1>1, <1>2, <1>3, <1>4, <1>5, <1>6, <1>7, <1>8, <1>9, <1>10, <1>11, <1>12, <1>13, <1>14,
     <1>15, <1>16, <1>17, Zenon DEF Next

-----------------------------------------------------------------------------
\* The refinement mapping.
Table   == {<<s, pending[s]>> : s \in {r \in Streams : pending[r] # None}}
Settled == [q \in Queries |-> Len(log[q])]
IsOpen  == handle # "freed" /\ main # "down"

\* A step that leaves promises and runtime alone is a stutter of QueryPromise.
LEMMA Stutters ==
    ASSUME UNCHANGED <<pending, log>>, IsOpen' = IsOpen PROVE UNCHANGED Promises!vars
BY Zenon DEF Promises!vars, IsOpen

\* The first state maps to the first state of QueryPromise.
LEMMA RefinesInit == Init => Promises!Init
<1> SUFFICES ASSUME Init PROVE Promises!Init
  BY Zenon
<1>1. Table = {} BY Zenon DEF Init, Table
<1>2. Settled = [q \in Queries |-> 0] BY Zenon DEF Init, Settled
<1>3. IsOpen = TRUE BY Zenon DEF Init, IsOpen
<1> QED BY <1>1, <1>2, <1>3, Zenon DEF Promises!Init, Table, Settled, IsOpen

\* An answer is Answer, or nothing when no query waits for the stream.
LEMMA AnswerRefines ==
    ASSUME IInv, NEW t \in Threads, SendAnswer(t) PROVE [Promises!Next]_Promises!vars
<1> USE NoneDistinct
<1> DEFINE s == send[t].stream
           q == pending[s]
<1>1. s \in Streams BY Zenon DEF IInv, TableTypes, SendAnswer, At
<1>2. IsOpen' = IsOpen BY Zenon DEF SendAnswer, IsOpen
<1>3. CASE q = None
  BY <1>1, <1>2, <1>3, Stutters, Zenon DEF SendAnswer, IInv, TableTypes
<1>4. CASE q # None
  <2>1. /\ q \in Queries
        /\ log' = [log EXCEPT ![q] = Append(@, "answer")]
        /\ pending' = [pending EXCEPT ![s] = None]
    BY <1>1, <1>4, Zenon DEF SendAnswer, IInv, TableTypes
  <2>2. <<s, q>> \in Table BY <1>1, <1>4, Zenon DEF Table
  <2>3. Table' = Table \ {<<s, q>>}
    BY <1>1, <2>1 DEF Table, IInv, TableTypes
  <2>4. Settled' = [p \in Queries |-> IF p \in {q} THEN Settled[p] + 1 ELSE Settled[p]]
    <3>1. \A p \in Queries : Len(log'[p]) = IF p = q THEN Len(log[p]) + 1 ELSE Len(log[p])
      BY <2>1 DEF IInv, TableTypes, Outcomes
    <3> QED BY <3>1, Zenon DEF Settled
  <2>5. PICK w : w = <<s, q>> BY Zenon
  <2>6. w \in Table /\ w[2] = q BY <2>2, <2>5, Zenon
  <2>7. Promises!Answer(w)
    BY <1>2, <2>3, <2>4, <2>5, <2>6, Zenon
       DEF Promises!Answer, Promises!Settle, Table, Settled, IsOpen
  <2> QED BY <2>6, <2>7, Zenon DEF Promises!Next, Table
<1> QED BY <1>3, <1>4, Zenon

\* on_adnl_query is Wait.
LEMMA QueryRefines ==
    ASSUME IInv, NEW q \in Queries, NEW c \in Clients, NEW d \in Datagrams, ReceiveQuery(q, c, d)
    PROVE  Promises!Next
<1> USE NoneDistinct
<1> DEFINE s == <<c, StreamId(d, 1)>>
           S == {r \in Queries : <<s, r>> \in Table}
<1>1. s \in Streams BY DatagramsAssumption, Zenon DEF ReceiveQuery, Streams
<1>2. /\ asked[q] = None
      /\ pending' = [pending EXCEPT ![s] = q]
      /\ log' = IF pending[s] = None THEN log
                ELSE [log EXCEPT ![pending[s]] = Append(@, "superseded")]
  BY Zenon DEF ReceiveQuery, NextQuery, Supersede
<1>3. IsOpen /\ IsOpen' = IsOpen
  BY Zenon DEF ReceiveQuery, CanReceive, IInv, Phases, IsOpen
<1>4. log[q] = <<>> /\ \A w \in Table : w[2] # q
  BY <1>2 DEF IInv, Waiting, Table
<1>5. \A r \in Queries : r \in S <=> pending[s] = r
  BY <1>1, Zenon DEF Table
<1>6. Settled' = [p \in Queries |-> IF p \in S THEN Settled[p] + 1 ELSE Settled[p]]
  <2>1. \A p \in Queries : Len(log'[p]) = IF pending[s] = p THEN Len(log[p]) + 1 ELSE Len(log[p])
    BY <1>1, <1>2 DEF IInv, TableTypes, Outcomes
  <2> QED BY <2>1, <1>5, Zenon DEF Settled
<1>7. Table' = {w \in Table : w[1] # s} \cup {<<s, q>>}
  <2>1. \A r \in Streams : pending'[r] = IF r = s THEN q ELSE pending[r]
    BY <1>1, <1>2, Zenon DEF IInv, TableTypes
  <2> HIDE DEF s
  <2>2. \A w : w \in Table <=> \E r \in Streams : pending[r] # None /\ w = <<r, pending[r]>>
    BY Zenon DEF Table
  <2>3. \A w : w \in Table' <=> \E r \in Streams : pending'[r] # None /\ w = <<r, pending'[r]>>
    BY Zenon DEF Table
  <2>4. ASSUME NEW w, w \in Table' PROVE w \in {v \in Table : v[1] # s} \cup {<<s, q>>}
    <3>1. PICK r \in Streams : pending'[r] # None /\ w = <<r, pending'[r]>> BY <2>3, <2>4, Zenon
    <3>2. CASE r = s BY <2>1, <3>1, <3>2, Zenon
    <3>3. CASE r # s
      <4>1. w = <<r, pending[r]>> /\ pending[r] # None /\ w[1] = r BY <2>1, <3>1, <3>3, Zenon
      <4>2. w \in Table BY <4>1, <2>2, Zenon
      <4> QED BY <3>3, <4>1, <4>2, Zenon
    <3> QED BY <3>2, <3>3, Zenon
  <2>5. ASSUME NEW w \in Table, w[1] # s PROVE w \in Table'
    <3>1. PICK r \in Streams : pending[r] # None /\ w = <<r, pending[r]>> BY <2>2, Zenon
    <3>2. r # s BY <2>5, <3>1, Zenon
    <3> QED BY <2>1, <2>3, <3>1, <3>2, Zenon
  <2>6. <<s, q>> \in Table' BY <1>1, <2>1, <2>3, Zenon
  <2> QED BY <2>4, <2>5, <2>6, Zenon
<1>8. Settled[q] = 0 BY <1>4, Zenon DEF Settled
<1>9. Promises!Wait(q, s)
  BY <1>3, <1>4, <1>6, <1>7, <1>8, Zenon
     DEF Promises!Wait, Promises!New, Promises!Settle, Table, Settled, IsOpen
<1> QED BY <1>1, <1>9, Zenon DEF Promises!Next

\* A query without a stream id is Refuse.
LEMMA RefuseRefines ==
    ASSUME IInv, NEW q \in Queries, NEW d \in Datagrams, RefuseQuery(q, d) PROVE Promises!Next
<1>1. IsOpen /\ IsOpen' = IsOpen /\ Table' = Table
  BY Zenon DEF RefuseQuery, CanReceive, IInv, Phases, IsOpen, Table
<1>2. log[q] = <<>> /\ \A w \in Table : w[2] # q
  BY DEF RefuseQuery, NextQuery, IInv, Waiting, Table
<1>3. Settled' = [p \in Queries |-> IF p \in {q} THEN Settled[p] + 1 ELSE Settled[p]]
  <2>1. \A p \in Queries : Len(log'[p]) = IF p = q THEN Len(log[p]) + 1 ELSE Len(log[p])
    BY DEF RefuseQuery, IInv, TableTypes, Outcomes
  <2> QED BY <2>1, Zenon DEF Settled
<1>4. Settled[q] = 0 BY <1>2, Zenon DEF Settled
<1>5. Promises!Refuse(q)
  BY <1>1, <1>2, <1>3, <1>4, Zenon
     DEF Promises!Refuse, Promises!New, Promises!Settle, Table, Settled, IsOpen
<1> QED BY <1>5, Zenon DEF Promises!Next

\* ton_adnl_destroy, and a start that fails, are Destroy.
LEMMA DestroyRefines ==
    ASSUME IInv, Destroy \/ StartFails PROVE Promises!Next
<1> USE NoneDistinct
<1> DEFINE S == {w[2] : w \in Table}
<1>1. IsOpen /\ IsOpen' = FALSE
  BY Zenon DEF Destroy, StartFails, IInv, Phases, IsOpen
<1>2. Table' = {}
  BY Zenon DEF Destroy, StartFails, IInv, Phases, Table
<1>3. \A p \in Queries : p \in S <=> \E s \in Streams : pending[s] = p
  <2>1. ASSUME NEW w \in Table PROVE \E s \in Streams : pending[s] = w[2]
    BY DEF Table
  <2>2. ASSUME NEW p \in Queries, NEW s \in Streams, pending[s] = p PROVE p \in S
    <3>1. <<s, p>> \in Table BY <2>2, Zenon DEF Table
    <3>2. <<s, p>>[2] = p BY Zenon
    <3> QED BY <3>1, <3>2, Zenon
  <2> QED BY <2>1, <2>2, Zenon
<1>4. \A p \in Queries :
        Len(log'[p]) = IF \E s \in Streams : pending[s] = p THEN Len(log[p]) + 1 ELSE Len(log[p])
  <2>1. CASE Destroy BY <2>1 DEF Destroy, IInv, TableTypes, Outcomes
  <2>2. CASE StartFails BY <2>2, Zenon DEF StartFails, IInv, Phases, TableTypes
  <2> QED BY <2>1, <2>2, Zenon
<1>5. Settled' = [p \in Queries |-> IF p \in S THEN Settled[p] + 1 ELSE Settled[p]]
  BY <1>3, <1>4, Zenon DEF Settled
<1>6. Promises!Destroy
  BY <1>1, <1>2, <1>5, Zenon DEF Promises!Destroy, Promises!Settle, Table, Settled, IsOpen
<1> QED BY <1>6, Zenon DEF Promises!Next

\* Every step of the backend is a step of QueryPromise or a stutter.
LEMMA RefinesNext == IInv /\ [Next]_vars => [Promises!Next]_Promises!vars
<1> SUFFICES ASSUME IInv, [Next]_vars PROVE [Promises!Next]_Promises!vars
  BY Zenon
<1>1. CASE Start \/ InitAdnlRuntime \/ Stop \/ ShutdownAdnlRuntime \/ StopJoined \/ Forget
  <2>1. UNCHANGED <<pending, log>> /\ IsOpen' = IsOpen
    BY <1>1, Zenon DEF Start, InitAdnlRuntime, Stop, ShutdownAdnlRuntime, StopJoined, Forget, IsOpen,
                IInv, Phases
  <2> QED BY <2>1, Stutters, Zenon
<1>2. CASE Destroy \/ StartFails BY <1>2, DestroyRefines, Zenon
<1>3. CASE Dispatch BY <1>3, Stutters, Zenon DEF Dispatch, IsOpen
<1>4. ASSUME NEW c \in Clients, NEW d \in Datagrams, ReceiveMessage(c, d)
      PROVE  [Promises!Next]_Promises!vars
  BY <1>4, Stutters, Zenon DEF ReceiveMessage, IsOpen
<1>5. ASSUME NEW q \in Queries, NEW d \in Datagrams, RefuseQuery(q, d)
      PROVE  [Promises!Next]_Promises!vars
  BY <1>5, RefuseRefines, Zenon
<1>6. ASSUME NEW q \in Queries, NEW c \in Clients, NEW d \in Datagrams, ReceiveQuery(q, c, d)
      PROVE  [Promises!Next]_Promises!vars
  BY <1>6, QueryRefines, Zenon
<1>7. ASSUME NEW t \in Relays, NEW s \in Streams, RelaySends(t, s)
      PROVE  [Promises!Next]_Promises!vars
  BY <1>7, Stutters, Zenon DEF RelaySends, IsOpen
<1>8. ASSUME NEW t \in Threads,
             SendCheck(t) \/ SendLookup(t) \/ SendPost(t) \/ UseAfterDelete(t)
      PROVE  [Promises!Next]_Promises!vars
  BY <1>8, Stutters, Zenon DEF SendCheck, SendLookup, SendPost, UseAfterDelete, IsOpen
<1>9. ASSUME NEW t \in Threads, SendAnswer(t) PROVE [Promises!Next]_Promises!vars
  BY <1>9, AnswerRefines, Zenon
<1>10. CASE UNCHANGED vars BY <1>10, Stutters, Zenon DEF vars, IsOpen
<1> QED
  BY <1>1, <1>2, <1>3, <1>4, <1>5, <1>6, <1>7, <1>8, <1>9, <1>10, Zenon DEF Next

\* The backend settles the promise of every query exactly once, as
\* QueryPromise says, whatever the clients send and whichever relay threads
\* send at the same time, up to the destruction of the runtime.
THEOREM PromisesRefined == Spec => PromisesKept
<1>1. Init => IInv BY InvInit, Zenon
<1>2. IInv /\ [Next]_vars => IInv' BY InvNext, Zenon
<1>3. Init => Promises!Init BY RefinesInit, Zenon
<1>4. IInv /\ [Next]_vars => [Promises!Next]_Promises!vars BY RefinesNext, Zenon
<1> QED
  BY <1>1, <1>2, <1>3, <1>4, PTL DEF Spec, PromisesKept, Promises!Spec

-----------------------------------------------------------------------------
(* Types, and the queries that carry a request *)

\* The variables that the table does not depend on.
Settings ==
    /\ handle \in {"null", "live", "freed"}  /\ adnl \in {"none", "deaf", "on"}
    /\ sched \in {"none", "init", "run", "ended"}
    /\ known \subseteq Clients

\* Every step keeps their types.
LEMMA SettingsNext == Settings /\ [Next]_vars => Settings'
<1> SUFFICES ASSUME Settings, [Next]_vars PROVE Settings'
  BY Zenon
<1> USE DEF Settings
<1>1. CASE Start \/ StartFails \/ InitAdnlRuntime \/ Stop \/ ShutdownAdnlRuntime
  BY <1>1, Zenon DEF Start, StartFails, InitAdnlRuntime, Stop, ShutdownAdnlRuntime
<1>2. CASE StopJoined \/ Destroy \/ Forget \/ Dispatch
  BY <1>2, Zenon DEF StopJoined, Destroy, Forget, Dispatch
<1>3. ASSUME NEW c \in Clients, NEW d \in Datagrams, ReceiveMessage(c, d) PROVE Settings'
  BY <1>3, Zenon DEF ReceiveMessage
<1>4. ASSUME NEW q \in Queries, NEW d \in Datagrams, RefuseQuery(q, d) PROVE Settings'
  BY <1>4, Zenon DEF RefuseQuery
<1>5. ASSUME NEW q \in Queries, NEW c \in Clients, NEW d \in Datagrams, ReceiveQuery(q, c, d)
      PROVE  Settings'
  BY <1>5, Zenon DEF ReceiveQuery
<1>6. ASSUME NEW t \in Relays, NEW s \in Streams, RelaySends(t, s) PROVE Settings'
  BY <1>6, Zenon DEF RelaySends
<1>7. ASSUME NEW t \in Threads,
             SendCheck(t) \/ SendAnswer(t) \/ SendLookup(t) \/ SendPost(t) \/ UseAfterDelete(t)
      PROVE  Settings'
  BY <1>7, Zenon DEF SendCheck, SendAnswer, SendLookup, SendPost, UseAfterDelete
<1>8. CASE UNCHANGED vars
  BY <1>8, Zenon DEF vars
<1> QED
  BY <1>1, <1>2, <1>3, <1>4, <1>5, <1>6, <1>7, <1>8, Zenon DEF Next

\* Every reachable state of the backend is well typed, and a promise in the
\* table is one that nobody has settled.
THEOREM TypeCorrect == Spec => []TypeOK
<1>1. Init => Settings
  BY Zenon DEF Init, Settings
<1>2. IInv /\ Settings => TypeOK
  BY Zenon DEF IInv, TableTypes, Waiting, Phases, Settings, TypeOK, Places
<1> QED
  BY <1>1, <1>2, InvInit, InvNext, SettingsNext, PTL DEF Spec

\* A query whose request has not been replied to yet.
Unanswered(q) ==
    /\ running /\ log[q] = <<>>
    /\ asked[q] # None /\ asked[q][1] \in {Open, Close}

\* While the node runs, a query with a request is unanswered only inside its own
\* callback: its frame is the next one to be dispatched, or the reply to it is
\* on its way to the table, where the promise still waits.
Answering ==
    /\ running => main = "up"
    /\ main = "new" => \A q \in Queries : asked[q] = None
    /\ call # None => adnl = "on" /\ sched = "run"
    /\ call = None => send["sched"] = Idle
    /\ \A q \in Queries : Unanswered(q) =>
          /\ call # None /\ call[3] = q /\ pending[asked[q][2]] = q
          /\ \/ /\ send["sched"] = Idle /\ call[2] # <<>>
                /\ Head(call[2])[1] \in {Open, Close}
                /\ <<call[1], Head(call[2])[2]>> = asked[q][2]
             \/ send["sched"].at \in {"check", "answer"} /\ send["sched"].stream = asked[q][2]

\* A promise that has been settled stays so.
LEMMA AppendSettles ==
    ASSUME NEW l \in [Queries -> Seq(Outcomes)], NEW q \in Queries, NEW o \in Outcomes
    PROVE  \A p \in Queries : p = q \/ l[p] # <<>> => [l EXCEPT ![q] = Append(@, o)][p] # <<>>
<1>1. Append(l[q], o) # <<>>
  <2>1. l[q] \in Seq(Outcomes) /\ Len(l[q]) \in Nat
    OBVIOUS
  <2>2. Len(Append(l[q], o)) = Len(l[q]) + 1
    BY <2>1
  <2>3. Len(<<>>) = 0 /\ Len(l[q]) + 1 # 0
    BY <2>1, SMTT(30)
  <2> QED
    BY <2>2, <2>3, Zenon
<1> QED
  BY <1>1, Zenon

\* A query arrives only when no request is unanswered, and its own frame is
\* dispatched first.
LEMMA QueryAnswering ==
    ASSUME IInv, Answering,
           NEW q \in Queries, NEW c \in Clients, NEW d \in Datagrams, ReceiveQuery(q, c, d)
    PROVE  Answering'
<1> USE NoneDistinct
<1> DEFINE s == <<c, StreamId(d, 1)>>
           fs == FramesOf(d)
           a == <<IF fs = <<>> THEN 0 ELSE fs[1][1], s>>
<1>1. /\ s \in Streams /\ fs \in Seq(Types \X Ids)
      /\ fs # <<>> => fs[1][2] = StreamId(d, 1)
      /\ <<c, fs, q>> \in Calls
  BY DatagramsAssumption, Zenon DEF ReceiveQuery, Streams, Calls
<1>2. /\ asked[q] = None /\ call = None /\ adnl = "on"
      /\ asked' = [asked EXCEPT ![q] = a]
      /\ pending' = [pending EXCEPT ![s] = q]
      /\ call' = <<c, fs, q>>
      /\ UNCHANGED <<main, running, adnl, send, sched>>
  BY Zenon DEF ReceiveQuery, NextQuery, Supersede, CanReceive
<1>3. \A p \in Queries : p # q => ~Unanswered(p)'
  <2>1. \A p \in Queries : log[p] # <<>> => log'[p] # <<>>
    <3>1. pending[s] \in Queries \cup {None} /\ log \in [Queries -> Seq(Outcomes)]
      BY <1>1, Zenon DEF IInv, TableTypes
    <3>2. log' = IF pending[s] = None THEN log
                 ELSE [log EXCEPT ![pending[s]] = Append(@, "superseded")]
      BY Zenon DEF ReceiveQuery, Supersede
    <3> QED
      BY <3>1, <3>2, AppendSettles, Zenon DEF Outcomes
  <2>2. \A p \in Queries : ~Unanswered(p)
    BY <1>2, Zenon DEF Answering
  <2> QED
    BY <1>2, <2>1, <2>2, Zenon DEF Unanswered, IInv, TableTypes
<1>4. ASSUME Unanswered(q)'
      PROVE  /\ call' # None /\ call'[3] = q /\ pending'[asked'[q][2]] = q
             /\ send'["sched"] = Idle /\ call'[2] # <<>>
             /\ Head(call'[2])[1] \in {Open, Close}
             /\ <<call'[1], Head(call'[2])[2]>> = asked'[q][2]
  <2>1. asked'[q] = a
    BY <1>2, Zenon DEF IInv, TableTypes
  <2>2. fs # <<>>
    BY <1>4, <2>1 DEF Unanswered, Open, Close
  <2>3. fs[1][1] \in {Open, Close} /\ asked'[q][2] = s
    BY <1>4, <2>1, <2>2 DEF Unanswered
  <2>4. Head(fs) = fs[1]
    BY <1>1, <2>2, SMTT(30)
  <2>5. pending'[s] = q
    BY <1>1, <1>2, Zenon DEF IInv, TableTypes
  <2>6. call' # None /\ send'["sched"] = Idle
    BY <1>1, <1>2, Zenon DEF Answering
  <2> QED
    BY <1>1, <1>2, <2>2, <2>3, <2>4, <2>5, <2>6, Zenon
<1>5. sched = "run" => main # "new"
  BY Zenon DEF IInv, Phases
<1> QED
  <2>1. call' # None /\ main # "new"
    BY <1>1, <1>2, <1>5, Zenon DEF ReceiveQuery, CanReceive
  <2>2. (running' => main' = "up") /\ adnl' = "on" /\ sched' = "run"
    BY <1>2 DEF Answering, ReceiveQuery, CanReceive
  <2> QED
    BY <1>2, <1>3, <1>4, <2>1, <2>2, Zenon DEF Answering

\* A thread that answers the stream of an unanswered query answers the query.
LEMMA AnswerAnswering ==
    ASSUME IInv, Answering, NEW t \in Threads, SendAnswer(t)
    PROVE  Answering'
<1> USE NoneDistinct
<1> DEFINE s == send[t].stream
<1>1. s \in Streams BY Zenon DEF IInv, TableTypes, SendAnswer, At
<1>2. /\ pending' = [pending EXCEPT ![s] = None]
      /\ send' = [send EXCEPT ![t] = [@ EXCEPT !.at = "lookup"]]
      /\ UNCHANGED <<main, running, adnl, sched, call, asked>>
  BY Zenon DEF SendAnswer, Move
<1>3. /\ \A p \in Queries : log[p] # <<>> => log'[p] # <<>>
      /\ \A p \in Queries : pending[s] = p => log'[p] # <<>>
  <2>1. pending[s] \in Queries \cup {None} /\ log \in [Queries -> Seq(Outcomes)]
    BY <1>1, Zenon DEF IInv, TableTypes
  <2>2. log' = IF pending[s] = None THEN log ELSE [log EXCEPT ![pending[s]] = Append(@, "answer")]
    BY Zenon DEF SendAnswer
  <2> QED
    BY <2>1, <2>2, AppendSettles, Zenon DEF Outcomes
<1>4. call = None => t # "sched"
  BY DEF Answering, SendAnswer, At, Idle
<1>5. ASSUME NEW q \in Queries, Unanswered(q)'
      PROVE  /\ call' # None /\ call'[3] = q /\ pending'[asked'[q][2]] = q
             /\ \/ /\ send'["sched"] = Idle /\ call'[2] # <<>>
                   /\ Head(call'[2])[1] \in {Open, Close}
                   /\ <<call'[1], Head(call'[2])[2]>> = asked'[q][2]
                \/ send'["sched"].at \in {"check", "answer"} /\ send'["sched"].stream = asked'[q][2]
  <2>1. Unanswered(q) /\ pending[s] # q
    BY <1>2, <1>3, <1>5, Zenon DEF Unanswered
  <2>2. /\ pending[asked[q][2]] = q /\ call # None /\ call[3] = q
        /\ \/ /\ send["sched"] = Idle /\ call[2] # <<>>
              /\ Head(call[2])[1] \in {Open, Close}
              /\ <<call[1], Head(call[2])[2]>> = asked[q][2]
           \/ send["sched"].at \in {"check", "answer"} /\ send["sched"].stream = asked[q][2]
    BY <2>1, Zenon DEF Answering
  <2>3. t # "sched"
    BY <2>1, <2>2 DEF SendAnswer, At, Idle
  <2>4. send'["sched"] = send["sched"] /\ pending'[asked[q][2]] = q
    BY <1>1, <1>2, <2>1, <2>2, <2>3 DEF IInv, TableTypes
  <2> QED
    BY <1>2, <2>2, <2>4, Zenon
<1>6. call' = None => send'["sched"] = Idle
  BY <1>2, <1>4 DEF Answering
<1> QED
  BY <1>2, <1>5, <1>6, Zenon DEF Answering

\* Dispatch replies to OPEN and CLOSE, and ends a callback only with no frame left.
LEMMA DispatchAnswering ==
    ASSUME IInv, Answering, Dispatch
    PROVE  Answering'
<1> USE NoneDistinct
<1>1. /\ call \in Calls /\ call # None /\ "sched" \in Threads /\ send["sched"] = Idle
      /\ UNCHANGED <<main, running, adnl, sched, pending, log, asked>>
  BY Zenon DEF Dispatch, IInv, TableTypes, Threads
<1>2. call[2] \in Seq(Types \X Ids) /\ call[1] \in Clients /\ call[3] \in Queries \cup {None}
  BY <1>1, Zenon DEF Calls
<1>3. CASE call[2] = <<>>
  <2>1. call' = None /\ UNCHANGED send
    BY <1>3, Zenon DEF Dispatch
  <2>2. \A q \in Queries : ~Unanswered(q)
    BY <1>1, <1>3, SMTT(30) DEF Answering, Idle
  <2> QED
    BY <1>1, <2>1, <2>2, Zenon DEF Answering, Unanswered
<1>4. CASE call[2] # <<>>
  <2> DEFINE f == Head(call[2])
  <2>1. call' = <<call[1], Tail(call[2]), call[3]>>
    BY <1>4, Zenon DEF Dispatch
  <2>2. call' # None
    <3>1. Tail(call[2]) \in Seq(Types \X Ids)
      BY <1>2, <1>4
    <3>2. call' \in Calls
      BY <1>2, <2>1, <3>1, Zenon DEF Calls
    <3> QED BY <3>2, Zenon
  <2>3. ASSUME NEW q \in Queries, Unanswered(q)'
        PROVE  /\ call'[3] = q /\ pending'[asked'[q][2]] = q
               /\ send'["sched"].at = "check" /\ send'["sched"].stream = asked'[q][2]
    <3>1. Unanswered(q)
      BY <1>1, <2>3, Zenon DEF Unanswered
    <3>2. /\ call[3] = q /\ pending[asked[q][2]] = q
          /\ f[1] \in {Open, Close} /\ <<call[1], f[2]>> = asked[q][2]
      BY <1>1, <3>1 DEF Answering, Idle
    <3>3. send' = [send EXCEPT !["sched"] = [at |-> "check", stream |-> <<call[1], f[2]>>]]
      BY <1>4, <3>2 DEF Dispatch, Open, Close, Data, Error
    <3>4. send'["sched"] = [at |-> "check", stream |-> <<call[1], f[2]>>]
      BY <1>1, <3>3, Zenon DEF IInv, TableTypes
    <3> QED
      BY <1>1, <2>1, <3>2, <3>4
  <2> QED
    BY <1>1, <2>2, <2>3, Zenon DEF Answering
<1> QED
  BY <1>3, <1>4, Zenon

\* Every step keeps a request's query answered, or on its way to its answer.
LEMMA AnsweringNext == IInv /\ Answering /\ [Next]_vars => Answering'
<1> SUFFICES ASSUME IInv, Answering, [Next]_vars PROVE Answering'
  BY Zenon
<1> USE NoneDistinct
\* A step that leaves the queries and the scheduler thread's call alone.
<1>a. ASSUME UNCHANGED <<call, pending, log, asked>>, send'["sched"] = send["sched"],
             running' => running /\ main' = "up",
             main' = "new" => main = "new", call # None => UNCHANGED <<adnl, sched>>
      PROVE  Answering'
  <2>1. \A q \in Queries : Unanswered(q)' => Unanswered(q)
    BY <1>a, Zenon DEF Unanswered
  <2> QED
    BY <1>a, <2>1, Zenon DEF Answering
<1>1. CASE Start
  <2>1. \A q \in Queries : asked'[q] = None
    BY <1>1, Zenon DEF Start, Answering
  <2>2. call = None
    BY <1>1, Zenon DEF Start, Answering, IInv, Phases
  <2> QED
    BY <1>1, <2>1, <2>2, Zenon DEF Start, Answering, Unanswered
<1>2. CASE StartFails \/ Stop \/ StopJoined \/ Forget
  BY <1>2, <1>a, SMTT(30) DEF StartFails, Stop, StopJoined, Forget, Answering
<1>3. CASE InitAdnlRuntime
  <2>1. call = None
    BY <1>3, Zenon DEF InitAdnlRuntime, Answering
  <2> QED
    BY <1>3, <2>1, <1>a, Zenon DEF InitAdnlRuntime, Answering
<1>4. CASE ShutdownAdnlRuntime
  BY <1>4, <1>a, Zenon DEF ShutdownAdnlRuntime, Answering
<1>5. CASE Destroy
  <2>1. ~running /\ main' = "forget" /\ UNCHANGED <<running, adnl, sched, call, send, asked>>
    BY <1>5, Zenon DEF Destroy, Answering
  <2> QED
    BY <2>1, Zenon DEF Answering, Unanswered
<1>6. CASE Dispatch
  BY <1>6, DispatchAnswering, Zenon
<1>7. ASSUME NEW c \in Clients, NEW d \in Datagrams, ReceiveMessage(c, d) PROVE Answering'
  <2>1. <<c, FramesOf(d), None>> # None
    <3>1. <<c, FramesOf(d), None>> \in Calls
      BY DatagramsAssumption, Zenon DEF Calls
    <3> QED BY <3>1, Zenon
  <2>2. /\ call = None /\ adnl = "on" /\ sched = "run" /\ call' = <<c, FramesOf(d), None>>
        /\ UNCHANGED <<main, running, adnl, sched, pending, log, asked, send>>
    BY <1>7, Zenon DEF ReceiveMessage, CanReceive
  <2>3. \A q \in Queries : ~Unanswered(q)
    BY <2>2, Zenon DEF Answering
  <2> QED
    BY <2>1, <2>2, <2>3, Zenon DEF Answering, Unanswered
<1>8. ASSUME NEW q \in Queries, NEW d \in Datagrams, RefuseQuery(q, d) PROVE Answering'
  <2>1. /\ call = None /\ main # "new"
        /\ asked' = [asked EXCEPT ![q] = <<0, None>>]
        /\ UNCHANGED <<main, running, adnl, call, pending, send>>
    BY <1>8, Zenon DEF RefuseQuery, CanReceive, IInv, Phases
  <2>2. \A p \in Queries : p # q => ~Unanswered(p)'
    <3>1. \A p \in Queries : ~Unanswered(p)
      BY <2>1, Zenon DEF Answering
    <3>2. log' = [log EXCEPT ![q] = Append(@, "invalid")]
      BY <1>8, Zenon DEF RefuseQuery
    <3>3. \A p \in Queries : p # q => log'[p] = log[p] /\ asked'[p] = asked[p]
      BY <2>1, <3>2, Zenon DEF IInv, TableTypes
    <3> QED
      BY <2>1, <3>1, <3>3, Zenon DEF Unanswered
  <2>3. ~Unanswered(q)'
    BY <2>1 DEF Unanswered, IInv, TableTypes, Open, Close
  <2> QED
    BY <2>1, <2>2, <2>3, Zenon DEF Answering
<1>9. ASSUME NEW q \in Queries, NEW c \in Clients, NEW d \in Datagrams, ReceiveQuery(q, c, d)
      PROVE  Answering'
  BY <1>9, QueryAnswering, Zenon
<1>10. ASSUME NEW t \in Relays, NEW s \in Streams, RelaySends(t, s) PROVE Answering'
  <2>1. t # "sched"
    BY RelaysAssumption, Zenon
  <2>2. UNCHANGED <<main, running, adnl, sched, call, pending, log, asked>>
    BY <1>10, Zenon DEF RelaySends
  <2>3. send'["sched"] = send["sched"]
    BY <1>10, <2>1, Zenon DEF RelaySends, IInv, TableTypes, Threads
  <2> QED
    BY <2>2, <2>3, <1>a, Zenon DEF Answering
<1>11. ASSUME NEW t \in Threads, SendCheck(t) \/ SendLookup(t) \/ SendPost(t) PROVE Answering'
  <2>1. UNCHANGED <<main, running, adnl, sched, call, pending, log, asked>>
    BY <1>11, Zenon DEF SendCheck, SendLookup, SendPost
  <2>2. CASE t # "sched"
    <3>1. send'["sched"] = send["sched"]
      BY <1>11, <2>2, Zenon DEF Threads, SendCheck, SendLookup, SendPost, Move, IInv, TableTypes
    <3> QED
      BY <2>1, <3>1, <1>a, Zenon DEF Answering
  <2>3. CASE t = "sched"
    <3>1. send["sched"].at # "idle" /\ call # None
      <4>1. send["sched"].at \in {"check", "lookup", "post"}
        BY <1>11, <2>3, Zenon DEF SendCheck, SendLookup, SendPost, At
      <4>2. Idle.at = "idle"
        BY Zenon DEF Idle
      <4>3. send["sched"].at # "idle"
        BY <4>1, Zenon
      <4> QED
        BY <4>2, <4>3, Zenon DEF Answering
    <3>2. ASSUME NEW q \in Queries, Unanswered(q)'
          PROVE  /\ call'[3] = q /\ pending'[asked'[q][2]] = q
                 /\ send'["sched"].at = "answer" /\ send'["sched"].stream = asked'[q][2]
      <4>1. Unanswered(q)
        BY <2>1, <3>2, Zenon DEF Unanswered
      <4>2. /\ call[3] = q /\ pending[asked[q][2]] = q
            /\ send["sched"].at \in {"check", "answer"} /\ send["sched"].stream = asked[q][2]
        <5>1. send["sched"] # Idle
          BY <3>1 DEF Idle
        <5> QED
          BY <4>1, <5>1, Zenon DEF Answering
      <4>3. SendCheck(t) /\ running /\ adnl = "on"
        BY <1>11, <2>3, <3>1, <4>1, <4>2, Zenon DEF SendLookup, SendPost, At, Unanswered, Answering
      <4>4. send' = [send EXCEPT !["sched"] = [@ EXCEPT !.at = "answer"]]
        BY <2>3, <4>3, Zenon DEF SendCheck, Move
      <4> QED
        BY <2>1, <2>3, <4>2, <4>4, Zenon DEF IInv, TableTypes
    <3> QED
      BY <2>1, <3>1, <3>2, Zenon DEF Answering
  <2> QED
    BY <2>2, <2>3, Zenon
<1>12. ASSUME NEW t \in Threads, SendAnswer(t) PROVE Answering'
  BY <1>12, AnswerAnswering, Zenon
<1>13. ASSUME NEW t \in Threads, UseAfterDelete(t) PROVE Answering'
  BY <1>13, <1>a, Zenon DEF UseAfterDelete, Answering
<1>14. CASE UNCHANGED vars
  BY <1>14, <1>a, Zenon DEF vars, Answering
<1> QED
  BY <1>1, <1>2, <1>3, <1>4, <1>5, <1>6, <1>7, <1>8, <1>9, <1>10, <1>11, <1>12, <1>13, <1>14, Zenon
  DEF Next

\* Whatever datagrams the clients send and whichever threads of the node send at
\* the same time, a query whose first frame is a complete OPEN or CLOSE has been
\* settled when on_adnl_query returns, unless the backend is being stopped: the
\* client never waits for the timeout of a request that the node has handled.
THEOREM RequestsSettled == Spec => []RequestQueriesAnswered
<1>1. Init => Answering
  BY NoneDistinct, Zenon DEF Init, Answering, Unanswered, Threads
<1>2. Answering => RequestQueriesAnswered
  BY Zenon DEF Answering, Unanswered, RequestQueriesAnswered
<1> QED
  BY <1>1, <1>2, InvInit, InvNext, AnsweringNext, PTL DEF Spec
=============================================================================
