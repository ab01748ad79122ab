------------------------ MODULE AndroidStreamProofs ------------------------
(***************************************************************************)
(* Theorems about AndroidStream, for any number of sessions and of frames. *)
(***************************************************************************)
EXTENDS AndroidStream, FiniteSetTheorems, TLAPS

Labels  == HandlerLabels \cup PipeLabels
Results == {None, "ok", "failed", "timeout", "closed", "interrupted"}

\* Where the threads of the connections are.
PlaceInv ==
    /\ pc \in [Sessions -> [Threads -> Labels]]
    /\ \A n \in Sessions :
          pc[n]["h"] \in HandlerLabels /\ pc[n]["up"] \in PipeLabels /\ pc[n]["down"] \in PipeLabels

\* The server objects, the sockets and the interrupts.
ThreadInv ==
    /\ running \in [Sessions -> {"new", "up", "down"}]
    /\ accepting \in [Sessions -> {"accept", "submit", "ended"}]
    /\ intr \in [Sessions -> SUBSET Threads]
    /\ sock \in [Sessions -> {"none", "open", "shut", "closed"}]

\* What the connections have noted.
NoteInv ==
    /\ guard \in [Sessions -> BOOLEAN \cup {None}]
    /\ skip \in [Sessions -> BOOLEAN] /\ sessionDone \in [Sessions -> BOOLEAN]
    /\ closeSeen \in [Sessions -> BOOLEAN]
    /\ result \in [Sessions -> Results]
    /\ closes \in [Sessions -> Nat] /\ crashed \in BOOLEAN

\* The handlers that have left.
Left == {n \in Sessions : pc[n]["h"] = "done"}

\* The queue objects: a new one needs a handler that has taken the old one away.
QueueInv ==
    /\ made \in Nat /\ queue \in (1..made) \cup {None}
    /\ made <= Cardinality(Left) + IF queue = None /\ ~crashed THEN 0 ELSE 1
    /\ content \in [Queues -> Seq(Frames)]
    /\ hold \in [Sessions -> [Threads -> Queues \cup {None}]]
    /\ \A n \in Sessions, t \in {"h", "down"} : pc[n][t] = "poll" => hold[n][t] # None

\* The network and the egress.
NetInv ==
    /\ wire \subseteq Frames /\ air \subseteq Frames
    /\ live \subseteq opened /\ opened \subseteq Sessions /\ registered \in live \cup {None}

\* The connection has no handler before it is submitted.
SubmitInv ==
    \A n \in Sessions : accepting[n] # "ended" \/ running[n] = "new" => pc[n]["h"] = "none"

TypeInv == SubmitInv /\ PlaceInv /\ ThreadInv /\ NoteInv /\ QueueInv /\ NetInv

LEMMA ThreeThreads == Threads = {"h", "up", "down"}
BY Zenon DEF Threads

\* The steps, by who takes them.
LEMMA Steps ==
    Next <=> /\ ~crashed
             /\ \/ \E n \in Sessions :
                     \/ Start(n) \/ Stop(n) \/ AcceptConnection(n) \/ AcceptEnds(n) \/ Submit(n)
                     \/ Handler(n)
                     \/ \E t \in {"up", "down"} : Pipe(n, t)
                     \/ ReadEnds(n) \/ ReadBytes(n) \/ SendData(n)
                     \/ DownLookUp(n) \/ DownPollEnds(n) \/ DownPolled(n)
                     \/ Egress(n)
                \/ \E f \in Frames : ReceiveFrame(f)
BY Zenon DEF Next, Accept, Up, Down

\* At most all the handlers have left.
LEMMA LeftCount ==
    /\ IsFiniteSet(Left) /\ Cardinality(Left) \in Nat /\ Cardinality(Left) <= MaxSession
<1>1. IsFiniteSet(Sessions) /\ Cardinality(Sessions) = MaxSession
  BY FS_Interval, BoundsAssumption DEF Sessions
<1>2. Left \subseteq Sessions
  BY Zenon DEF Left
<1>3. IsFiniteSet(Left) /\ Cardinality(Left) <= Cardinality(Sessions)
  BY <1>1, <1>2, FS_Subset, Zenon
<1> QED
  BY <1>1, <1>3, FS_CardinalityType, Zenon

\* Steps that make no handler leave, and the one that does.
LEMMA LeftSame ==
    ASSUME \A n \in Sessions : pc'[n]["h"] = "done" <=> pc[n]["h"] = "done"
    PROVE  Left' = Left
BY Zenon DEF Left

LEMMA LeftMore ==
    ASSUME NEW n \in Sessions, PlaceInv, pc[n]["h"] # "done", Goto(n, "h", "done")
    PROVE  Cardinality(Left') = Cardinality(Left) + 1
<1>1. Left' = Left \cup {n} /\ n \notin Left
  BY Zenon DEF Left, Goto, PlaceInv, Threads
<1> QED
  BY <1>1, LeftCount, FS_AddElement, Zenon

LEMMA TypeInit == Init => TypeInv
<1> SUFFICES ASSUME Init PROVE TypeInv
  BY Zenon
<1> USE DEF Init
<1>0. PlaceInv
  BY ThreeThreads, Zenon DEF PlaceInv, Labels, HandlerLabels, PipeLabels
<1>1. ThreadInv
  BY Zenon DEF ThreadInv
<1>2. NoteInv
  BY Zenon DEF NoteInv, Results
<1>3. QueueInv
  <2>1. Cardinality(Left) \in Nat BY LeftCount, Zenon
  <2>2. content \in [Queues -> Seq(Frames)]
    <3>1. <<>> \in Seq(Frames) OBVIOUS
    <3> QED BY <3>1, Zenon
  <2>3. hold \in [Sessions -> [Threads -> Queues \cup {None}]]
    BY Zenon
  <2>4. \A n \in Sessions, t \in {"h", "down"} : pc[n][t] = "none"
    BY ThreeThreads, Zenon
  <2> QED BY <2>1, <2>2, <2>3, <2>4, SMTT(30) DEF QueueInv
<1>4. NetInv
  BY Zenon DEF NetInv
<1>5. SubmitInv
  BY ThreeThreads, Zenon DEF SubmitInv
<1> QED
  BY <1>0, <1>1, <1>2, <1>3, <1>4, <1>5, Zenon DEF TypeInv

\* A thread moves and the others stay where they are.
LEMMA HandlerMoves ==
    ASSUME PlaceInv, NEW n \in Sessions, NEW l \in HandlerLabels, Goto(n, "h", l)
    PROVE  /\ PlaceInv'
           /\ pc'[n]["h"] = l /\ pc'[n]["up"] = pc[n]["up"] /\ pc'[n]["down"] = pc[n]["down"]
           /\ \A m \in Sessions : m # n => pc'[m] = pc[m]
<1>1. l \in Labels
  BY Zenon DEF Labels
<1>2. pc' = [pc EXCEPT ![n] = [pc[n] EXCEPT !["h"] = l]]
  BY Zenon DEF Goto
<1> QED
  BY <1>1, <1>2, ThreeThreads, Zenon DEF PlaceInv

LEMMA PipeMoves ==
    ASSUME PlaceInv, NEW n \in Sessions, NEW t \in {"up", "down"}, NEW l \in PipeLabels, Goto(n, t, l)
    PROVE  /\ PlaceInv'
           /\ pc'[n][t] = l /\ pc'[n]["h"] = pc[n]["h"] /\ pc'[n][Other(t)] = pc[n][Other(t)]
           /\ \A m \in Sessions : m # n => pc'[m] = pc[m]
<1>1. l \in Labels
  BY Zenon DEF Labels
<1>2. pc' = [pc EXCEPT ![n] = [pc[n] EXCEPT ![t] = l]]
  BY Zenon DEF Goto
<1> QED
  BY <1>1, <1>2, ThreeThreads, Zenon DEF PlaceInv, Other

\* closeStreamOnce sends a CLOSE unless the guard is already set.
LEMMA CloseOnceEffect ==
    ASSUME NoteInv, NEW n \in Sessions, CloseStreamOnce(n)
    PROVE  /\ guard' \in [Sessions -> BOOLEAN \cup {None}] /\ closes' \in [Sessions -> Nat]
           /\ guard'[n] = TRUE
           /\ closes'[n] = IF guard[n] = TRUE THEN closes[n] ELSE closes[n] + 1
           /\ \A m \in Sessions : m # n => guard'[m] = guard[m] /\ closes'[m] = closes[m]
<1>1. guard' = [guard EXCEPT ![n] = TRUE]
  BY Zenon DEF CloseStreamOnce
<1>2. guard' \in [Sessions -> BOOLEAN \cup {None}] /\ guard'[n] = TRUE
  BY <1>1, Zenon DEF NoteInv
<1>3. \A m \in Sessions : m # n => guard'[m] = guard[m]
  BY <1>1, Zenon DEF NoteInv
<1>4. closes' = IF guard[n] = TRUE THEN closes ELSE [closes EXCEPT ![n] = closes[n] + 1]
  BY Zenon DEF CloseStreamOnce, SendClose
<1>5. closes' \in [Sessions -> Nat]
  BY <1>4 DEF NoteInv
<1>6. closes'[n] = IF guard[n] = TRUE THEN closes[n] ELSE closes[n] + 1
  BY <1>4, Zenon DEF NoteInv
<1>7. \A m \in Sessions : m # n => closes'[m] = closes[m]
  BY <1>4, Zenon DEF NoteInv
<1> QED
  BY <1>2, <1>3, <1>5, <1>6, <1>7, Zenon

LEMMA PlaceNext == ASSUME TypeInv, Next PROVE PlaceInv'
<1>0. PlaceInv
  BY Zenon DEF TypeInv
<1>1. CASE UNCHANGED pc
  BY <1>0, <1>1, Zenon DEF PlaceInv
<1>2. ASSUME NEW n \in Sessions, NEW l \in HandlerLabels, Goto(n, "h", l) PROVE PlaceInv'
  BY <1>0, <1>2, HandlerMoves, Zenon
<1>3. ASSUME NEW n \in Sessions, NEW t \in {"up", "down"}, NEW l \in PipeLabels, Goto(n, t, l) PROVE PlaceInv'
  BY <1>0, <1>3, PipeMoves, Zenon
<1>4. ASSUME NEW n \in Sessions, AnswerSent(n) \/ StartDown(n) PROVE PlaceInv'
  BY <1>0, <1>4, ThreeThreads DEF AnswerSent, StartDown, PlaceInv, Labels, HandlerLabels, PipeLabels
<1>5. ASSUME NEW n \in Sessions, Start(n) \/ Stop(n) \/ AcceptConnection(n) \/ AcceptEnds(n) \/ Egress(n)
      PROVE UNCHANGED pc
  BY <1>5, Zenon DEF Start, Stop, AcceptConnection, AcceptEnds, Egress, EgressOpens, EgressCloses, EgressTakesData,
     EgressPushes, EgressEnds, relay
<1>6. ASSUME NEW f \in Frames, ReceiveFrame(f) PROVE UNCHANGED pc
  BY <1>6, Zenon DEF ReceiveFrame, relay
<1>7. ASSUME NEW n \in Sessions, Submit(n) \/ HelloThrows(n) \/ AnswerThrows(n)
      PROVE UNCHANGED pc \/ Goto(n, "h", "hello")
  BY <1>7, Zenon DEF Submit, HelloThrows, AnswerThrows, relay
<1>8. ASSUME NEW n \in Sessions, Handler(n), ~HelloThrows(n), ~AnswerThrows(n), ~AnswerSent(n), ~StartDown(n)
      PROVE \E l \in HandlerLabels : Goto(n, "h", l)
  BY <1>8, Zenon DEF Handler, HelloRefused, OpenStream, AwaitLookUp, OpenTimeout, OpenGraceOver, OpenInterrupted,
     OpenPollEmpty, OpenPolled, Joined, JoinInterrupted, Finally, Cleanup, HandlerLabels
<1>9. ASSUME NEW n \in Sessions, NEW t \in {"up", "down"}, Pipe(n, t)
      PROVE \E l \in PipeLabels : Goto(n, t, l)
  BY <1>9, Zenon DEF Pipe, PipeTurn, PipeEnds, PipeCloses, PipeLabels
<1>10. ASSUME NEW n \in Sessions, ReadEnds(n) \/ ReadBytes(n) \/ SendData(n)
       PROVE \E l \in PipeLabels : Goto(n, "up", l)
  BY <1>10, Zenon DEF ReadEnds, ReadBytes, SendData, PipeLabels
<1>11. ASSUME NEW n \in Sessions, DownLookUp(n) \/ DownPollEnds(n) \/ DownPolled(n)
       PROVE \E l \in PipeLabels : Goto(n, "down", l)
  BY <1>11, Zenon DEF DownLookUp, DownPollEnds, DownPolled, PipeLabels
<1>12. ASSUME NEW n \in Sessions, Handler(n) PROVE PlaceInv'
  BY <1>1, <1>2, <1>4, <1>7, <1>8, <1>12, Zenon DEF HandlerLabels
<1>13. ASSUME NEW n \in Sessions, Submit(n) PROVE PlaceInv'
  BY <1>1, <1>2, <1>7, <1>13, Zenon DEF HandlerLabels
<1> QED
  BY <1>1, <1>3, <1>5, <1>6, <1>9, <1>10, <1>11, <1>12, <1>13, Steps, Zenon

\* Every step keeps the server objects and the threads in their types.
LEMMA ThreadNext == ASSUME TypeInv, Next PROVE ThreadInv'
<1> USE ThreeThreads DEF TypeInv, ThreadInv, server, relay
<1>1. CASE UNCHANGED <<running, accepting, intr, sock>>
  BY <1>1, Zenon
<1>2. ASSUME NEW n \in Sessions, Start(n) PROVE ThreadInv'
  BY <1>2, Zenon DEF Start
<1>3. ASSUME NEW n \in Sessions, Stop(n) PROVE ThreadInv'
  <2>1. intr' \in [Sessions -> SUBSET Threads]
    BY <1>3, Zenon DEF Stop
  <2>2. running' \in [Sessions -> {"new", "up", "down"}] /\ UNCHANGED <<accepting, sock>>
    BY <1>3, Zenon DEF Stop
  <2> QED
    BY <2>1, <2>2, Zenon
<1>4. ASSUME NEW n \in Sessions, AcceptConnection(n) \/ AcceptEnds(n) PROVE ThreadInv'
  BY <1>4, Zenon DEF AcceptConnection, AcceptEnds
<1>5. ASSUME NEW n \in Sessions, Submit(n) PROVE ThreadInv'
  BY <1>5, Zenon DEF Submit
<1>6. ASSUME NEW n \in Sessions, HelloRefused(n) \/ Cleanup(n) PROVE ThreadInv'
  BY <1>6, Zenon DEF HelloRefused, Cleanup
<1>7. ASSUME NEW n \in Sessions, JoinInterrupted(n) PROVE ThreadInv'
  BY <1>7, Zenon DEF JoinInterrupted, Shut
<1>8. ASSUME NEW n \in Sessions, NEW t \in {"up", "down"}, PipeEnds(n, t) PROVE ThreadInv'
  <2>1. intr' \in [Sessions -> SUBSET Threads]
    BY <1>8 DEF PipeEnds, InterruptOther, Other
  <2>2. sock' \in [Sessions -> {"none", "open", "shut", "closed"}]
    BY <1>8, Zenon DEF PipeEnds, Shut
  <2> QED
    BY <1>8, <2>1, <2>2, Zenon DEF PipeEnds
<1>9. ASSUME NEW n \in Sessions, Handler(n), ~HelloRefused(n), ~Cleanup(n), ~JoinInterrupted(n)
      PROVE  UNCHANGED <<running, accepting, intr, sock>>
  BY <1>9, Zenon DEF Handler, HelloThrows, OpenStream, AwaitLookUp, OpenTimeout, OpenGraceOver, OpenInterrupted,
     OpenPollEmpty, OpenPolled, AnswerSent, AnswerThrows, StartDown, Joined, Finally
<1>10. ASSUME NEW n \in Sessions, NEW t \in {"up", "down"}, PipeTurn(n, t) \/ PipeCloses(n, t)
       PROVE  UNCHANGED <<running, accepting, intr, sock>>
  BY <1>10, Zenon DEF PipeTurn, PipeCloses
<1>11. ASSUME NEW n \in Sessions,
              ReadEnds(n) \/ ReadBytes(n) \/ SendData(n) \/ DownLookUp(n) \/ DownPollEnds(n) \/ DownPolled(n)
       PROVE  UNCHANGED <<running, accepting, intr, sock>>
  BY <1>11, Zenon DEF ReadEnds, ReadBytes, SendData, DownLookUp, DownPollEnds, DownPolled
<1>12. ASSUME NEW n \in Sessions, Egress(n) PROVE UNCHANGED <<running, accepting, intr, sock>>
  BY <1>12, Zenon DEF Egress, EgressOpens, EgressCloses, EgressTakesData, EgressPushes, EgressEnds
<1>13. ASSUME NEW f \in Frames, ReceiveFrame(f) PROVE UNCHANGED <<running, accepting, intr, sock>>
  BY <1>13, Zenon DEF ReceiveFrame
<1> HIDE DEF TypeInv, ThreadInv
<1> QED
  BY <1>1, <1>2, <1>3, <1>4, <1>5, <1>6, <1>7, <1>8, <1>9, <1>10, <1>11, <1>12, <1>13, Steps, Zenon DEF Pipe

LEMMA NoteNext == ASSUME TypeInv, Next PROVE NoteInv'
<1>0. NoteInv
  BY Zenon DEF TypeInv
<1> USE DEF NoteInv, Results, Return, relay, ghosts
<1>1. ASSUME NEW n \in Sessions, Start(n) \/ Stop(n) \/ AcceptConnection(n) \/ AcceptEnds(n) PROVE NoteInv'
  BY <1>0, <1>1, Zenon DEF Start, Stop, AcceptConnection, AcceptEnds
<1>2. ASSUME NEW n \in Sessions, Submit(n) PROVE NoteInv'
  BY <1>0, <1>2, Zenon DEF Submit
<1>3. ASSUME NEW n \in Sessions, HelloRefused(n) \/ HelloThrows(n) PROVE NoteInv'
  BY <1>0, <1>3, Zenon DEF HelloRefused, HelloThrows
<1>4. ASSUME NEW n \in Sessions, OpenStream(n) PROVE NoteInv'
  BY <1>0, <1>4, Zenon DEF OpenStream
<1>5. ASSUME NEW n \in Sessions, AwaitLookUp(n) \/ OpenGraceOver(n) PROVE NoteInv'
  BY <1>0, <1>5, Zenon DEF AwaitLookUp, OpenGraceOver
<1>21. ASSUME NEW n \in Sessions, OpenTimeout(n) PROVE NoteInv'
  <2>1. closes' \in [Sessions -> Nat] BY <1>0, <1>21, SMTT(30) DEF OpenTimeout, SendClose
  <2> QED BY <1>0, <1>21, <2>1, Zenon DEF OpenTimeout
<1>6. ASSUME NEW n \in Sessions, OpenInterrupted(n) \/ OpenPollEmpty(n) PROVE NoteInv'
  BY <1>0, <1>6, Zenon DEF OpenInterrupted, OpenPollEmpty
<1>7. ASSUME NEW n \in Sessions, OpenPolled(n) PROVE NoteInv'
  BY <1>0, <1>7, Zenon DEF OpenPolled
<1>8. ASSUME NEW n \in Sessions, AnswerSent(n) \/ StartDown(n) \/ Joined(n) PROVE NoteInv'
  BY <1>0, <1>8, Zenon DEF AnswerSent, StartDown, Joined
<1>9. ASSUME NEW n \in Sessions, AnswerThrows(n) PROVE NoteInv'
  BY <1>0, <1>9, CloseOnceEffect, Zenon DEF AnswerThrows
<1>10. ASSUME NEW n \in Sessions, JoinInterrupted(n) PROVE NoteInv'
  BY <1>0, <1>10, Zenon DEF JoinInterrupted
<1>11. ASSUME NEW n \in Sessions, Finally(n) PROVE NoteInv'
  <2>1. CASE skip[n] BY <1>0, <1>11, <2>1, Zenon DEF Finally
  <2>2. CASE ~skip[n]
    <3>1. CloseStreamOnce(n) BY <1>11, <2>2, Zenon DEF Finally
    <3> QED BY <1>0, <1>11, <3>1, CloseOnceEffect, Zenon DEF Finally
  <2> QED BY <2>1, <2>2, Zenon
<1>12. ASSUME NEW n \in Sessions, Cleanup(n) PROVE NoteInv'
  BY <1>0, <1>12, Zenon DEF Cleanup
<1>13. ASSUME NEW n \in Sessions, NEW t \in {"up", "down"}, PipeTurn(n, t) PROVE NoteInv'
  BY <1>0, <1>13, Zenon DEF PipeTurn
<1>14. ASSUME NEW n \in Sessions, NEW t \in {"up", "down"}, PipeCloses(n, t) PROVE NoteInv'
  BY <1>0, <1>14, CloseOnceEffect, Zenon DEF PipeCloses
<1>15. ASSUME NEW n \in Sessions, NEW t \in {"up", "down"}, PipeEnds(n, t) PROVE NoteInv'
  BY <1>0, <1>15, Zenon DEF PipeEnds
<1>16. ASSUME NEW n \in Sessions, ReadEnds(n) \/ ReadBytes(n) \/ SendData(n) PROVE NoteInv'
  BY <1>0, <1>16, Zenon DEF ReadEnds, ReadBytes, SendData
<1>17. ASSUME NEW n \in Sessions, DownLookUp(n) \/ DownPollEnds(n) PROVE NoteInv'
  BY <1>0, <1>17, Zenon DEF DownLookUp, DownPollEnds
<1>18. ASSUME NEW n \in Sessions, DownPolled(n) PROVE NoteInv'
  <2>1. CloseStreamOnce(n) \/ UNCHANGED <<guard, closes>>
    BY <1>18, Zenon DEF DownPolled
  <2>2. guard' \in [Sessions -> BOOLEAN \cup {None}] /\ closes' \in [Sessions -> Nat]
    BY <1>0, <2>1, CloseOnceEffect, Zenon
  <2> QED
    BY <1>0, <1>18, <2>2, Zenon DEF DownPolled
<1>19. ASSUME NEW n \in Sessions, Egress(n) PROVE NoteInv'
  BY <1>0, <1>19, Zenon DEF Egress, EgressOpens, EgressCloses, EgressTakesData, EgressPushes, EgressEnds
<1>20. ASSUME NEW f \in Frames, ReceiveFrame(f) PROVE NoteInv'
  BY <1>0, <1>20, Zenon DEF ReceiveFrame
<1> HIDE DEF NoteInv
<1> QED
  BY <1>1, <1>2, <1>3, <1>4, <1>5, <1>6, <1>7, <1>8, <1>9, <1>10, <1>11, <1>12, <1>13, <1>14,
     <1>15, <1>16, <1>17, <1>18, <1>19, <1>20, <1>21, Steps, Zenon DEF Handler, Pipe

LEMMA NetNext == ASSUME TypeInv, Next PROVE NetInv'
<1>0. NetInv
  BY Zenon DEF TypeInv
<1>1. CASE UNCHANGED <<wire, air, egress>>
  BY <1>0, <1>1, Zenon DEF NetInv, egress
<1>2. ASSUME NEW f \in Frames, UNCHANGED <<air, egress>>, wire' = wire \/ wire' = wire \cup {f} PROVE NetInv'
  BY <1>0, <1>2, Zenon DEF NetInv, egress
<1>3. \A n \in Sessions : \A k \in {"OPEN", "DATA", "CLOSE", "ERROR"} : <<k, n>> \in Frames
  BY Zenon DEF Frames
<1>4. ASSUME NEW f \in Frames, ReceiveFrame(f) PROVE NetInv'
  BY <1>0, <1>4, Zenon DEF ReceiveFrame, NetInv, egress
<1>5. ASSUME NEW n \in Sessions, EgressOpens(n) PROVE NetInv'
  BY <1>0, <1>3, <1>5, Zenon DEF EgressOpens, NetInv
<1>6. ASSUME NEW n \in Sessions, EgressCloses(n) PROVE NetInv'
  <2>1. <<"CLOSE", IF registered = None THEN n ELSE registered>> \in Frames
    BY <1>0, <1>3, Zenon DEF NetInv
  <2> QED
    BY <1>0, <1>6, <2>1, Zenon DEF EgressCloses, NetInv
<1>7. ASSUME NEW n \in Sessions, EgressTakesData(n) PROVE NetInv'
  BY <1>0, <1>3, <1>7, Zenon DEF EgressTakesData, NetInv, egress
<1>8. ASSUME NEW n \in Sessions, EgressPushes(n) PROVE NetInv'
  BY <1>0, <1>3, <1>8, Zenon DEF EgressPushes, NetInv
<1>9. ASSUME NEW n \in Sessions, EgressEnds(n) PROVE NetInv'
  BY <1>0, <1>3, <1>9, Zenon DEF EgressEnds, NetInv
<1>10. ASSUME NEW n \in Sessions, Start(n) \/ Stop(n) \/ AcceptConnection(n) \/ AcceptEnds(n) \/ Submit(n)
       PROVE  UNCHANGED <<wire, air, egress>>
  BY <1>10, Zenon DEF Start, Stop, AcceptConnection, AcceptEnds, Submit
<1>11. ASSUME NEW n \in Sessions, Handler(n) PROVE NetInv'
  <2>1. UNCHANGED <<air, egress>> /\ (wire' = wire \/ \E k \in {"OPEN", "CLOSE"} : wire' = wire \cup {<<k, n>>})
    BY <1>11, Zenon DEF Handler, HelloRefused, HelloThrows, OpenStream, AwaitLookUp, OpenTimeout, OpenGraceOver,
       OpenInterrupted, OpenPollEmpty, OpenPolled, AnswerSent, AnswerThrows, StartDown, Joined, JoinInterrupted,
       Finally, Cleanup, CloseStreamOnce, SendClose
  <2> QED
    BY <1>1, <1>2, <1>3, <2>1, Zenon
<1>12. ASSUME NEW n \in Sessions, NEW t \in {"up", "down"}, Pipe(n, t) PROVE NetInv'
  <2>1. UNCHANGED <<air, egress>> /\ (wire' = wire \/ wire' = wire \cup {<<"CLOSE", n>>})
    BY <1>12, Zenon DEF Pipe, PipeTurn, PipeEnds, PipeCloses, CloseStreamOnce, SendClose
  <2> QED
    BY <1>1, <1>2, <1>3, <2>1, Zenon
<1>13. ASSUME NEW n \in Sessions,
              ReadEnds(n) \/ ReadBytes(n) \/ SendData(n) \/ DownLookUp(n) \/ DownPollEnds(n) \/ DownPolled(n)
       PROVE NetInv'
  <2>1. UNCHANGED <<air, egress>> /\ (wire' = wire \/ \E k \in {"DATA", "CLOSE"} : wire' = wire \cup {<<k, n>>})
    BY <1>13, Zenon DEF ReadEnds, ReadBytes, SendData, DownLookUp, DownPollEnds, DownPolled, CloseStreamOnce, SendClose
  <2> QED
    BY <1>1, <1>2, <1>3, <2>1, Zenon
<1> QED
  BY <1>1, <1>4, <1>5, <1>6, <1>7, <1>8, <1>9, <1>10, <1>11, <1>12, <1>13, Steps, Zenon DEF Egress

\* There are queue objects enough.
LEMMA QueueObjects ==
    ASSUME QueueInv
    PROVE  /\ made \in 0..(MaxSession + 1)
           /\ queue # None => queue \in Queues
<1>1. made \in Nat /\ made <= Cardinality(Left) + 1
  BY LeftCount DEF QueueInv
<1> QED
  BY <1>1, LeftCount, BoundsAssumption DEF QueueInv, Queues

\* registerStream makes an object only when there is none.
LEMMA Registered ==
    ASSUME QueueInv, RegisterStream, ~crashed
    PROVE  /\ made' \in Nat /\ queue' \in 1..made' /\ queue' # None
           /\ made' <= Cardinality(Left) + 1 /\ queue' \in Queues
<1>1. made' \in Nat /\ queue' \in 1..made' /\ made' <= Cardinality(Left) + 1
  BY LeftCount DEF QueueInv, RegisterStream
<1> QED
  BY <1>1, LeftCount, BoundsAssumption, NoneAssumption DEF Queues

\* The handlers of the other sessions stay as they are.
LEMMA LeftStays ==
    ASSUME PlaceInv, NEW n \in Sessions, NEW l \in HandlerLabels, Goto(n, "h", l), l # "done", pc[n]["h"] # "done"
    PROVE  Left' = Left
BY HandlerMoves, Zenon DEF Left

LEMMA PipeLeaves ==
    ASSUME PlaceInv, NEW n \in Sessions, NEW t \in {"up", "down"}, NEW l \in PipeLabels, Goto(n, t, l)
    PROVE  Left' = Left
BY PipeMoves, Zenon DEF Left

\* A step that touches neither the queues nor what a thread polls.
LEMMA QueueQuiet ==
    ASSUME QueueInv, UNCHANGED <<queue, made, content, hold>>, Left' = Left, crashed' = crashed \/ crashed' = TRUE,
           crashed \in BOOLEAN,
           \A n \in Sessions, t \in {"h", "down"} : pc'[n][t] = "poll" => pc[n][t] = "poll"
    PROVE  QueueInv'
<1>1. made' <= Cardinality(Left') + IF queue' = None /\ ~crashed' THEN 0 ELSE 1
  BY LeftCount DEF QueueInv
<1> QED
  BY <1>1, Zenon DEF QueueInv

\* A thread begins to poll the queue it found, and ends.
LEMMA HoldEffect ==
    ASSUME QueueInv, NEW n \in Sessions, NEW t \in Threads, LookUp(n, t) \/ Release(n, t)
    PROVE  /\ hold' \in [Sessions -> [Threads -> Queues \cup {None}]]
           /\ LookUp(n, t) => hold'[n][t] # None
           /\ \A m \in Sessions, u \in Threads : m # n \/ u # t => hold'[m][u] = hold[m][u]
<1>1. PICK q \in Queues \cup {None} : hold' = [hold EXCEPT ![n] = [hold[n] EXCEPT ![t] = q]] /\ (LookUp(n, t) => q # None)
  <2>1. CASE LookUp(n, t)
    BY <2>1, QueueObjects, Zenon DEF LookUp
  <2>2. CASE Release(n, t) /\ ~LookUp(n, t)
    BY <2>2, Zenon DEF Release
  <2> QED
    BY <2>1, <2>2, Zenon
<1> QED
  BY <1>1, Zenon DEF QueueInv

\* A frame is taken from the queue a thread polls.
LEMMA TakeEffect ==
    ASSUME QueueInv, NEW n \in Sessions, NEW t \in {"h", "down"}, pc[n][t] = "poll", CanPoll(n, t), Take(n, t)
    PROVE  content' \in [Queues -> Seq(Frames)]
<1>1. hold[n][t] \in Queues
  BY DEF QueueInv, Threads
<1>2. content[hold[n][t]] \in Seq(Frames) /\ content[hold[n][t]] # <<>>
  BY <1>1, Zenon DEF QueueInv, CanPoll
<1>3. Tail(content[hold[n][t]]) \in Seq(Frames)
  BY <1>2, SMTT(30)
<1> QED
  BY <1>1, <1>3, Zenon DEF QueueInv, Take

LEMMA QueueNext == ASSUME TypeInv, Next PROVE QueueInv'
<1>0. QueueInv /\ PlaceInv /\ ~crashed /\ crashed \in BOOLEAN
  BY Steps, Zenon DEF TypeInv, NoteInv
<1> USE ThreeThreads DEF relay, queues
<1>1. ASSUME UNCHANGED <<queue, made, content, hold, crashed>>,
             NEW n \in Sessions, NEW l \in HandlerLabels, Goto(n, "h", l), l \notin {"done", "poll"},
             pc[n]["h"] # "done"
      PROVE  QueueInv'
  BY <1>0, <1>1, LeftStays, HandlerMoves, QueueQuiet, Zenon
<1>2. ASSUME UNCHANGED <<queue, made, content, hold, crashed>>,
             NEW n \in Sessions, NEW t \in {"up", "down"}, NEW l \in PipeLabels, Goto(n, t, l), l # "poll"
      PROVE  QueueInv'
  <2>1. Left' = Left
    BY <1>0, <1>2, PipeLeaves, Zenon
  <2>2. \A m \in Sessions, u \in {"h", "down"} : pc'[m][u] = "poll" => pc[m][u] = "poll"
    BY <1>0, <1>2, PipeMoves, Zenon DEF Other
  <2> QED
    BY <1>0, <1>2, <2>1, <2>2, QueueQuiet, Zenon
<1>3. ASSUME UNCHANGED <<queue, made, content, hold>>, UNCHANGED pc, crashed' = crashed \/ crashed' = TRUE
      PROVE  QueueInv'
  <2>1. Left' = Left BY <1>3, Zenon DEF Left
  <2> QED BY <1>0, <1>3, <2>1, QueueQuiet, Zenon
<1>4. ASSUME NEW n \in Sessions, Start(n) \/ Stop(n) \/ AcceptConnection(n) \/ AcceptEnds(n) \/ HelloThrows(n) \/ Egress(n)
      PROVE  QueueInv'
  BY <1>3, <1>4, Zenon DEF Start, Stop, AcceptConnection, AcceptEnds, HelloThrows, Egress, EgressOpens, EgressCloses,
     EgressTakesData, EgressPushes, EgressEnds
<1>5. ASSUME NEW f \in Frames, ReceiveFrame(f) PROVE QueueInv'
  <2>1. UNCHANGED <<pc, hold, crashed>> /\ Left' = Left
    BY <1>5, Zenon DEF ReceiveFrame, Left
  <2>2. CASE queue = None /\ f[1] = "DATA"
    BY <1>3, <1>5, <2>1, <2>2, Zenon DEF ReceiveFrame
  <2>3. CASE ~(queue = None /\ f[1] = "DATA")
    <3>1. RegisterStream /\ content' = [content EXCEPT ![queue'] = Append(content[queue'], f)]
      BY <1>5, <2>3, Zenon DEF ReceiveFrame
    <3>2. /\ made' \in Nat /\ queue' \in 1..made' /\ queue' # None
          /\ made' <= Cardinality(Left) + 1 /\ queue' \in Queues
      BY <1>0, <3>1, Registered, Zenon
    <3>3. Append(content[queue'], f) \in Seq(Frames)
      BY <1>0, <3>2 DEF QueueInv
    <3>4. content' \in [Queues -> Seq(Frames)]
      BY <1>0, <3>1, <3>2, <3>3, Zenon DEF QueueInv
    <3> QED
      BY <1>0, <2>1, <3>2, <3>4, Zenon DEF QueueInv
  <2> QED
    BY <2>2, <2>3, Zenon
<1>6. ASSUME NEW n \in Sessions, Submit(n), pc[n]["h"] # "done" PROVE QueueInv'
  BY <1>1, <1>3, <1>6, Zenon DEF Submit, HandlerLabels
<1>7. ASSUME NEW n \in Sessions, OpenStream(n) PROVE QueueInv'
  <2>1. /\ made' \in Nat /\ queue' \in 1..made' /\ queue' # None
        /\ made' <= Cardinality(Left) + 1
    BY <1>0, <1>7, Registered, Zenon DEF OpenStream
  <2>2. PICK l \in {"await", "cleanup"} : Goto(n, "h", l)
    BY <1>7, Zenon DEF OpenStream
  <2>3. pc[n]["h"] = "hello" /\ UNCHANGED <<hold, content, crashed>>
    BY <1>7, Zenon DEF OpenStream, At
  <2>4. l \in HandlerLabels
    BY Zenon DEF HandlerLabels
  <2>5. Left' = Left /\ \A m \in Sessions, u \in {"h", "down"} : pc'[m][u] = "poll" => pc[m][u] = "poll"
    BY <1>0, <2>2, <2>3, <2>4, LeftStays, HandlerMoves, Zenon
  <2> QED
    BY <1>0, <2>1, <2>3, <2>5, Zenon DEF QueueInv
<1>8. ASSUME NEW n \in Sessions, AwaitLookUp(n) PROVE QueueInv'
  <2>1. /\ pc[n]["h"] = "await" /\ Goto(n, "h", "poll") /\ LookUp(n, "h") /\ UNCHANGED <<queue, made, content, crashed>>
        /\ "poll" \in HandlerLabels
    BY <1>8, Zenon DEF AwaitLookUp, At, HandlerLabels
  <2>2. Left' = Left /\ pc'[n]["down"] = pc[n]["down"] /\ \A m \in Sessions : m # n => pc'[m] = pc[m]
    BY <1>0, <2>1, LeftStays, HandlerMoves, Zenon
  <2>3. /\ hold' \in [Sessions -> [Threads -> Queues \cup {None}]] /\ hold'[n]["h"] # None
        /\ \A m \in Sessions, u \in Threads : m # n \/ u # "h" => hold'[m][u] = hold[m][u]
    BY <1>0, <2>1, HoldEffect, Zenon
  <2>4. \A m \in Sessions, u \in {"h", "down"} : pc'[m][u] = "poll" => hold'[m][u] # None
    BY <1>0, <2>1, <2>2, <2>3, SMTT(30) DEF QueueInv
  <2> QED
    BY <1>0, <2>1, <2>2, <2>3, <2>4, Zenon DEF QueueInv
<1>9. ASSUME NEW n \in Sessions, OpenTimeout(n) \/ OpenGraceOver(n) \/ Joined(n) \/ JoinInterrupted(n) \/ Finally(n)
      PROVE  QueueInv'
  BY <1>1, <1>9, Zenon DEF OpenTimeout, OpenGraceOver, Joined, JoinInterrupted, Finally, At, HandlerLabels
<1>10. ASSUME NEW n \in Sessions, OpenInterrupted(n) \/ OpenPollEmpty(n) \/ OpenPolled(n) PROVE QueueInv'
  <2>1. pc[n]["h"] = "poll" /\ Release(n, "h") /\ UNCHANGED <<queue, made, crashed>>
    BY <1>10, Zenon DEF OpenInterrupted, OpenPollEmpty, OpenPolled, At
  <2>2. PICK l \in {"await", "cleanup", "answer"} : Goto(n, "h", l)
    BY <1>10, Zenon DEF OpenInterrupted, OpenPollEmpty, OpenPolled
  <2>3. l \in HandlerLabels
    BY Zenon DEF HandlerLabels
  <2>4. /\ Left' = Left /\ pc'[n]["h"] = l /\ pc'[n]["down"] = pc[n]["down"]
        /\ \A m \in Sessions : m # n => pc'[m] = pc[m]
    BY <1>0, <2>1, <2>2, <2>3, LeftStays, HandlerMoves, Zenon
  <2>5. /\ hold' \in [Sessions -> [Threads -> Queues \cup {None}]]
        /\ \A m \in Sessions, u \in Threads : m # n \/ u # "h" => hold'[m][u] = hold[m][u]
    BY <1>0, <2>1, HoldEffect, Zenon
  <2>6. \A m \in Sessions, u \in {"h", "down"} : pc'[m][u] = "poll" => hold'[m][u] # None
    <3> SUFFICES ASSUME NEW m \in Sessions, NEW u \in {"h", "down"}, pc'[m][u] = "poll"
                 PROVE  hold'[m][u] # None
      OBVIOUS
    <3>1. pc[m][u] = "poll" => hold[m][u] # None
      BY <1>0, Zenon DEF QueueInv
    <3>2. u \in Threads
      BY Zenon DEF Threads
    <3>3. l # "poll"
      BY Zenon
    <3>4. CASE m = n /\ u = "h"
      BY <2>4, <3>3, <3>4, Zenon
    <3>5. CASE m = n /\ u = "down"
      <4>1. u # "h"
        BY <3>5, Zenon
      <4> QED
        BY <2>4, <2>5, <3>1, <3>2, <3>5, <4>1, Zenon
    <3>6. CASE m # n
      BY <2>4, <2>5, <3>1, <3>2, <3>6, Zenon
    <3> QED
      BY <3>4, <3>5, <3>6, Zenon
  <2>7. content' \in [Queues -> Seq(Frames)]
    <3>1. CASE OpenPolled(n)
      BY <1>0, <2>1, <3>1, TakeEffect, Zenon DEF OpenPolled
    <3>2. CASE ~OpenPolled(n)
      BY <1>0, <1>10, <3>2, Zenon DEF OpenInterrupted, OpenPollEmpty, QueueInv
    <3> QED
      BY <3>1, <3>2, Zenon
  <2> QED
    BY <1>0, <2>1, <2>4, <2>5, <2>6, <2>7, Zenon DEF QueueInv
<1>11. ASSUME NEW n \in Sessions, AnswerSent(n) \/ StartDown(n) PROVE QueueInv'
  <2>1. Left' = Left /\ \A m \in Sessions, u \in {"h", "down"} : pc'[m][u] = "poll" => pc[m][u] = "poll"
    BY <1>0, <1>11, SMTT(30) DEF AnswerSent, StartDown, PlaceInv, Left, At
  <2> QED
    BY <1>0, <1>11, <2>1, QueueQuiet, Zenon DEF AnswerSent, StartDown
<1>12. ASSUME NEW n \in Sessions, AnswerThrows(n) PROVE QueueInv'
  <2>1. queue' = None /\ crashed' = TRUE /\ UNCHANGED <<pc, made, hold, content>> /\ Left' = Left
    BY <1>12, Zenon DEF AnswerThrows, UnregisterStream, Left
  <2> QED
    BY <1>0, <2>1, LeftCount DEF QueueInv
<1>13. ASSUME NEW n \in Sessions, HelloRefused(n) PROVE QueueInv'
  <2>1. pc[n]["h"] = "hello" /\ Goto(n, "h", "done") /\ UNCHANGED <<queue, made, content, hold, crashed>>
    BY <1>13, Zenon DEF HelloRefused, At
  <2>2. Cardinality(Left') = Cardinality(Left) + 1 /\ Cardinality(Left) \in Nat
    BY <1>0, <2>1, LeftMore, LeftCount, Zenon
  <2>3. \A m \in Sessions, u \in {"h", "down"} : pc'[m][u] = "poll" => pc[m][u] = "poll"
    BY <1>0, <2>1, HandlerMoves, Zenon DEF HandlerLabels
  <2> QED
    BY <1>0, <2>1, <2>2, <2>3, SMTT(30) DEF QueueInv
<1>14. ASSUME NEW n \in Sessions, Cleanup(n) PROVE QueueInv'
  <2>1. pc[n]["h"] = "cleanup" /\ Goto(n, "h", "done") /\ queue' = None /\ UNCHANGED <<made, content, hold, crashed>>
    BY <1>14, Zenon DEF Cleanup, UnregisterStream, At
  <2>2. Cardinality(Left') = Cardinality(Left) + 1 /\ Cardinality(Left) \in Nat
    BY <1>0, <2>1, LeftMore, LeftCount, Zenon
  <2>3. \A m \in Sessions, u \in {"h", "down"} : pc'[m][u] = "poll" => pc[m][u] = "poll"
    BY <1>0, <2>1, HandlerMoves, Zenon DEF HandlerLabels
  <2> QED
    BY <1>0, <2>1, <2>2, <2>3, SMTT(30) DEF QueueInv
<1>15. ASSUME NEW n \in Sessions, NEW t \in {"up", "down"}, Pipe(n, t) PROVE QueueInv'
  BY <1>2, <1>15, Zenon DEF Pipe, PipeTurn, PipeEnds, PipeCloses, PipeLabels
<1>16. ASSUME NEW n \in Sessions, ReadEnds(n) \/ ReadBytes(n) \/ SendData(n) PROVE QueueInv'
  BY <1>2, <1>16, Zenon DEF ReadEnds, ReadBytes, SendData, PipeLabels
<1>17. ASSUME NEW n \in Sessions, DownLookUp(n) PROVE QueueInv'
  <2>1. CASE queue = None /\ Goto(n, "down", "loop") /\ UNCHANGED hold
    BY <1>2, <1>17, <2>1, Zenon DEF DownLookUp, PipeLabels
  <2>2. CASE LookUp(n, "down") /\ Goto(n, "down", "poll")
    <3>1. UNCHANGED <<queue, made, content, crashed>> /\ "poll" \in PipeLabels
      BY <1>17, Zenon DEF DownLookUp, PipeLabels
    <3>2. Left' = Left /\ pc'[n]["h"] = pc[n]["h"] /\ \A m \in Sessions : m # n => pc'[m] = pc[m]
      BY <1>0, <2>2, <3>1, PipeLeaves, PipeMoves, Zenon
    <3>3. /\ hold' \in [Sessions -> [Threads -> Queues \cup {None}]] /\ hold'[n]["down"] # None
          /\ \A m \in Sessions, u \in Threads : m # n \/ u # "down" => hold'[m][u] = hold[m][u]
      BY <1>0, <2>2, HoldEffect, Zenon
    <3>4. \A m \in Sessions, u \in {"h", "down"} : pc'[m][u] = "poll" => hold'[m][u] # None
      BY <1>0, <3>2, <3>3, SMTT(30) DEF QueueInv
    <3> QED
      BY <1>0, <3>1, <3>2, <3>3, <3>4, Zenon DEF QueueInv
  <2> QED
    BY <1>17, <2>1, <2>2, Zenon DEF DownLookUp
<1>18. ASSUME NEW n \in Sessions, DownPollEnds(n) \/ DownPolled(n) PROVE QueueInv'
  <2>1. pc[n]["down"] = "poll" /\ Release(n, "down") /\ UNCHANGED <<queue, made, crashed>>
    BY <1>18, Zenon DEF DownPollEnds, DownPolled, At
  <2>2. PICK l \in {"loop", "end"} : Goto(n, "down", l)
    BY <1>18, Zenon DEF DownPollEnds, DownPolled
  <2>3. l \in PipeLabels
    BY Zenon DEF PipeLabels
  <2>4. /\ Left' = Left /\ pc'[n]["down"] = l /\ pc'[n]["h"] = pc[n]["h"]
        /\ \A m \in Sessions : m # n => pc'[m] = pc[m]
    BY <1>0, <2>1, <2>2, <2>3, PipeLeaves, PipeMoves, Zenon
  <2>5. /\ hold' \in [Sessions -> [Threads -> Queues \cup {None}]]
        /\ \A m \in Sessions, u \in Threads : m # n \/ u # "down" => hold'[m][u] = hold[m][u]
    BY <1>0, <2>1, HoldEffect, Zenon
  <2>6. \A m \in Sessions, u \in {"h", "down"} : pc'[m][u] = "poll" => hold'[m][u] # None
    <3> SUFFICES ASSUME NEW m \in Sessions, NEW u \in {"h", "down"}, pc'[m][u] = "poll"
                 PROVE  hold'[m][u] # None
      OBVIOUS
    <3>1. pc[m][u] = "poll" => hold[m][u] # None
      BY <1>0, Zenon DEF QueueInv
    <3>2. u \in Threads
      BY Zenon DEF Threads
    <3>3. l # "poll"
      BY Zenon
    <3>4. CASE m = n /\ u = "down"
      BY <2>4, <3>3, <3>4, Zenon
    <3>5. CASE m = n /\ u = "h"
      <4>1. u # "down"
        BY <3>5, Zenon
      <4> QED
        BY <2>4, <2>5, <3>1, <3>2, <3>5, <4>1, Zenon
    <3>6. CASE m # n
      BY <2>4, <2>5, <3>1, <3>2, <3>6, Zenon
    <3> QED
      BY <3>4, <3>5, <3>6, Zenon
  <2>7. content' \in [Queues -> Seq(Frames)]
    <3>1. CASE DownPolled(n)
      BY <1>0, <2>1, <3>1, TakeEffect, Zenon DEF DownPolled
    <3>2. CASE ~DownPolled(n)
      BY <1>0, <1>18, <3>2, Zenon DEF DownPollEnds, QueueInv
    <3> QED
      BY <3>1, <3>2, Zenon
  <2> QED
    BY <1>0, <2>1, <2>4, <2>5, <2>6, <2>7, Zenon DEF QueueInv
<1>19. \A n \in Sessions : Submit(n) => pc[n]["h"] # "done"
  BY Zenon DEF Submit, TypeInv, SubmitInv
<1> QED
  BY <1>4, <1>5, <1>6, <1>7, <1>8, <1>9, <1>10, <1>11, <1>12, <1>13, <1>14, <1>15, <1>16, <1>17, <1>18,
     <1>19, Steps, Zenon DEF Handler

LEMMA SubmitNext == ASSUME TypeInv, Next PROVE SubmitInv'
<1>0. SubmitInv /\ PlaceInv /\ ThreadInv
  BY Zenon DEF TypeInv
<1> USE DEF SubmitInv, server, relay
<1>1. ASSUME NEW n \in Sessions, Start(n) \/ Stop(n) \/ AcceptConnection(n) \/ AcceptEnds(n) PROVE SubmitInv'
  BY <1>0, <1>1, Zenon DEF Start, Stop, AcceptConnection, AcceptEnds, ThreadInv
<1>2. ASSUME NEW n \in Sessions, Submit(n) PROVE SubmitInv'
  <2>1. accepting' = [accepting EXCEPT ![n] = "ended"] /\ running' = running
    BY <1>2, Zenon DEF Submit
  <2>2. UNCHANGED pc \/ (running[n] = "up" /\ Goto(n, "h", "hello"))
    BY <1>2, Zenon DEF Submit
  <2>3. \A m \in Sessions : m # n => pc'[m] = pc[m]
    BY <1>0, <2>2, HandlerMoves, Zenon DEF HandlerLabels
  <2> QED
    BY <1>0, <2>1, <2>2, <2>3, Zenon DEF ThreadInv
<1>3. ASSUME UNCHANGED <<running, accepting>>, \A m \in Sessions : pc[m]["h"] = "none" => pc'[m]["h"] = "none"
      PROVE SubmitInv'
  BY <1>0, <1>3, Zenon
<1>4. ASSUME NEW n \in Sessions, Handler(n) PROVE SubmitInv'
  <2>1. UNCHANGED <<running, accepting>> /\ pc[n]["h"] # "none"
    BY <1>4, Zenon DEF Handler, HelloRefused, HelloThrows, OpenStream, AwaitLookUp, OpenTimeout, OpenGraceOver,
       OpenInterrupted, OpenPollEmpty, OpenPolled, AnswerSent, AnswerThrows, StartDown, Joined, JoinInterrupted,
       Finally, Cleanup, At
  <2>2. \A m \in Sessions : m # n => pc'[m] = pc[m]
    <3>1. CASE AnswerSent(n) \/ StartDown(n)
      BY <1>0, <3>1, Zenon DEF AnswerSent, StartDown, PlaceInv
    <3>2. CASE ~AnswerSent(n) /\ ~StartDown(n)
      <4>1. UNCHANGED pc \/ \E l \in HandlerLabels : Goto(n, "h", l)
        BY <1>4, <3>2, Zenon DEF Handler, HelloRefused, HelloThrows, OpenStream, AwaitLookUp, OpenTimeout, OpenGraceOver,
           OpenInterrupted, OpenPollEmpty, OpenPolled, AnswerThrows, Joined, JoinInterrupted, Finally, Cleanup,
           HandlerLabels
      <4> QED
        BY <1>0, <4>1, HandlerMoves, Zenon
    <3> QED
      BY <3>1, <3>2, Zenon
  <2> QED
    BY <1>3, <2>1, <2>2, Zenon
<1>5. ASSUME NEW n \in Sessions, NEW t \in {"up", "down"}, NEW l \in PipeLabels, Goto(n, t, l),
             UNCHANGED <<running, accepting>>
      PROVE SubmitInv'
  BY <1>0, <1>3, <1>5, PipeMoves, Zenon
<1>6. ASSUME NEW n \in Sessions, NEW t \in {"up", "down"}, Pipe(n, t) PROVE SubmitInv'
  BY <1>5, <1>6, Zenon DEF Pipe, PipeTurn, PipeEnds, PipeCloses, PipeLabels
<1>7. ASSUME NEW n \in Sessions, ReadEnds(n) \/ ReadBytes(n) \/ SendData(n) PROVE SubmitInv'
  <2>1. PICK l \in PipeLabels : Goto(n, "up", l)
    BY <1>7, Zenon DEF ReadEnds, ReadBytes, SendData, PipeLabels
  <2>2. UNCHANGED <<running, accepting>>
    BY <1>7, Zenon DEF ReadEnds, ReadBytes, SendData
  <2> QED
    BY <1>5, <2>1, <2>2, Zenon
<1>8. ASSUME NEW n \in Sessions, DownLookUp(n) \/ DownPollEnds(n) \/ DownPolled(n) PROVE SubmitInv'
  BY <1>5, <1>8, Zenon DEF DownLookUp, DownPollEnds, DownPolled, PipeLabels
<1>9. ASSUME NEW n \in Sessions, Egress(n) PROVE SubmitInv'
  BY <1>0, <1>9, Zenon DEF Egress, EgressOpens, EgressCloses, EgressTakesData, EgressPushes, EgressEnds
<1>10. ASSUME NEW f \in Frames, ReceiveFrame(f) PROVE SubmitInv'
  BY <1>0, <1>10, Zenon DEF ReceiveFrame
<1> HIDE DEF SubmitInv
<1> QED
  BY <1>1, <1>2, <1>4, <1>6, <1>7, <1>8, <1>9, <1>10, Steps, Zenon

LEMMA TypeNext == TypeInv /\ [Next]_vars => TypeInv'
<1>1. TypeInv /\ Next => TypeInv'
  BY SubmitNext, PlaceNext, ThreadNext, NoteNext, QueueNext, NetNext, Zenon DEF TypeInv
<1>2. TypeInv /\ UNCHANGED vars => TypeInv'
  <2> SUFFICES ASSUME TypeInv, UNCHANGED vars PROVE TypeInv'
    BY Zenon
  <2> USE DEF vars, server, relay, queues, egress, ghosts
  <2>1. SubmitInv' /\ PlaceInv' /\ ThreadInv'
    BY Zenon DEF TypeInv, SubmitInv, PlaceInv, ThreadInv
  <2>2. NoteInv' /\ NetInv'
    BY Zenon DEF TypeInv, NoteInv, NetInv
  <2>3. QueueInv'
    BY Zenon DEF TypeInv, QueueInv, Left
  <2> QED
    BY <2>1, <2>2, <2>3, Zenon DEF TypeInv
<1> QED
  BY <1>1, <1>2, Zenon

\* The types of the variables hold in every state: a thread polls a queue object
\* that exists, no more of them are made than handlers take away, and the
\* egress only knows streams it has opened.
THEOREM TypeCorrect == Spec => []TypeOK
<1>1. TypeInv => TypeOK
  <2> SUFFICES ASSUME TypeInv PROVE TypeOK
    BY Zenon
  <2>1. made \in 0..(2 * MaxSession + 1)
    BY QueueObjects, BoundsAssumption, SMTT(30) DEF TypeInv
  <2>2. /\ running \in [Sessions -> {"new", "up", "down"}]
        /\ accepting \in [Sessions -> {"accept", "submit", "ended"}]
        /\ sock \in [Sessions -> {"none", "open", "shut", "closed"}]
        /\ guard \in [Sessions -> BOOLEAN \cup {None}]
        /\ queue \in (1..made) \cup {None}
        /\ wire \subseteq Frames /\ air \subseteq Frames
        /\ live \subseteq opened /\ registered \in live \cup {None}
    BY Zenon DEF TypeInv, ThreadInv, NoteInv, QueueInv, NetInv
  <2>3. ASSUME NEW n \in Sessions
        PROVE  /\ pc[n]["h"] \in HandlerLabels
               /\ pc[n]["up"] \in PipeLabels /\ pc[n]["down"] \in PipeLabels
               /\ intr[n] \subseteq Threads
               /\ \A t \in Threads : hold[n][t] \in Queues \cup {None}
               /\ \A t \in {"h", "down"} : At(n, t, "poll") => hold[n][t] # None
    BY Zenon DEF TypeInv, PlaceInv, ThreadInv, QueueInv, At
  <2> QED
    BY <2>1, <2>2, <2>3, Zenon DEF TypeOK
<1> QED
  BY <1>1, TypeInit, TypeNext, PTL DEF Spec

\* The CLOSE frames of a connection.

\* The CLOSE the guard stands for.
Sent(g) == IF g = TRUE THEN 1 ELSE 0

\* How far handleClient and the pipes of a connection are, and what
\* openStream returned.
Phase(n) ==
    LET h == pc[n]["h"]  u == pc[n]["up"]  d == pc[n]["down"] IN
    /\ h \in {"none", "hello", "await", "poll", "answer"} => u = "none" /\ ~sessionDone[n]
    /\ h \in {"startDown", "join", "finally"} => u # "none"
    /\ h = "startDown" => d = "unstarted"
    /\ u = "none" <=> d = "none"
    /\ u \in {"close", "done"} \/ d \in {"close", "done"} => sessionDone[n]
    /\ result[n] = "ok" <=> (h = "answer" \/ u # "none")

\* A handler leaves the pipes behind only when its join was interrupted.
Skipped(n) ==
    LET h == pc[n]["h"]  u == pc[n]["up"]  d == pc[n]["down"] IN
    /\ skip[n] => h \in {"finally", "cleanup", "done"} /\ u # "none"
    /\ h \in {"finally", "cleanup", "done"} /\ u # "none" /\ ~skip[n] => u = "done" /\ d = "done"

\* The CLOSE frames sent, against the guard.
Told(n) ==
    LET h == pc[n]["h"]  c == closes[n]  g == guard[n] IN
    /\ h \in {"none", "hello", "await", "poll"} => c = 0
    /\ h \in {"answer", "startDown", "join", "finally"} => c = Sent(g)
    /\ h \in {"cleanup", "done"} /\ ~skip[n] => c <= 1
    /\ h = "cleanup" /\ skip[n] => c = Sent(g)
    /\ h = "done" => c <= 1 + Sent(g)
    /\ g = TRUE => c > 0

\* The pipe that set sessionDone closes the stream.
Due(n) == sessionDone[n] => closes[n] > 0 \/ pc[n]["up"] = "close" \/ pc[n]["down"] = "close"

Counted(n) == Phase(n) /\ Skipped(n) /\ Told(n) /\ Due(n)

\* A step leaves a connection alone.
Apart(n) ==
    /\ pc'[n] = pc[n] /\ guard'[n] = guard[n] /\ closes'[n] = closes[n]
    /\ skip'[n] = skip[n] /\ sessionDone'[n] = sessionDone[n] /\ result'[n] = result[n]

LEMMA ApartCounted == ASSUME NEW n, Counted(n), Apart(n) PROVE Counted(n)'
BY Zenon DEF Counted, Phase, Skipped, Told, Due, Apart

\* closeStreamOnce, in terms of the frames the guard stands for.
LEMMA OnceCounted ==
    ASSUME NoteInv, NEW n \in Sessions, CloseStreamOnce(n), guard[n] = TRUE => closes[n] > 0
    PROVE  /\ guard'[n] = TRUE /\ Sent(guard'[n]) = 1 /\ closes'[n] > 0
           /\ closes[n] = Sent(guard[n]) => closes'[n] = 1
           /\ closes[n] <= 1 + Sent(guard[n]) => closes'[n] <= 2
           /\ \A m \in Sessions : m # n => guard'[m] = guard[m] /\ closes'[m] = closes[m]
<1>1. closes[n] \in Nat
  BY Zenon DEF NoteInv
<1>2. /\ guard'[n] = TRUE /\ closes'[n] = IF guard[n] = TRUE THEN closes[n] ELSE closes[n] + 1
      /\ \A m \in Sessions : m # n => guard'[m] = guard[m] /\ closes'[m] = closes[m]
  BY CloseOnceEffect, Zenon
<1>3. Sent(guard'[n]) = 1
  BY <1>2, Zenon DEF Sent
<1>4. CASE guard[n] = TRUE
  <2>1. Sent(guard[n]) = 1 /\ closes'[n] = closes[n]
    BY <1>2, <1>4, Zenon DEF Sent
  <2> QED
    BY <1>1, <1>2, <1>3, <1>4, <2>1
<1>5. CASE guard[n] # TRUE
  <2>1. Sent(guard[n]) = 0 /\ closes'[n] = closes[n] + 1
    BY <1>2, <1>5, Zenon DEF Sent
  <2> QED
    BY <1>1, <1>2, <1>3, <2>1
<1> QED
  BY <1>4, <1>5, Zenon

\* The handler's steps up to the answer.
LEMMA CountedOpening ==
    ASSUME TypeInv, NEW n \in Sessions, Counted(n),
           \/ HelloRefused(n) \/ OpenStream(n) \/ AwaitLookUp(n) \/ OpenTimeout(n) \/ OpenGraceOver(n)
           \/ OpenInterrupted(n) \/ OpenPollEmpty(n) \/ OpenPolled(n)
    PROVE  Counted(n)' /\ \A m \in Sessions : m # n => Apart(m)
<1>0. PlaceInv /\ NoteInv
  BY Zenon DEF TypeInv
<1>1. ASSUME NEW l \in HandlerLabels, Goto(n, "h", l)
      PROVE  /\ pc'[n]["h"] = l /\ pc'[n]["up"] = pc[n]["up"] /\ pc'[n]["down"] = pc[n]["down"]
             /\ \A m \in Sessions : m # n => pc'[m] = pc[m]
  BY <1>0, <1>1, HandlerMoves, Zenon
<1>2. Phase(n) /\ Skipped(n) /\ Told(n) /\ Due(n)
  BY Zenon DEF Counted
<1> USE DEF At, Return, ghosts
<1>3. CASE HelloRefused(n)
  <2>1. /\ pc[n]["h"] = "hello" /\ Goto(n, "h", "done")
        /\ UNCHANGED <<guard, closes, skip, sessionDone, result>>
    BY <1>0, <1>3, Zenon DEF HelloRefused
  <2>2. /\ pc'[n]["h"] = "done" /\ pc'[n]["up"] = pc[n]["up"] /\ pc'[n]["down"] = pc[n]["down"]
        /\ \A m \in Sessions : m # n => Apart(m)
    BY <1>0, <1>1, <2>1, Zenon DEF Apart, NoteInv, HandlerLabels
  <2>4. Phase(n)' /\ Skipped(n)'
    BY <1>2, <2>1, <2>2, Zenon DEF Phase, Skipped
  <2>5. Told(n)' /\ Due(n)'
    BY <1>0, <1>2, <2>1, <2>2 DEF Phase, Skipped, Told, Due, Sent, NoteInv
  <2> QED
    BY <2>2, <2>4, <2>5, Zenon DEF Counted
<1>4. CASE AwaitLookUp(n)
  <2>1. /\ pc[n]["h"] = "await" /\ Goto(n, "h", "poll")
        /\ UNCHANGED <<guard, closes, skip, sessionDone, result>>
    BY <1>0, <1>4, Zenon DEF AwaitLookUp
  <2>2. /\ pc'[n]["h"] = "poll" /\ pc'[n]["up"] = pc[n]["up"] /\ pc'[n]["down"] = pc[n]["down"]
        /\ \A m \in Sessions : m # n => Apart(m)
    BY <1>0, <1>1, <2>1, Zenon DEF Apart, NoteInv, HandlerLabels
  <2>4. Phase(n)' /\ Skipped(n)'
    BY <1>2, <2>1, <2>2, Zenon DEF Phase, Skipped
  <2>5. Told(n)' /\ Due(n)'
    BY <1>0, <1>2, <2>1, <2>2, Zenon DEF Phase, Skipped, Told, Due, Sent, NoteInv
  <2> QED
    BY <2>2, <2>4, <2>5, Zenon DEF Counted
<1>5. CASE OpenTimeout(n)
  <2>1. /\ pc[n]["h"] = "await" /\ Goto(n, "h", "cleanup")
        /\ UNCHANGED <<guard, skip, sessionDone>>
        /\ closes' = [closes EXCEPT ![n] = closes[n] + 1]
        /\ result' = [result EXCEPT ![n] = "timeout"]
    BY <1>0, <1>5, Zenon DEF OpenTimeout, SendClose
  <2>2. /\ pc'[n]["h"] = "cleanup" /\ pc'[n]["up"] = pc[n]["up"] /\ pc'[n]["down"] = pc[n]["down"]
        /\ \A m \in Sessions : m # n => Apart(m)
    BY <1>0, <1>1, <2>1, Zenon DEF Apart, NoteInv, HandlerLabels
  <2>3. closes'[n] = closes[n] + 1 /\ result'[n] = "timeout"
    BY <1>0, <2>1, Zenon DEF NoteInv
  <2>4. Phase(n)' /\ Skipped(n)'
    BY <1>2, <2>1, <2>2, <2>3, Zenon DEF Phase, Skipped
  <2>5. Told(n)' /\ Due(n)'
    BY <1>0, <1>2, <2>1, <2>2, <2>3, SMTT(30) DEF Phase, Skipped, Told, Due, Sent, NoteInv
  <2> QED
    BY <2>2, <2>4, <2>5, Zenon DEF Counted
<1>6. CASE OpenGraceOver(n)
  <2>1. /\ pc[n]["h"] = "await" /\ Goto(n, "h", "cleanup")
        /\ UNCHANGED <<guard, closes, skip, sessionDone>>
        /\ result' = [result EXCEPT ![n] = "closed"]
    BY <1>0, <1>6, Zenon DEF OpenGraceOver
  <2>2. /\ pc'[n]["h"] = "cleanup" /\ pc'[n]["up"] = pc[n]["up"] /\ pc'[n]["down"] = pc[n]["down"]
        /\ \A m \in Sessions : m # n => Apart(m)
    BY <1>0, <1>1, <2>1, Zenon DEF Apart, NoteInv, HandlerLabels
  <2>3. result'[n] = "closed"
    BY <1>0, <2>1, Zenon DEF NoteInv
  <2>4. Phase(n)' /\ Skipped(n)'
    BY <1>2, <2>1, <2>2, <2>3, Zenon DEF Phase, Skipped
  <2>5. Told(n)' /\ Due(n)'
    BY <1>0, <1>2, <2>1, <2>2, <2>3, SMTT(30) DEF Phase, Skipped, Told, Due, Sent, NoteInv
  <2> QED
    BY <2>2, <2>4, <2>5, Zenon DEF Counted
<1>7. CASE OpenInterrupted(n)
  <2>1. /\ pc[n]["h"] = "poll" /\ Goto(n, "h", "cleanup")
        /\ UNCHANGED <<guard, closes, skip, sessionDone>>
        /\ result' = [result EXCEPT ![n] = "interrupted"]
    BY <1>0, <1>7, Zenon DEF OpenInterrupted
  <2>2. /\ pc'[n]["h"] = "cleanup" /\ pc'[n]["up"] = pc[n]["up"] /\ pc'[n]["down"] = pc[n]["down"]
        /\ \A m \in Sessions : m # n => Apart(m)
    BY <1>0, <1>1, <2>1, Zenon DEF Apart, NoteInv, HandlerLabels
  <2>3. result'[n] = "interrupted"
    BY <1>0, <2>1, Zenon DEF NoteInv
  <2>4. Phase(n)' /\ Skipped(n)'
    BY <1>2, <2>1, <2>2, <2>3, Zenon DEF Phase, Skipped
  <2>5. Told(n)' /\ Due(n)'
    BY <1>0, <1>2, <2>1, <2>2, <2>3, SMTT(30) DEF Phase, Skipped, Told, Due, Sent, NoteInv
  <2> QED
    BY <2>2, <2>4, <2>5, Zenon DEF Counted
<1>8. CASE OpenPollEmpty(n)
  <2>1. /\ pc[n]["h"] = "poll" /\ Goto(n, "h", "await")
        /\ UNCHANGED <<guard, closes, skip, sessionDone, result>>
    BY <1>0, <1>8, Zenon DEF OpenPollEmpty
  <2>2. /\ pc'[n]["h"] = "await" /\ pc'[n]["up"] = pc[n]["up"] /\ pc'[n]["down"] = pc[n]["down"]
        /\ \A m \in Sessions : m # n => Apart(m)
    BY <1>0, <1>1, <2>1, Zenon DEF Apart, NoteInv, HandlerLabels
  <2>4. Phase(n)' /\ Skipped(n)'
    BY <1>2, <2>1, <2>2, Zenon DEF Phase, Skipped
  <2>5. Told(n)' /\ Due(n)'
    BY <1>0, <1>2, <2>1, <2>2, Zenon DEF Phase, Skipped, Told, Due, Sent, NoteInv
  <2> QED
    BY <2>2, <2>4, <2>5, Zenon DEF Counted
<1>9. CASE OpenStream(n) /\ Goto(n, "h", "await") /\ UNCHANGED result
  <2>1. /\ pc[n]["h"] = "hello" /\ Goto(n, "h", "await")
        /\ UNCHANGED <<closes, skip, sessionDone, result>>
        /\ guard' = [guard EXCEPT ![n] = FALSE]
    BY <1>0, <1>9, NoneAssumption, Zenon DEF OpenStream, NoteInv
  <2>2. /\ pc'[n]["h"] = "await" /\ pc'[n]["up"] = pc[n]["up"] /\ pc'[n]["down"] = pc[n]["down"]
        /\ \A m \in Sessions : m # n => Apart(m)
    BY <1>0, <1>1, <2>1, Zenon DEF Apart, NoteInv, HandlerLabels
  <2>3. guard'[n] = FALSE
    BY <1>0, <2>1, Zenon DEF NoteInv
  <2>4. Phase(n)' /\ Skipped(n)'
    BY <1>2, <2>1, <2>2, <2>3, Zenon DEF Phase, Skipped
  <2>5. Told(n)' /\ Due(n)'
    BY <1>0, <1>2, <2>1, <2>2, <2>3, Zenon DEF Phase, Skipped, Told, Due, Sent, NoteInv
  <2> QED
    BY <2>2, <2>4, <2>5, Zenon DEF Counted
<1>10. CASE OpenStream(n) /\ Goto(n, "h", "cleanup") /\ Return(n, "failed")
  <2>1. /\ pc[n]["h"] = "hello" /\ Goto(n, "h", "cleanup")
        /\ UNCHANGED <<closes, skip, sessionDone>>
        /\ guard' = [guard EXCEPT ![n] = FALSE]
        /\ result' = [result EXCEPT ![n] = "failed"]
    BY <1>0, <1>10, NoneAssumption, Zenon DEF OpenStream, NoteInv
  <2>2. /\ pc'[n]["h"] = "cleanup" /\ pc'[n]["up"] = pc[n]["up"] /\ pc'[n]["down"] = pc[n]["down"]
        /\ \A m \in Sessions : m # n => Apart(m)
    BY <1>0, <1>1, <2>1, Zenon DEF Apart, NoteInv, HandlerLabels
  <2>3. guard'[n] = FALSE /\ result'[n] = "failed"
    BY <1>0, <2>1, Zenon DEF NoteInv
  <2>4. Phase(n)' /\ Skipped(n)'
    BY <1>2, <2>1, <2>2, <2>3, Zenon DEF Phase, Skipped
  <2>5. Told(n)' /\ Due(n)'
    BY <1>0, <1>2, <2>1, <2>2, <2>3, SMTT(30) DEF Phase, Skipped, Told, Due, Sent, NoteInv
  <2> QED
    BY <2>2, <2>4, <2>5, Zenon DEF Counted
<1>11. CASE OpenPolled(n) /\ Polled(n, "h")[1] = "OPEN"
  <2>1. /\ pc[n]["h"] = "poll" /\ Goto(n, "h", "answer")
        /\ UNCHANGED <<guard, closes, skip, sessionDone>>
        /\ result' = [result EXCEPT ![n] = "ok"]
    BY <1>0, <1>11, Zenon DEF OpenPolled
  <2>2. /\ pc'[n]["h"] = "answer" /\ pc'[n]["up"] = pc[n]["up"] /\ pc'[n]["down"] = pc[n]["down"]
        /\ \A m \in Sessions : m # n => Apart(m)
    BY <1>0, <1>1, <2>1, Zenon DEF Apart, NoteInv, HandlerLabels
  <2>3. result'[n] = "ok"
    BY <1>0, <2>1, Zenon DEF NoteInv
  <2>4. Phase(n)' /\ Skipped(n)'
    BY <1>2, <2>1, <2>2, <2>3, Zenon DEF Phase, Skipped
  <2>5. Told(n)' /\ Due(n)'
    BY <1>0, <1>2, <2>1, <2>2, <2>3, SMTT(30) DEF Phase, Skipped, Told, Due, Sent, NoteInv
  <2> QED
    BY <2>2, <2>4, <2>5, Zenon DEF Counted
<1>12. CASE OpenPolled(n) /\ Polled(n, "h")[1] = "ERROR"
  <2>1. /\ pc[n]["h"] = "poll" /\ Goto(n, "h", "cleanup")
        /\ UNCHANGED <<guard, closes, skip, sessionDone>>
        /\ result' = [result EXCEPT ![n] = "failed"]
    BY <1>0, <1>12, Zenon DEF OpenPolled
  <2>2. /\ pc'[n]["h"] = "cleanup" /\ pc'[n]["up"] = pc[n]["up"] /\ pc'[n]["down"] = pc[n]["down"]
        /\ \A m \in Sessions : m # n => Apart(m)
    BY <1>0, <1>1, <2>1, Zenon DEF Apart, NoteInv, HandlerLabels
  <2>3. result'[n] = "failed"
    BY <1>0, <2>1, Zenon DEF NoteInv
  <2>4. Phase(n)' /\ Skipped(n)'
    BY <1>2, <2>1, <2>2, <2>3, Zenon DEF Phase, Skipped
  <2>5. Told(n)' /\ Due(n)'
    BY <1>0, <1>2, <2>1, <2>2, <2>3, SMTT(30) DEF Phase, Skipped, Told, Due, Sent, NoteInv
  <2> QED
    BY <2>2, <2>4, <2>5, Zenon DEF Counted
<1>13. CASE OpenPolled(n) /\ Polled(n, "h")[1] \notin {"OPEN", "ERROR"}
  <2>1. /\ pc[n]["h"] = "poll" /\ Goto(n, "h", "await")
        /\ UNCHANGED <<guard, closes, skip, sessionDone, result>>
    BY <1>0, <1>13, Zenon DEF OpenPolled
  <2>2. /\ pc'[n]["h"] = "await" /\ pc'[n]["up"] = pc[n]["up"] /\ pc'[n]["down"] = pc[n]["down"]
        /\ \A m \in Sessions : m # n => Apart(m)
    BY <1>0, <1>1, <2>1, Zenon DEF Apart, NoteInv, HandlerLabels
  <2>4. Phase(n)' /\ Skipped(n)'
    BY <1>2, <2>1, <2>2, Zenon DEF Phase, Skipped
  <2>5. Told(n)' /\ Due(n)'
    BY <1>0, <1>2, <2>1, <2>2, Zenon DEF Phase, Skipped, Told, Due, Sent, NoteInv
  <2> QED
    BY <2>2, <2>4, <2>5, Zenon DEF Counted
<1>14. OpenStream(n) =>
         \/ Goto(n, "h", "await") /\ UNCHANGED result
         \/ Goto(n, "h", "cleanup") /\ Return(n, "failed")
  BY Zenon DEF OpenStream
<1> QED
  BY <1>3, <1>4, <1>5, <1>6, <1>7, <1>8, <1>9, <1>10, <1>11, <1>12, <1>13, <1>14, Zenon

\* The handler's steps from the answer on.
LEMMA CountedServing ==
    ASSUME TypeInv, NEW n \in Sessions, Counted(n),
           \/ AnswerSent(n) \/ AnswerThrows(n) \/ StartDown(n)
           \/ Joined(n) \/ JoinInterrupted(n) \/ Finally(n) \/ Cleanup(n)
    PROVE  Counted(n)' /\ \A m \in Sessions : m # n => Apart(m)
<1>0. PlaceInv /\ NoteInv
  BY Zenon DEF TypeInv
<1>1. ASSUME NEW l \in HandlerLabels, Goto(n, "h", l)
      PROVE  /\ pc'[n]["h"] = l /\ pc'[n]["up"] = pc[n]["up"] /\ pc'[n]["down"] = pc[n]["down"]
             /\ \A m \in Sessions : m # n => pc'[m] = pc[m]
  BY <1>0, <1>1, HandlerMoves, Zenon
<1>2. Phase(n) /\ Skipped(n) /\ Told(n) /\ Due(n)
  BY Zenon DEF Counted
<1> USE DEF At, ghosts
<1>3. CASE AnswerSent(n)
  <2>1. pc[n]["h"] = "answer" /\ UNCHANGED <<guard, closes, skip, sessionDone, result>>
    BY <1>3, Zenon DEF AnswerSent
  <2>2. /\ pc'[n]["h"] = "startDown" /\ pc'[n]["up"] = "loop" /\ pc'[n]["down"] = "unstarted"
        /\ \A m \in Sessions : m # n => Apart(m)
    BY <1>0, <1>3, <2>1, ThreeThreads, Zenon DEF AnswerSent, PlaceInv, Apart
  <2>3. Phase(n)' /\ Skipped(n)'
    BY <1>2, <2>1, <2>2, Zenon DEF Phase, Skipped
  <2>4. Told(n)' /\ Due(n)'
    BY <1>2, <2>1, <2>2, Zenon DEF Phase, Told, Due
  <2> QED
    BY <2>2, <2>3, <2>4, Zenon DEF Counted
<1>4. CASE AnswerThrows(n)
  <2>1. CloseStreamOnce(n) /\ UNCHANGED <<pc, skip, sessionDone, result>> /\ pc[n]["h"] = "answer"
    BY <1>4, Zenon DEF AnswerThrows
  <2>2. /\ guard'[n] = TRUE /\ Sent(guard'[n]) = 1 /\ closes'[n] = 1
        /\ \A m \in Sessions : m # n => Apart(m)
    BY <1>0, <1>2, <2>1, OnceCounted, Zenon DEF Told, Apart
  <2>3. Phase(n)' /\ Skipped(n)'
    BY <1>2, <2>1, Zenon DEF Phase, Skipped
  <2>4. Told(n)' /\ Due(n)'
    BY <1>2, <2>1, <2>2 DEF Told, Due
  <2> QED
    BY <2>2, <2>3, <2>4, Zenon DEF Counted
<1>5. CASE StartDown(n)
  <2>1. pc[n]["h"] = "startDown" /\ UNCHANGED <<guard, closes, skip, sessionDone, result>>
    BY <1>5, Zenon DEF StartDown
  <2>2. /\ pc'[n]["h"] = "join" /\ pc'[n]["up"] = pc[n]["up"] /\ pc'[n]["down"] = "loop"
        /\ \A m \in Sessions : m # n => Apart(m)
    BY <1>0, <1>5, <2>1, ThreeThreads, Zenon DEF StartDown, PlaceInv, Apart
  <2>3. Phase(n)' /\ Skipped(n)'
    BY <1>2, <2>1, <2>2, Zenon DEF Phase, Skipped
  <2>4. Told(n)' /\ Due(n)'
    BY <1>2, <2>1, <2>2, Zenon DEF Phase, Told, Due
  <2> QED
    BY <2>2, <2>3, <2>4, Zenon DEF Counted
<1>6. CASE Joined(n)
  <2>1. /\ pc[n]["h"] = "join" /\ pc[n]["up"] = "done" /\ pc[n]["down"] = "done"
        /\ Goto(n, "h", "finally") /\ UNCHANGED <<guard, closes, skip, sessionDone, result>>
    BY <1>6, Zenon DEF Joined
  <2>2. /\ pc'[n]["h"] = "finally" /\ pc'[n]["up"] = pc[n]["up"] /\ pc'[n]["down"] = pc[n]["down"]
        /\ \A m \in Sessions : m # n => Apart(m)
    BY <1>1, <2>1, Zenon DEF HandlerLabels, Apart
  <2>3. Phase(n)' /\ Skipped(n)'
    BY <1>2, <2>1, <2>2, Zenon DEF Phase, Skipped
  <2>4. Told(n)' /\ Due(n)'
    BY <1>2, <2>1, <2>2, Zenon DEF Told, Due
  <2> QED
    BY <2>2, <2>3, <2>4, Zenon DEF Counted
<1>7. CASE JoinInterrupted(n)
  <2>1. /\ pc[n]["h"] = "join" /\ skip' = [skip EXCEPT ![n] = TRUE]
        /\ Goto(n, "h", "finally") /\ UNCHANGED <<guard, closes, sessionDone, result>>
    BY <1>7, Zenon DEF JoinInterrupted
  <2>2. /\ pc'[n]["h"] = "finally" /\ pc'[n]["up"] = pc[n]["up"] /\ pc'[n]["down"] = pc[n]["down"]
        /\ skip'[n] = TRUE /\ \A m \in Sessions : m # n => Apart(m)
    BY <1>0, <1>1, <2>1, Zenon DEF HandlerLabels, Apart, NoteInv
  <2>3. Phase(n)' /\ Skipped(n)'
    BY <1>2, <2>1, <2>2, Zenon DEF Phase, Skipped
  <2>4. Told(n)' /\ Due(n)'
    BY <1>2, <2>1, <2>2, Zenon DEF Told, Due
  <2> QED
    BY <2>2, <2>3, <2>4, Zenon DEF Counted
<1>8. CASE Finally(n) /\ skip[n]
  <2>1. /\ pc[n]["h"] = "finally" /\ Goto(n, "h", "cleanup")
        /\ UNCHANGED <<guard, closes, skip, sessionDone, result>>
    BY <1>8, Zenon DEF Finally
  <2>2. /\ pc'[n]["h"] = "cleanup" /\ pc'[n]["up"] = pc[n]["up"] /\ pc'[n]["down"] = pc[n]["down"]
        /\ \A m \in Sessions : m # n => Apart(m)
    BY <1>1, <2>1, Zenon DEF HandlerLabels, Apart
  <2>3. Phase(n)' /\ Skipped(n)'
    BY <1>2, <1>8, <2>1, <2>2, Zenon DEF Phase, Skipped
  <2>4. Told(n)' /\ Due(n)'
    BY <1>2, <1>8, <2>1, <2>2, Zenon DEF Told, Due
  <2> QED
    BY <2>2, <2>3, <2>4, Zenon DEF Counted
<1>9. CASE Finally(n) /\ ~skip[n]
  <2>1. CloseStreamOnce(n) /\ UNCHANGED <<skip, sessionDone, result>> /\ pc[n]["h"] = "finally"
    BY <1>9, Zenon DEF Finally
  <2>2. Goto(n, "h", "cleanup")
    BY <1>9, Zenon DEF Finally
  <2>3. /\ guard'[n] = TRUE /\ Sent(guard'[n]) = 1 /\ closes'[n] = 1
        /\ \A m \in Sessions : m # n => guard'[m] = guard[m] /\ closes'[m] = closes[m]
    BY <1>0, <1>2, <2>1, OnceCounted, Zenon DEF Told
  <2>4. /\ pc'[n]["h"] = "cleanup" /\ pc'[n]["up"] = pc[n]["up"] /\ pc'[n]["down"] = pc[n]["down"]
        /\ \A m \in Sessions : m # n => Apart(m)
    BY <1>1, <2>1, <2>2, <2>3, Zenon DEF HandlerLabels, Apart
  <2>5. Phase(n)' /\ Skipped(n)'
    BY <1>2, <2>1, <2>4, Zenon DEF Phase, Skipped
  <2>6. Told(n)' /\ Due(n)'
    BY <2>3, <2>4, SMTT(30) DEF Told, Due
  <2> QED
    BY <2>4, <2>5, <2>6, Zenon DEF Counted
<1>10. CASE Cleanup(n)
  <2>1. /\ UNCHANGED <<closes, skip, sessionDone, result>> /\ pc[n]["h"] = "cleanup"
        /\ Goto(n, "h", "done") /\ guard' = [guard EXCEPT ![n] = None]
    BY <1>10, Zenon DEF Cleanup
  <2>2. guard'[n] = None /\ \A m \in Sessions : m # n => guard'[m] = guard[m]
    BY <1>0, <2>1, Zenon DEF NoteInv
  <2>3. guard'[n] # TRUE /\ Sent(guard'[n]) = 0 /\ Sent(guard[n]) \in {0, 1}
    BY <2>2, NoneAssumption, Zenon DEF Sent
  <2>4. /\ pc'[n]["h"] = "done" /\ pc'[n]["up"] = pc[n]["up"] /\ pc'[n]["down"] = pc[n]["down"]
        /\ \A m \in Sessions : m # n => Apart(m)
    BY <1>1, <2>1, <2>2, Zenon DEF HandlerLabels, Apart
  <2>5. Phase(n)' /\ Skipped(n)'
    BY <1>2, <2>1, <2>4, Zenon DEF Phase, Skipped
  <2>6. closes'[n] <= 1
    BY <1>2, <2>1, <2>3 DEF Told
  <2>7. Told(n)'
    <3>1. closes'[n] <= 1 + Sent(guard'[n])
      BY <2>3, <2>6
    <3> QED
      BY <2>3, <2>4, <2>6, <3>1, Zenon DEF Told
  <2>8. Due(n)'
    BY <1>2, <2>1, <2>4, Zenon DEF Due
  <2> QED
    BY <2>4, <2>5, <2>7, <2>8, Zenon DEF Counted
<1> QED
  BY <1>3, <1>4, <1>5, <1>6, <1>7, <1>8, <1>9, <1>10, Zenon

\* A pipe moves without closing the stream.
LEMMA CountedMove ==
    ASSUME PlaceInv, NoteInv, NEW n \in Sessions, Counted(n), NEW t \in {"up", "down"}, NEW l \in PipeLabels,
           Goto(n, t, l), pc[n][t] \notin {"none", "unstarted", "close", "done"}, l \notin {"none", "unstarted"},
           UNCHANGED <<guard, closes, skip, result>>,
           \/ l \notin {"close", "done"} /\ UNCHANGED sessionDone
           \/ /\ sessionDone' = [sessionDone EXCEPT ![n] = TRUE]
              /\ l = IF sessionDone[n] THEN "done" ELSE "close"
    PROVE  Counted(n)' /\ \A m \in Sessions : m # n => Apart(m)
<1>1. /\ pc'[n]["h"] = pc[n]["h"] /\ pc'[n][t] = l /\ pc'[n][Other(t)] = pc[n][Other(t)]
      /\ \A m \in Sessions : m # n => pc'[m] = pc[m]
  BY PipeMoves, Zenon
<1>2. Phase(n) /\ Skipped(n) /\ Told(n) /\ Due(n)
  BY Zenon DEF Counted
<1>3. \A m \in Sessions : m # n => Apart(m)
  BY <1>1, Zenon DEF Apart, NoteInv
<1>4. /\ sessionDone[n] => sessionDone'[n]
      /\ l \in {"close", "done"} => sessionDone'[n]
      /\ sessionDone'[n] => sessionDone[n] \/ l = "close"
  BY Zenon DEF NoteInv
<1>5. pc[n]["h"] \in HandlerLabels
  BY Zenon DEF PlaceInv
<1>6. pc[n]["up"] # "none" /\ pc[n]["h"] \notin {"none", "hello", "await", "poll", "answer"}
  BY <1>2, Zenon DEF Phase
<1>7. Phase(n)' /\ Skipped(n)'
  <2>1. CASE t = "up"
    BY <1>1, <1>2, <1>4, <1>6, <2>1, Zenon DEF Phase, Skipped, Other
  <2>2. CASE t = "down"
    BY <1>1, <1>2, <1>4, <1>6, <2>2, Zenon DEF Phase, Skipped, Other
  <2> QED
    BY <2>1, <2>2, Zenon
<1>8. Told(n)'
  BY <1>1, <1>2, Zenon DEF Told
<1>9. Due(n)'
  BY <1>1, <1>2, <1>4, Zenon DEF Due, Other
<1> QED
  BY <1>3, <1>7, <1>8, <1>9, Zenon DEF Counted

\* A pipe closes the stream and moves.
LEMMA CountedClose ==
    ASSUME PlaceInv, NoteInv, NEW n \in Sessions, Counted(n), NEW t \in {"up", "down"}, NEW l \in {"end", "done"},
           Goto(n, t, l), pc[n][t] \notin {"none", "unstarted", "done"}, l = "done" => pc[n][t] = "close",
           CloseStreamOnce(n), UNCHANGED <<skip, sessionDone, result>>
    PROVE  Counted(n)' /\ \A m \in Sessions : m # n => Apart(m)
<1>1. /\ pc'[n]["h"] = pc[n]["h"] /\ pc'[n][t] = l /\ pc'[n][Other(t)] = pc[n][Other(t)]
      /\ \A m \in Sessions : m # n => pc'[m] = pc[m]
  BY PipeMoves, Zenon DEF PipeLabels
<1>2. Phase(n) /\ Skipped(n) /\ Told(n) /\ Due(n)
  BY Zenon DEF Counted
<1>3. /\ guard'[n] = TRUE /\ Sent(guard'[n]) = 1 /\ closes'[n] > 0
      /\ closes[n] = Sent(guard[n]) => closes'[n] = 1
      /\ closes[n] <= 1 + Sent(guard[n]) => closes'[n] <= 2
      /\ \A m \in Sessions : m # n => guard'[m] = guard[m] /\ closes'[m] = closes[m]
  BY <1>2, OnceCounted, Zenon DEF Told
<1>4. \A m \in Sessions : m # n => Apart(m)
  BY <1>1, <1>3, Zenon DEF Apart
<1>5. pc[n]["up"] # "none" /\ pc[n]["h"] \notin {"none", "hello", "await", "poll", "answer"}
  BY <1>2, Zenon DEF Phase
<1>6. Phase(n)' /\ Skipped(n)'
  <2>1. CASE t = "up"
    BY <1>1, <1>2, <1>5, <2>1, Zenon DEF Phase, Skipped, Other
  <2>2. CASE t = "down"
    BY <1>1, <1>2, <1>5, <2>2, Zenon DEF Phase, Skipped, Other
  <2> QED
    BY <2>1, <2>2, Zenon
<1>7. pc[n]["h"] \in {"cleanup", "done"} => skip[n]
  BY <1>2, <1>5, Zenon DEF Skipped
<1>8. Told(n)'
  BY <1>1, <1>2, <1>3, <1>5, <1>7, SMTT(30) DEF Told
<1>9. Due(n)'
  BY <1>3, Zenon DEF Due
<1> QED
  BY <1>4, <1>6, <1>8, <1>9, Zenon DEF Counted

\* The pipes' steps.
LEMMA CountedPipe ==
    ASSUME TypeInv, NEW n \in Sessions, Counted(n), NEW t \in {"up", "down"}, Pipe(n, t)
    PROVE  Counted(n)' /\ \A m \in Sessions : m # n => Apart(m)
<1>0. PlaceInv /\ NoteInv
  BY Zenon DEF TypeInv
<1>1. CASE PipeTurn(n, t)
  BY <1>0, <1>1, CountedMove, Zenon DEF PipeTurn, At, PipeLabels, ghosts
<1>2. CASE PipeEnds(n, t)
  <2>1. /\ pc[n][t] = "end" /\ Goto(n, t, IF sessionDone[n] THEN "done" ELSE "close")
        /\ UNCHANGED <<guard, closes, skip, result>> /\ sessionDone' = [sessionDone EXCEPT ![n] = TRUE]
    BY <1>2, Zenon DEF PipeEnds, At
  <2> QED
    BY <1>0, <2>1, CountedMove, Zenon DEF PipeLabels
<1>3. CASE PipeCloses(n, t)
  BY <1>0, <1>3, CountedClose, Zenon DEF PipeCloses, At
<1> QED
  BY <1>1, <1>2, <1>3, Zenon DEF Pipe

LEMMA CountedTransfer ==
    ASSUME TypeInv, NEW n \in Sessions, Counted(n),
           \/ ReadEnds(n) \/ ReadBytes(n) \/ SendData(n)
           \/ DownLookUp(n) \/ DownPollEnds(n) \/ DownPolled(n)
    PROVE  Counted(n)' /\ \A m \in Sessions : m # n => Apart(m)
<1>0. PlaceInv /\ NoteInv
  BY Zenon DEF TypeInv
<1>1. CASE ReadEnds(n) \/ ReadBytes(n) \/ SendData(n)
  <2>1. /\ pc[n]["up"] \in {"read", "send"} /\ \E l \in {"end", "send", "loop"} : Goto(n, "up", l)
        /\ UNCHANGED <<guard, closes, skip, sessionDone, result>>
    BY <1>1, Zenon DEF ReadEnds, ReadBytes, SendData, At, ghosts
  <2> QED
    BY <1>0, <2>1, CountedMove, Zenon DEF PipeLabels
<1>2. CASE DownLookUp(n) \/ DownPollEnds(n)
  <2>1. /\ pc[n]["down"] \in {"await", "poll"} /\ \E l \in {"poll", "loop", "end"} : Goto(n, "down", l)
        /\ UNCHANGED <<guard, closes, skip, sessionDone, result>>
    BY <1>2, Zenon DEF DownLookUp, DownPollEnds, At, ghosts
  <2> QED
    BY <1>0, <2>1, CountedMove, Zenon DEF PipeLabels
<1>3. CASE DownPolled(n)
  <2>1. /\ UNCHANGED <<skip, sessionDone, result>> /\ pc[n]["down"] = "poll"
        /\ \/ CloseStreamOnce(n) /\ Goto(n, "down", "end")
           \/ UNCHANGED <<guard, closes>> /\ \E l \in {"loop", "end"} : Goto(n, "down", l)
    BY <1>3, Zenon DEF DownPolled, At
  <2>2. CASE CloseStreamOnce(n) /\ Goto(n, "down", "end")
    BY <1>0, <2>1, <2>2, CountedClose, Zenon
  <2>3. CASE UNCHANGED <<guard, closes>> /\ \E l \in {"loop", "end"} : Goto(n, "down", l)
    BY <1>0, <2>1, <2>3, CountedMove, Zenon DEF PipeLabels
  <2> QED
    BY <2>1, <2>2, <2>3, Zenon
<1> QED
  BY <1>1, <1>2, <1>3, Zenon

\* The other steps leave every connection alone, or only start its handler.
LEMMA CountedRest ==
    ASSUME TypeInv, \A n \in Sessions : Counted(n),
           \/ \E n \in Sessions :
                \/ Start(n) \/ Stop(n) \/ AcceptConnection(n) \/ AcceptEnds(n) \/ Submit(n)
                \/ HelloThrows(n) \/ Egress(n)
           \/ \E f \in Frames : ReceiveFrame(f)
    PROVE  \A n \in Sessions : Counted(n)'
<1>0. PlaceInv /\ NoteInv /\ SubmitInv
  BY Zenon DEF TypeInv
<1>1. ASSUME UNCHANGED <<pc, guard, closes, skip, sessionDone, result>> PROVE \A n \in Sessions : Counted(n)'
  BY <1>1, ApartCounted, Zenon DEF Apart
<1>2. ASSUME NEW n \in Sessions, Submit(n) PROVE \A m \in Sessions : Counted(m)'
  <2>1. UNCHANGED <<guard, closes, skip, sessionDone, result>> /\ pc[n]["h"] = "none"
    BY <1>0, <1>2, Zenon DEF Submit, SubmitInv, ghosts
  <2>2. CASE UNCHANGED pc
    BY <1>1, <2>1, <2>2, Zenon
  <2>3. CASE Goto(n, "h", "hello")
    <3>1. /\ pc'[n]["h"] = "hello" /\ pc'[n]["up"] = pc[n]["up"] /\ pc'[n]["down"] = pc[n]["down"]
          /\ \A m \in Sessions : m # n => pc'[m] = pc[m]
      BY <1>0, <2>3, HandlerMoves, Zenon DEF HandlerLabels
    <3>2. Counted(n)'
      BY <1>0, <2>1, <3>1, Zenon DEF Counted, Phase, Skipped, Told, Due, Sent, NoteInv
    <3> QED
      BY <2>1, <3>1, <3>2, ApartCounted, Zenon DEF Apart
  <2> QED
    BY <1>2, <2>2, <2>3, Zenon DEF Submit
<1>3. ASSUME NEW n \in Sessions,
             Start(n) \/ Stop(n) \/ AcceptConnection(n) \/ AcceptEnds(n) \/ HelloThrows(n) \/ Egress(n)
      PROVE  UNCHANGED <<pc, guard, closes, skip, sessionDone, result>>
  BY <1>3, Zenon DEF Start, Stop, AcceptConnection, AcceptEnds, HelloThrows, Egress, EgressOpens, EgressCloses,
     EgressTakesData, EgressPushes, EgressEnds, relay, ghosts
<1>4. ASSUME NEW f \in Frames, ReceiveFrame(f) PROVE UNCHANGED <<pc, guard, closes, skip, sessionDone, result>>
  BY <1>4, Zenon DEF ReceiveFrame, relay, ghosts
<1> QED
  BY <1>1, <1>2, <1>3, <1>4, Zenon

LEMMA CountedNext ==
    ASSUME TypeInv, \A n \in Sessions : Counted(n), [Next]_vars
    PROVE  \A n \in Sessions : Counted(n)'
<1>1. ASSUME NEW n \in Sessions, Counted(n)' /\ \A m \in Sessions : m # n => Apart(m)
      PROVE  \A m \in Sessions : Counted(m)'
  BY <1>1, ApartCounted, Zenon
<1>2. ASSUME NEW n \in Sessions, Handler(n), ~HelloThrows(n) PROVE \A m \in Sessions : Counted(m)'
  <2>1. Counted(n)' /\ \A m \in Sessions : m # n => Apart(m)
    BY <1>2, CountedOpening, CountedServing, Zenon DEF Handler
  <2> QED BY <1>1, <2>1, Zenon
<1>3. ASSUME NEW n \in Sessions, NEW t \in {"up", "down"}, Pipe(n, t) PROVE \A m \in Sessions : Counted(m)'
  <2>1. Counted(n)' /\ \A m \in Sessions : m # n => Apart(m)
    BY <1>3, CountedPipe, Zenon
  <2> QED BY <1>1, <2>1, Zenon
<1>4. ASSUME NEW n \in Sessions,
             ReadEnds(n) \/ ReadBytes(n) \/ SendData(n) \/ DownLookUp(n) \/ DownPollEnds(n) \/ DownPolled(n)
      PROVE  \A m \in Sessions : Counted(m)'
  <2>1. Counted(n)' /\ \A m \in Sessions : m # n => Apart(m)
    BY <1>4, CountedTransfer, Zenon
  <2> QED BY <1>1, <2>1, Zenon
<1>5. CASE UNCHANGED vars
  BY <1>5, ApartCounted, Zenon DEF Apart, vars, relay, ghosts
<1> QED
  BY <1>2, <1>3, <1>4, <1>5, CountedRest, Steps, Zenon

LEMMA CountedInit == Init => \A n \in Sessions : Counted(n)
<1> SUFFICES ASSUME Init, NEW n \in Sessions PROVE Counted(n)
  BY Zenon
<1>1. pc[n]["h"] = "none" /\ pc[n]["up"] = "none" /\ pc[n]["down"] = "none"
  BY ThreeThreads, Zenon DEF Init
<1>2. guard[n] = None /\ closes[n] = 0 /\ skip[n] = FALSE /\ sessionDone[n] = FALSE /\ result[n] = None
  BY Zenon DEF Init
<1>3. None # "ok"
  BY NoneAssumption, Zenon
<1>4. guard[n] # TRUE
  BY <1>2, NoneAssumption, Zenon
<1> QED
  BY <1>1, <1>2, <1>3, <1>4, Zenon DEF Counted, Phase, Skipped, Told, Due, Sent

\* closeStreamOnce keeps the CLOSE of a stream single, and the handler whose
\* join was interrupted costs at most one more (LocalSocks5Server's closeIssued).
THEOREM OneClose == Spec => []ClosedOnce
<1>1. ASSUME TypeInv, \A n \in Sessions : Counted(n) PROVE ClosedOnce
  <2> SUFFICES ASSUME NEW n \in Sessions PROVE closes[n] <= IF skip[n] THEN 2 ELSE 1
    BY Zenon DEF ClosedOnce
  <2>1. pc[n]["h"] \in HandlerLabels /\ closes[n] \in Nat
    BY <1>1, Zenon DEF TypeInv, PlaceInv, NoteInv
  <2>2. Sent(guard[n]) \in {0, 1}
    BY Zenon DEF Sent
  <2>3. CASE skip[n]
    BY <1>1, <2>1, <2>2, <2>3 DEF Counted, Phase, Skipped, Told, HandlerLabels
  <2>4. CASE ~skip[n]
    BY <1>1, <2>1, <2>2, <2>4 DEF Counted, Phase, Skipped, Told, HandlerLabels
  <2> QED
    BY <2>3, <2>4, Zenon
<1> DEFINE Inv == TypeInv /\ \A n \in Sessions : Counted(n)
<1>2. Init => Inv
  BY TypeInit, CountedInit, Zenon
<1>3. Inv /\ [Next]_vars => Inv'
  BY TypeNext, CountedNext, Zenon
<1>4. Inv => ClosedOnce
  BY <1>1, Zenon
<1> QED
  BY <1>2, <1>3, <1>4, PTL DEF Spec

\* The stream of a connection whose openStream succeeded is closed when its
\* threads have ended.
LEMMA OpenedClosed ==
    ASSUME TypeInv, NEW n \in Sessions, Counted(n), Ended(n), closes[n] = 0
    PROVE  result[n] # "ok"
<1>1. pc[n]["h"] = "done" /\ pc[n]["up"] \in {"none", "done"} /\ pc[n]["down"] \in {"none", "done"}
  BY Zenon DEF Ended
<1> QED
  BY <1>1 DEF Counted, Phase, Skipped, Told, Due

\* A stream that openStream opened does not outlive its connection without a
\* CLOSE, however many server objects share the stream id.
THEOREM OpenedAreClosed ==
    Spec => [](\A n \in Sessions : Ended(n) /\ closes[n] = 0 => result[n] # "ok")
<1> DEFINE Inv == TypeInv /\ \A n \in Sessions : Counted(n)
           Closed == \A n \in Sessions : Ended(n) /\ closes[n] = 0 => result[n] # "ok"
<1>1. Init => Inv
  BY TypeInit, CountedInit, Zenon
<1>2. Inv /\ [Next]_vars => Inv'
  BY TypeNext, CountedNext, Zenon
<1>3. Inv => Closed
  BY OpenedClosed, Zenon
<1>4. Spec => []Closed
  BY <1>1, <1>2, <1>3, PTL DEF Spec
<1> QED
  BY <1>4, Zenon
=============================================================================
