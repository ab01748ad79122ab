------------------------ MODULE DesktopTunnelProofs ------------------------
(***************************************************************************)
(* Theorems about DesktopTunnel, for any ports, proxies of the user, and   *)
(* number of processes, sessions and packets.                              *)
(***************************************************************************)
EXTENDS DesktopTunnel, FiniteSetTheorems, TLAPS

Bypasses == UserProxies \cup {None}
Servers  == Bypasses \cup {Ton(p) : p \in Ports}
Settings == [proxy : Servers, bypass : Bypasses]
Writes   == ({"enable"} \X BOOLEAN) \cup ({"server"} \X Servers) \cup ({"override"} \X Bypasses)

MainPlaces ==
    {"off", "recover", "recovering", "created", "restore", "restoring", "stopBridge", "stopSocks",
     "stopCore", "stopAdnl", "stopped", "config", "startAdnl", "startCore", "startSocks",
     "capture", "save", "saving", "apply", "applying", "startBridge", "idle", "quit"}

\* What outlives the process.
DiskInv ==
    /\ reg \in [enable : BOOLEAN, server : Servers, override : Bypasses]
    /\ file \in Settings \cup {None}
    /\ wish \in Bypasses /\ lives \in 0..MaxLives

\* Where the threads are; `starts' counts from the first automatic start.
PlaceInv ==
    /\ pc \in [Threads -> MainPlaces \cup {"dump"}]
    /\ pc["main"] \in MainPlaces
    /\ pc["filter"] \in {"off", "restore", "restoring", "dump"}
    /\ back \in {"idle", "config", "quit"}
    /\ pc["main"] = "off" => pc["filter"] = "off"
    /\ starts \in 0..MaxStarts
    /\ pc["main"] \in {"off", "recover", "recovering", "created"} => starts = 0

\* What the process has in memory.
MemoryInv ==
    /\ todo \in [Threads -> Seq(Writes)]
    /\ prev \in [captured : BOOLEAN, state : Settings]
    /\ status \in {"idle", "stopped", "running"}
    /\ port \in Ports /\ socks \in Ports \cup {None}

\* The flags.
FlagInv ==
    /\ adnl \in BOOLEAN /\ core \in BOOLEAN
    /\ marred \in SUBSET Losses

QueueInv == inq \in Seq(0..MaxStarts) /\ Len(inq) <= MaxPackets

\* What WintunLwipBridge::start has acquired after each of its steps.
Prefixes == {{}, {"dll"}, {"dll", "adapter"}, {"dll", "adapter", "session"},
             {"dll", "adapter", "session", "lwip"}}

\* The bridge holds everything or nothing but while it starts.
BridgeInv ==
    /\ pc["main"] \notin {"startBridge", "idle", "restore", "restoring", "stopBridge"} => held = {}
    /\ pc["main"] = "startBridge" => held \in Prefixes
    /\ pc["main"] \in {"idle", "restore", "restoring", "stopBridge"} => held \in {{}, Parts}
    /\ pc["main"] = "idle" /\ status # "running" => held = {}

TypeInv == DiskInv /\ PlaceInv /\ MemoryInv /\ FlagInv /\ QueueInv /\ BridgeInv

\* The two threads.
LEMMA TwoThreads == Threads = {"main", "filter"} /\ "main" # "filter"
BY Zenon DEF Threads

\* The writes that put settings back, and those of applySystemSocksProxy.
LEMMA WritesTyped ==
    /\ \A s \in Settings : SettingsWrites(s) \in Seq(Writes)
    /\ \A p \in Ports : ApplyWrites(p) \in Seq(Writes)
<1>1. ASSUME NEW s \in Settings PROVE SettingsWrites(s) \in Seq(Writes)
  <2>1. /\ <<"server", s.proxy>> \in Writes /\ <<"override", s.bypass>> \in Writes
        /\ <<"enable", TRUE>> \in Writes /\ <<"enable", FALSE>> \in Writes
    BY Zenon DEF Settings, Writes
  <2> QED
    BY <2>1 DEF SettingsWrites
<1>2. ASSUME NEW p \in Ports PROVE ApplyWrites(p) \in Seq(Writes)
  <2>1. /\ <<"enable", TRUE>> \in Writes /\ <<"server", Ton(p)>> \in Writes
        /\ <<"override", None>> \in Writes
    BY Zenon DEF Writes, Servers, Bypasses
  <2> QED
    BY <2>1 DEF ApplyWrites
<1> QED
  BY <1>1, <1>2, Zenon

\* A write changes one value of the settings and takes itself off the list.
LEMMA WriteEffect ==
    ASSUME TypeInv, NEW t \in Threads, WriteNext(t)
    PROVE  /\ Head(todo[t]) \in Writes
           /\ reg' = [reg EXCEPT ![Head(todo[t])[1]] = Head(todo[t])[2]]
           /\ reg' \in [enable : BOOLEAN, server : Servers, override : Bypasses]
           /\ todo' = [todo EXCEPT ![t] = Tail(todo[t])]
           /\ todo' \in [Threads -> Seq(Writes)]
<1>1. todo[t] \in Seq(Writes) /\ todo[t] # <<>> /\ todo \in [Threads -> Seq(Writes)]
  BY Zenon DEF TypeInv, MemoryInv, WriteNext
<1>2. Head(todo[t]) \in Writes /\ Tail(todo[t]) \in Seq(Writes)
  BY <1>1
<1>3. reg' = [reg EXCEPT ![Head(todo[t])[1]] = Head(todo[t])[2]]
  BY Zenon DEF WriteNext
<1>4. todo' = [todo EXCEPT ![t] = Tail(todo[t])]
  BY Zenon DEF WriteNext
<1>5. reg' \in [enable : BOOLEAN, server : Servers, override : Bypasses]
  <2> DEFINE w == Head(todo[t])
  <2>1. reg \in [enable : BOOLEAN, server : Servers, override : Bypasses]
    BY Zenon DEF TypeInv, DiskInv
  <2>2. CASE w \in {"enable"} \X BOOLEAN
    <3>1. w[1] = "enable" /\ w[2] \in BOOLEAN BY <2>2, Zenon
    <3>2. reg' = [reg EXCEPT !.enable = w[2]] BY <1>3, <3>1, Zenon
    <3> QED BY <2>1, <3>1, <3>2, Zenon
  <2>3. CASE w \in {"server"} \X Servers
    <3>1. w[1] = "server" /\ w[2] \in Servers BY <2>3, Zenon
    <3>2. reg' = [reg EXCEPT !.server = w[2]] BY <1>3, <3>1, Zenon
    <3> QED BY <2>1, <3>1, <3>2, Zenon
  <2>4. CASE w \in {"override"} \X Bypasses
    <3>1. w[1] = "override" /\ w[2] \in Bypasses BY <2>4, Zenon
    <3>2. reg' = [reg EXCEPT !.override = w[2]] BY <1>3, <3>1, Zenon
    <3> QED BY <2>1, <3>1, <3>2, Zenon
  <2> QED
    BY <1>2, <2>2, <2>3, <2>4, Zenon DEF Writes
<1> QED
  BY <1>1, <1>2, <1>3, <1>4, <1>5, Zenon

\* The parts of the bridge, in the order they are acquired.
LEMMA PartsOfBridge ==
    /\ Parts = {"dll", "adapter", "session", "lwip", "thread"}
    /\ {} \in Prefixes
    /\ \A h \in Prefixes : /\ Cardinality(h) \in 0..4
                           /\ Cardinality(h) = 4 <=> h = {"dll", "adapter", "session", "lwip"}
                           /\ Cardinality(h) = 0 <=> h = {}
                           /\ Cardinality(h) = 1 <=> h = {"dll"}
                           /\ Cardinality(h) = 2 <=> h = {"dll", "adapter"}
                           /\ Cardinality(h) = 3 <=> h = {"dll", "adapter", "session"}
<1>1. Parts = {"dll", "adapter", "session", "lwip", "thread"}
  <2>1. Len(BridgeOrder) = 5 /\ 1..5 = {1, 2, 3, 4, 5}
    BY DEF BridgeOrder
  <2> QED
    BY <2>1 DEF Parts, BridgeOrder
<1>2. IsFiniteSet({}) /\ Cardinality({}) = 0
  BY FS_EmptySet, Zenon
<1>3. IsFiniteSet({"dll"}) /\ Cardinality({"dll"}) = 1
  BY FS_Singleton, Zenon
<1>4. IsFiniteSet({"dll", "adapter"}) /\ Cardinality({"dll", "adapter"}) = 2
  <2>1. {"dll", "adapter"} = {"dll"} \cup {"adapter"} /\ "adapter" \notin {"dll"} BY Zenon
  <2> QED BY <1>3, <2>1, FS_AddElement
<1>5. IsFiniteSet({"dll", "adapter", "session"}) /\ Cardinality({"dll", "adapter", "session"}) = 3
  <2>1. /\ {"dll", "adapter", "session"} = {"dll", "adapter"} \cup {"session"}
        /\ "session" \notin {"dll", "adapter"} BY Zenon
  <2> QED BY <1>4, <2>1, FS_AddElement
<1>6. Cardinality({"dll", "adapter", "session", "lwip"}) = 4
  <2>1. /\ {"dll", "adapter", "session", "lwip"} = {"dll", "adapter", "session"} \cup {"lwip"}
        /\ "lwip" \notin {"dll", "adapter", "session"} BY Zenon
  <2> QED BY <1>5, <2>1, FS_AddElement, SMTT(30)
<1> QED
  BY <1>1, <1>2, <1>3, <1>4, <1>5, <1>6, SMTT(30) DEF Prefixes

\* A step of WintunLwipBridge::start acquires the next part, or ends the start
\* with everything or with nothing.
LEMMA BridgeStep ==
    ASSUME StartBridge, held \in Prefixes
    PROVE  \/ held' \in Prefixes /\ UNCHANGED <<pc, status>>
           \/ held' \in {{}, Parts} /\ Goto("main", "idle") /\ status' = "running"
<1> DEFINE part == BridgeOrder[1 + Cardinality(held)]
<1> USE PartsOfBridge
<1>1. CASE held = {}
  <2>1. part = "dll" BY <1>1 DEF BridgeOrder
  <2> QED BY <1>1, <2>1, Zenon DEF StartBridge, Prefixes, Undo
<1>2. CASE held = {"dll"}
  <2>1. part = "adapter" BY <1>2 DEF BridgeOrder
  <2>2. Undo(part) = {"dll"} BY <2>1, Zenon DEF Undo
  <2>3. held \cup {part} \in Prefixes /\ held \ Undo(part) = {} BY <1>2, <2>1, <2>2, Zenon DEF Prefixes
  <2> QED BY <2>1, <2>3, Zenon DEF StartBridge
<1>3. CASE held = {"dll", "adapter"}
  <2>1. part = "session" BY <1>3 DEF BridgeOrder
  <2>2. Undo(part) = {"adapter", "dll"} BY <2>1, Zenon DEF Undo
  <2>3. held \cup {part} \in Prefixes /\ held \ Undo(part) = {} BY <1>3, <2>1, <2>2, Zenon DEF Prefixes
  <2> QED BY <2>1, <2>3, Zenon DEF StartBridge
<1>4. CASE held = {"dll", "adapter", "session"}
  <2>1. part = "lwip" BY <1>4 DEF BridgeOrder
  <2>2. Undo(part) = {"session", "adapter", "dll"} BY <2>1, Zenon DEF Undo
  <2>3. held \cup {part} \in Prefixes /\ held \ Undo(part) = {} BY <1>4, <2>1, <2>2, Zenon DEF Prefixes
  <2> QED BY <2>1, <2>3, Zenon DEF StartBridge
<1>5. CASE held = {"dll", "adapter", "session", "lwip"}
  <2>1. part = "thread" BY <1>5 DEF BridgeOrder
  <2>2. held \cup {part} = Parts BY <1>5, <2>1, Zenon
  <2> QED BY <2>1, <2>2, Zenon DEF StartBridge
<1> QED
  BY <1>1, <1>2, <1>3, <1>4, <1>5, Zenon DEF Prefixes

\* The steps, by what they touch.
Walk == \/ StopBridge \/ StopSocks \/ StopCore \/ StopAdnl \/ StopEnd
        \/ ReadConfig \/ StartAdnl \/ StartCore \/ StartSocks \/ ApplyEnd \/ StartBridge
        \/ PressStart \/ PressStop \/ CloseWindow
Gone == Quit \/ Kill \/ Abort
Queue == Deliver \/ ReceivePacket

LEMMA Steps ==
    Next <=> \/ Walk \/ Gone \/ Queue \/ Exception \/ Launch \/ UserSets \/ Recover \/ AutoStart
             \/ Capture \/ Save \/ ApplyBegin
             \/ \E t \in Threads : WriteNext(t) \/ DeleteFile(t) \/ RestoreBegin(t)
BY Zenon DEF Next, User, Start, Stop, Death, Proxy, Walk, Gone, Queue

\* The window thread's other steps touch neither the disk nor the capture.
LEMMA WalkAside == Walk => UNCHANGED aside
BY Zenon DEF Walk, StopBridge, StopSocks, StopCore, StopAdnl, StopEnd, ReadConfig, StartAdnl, StartCore,
       StartSocks, ApplyEnd, StartBridge, PressStart, PressStop, CloseWindow

LEMMA DiskNext == ASSUME TypeInv, Next PROVE DiskInv'
<1>1. CASE UNCHANGED disk
  BY <1>1, Zenon DEF TypeInv, DiskInv, disk
<1>2. ASSUME NEW t \in Threads, WriteNext(t) PROVE DiskInv'
  BY <1>2, WriteEffect, Zenon DEF WriteNext, TypeInv, DiskInv
<1>3. ASSUME NEW t \in Threads, DeleteFile(t) PROVE DiskInv'
  BY <1>3, Zenon DEF DeleteFile, TypeInv, DiskInv
<1>4. CASE Launch
  BY <1>4, BoundsAssumption DEF Launch, TypeInv, DiskInv
<1>5. CASE Save
  BY <1>5, Zenon DEF Save, Saved, TypeInv, DiskInv, MemoryInv
<1>6. CASE UserSets
  <2>1. PICK u \in UserProxies \cup {None} :
           /\ wish' = u
           /\ reg' = IF u = None THEN [reg EXCEPT !.enable = FALSE]
                     ELSE [enable |-> TRUE, server |-> u, override |-> u]
    BY <1>6, Zenon DEF UserSets
  <2>2. u \in Bypasses /\ u \in Servers
    BY Zenon DEF Bypasses, Servers
  <2>3. UNCHANGED <<file, lives>>
    BY <1>6, Zenon DEF UserSets
  <2> QED
    BY <2>1, <2>2, <2>3, Zenon DEF TypeInv, DiskInv
<1>7. Walk \/ Gone \/ Queue \/ Exception \/ Recover \/ AutoStart \/ Capture \/ ApplyBegin => UNCHANGED disk
  BY WalkAside, Zenon DEF aside, Gone, Quit, Kill, Abort, Queue, Deliver, ReceivePacket, Exception, Recover, AutoStart,
     Capture, ApplyBegin
<1>8. \A t \in Threads : RestoreBegin(t) => UNCHANGED disk
  BY Zenon DEF RestoreBegin
<1> QED
  BY <1>1, <1>2, <1>3, <1>4, <1>5, <1>6, <1>7, <1>8, Steps, Zenon

\* What the steps add to the losses.
LEMMA Marring ==
    /\ Walk \/ Queue \/ Exception \/ Launch \/ AutoStart \/ ApplyBegin => UNCHANGED marred
    /\ Recover => marred' \in {marred, marred \cup {"mistaken"}, marred \cup {"denied"}}
    /\ Capture \/ Save => marred' \in {marred, marred \cup {"denied"}}
    /\ Gone => marred' = marred \cup Damage
    /\ \A t \in Threads : DeleteFile(t) => UNCHANGED marred
    /\ \A t \in Threads : RestoreBegin(t) => marred' \in {marred, marred \cup {"denied"}}
    /\ \A t \in Threads : WriteNext(t) => marred' \in {marred, marred \cup {"raced"}}
<1> USE DEF Mar
<1>1. Walk \/ Queue \/ Exception \/ Launch \/ AutoStart \/ ApplyBegin => UNCHANGED marred
  BY WalkAside, Zenon DEF aside, Queue, Deliver, ReceivePacket, Exception, Launch, AutoStart, ApplyBegin
<1>2. Recover => marred' \in {marred, marred \cup {"mistaken"}, marred \cup {"denied"}}
  BY Zenon DEF Recover
<1>3. Capture \/ Save => marred' \in {marred, marred \cup {"denied"}}
  BY Zenon DEF Capture, Save
<1>4. Gone => marred' = marred \cup Damage
  BY Zenon DEF Gone, Quit, Kill, Abort
<1>5. \A t \in Threads : DeleteFile(t) => UNCHANGED marred
  BY Zenon DEF DeleteFile
<1>6. \A t \in Threads : RestoreBegin(t) => marred' \in {marred, marred \cup {"denied"}}
  BY Zenon DEF RestoreBegin
<1>7. \A t \in Threads : WriteNext(t) => marred' \in {marred, marred \cup {"raced"}}
  BY Zenon DEF WriteNext
<1> QED
  BY <1>1, <1>2, <1>3, <1>4, <1>5, <1>6, <1>7, Zenon

LEMMA FlagNext == ASSUME TypeInv, Next PROVE FlagInv'
<1>0. adnl \in BOOLEAN /\ core \in BOOLEAN /\ marred \in SUBSET Losses
  BY Zenon DEF TypeInv, FlagInv
<1>1. adnl' \in BOOLEAN /\ core' \in BOOLEAN
  <2>1. CASE Walk
    BY <1>0, <2>1, Zenon DEF Walk, StopBridge, StopSocks, StopCore, StopAdnl, StopEnd, ReadConfig, StartAdnl, StartCore,
       StartSocks, ApplyEnd, StartBridge, PressStart, PressStop, CloseWindow, session
  <2>2. CASE Gone
    BY <2>2, Zenon DEF Gone, Quit, Kill, Abort, ProcessGone
  <2>3. CASE Queue \/ Exception \/ Launch \/ AutoStart \/ ApplyBegin \/ UserSets
    BY <1>0, <2>3, Zenon DEF Queue, Deliver, ReceivePacket, Exception, Launch, AutoStart, ApplyBegin, UserSets, session
  <2>4. CASE Recover \/ Capture \/ Save
    BY <1>0, <2>4, Zenon DEF Recover, Capture, Save, session
  <2>5. ASSUME NEW t \in Threads, WriteNext(t) \/ DeleteFile(t) \/ RestoreBegin(t)
        PROVE  adnl' \in BOOLEAN /\ core' \in BOOLEAN
    BY <1>0, <2>5, Zenon DEF WriteNext, DeleteFile, RestoreBegin, session
  <2> QED
    BY <2>1, <2>2, <2>3, <2>4, <2>5, Steps, Zenon
<1>2. marred' \in SUBSET Losses
  <2>1. CASE UserSets
    BY <1>0, <2>1, Zenon DEF UserSets, Losses
  <2>2. Damage \subseteq Losses
    BY Zenon DEF Damage, Losses
  <2>3. {"mistaken", "denied", "raced"} \subseteq Losses
    BY Zenon DEF Losses
  <2>4. marred' \in {marred, marred \cup {"mistaken"}, marred \cup {"denied"}, marred \cup {"raced"}, marred \cup Damage}
        \/ UserSets
    BY Marring, Steps, Zenon
  <2> QED
    BY <1>0, <2>1, <2>2, <2>3, <2>4, SMT
<1> QED
  BY <1>1, <1>2, Zenon DEF FlagInv

LEMMA PlaceNext == ASSUME TypeInv, Next PROVE PlaceInv'
<1> USE TwoThreads, BoundsAssumption DEF TypeInv, PlaceInv, MainPlaces, Goto
<1>1. CASE StopBridge \/ StopSocks \/ StopCore \/ StopAdnl
  BY <1>1, Zenon DEF StopBridge, StopSocks, StopCore, StopAdnl
<1>2. CASE StopEnd
  BY <1>2, Zenon DEF StopEnd
<1>3. CASE ReadConfig \/ StartCore
  BY <1>3, Zenon DEF ReadConfig, StartCore
<1>4. CASE StartAdnl \/ StartSocks
  BY <1>4, Zenon DEF StartAdnl, StartSocks
<1>5. CASE ApplyEnd
  BY <1>5, Zenon DEF ApplyEnd, session
<1>6. CASE StartBridge
  BY <1>6, Zenon DEF StartBridge
<1>7. CASE PressStart
  BY <1>7 DEF PressStart
<1>8. CASE PressStop \/ CloseWindow
  BY <1>8, Zenon DEF PressStop, CloseWindow, session
<1>9. CASE Gone
  BY <1>9 DEF Gone, Quit, Kill, Abort, ProcessGone
<1>10. CASE Queue \/ UserSets
  BY <1>10, Zenon DEF Queue, Deliver, ReceivePacket, UserSets, session
<1>11. CASE Exception \/ Launch
  BY <1>11 DEF Exception, Launch, session
<1>12. CASE AutoStart
  BY <1>12 DEF AutoStart
<1>13. CASE Recover
  BY <1>13, Zenon DEF Recover, session
<1>14. CASE Capture
  BY <1>14, Zenon DEF Capture, session
<1>15. CASE Save
  BY <1>15, Zenon DEF Save, session
<1>16. CASE ApplyBegin
  BY <1>16, Zenon DEF ApplyBegin, session
<1>17. ASSUME NEW t \in Threads, WriteNext(t) PROVE PlaceInv'
  BY <1>17, Zenon DEF WriteNext, session
<1>18. ASSUME NEW t \in Threads, DeleteFile(t) PROVE PlaceInv'
  BY <1>18, Zenon DEF DeleteFile, session
<1>19. ASSUME NEW t \in Threads, RestoreBegin(t) PROVE PlaceInv'
  BY <1>19 DEF RestoreBegin, session
<1> QED
  BY <1>1, <1>2, <1>3, <1>4, <1>5, <1>6, <1>7, <1>8, <1>9, <1>10, <1>11, <1>12, <1>13, <1>14,
     <1>15, <1>16, <1>17, <1>18, <1>19, Steps, Zenon DEF Walk

LEMMA MemoryNext == ASSUME TypeInv, Next PROVE MemoryInv'
<1> USE TwoThreads, BoundsAssumption DEF TypeInv, MemoryInv
<1>0. Chosen(None) \in Settings
  BY Zenon DEF Chosen, Settings, Servers, Bypasses
<1>1. CASE Walk
  <2>1. UNCHANGED <<todo, prev>> BY <1>1, WalkAside, Zenon DEF aside
  <2>2. status' \in {"idle", "stopped", "running"}
    BY <1>1, Zenon DEF Walk, StopBridge, StopSocks, StopCore, StopAdnl, StopEnd, ReadConfig, StartAdnl, StartCore,
       StartSocks, ApplyEnd, StartBridge, PressStart, PressStop, CloseWindow
  <2>3. port' \in Ports /\ socks' \in Ports \cup {None}
    BY <1>1, Zenon DEF Walk, StopBridge, StopSocks, StopCore, StopAdnl, StopEnd, ReadConfig, StartAdnl, StartCore,
       StartSocks, ApplyEnd, StartBridge, PressStart, PressStop, CloseWindow, session
  <2> QED BY <2>1, <2>2, <2>3, Zenon
<1>2. CASE Gone
  <2>1. ProcessGone BY <1>2, Zenon DEF Gone, Quit, Kill, Abort
  <2>2. todo' \in [Threads -> Seq(Writes)]
    <3>1. <<>> \in Seq(Writes) OBVIOUS
    <3> QED BY <2>1, <3>1, Zenon DEF ProcessGone
  <2> QED BY <1>0, <2>1, <2>2, Zenon DEF ProcessGone, NotCaptured
<1>3. CASE Queue \/ Exception \/ Launch \/ AutoStart \/ UserSets \/ Save
  BY <1>3, Zenon DEF Queue, Deliver, ReceivePacket, Exception, Launch, AutoStart, UserSets, Save, session
<1>4. CASE Recover
  <2>1. (IF file = None THEN Chosen(None) ELSE file) \in Settings
    BY <1>0, Zenon DEF DiskInv
  <2>2. SettingsWrites(IF file = None THEN Chosen(None) ELSE file) \in Seq(Writes)
    BY <2>1, WritesTyped, Zenon
  <2>3. todo' \in [Threads -> Seq(Writes)]
    BY <1>4, <2>2, Zenon DEF Recover
  <2> QED BY <1>4, <2>3, Zenon DEF Recover, session
<1>5. CASE Capture
  <2>1. Effective \in Settings
    BY Zenon DEF Effective, DiskInv, Chosen, Settings, Servers, Bypasses
  <2>2. prev' = prev \/ prev' = [captured |-> TRUE, state |-> Effective]
    BY <1>5, Zenon DEF Capture
  <2>3. prev' \in [captured : BOOLEAN, state : Settings]
    <3>1. \A s \in Settings : [captured |-> TRUE, state |-> s] \in [captured : BOOLEAN, state : Settings]
      BY Zenon
    <3>2. prev \in [captured : BOOLEAN, state : Settings]
      BY Zenon
    <3> QED
      BY <2>1, <2>2, <3>1, <3>2, Zenon
  <2> QED BY <1>5, <2>3, Zenon DEF Capture, session
<1>6. CASE ApplyBegin
  <2>1. ApplyWrites(port) \in Seq(Writes) BY WritesTyped, Zenon
  <2>2. todo' \in [Threads -> Seq(Writes)] BY <1>6, <2>1, Zenon DEF ApplyBegin
  <2> QED BY <1>6, <2>2, Zenon DEF ApplyBegin, session
<1>7. ASSUME NEW t \in Threads, WriteNext(t) PROVE MemoryInv'
  BY <1>7, WriteEffect, Zenon DEF WriteNext, session
<1>8. ASSUME NEW t \in Threads, DeleteFile(t) PROVE MemoryInv'
  BY <1>8, Zenon DEF DeleteFile, session
<1>9. ASSUME NEW t \in Threads, RestoreBegin(t) PROVE MemoryInv'
  <2>1. SettingsWrites(prev.state) \in Seq(Writes) BY WritesTyped, Zenon
  <2>2. todo' \in [Threads -> Seq(Writes)] BY <1>9, <2>1, Zenon DEF RestoreBegin
  <2> QED BY <1>9, <2>2, Zenon DEF RestoreBegin, session
<1> QED
  BY <1>1, <1>2, <1>3, <1>4, <1>5, <1>6, <1>7, <1>8, <1>9, Steps, Zenon

LEMMA QueueNext == ASSUME TypeInv, Next PROVE QueueInv'
<1> USE BoundsAssumption DEF TypeInv, QueueInv
<1>1. CASE UNCHANGED inq \/ inq' = <<>>
  <2>1. <<>> \in Seq(0..MaxStarts) /\ Len(<<>>) = 0
    OBVIOUS
  <2>2. CASE UNCHANGED inq
    BY <2>2, Zenon
  <2>3. CASE inq' = <<>>
    BY <2>1, <2>3
  <2> QED
    BY <1>1, <2>2, <2>3, Zenon
<1>2. CASE Deliver
  BY <1>2 DEF Deliver, PlaceInv
<1>3. CASE ReceivePacket
  BY <1>3, SMTT(30) DEF ReceivePacket
<1>4. Walk => UNCHANGED inq \/ inq' = <<>>
  BY Zenon DEF Walk, StopBridge, StopSocks, StopCore, StopAdnl, StopEnd, StopEndClearing, ReadConfig, StartAdnl,
     StartCore, StartSocks, ApplyEnd, StartBridge, PressStart, PressStop, CloseWindow, session
<1>5. Gone => inq' = <<>>
  BY Zenon DEF Gone, Quit, Kill, Abort, ProcessGone
<1>6. Exception \/ Launch \/ UserSets \/ Recover \/ AutoStart \/ Capture \/ Save \/ ApplyBegin => UNCHANGED inq
  BY Zenon DEF Exception, Launch, UserSets, Recover, AutoStart, Capture, Save, ApplyBegin, session
<1>7. \A t \in Threads : WriteNext(t) \/ DeleteFile(t) \/ RestoreBegin(t) => UNCHANGED inq
  BY Zenon DEF WriteNext, DeleteFile, RestoreBegin, session
<1> QED
  BY <1>1, <1>2, <1>3, <1>4, <1>5, <1>6, <1>7, Steps, Zenon DEF Queue

LEMMA BridgeNext == ASSUME TypeInv, Next PROVE BridgeInv'
<1> USE TwoThreads, PartsOfBridge DEF TypeInv, BridgeInv, PlaceInv, Goto
<1>1. CASE StopBridge
  BY <1>1, Zenon DEF StopBridge
<1>2. CASE StopSocks \/ StopCore \/ StopAdnl
  BY <1>2, Zenon DEF StopSocks, StopCore, StopAdnl
<1>3. CASE StopEnd
  BY <1>3, Zenon DEF StopEnd
<1>4. CASE ReadConfig \/ StartCore
  BY <1>4, Zenon DEF ReadConfig, StartCore
<1>5. CASE StartAdnl \/ StartSocks
  BY <1>5, Zenon DEF StartAdnl, StartSocks
<1>6. CASE ApplyEnd
  BY <1>6, Zenon DEF ApplyEnd, session
<1>7. CASE StartBridge
  <2>1. pc["main"] = "startBridge" /\ held \in Prefixes
    BY <1>7, Zenon DEF StartBridge
  <2>2. \/ held' \in Prefixes /\ UNCHANGED <<pc, status>>
        \/ held' \in {{}, Parts} /\ Goto("main", "idle") /\ status' = "running"
    BY <1>7, <2>1, BridgeStep, Zenon
  <2> QED BY <2>1, <2>2, Zenon
<1>8. CASE PressStart \/ PressStop \/ CloseWindow
  BY <1>8, Zenon DEF PressStart, PressStop, CloseWindow, session
<1>9. CASE Gone
  BY <1>9, Zenon DEF Gone, Quit, Kill, Abort, ProcessGone
<1>10. CASE Queue \/ UserSets
  BY <1>10, Zenon DEF Queue, Deliver, ReceivePacket, UserSets, session
<1>11. CASE Exception \/ Launch \/ AutoStart
  BY <1>11, Zenon DEF Exception, Launch, AutoStart, session
<1>12. CASE Recover
  BY <1>12, Zenon DEF Recover, session
<1>13. CASE Capture
  BY <1>13, Zenon DEF Capture, session
<1>14. CASE Save \/ ApplyBegin
  <2>1. CASE Save
    BY <2>1, Zenon DEF Save, session
  <2>2. CASE ApplyBegin
    BY <2>2, Zenon DEF ApplyBegin, session
  <2> QED
    BY <1>14, <2>1, <2>2, Zenon
<1>15. ASSUME NEW t \in Threads, WriteNext(t) PROVE BridgeInv'
  BY <1>15, Zenon DEF WriteNext, session
<1>16. ASSUME NEW t \in Threads, DeleteFile(t) PROVE BridgeInv'
  BY <1>16, Zenon DEF DeleteFile, session
<1>17. ASSUME NEW t \in Threads, RestoreBegin(t) PROVE BridgeInv'
  BY <1>17, Zenon DEF RestoreBegin, session
<1> QED
  BY <1>1, <1>2, <1>3, <1>4, <1>5, <1>6, <1>7, <1>8, <1>9, <1>10, <1>11, <1>12, <1>13, <1>14,
     <1>15, <1>16, <1>17, Steps, Zenon DEF Walk

LEMMA TypeInit == Init => TypeInv
<1> SUFFICES ASSUME Init PROVE TypeInv
  BY Zenon
<1> USE TwoThreads, BoundsAssumption DEF Init, ProcessInit
<1>1. DiskInv
  BY DEF DiskInv, Servers, Bypasses
<1>2. PlaceInv
  BY DEF PlaceInv, MainPlaces
<1>3. MemoryInv
  <2>1. Chosen(None) \in Settings BY Zenon DEF Chosen, Settings, Servers, Bypasses
  <2>2. todo \in [Threads -> Seq(Writes)]
    <3>1. <<>> \in Seq(Writes) OBVIOUS
    <3> QED BY <3>1, Zenon
  <2> QED BY <2>1, <2>2, Zenon DEF MemoryInv, NotCaptured
<1>4. FlagInv
  BY Zenon DEF FlagInv
<1>5. QueueInv /\ BridgeInv
  BY DEF QueueInv, BridgeInv
<1> QED
  BY <1>1, <1>2, <1>3, <1>4, <1>5, Zenon DEF TypeInv

LEMMA TypeNext == TypeInv /\ [Next]_vars => TypeInv'
<1>1. TypeInv /\ Next => TypeInv'
  BY DiskNext, PlaceNext, MemoryNext, FlagNext, QueueNext, BridgeNext, Zenon DEF TypeInv
<1>2. TypeInv /\ UNCHANGED vars => TypeInv'
  BY DEF TypeInv, DiskInv, PlaceInv, MemoryInv, FlagInv, QueueInv, BridgeInv, vars, disk, session
<1> QED
  BY <1>1, <1>2, Zenon

\* The types of the variables hold in every state, whatever dies or is refused:
\* only a server is ever written to ProxyServer and only a bypass list to
\* ProxyOverride, and the queue of packets keeps its bound.
THEOREM TypeCorrect == Spec => []TypeOK
<1>1. TypeInv => TypeOK
  BY PartsOfBridge, BoundsAssumption, Zenon
     DEF TypeInv, TypeOK, DiskInv, PlaceInv, MemoryInv, FlagInv, QueueInv, BridgeInv, Servers, Bypasses,
         Settings, Prefixes
<1> QED
  BY <1>1, TypeInit, TypeNext, PTL DEF Spec

\* WintunLwipBridge::start takes the DLL, the adapter, the session and lwIP one
\* after the other and may fail at each: at rest the bridge holds all of them or
\* none, and none when no session runs.
THEOREM BridgeAllOrNothing == Spec => []BridgeReleased
<1>1. TypeInv => BridgeReleased
  BY Zenon DEF TypeInv, BridgeInv, BridgeReleased, AtRest
<1> QED
  BY <1>1, TypeInit, TypeNext, PTL DEF Spec

----------------------------------------------------------------------------
(* Packets of one session.                                                 *)

\* Every queued packet is of the session that runs, and between the end of
\* stopCore and the next DirectAdnlBackend::start there are no packets and is
\* nobody to bring one.
Sessions ==
    /\ \A i \in 1..Len(inq) : inq[i] = starts
    /\ pc["main"] \in {"off", "recover", "recovering", "created", "config", "startAdnl"} => ~adnl /\ inq = <<>>
    /\ pc["main"] = "idle" /\ status # "running" => ~adnl /\ inq = <<>>
    /\ pc["main"] = "stopped" => ~adnl

LEMMA SessionsNext == TypeInv /\ Sessions /\ [Next]_vars => Sessions'
<1> SUFFICES ASSUME TypeInv, Sessions, [Next]_vars PROVE Sessions'
  BY Zenon
<1> USE TwoThreads DEF Sessions, Goto
<1>0. pc \in [Threads -> MainPlaces \cup {"dump"}] /\ inq \in Seq(0..MaxStarts)
  BY Zenon DEF TypeInv, PlaceInv, QueueInv
<1>1. CASE UNCHANGED vars
  BY <1>1, Zenon DEF vars, session
<1>2. CASE StopBridge \/ StopSocks \/ StopCore \/ StopAdnl
  BY <1>0, <1>2 DEF StopBridge, StopSocks, StopCore, StopAdnl
<1>3. CASE StopEnd
  BY <1>0, <1>3, SMTT(30) DEF StopEnd, StopEndClearing
<1>4. CASE ReadConfig \/ StartCore
  BY <1>0, <1>4, SMTT(30) DEF ReadConfig, StartCore
<1>5. CASE StartAdnl \/ StartSocks
  BY <1>0, <1>5, Zenon DEF StartAdnl, StartSocks
<1>6. CASE ApplyEnd \/ PressStop \/ CloseWindow
  BY <1>0, <1>6, Zenon DEF ApplyEnd, PressStop, CloseWindow, session
<1>7. CASE StartBridge
  BY <1>0, <1>7, Zenon DEF StartBridge
<1>8. CASE PressStart \/ AutoStart
  BY <1>0, <1>8, SMTT(30) DEF PressStart, AutoStart
<1>9. CASE Gone
  BY <1>0, <1>9 DEF Gone, Quit, Kill, Abort, ProcessGone
<1>10. CASE Deliver
  BY <1>0, <1>10 DEF Deliver
<1>11. CASE ReceivePacket
  BY <1>0, <1>11 DEF ReceivePacket
<1>12. CASE Exception \/ Launch \/ UserSets
  BY <1>0, <1>12, SMTT(30) DEF Exception, Launch, UserSets, session
<1>13. CASE Recover
  BY <1>0, <1>13, Zenon DEF Recover, session
<1>14. CASE Capture
  BY <1>0, <1>14, Zenon DEF Capture, session
<1>15. CASE Save
  BY <1>0, <1>15, Zenon DEF Save, session
<1>16. CASE ApplyBegin
  BY <1>0, <1>16, Zenon DEF ApplyBegin, session
<1>17. ASSUME NEW t \in Threads, WriteNext(t) \/ RestoreBegin(t) PROVE Sessions'
  BY <1>0, <1>17, SMTT(30) DEF WriteNext, RestoreBegin, session
<1>18. ASSUME NEW t \in Threads, DeleteFile(t) PROVE Sessions'
  BY <1>0, <1>18, Zenon DEF DeleteFile, session
<1> QED
  BY <1>1, <1>2, <1>3, <1>4, <1>5, <1>6, <1>7, <1>8, <1>9, <1>10, <1>11, <1>12, <1>13, <1>14,
     <1>15, <1>16, <1>17, <1>18, Steps, Zenon DEF Walk, Queue

\* A packet that the ADNL client delivers between the end of the receiver thread
\* and ton_adnl_client_stop is dropped by stopCore: the receiver of a session
\* only ever takes packets of its own session.
THEOREM OwnPackets == Spec => []PacketsOfThisSession
<1>1. Init => Sessions
  BY TwoThreads DEF Init, ProcessInit, Sessions
<1>2. Sessions => PacketsOfThisSession
  BY Zenon DEF Sessions, PacketsOfThisSession
<1> QED
  BY <1>1, <1>2, TypeInit, TypeNext, SessionsNext, PTL DEF Spec

----------------------------------------------------------------------------
(* The user's settings come back.                                          *)

\* Writes are pending only inside a restore, a recovery or an application, and
\* a restore needs what captureSystemProxyState kept.
Places ==
    /\ pc["main"] \in {"restoring", "recovering", "applying"} \/ todo["main"] = <<>>
    /\ pc["filter"] = "restoring" \/ todo["filter"] = <<>>
    /\ pc["main"] \in {"off", "recover", "recovering", "created"} => ~prev.captured
    /\ \A t \in Threads : pc[t] = "restoring" => prev.captured

LEMMA PlacesNext == TypeInv /\ Places /\ [Next]_vars => Places'
<1> SUFFICES ASSUME TypeInv, Places, [Next]_vars PROVE Places'
  BY Zenon
<1> USE TwoThreads DEF Places, Goto
<1>0. /\ pc \in [Threads -> MainPlaces \cup {"dump"}] /\ pc["filter"] \in {"off", "restore", "restoring", "dump"}
      /\ pc["main"] = "off" => pc["filter"] = "off"
      /\ back \in {"idle", "config", "quit"}
      /\ todo \in [Threads -> Seq(Writes)]
      /\ prev \in [captured : BOOLEAN, state : Settings]
  BY Zenon DEF TypeInv, PlaceInv, MemoryInv
<1>1. CASE UNCHANGED vars
  BY <1>1, Zenon DEF vars
<1>2. CASE StopBridge \/ StopSocks \/ StopCore \/ StopAdnl
  BY <1>0, <1>2, Zenon DEF StopBridge, StopSocks, StopCore, StopAdnl, aside
<1>3. CASE StopEnd
  BY <1>0, <1>3, Zenon DEF StopEnd, aside
<1>4. CASE ReadConfig \/ StartCore
  BY <1>0, <1>4, Zenon DEF ReadConfig, StartCore, aside
<1>5. CASE StartAdnl \/ StartSocks
  BY <1>0, <1>5, Zenon DEF StartAdnl, StartSocks, aside
<1>6. CASE ApplyEnd \/ PressStop \/ CloseWindow
  BY <1>0, <1>6, Zenon DEF ApplyEnd, PressStop, CloseWindow, aside
<1>7. CASE StartBridge
  BY <1>0, <1>7, Zenon DEF StartBridge, aside
<1>8. CASE PressStart \/ AutoStart
  BY <1>0, <1>8, Zenon DEF PressStart, AutoStart, aside
<1>9. CASE Gone
  BY <1>0, <1>9 DEF Gone, Quit, Kill, Abort, ProcessGone, NotCaptured
<1>10. CASE Queue \/ UserSets
  BY <1>0, <1>10, Zenon DEF Queue, Deliver, ReceivePacket, UserSets
<1>12. CASE Exception \/ Launch
  BY <1>0, <1>12, Zenon DEF Exception, Launch
<1>13. CASE Recover
  BY <1>0, <1>13, Zenon DEF Recover
<1>14. CASE Capture
  <2>1. pc["main"] = "capture" /\ todo' = todo /\ pc'["filter"] = pc["filter"]
    BY <1>0, <1>14, Zenon DEF Capture
  <2>2. pc'["main"] \in {"save", "apply"} /\ (prev.captured => prev'.captured)
    BY <1>0, <1>14, Zenon DEF Capture
  <2> QED
    BY <1>0, <2>1, <2>2, Zenon
<1>15. CASE Save
  BY <1>0, <1>15, Zenon DEF Save
<1>16. CASE ApplyBegin
  BY <1>0, <1>16, Zenon DEF ApplyBegin
<1>17. ASSUME NEW t \in Threads, WriteNext(t) PROVE Places'
  BY <1>0, <1>17, Zenon DEF WriteNext
<1>18. ASSUME NEW t \in Threads, DeleteFile(t) PROVE Places'
  BY <1>0, <1>18, Zenon DEF DeleteFile
<1>19. ASSUME NEW t \in Threads, RestoreBegin(t) PROVE Places'
  BY <1>0, <1>19, Zenon DEF RestoreBegin
<1> QED
  BY <1>1, <1>2, <1>3, <1>4, <1>5, <1>6, <1>7, <1>8, <1>9, <1>10, <1>12, <1>13, <1>14,
     <1>15, <1>16, <1>17, <1>18, <1>19, Steps, Zenon DEF Walk

LEMMA PlacesInit == Init => Places
BY TwoThreads DEF Init, ProcessInit, Places, NotCaptured

\* The settings are the user's own.
Own == IF wish = None THEN ~reg.enable \/ reg.server = None
       ELSE reg.enable /\ reg.server = wish /\ reg.override = wish

LEMMA OwnEffective == TypeInv => (Own <=> Effective = Chosen(wish))
BY Zenon DEF Own, Effective, Chosen, TypeInv, DiskInv

\* Thread t is putting the user's settings back: what it has written is there,
\* the rest is still to be written.
Putting(t) ==
    \/ /\ wish # None
       /\ \/ todo[t] = << <<"server", wish>>, <<"override", wish>>, <<"enable", TRUE>> >>
          \/ todo[t] = << <<"override", wish>>, <<"enable", TRUE>> >> /\ reg.server = wish
          \/ todo[t] = << <<"enable", TRUE>> >> /\ reg.server = wish /\ reg.override = wish
          \/ todo[t] = <<>> /\ Own
    \/ /\ wish = None
       /\ \/ todo[t] = << <<"enable", FALSE>> >>
          \/ todo[t] = <<>> /\ ~reg.enable

\* One value of the user's settings is put back.
PutBack ==
    \/ wish # None /\ reg' = [reg EXCEPT !.server = wish]
    \/ wish # None /\ reg' = [reg EXCEPT !.override = wish]
    \/ reg' = [reg EXCEPT !.enable = (wish # None)]

\* A sequence of one element.
LEMMA Tuple1 == ASSUME NEW q, NEW a, q = <<a>> PROVE Head(q) = a /\ Tail(q) = <<>>
OBVIOUS

\* The write of value v to field f.
LEMMA WriteOne ==
    ASSUME TypeInv, NEW t \in Threads, WriteNext(t), NEW f, NEW v, Head(todo[t]) = <<f, v>>
    PROVE  reg' = [reg EXCEPT ![f] = v]
<1>1. reg' = [reg EXCEPT ![Head(todo[t])[1]] = Head(todo[t])[2]]
  BY WriteEffect, Zenon
<1>2. Head(todo[t])[1] = f /\ Head(todo[t])[2] = v
  BY SMTT(30)
<1> QED
  BY <1>1, <1>2, Zenon

\* A thread that puts the settings back makes progress with each write.
LEMMA PutWrite ==
    ASSUME TypeInv, NEW t \in Threads, WriteNext(t), Putting(t)
    PROVE  Putting(t)' /\ PutBack
<1> DEFINE w == Head(todo[t])
<1>1. /\ reg' = [reg EXCEPT ![w[1]] = w[2]] /\ todo'[t] = Tail(todo[t]) /\ wish' = wish
      /\ todo[t] # <<>>
  <2>1. reg' = [reg EXCEPT ![w[1]] = w[2]] /\ todo' = [todo EXCEPT ![t] = Tail(todo[t])] 
    BY WriteEffect, Zenon
  <2> QED
    BY <2>1, Zenon DEF WriteNext, TypeInv, MemoryInv
<1>2. reg \in [enable : BOOLEAN, server : Servers, override : Bypasses]
  BY Zenon DEF TypeInv, DiskInv
<1>3. CASE wish # None /\ todo[t] = << <<"server", wish>>, <<"override", wish>>, <<"enable", TRUE>> >>
  <2>1. w = <<"server", wish>> /\ Tail(todo[t]) = << <<"override", wish>>, <<"enable", TRUE>> >>
    <3> DEFINE a == <<"server", wish>> b == <<"override", wish>> c == <<"enable", TRUE>>
    <3>1. todo[t] = <<a, b, c>> BY <1>3, Zenon
    <3> HIDE DEF a, b, c
    <3>2. Head(todo[t]) = a /\ Tail(todo[t]) = <<b, c>> BY <3>1
    <3> QED BY <3>2, Zenon DEF a, b, c
  <2>2. reg' = [reg EXCEPT !.server = wish]
    BY <2>1, WriteOne, Zenon
  <2> QED
    BY <1>1, <1>2, <1>3, <2>1, <2>2, Zenon DEF Putting, PutBack
<1>4. CASE wish # None /\ todo[t] = << <<"override", wish>>, <<"enable", TRUE>> >> /\ reg.server = wish
  <2>1. w = <<"override", wish>> /\ Tail(todo[t]) = << <<"enable", TRUE>> >>
    <3> DEFINE a == <<"override", wish>> b == <<"enable", TRUE>>
    <3>1. todo[t] = <<a, b>> BY <1>4, Zenon
    <3> HIDE DEF a, b
    <3>2. Head(todo[t]) = a /\ Tail(todo[t]) = <<b>> BY <3>1
    <3> QED BY <3>2, Zenon DEF a, b
  <2>2. reg' = [reg EXCEPT !.override = wish]
    BY <2>1, WriteOne, Zenon
  <2> QED
    BY <1>1, <1>2, <1>4, <2>1, <2>2, Zenon DEF Putting, PutBack
<1>5. CASE wish # None /\ todo[t] = << <<"enable", TRUE>> >> /\ reg.server = wish /\ reg.override = wish
  <2>1. w = <<"enable", TRUE>> /\ Tail(todo[t]) = <<>>
    BY <1>5, Tuple1, Zenon
  <2>2. reg' = [reg EXCEPT !.enable = TRUE]
    BY <2>1, WriteOne, Zenon
  <2> QED
    BY <1>1, <1>2, <1>5, <2>1, <2>2, Zenon DEF Putting, PutBack, Own
<1>6. CASE wish = None /\ todo[t] = << <<"enable", FALSE>> >>
  <2>1. w = <<"enable", FALSE>> /\ Tail(todo[t]) = <<>>
    BY <1>6, Tuple1, Zenon
  <2>2. reg' = [reg EXCEPT !.enable = FALSE]
    BY <2>1, WriteOne, Zenon
  <2> QED
    BY <1>1, <1>2, <1>6, <2>1, <2>2, Zenon DEF Putting, PutBack
<1> QED
  BY <1>1, <1>3, <1>4, <1>5, <1>6, Zenon DEF Putting

\* It disturbs neither the user's settings nor another thread that puts them
\* back as well.
LEMMA PutBackKeeps ==
    ASSUME TypeInv, PutBack, wish' = wish
    PROVE  /\ Own => Own'
           /\ \A t : todo'[t] = todo[t] /\ Putting(t) => Putting(t)'
<1>1. reg \in [enable : BOOLEAN, server : Servers, override : Bypasses]
  BY Zenon DEF TypeInv, DiskInv
<1>2. Own => Own'
  BY <1>1, Zenon DEF Own, PutBack
<1>3. ASSUME NEW t, todo'[t] = todo[t], Putting(t) PROVE Putting(t)'
  BY <1>1, <1>2, <1>3, Zenon DEF Putting, PutBack
<1> QED
  BY <1>2, <1>3, Zenon

\* The system proxy is the address of this session.
OnPort == reg.enable /\ reg.server = Ton(port)

\* What applySystemSocksProxy has written is there, the rest is pending.
Applying ==
    \/ todo["main"] = << <<"enable", TRUE>>, <<"server", Ton(port)>>, <<"override", None>> >>
    \/ todo["main"] = << <<"server", Ton(port)>>, <<"override", None>> >> /\ reg.enable
    \/ todo["main"] = << <<"override", None>> >> /\ OnPort
    \/ todo["main"] = <<>> /\ OnPort

LEMMA ApplyWrite ==
    ASSUME TypeInv, WriteNext("main"), Applying
    PROVE  Applying'
<1>1. "main" \in Threads
  BY TwoThreads, Zenon
<1>2. todo'["main"] = Tail(todo["main"]) /\ todo["main"] # <<>> /\ port' = port
  <2>1. todo' = [todo EXCEPT !["main"] = Tail(todo["main"])]
    BY <1>1, WriteEffect, Zenon
  <2> QED
    BY <1>1, <2>1, Zenon DEF WriteNext, TypeInv, MemoryInv, session
<1>3. reg \in [enable : BOOLEAN, server : Servers, override : Bypasses]
  BY Zenon DEF TypeInv, DiskInv
<1> DEFINE a == <<"enable", TRUE>> b == <<"server", Ton(port)>> c == <<"override", None>>
<1>4. CASE todo["main"] = <<a, b, c>>
  <2> HIDE DEF a, b, c
  <2>1. Head(todo["main"]) = a /\ Tail(todo["main"]) = <<b, c>>
    BY <1>4
  <2>2. reg' = [reg EXCEPT !.enable = TRUE]
    BY <1>1, <2>1, WriteOne, Zenon DEF a
  <2> QED
    BY <1>2, <1>3, <2>1, <2>2, Zenon DEF Applying, b, c, Ton
<1>5. CASE todo["main"] = <<b, c>> /\ reg.enable
  <2> HIDE DEF a, b, c
  <2>1. Head(todo["main"]) = b /\ Tail(todo["main"]) = <<c>>
    BY <1>5
  <2>2. reg' = [reg EXCEPT !.server = Ton(port)]
    BY <1>1, <2>1, WriteOne, Zenon DEF b
  <2>3. OnPort'
    BY <1>2, <1>3, <1>5, <2>2, Zenon DEF OnPort, Ton
  <2> QED
    BY <1>2, <2>1, <2>3, Zenon DEF Applying, c
<1>6. CASE todo["main"] = <<c>> /\ OnPort
  <2> HIDE DEF a, b, c
  <2>1. Head(todo["main"]) = c /\ Tail(todo["main"]) = <<>>
    BY <1>6
  <2>2. reg' = [reg EXCEPT !.override = None]
    BY <1>1, <2>1, WriteOne, Zenon DEF c
  <2>3. OnPort'
    BY <1>2, <1>3, <1>6, <2>2, Zenon DEF OnPort, Ton
  <2> QED
    BY <1>2, <2>1, <2>3, Zenon DEF Applying
<1> QED
  BY <1>2, <1>4, <1>5, <1>6, Zenon DEF Applying

\* The window thread alone sets the proxy as long as nothing is wrong; and the
\* capture that a first session finds is its own.
Application ==
    /\ pc["main"] = "applying" /\ pc["filter"] = "off" => Applying
    /\ pc["main"] \notin {"off", "recover", "recovering", "created"} => starts > 0
    /\ back = "config" => pc["main"] \in {"restore", "restoring", "stopBridge", "stopSocks", "stopCore", "stopAdnl",
                                          "stopped"}
    /\ prev.captured /\ (back = "config" \/ pc["main"] \in {"config", "startAdnl", "startCore", "startSocks", "capture"})
          => starts > 1

LEMMA ApplicationNext == TypeInv /\ Places /\ Application /\ [Next]_vars => Application'
<1> SUFFICES ASSUME TypeInv, Places, Application, [Next]_vars PROVE Application'
  BY Zenon
<1> USE TwoThreads DEF Application, Goto
<1>0. /\ pc \in [Threads -> MainPlaces \cup {"dump"}] /\ pc["filter"] \in {"off", "restore", "restoring", "dump"}
      /\ pc["main"] = "off" => pc["filter"] = "off"
      /\ pc["main"] \in {"off", "recover", "recovering", "created"} => starts = 0
      /\ back \in {"idle", "config", "quit"} /\ starts \in Nat
      /\ todo \in [Threads -> Seq(Writes)]
  <2>1. \A m, n : n \in 0..m => n \in Nat
    OBVIOUS
  <2> QED
    BY <2>1, Zenon DEF TypeInv, PlaceInv, MemoryInv
<1>1. ASSUME UNCHANGED <<reg, todo, port>> PROVE Applying' <=> Applying
  BY <1>1, Zenon DEF Applying, OnPort, Ton
<1>2. CASE UNCHANGED vars
  BY <1>1, <1>2, Zenon DEF vars, disk, session
<1>3. CASE StopBridge \/ StopSocks \/ StopCore \/ StopAdnl
  BY <1>0, <1>3, Zenon DEF StopBridge, StopSocks, StopCore, StopAdnl, aside
<1>4. CASE StopEnd
  BY <1>0, <1>4, Zenon DEF StopEnd, aside
<1>5. CASE ReadConfig \/ StartCore
  BY <1>0, <1>5, Zenon DEF ReadConfig, StartCore, aside
<1>6. CASE StartAdnl \/ StartSocks
  BY <1>0, <1>6, Zenon DEF StartAdnl, StartSocks, aside
<1>7. CASE ApplyEnd \/ PressStop \/ CloseWindow
  BY <1>0, <1>7, Zenon DEF ApplyEnd, PressStop, CloseWindow, aside, session
<1>8. CASE StartBridge
  BY <1>0, <1>8, Zenon DEF StartBridge, aside
<1>9. CASE AutoStart \/ PressStart
  <2>1. /\ pc'["main"] = "restore" /\ back' = "config" /\ prev' = prev /\ starts' = starts + 1
        /\ (pc["main"] = "created" \/ pc["main"] = "idle")
    BY <1>0, <1>9, Zenon DEF AutoStart, PressStart, aside
  <2>2. starts' > 0 /\ (pc["main"] = "idle" => starts' > 1)
    BY <1>0, <2>1
  <2>3. pc["main"] = "created" => ~prev.captured
    BY Zenon DEF Places
  <2> QED
    BY <2>1, <2>2, <2>3, Zenon
<1>10. CASE Gone
  <2>1. ProcessGone
    BY <1>10, Zenon DEF Gone, Quit, Kill, Abort
  <2>2. pc'["main"] = "off" /\ back' = "idle"
    BY <2>1, Zenon DEF ProcessGone
  <2> QED
    BY <2>2, Zenon
<1>11. CASE Queue
  BY <1>1, <1>11, Zenon DEF Queue, Deliver, ReceivePacket, disk
<1>12. CASE UserSets
  BY <1>0, <1>12, Zenon DEF UserSets, session
<1>13. CASE Exception \/ Launch
  BY <1>0, <1>13, Zenon DEF Exception, Launch, session
<1>14. CASE Recover
  BY <1>0, <1>14, Zenon DEF Recover, session
<1>15. CASE Capture
  <2>1. pc["main"] = "capture" /\ pc'["main"] \in {"save", "apply"} /\ UNCHANGED <<back, starts>>
    BY <1>0, <1>15, Zenon DEF Capture, session
  <2> QED
    BY <2>1, Zenon
<1>16. CASE Save
  BY <1>0, <1>16, Zenon DEF Save, session
<1>17. CASE ApplyBegin
  <2>1. /\ pc["main"] = "apply" /\ pc'["main"] \in {"applying", "startBridge"} /\ UNCHANGED <<back, starts, port>>
        /\ pc'["main"] = "applying" => todo'["main"] = ApplyWrites(port)
    BY <1>0, <1>17, Zenon DEF ApplyBegin, session
  <2>2. pc'["main"] = "applying" => Applying'
    BY <2>1, Zenon DEF Applying, ApplyWrites, Ton
  <2> QED
    BY <2>1, <2>2, Zenon
<1>18. ASSUME NEW t \in Threads, WriteNext(t) PROVE Application'
  <2>1. UNCHANGED <<pc, back, starts, prev>> /\ todo[t] # <<>>
    BY <1>18, Zenon DEF WriteNext, session
  <2>2. ASSUME pc["main"] = "applying", pc["filter"] = "off" PROVE Applying'
    <3>1. t = "main"
      BY <2>1, <2>2, Zenon DEF Places
    <3> QED
      BY <1>18, <2>2, <3>1, ApplyWrite, Zenon
  <2> QED
    BY <2>1, <2>2, Zenon
<1>19. ASSUME NEW t \in Threads, DeleteFile(t) PROVE Application'
  BY <1>0, <1>1, <1>19, Zenon DEF DeleteFile, session, Places
<1>20. ASSUME NEW t \in Threads, RestoreBegin(t) PROVE Application'
  BY <1>0, <1>20, Zenon DEF RestoreBegin, session
<1> QED
  BY <1>2, <1>3, <1>4, <1>5, <1>6, <1>7, <1>8, <1>9, <1>10, <1>11, <1>12, <1>13, <1>14,
     <1>15, <1>16, <1>17, <1>18, <1>19, <1>20, Steps, Zenon DEF Walk

LEMMA ApplicationInit == Init => Application
BY TwoThreads, Zenon DEF Init, ProcessInit, Application

\* Where the window thread is when the settings have to be the user's.
Before == {"created", "stopBridge", "stopSocks", "stopCore", "stopAdnl", "stopped", "config", "startAdnl",
           "startCore", "startSocks", "capture", "save", "saving", "apply", "quit"}

Clean == marred = {}

\* The settings are in the file, or the session is one that saves none.
OnFile == file = Chosen(wish) \/ (file = None /\ starts > 1)

\* The settings are the user's, or they are in the file and either a write is
\* pending or the next process will recognise them as its own.
Kept ==
    Clean =>
      /\ pc["main"] \in {"off", "recover"} => Own \/ (file = Chosen(wish) /\ StaleTonProxy)
      /\ pc["main"] \notin {"off", "recover"} =>
            Own \/ (OnFile /\ (ProxyAt(Ports) \/ \E t \in Threads : todo[t] # <<>>))
      /\ prev.captured => prev.state = Chosen(wish)
      /\ \A t \in Threads : pc[t] \in {"restoring", "recovering"} => Putting(t)
      /\ pc["main"] \in Before => Own
      /\ pc["main"] = "idle" /\ status # "running" => Own
      /\ pc["main"] \notin {"off", "recover", "recovering"} /\ ~prev.captured => Own
      /\ pc["main"] \in {"save", "saving", "apply", "applying"} => prev.captured
      /\ prev.captured /\ pc["main"] # "save" => file \in {None, Chosen(wish)}
      /\ pc["main"] \in {"apply", "applying"} /\ pc["filter"] = "off" => OnFile

\* What depends on the registry, the user's choice and the pending writes only.
LEMMA Undisturbed ==
    ASSUME UNCHANGED <<reg, wish, todo>>
    PROVE  /\ Own' <=> Own
           /\ StaleTonProxy' <=> StaleTonProxy
           /\ ProxyAt(Ports)' <=> ProxyAt(Ports)
           /\ \A t : Putting(t)' <=> Putting(t)
           /\ Chosen(wish)' = Chosen(wish)
<1>1. UNCHANGED reg /\ UNCHANGED wish /\ UNCHANGED todo
  BY Zenon
<1>2. (Own' <=> Own) /\ (StaleTonProxy' <=> StaleTonProxy)
  BY <1>1, Zenon DEF Own, StaleTonProxy
<1>3. ProxyAt(Ports)' <=> ProxyAt(Ports)
  BY <1>1, Zenon DEF ProxyAt
<1>4. \A t : Putting(t)' <=> Putting(t)
  BY <1>1, <1>2, Zenon DEF Putting
<1> QED
  BY <1>1, <1>2, <1>3, <1>4, Zenon DEF Chosen

\* This program's address is neither none nor the user's.
LEMMA OwnNotOurs == TypeInv /\ Own => ~ProxyAt(Ports)
BY BoundsAssumption, ProxiesAssumption, Zenon DEF TypeInv, DiskInv, Own, ProxyAt, Bypasses

\* Recovery finds this program's address at a port it looks for.
LEMMA FoundOrStray == ProxyAt(Ports) => StaleTonProxy \/ ProxyAt(Ports \ FoundPorts)
BY Zenon DEF ProxyAt, StaleTonProxy

LEMMA StaleIsOurs == StaleTonProxy /\ reg.server \notin UserProxies => ProxyAt(Ports)
BY ProxiesAssumption, Zenon DEF ProxyAt, StaleTonProxy, FoundPorts

\* A thread that begins to put them back.
LEMMA PutBegins ==
    ASSUME NEW t \in Threads, todo \in [Threads -> Seq(Writes)],
           todo' = [todo EXCEPT ![t] = SettingsWrites(Chosen(wish))], wish' = wish
    PROVE  Putting(t)'
<1>1. todo'[t] = SettingsWrites(Chosen(wish))
  BY Zenon
<1>2. Chosen(wish).proxy = wish /\ Chosen(wish).bypass = wish
  BY Zenon DEF Chosen
<1>3. CASE wish = None
  BY <1>1, <1>2, <1>3, Zenon DEF Putting, SettingsWrites
<1>4. CASE wish # None
  BY <1>1, <1>2, <1>4, Zenon DEF Putting, SettingsWrites
<1> QED
  BY <1>3, <1>4, Zenon

LEMMA WritesSome == \A x : SettingsWrites(x) # <<>>
BY SMTT(30) DEF SettingsWrites

LEMMA KeptNext == TypeInv /\ Places /\ Application /\ Application' /\ Kept /\ [Next]_vars => Kept'
<1> SUFFICES ASSUME TypeInv, Places, Application, Application', Kept, [Next]_vars PROVE Kept'
  BY Zenon
<1> USE TwoThreads
<1>0. /\ pc \in [Threads -> MainPlaces \cup {"dump"}] /\ pc["filter"] \in {"off", "restore", "restoring", "dump"}
      /\ pc["main"] = "off" => pc["filter"] = "off"
      /\ back \in {"idle", "config", "quit"}
      /\ todo \in [Threads -> Seq(Writes)]
      /\ prev \in [captured : BOOLEAN, state : Settings]
  BY Zenon DEF TypeInv, PlaceInv, MemoryInv
<1>1. ASSUME UNCHANGED <<reg, file, wish, todo, prev, starts, marred>>, UNCHANGED <<pc, status>>
      PROVE Kept'
  BY <1>1, Undisturbed, Zenon DEF Kept, Clean, OnFile
\* Steps of the window thread from one place to another.
<1>2. ASSUME UNCHANGED <<reg, file, wish, todo, prev, marred>>, starts > 1 => starts' > 1,
             NEW l, Goto("main", l),
             l \notin {"off", "recover", "restoring", "recovering", "save", "saving", "apply", "applying"},
             pc["main"] \in Before \cup {"idle"}, pc["main"] # "save",
             \/ l = "restore"
             \/ pc["main"] \in Before
      PROVE Kept'
  <2>1. (OnFile => OnFile') /\ UNCHANGED <<file, prev>> /\ (Clean' => Clean)
    BY <1>2, Undisturbed, Zenon DEF OnFile, Clean
  <2>2. pc'["main"] = l /\ pc'["filter"] = pc["filter"]
    BY <1>0, <1>2, Zenon DEF Goto
  <2> QED
    BY <1>0, <1>2, <2>1, <2>2, Undisturbed, Zenon DEF Kept, Before
<1>3. CASE StopBridge \/ StopSocks \/ StopCore \/ StopAdnl \/ StartCore \/ ReadConfig
  BY <1>2, <1>3, Zenon DEF StopBridge, StopSocks, StopCore, StopAdnl, StartCore, ReadConfig, Before, aside, disk
<1>4. CASE StopEnd
  BY <1>0, <1>2, <1>4, Zenon DEF StopEnd, Before, aside, disk
<1>5. CASE StartAdnl \/ StartSocks
  BY <1>2, <1>5, Zenon DEF StartAdnl, StartSocks, Before, aside, disk
<1>6. CASE AutoStart \/ PressStart \/ PressStop \/ CloseWindow
  <2>1. starts > 1 => starts' > 1
    <3>1. starts' = starts + 1 \/ starts' = starts
      BY <1>6, Zenon DEF AutoStart, PressStart, PressStop, CloseWindow, session
    <3>2. starts \in Nat
      BY DEF TypeInv, PlaceInv
    <3> QED
      BY <3>1, <3>2
  <2> QED
    BY <1>2, <1>6, <2>1, Zenon DEF AutoStart, PressStart, PressStop, CloseWindow, Before, aside, disk
<1>7. CASE ApplyEnd \/ StartBridge
  <2>1. UNCHANGED <<reg, file, wish, todo, prev, starts, marred>>
    BY <1>7, Zenon DEF ApplyEnd, StartBridge, aside, disk, session
  <2>2. \/ UNCHANGED <<pc, status>>
        \/ pc["main"] \in {"applying", "startBridge"} /\ Goto("main", "startBridge")
        \/ pc["main"] \in {"applying", "startBridge"} /\ Goto("main", "idle") /\ status' = "running"
    BY <1>7, Zenon DEF ApplyEnd, StartBridge
  <2>3. OnFile' <=> OnFile
    BY <2>1, Undisturbed, Zenon DEF OnFile
  <2> QED
    BY <1>0, <1>1, <2>1, <2>2, <2>3, Undisturbed, Zenon DEF Kept, Clean, Goto, Before
<1>8. CASE Gone
  <2>1. ProcessGone /\ marred' = marred \cup Damage /\ UNCHANGED <<reg, file, wish>>
    BY <1>8, Zenon DEF Gone, Quit, Kill, Abort, disk
  <2> SUFFICES ASSUME Clean' PROVE Kept'
    BY Zenon DEF Kept
  <2>2. Clean /\ Damage = {}
    BY <2>1, Zenon DEF Clean
  <2>3. /\ ~ProxyAt(Ports \ FoundPorts) /\ ~HalfWritten
        /\ ~(ProxyAt(Ports) /\ file = None /\ starts > 1)
    BY <2>2, Zenon DEF Damage
  <2>4. (Own' <=> Own) /\ (StaleTonProxy' <=> StaleTonProxy) /\ Chosen(wish)' = Chosen(wish)
    BY <2>1, Zenon DEF Own, StaleTonProxy, Chosen
  <2>5. Own \/ (file = Chosen(wish) /\ StaleTonProxy)
    <3>1. CASE pc["main"] \in {"off", "recover"}
      BY <2>2, <3>1, Zenon DEF Kept
    <3>2. CASE pc["main"] \notin {"off", "recover"}
      <4>1. Own \/ (OnFile /\ (ProxyAt(Ports) \/ \E t \in Threads : todo[t] # <<>>))
        BY <2>2, <3>2, Zenon DEF Kept
      <4>2. ASSUME OnFile, ProxyAt(Ports) PROVE file = Chosen(wish) /\ StaleTonProxy
        BY <2>3, <4>2, FoundOrStray, Zenon DEF OnFile
      <4>3. ASSUME OnFile, NEW t \in Threads, todo[t] # <<>> PROVE file = Chosen(wish) /\ StaleTonProxy
        BY <2>3, <4>3, Zenon DEF OnFile, HalfWritten
      <4> QED
        BY <4>1, <4>2, <4>3, Zenon
    <3> QED
      BY <3>1, <3>2, Zenon
  <2>6. (\A t \in Threads : pc'[t] = "off") /\ prev' = NotCaptured
    BY <2>1, Zenon DEF ProcessGone
  <2> QED
    BY <2>1, <2>4, <2>5, <2>6, Zenon DEF Kept, Before, NotCaptured
<1>9. CASE Queue
  BY <1>1, <1>9, Zenon DEF Queue, Deliver, ReceivePacket, disk
<1>10. CASE Exception
  <2>1. UNCHANGED <<reg, file, wish, todo, prev, starts, marred>>
    BY <1>10, Zenon DEF Exception, disk, session
  <2>2. OnFile' <=> OnFile
    BY <2>1, Undisturbed, Zenon DEF OnFile
  <2> QED
    BY <1>0, <1>10, <2>1, <2>2, Undisturbed, Zenon DEF Kept, Clean, Exception, Goto
<1>11. CASE Launch
  <2>1. UNCHANGED <<reg, file, wish, todo, prev, starts, marred>>
    BY <1>11, Zenon DEF Launch, session
  <2> QED
    BY <1>0, <1>11, <2>1, Undisturbed, Zenon DEF Kept, Clean, Launch, Goto, Before, Places
<1>12. CASE UserSets
  <2>1. reg \in [enable : BOOLEAN, server : Servers, override : Bypasses]
    BY Zenon DEF TypeInv, DiskInv
  <2>2. Own'
    <3>1. PICK u : /\ wish' = u
                   /\ reg' = IF u = None THEN [reg EXCEPT !.enable = FALSE]
                             ELSE [enable |-> TRUE, server |-> u, override |-> u]
      BY <1>12, Zenon DEF UserSets
    <3> QED
      BY <2>1, <3>1, Zenon DEF Own
  <2>3. Clean' => ~prev.captured
    BY <1>12, Zenon DEF UserSets, Clean
  <2>4. UNCHANGED <<pc, prev>> /\ pc["main"] \in {"off", "idle"} /\ pc["filter"] = "off"
    BY <1>0, <1>12, Zenon DEF UserSets
  <2>5. \A t \in Threads : pc'[t] \notin {"restoring", "recovering"}
    BY <2>4, Zenon
  <2>6. pc'["main"] \notin {"save", "saving", "apply", "applying"}
    BY <2>4, Zenon
  <2>7. Clean' => ~prev'.captured
    BY <2>3, <2>4, Zenon
  <2> QED
    BY <2>2, <2>5, <2>6, <2>7, Zenon DEF Kept
<1>13. CASE Recover
  <2> SUFFICES ASSUME Clean' PROVE Kept'
    BY Zenon DEF Kept
  <2>1. /\ pc["main"] = "recover" /\ ~prev.captured
        /\ UNCHANGED <<reg, file, wish, prev, status>> /\ Clean
    <3>1. pc["main"] = "recover" /\ UNCHANGED <<reg, file, wish, prev, status>>
      BY <1>13, Zenon DEF Recover, disk
    <3> QED
      BY <1>13, <3>1, Marring, Zenon DEF Places, Clean
  <2>2. Own \/ (file = Chosen(wish) /\ StaleTonProxy)
    BY <2>1, Zenon DEF Kept
  <2>3. CASE ~StaleTonProxy
    <3>1. Own /\ Goto("main", "created") /\ UNCHANGED todo
      BY <1>13, <2>2, <2>3, Zenon DEF Recover, Clean, Mar
    <3>2. Own' /\ pc'["main"] = "created" /\ pc'["filter"] = pc["filter"] /\ UNCHANGED prev
      BY <1>0, <2>1, <3>1, Undisturbed, Zenon DEF Goto
    <3> QED
      BY <1>0, <2>1, <3>2, Zenon DEF Kept, Places
  <2>4. CASE StaleTonProxy
    <3>0. reg.server \notin UserProxies
      BY <1>13, <2>4, Zenon DEF Recover, Clean, Mar
    <3>1. file = Chosen(wish) /\ Chosen(wish) # None
      BY <2>2, <2>4, <3>0, OwnNotOurs, StaleIsOurs, ProxiesAssumption, Zenon DEF TypeInv, DiskInv, Bypasses
    <3>2. /\ Goto("main", "recovering")
          /\ todo' = [todo EXCEPT !["main"] = SettingsWrites(Chosen(wish))]
      BY <1>13, <2>4, <3>1, Zenon DEF Recover, Clean, Mar
    <3>3. Putting("main")'
      BY <1>0, <2>1, <3>2, PutBegins, Zenon
    <3>4. OnFile' /\ todo'["main"] # <<>>
      BY <1>0, <2>1, <3>1, <3>2, WritesSome, Zenon DEF OnFile, Chosen
    <3>5. pc'["main"] = "recovering" /\ pc'["filter"] = pc["filter"] /\ prev' = prev
      BY <1>0, <2>1, <3>2, Zenon DEF Goto
    <3>6. pc["filter"] # "restoring"
      BY <2>1, Zenon DEF Places
    <3> QED
      BY <1>0, <2>1, <3>3, <3>4, <3>5, <3>6, Zenon DEF Kept, Before
  <2> QED
    BY <2>3, <2>4, Zenon
<1>14. CASE Capture
  <2> SUFFICES ASSUME Clean' PROVE Kept'
    BY Zenon DEF Kept
  <2>1. /\ pc["main"] = "capture" /\ Clean
        /\ UNCHANGED <<reg, file, wish, todo, status, starts>>
        /\ \/ prev.captured /\ Goto("main", "apply") /\ UNCHANGED prev
           \/ /\ ~prev.captured /\ Goto("main", "save")
              /\ prev' = [captured |-> TRUE, state |-> Effective]
    <3>1. /\ pc["main"] = "capture" /\ UNCHANGED <<reg, file, wish, todo, status, starts>>
          /\ \/ prev.captured /\ Goto("main", "apply") /\ UNCHANGED prev
             \/ /\ ~prev.captured /\ Goto("main", "save")
                /\ prev' = [captured |-> TRUE, state |-> Effective]
             \/ marred' = marred \cup {"denied"}
      BY <1>14, Zenon DEF Capture, Mar, disk, session
    <3> QED
      BY <1>14, <3>1, Marring, Zenon DEF Clean
  <2>2. Own /\ Effective = Chosen(wish)
    BY <2>1, OwnEffective, Zenon DEF Kept, Before
  <2>3. CASE ~prev.captured /\ Goto("main", "save") /\ prev' = [captured |-> TRUE, state |-> Effective]
    <3>1. prev'.captured /\ prev'.state = Chosen(wish)'
      BY <2>1, <2>2, <2>3, Undisturbed, Zenon
    <3> QED
      BY <1>0, <2>1, <2>2, <2>3, <3>1, Undisturbed, Zenon DEF Kept, Goto
  <2>4. CASE prev.captured /\ Goto("main", "apply") /\ UNCHANGED prev
    <3>1. OnFile'
      BY <2>1, <2>4, Undisturbed, Zenon DEF Kept, Application, OnFile
    <3>2. Own' /\ pc'["main"] = "apply" /\ pc'["filter"] = pc["filter"]
      BY <1>0, <2>1, <2>2, <2>4, Undisturbed, Zenon DEF Goto
    <3> QED
      BY <1>0, <2>1, <2>4, <3>1, <3>2, Undisturbed, Zenon DEF Kept
  <2> QED
    BY <2>1, <2>3, <2>4, Zenon
<1>15. CASE Save
  <2> SUFFICES ASSUME Clean' PROVE Kept'
    BY Zenon DEF Kept
  <2>1. /\ Clean /\ UNCHANGED <<reg, wish, todo, prev, status>>
        /\ \/ pc["main"] = "save" /\ file' = None /\ Goto("main", "saving")
           \/ pc["main"] = "saving" /\ file' = prev.state /\ Goto("main", "apply")
    <3>1. /\ UNCHANGED <<reg, wish, todo, prev, status>>
          /\ \/ pc["main"] = "save" /\ file' = None /\ Goto("main", "saving")
             \/ pc["main"] = "saving" /\ file' = prev.state /\ Goto("main", "apply")
             \/ marred' = marred \cup {"denied"}
      BY <1>15, Zenon DEF Save, Saved, Mar
    <3> QED
      BY <1>15, <3>1, Marring, Zenon DEF Clean
  <2>2. Own /\ prev.captured /\ prev.state = Chosen(wish)
    BY <2>1, Zenon DEF Kept, Before
  <2>3. file' = Chosen(wish)' => OnFile'
    BY Zenon DEF OnFile
  <2> QED
    BY <1>0, <2>1, <2>2, <2>3, Undisturbed, Zenon DEF Kept, Goto
<1>16. CASE ApplyBegin
  <2> SUFFICES ASSUME Clean' PROVE Kept'
    BY Zenon DEF Kept
  <2>1. /\ Clean /\ UNCHANGED <<reg, file, wish, prev, status, starts>> /\ pc["main"] = "apply"
        /\ \/ Goto("main", "applying") /\ todo' = [todo EXCEPT !["main"] = ApplyWrites(port)]
           \/ Goto("main", "startBridge") /\ UNCHANGED todo
    BY <1>16, Zenon DEF ApplyBegin, Clean, disk, session
  <2>2. (Own' <=> Own) /\ Chosen(wish)' = Chosen(wish) /\ (OnFile' <=> OnFile)
    BY <2>1, Zenon DEF Own, Chosen, OnFile
  <2>3. todo'["filter"] = todo["filter"] /\ (Putting("filter") => Putting("filter")')
    BY <1>0, <2>1, Zenon DEF Putting, Own
  <2>5. /\ Own /\ prev.captured /\ prev.state = Chosen(wish) /\ file \in {None, Chosen(wish)}
        /\ pc["filter"] = "off" => OnFile
        /\ pc["filter"] = "restoring" => Putting("filter")
    BY <2>1, Zenon DEF Kept, Before
  <2>6. pc'["filter"] = pc["filter"] /\ pc'["main"] \in {"applying", "startBridge"}
    BY <1>0, <2>1, Zenon DEF Goto
  <2>7. \A t \in Threads : pc'[t] \in {"restoring", "recovering"} => Putting(t)'
    BY <1>0, <2>3, <2>5, <2>6, Zenon
  <2>8. prev' = prev /\ file' = file
    BY <2>1, Zenon
  <2> QED
    BY <2>2, <2>5, <2>6, <2>7, <2>8, Zenon DEF Kept
<1>17. ASSUME NEW t \in Threads, WriteNext(t) PROVE Kept'
  <2> SUFFICES ASSUME Clean' PROVE Kept'
    BY Zenon DEF Kept
  <2>1. /\ Clean /\ UNCHANGED <<file, wish, pc, prev, status, starts>>
        /\ todo' = [todo EXCEPT ![t] = Tail(todo[t])] /\ todo[t] # <<>>
        /\ pc[t] = "applying" => pc["filter"] = "off"
    BY <1>17, WriteEffect, Marring, Zenon DEF WriteNext, Clean, Mar, session
  <2>2. Chosen(wish)' = Chosen(wish) /\ (OnFile' <=> OnFile)
    BY <2>1, Zenon DEF Chosen, OnFile
  <2>3. CASE pc[t] \in {"restoring", "recovering"}
    <3>1. Putting(t) /\ Putting(t)' /\ PutBack
      BY <1>17, <2>1, <2>3, PutWrite, Zenon DEF Kept
    <3>2. Own => Own'
      BY <2>1, <3>1, PutBackKeeps, Zenon
    <3>3. \A u \in Threads : pc'[u] \in {"restoring", "recovering"} => Putting(u)'
      BY <1>0, <2>1, <3>1, PutBackKeeps, Zenon DEF Kept
    <3>4. todo'[t] = <<>> => Own'
      BY <3>1, SMTT(30) DEF Putting, Own
    <3>5. pc["main"] \notin {"off", "recover"}
      BY <2>1, <2>3, Zenon DEF Places
    <3>6. Own' \/ (OnFile' /\ \E u \in Threads : todo'[u] # <<>>)
      BY <2>1, <2>2, <3>2, <3>4, <3>5, Zenon DEF Kept
    <3> QED
      BY <2>1, <2>2, <3>2, <3>3, <3>5, <3>6, Zenon DEF Kept
  <2>4. CASE pc[t] = "applying"
    <3>1. t = "main" /\ pc["main"] = "applying" /\ pc["filter"] = "off" /\ OnFile
      BY <1>0, <2>1, <2>4, Zenon DEF Kept
    <3>2. Applying' /\ pc'["main"] = "applying"
      BY <2>1, <3>1, Zenon DEF Application
    <3>3. port' \in Ports
      BY <1>17, Zenon DEF WriteNext, session, TypeInv, MemoryInv
    <3>4. todo'["main"] = <<>> => ProxyAt(Ports)'
      <4>1. todo'["main"] = <<>> => OnPort'
        BY <3>2, SMTT(30) DEF Applying
      <4> QED
        BY <3>3, <4>1, Zenon DEF OnPort, ProxyAt
    <3>5. file' \in {None, Chosen(wish)'} /\ prev'.captured /\ prev'.state = Chosen(wish)' /\ OnFile'
      BY <2>1, <2>2, <3>1, Zenon DEF Kept
    <3> QED
      BY <2>1, <3>1, <3>2, <3>4, <3>5, Zenon DEF Kept, Before
  <2> QED
    BY <1>0, <2>1, <2>3, <2>4, Zenon DEF Places
<1>18. ASSUME NEW t \in Threads, DeleteFile(t) PROVE Kept'
  <2> SUFFICES ASSUME Clean' PROVE Kept'
    BY Zenon DEF Kept
  <2>1. /\ Clean /\ UNCHANGED <<reg, wish, todo, prev, status>> /\ file' = None
        /\ pc[t] \in {"recovering", "restoring"} /\ todo[t] = <<>>
    BY <1>18, Zenon DEF DeleteFile, Clean
  <2>2. Own
    <3>1. Putting(t)
      BY <2>1, Zenon DEF Kept
    <3> QED
      BY <2>1, <3>1, SMTT(30) DEF Putting, Own
  <2>3. \/ t = "main" /\ Goto("main", "created")
        \/ t = "main" /\ Goto("main", "stopBridge")
        \/ t = "filter" /\ Goto("filter", "dump")
    BY <1>0, <1>18, Zenon DEF DeleteFile
  <2> QED
    BY <1>0, <2>1, <2>2, <2>3, Undisturbed, Zenon DEF Kept, Goto
<1>19. ASSUME NEW t \in Threads, RestoreBegin(t) PROVE Kept'
  <2> SUFFICES ASSUME Clean' PROVE Kept'
    BY Zenon DEF Kept
  <2> DEFINE done == IF t = "main" THEN "stopBridge" ELSE "dump"
  <2>1. /\ Clean /\ UNCHANGED <<reg, file, wish, prev, status, starts>> /\ pc[t] = "restore"
        /\ \/ ~prev.captured /\ Goto(t, done) /\ UNCHANGED todo
           \/ /\ prev.captured /\ Goto(t, "restoring")
              /\ todo' = [todo EXCEPT ![t] = SettingsWrites(prev.state)]
    <3>1. /\ UNCHANGED <<reg, file, wish, prev, status, starts>> /\ pc[t] = "restore"
          /\ \/ ~prev.captured /\ Goto(t, done) /\ UNCHANGED todo
             \/ /\ prev.captured /\ Goto(t, "restoring")
                /\ todo' = [todo EXCEPT ![t] = SettingsWrites(prev.state)]
             \/ marred' = marred \cup {"denied"}
      BY <1>19, Zenon DEF RestoreBegin, Mar, disk, session
    <3> QED
      BY <1>19, <3>1, Marring, Zenon DEF Clean
  <2>0. OnFile' <=> OnFile
    BY <2>1, Zenon DEF OnFile, Chosen
  <2>2. CASE ~prev.captured /\ Goto(t, done) /\ UNCHANGED todo
    <3>1. pc["main"] \notin {"off", "recover", "recovering"} => Own
      BY <2>1, <2>2, Zenon DEF Kept
    <3> QED
      BY <1>0, <2>0, <2>1, <2>2, <3>1, Undisturbed, Zenon DEF Kept, Goto
  <2>3. CASE /\ prev.captured /\ Goto(t, "restoring")
             /\ todo' = [todo EXCEPT ![t] = SettingsWrites(prev.state)]
    <3>1. prev.state = Chosen(wish) /\ pc["main"] \notin {"off", "recover"}
      BY <2>1, <2>3, Zenon DEF Kept, Places
    <3>2. Putting(t)'
      <4>1. todo' = [todo EXCEPT ![t] = SettingsWrites(Chosen(wish))]
        BY <2>3, <3>1, Zenon
      <4> QED
        BY <1>0, <2>1, <4>1, PutBegins, Zenon
    <3>3. (Own' <=> Own) /\ Chosen(wish)' = Chosen(wish)
      BY <2>1, Zenon DEF Own, Chosen
    <3>4. \A u \in Threads : u # t => todo'[u] = todo[u] /\ (Putting(u)' <=> Putting(u))
      <4> SUFFICES ASSUME NEW u \in Threads, u # t PROVE todo'[u] = todo[u] /\ (Putting(u)' <=> Putting(u))
        BY Zenon
      <4>1. todo'[u] = todo[u]
        BY <1>0, <2>3, Zenon
      <4> QED
        BY <2>1, <3>3, <4>1, Zenon DEF Putting
    <3>5. todo'[t] # <<>>
      BY <1>0, <2>3, WritesSome, Zenon
    <3>6. pc' = [pc EXCEPT ![t] = "restoring"]
      BY <2>3, Zenon DEF Goto
    <3>7. \A u \in Threads : pc'[u] \in {"restoring", "recovering"} => Putting(u)'
      BY <1>0, <2>1, <3>2, <3>4, <3>6, Zenon DEF Kept
    <3>8. pc'["main"] \in {"apply", "applying"} /\ pc'["filter"] = "off" => FALSE
      BY <1>0, <3>6, Zenon
    <3>9. Own' \/ (OnFile' /\ \E u \in Threads : todo'[u] # <<>>)
      BY <2>0, <2>1, <3>1, <3>3, <3>5, Zenon DEF Kept
    <3> QED
      BY <1>0, <2>1, <2>3, <3>1, <3>3, <3>6, <3>7, <3>8, <3>9, Zenon DEF Kept, Before
  <2> QED
    BY <2>1, <2>2, <2>3, Zenon
<1>20. CASE UNCHANGED vars
  BY <1>1, <1>20, Zenon DEF vars, disk, session
<1> QED
  BY <1>3, <1>4, <1>5, <1>6, <1>7, <1>8, <1>9, <1>10, <1>11, <1>12, <1>13, <1>14,
     <1>15, <1>16, <1>17, <1>18, <1>19, <1>20, Steps, Zenon DEF Walk

\* Whenever the window thread is at rest and no session runs, the user's proxy
\* settings are what the user chose: after a stop, a failed start, a kill or an
\* exception at any point of any session, in any process and for any
\* socks5_port, unless one of the Losses has happened.
THEOREM SettingsRestored == Spec => []RestoredUnlessLost
<1>1. Init => Kept
  <2> SUFFICES ASSUME Init PROVE Kept
    BY Zenon
  <2>1. Own
    <3>1. PICK s : (wish # None => s = wish) /\ reg = [enable |-> wish # None, server |-> s, override |-> s]
      BY Zenon DEF Init
    <3>2. (reg.enable <=> wish # None) /\ reg.server = s /\ reg.override = s
      BY <3>1, Zenon
    <3> QED
      BY <3>1, <3>2, Zenon DEF Own
  <2>2. \A t \in Threads : pc[t] = "off"
    BY Zenon DEF Init, ProcessInit
  <2>3. ~prev.captured
    BY Zenon DEF Init, ProcessInit, NotCaptured
  <2> QED
    BY <2>1, <2>2, <2>3, TwoThreads, Zenon DEF Kept, Before
<1>2. TypeInv /\ Kept => RestoredUnlessLost
  BY OwnEffective, Zenon DEF Kept, RestoredUnlessLost, AtRest, Clean
<1> QED
  BY <1>1, <1>2, KeptNext, TypeInit, TypeNext, PlacesInit, PlacesNext, ApplicationInit, ApplicationNext, PTL DEF Spec

----------------------------------------------------------------------------
(* The system proxy always has a listener.                                 *)

\* This program's addresses.
Addresses == {Ton(p) : p \in Ports}

\* Thread t is replacing this program's proxy by another one, or by none.
Clearing(t) ==
    \/ \E v, b : /\ todo[t] = << <<"server", v>>, <<"override", b>>, <<"enable", TRUE>> >>
                 /\ v \notin Addresses
    \/ \E b : todo[t] = << <<"override", b>>, <<"enable", TRUE>> >> /\ reg.server \notin Addresses
    \/ todo[t] = << <<"enable", TRUE>> >> /\ reg.server \notin Addresses
    \/ todo[t] = << <<"enable", FALSE>> >>
    \/ todo[t] = <<>> /\ ~ProxyAt(Ports)

LEMMA ClearingBegins ==
    ASSUME NEW t \in Threads, todo \in [Threads -> Seq(Writes)], NEW s, s.proxy \notin Addresses,
           todo' = [todo EXCEPT ![t] = SettingsWrites(s)]
    PROVE  Clearing(t)'
<1>1. todo'[t] = SettingsWrites(s)
  BY Zenon
<1>2. CASE s.proxy = None
  BY <1>1, <1>2, Zenon DEF Clearing, SettingsWrites
<1>3. CASE s.proxy # None
  BY <1>1, <1>3, Zenon DEF Clearing, SettingsWrites
<1> QED
  BY <1>2, <1>3, Zenon

LEMMA ClearingWrite ==
    ASSUME TypeInv, NEW t \in Threads, WriteNext(t), Clearing(t)
    PROVE  Clearing(t)' /\ (ProxyAt(Ports)' => ProxyAt(Ports))
<1>1. todo'[t] = Tail(todo[t]) /\ todo[t] # <<>>
  <2>1. todo' = [todo EXCEPT ![t] = Tail(todo[t])]
    BY WriteEffect, Zenon
  <2> QED
    BY <2>1, Zenon DEF WriteNext, TypeInv, MemoryInv
<1>2. reg \in [enable : BOOLEAN, server : Servers, override : Bypasses]
  BY Zenon DEF TypeInv, DiskInv
<1>3. ASSUME NEW v, NEW b, v \notin Addresses,
             todo[t] = << <<"server", v>>, <<"override", b>>, <<"enable", TRUE>> >>
      PROVE  Clearing(t)' /\ ~ProxyAt(Ports)'
  <2> DEFINE x == <<"server", v>> y == <<"override", b>> z == <<"enable", TRUE>>
  <2>1. todo[t] = <<x, y, z>>
    BY <1>3, Zenon
  <2> HIDE DEF x, y, z
  <2>2. Head(todo[t]) = x /\ Tail(todo[t]) = <<y, z>>
    BY <2>1
  <2>3. reg' = [reg EXCEPT !.server = v]
    BY <2>2, WriteOne, Zenon DEF x
  <2>4. reg'.server \notin Addresses
    BY <1>2, <1>3, <2>3, Zenon
  <2>5. todo'[t] = <<y, z>>
    BY <1>1, <2>2, Zenon
  <2> QED
    BY <2>4, <2>5, Zenon DEF Clearing, ProxyAt, Addresses, y, z
<1>4. ASSUME NEW b, reg.server \notin Addresses, todo[t] = << <<"override", b>>, <<"enable", TRUE>> >>
      PROVE  Clearing(t)' /\ ~ProxyAt(Ports)'
  <2> DEFINE y == <<"override", b>> z == <<"enable", TRUE>>
  <2>1. todo[t] = <<y, z>>
    BY <1>4, Zenon
  <2> HIDE DEF y, z
  <2>2. Head(todo[t]) = y /\ Tail(todo[t]) = <<z>>
    BY <2>1
  <2>3. reg' = [reg EXCEPT !.override = b]
    BY <2>2, WriteOne, Zenon DEF y
  <2>4. reg'.server \notin Addresses
    BY <1>2, <1>4, <2>3, Zenon
  <2>5. todo'[t] = <<z>>
    BY <1>1, <2>2, Zenon
  <2> QED
    BY <2>4, <2>5, Zenon DEF Clearing, ProxyAt, Addresses, z
<1>5. ASSUME reg.server \notin Addresses, todo[t] = << <<"enable", TRUE>> >>
      PROVE  Clearing(t)' /\ ~ProxyAt(Ports)'
  <2>1. Head(todo[t]) = <<"enable", TRUE>> /\ Tail(todo[t]) = <<>>
    BY <1>5, Tuple1, Zenon
  <2>2. reg' = [reg EXCEPT !.enable = TRUE]
    BY <2>1, WriteOne, Zenon
  <2>3. reg'.server \notin Addresses
    BY <1>2, <1>5, <2>2, Zenon
  <2> QED
    BY <1>1, <2>1, <2>3, Zenon DEF Clearing, ProxyAt, Addresses
<1>6. ASSUME todo[t] = << <<"enable", FALSE>> >>
      PROVE  Clearing(t)' /\ ~ProxyAt(Ports)'
  <2>1. Head(todo[t]) = <<"enable", FALSE>> /\ Tail(todo[t]) = <<>>
    BY <1>6, Tuple1, Zenon
  <2>2. reg' = [reg EXCEPT !.enable = FALSE]
    BY <2>1, WriteOne, Zenon
  <2>3. ~reg'.enable
    BY <1>2, <2>2, Zenon
  <2> QED
    BY <1>1, <2>1, <2>3, Zenon DEF Clearing, ProxyAt, Addresses
<1> QED
  BY <1>1, <1>3, <1>4, <1>5, <1>6, Zenon DEF Clearing

\* The SOCKS server listens before the proxy is captured, and as long as the
\* session runs.
Listening ==
    /\ pc["main"] \in {"capture", "save", "saving", "apply", "applying", "startBridge"} => socks = port
    /\ pc["main"] = "idle" /\ status = "running" => socks = port
    /\ pc["main"] = "config" => status # "running"

LEMMA ListeningNext == TypeInv /\ Listening /\ [Next]_vars => Listening'
<1> SUFFICES ASSUME TypeInv, Listening, [Next]_vars PROVE Listening'
  BY Zenon
<1> USE TwoThreads DEF Listening, Goto
<1>0. /\ pc \in [Threads -> MainPlaces \cup {"dump"}] /\ back \in {"idle", "config", "quit"}
  BY Zenon DEF TypeInv, PlaceInv, MemoryInv
<1>1. CASE UNCHANGED vars
  BY <1>1, Zenon DEF vars, session
<1>2. CASE StopBridge \/ StopSocks \/ StopCore \/ StopAdnl
  BY <1>0, <1>2, Zenon DEF StopBridge, StopSocks, StopCore, StopAdnl
<1>3. CASE StopEnd
  BY <1>0, <1>3, Zenon DEF StopEnd
<1>4. CASE ReadConfig \/ StartCore
  BY <1>0, <1>4, Zenon DEF ReadConfig, StartCore
<1>5. CASE StartAdnl \/ StartSocks
  BY <1>0, <1>5, Zenon DEF StartAdnl, StartSocks
<1>6. CASE ApplyEnd \/ PressStop \/ CloseWindow
  BY <1>0, <1>6, Zenon DEF ApplyEnd, PressStop, CloseWindow, session
<1>7. CASE StartBridge
  BY <1>0, <1>7, Zenon DEF StartBridge
<1>8. CASE PressStart \/ AutoStart
  BY <1>0, <1>8, Zenon DEF PressStart, AutoStart
<1>9. CASE Gone
  BY <1>0, <1>9, Zenon DEF Gone, Quit, Kill, Abort, ProcessGone
<1>10. CASE Queue \/ UserSets
  BY <1>0, <1>10, Zenon DEF Queue, Deliver, ReceivePacket, UserSets, session
<1>11. CASE Exception \/ Launch
  BY <1>0, <1>11, Zenon DEF Exception, Launch, session
<1>12. CASE Recover
  BY <1>0, <1>12, Zenon DEF Recover, session
<1>13. CASE Capture
  BY <1>0, <1>13, Zenon DEF Capture, session
<1>14. CASE Save
  BY <1>0, <1>14, Zenon DEF Save, session
<1>15. CASE ApplyBegin
  BY <1>0, <1>15, Zenon DEF ApplyBegin, session
<1>16. ASSUME NEW t \in Threads, WriteNext(t) \/ RestoreBegin(t) PROVE Listening'
  BY <1>0, <1>16, Zenon DEF WriteNext, RestoreBegin, session
<1>17. ASSUME NEW t \in Threads, DeleteFile(t) PROVE Listening'
  BY <1>0, <1>17, Zenon DEF DeleteFile, session
<1> QED
  BY <1>1, <1>2, <1>3, <1>4, <1>5, <1>6, <1>7, <1>8, <1>9, <1>10, <1>11, <1>12, <1>13, <1>14,
     <1>15, <1>16, <1>17, Steps, Zenon DEF Walk

\* No call was refused, and no process died at an address that is not found.
Sound == marred \cap {"denied", "stray"} = {}

FileForeign == file = None \/ file.proxy \notin Addresses

\* This program's own address is never saved as the user's, is found by the
\* next process, and is cleared wherever the window thread gives the proxy back.
Foreign ==
    Sound =>
      /\ prev.captured => prev.state.proxy \notin Addresses
      /\ FileForeign
      /\ pc["main"] \in {"off", "recover"} /\ ProxyAt(Ports) => StaleTonProxy
      /\ ~prev.captured /\ pc["main"] \notin {"off", "recover", "recovering"} => ~ProxyAt(Ports)
      /\ pc["main"] \in {"save", "saving", "apply", "applying"} => prev.captured
      /\ pc["main"] = "recovering" => Clearing("main")
      /\ pc["main"] = "restoring" /\ pc["filter"] = "off" => Clearing("main")
      /\ pc["main"] \in Before /\ pc["filter"] = "off" => ~ProxyAt(Ports)
      /\ pc["main"] = "idle" /\ status # "running" /\ pc["filter"] = "off" => ~ProxyAt(Ports)
      /\ pc["main"] \in {"startBridge", "idle"} /\ pc["filter"] = "off" => ~ProxyAt(Ports) \/ OnPort

\* What depends on the registry, the file and the pending writes only.
LEMMA ForeignUndisturbed ==
    ASSUME UNCHANGED <<reg, file, todo>>
    PROVE  /\ ProxyAt(Ports)' <=> ProxyAt(Ports)
           /\ StaleTonProxy' <=> StaleTonProxy
           /\ FileForeign' <=> FileForeign
           /\ port' = port => (OnPort' <=> OnPort)
           /\ \A t : Clearing(t)' <=> Clearing(t)
<1>1. UNCHANGED reg /\ UNCHANGED file /\ UNCHANGED todo
  BY Zenon
<1>2. (ProxyAt(Ports)' <=> ProxyAt(Ports)) /\ (StaleTonProxy' <=> StaleTonProxy)
  BY <1>1, Zenon DEF StaleTonProxy, ProxyAt
<1>3. FileForeign' <=> FileForeign
  BY <1>1, Zenon DEF FileForeign
<1>4. port' = port => (OnPort' <=> OnPort)
  BY <1>1, Zenon DEF OnPort, Ton
<1>5. \A t : Clearing(t)' <=> Clearing(t)
  BY <1>1, <1>2, Zenon DEF Clearing
<1> QED
  BY <1>2, <1>3, <1>4, <1>5, Zenon

LEMMA AddressesNotNone == None \notin Addresses /\ Chosen(None).proxy \notin Addresses
BY ProxiesAssumption, Zenon DEF Addresses, Chosen

LEMMA OursAddress == ProxyAt(Ports) <=> reg.enable /\ reg.server \in Addresses
BY Zenon DEF ProxyAt, Addresses

LEMMA ForeignNext == TypeInv /\ Places /\ Application /\ Foreign /\ [Next]_vars => Foreign'
<1> SUFFICES ASSUME TypeInv, Places, Application, Foreign, [Next]_vars PROVE Foreign'
  BY Zenon
<1> USE TwoThreads
<1>0. /\ pc \in [Threads -> MainPlaces \cup {"dump"}] /\ pc["filter"] \in {"off", "restore", "restoring", "dump"}
      /\ pc["main"] = "off" => pc["filter"] = "off"
      /\ back \in {"idle", "config", "quit"}
      /\ todo \in [Threads -> Seq(Writes)]
      /\ prev \in [captured : BOOLEAN, state : Settings]
  BY Zenon DEF TypeInv, PlaceInv, MemoryInv
<1>1. ASSUME UNCHANGED <<reg, file, todo, prev, marred, pc, status, port>> PROVE Foreign'
  BY <1>1, ForeignUndisturbed, Zenon DEF Foreign, Sound
\* Steps of the window thread from one place to another.
<1>2. ASSUME UNCHANGED <<reg, file, todo, prev, marred>>,
             NEW l, Goto("main", l),
             l \notin {"off", "recover", "restoring", "recovering", "save", "saving", "apply", "applying", "startBridge"},
             pc["main"] \in Before \cup {"idle"},
             l = "restore" \/ pc["main"] \in Before
      PROVE Foreign'
  <2>1. pc'["main"] = l /\ pc'["filter"] = pc["filter"] /\ prev' = prev /\ (Sound' => Sound)
    BY <1>0, <1>2, Zenon DEF Goto, Sound
  <2>2. pc["main"] \notin {"off", "recover", "recovering"}
    BY <1>2, Zenon DEF Before
  <2>3. (ProxyAt(Ports)' <=> ProxyAt(Ports)) /\ (FileForeign' <=> FileForeign)
    BY <1>2, ForeignUndisturbed, Zenon
  <2>4. pc'["main"] \in Before \cup {"idle"} => pc["main"] \in Before
    BY <1>2, <2>1, Zenon DEF Before
  <2>5. pc'["main"] \notin {"off", "recover", "restoring", "recovering", "save", "saving", "apply",
                          "applying", "startBridge"}
    BY <1>2, <2>1, Zenon
  <2>6. Sound' =>
           /\ prev.captured => prev.state.proxy \notin Addresses
           /\ FileForeign
           /\ ~prev.captured => ~ProxyAt(Ports)
           /\ pc["main"] \in Before /\ pc["filter"] = "off" => ~ProxyAt(Ports)
    BY <2>1, <2>2, Zenon DEF Foreign
  <2> QED
    BY <2>1, <2>3, <2>4, <2>5, <2>6, Zenon DEF Foreign
<1>3. CASE StopBridge \/ StopSocks \/ StopCore \/ StopAdnl \/ StartCore \/ ReadConfig
  BY <1>2, <1>3, Zenon DEF StopBridge, StopSocks, StopCore, StopAdnl, StartCore, ReadConfig, Before, aside, disk
<1>4. CASE StopEnd
  BY <1>0, <1>2, <1>4, Zenon DEF StopEnd, Before, aside, disk
<1>5. CASE StartAdnl \/ StartSocks
  BY <1>2, <1>5, Zenon DEF StartAdnl, StartSocks, Before, aside, disk
<1>6. CASE AutoStart \/ PressStart \/ PressStop \/ CloseWindow
  BY <1>2, <1>6, Zenon DEF AutoStart, PressStart, PressStop, CloseWindow, Before, aside, disk
<1>7. CASE ApplyEnd \/ StartBridge
  <2>1. UNCHANGED <<reg, file, todo, prev, marred, port>>
    BY <1>7, Zenon DEF ApplyEnd, StartBridge, aside, disk, session
  <2>2. \/ UNCHANGED <<pc, status>>
        \/ pc["main"] = "applying" /\ todo["main"] = <<>> /\ Goto("main", "startBridge")
        \/ pc["main"] = "startBridge" /\ Goto("main", "idle") /\ status' = "running"
    BY <1>7, Zenon DEF ApplyEnd, StartBridge
  <2>3. ASSUME pc["main"] = "applying", todo["main"] = <<>>, pc["filter"] = "off" PROVE OnPort
    <3>1. Applying
      BY <2>3, Zenon DEF Application
    <3> QED
      BY <2>3, <3>1, SMTT(30) DEF Applying
  <2> QED
    BY <1>0, <1>1, <2>1, <2>2, <2>3, ForeignUndisturbed, Zenon DEF Foreign, Sound, Goto, Before
<1>8. CASE Gone
  <2> SUFFICES ASSUME Sound' PROVE Foreign'
    BY Zenon DEF Foreign
  <2>1. ProcessGone /\ marred' = marred \cup Damage /\ UNCHANGED <<reg, file>>
    BY <1>8, Zenon DEF Gone, Quit, Kill, Abort, disk
  <2>2. (ProxyAt(Ports)' <=> ProxyAt(Ports)) /\ (StaleTonProxy' <=> StaleTonProxy) /\ (FileForeign' <=> FileForeign)
    BY <2>1, Zenon DEF StaleTonProxy, ProxyAt, FileForeign
  <2>3. (\A t \in Threads : pc'[t] = "off") /\ ~prev'.captured
    BY <2>1, Zenon DEF ProcessGone, NotCaptured
  <2>4. Sound /\ "stray" \notin Damage
    BY <2>1, Zenon DEF Sound
  <2>5. ~ProxyAt(Ports \ FoundPorts)
    BY <2>4, Zenon DEF Damage
  <2>6. ProxyAt(Ports)' => StaleTonProxy'
    BY <2>2, <2>5, FoundOrStray, Zenon
  <2> QED
    BY <2>2, <2>3, <2>4, <2>6, Zenon DEF Foreign, Before
<1>9. CASE Queue
  BY <1>1, <1>9, Zenon DEF Queue, Deliver, ReceivePacket, disk
<1>10. CASE Exception
  <2>1. UNCHANGED <<reg, file, todo, prev, marred, port>>
    BY <1>10, Zenon DEF Exception, disk, session
  <2> QED
    BY <1>0, <1>10, <2>1, ForeignUndisturbed, Zenon DEF Foreign, Exception, Goto, Sound
<1>11. CASE Launch
  <2>1. UNCHANGED <<reg, file, todo, prev, marred, port>>
    BY <1>11, Zenon DEF Launch, session
  <2> QED
    BY <1>0, <1>11, <2>1, ForeignUndisturbed, Zenon DEF Foreign, Launch, Goto, Before, Sound
<1>12. CASE UserSets
  <2>1. reg \in [enable : BOOLEAN, server : Servers, override : Bypasses]
    BY Zenon DEF TypeInv, DiskInv
  <2>2. ~ProxyAt(Ports)'
    <3>1. PICK u \in UserProxies \cup {None} :
             reg' = IF u = None THEN [reg EXCEPT !.enable = FALSE]
                    ELSE [enable |-> TRUE, server |-> u, override |-> u]
      BY <1>12, Zenon DEF UserSets
    <3>2. u \notin Addresses
      BY ProxiesAssumption, Zenon DEF Addresses
    <3> QED
      BY <2>1, <3>1, <3>2, Zenon DEF ProxyAt, Addresses
  <2>3. UNCHANGED <<pc, prev, file>> /\ pc["main"] \in {"off", "idle"} /\ pc["filter"] = "off"
    BY <1>0, <1>12, Zenon DEF UserSets
  <2>4. FileForeign' <=> FileForeign
    BY <2>3, Zenon DEF FileForeign
  <2>5. Sound' => Sound
    BY <1>12, Zenon DEF UserSets, Sound
  <2> QED
    BY <2>2, <2>3, <2>4, <2>5, Zenon DEF Foreign, Before
<1>13. CASE Recover
  <2> SUFFICES ASSUME Sound' PROVE Foreign'
    BY Zenon DEF Foreign
  <2>1. /\ pc["main"] = "recover" /\ ~prev.captured
        /\ UNCHANGED <<reg, file, prev, status>> /\ Sound
    <3>1. pc["main"] = "recover" /\ UNCHANGED <<reg, file, prev, status>>
      BY <1>13, Zenon DEF Recover, disk
    <3> QED
      BY <1>13, <3>1, Marring, Zenon DEF Places, Sound
  <2>2. (ProxyAt(Ports)' <=> ProxyAt(Ports)) /\ (FileForeign' <=> FileForeign)
    BY <2>1, Zenon DEF ProxyAt, FileForeign
  <2>3. CASE ~StaleTonProxy
    <3>1. Goto("main", "created")
      BY <1>13, <2>3, Zenon DEF Recover
    <3> QED
      BY <1>0, <2>1, <2>2, <2>3, <3>1, Zenon DEF Foreign, Goto
  <2>4. CASE StaleTonProxy
    <3> DEFINE s == IF file = None THEN Chosen(None) ELSE file
    <3>1. /\ Goto("main", "recovering")
          /\ todo' = [todo EXCEPT !["main"] = SettingsWrites(s)]
      BY <1>13, <2>4, Zenon DEF Recover, Mar, Sound
    <3>2. s.proxy \notin Addresses
      BY <2>1, AddressesNotNone, Zenon DEF Foreign, FileForeign
    <3> HIDE DEF s
    <3>3. Clearing("main")'
      BY <1>0, <3>1, <3>2, ClearingBegins, Zenon
    <3> QED
      BY <1>0, <2>1, <2>2, <3>1, <3>3, Zenon DEF Foreign, Goto, Before
  <2> QED
    BY <2>3, <2>4, Zenon
<1>14. CASE Capture
  <2> SUFFICES ASSUME Sound' PROVE Foreign'
    BY Zenon DEF Foreign
  <2>1. /\ Sound /\ UNCHANGED <<reg, file, todo, status>> /\ pc["main"] = "capture"
        /\ \/ prev.captured /\ Goto("main", "apply") /\ UNCHANGED prev
           \/ /\ ~prev.captured /\ Goto("main", "save")
              /\ prev' = [captured |-> TRUE, state |-> Effective]
    <3>1. /\ UNCHANGED <<reg, file, todo, status>> /\ pc["main"] = "capture"
          /\ \/ prev.captured /\ Goto("main", "apply") /\ UNCHANGED prev
             \/ /\ ~prev.captured /\ Goto("main", "save")
                /\ prev' = [captured |-> TRUE, state |-> Effective]
             \/ marred' = marred \cup {"denied"}
      BY <1>14, Zenon DEF Capture, Mar, disk
    <3> QED
      BY <1>14, <3>1, Marring, Zenon DEF Sound
  <2>2. CASE prev.captured /\ Goto("main", "apply") /\ UNCHANGED prev
    BY <1>0, <2>1, <2>2, ForeignUndisturbed, Zenon DEF Foreign, Goto, Before
  <2>3. CASE ~prev.captured /\ Goto("main", "save") /\ prev' = [captured |-> TRUE, state |-> Effective]
    <3>1. ~ProxyAt(Ports)
      BY <2>1, <2>3, Zenon DEF Foreign
    <3>2. Effective.proxy \notin Addresses
      BY <3>1, AddressesNotNone, OursAddress, Zenon DEF Effective
    <3>3. prev'.captured /\ prev'.state.proxy \notin Addresses
      BY <2>3, <3>2, Zenon
    <3> QED
      BY <1>0, <2>1, <2>3, <3>1, <3>3, ForeignUndisturbed, Zenon DEF Foreign, Goto
  <2> QED
    BY <2>1, <2>2, <2>3, Zenon
<1>15. CASE Save
  <2> SUFFICES ASSUME Sound' PROVE Foreign'
    BY Zenon DEF Foreign
  <2>1. /\ Sound /\ UNCHANGED <<reg, todo, prev, status>>
        /\ \/ pc["main"] = "save" /\ file' = None /\ Goto("main", "saving")
           \/ pc["main"] = "saving" /\ file' = prev.state /\ Goto("main", "apply")
    <3>1. /\ UNCHANGED <<reg, todo, prev, status>>
          /\ \/ pc["main"] = "save" /\ file' = None /\ Goto("main", "saving")
             \/ pc["main"] = "saving" /\ file' = prev.state /\ Goto("main", "apply")
             \/ marred' = marred \cup {"denied"}
      BY <1>15, Zenon DEF Save, Saved, Mar
    <3> QED
      BY <1>15, <3>1, Marring, Zenon DEF Sound
  <2>2. prev.captured /\ prev.state.proxy \notin Addresses /\ (pc["filter"] = "off" => ~ProxyAt(Ports))
    BY <2>1, Zenon DEF Foreign, Before
  <2>3. FileForeign' /\ (ProxyAt(Ports)' <=> ProxyAt(Ports))
    BY <2>1, <2>2, Zenon DEF FileForeign, ProxyAt
  <2> QED
    BY <1>0, <2>1, <2>2, <2>3, Zenon DEF Foreign, Goto
<1>16. CASE ApplyBegin
  <2>1. /\ UNCHANGED <<reg, file, prev, marred, status>> /\ pc["main"] = "apply"
        /\ Goto("main", "applying") \/ Goto("main", "startBridge")
    BY <1>16, Zenon DEF ApplyBegin, disk
  <2>2. (ProxyAt(Ports)' <=> ProxyAt(Ports)) /\ (FileForeign' <=> FileForeign)
    BY <2>1, Zenon DEF ProxyAt, FileForeign
  <2> QED
    BY <1>0, <2>1, <2>2, Zenon DEF Foreign, Goto, Before, Sound
<1>17. ASSUME NEW t \in Threads, WriteNext(t) PROVE Foreign'
  <2> SUFFICES ASSUME Sound' PROVE Foreign'
    BY Zenon DEF Foreign
  <2>1. /\ Sound /\ UNCHANGED <<file, pc, prev, status>> /\ todo[t] # <<>>
    BY <1>17, Marring, Zenon DEF WriteNext, Sound
  <2>2. FileForeign' <=> FileForeign
    BY <2>1, Zenon DEF FileForeign
  <2>3. pc["filter"] = "off" \/ pc["main"] = "recovering" => t = "main"
    BY <1>0, <2>1, Zenon DEF Places
  <2>4. t = "main" => pc["main"] \in {"restoring", "recovering", "applying"}
    BY <2>1, Zenon DEF Places
  <2>5. prev.captured \/ pc["main"] = "recovering"
    BY <1>0, <2>1, <2>4, Zenon DEF Places, Foreign
  <2>6. Clearing(t) => Clearing(t)'
    BY <1>17, ClearingWrite, Zenon
  <2>7. pc["main"] \notin {"off", "recover"}
    BY <2>5, Zenon DEF Places
  <2> QED
    BY <1>0, <2>1, <2>2, <2>3, <2>4, <2>5, <2>6, <2>7, Zenon DEF Foreign, Before
<1>18. ASSUME NEW t \in Threads, DeleteFile(t) PROVE Foreign'
  <2> SUFFICES ASSUME Sound' PROVE Foreign'
    BY Zenon DEF Foreign
  <2>1. /\ Sound /\ UNCHANGED <<reg, todo, prev, status, port>> /\ file' = None
        /\ pc[t] \in {"recovering", "restoring"} /\ todo[t] = <<>>
    BY <1>18, Zenon DEF DeleteFile, Sound, session
  <2>2. Clearing(t) => ~ProxyAt(Ports)
    BY <2>1, SMTT(30) DEF Clearing
  <2>3. \/ t = "main" /\ pc["main"] = "recovering" /\ Goto("main", "created")
        \/ t = "main" /\ pc["main"] = "restoring" /\ Goto("main", "stopBridge")
        \/ t = "filter" /\ pc["filter"] = "restoring" /\ Goto("filter", "dump")
    <3>1. CASE t = "main"
      BY <1>18, <3>1, Zenon DEF DeleteFile
    <3>2. CASE t = "filter"
      BY <1>0, <1>18, <3>2, Zenon DEF DeleteFile
    <3> QED
      BY <3>1, <3>2, Zenon
  <2>4. /\ FileForeign' /\ (ProxyAt(Ports)' <=> ProxyAt(Ports)) /\ (\A u : Clearing(u)' <=> Clearing(u))
        /\ StaleTonProxy' <=> StaleTonProxy
    <3>1. UNCHANGED reg /\ UNCHANGED todo
      BY <2>1, Zenon
    <3>2. (ProxyAt(Ports)' <=> ProxyAt(Ports)) /\ (StaleTonProxy' <=> StaleTonProxy)
      BY <3>1, Zenon DEF ProxyAt, StaleTonProxy
    <3> QED
      BY <2>1, <3>1, <3>2, Zenon DEF FileForeign, Clearing
  <2>5. pc["main"] = "restoring" => prev.captured
    BY Zenon DEF Places
  <2> QED
    BY <1>0, <2>1, <2>2, <2>3, <2>4, <2>5, Zenon DEF Foreign, Goto
<1>19. ASSUME NEW t \in Threads, RestoreBegin(t) PROVE Foreign'
  <2> SUFFICES ASSUME Sound' PROVE Foreign'
    BY Zenon DEF Foreign
  <2> DEFINE done == IF t = "main" THEN "stopBridge" ELSE "dump"
  <2>1. /\ Sound /\ UNCHANGED <<reg, file, prev, status>> /\ pc[t] = "restore"
        /\ \/ ~prev.captured /\ Goto(t, done) /\ UNCHANGED todo
           \/ /\ prev.captured /\ Goto(t, "restoring")
              /\ todo' = [todo EXCEPT ![t] = SettingsWrites(prev.state)]
    <3>1. /\ UNCHANGED <<reg, file, prev, status>> /\ pc[t] = "restore"
          /\ \/ ~prev.captured /\ Goto(t, done) /\ UNCHANGED todo
             \/ /\ prev.captured /\ Goto(t, "restoring")
                /\ todo' = [todo EXCEPT ![t] = SettingsWrites(prev.state)]
             \/ marred' = marred \cup {"denied"}
      BY <1>19, Zenon DEF RestoreBegin, Mar, disk
    <3> QED
      BY <1>19, <3>1, Marring, Zenon DEF Sound
  <2>2. CASE ~prev.captured /\ Goto(t, done) /\ UNCHANGED todo
    BY <1>0, <2>1, <2>2, ForeignUndisturbed, Zenon DEF Foreign, Goto
  <2>3. CASE /\ prev.captured /\ Goto(t, "restoring")
             /\ todo' = [todo EXCEPT ![t] = SettingsWrites(prev.state)]
    <3>1. Clearing(t)'
      BY <1>0, <2>1, <2>3, ClearingBegins, Zenon DEF Foreign
    <3>2. (ProxyAt(Ports)' <=> ProxyAt(Ports)) /\ (FileForeign' <=> FileForeign)
      BY <2>1, Zenon DEF ProxyAt, FileForeign
    <3>3. pc' = [pc EXCEPT ![t] = "restoring"]
      BY <2>3, Zenon DEF Goto
    <3>4. pc["main"] \notin {"off", "recover", "recovering"}
      BY <2>3, Zenon DEF Places
    <3> QED
      BY <1>0, <2>1, <2>3, <3>1, <3>2, <3>3, <3>4, Zenon DEF Foreign, Before
  <2> QED
    BY <2>1, <2>2, <2>3, Zenon
<1>20. CASE UNCHANGED vars
  BY <1>1, <1>20, Zenon DEF vars, disk, session
<1> QED
  BY <1>3, <1>4, <1>5, <1>6, <1>7, <1>8, <1>9, <1>10, <1>11, <1>12, <1>13, <1>14,
     <1>15, <1>16, <1>17, <1>18, <1>19, <1>20, Steps, Zenon DEF Walk

\* Whenever the window thread is at rest, the system proxy is not an address of
\* this program at which nothing listens, whatever died before and wherever, for
\* any socks5_port: recoverStaleTonProxyIfNeeded, stopCore and the order of
\* startTunnel never leave the user without a connection, unless Windows refused
\* a call or a process died at a port that the recovery does not look for.
THEOREM ListenerBehindProxy == Spec => []ProxyHasListener
<1>1. Init => Listening /\ Foreign
  <2> SUFFICES ASSUME Init PROVE Listening /\ Foreign
    BY Zenon
  <2>1. pc = [t \in Threads |-> "off"] /\ ~prev.captured /\ file = None
    BY Zenon DEF Init, ProcessInit, NotCaptured
  <2>2. FileForeign
    BY <2>1, Zenon DEF FileForeign
  <2>3. ~ProxyAt(Ports)
    <3>1. PICK s \in UserProxies \cup {None} : reg = [enable |-> wish # None, server |-> s, override |-> s]
      BY Zenon DEF Init
    <3>2. s \notin Addresses
      BY ProxiesAssumption, Zenon DEF Addresses
    <3> QED
      BY <3>1, <3>2, Zenon DEF ProxyAt, Addresses
  <2> QED
    BY <2>1, <2>2, <2>3, TwoThreads, Zenon DEF Listening, Foreign, Before
<1>2. Listening /\ Foreign => ProxyHasListener
  <2> SUFFICES ASSUME Listening, Foreign, AtRest, Sound, NEW p \in Ports, Effective.proxy = Ton(p) PROVE socks = p
    BY Zenon DEF ProxyHasListener, Sound
  <2>1. reg.enable /\ reg.server = Ton(p)
    BY AddressesNotNone, Zenon DEF Effective, Addresses
  <2>2. ProxyAt(Ports)
    BY <2>1, Zenon DEF ProxyAt
  <2>3. status = "running" /\ OnPort /\ socks = port
    BY <2>2, Zenon DEF AtRest, Foreign, Listening
  <2>4. Ton(p) = Ton(port)
    BY <2>1, <2>3, Zenon DEF OnPort
  <2>5. p = port
    BY <2>4 DEF Ton
  <2> QED
    BY <2>3, <2>5, Zenon
<1> QED
  BY <1>1, <1>2, ListeningNext, ForeignNext, TypeInit, TypeNext, PlacesInit, PlacesNext,
     ApplicationInit, ApplicationNext, PTL DEF Spec
=============================================================================
