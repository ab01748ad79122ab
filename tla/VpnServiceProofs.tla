------------------------- MODULE VpnServiceProofs -------------------------
(***************************************************************************)
(* Theorems about VpnService, for any number of taps and deaths.           *)
(***************************************************************************)
EXTENDS VpnService, TLAPS

Places == {"idle", "servers", "socks", "tun", "last"}
Labels == Ended \cup SettingUp \cup {"queued", "delay", "fin1", "fin2", "fin3"}

\* The screen.
ScreenInv ==
    /\ ui \in BOOLEAN /\ fresh \in BOOLEAN /\ events \in 0..MaxEvents
    /\ commands \in Seq({"start", "stop"}) /\ casts \in Seq(BOOLEAN)

\* The service objects.
ServiceInv ==
    /\ object \in Nat /\ alive \in BOOLEAN /\ main \in Places /\ dying \in BOOLEAN
    /\ quits \subseteq Objects /\ hurried \subseteq Objects 
    /\ enabled \in [Objects -> BOOLEAN] /\ native \in [Objects -> BOOLEAN]
    /\ job \in [Objects -> Loops \cup {None}]
    /\ field \in [Objects -> [Fields -> Loops \cup {None}]]

\* The loops.
LoopInv ==
    /\ owner \in [Loops -> Objects \cup {None}] /\ pc \in [Loops -> Labels]
    /\ cancelled \subseteq Loops /\ noTun \subseteq Loops
    /\ forward \in [Loops -> {"none", "queued", "running", "ended"}]
    /\ up \subseteq Servers \X Loops

\* A loop has an owner once it is made, and an object refers to its own loops.
OwnInv ==
    /\ \A k \in Loops : owner[k] = None <=> pc[k] = "none"
    /\ \A k \in Loops : owner[k] # None => owner[k] <= object
    /\ \A o \in Objects, f \in Fields : field[o][f] # None => owner[field[o][f]] = o
    /\ \A p \in up : pc[p[2]] \notin {"none", "queued"}

\* The newest object has not handled a command yet.
Unused == alive /\ object \notin quits /\ main = "idle" /\ ~\E k \in Loops : owner[k] = object

\* Every object but an unused one has consumed a command of its own.
ObjectInv ==
    /\ alive => object > 0
    /\ main # "idle" => alive
    /\ object + Len(commands) <= events + IF Unused THEN 1 ELSE 0
    /\ Unused => commands # <<>>
    /\ \A o \in quits : o <= object

\* An object that is on has a loop, and its job is one of its loops.
StartInv ==
    /\ \A o \in Objects : job[o] # None => owner[job[o]] = o
    /\ \A o \in Objects : enabled[o] => \E k \in Loops : owner[k] = o

TypeInv == ScreenInv /\ ServiceInv /\ LoopInv /\ OwnInv /\ ObjectInv /\ StartInv

LEMMA NewestObject ==
    ASSUME ScreenInv, ServiceInv, ObjectInv
    PROVE  object \in 0..MaxEvents /\ (alive => object \in Objects)
<1>1. Len(commands) \in Nat /\ (commands # <<>> => Len(commands) > 0)
  BY DEF ScreenInv
<1>2. object <= events
  BY <1>1 DEF ScreenInv, ServiceInv, ObjectInv
<1> QED
  BY <1>2, EventsAssumption DEF ScreenInv, ServiceInv, ObjectInv, Objects

\* The steps, by who takes them.
LEMMA Steps ==
    Next <=> \/ Tap \/ ReceiveStats \/ Reopen \/ ProcessDies
             \/ CreateObject \/ StartAgain \/ StartCommand \/ StopCommand \/ OnDestroy
             \/ StopGateway \/ StopSocks \/ StopTun \/ StopEnds
             \/ \E k \in Loops : Loop(k)
             \/ \E k \in Loops : Forward(k)
BY Zenon DEF Next, Main

LEMMA TypeInit == Init => TypeInv
<1> SUFFICES ASSUME Init PROVE TypeInv
  BY Zenon
<1>1. ScreenInv
  <2>0. events = 0 /\ ui = FALSE /\ fresh = TRUE /\ commands = <<>> /\ casts = <<>>
    BY Zenon DEF Init
  <2>1. events \in 0..MaxEvents
    BY <2>0, EventsAssumption
  <2>2. <<>> \in Seq({"start", "stop"}) /\ <<>> \in Seq(BOOLEAN)
    OBVIOUS
  <2> QED
    BY <2>0, <2>1, <2>2, Zenon DEF ScreenInv
<1>2. ServiceInv
  BY Zenon DEF Init, ServiceInv, Places
<1>3. LoopInv
  BY Zenon DEF Init, LoopInv, Labels, Ended
<1>4. OwnInv
  BY Zenon DEF Init, OwnInv
<1>5. ObjectInv
  <2>1. ~Unused
    BY Zenon DEF Init, Unused
  <2> QED
    BY <2>1 DEF Init, ObjectInv
<1>6. StartInv
  BY Zenon DEF Init, StartInv
<1> QED
  BY <1>1, <1>2, <1>3, <1>4, <1>5, <1>6, Zenon DEF TypeInv

LEMMA ScreenNext == ASSUME TypeInv, Next PROVE ScreenInv'
<1>0. ScreenInv
  BY Zenon DEF TypeInv
<1>1. Tap => ScreenInv'
  BY <1>0, EventsAssumption DEF Tap, ScreenInv
<1>2. ReceiveStats => ScreenInv'
  <2> SUFFICES ASSUME ReceiveStats PROVE ScreenInv'
    BY Zenon
  <2>1. Head(casts) \in BOOLEAN /\ Tail(casts) \in Seq(BOOLEAN)
    BY <1>0 DEF ScreenInv, ReceiveStats
  <2> QED
    BY <1>0, <2>1, Zenon DEF ScreenInv, ReceiveStats
<1>r. Reopen \/ ProcessDies => ScreenInv'
  <2>1. <<>> \in Seq(BOOLEAN) /\ <<"start">> \in Seq({"start", "stop"})
    OBVIOUS
  <2>2. events < MaxEvents => events + 1 \in 0..MaxEvents
    BY <1>0, EventsAssumption DEF ScreenInv
  <2> QED
    BY <1>0, <2>1, <2>2, Zenon DEF ScreenInv, Reopen, ProcessDies, NewScreen
<1>3. ASSUME NEW b \in BOOLEAN, EmitStats(b) PROVE casts' \in Seq(BOOLEAN)
  BY <1>0, <1>3 DEF EmitStats, ScreenInv
<1>4. StartAgain \/ StartCommand \/ StopCommand => Tail(commands) \in Seq({"start", "stop"})
  <2>1. commands # <<>> => Tail(commands) \in Seq({"start", "stop"})
    BY <1>0 DEF ScreenInv
  <2> QED
    BY <2>1, Zenon DEF StartAgain, StartCommand, StopCommand
<1>5. StartAgain \/ StartCommand => ScreenInv'
  BY <1>0, <1>3, <1>4, Zenon DEF ScreenInv, StartAgain, StartCommand
<1>6. StopCommand => ScreenInv'
  BY <1>0, <1>4, Zenon DEF ScreenInv, StopCommand
<1>7. StopEnds => ScreenInv'
  BY <1>0, <1>3, Zenon DEF ScreenInv, StopEnds
<1>8. UNCHANGED screen => ScreenInv'
  BY <1>0, Zenon DEF ScreenInv, screen
<1>9. CreateObject \/ OnDestroy \/ StopGateway \/ StopSocks \/ StopTun => UNCHANGED screen
  BY Zenon DEF CreateObject, OnDestroy, StopGateway, StopSocks, StopTun
<1>10. ASSUME NEW k \in Loops, Loop(k) \/ Forward(k) PROVE UNCHANGED screen
  BY <1>10, Zenon DEF Loop, Forward, LoopBegins, InitNative, EstablishTunInterface, StartGateway, StartSocks, Probe,
     LaunchForward, DelayEnds, FinallyGateway, FinallySocks, FinallyForward
<1> QED
  BY <1>1, <1>2, <1>r, <1>5, <1>6, <1>7, <1>8, <1>9, <1>10, Steps, Zenon

\* The variables of the service that a step leaves alone.
LEMMA ServiceNext == ASSUME TypeInv, Next PROVE ServiceInv'
<1>0. ScreenInv /\ ServiceInv /\ LoopInv /\ OwnInv /\ ObjectInv /\ StartInv
  BY Zenon DEF TypeInv
<1>a. alive => object \in Objects
  BY <1>0, NewestObject, Zenon
<1>b. main # "idle" => alive
  BY <1>0, Zenon DEF ObjectInv
<1>1. UNCHANGED <<service, hurried>> => ServiceInv'
  BY <1>0, Zenon DEF ServiceInv, service
<1>2. Tap \/ ReceiveStats \/ Reopen \/ StartAgain => ServiceInv'
  BY <1>1, Zenon DEF Tap, ReceiveStats, Reopen, StartAgain
<1>d. ProcessDies => ServiceInv'
  <2>1. /\ [o \in Objects |-> FALSE] \in [Objects -> BOOLEAN]
        /\ [o \in Objects |-> None] \in [Objects -> Loops \cup {None}]
        /\ [o \in Objects |-> [f \in Fields |-> None]] \in [Objects -> [Fields -> Loops \cup {None}]]
    BY Zenon
  <2> QED
    BY <1>0, <2>1 DEF ProcessDies, ServiceInv, Places
<1>3. CreateObject => ServiceInv'
  BY <1>0 DEF CreateObject, ServiceInv
<1>4. StartCommand => ServiceInv'
  BY <1>0, <1>a DEF StartCommand, ServiceInv
<1>5. StopBegins /\ alive => /\ job' \in [Objects -> Loops \cup {None}]
                             /\ field' \in [Objects -> [Fields -> Loops \cup {None}]]
                             /\ hurried' \subseteq Objects /\ main' \in Places
  BY <1>0, <1>a DEF StopBegins, CancelForward, ServiceInv, Places, Fields
<1>6. StopCommand \/ OnDestroy => ServiceInv'
  BY <1>0, <1>5, Zenon DEF StopCommand, OnDestroy, ServiceInv
<1>7. ASSUME NEW o \in Objects, NEW f \in Fields, Release(o, f)
      PROVE  field' \in [Objects -> [Fields -> Loops \cup {None}]]
  BY <1>0, <1>7, Zenon DEF Release, ServiceInv
<1>8. StopGateway \/ StopSocks \/ StopTun => ServiceInv'
  BY <1>0, <1>a, <1>b, <1>7, Zenon DEF StopGateway, StopSocks, StopTun, ServiceInv, Places, Fields
<1>9. StopEnds => ServiceInv'
  BY <1>0, <1>a, <1>b, Zenon DEF StopEnds, StopSelf, ServiceInv, Places
<1>10. ASSUME NEW k \in Loops, Loop(k) PROVE ServiceInv'
  <2>1. pc[k] # "none" => owner[k] \in Objects
    BY <1>0 DEF OwnInv, LoopInv
  <2>2. LoopBegins(k) \/ DelayEnds(k) => ServiceInv'
    BY <1>1, Zenon DEF LoopBegins, DelayEnds
  <2>3. InitNative(k) \/ Probe(k) => ServiceInv'
    BY <1>0, <2>1, Zenon DEF InitNative, Probe, Fail, StopSelf, ServiceInv
  <2>4. EstablishTunInterface(k) => ServiceInv'
    BY <1>0, <2>1 DEF EstablishTunInterface, ServiceInv, Fields
  <2>5. StartGateway(k) => ServiceInv'
    BY <1>0, <2>1 DEF StartGateway, ServiceInv, Fields
  <2>6. StartSocks(k) => ServiceInv'
    BY <1>0, <2>1 DEF StartSocks, Fail, StopSelf, ServiceInv, Fields
  <2>7. LaunchForward(k) => ServiceInv'
    BY <1>0, <2>1 DEF LaunchForward, ServiceInv, Fields
  <2>8. FinallyGateway(k) \/ FinallySocks(k) => ServiceInv'
    BY <1>0, <2>1, <1>7, Zenon DEF FinallyGateway, FinallySocks, ServiceInv, Fields
  <2>9. FinallyForward(k) => ServiceInv'
    BY <1>0, <2>1 DEF FinallyForward, CancelForward, ServiceInv, Fields
  <2> QED
    BY <1>10, <2>2, <2>3, <2>4, <2>5, <2>6, <2>7, <2>8, <2>9, Zenon DEF Loop
<1>11. ASSUME NEW k \in Loops, Forward(k) PROVE ServiceInv'
  BY <1>1, <1>11, Zenon DEF Forward
<1> QED
  BY <1>2, <1>d, <1>3, <1>4, <1>6, <1>8, <1>9, <1>10, <1>11, Steps, Zenon

LEMMA LoopNext == ASSUME TypeInv, Next PROVE LoopInv'
<1>0. ScreenInv /\ ServiceInv /\ LoopInv /\ OwnInv /\ ObjectInv /\ StartInv
  BY Zenon DEF TypeInv
<1>a. alive => object \in Objects
  BY <1>0, NewestObject, Zenon
<1>1. UNCHANGED loops => LoopInv'
  BY <1>0, Zenon DEF LoopInv, loops
<1>2. Tap \/ ReceiveStats \/ Reopen \/ CreateObject \/ StartAgain => LoopInv'
  BY <1>1, Zenon DEF Tap, ReceiveStats, Reopen, CreateObject, StartAgain
<1>d. ProcessDies => LoopInv'
  BY <1>0, Zenon DEF ProcessDies, LoopInv, Labels, Ended
<1>3. ASSUME NEW k \in Loops, NEW l \in Labels, Goto(k, l) PROVE pc' \in [Loops -> Labels]
  BY <1>0, <1>3, Zenon DEF Goto, LoopInv
<1>4. StartCommand => LoopInv'
  <2> SUFFICES ASSUME StartCommand PROVE LoopInv'
    BY Zenon
  <2>1. CASE JobActive
    BY <1>0, <2>1, Zenon DEF StartCommand, LoopInv
  <2>2. CASE ~JobActive
    <3>1. PICK k \in Loops : owner' = [owner EXCEPT ![k] = object] /\ Goto(k, "queued")
      BY <2>2, Zenon DEF StartCommand
    <3>2. pc' \in [Loops -> Labels]
      BY <3>1, <1>3, Zenon DEF Labels
    <3>3. owner' \in [Loops -> Objects \cup {None}]
      BY <3>1, <1>0, <1>a, Zenon DEF StartCommand, LoopInv
    <3> QED
      BY <3>2, <3>3, <1>0, Zenon DEF StartCommand, LoopInv
  <2> QED
    BY <2>1, <2>2, Zenon
<1>5. Terminate => forward' \in [Loops -> {"none", "queued", "running", "ended"}]
  BY <1>0, Zenon DEF Terminate, LoopInv
<1>6. ASSUME NEW o \in Objects, CancelForward(o)
      PROVE forward' \in [Loops -> {"none", "queued", "running", "ended"}]
  BY <1>0, <1>6, Zenon DEF CancelForward, LoopInv
<1>7. StopCommand \/ OnDestroy => LoopInv'
  <2> SUFFICES ASSUME StopCommand \/ OnDestroy PROVE LoopInv'
    BY Zenon
  <2>1. alive /\ StopBegins
    BY Zenon DEF StopCommand, OnDestroy
  <2>2. cancelled' \subseteq Loops
    BY <2>1, <1>a, <1>0, Zenon DEF StopBegins, LoopInv, ServiceInv
  <2>3. forward' \in [Loops -> {"none", "queued", "running", "ended"}]
    BY <2>1, <1>a, <1>6, Zenon DEF StopBegins
  <2> QED
    BY <2>2, <2>3, <1>0, Zenon DEF StopCommand, OnDestroy, LoopInv
<1>8. ASSUME NEW o, NEW f, Release(o, f) PROVE up' \subseteq Servers \X Loops
  BY <1>0, <1>8, Zenon DEF Release, LoopInv
<1>9. StopGateway \/ StopSocks \/ StopTun => LoopInv'
  BY <1>0, <1>5, <1>8, Zenon DEF StopGateway, StopSocks, StopTun, LoopInv
<1>10. StopEnds => LoopInv'
  BY <1>0, Zenon DEF StopEnds, LoopInv
<1>11. ASSUME NEW k \in Loops, Loop(k) PROVE LoopInv'
  <2>1. pc[k] # "none" => owner[k] \in Objects
    BY <1>0 DEF OwnInv, LoopInv
  <2>2. LoopBegins(k) \/ DelayEnds(k) \/ InitNative(k) \/ Probe(k) => LoopInv'
    <3>1. LoopBegins(k) \/ DelayEnds(k) \/ InitNative(k) \/ Probe(k) => pc' \in [Loops -> Labels]
      BY <1>3, Zenon DEF LoopBegins, DelayEnds, InitNative, Probe, Fail, Labels, Ended, SettingUp
    <3> QED
      BY <1>0, <3>1, Zenon DEF LoopBegins, DelayEnds, InitNative, Probe, LoopInv
  <2>3. EstablishTunInterface(k) => LoopInv'
    BY <1>0, <1>3 DEF EstablishTunInterface, LoopInv, Servers, Labels, Ended, SettingUp
  <2>4. StartGateway(k) => LoopInv'
    BY <1>0, <1>3 DEF StartGateway, LoopInv, Servers, Labels, Ended, SettingUp
  <2>5. StartSocks(k) => LoopInv'
    BY <1>0, <1>3 DEF StartSocks, Fail, LoopInv, Servers, Labels, Ended, SettingUp
  <2>6. LaunchForward(k) => LoopInv'
    BY <1>0, <1>3, Zenon DEF LaunchForward, LoopInv, Labels
  <2>7. FinallyGateway(k) \/ FinallySocks(k) => LoopInv'
    BY <1>0, <1>3, <1>5, <1>8, Zenon DEF FinallyGateway, FinallySocks, LoopInv, Labels
  <2>8. FinallyForward(k) => LoopInv'
    BY <1>0, <1>3, <1>6, <2>1, Zenon DEF FinallyForward, LoopInv, Labels, Ended
  <2> QED
    BY <1>11, <2>2, <2>3, <2>4, <2>5, <2>6, <2>7, <2>8, Zenon DEF Loop
<1>12. ASSUME NEW k \in Loops, Forward(k) PROVE LoopInv'
  BY <1>0, <1>12, Zenon DEF Forward, LoopInv
<1> QED
  BY <1>2, <1>d, <1>4, <1>7, <1>9, <1>10, <1>11, <1>12, Steps, Zenon

\* Only StartCommand gives a loop an owner; no step makes a loop "none".
LEMMA OwnNext == ASSUME TypeInv, Next PROVE OwnInv'
<1>0. ScreenInv /\ ServiceInv /\ LoopInv /\ OwnInv /\ ObjectInv /\ StartInv
  BY Zenon DEF TypeInv
<1>a. alive => object \in Objects
  BY <1>0, NewestObject, Zenon
<1>b. main # "idle" => alive
  BY <1>0, Zenon DEF ObjectInv
<1>p. \A p \in up : p[1] \in Servers /\ p[2] \in Loops
  BY <1>0, Zenon DEF LoopInv
<1>1. UNCHANGED <<field, owner, pc, up, object>> => OwnInv'
  BY <1>0 DEF OwnInv
<1>2. Tap \/ ReceiveStats \/ Reopen \/ StartAgain \/ StopEnds => OwnInv'
  BY <1>1, Zenon DEF Tap, ReceiveStats, Reopen, StartAgain, StopEnds, service, loops
<1>d. ProcessDies => OwnInv'
  <2> SUFFICES ASSUME ProcessDies PROVE OwnInv'
    BY Zenon
  <2>1. /\ UNCHANGED <<owner, object>> /\ up' = {}
        /\ \A o \in Objects, f \in Fields : field'[o][f] = None
        /\ \A k \in Loops : pc'[k] = "none" <=> pc[k] = "none"
    BY Zenon DEF ProcessDies
  <2> QED
    BY <1>0, <2>1, Zenon DEF OwnInv
<1>3. CreateObject => OwnInv'
  <2> SUFFICES ASSUME CreateObject PROVE OwnInv'
    BY Zenon
  <2>1. UNCHANGED <<field, owner, pc, up>> /\ object' = object + 1
    BY Zenon DEF CreateObject, loops
  <2>2. \A k \in Loops : owner[k] # None => owner[k] \in Nat /\ owner[k] <= object + 1
    BY <1>0 DEF OwnInv, LoopInv, ServiceInv, Objects
  <2> QED
    BY <2>1, <2>2, <1>0, Zenon DEF OwnInv
<1>4. StartCommand => OwnInv'
  <2> SUFFICES ASSUME StartCommand PROVE OwnInv'
    BY Zenon
  <2>1. CASE JobActive
    BY <1>1, <2>1, Zenon DEF StartCommand
  <2>2. CASE ~JobActive
    <3>1. PICK k \in Loops : owner[k] = None /\ owner' = [owner EXCEPT ![k] = object] /\ Goto(k, "queued")
      BY <2>2, Zenon DEF StartCommand
    <3>2. UNCHANGED <<field, up, object>> /\ object \in Objects /\ object # None
      BY <1>a, NoneAssumption DEF StartCommand, Objects
    <3>3. /\ owner'[k] = object /\ pc'[k] = "queued"
          /\ \A j \in Loops : j # k => owner'[j] = owner[j] /\ pc'[j] = pc[j]
      BY <3>1, <1>0, Zenon DEF Goto, LoopInv
    <3>4. \A o \in Objects, f \in Fields : field[o][f] # None => field[o][f] \in Loops /\ field[o][f] # k
      BY <3>1, <1>0, NoneAssumption DEF OwnInv, ServiceInv, Objects
    <3>5. \A p \in up : p[2] # k
      BY <3>1, <1>0, Zenon DEF OwnInv
    <3>6. object <= object
      BY <1>0 DEF ServiceInv
    <3>7. \A j \in Loops : owner'[j] = None <=> pc'[j] = "none"
      BY <3>3, <3>2, <1>0, Zenon DEF OwnInv
    <3>8. \A j \in Loops : owner'[j] # None => owner'[j] <= object'
      BY <3>3, <3>2, <3>6, <1>0, Zenon DEF OwnInv
    <3>9. \A o \in Objects, f \in Fields : field'[o][f] # None => owner'[field'[o][f]] = o
      BY <3>3, <3>2, <3>4, <1>0, Zenon DEF OwnInv
    <3>10. \A p \in up' : pc'[p[2]] \notin {"none", "queued"}
      BY <3>3, <3>2, <3>5, <1>p, <1>0, Zenon DEF OwnInv
    <3> QED
      BY <3>7, <3>8, <3>9, <3>10, Zenon DEF OwnInv
  <2> QED
    BY <2>1, <2>2, Zenon
\* Clearing a field and taking something down.
<1>5. ASSUME NEW o \in Objects, NEW f \in Fields, field' = [field EXCEPT ![o][f] = None]
      PROVE  \A a \in Objects, g \in Fields : field'[a][g] \in {None, field[a][g]}
  BY <1>5, <1>0, Zenon DEF ServiceInv
<1>6. ASSUME \A a \in Objects, g \in Fields : field'[a][g] \in {None, field[a][g]},
             UNCHANGED <<owner, object>>, up' \subseteq up,
             \A j \in Loops : pc'[j] = pc[j] \/ (pc[j] # "none" /\ pc'[j] \notin {"none", "queued"})
      PROVE  OwnInv'
  <2>1. \A j \in Loops : owner'[j] = None <=> pc'[j] = "none"
    BY <1>6, <1>0, Zenon DEF OwnInv
  <2>2. \A j \in Loops : owner'[j] # None => owner'[j] <= object'
    BY <1>6, <1>0, Zenon DEF OwnInv
  <2>3. \A a \in Objects, g \in Fields : field'[a][g] # None => owner'[field'[a][g]] = a
    BY <1>6, <1>0 DEF OwnInv
  <2>4. \A p \in up' : pc'[p[2]] \notin {"none", "queued"}
    BY <1>6, <1>p, <1>0, Zenon DEF OwnInv
  <2> QED
    BY <2>1, <2>2, <2>3, <2>4, Zenon DEF OwnInv
<1>7. StopCommand \/ OnDestroy => OwnInv'
  BY <1>5, <1>6, <1>a, Zenon DEF StopCommand, OnDestroy, StopBegins, CancelForward, Fields
<1>8. StopGateway \/ StopSocks \/ StopTun => OwnInv'
  BY <1>5, <1>6, <1>a, <1>b, Zenon DEF StopGateway, StopSocks, StopTun, Release, Fields
<1>9. ASSUME NEW k \in Loops, Loop(k) PROVE OwnInv'
  <2>1. pc[k] # "none" => owner[k] \in Objects
    BY <1>0 DEF OwnInv, LoopInv
  <2>m. ASSUME NEW l, Goto(k, l), pc[k] # "none", l \notin {"none", "queued"}
        PROVE  \A j \in Loops : pc'[j] = pc[j] \/ (pc[j] # "none" /\ pc'[j] \notin {"none", "queued"})
    BY <2>m, <1>0, Zenon DEF Goto, LoopInv
  <2>f. UNCHANGED field => \A a \in Objects, g \in Fields : field'[a][g] \in {None, field[a][g]}
    BY Zenon
  <2>2. LoopBegins(k) \/ DelayEnds(k) \/ InitNative(k) \/ Probe(k) => OwnInv'
    <3> SUFFICES ASSUME LoopBegins(k) \/ DelayEnds(k) \/ InitNative(k) \/ Probe(k) PROVE OwnInv'
      BY Zenon
    <3>1. UNCHANGED <<field, owner, object, up>>
      BY Zenon DEF LoopBegins, DelayEnds, InitNative, Probe, service
    <3>2. pc[k] # "none" /\ \E l : Goto(k, l) /\ l \notin {"none", "queued"}
      BY DEF LoopBegins, DelayEnds, InitNative, Probe, Fail
    <3> QED
      BY <3>1, <3>2, <2>m, <2>f, <1>6, Zenon
  \* The loop sets a field of its owner to what it made.
  <2>3. ASSUME NEW f \in Fields, NEW l, pc[k] \notin {"none", "queued"}, Goto(k, l), l \notin {"none", "queued"},
               field' = [field EXCEPT ![owner[k]][f] = k],
               \A p \in up' : p \in up \/ p[2] = k,
               UNCHANGED <<owner, object>>
        PROVE  OwnInv'
    <3>1. \A j \in Loops : pc'[j] = pc[j] \/ (pc[j] # "none" /\ pc'[j] \notin {"none", "queued"})
      BY <2>m, <2>3, Zenon
    <3>2. pc'[k] = l
      BY <2>3, <1>0, Zenon DEF Goto, LoopInv
    <3>3. \A a \in Objects, g \in Fields : field'[a][g] = field[a][g] \/ (a = owner[k] /\ field'[a][g] = k)
      BY <2>1, <2>3, <1>0, Zenon DEF ServiceInv
    <3>4. \A j \in Loops : owner'[j] = None <=> pc'[j] = "none"
      BY <3>1, <2>3, <1>0, Zenon DEF OwnInv
    <3>5. \A j \in Loops : owner'[j] # None => owner'[j] <= object'
      BY <2>3, <1>0, Zenon DEF OwnInv
    <3>6. \A a \in Objects, g \in Fields : field'[a][g] # None => owner'[field'[a][g]] = a
      BY <3>3, <2>3, <1>0 DEF OwnInv
    <3>7. \A p \in up' : pc'[p[2]] \notin {"none", "queued"}
      BY <3>1, <3>2, <2>3, <1>p, <1>0, Zenon DEF OwnInv
    <3> QED
      BY <3>4, <3>5, <3>6, <3>7, Zenon DEF OwnInv
  <2>4. EstablishTunInterface(k) => OwnInv'
    BY <2>3, <2>m, <2>f, <1>6 DEF EstablishTunInterface, Fields
  <2>5. StartGateway(k) => OwnInv'
    BY <2>3, <1>1 DEF StartGateway, Fields
  <2>6. StartSocks(k) => OwnInv'
    BY <2>3, <2>m, <2>f, <1>6 DEF StartSocks, Fail, Fields
  <2>7. LaunchForward(k) => OwnInv'
    BY <2>3, Zenon DEF LaunchForward, Fields
  <2>8. FinallyGateway(k) \/ FinallySocks(k) => OwnInv'
    BY <1>5, <1>6, <2>1, <2>m, Zenon DEF FinallyGateway, FinallySocks, Release, Fields
  <2>9. FinallyForward(k) => OwnInv'
    BY <1>5, <1>6, <2>1, <2>m, Zenon DEF FinallyForward, CancelForward, Fields
  <2> QED
    BY <1>9, <2>2, <2>4, <2>5, <2>6, <2>7, <2>8, <2>9, Zenon DEF Loop
<1>10. ASSUME NEW k \in Loops, Forward(k) PROVE OwnInv'
  BY <1>1, <1>10, Zenon DEF Forward, service
<1> QED
  BY <1>2, <1>d, <1>3, <1>4, <1>7, <1>8, <1>9, <1>10, Steps, Zenon

LEMMA ObjectNext == ASSUME TypeInv, Next PROVE ObjectInv'
<1>0. ScreenInv /\ ServiceInv /\ LoopInv /\ OwnInv /\ ObjectInv /\ StartInv
  BY Zenon DEF TypeInv
<1>a. alive => object \in Objects /\ object \in Nat
  BY <1>0, NewestObject, Zenon DEF ServiceInv
<1>b. main # "idle" => alive
  BY <1>0, Zenon DEF ObjectInv
<1>c. Len(commands) \in Nat /\ events \in Nat /\ object \in Nat
  BY <1>0 DEF ScreenInv, ServiceInv
<1>d. object + Len(commands) <= events + 1 /\ (~Unused => object + Len(commands) <= events)
  BY <1>0, <1>c DEF ObjectInv
<1>e. commands # <<>> => Len(Tail(commands)) = Len(commands) - 1
  BY <1>0 DEF ScreenInv
<1>1. Tap => ObjectInv'
  <2> SUFFICES ASSUME Tap PROVE ObjectInv'
    BY Zenon
  <2>1. UNCHANGED <<object, alive, main, quits, owner>> /\ events' = events + 1
    BY Zenon DEF Tap, service, loops
  <2>2. Len(commands') = Len(commands) + 1 /\ commands' # <<>>
    BY <1>0 DEF Tap, ScreenInv
  <2>3. Unused' <=> Unused
    BY <2>1, Zenon DEF Unused
  <2> QED
    BY <2>1, <2>2, <2>3, <1>0, <1>c DEF ObjectInv
<1>2. UNCHANGED <<object, alive, main, quits, owner, commands, events>> => ObjectInv'
  <2> SUFFICES ASSUME UNCHANGED <<object, alive, main, quits, owner, commands, events>> PROVE ObjectInv'
    BY Zenon
  <2>1. Unused' <=> Unused
    BY Zenon DEF Unused
  <2> QED
    BY <2>1, <1>0, Zenon DEF ObjectInv
<1>3. ReceiveStats \/ Reopen => ObjectInv'
  BY <1>2, Zenon DEF ReceiveStats, Reopen, service, loops
\* A death counts for the object that is made after it.
<1>k. ProcessDies => ObjectInv'
  <2> SUFFICES ASSUME ProcessDies PROVE ObjectInv'
    BY Zenon
  <2>1. UNCHANGED <<object, quits>> /\ ~alive' /\ main' = "idle" /\ events' = events + 1 /\ alive
    BY Zenon DEF ProcessDies
  <2>2. ~Unused'
    BY <2>1, Zenon DEF Unused
  <2>3. object + Len(commands') <= events + 1
    <3>1. CASE UNCHANGED commands
      BY <3>1, <1>d
    <3>2. CASE commands = <<>> /\ Sticky /\ commands' = <<"start">>
      <4>1. ~Unused
        BY <3>2, <1>0, Zenon DEF ObjectInv
      <4> QED
        BY <3>2, <4>1, <1>c, <1>d
    <3> QED
      BY <3>1, <3>2, Zenon DEF ProcessDies
  <2> QED
    BY <2>1, <2>2, <2>3, <1>0, <1>c DEF ObjectInv
<1>4. CreateObject => ObjectInv'
  <2> SUFFICES ASSUME CreateObject PROVE ObjectInv'
    BY Zenon
  <2>1. /\ UNCHANGED <<main, quits, owner, commands, events>> /\ object' = object + 1 /\ alive'
        /\ main = "idle" /\ commands # <<>> /\ ~alive
    BY Zenon DEF CreateObject, screen, loops
  <2>2. ~Unused
    BY <2>1, Zenon DEF Unused
  <2>3. \A k \in Loops : owner[k] # object + 1
    BY <1>0, <1>c, NoneAssumption DEF OwnInv, LoopInv, Objects
  <2>4. \A o \in quits : o <= object /\ o # object + 1
    BY <1>0, <1>c DEF ObjectInv, ServiceInv, Objects
  <2>5. Unused'
    BY <2>1, <2>3, <2>4, Zenon DEF Unused
  <2>6. \A o \in quits : o <= object + 1
    BY <2>4, <1>0, <1>c DEF ServiceInv, Objects
  <2> QED
    BY <2>1, <2>2, <2>5, <2>6, <1>c, <1>d DEF ObjectInv
\* A handled command leaves the object no longer unused, or finds it so.
<1>5. ASSUME commands # <<>>, commands' = Tail(commands), UNCHANGED <<events, object, alive, quits>>,
             ~Unused', main' # "idle" => alive
      PROVE  ObjectInv'
  <2>1. object + Len(commands') <= events
    BY <1>5, <1>c, <1>d, <1>e
  <2> QED
    BY <1>5, <2>1, <1>0, <1>c DEF ObjectInv
<1>6. StartAgain => ObjectInv'
  <2> SUFFICES ASSUME StartAgain PROVE ObjectInv'
    BY Zenon
  <2>1. /\ commands # <<>> /\ commands' = Tail(commands) /\ UNCHANGED <<events, object, alive, quits, main, owner>>
        /\ enabled[object] /\ alive
    BY Zenon DEF StartAgain, service, loops
  <2>2. ~Unused'
    BY <2>1, <1>a, <1>0, Zenon DEF Unused, StartInv
  <2> QED
    BY <2>1, <2>2, <1>b, <1>5, Zenon
<1>7. StartCommand => ObjectInv'
  <2> SUFFICES ASSUME StartCommand PROVE ObjectInv'
    BY Zenon
  <2>1. commands # <<>> /\ commands' = Tail(commands) /\ UNCHANGED <<events, object, alive, quits, main>> /\ alive
    BY Zenon DEF StartCommand
  <2>2. \E k \in Loops : owner'[k] = object
    <3>1. CASE JobActive
      BY <3>1, <2>1, <1>a, <1>0, Zenon DEF StartCommand, JobActive, StartInv, ServiceInv
    <3>2. CASE ~JobActive
      BY <3>2, <1>0, Zenon DEF StartCommand, LoopInv
    <3> QED
      BY <3>1, <3>2, Zenon
  <2>3. ~Unused'
    BY <2>1, <2>2, Zenon DEF Unused
  <2> QED
    BY <2>1, <2>3, <1>b, <1>5, Zenon
<1>8. StopCommand => ObjectInv'
  BY <1>5, Zenon DEF StopCommand, StopBegins, Unused
<1>9. ASSUME UNCHANGED <<commands, events, object, owner>>, alive' => alive, main' # "idle" => alive',
             \A o \in quits' : o <= object,
             ~Unused' /\ Unused => commands # <<>>,
             Unused' => Unused,
             Unused /\ ~Unused' => object + Len(commands) <= events
      PROVE  ObjectInv'
  BY <1>9, <1>0, <1>c DEF ObjectInv
<1>10. OnDestroy => ObjectInv'
  <2> SUFFICES ASSUME OnDestroy PROVE ObjectInv'
    BY Zenon
  <2>1. UNCHANGED <<commands, events, object, owner, quits, alive>> /\ alive /\ main' = "servers" /\ object \in quits
    BY Zenon DEF OnDestroy, StopBegins, screen
  <2>2. ~Unused /\ ~Unused'
    BY <2>1, Zenon DEF Unused
  <2> QED
    BY <2>1, <2>2, <1>0, <1>9, Zenon DEF ObjectInv
<1>11. StopGateway \/ StopSocks \/ StopTun => ObjectInv'
  <2> SUFFICES ASSUME StopGateway \/ StopSocks \/ StopTun PROVE ObjectInv'
    BY Zenon
  <2>1. UNCHANGED <<commands, events, object, owner, quits, alive>> /\ main # "idle" /\ main' # "idle"
    BY Zenon DEF StopGateway, StopSocks, StopTun, screen
  <2>2. ~Unused /\ ~Unused'
    BY <2>1, Zenon DEF Unused
  <2> QED
    BY <2>1, <2>2, <1>0, <1>b, <1>9, Zenon DEF ObjectInv
<1>12. StopEnds => ObjectInv'
  <2> SUFFICES ASSUME StopEnds PROVE ObjectInv'
    BY Zenon
  <2>1. /\ UNCHANGED <<commands, events, object, owner>> /\ main # "idle" /\ main' = "idle"
        /\ quits' = quits \cup {object}
    BY Zenon DEF StopEnds, StopSelf
  <2>2. ~Unused /\ ~Unused' /\ alive /\ object <= object
    BY <2>1, <1>b, <1>c DEF Unused
  <2> QED
    BY <2>1, <2>2, <1>0, <1>9, Zenon DEF ObjectInv
<1>13. ASSUME NEW k \in Loops, Loop(k) PROVE ObjectInv'
  <2>1. UNCHANGED <<commands, events, object, owner, alive, main>>
    BY <1>13, Zenon DEF Loop, screen, service, LoopBegins, InitNative, EstablishTunInterface, StartGateway, StartSocks,
       Probe, LaunchForward, DelayEnds, FinallyGateway, FinallySocks, FinallyForward
  <2>2. pc[k] # "none" /\ (quits' = quits \/ quits' = quits \cup {owner[k]})
    BY <1>13, Zenon DEF Loop, service, Fail, StopSelf, LoopBegins, InitNative, EstablishTunInterface, StartGateway, StartSocks,
       Probe, LaunchForward, DelayEnds, FinallyGateway, FinallySocks, FinallyForward
  <2>3. owner[k] # None /\ owner[k] <= object
    BY <2>2, <1>0, Zenon DEF OwnInv
  <2>4. \A o \in quits' : o <= object
    BY <2>2, <2>3, <1>0, Zenon DEF ObjectInv
  <2>5. Unused' <=> Unused
    BY <2>1, <2>2, Zenon DEF Unused
  <2> QED
    BY <2>1, <2>4, <2>5, <1>0, <1>9, Zenon DEF ObjectInv
<1>14. ASSUME NEW k \in Loops, Forward(k) PROVE ObjectInv'
  BY <1>2, <1>14, Zenon DEF Forward, screen, service
<1> QED
  BY <1>1, <1>3, <1>k, <1>4, <1>6, <1>7, <1>8, <1>10, <1>11, <1>12, <1>13, <1>14, Steps, Zenon

LEMMA StartNext == ASSUME TypeInv, Next PROVE StartInv'
<1>0. ScreenInv /\ ServiceInv /\ LoopInv /\ OwnInv /\ ObjectInv /\ StartInv
  BY Zenon DEF TypeInv
<1>a. alive => object \in Objects
  BY <1>0, NewestObject, Zenon
<1>b. main # "idle" => alive
  BY <1>0, Zenon DEF ObjectInv
<1>1. ASSUME \A o \in Objects : job'[o] \in {None, job[o]}, \A o \in Objects : enabled'[o] => enabled[o],
             UNCHANGED owner
      PROVE  StartInv'
  BY <1>1, <1>0, Zenon DEF StartInv
<1>2. UNCHANGED <<job, enabled, owner>> => StartInv'
  BY <1>1, Zenon
<1>d. ProcessDies => StartInv'
  BY <1>1, Zenon DEF ProcessDies
<1>3. Tap \/ ReceiveStats \/ Reopen \/ CreateObject \/ StartAgain \/ StopGateway \/ StopSocks \/ StopTun => StartInv'
  BY <1>2, Zenon DEF Tap, ReceiveStats, Reopen, CreateObject, StartAgain, StopGateway, StopSocks, StopTun, service, loops
<1>4. StartCommand => StartInv'
  <2> SUFFICES ASSUME StartCommand PROVE StartInv'
    BY Zenon
  <2>1. object \in Objects /\ enabled' = [enabled EXCEPT ![object] = TRUE]
    BY <1>a, Zenon DEF StartCommand
  <2>2. \A o \in Objects : o # object => enabled'[o] = enabled[o]
    BY <2>1, <1>0, Zenon DEF ServiceInv
  <2>3. CASE JobActive
    <3>1. UNCHANGED <<job, owner>> /\ job[object] \in Loops /\ owner[job[object]] = object
      BY <2>3, <2>1, <1>0 DEF StartCommand, JobActive, StartInv, ServiceInv
    <3> QED
      BY <3>1, <2>2, <1>0, Zenon DEF StartInv
  <2>4. CASE ~JobActive
    <3>1. PICK k \in Loops : /\ owner[k] = None /\ owner' = [owner EXCEPT ![k] = object]
                             /\ job' = [job EXCEPT ![object] = k]
      BY <2>4, Zenon DEF StartCommand
    <3>2. owner'[k] = object /\ \A j \in Loops : j # k => owner'[j] = owner[j]
      BY <3>1, <1>0, Zenon DEF LoopInv
    <3>3. job'[object] = k /\ \A o \in Objects : o # object => job'[o] = job[o]
      BY <3>1, <2>1, <1>0, Zenon DEF ServiceInv
    <3>4. \A o \in Objects : job[o] # None => job[o] \in Loops /\ job[o] # k
      BY <3>1, <1>0, NoneAssumption DEF StartInv, ServiceInv, Objects
    <3>5. \A o \in Objects : job'[o] # None => owner'[job'[o]] = o
      BY <3>2, <3>3, <3>4, <1>0 DEF StartInv
    <3>6. \A j \in Loops : owner[j] \in Objects => owner'[j] = owner[j]
      BY <3>1, <3>2, NoneAssumption DEF Objects
    <3>7. \A o \in Objects : enabled'[o] => \E j \in Loops : owner'[j] = o
      BY <3>2, <3>6, <2>2, <1>0, Zenon DEF StartInv
    <3> QED
      BY <3>5, <3>7, Zenon DEF StartInv
  <2> QED
    BY <2>3, <2>4, Zenon
<1>5. StopCommand \/ OnDestroy => StartInv'
  <2>1. StopBegins /\ alive => \A o \in Objects : job'[o] \in {None, job[o]}
    BY <1>a, <1>0, Zenon DEF StopBegins, ServiceInv
  <2> QED
    BY <2>1, <1>1, Zenon DEF StopCommand, OnDestroy
<1>6. StopEnds => StartInv'
  <2>1. StopEnds => \A o \in Objects : enabled'[o] => enabled[o]
    BY <1>a, <1>b, <1>0, Zenon DEF StopEnds, ServiceInv
  <2> QED
    BY <2>1, <1>1, Zenon DEF StopEnds
<1>7. ASSUME NEW k \in Loops, Loop(k) \/ Forward(k) PROVE StartInv'
  <2>1. UNCHANGED <<job, enabled, owner>>
    BY <1>7, Zenon DEF Loop, Forward, service, LoopBegins, InitNative, EstablishTunInterface, StartGateway, StartSocks,
       Probe, LaunchForward, DelayEnds, FinallyGateway, FinallySocks, FinallyForward
  <2> QED
    BY <2>1, <1>2, Zenon
<1> QED
  BY <1>d, <1>3, <1>4, <1>5, <1>6, <1>7, Steps, Zenon

LEMMA TypeStutter == ASSUME TypeInv, UNCHANGED vars PROVE TypeInv'
<1>0. ScreenInv /\ ServiceInv /\ LoopInv /\ OwnInv /\ ObjectInv /\ StartInv
  BY Zenon DEF TypeInv
<1>1. UNCHANGED <<screen, service, loops, hurried>>
  BY Zenon DEF vars
<1>2. ScreenInv' /\ ServiceInv' /\ LoopInv'
  BY <1>0, <1>1, Zenon DEF ScreenInv, ServiceInv, LoopInv, screen, service, loops
<1>3. OwnInv' /\ StartInv'
  BY <1>0, <1>1, Zenon DEF OwnInv, StartInv, service, loops
<1>4. ObjectInv'
  <2>1. Unused' <=> Unused
    BY <1>1, Zenon DEF Unused, service, loops
  <2> QED
    BY <2>1, <1>0, <1>1, Zenon DEF ObjectInv, screen, service
<1> QED
  BY <1>2, <1>3, <1>4, Zenon DEF TypeInv

LEMMA TypeNext == ASSUME TypeInv, [Next]_vars PROVE TypeInv'
<1>1. Next => TypeInv'
  BY ScreenNext, ServiceNext, LoopNext, OwnNext, ObjectNext, StartNext, Zenon DEF TypeInv
<1> QED
  BY <1>1, TypeStutter, Zenon

LEMMA TypeFollows == TypeInv => TypeOK
<1> SUFFICES ASSUME TypeInv PROVE TypeOK
  BY Zenon
<1>1. object \in 0..MaxEvents
  BY NewestObject, Zenon DEF TypeInv
<1>2. \A o \in Objects, f \in Fields :
        field[o][f] # None => field[o][f] \in Loops /\ owner[field[o][f]] = o
  BY DEF TypeInv, OwnInv, ServiceInv
<1>3. \A p \in up : p[1] \in Servers /\ pc[p[2]] \notin {"none", "queued"}
  BY Zenon DEF TypeInv, OwnInv, LoopInv
<1>4. \A k \in Loops : pc[k] \in Ended \cup SettingUp \cup {"queued", "delay", "fin1", "fin2", "fin3"}
  BY Zenon DEF TypeInv, LoopInv, Labels
<1>5. forward \in [Loops -> {"none", "queued", "running", "ended"}]
  BY Zenon DEF TypeInv, LoopInv
<1>6. commands \in Seq({"start", "stop"}) /\ casts \in Seq(BOOLEAN) /\ main \in {"idle", "servers", "socks", "tun", "last"}
  BY Zenon DEF TypeInv, ScreenInv, ServiceInv, Places
<1> QED
  BY <1>1, <1>2, <1>3, <1>4, <1>5, <1>6, Zenon DEF TypeOK

\* The variables keep their types; a field of a service object only ever
\* names a loop of that object, although the main thread and the loops write
\* the fields without a lock, and there are never more objects than taps and
\* deaths of the process.
THEOREM TypeCorrect == Spec => []TypeOK
<1>1. Init => TypeInv
  BY TypeInit, Zenon
<1>2. TypeInv /\ [Next]_vars => TypeInv'
  BY TypeNext, Zenon
<1>3. TypeInv => TypeOK
  BY TypeFollows, Zenon
<1> QED
  BY <1>1, <1>2, <1>3, PTL DEF Spec

-----------------------------------------------------------------------------
\* Only the newest object is on; it has a job when the main thread is not
\* stopping it, and that job has not been cancelled.
JobInv ==
    /\ \A o \in Objects : enabled[o] => o = object /\ alive
    /\ \A o \in Objects : job[o] # None <=> enabled[o] /\ main = "idle"
    /\ \A o \in Objects : job[o] # None =>
          job[o] \notin cancelled /\ (pc[job[o]] = "ended" => job[o] \in noTun \/ o \in quits)
    /\ \A k \in cancelled : owner[k] # None
    /\ \A k \in Loops : pc[k] \in {"fin1", "fin2", "fin3"} => k \in cancelled

\* What the screen shows once it has received every broadcast.
Shown == IF casts = <<>> THEN ui ELSE casts[Len(casts)]

\* It is the state of the service, but for a screen that has heard nothing.
ShownInv ==
    main = "idle" /\ commands = <<>> =>
        /\ Shown => alive /\ enabled[object]
        /\ alive /\ enabled[object] => Shown \/ (fresh /\ casts = <<>>)

\* What a loop at place s has made, and what the main thread has taken down.
Made(s) ==
    IF s = "gateway" THEN {"tun"}
    ELSE IF s = "socks" THEN {"tun", "gateway"}
    ELSE IF s \in {"probe", "forward"} THEN Servers
    ELSE {}
TakenDown ==
    IF main = "socks" THEN {"gateway"}
    ELSE IF main = "tun" THEN {"gateway", "socks"}
    ELSE IF main = "last" THEN Servers
    ELSE {}

\* An object that was not hurried refers to everything its loops have made,
\* and refers to nothing once it is off.
FoundInv(o) == \A p \in up : owner[p[2]] = o => field[o][p[1]] = p[2]
EmptyInv(o) ==
    /\ ~enabled[o] => \A f \in Servers : field[o][f] = None
    /\ o = object => \A f \in TakenDown : field[o][f] = None

\* Its loop that is starting is its job, and has made all that it has.
MakingInv(o) ==
    /\ \A k \in Loops : owner[k] = o /\ pc[k] \in SettingUp =>
          job[o] = k /\ \A p \in up : owner[p[2]] = o => p[2] = k /\ p[1] \in Made(pc[k])
    /\ \A k \in Loops : owner[k] = o /\ pc[k] = "queued" /\ k \notin cancelled =>
          job[o] = k /\ \A p \in up : owner[p[2]] # o

CleanInv == \A o \in Objects : o \notin hurried => FoundInv(o) /\ EmptyInv(o) /\ MakingInv(o)

\* What the parts of TypeInv say of the main thread's object and of a loop.
LEMMA Here ==
    ASSUME TypeInv
    PROVE  /\ alive => object \in Objects
           /\ main # "idle" => alive
           /\ \A k \in Loops : pc[k] # "none" => owner[k] \in Objects
           /\ \A p \in up : p[1] \in Servers /\ p[2] \in Loops
           /\ \A o \in Objects : job[o] # None => job[o] \in Loops /\ owner[job[o]] = o
BY NewestObject DEF TypeInv, ObjectInv, OwnInv, LoopInv, StartInv, ServiceInv

LEMMA JobInit == Init => JobInv
BY Zenon DEF Init, JobInv

LEMMA JobNext == ASSUME TypeInv, JobInv, Next PROVE JobInv'
<1>0. ServiceInv /\ LoopInv /\ OwnInv /\ ObjectInv /\ StartInv
  BY Zenon DEF TypeInv
<1>a. /\ alive => object \in Objects
      /\ main # "idle" => alive
      /\ \A k \in Loops : pc[k] # "none" => owner[k] \in Objects
      /\ \A o \in Objects : job[o] # None => job[o] \in Loops /\ owner[job[o]] = o
  BY Here, Zenon
<1>1. UNCHANGED <<enabled, object, alive, job, main, cancelled, pc, noTun, quits, owner>> => JobInv'
  BY DEF JobInv
<1>2. Tap \/ ReceiveStats \/ Reopen \/ StartAgain => JobInv'
  BY <1>1, Zenon DEF Tap, ReceiveStats, Reopen, StartAgain, service, loops
<1>d. ProcessDies => JobInv'
  <2> SUFFICES ASSUME ProcessDies PROVE JobInv'
    BY Zenon
  <2>1. /\ UNCHANGED <<cancelled, owner>>
        /\ \A o \in Objects : ~enabled'[o] /\ job'[o] = None
        /\ \A k \in Loops : pc'[k] \in {"none", "ended"}
    BY Zenon DEF ProcessDies
  <2> QED
    BY <2>1 DEF JobInv
<1>3. StopGateway \/ StopSocks \/ StopTun => JobInv'
  <2> SUFFICES ASSUME StopGateway \/ StopSocks \/ StopTun PROVE JobInv'
    BY Zenon
  <2>1. UNCHANGED <<enabled, object, alive, job, cancelled, pc, noTun, quits, owner>> /\ main # "idle" /\ main' # "idle"
    BY Zenon DEF StopGateway, StopSocks, StopTun
  <2> QED
    BY <2>1, Zenon DEF JobInv
<1>4. CreateObject => JobInv'
  <2> SUFFICES ASSUME CreateObject PROVE JobInv'
    BY Zenon
  <2>1. UNCHANGED <<enabled, job, main, cancelled, pc, noTun, quits, owner>> /\ ~alive
    BY Zenon DEF CreateObject, loops
  <2>2. \A o \in Objects : ~enabled[o]
    BY <2>1, Zenon DEF JobInv
  <2> QED
    BY <2>1, <2>2, Zenon DEF JobInv
<1>5. StartCommand => JobInv'
  <2> SUFFICES ASSUME StartCommand PROVE JobInv'
    BY Zenon
  <2>1. /\ object \in Objects /\ alive /\ main = "idle" /\ ~enabled[object]
        /\ enabled' = [enabled EXCEPT ![object] = TRUE]
        /\ UNCHANGED <<object, alive, main, quits, cancelled, noTun>>
    BY <1>a, Zenon DEF StartCommand
  <2>2. job[object] = None /\ ~JobActive
    BY <2>1, Zenon DEF JobInv, JobActive
  <2>3. PICK k \in Loops : /\ owner[k] = None /\ owner' = [owner EXCEPT ![k] = object]
                           /\ Goto(k, "queued") /\ job' = [job EXCEPT ![object] = k]
    BY <2>2, Zenon DEF StartCommand
  <2>4. /\ owner'[k] = object /\ pc'[k] = "queued"
        /\ \A j \in Loops : j # k => owner'[j] = owner[j] /\ pc'[j] = pc[j]
    BY <2>3, <1>0, Zenon DEF LoopInv, Goto
  <2>5. /\ job'[object] = k /\ enabled'[object]
        /\ \A o \in Objects : o # object => job'[o] = job[o] /\ enabled'[o] = enabled[o]
    BY <2>1, <2>3, <1>0, Zenon DEF ServiceInv
  <2>6. k # None /\ object # None
    BY <2>1, NoneAssumption DEF Loops, Objects
  <2>7. k \notin cancelled /\ cancelled \subseteq Loops
    BY <2>3, <1>0, Zenon DEF JobInv, LoopInv
  <2>8. \A o \in Objects : enabled'[o] => o = object' /\ alive'
    BY <2>1, <2>5, Zenon DEF JobInv
  <2>9. \A o \in Objects : job'[o] # None <=> enabled'[o] /\ main' = "idle"
    BY <2>1, <2>5, <2>6, Zenon DEF JobInv
  <2>10. \A o \in Objects : o # object => job'[o] = None
    BY <2>9, <2>8, <2>1, Zenon
  <2>11. \A o \in Objects : job'[o] # None =>
            job'[o] \notin cancelled' /\ (pc'[job'[o]] = "ended" => job'[o] \in noTun' \/ o \in quits')
    BY <2>1, <2>4, <2>5, <2>7, <2>10, Zenon
  <2>12. \A j \in cancelled' : owner'[j] # None
    BY <2>1, <2>4, <2>6, <2>7, Zenon DEF JobInv
  <2>13. \A j \in Loops : pc'[j] \in {"fin1", "fin2", "fin3"} => j \in cancelled'
    BY <2>1, <2>4, Zenon DEF JobInv
  <2> QED
    BY <2>8, <2>9, <2>11, <2>12, <2>13, Zenon DEF JobInv
<1>6. StopCommand \/ OnDestroy => JobInv'
  <2> SUFFICES ASSUME StopCommand \/ OnDestroy PROVE JobInv'
    BY Zenon
  <2>1. /\ object \in Objects /\ main' # "idle"
        /\ UNCHANGED <<object, alive, enabled, quits, owner, pc, noTun>>
        /\ cancelled' = cancelled \cup ({job[object]} \ {None})
        /\ job' = [job EXCEPT ![object] = None]
    BY <1>a, Zenon DEF StopCommand, OnDestroy, StopBegins
  <2>2. \A o \in Objects : job'[o] = None
    BY <2>1, <1>0, Zenon DEF JobInv, ServiceInv
  <2>3. \A k \in cancelled' : owner[k] # None
    BY <2>1, <1>a, NoneAssumption DEF JobInv, Objects
  <2> QED
    BY <2>1, <2>2, <2>3, Zenon DEF JobInv
<1>7. StopEnds => JobInv'
  <2> SUFFICES ASSUME StopEnds PROVE JobInv'
    BY Zenon
  <2>1. /\ object \in Objects /\ main # "idle"
        /\ UNCHANGED <<object, job, owner, pc, noTun>>
        /\ cancelled' = cancelled \cup {k \in Loops : owner[k] = object}
        /\ enabled' = [enabled EXCEPT ![object] = FALSE]
    BY <1>a, Zenon DEF StopEnds
  <2>2. \A o \in Objects : job[o] = None /\ ~enabled'[o]
    BY <2>1, <1>0, Zenon DEF JobInv, ServiceInv
  <2>3. \A k \in cancelled' : owner[k] # None
    BY <2>1, NoneAssumption DEF JobInv, Objects
  <2> QED
    BY <2>1, <2>2, <2>3, Zenon DEF JobInv
<1>8. ASSUME NEW k \in Loops, Loop(k) PROVE JobInv'
  <2>1. UNCHANGED <<enabled, object, alive, job, main, cancelled, owner>>
    BY <1>8, Zenon DEF Loop, service, LoopBegins, InitNative, EstablishTunInterface, StartGateway, StartSocks,
       Probe, LaunchForward, DelayEnds, FinallyGateway, FinallySocks, FinallyForward
  <2>2. quits \subseteq quits' /\ noTun \subseteq noTun'
    BY <1>8, Zenon DEF Loop, service, Fail, StopSelf, LoopBegins, InitNative, EstablishTunInterface, StartGateway, StartSocks,
       Probe, LaunchForward, DelayEnds, FinallyGateway, FinallySocks, FinallyForward
  <2>3. \A j \in Loops : j # k => pc'[j] = pc[j]
    BY <1>8, <1>0, Zenon DEF LoopInv, Loop, Goto, Fail, LoopBegins, InitNative, EstablishTunInterface, StartGateway, StartSocks,
       Probe, LaunchForward, DelayEnds, FinallyGateway, FinallySocks, FinallyForward
  \* How a loop ends: cancelled, without an interface, or with stopSelf.
  <2>4. /\ pc[k] # "ended"
        /\ pc'[k] = "ended" => k \in cancelled \/ k \in noTun' \/ owner[k] \in quits'
        /\ pc'[k] \in {"fin1", "fin2", "fin3"} => k \in cancelled
    <3>1. LoopBegins(k) \/ DelayEnds(k) => pc[k] # "ended" /\ (pc'[k] \in {"ended", "fin1", "fin2", "fin3"} => k \in cancelled)
      BY <1>0, Zenon DEF LoopBegins, DelayEnds, Goto, LoopInv
    <3>2. InitNative(k) \/ StartSocks(k) \/ Probe(k) =>
            /\ pc[k] # "ended" /\ pc'[k] \notin {"fin1", "fin2", "fin3"}
            /\ pc'[k] = "ended" => owner[k] \in quits'
      BY <1>0, Zenon DEF InitNative, StartSocks, Probe, Goto, LoopInv, Fail, StopSelf
    <3>3. EstablishTunInterface(k) \/ StartGateway(k) \/ LaunchForward(k) =>
            /\ pc[k] # "ended" /\ pc'[k] \notin {"fin1", "fin2", "fin3"}
            /\ pc'[k] = "ended" => k \in noTun'
      BY <1>0, Zenon DEF EstablishTunInterface, StartGateway, LaunchForward, Goto, LoopInv
    <3>4. FinallyGateway(k) \/ FinallySocks(k) \/ FinallyForward(k) => pc[k] # "ended" /\ k \in cancelled
      BY Zenon DEF FinallyGateway, FinallySocks, FinallyForward, JobInv
    <3> QED
      BY <3>1, <3>2, <3>3, <3>4, <1>8, Zenon DEF Loop
  <2>5. \A o \in Objects : job'[o] # None =>
          job'[o] \notin cancelled' /\ (pc'[job'[o]] = "ended" => job'[o] \in noTun' \/ o \in quits')
    BY <2>1, <2>2, <2>3, <2>4, <1>a DEF JobInv
  <2>6. \A j \in Loops : pc'[j] \in {"fin1", "fin2", "fin3"} => j \in cancelled'
    BY <2>1, <2>3, <2>4, Zenon DEF JobInv
  <2> QED
    BY <2>1, <2>5, <2>6, Zenon DEF JobInv
<1>9. ASSUME NEW k \in Loops, Forward(k) PROVE JobInv'
  BY <1>1, <1>9, Zenon DEF Forward, service
<1> QED
  BY <1>2, <1>d, <1>3, <1>4, <1>5, <1>6, <1>7, <1>8, <1>9, Steps, Zenon

\* A broadcast appended to the others is the last one shown.
LEMMA LastAppended ==
    ASSUME NEW S, NEW s \in Seq(S), NEW b \in S
    PROVE  Append(s, b) # <<>> /\ Append(s, b)[Len(Append(s, b))] = b
OBVIOUS

\* Receiving a broadcast does not change what is shown at the end.
LEMMA LastReceived ==
    ASSUME NEW S, NEW s \in Seq(S), s # <<>>
    PROVE  IF Tail(s) = <<>> THEN Head(s) = s[Len(s)] ELSE Tail(s)[Len(Tail(s))] = s[Len(s)]
<1>1. Len(s) \in Nat \ {0} /\ Len(Tail(s)) = Len(s) - 1 /\ Tail(s) \in Seq(S) /\ Head(s) = s[1]
  OBVIOUS
<1>2. Tail(s) = <<>> => Len(s) = 1
  <2>1. Len(<<>>) = 0
    BY Zenon
  <2>2. Tail(s) = <<>> => Len(Tail(s)) = 0
    BY <2>1, Zenon
  <2> QED
    BY <1>1, <2>2
<1>3. Tail(s) # <<>> => Len(Tail(s)) \in 1..Len(Tail(s))
  BY <1>1
<1>4. \A i \in 1..Len(Tail(s)) : Tail(s)[i] = s[i + 1]
  OBVIOUS
<1> QED
  BY <1>1, <1>2, <1>3, <1>4

LEMMA ShownNext == ASSUME TypeInv, JobInv, ShownInv, Next PROVE ShownInv'
<1>0. ScreenInv /\ ServiceInv
  BY Zenon DEF TypeInv
<1>a. /\ alive => object \in Objects
      /\ main # "idle" => alive
  BY Here, Zenon
<1>s. casts \in Seq(BOOLEAN)
  BY <1>0, Zenon DEF ScreenInv
<1>1. UNCHANGED <<main, commands, casts, ui, fresh, alive, enabled, object>> => ShownInv'
  <2>1. UNCHANGED <<casts, ui>> => Shown' = Shown
    BY Zenon DEF Shown
  <2> QED
    BY <2>1 DEF ShownInv
<1>2. Tap => ShownInv'
  BY <1>0 DEF Tap, ScreenInv, ShownInv
<1>3. ReceiveStats => ShownInv'
  <2> SUFFICES ASSUME ReceiveStats PROVE ShownInv'
    BY Zenon
  <2>1. casts # <<>> /\ ui' = Head(casts) /\ casts' = Tail(casts) /\ UNCHANGED <<main, commands, alive, enabled, object>>
    BY Zenon DEF ReceiveStats, service
  <2>2. Shown' = Shown
    BY <2>1, <1>s, LastReceived, Zenon DEF Shown
  <2> QED
    BY <2>1, <2>2, Zenon DEF ShownInv
\* A new screen shows off, and so is a service whose process has died.
<1>r. NewScreen => Shown' = FALSE /\ fresh' /\ casts' = <<>>
  BY Zenon DEF NewScreen, Shown
<1>d. Reopen \/ ProcessDies => ShownInv'
  BY <1>r, Zenon DEF Reopen, ProcessDies, ShownInv
<1>4. ASSUME NEW b \in BOOLEAN, EmitStats(b) PROVE Shown' = b
  BY <1>4, <1>s, LastAppended, Zenon DEF EmitStats, Shown
<1>5. StartAgain => ShownInv'
  <2> SUFFICES ASSUME StartAgain PROVE ShownInv'
    BY Zenon
  <2>1. EmitStats(TRUE) /\ alive /\ enabled[object] /\ UNCHANGED <<alive, enabled, object>>
    BY Zenon DEF StartAgain, service
  <2>2. Shown' = TRUE
    BY <2>1, <1>4, Zenon
  <2> QED
    BY <2>1, <2>2, Zenon DEF ShownInv
<1>6. StartCommand => ShownInv'
  <2> SUFFICES ASSUME StartCommand PROVE ShownInv'
    BY Zenon
  <2>1. EmitStats(TRUE) /\ alive /\ enabled' = [enabled EXCEPT ![object] = TRUE] /\ UNCHANGED <<alive, object>>
    BY Zenon DEF StartCommand
  <2>2. Shown' = TRUE
    BY <2>1, <1>4, Zenon
  <2>3. enabled'[object]
    BY <2>1, <1>a, <1>0, Zenon DEF ServiceInv
  <2> QED
    BY <2>1, <2>2, <2>3, Zenon DEF ShownInv
<1>7. StopCommand \/ OnDestroy \/ StopGateway \/ StopSocks \/ StopTun => ShownInv'
  BY Zenon DEF StopCommand, OnDestroy, StopBegins, StopGateway, StopSocks, StopTun, ShownInv
<1>8. StopEnds => ShownInv'
  <2> SUFFICES ASSUME StopEnds PROVE ShownInv'
    BY Zenon
  <2>1. EmitStats(FALSE) /\ main # "idle" /\ enabled' = [enabled EXCEPT ![object] = FALSE] /\ UNCHANGED object
    BY Zenon DEF StopEnds
  <2>2. Shown' = FALSE
    BY <2>1, <1>4, Zenon
  <2>3. ~enabled'[object]
    BY <2>1, <1>a, <1>0, Zenon DEF ServiceInv
  <2> QED
    BY <2>1, <2>2, <2>3, Zenon DEF ShownInv
<1>9. CreateObject => ShownInv'
  BY Zenon DEF CreateObject, screen, ShownInv
<1>10. ASSUME NEW k \in Loops, Loop(k) \/ Forward(k) PROVE ShownInv'
  <2>1. UNCHANGED <<main, commands, casts, ui, fresh, alive, enabled, object>>
    BY <1>10, Zenon DEF Loop, Forward, screen, service, LoopBegins, InitNative, EstablishTunInterface, StartGateway,
       StartSocks, Probe, LaunchForward, DelayEnds, FinallyGateway, FinallySocks, FinallyForward
  <2> QED
    BY <2>1, <1>1, Zenon
<1> QED
  BY <1>2, <1>3, <1>d, <1>5, <1>6, <1>7, <1>8, <1>9, <1>10, Steps, Zenon

LEMMA MadeValues ==
    /\ Made("init") = {} /\ Made("establish") = {} /\ Made("gateway") = {"tun"}
    /\ Made("socks") = {"tun", "gateway"} /\ Made("probe") = Servers /\ Made("forward") = Servers
BY Zenon DEF Made

\* Steps that take nothing up or down: a loop may move on.
LEMMA CleanFrame ==
    ASSUME TypeInv, CleanInv,
           \A o \in Objects, f \in Servers : field'[o][f] = field[o][f],
           UNCHANGED <<up, owner, job, enabled, object, main, hurried>>,
           cancelled \subseteq cancelled',
           \A j \in Loops : \/ pc'[j] = pc[j]
                            \/ pc'[j] \notin SettingUp \cup {"queued"}
                            \/ /\ pc[j] \in SettingUp /\ pc'[j] \in SettingUp
                               /\ Made(pc[j]) \subseteq Made(pc'[j])
    PROVE  CleanInv'
<1> SUFFICES ASSUME NEW o \in Objects, o \notin hurried PROVE FoundInv(o)' /\ EmptyInv(o)' /\ MakingInv(o)'
  BY Zenon DEF CleanInv
<1>0. FoundInv(o) /\ EmptyInv(o) /\ MakingInv(o)
  BY Zenon DEF CleanInv
<1>1. \A p \in up : p[1] \in Servers /\ p[2] \in Loops
  BY Here, Zenon
<1>2. FoundInv(o)'
  BY <1>0, <1>1, Zenon DEF FoundInv
<1>3. TakenDown' = TakenDown /\ TakenDown \subseteq Servers
  BY Zenon DEF TakenDown, Servers
<1>4. EmptyInv(o)'
  BY <1>0, <1>3, Zenon DEF EmptyInv
<1>5. "queued" \notin SettingUp
  BY Zenon DEF SettingUp
<1>6. MakingInv(o)'
  BY <1>0, <1>5, Zenon DEF MakingInv
<1> QED
  BY <1>2, <1>4, <1>6, Zenon

\* stop() or close() of what a field holds.
LEMMA CleanRelease ==
    ASSUME TypeInv, CleanInv, NEW a \in Objects, NEW f \in Servers, Release(a, f),
           UNCHANGED <<owner, job, enabled, object, cancelled, hurried>>,
           TakenDown' \subseteq TakenDown \cup (IF a = object THEN {f} ELSE {}),
           \A j \in Loops : pc'[j] = pc[j] \/ pc'[j] \notin SettingUp \cup {"queued"}
    PROVE  CleanInv'
<1> SUFFICES ASSUME NEW o \in Objects, o \notin hurried PROVE FoundInv(o)' /\ EmptyInv(o)' /\ MakingInv(o)'
  BY Zenon DEF CleanInv
<1>0. FoundInv(o) /\ EmptyInv(o) /\ MakingInv(o)
  BY Zenon DEF CleanInv
<1>1. \A p \in up : p[1] \in Servers /\ p[2] \in Loops /\ p = <<p[1], p[2]>>
  BY DEF TypeInv, LoopInv
<1>2. \A g \in Servers : field'[o][g] = IF o = a /\ g = f THEN None ELSE field[o][g]
  BY Zenon DEF Release, TypeInv, ServiceInv, Servers, Fields
<1>3. up' = up \ {<<f, field[a][f]>>}
  BY Zenon DEF Release
<1>4. FoundInv(o)'
  BY <1>0, <1>1, <1>2, <1>3 DEF FoundInv
<1>5. TakenDown \subseteq Servers
  BY Zenon DEF TakenDown, Servers
<1>6. EmptyInv(o)'
  BY <1>0, <1>2, <1>5, Zenon DEF EmptyInv
<1>7. MakingInv(o)'
  BY <1>0, <1>3, Zenon DEF MakingInv
<1> QED
  BY <1>4, <1>6, <1>7, Zenon

\* A loop that is starting takes up the next server.
LEMMA CleanMake ==
    ASSUME TypeInv, JobInv, CleanInv, NEW k \in Loops, NEW s \in Servers, NEW y \in SettingUp,
           pc[k] \in SettingUp, s \notin Made(pc[k]), Made(y) = Made(pc[k]) \cup {s},
           Goto(k, y), up' = up \cup {<<s, k>>},
           field' = [field EXCEPT ![owner[k]][s] = k],
           UNCHANGED <<owner, job, enabled, object, main, cancelled, hurried>>
    PROVE  CleanInv'
<1> SUFFICES ASSUME NEW o \in Objects, o \notin hurried PROVE FoundInv(o)' /\ EmptyInv(o)' /\ MakingInv(o)'
  BY Zenon DEF CleanInv
<1>0. FoundInv(o) /\ EmptyInv(o) /\ MakingInv(o)
  BY Zenon DEF CleanInv
<1>1. \A p \in up : p[1] \in Servers /\ p[2] \in Loops
  BY Here, Zenon
<1>2. "queued" \notin SettingUp /\ "none" \notin SettingUp
  BY Zenon DEF SettingUp
<1>3. owner[k] \in Objects /\ k # None
  BY <1>2, Here, NoneAssumption DEF Loops
<1>4. \A g \in Servers : field'[o][g] = IF o = owner[k] /\ g = s THEN k ELSE field[o][g]
  BY <1>3, Zenon DEF TypeInv, ServiceInv, Servers, Fields
<1>5. pc'[k] = y /\ \A j \in Loops : j # k => pc'[j] = pc[j]
  BY Zenon DEF Goto, TypeInv, LoopInv
<1>6. \A p \in up' : p \in up \/ (p[1] = s /\ p[2] = k)
  OBVIOUS
<1>7. CASE o # owner[k]
  <2>1. FoundInv(o)'
    BY <1>0, <1>1, <1>4, <1>6, <1>7, Zenon DEF FoundInv
  <2>2. EmptyInv(o)'
    <3>1. TakenDown' = TakenDown /\ TakenDown \subseteq Servers
      BY Zenon DEF TakenDown, Servers
    <3> QED
      BY <1>0, <1>4, <1>7, <3>1, Zenon DEF EmptyInv
  <2>3. MakingInv(o)'
    BY <1>0, <1>5, <1>6, <1>7, Zenon DEF MakingInv
  <2> QED
    BY <2>1, <2>2, <2>3, Zenon
<1>8. CASE o = owner[k]
  <2>1. job[o] = k /\ \A p \in up : owner[p[2]] = o => p[2] = k /\ p[1] \in Made(pc[k])
    BY <1>0, <1>8, Zenon DEF MakingInv
  <2>2. enabled[o] /\ main = "idle"
    BY <2>1, <1>3, Zenon DEF JobInv
  <2>3. FoundInv(o)'
    BY <1>0, <1>1, <1>4, <1>6, <1>8, <2>1, Zenon DEF FoundInv
  <2>4. EmptyInv(o)'
    <3>1. TakenDown' = {}
      BY <2>2, Zenon DEF TakenDown
    <3> QED
      BY <2>2, <3>1, Zenon DEF EmptyInv
  <2>5. \A p \in up' : owner[p[2]] = o => p[2] = k /\ p[1] \in Made(y)
    BY <1>6, <2>1, Zenon
  <2>6. \A j \in Loops : owner[j] = o /\ pc'[j] \in SettingUp => j = k
    BY <1>0, <1>5, <2>1, Zenon DEF MakingInv
  <2>7. \A j \in Loops : ~(owner[j] = o /\ pc'[j] = "queued" /\ j \notin cancelled)
    BY <1>0, <1>5, <1>2, <2>1, Zenon DEF MakingInv
  <2>8. MakingInv(o)'
    BY <1>5, <2>1, <2>5, <2>6, <2>7, Zenon DEF MakingInv
  <2> QED
    BY <2>3, <2>4, <2>8, Zenon
<1> QED
  BY <1>7, <1>8, Zenon

LEMMA CleanInit == Init => CleanInv
<1> SUFFICES ASSUME Init, NEW o \in Objects PROVE FoundInv(o) /\ EmptyInv(o) /\ MakingInv(o)
  BY Zenon DEF CleanInv
<1>1. up = {} /\ \A k \in Loops : pc[k] = "none"
  BY Zenon DEF Init
<1>2. \A f \in Servers : field[o][f] = None
  BY Zenon DEF Init, Servers, Fields
<1>3. TakenDown \subseteq Servers
  BY Zenon DEF TakenDown, Servers
<1>4. MakingInv(o)
  BY <1>1, Zenon DEF MakingInv, SettingUp
<1> QED
  BY <1>1, <1>2, <1>3, <1>4, Zenon DEF FoundInv, EmptyInv

LEMMA CleanMain == ASSUME TypeInv, JobInv, CleanInv, Main PROVE CleanInv'
<1>0. ServiceInv /\ LoopInv /\ OwnInv /\ StartInv
  BY Zenon DEF TypeInv
<1>a. /\ alive => object \in Objects
      /\ main # "idle" => alive
      /\ \A p \in up : p[1] \in Servers /\ p[2] \in Loops
      /\ \A o \in Objects : job[o] # None => job[o] \in Loops /\ owner[job[o]] = o
  BY Here, Zenon
<1>1. StartAgain => CleanInv'
  BY CleanFrame, Zenon DEF StartAgain, service, loops
<1>2. CreateObject => CleanInv'
  <2> SUFFICES ASSUME CreateObject, NEW o \in Objects, o \notin hurried'
               PROVE  FoundInv(o)' /\ EmptyInv(o)' /\ MakingInv(o)'
    BY Zenon DEF CleanInv
  <2>1. UNCHANGED <<field, up, owner, job, enabled, cancelled, pc, hurried>> /\ main' = "idle"
    BY Zenon DEF CreateObject, loops
  <2>2. FoundInv(o) /\ EmptyInv(o) /\ MakingInv(o)
    BY <2>1, Zenon DEF CleanInv
  <2>3. TakenDown' = {}
    BY <2>1, Zenon DEF TakenDown
  <2> QED
    BY <2>1, <2>2, <2>3, Zenon DEF FoundInv, EmptyInv, MakingInv
<1>3. StartCommand => CleanInv'
  <2> SUFFICES ASSUME StartCommand, NEW o \in Objects, o \notin hurried'
               PROVE  FoundInv(o)' /\ EmptyInv(o)' /\ MakingInv(o)'
    BY Zenon DEF CleanInv
  <2>1. /\ object \in Objects /\ main = "idle" /\ ~enabled[object]
        /\ enabled' = [enabled EXCEPT ![object] = TRUE]
        /\ UNCHANGED <<field, up, object, main, cancelled>>
    BY <1>a, Zenon DEF StartCommand
  <2>2. job[object] = None /\ ~JobActive
    BY <2>1, Zenon DEF JobInv, JobActive
  <2>3. PICK k \in Loops : /\ owner[k] = None /\ owner' = [owner EXCEPT ![k] = object]
                           /\ Goto(k, "queued") /\ job' = [job EXCEPT ![object] = k]
                           /\ hurried \subseteq hurried'
    BY <2>2, Zenon DEF StartCommand
  <2>4. /\ owner'[k] = object /\ pc'[k] = "queued"
        /\ \A j \in Loops : j # k => owner'[j] = owner[j] /\ pc'[j] = pc[j]
    BY <2>3, <1>0, Zenon DEF LoopInv, Goto
  <2>5. /\ job'[object] = k
        /\ o # object => job'[o] = job[o] /\ enabled'[o] = enabled[o]
    BY <2>1, <2>3, <1>0, Zenon DEF ServiceInv
  <2>6. enabled'[object]
    BY <2>1, <1>0, Zenon DEF ServiceInv
  <2>7. \A p \in up : p[2] # k /\ owner'[p[2]] = owner[p[2]]
    BY <2>3, <2>4, <1>a, <1>0, Zenon DEF OwnInv
  <2>8. FoundInv(o) /\ EmptyInv(o) /\ MakingInv(o)
    BY <2>3, Zenon DEF CleanInv
  <2>9. FoundInv(o)'
    BY <2>1, <2>7, <2>8, Zenon DEF FoundInv
  <2>10. EmptyInv(o)'
    <3>1. TakenDown' = {}
      BY <2>1, Zenon DEF TakenDown
    <3> QED
      BY <2>1, <2>5, <2>6, <2>8, <3>1, Zenon DEF EmptyInv
  <2>11. CASE o # object
    <3>1. \A j \in Loops : owner'[j] = o => owner[j] = o /\ pc'[j] = pc[j]
      BY <2>4, <2>11, Zenon
    <3>2. MakingInv(o)'
      BY <2>1, <2>5, <2>7, <2>8, <2>11, <3>1, Zenon DEF MakingInv
    <3> QED
      BY <2>9, <2>10, <3>2, Zenon
  <2>12. CASE o = object
    <3>1. \A p \in up : owner[p[2]] # o
      BY <2>1, <2>8, <2>12, <1>a, NoneAssumption DEF FoundInv, EmptyInv, Loops
    <3>2. \A j \in Loops : ~(owner[j] = o /\ pc[j] \in SettingUp)
      BY <2>2, <2>8, <2>12, NoneAssumption DEF MakingInv, Loops
    <3>3. \A j \in Loops : ~(owner[j] = o /\ pc[j] = "queued" /\ j \notin cancelled)
      BY <2>2, <2>8, <2>12, NoneAssumption DEF MakingInv, Loops
    <3>4. "queued" \notin SettingUp
      BY Zenon DEF SettingUp
    <3>5. MakingInv(o)'
      BY <2>1, <2>4, <2>5, <2>7, <2>12, <3>1, <3>2, <3>3, <3>4, Zenon DEF MakingInv
    <3> QED
      BY <2>9, <2>10, <3>5, Zenon
  <2> QED
    BY <2>9, <2>10, <2>11, <2>12, Zenon
<1>4. StopCommand \/ OnDestroy => CleanInv'
  <2> SUFFICES ASSUME StopCommand \/ OnDestroy, NEW o \in Objects, o \notin hurried'
               PROVE  FoundInv(o)' /\ EmptyInv(o)' /\ MakingInv(o)'
    BY Zenon DEF CleanInv
  <2>1. /\ object \in Objects /\ main' = "servers"
        /\ UNCHANGED <<object, enabled, owner, pc, up>>
        /\ cancelled' = cancelled \cup ({job[object]} \ {None})
        /\ job' = [job EXCEPT ![object] = None]
        /\ field' = [field EXCEPT ![object]["tun2socks"] = None]
        /\ hurried' = IF \E k \in Loops : owner[k] = object /\ pc[k] \in SettingUp
                      THEN hurried \cup {object} ELSE hurried
    BY <1>a, Zenon DEF StopCommand, OnDestroy, StopBegins, CancelForward
  <2>2. \A f \in Servers : field'[o][f] = field[o][f]
    BY <2>1, <1>0, Zenon DEF ServiceInv, Servers, Fields
  <2>3. o \notin hurried /\ (o = object => \A k \in Loops : ~(owner[k] = o /\ pc[k] \in SettingUp))
    BY <2>1, Zenon
  <2>4. FoundInv(o) /\ EmptyInv(o) /\ MakingInv(o)
    BY <2>3, Zenon DEF CleanInv
  <2>5. FoundInv(o)'
    BY <2>1, <2>2, <2>4, <1>a, Zenon DEF FoundInv
  <2>6. EmptyInv(o)'
    <3>1. TakenDown' = {}
      BY <2>1, Zenon DEF TakenDown
    <3> QED
      BY <2>1, <2>2, <2>4, <3>1, Zenon DEF EmptyInv
  <2>7. MakingInv(o)'
    <3>1. CASE o # object
      <4>1. job'[o] = job[o]
        BY <3>1, <2>1, <1>0, Zenon DEF ServiceInv
      <4> QED
        BY <4>1, <2>1, <2>4, Zenon DEF MakingInv
    <3>2. CASE o = object
      <4>1. \A k \in Loops : owner[k] = o /\ pc[k] = "queued" => k \in cancelled'
        BY <3>2, <2>1, <2>4, NoneAssumption DEF MakingInv, Loops
      <4> QED
        BY <4>1, <3>2, <2>1, <2>3, Zenon DEF MakingInv
    <3> QED
      BY <3>1, <3>2, Zenon
  <2> QED
    BY <2>5, <2>6, <2>7, Zenon
<1>5. StopGateway => CleanInv'
  <2> SUFFICES ASSUME StopGateway PROVE CleanInv'
    BY Zenon
  <2>1. /\ object \in Objects /\ main' = "socks" /\ Release(object, "gateway")
        /\ UNCHANGED <<owner, job, enabled, object, cancelled, hurried, pc>>
    BY <1>a, Zenon DEF StopGateway
  <2>2. TakenDown' = {"gateway"} /\ "gateway" \in Servers
    BY <2>1, Zenon DEF TakenDown, Servers
  <2> QED
    BY <2>1, <2>2, CleanRelease, Zenon
<1>6. StopSocks => CleanInv'
  <2> SUFFICES ASSUME StopSocks PROVE CleanInv'
    BY Zenon
  <2>1. /\ object \in Objects /\ main = "socks" /\ main' = "tun" /\ Release(object, "socks")
        /\ UNCHANGED <<owner, job, enabled, object, cancelled, hurried, pc>>
    BY <1>a, Zenon DEF StopSocks
  <2>2. TakenDown = {"gateway"} /\ TakenDown' = {"gateway", "socks"} /\ "socks" \in Servers
    BY <2>1, Zenon DEF TakenDown, Servers
  <2> QED
    BY <2>1, <2>2, CleanRelease, Zenon
<1>7. StopTun => CleanInv'
  <2> SUFFICES ASSUME StopTun PROVE CleanInv'
    BY Zenon
  <2>1. /\ object \in Objects /\ main = "tun" /\ main' = "last" /\ Release(object, "tun")
        /\ UNCHANGED <<owner, job, enabled, object, cancelled, hurried, pc>>
    BY <1>a, Zenon DEF StopTun
  <2>2. TakenDown = {"gateway", "socks"} /\ TakenDown' = {"tun", "gateway", "socks"} /\ "tun" \in Servers
    BY <2>1, Zenon DEF TakenDown, Servers
  <2> QED
    BY <2>1, <2>2, CleanRelease, Zenon
<1>8. StopEnds => CleanInv'
  <2> SUFFICES ASSUME StopEnds, NEW o \in Objects, o \notin hurried'
               PROVE  FoundInv(o)' /\ EmptyInv(o)' /\ MakingInv(o)'
    BY Zenon DEF CleanInv
  <2>1. /\ object \in Objects /\ main = "last" /\ main' = "idle"
        /\ enabled' = [enabled EXCEPT ![object] = FALSE]
        /\ cancelled \subseteq cancelled'
        /\ UNCHANGED <<field, up, owner, job, object, pc, hurried>>
    BY <1>a, Zenon DEF StopEnds
  <2>2. FoundInv(o) /\ EmptyInv(o) /\ MakingInv(o)
    BY <2>1, Zenon DEF CleanInv
  <2>3. TakenDown = Servers /\ TakenDown' = {}
    BY <2>1, Zenon DEF TakenDown
  <2>4. o # object => enabled'[o] = enabled[o]
    BY <2>1, <1>0, Zenon DEF ServiceInv
  <2>5. EmptyInv(o)'
    BY <2>1, <2>2, <2>3, <2>4, Zenon DEF EmptyInv
  <2> QED
    BY <2>1, <2>2, <2>5, Zenon DEF FoundInv, MakingInv
<1> QED
  BY <1>1, <1>2, <1>3, <1>4, <1>5, <1>6, <1>7, <1>8, Zenon DEF Main

LEMMA CleanLoop == ASSUME TypeInv, JobInv, CleanInv, NEW k \in Loops, Loop(k) PROVE CleanInv'
<1>0. ServiceInv /\ LoopInv
  BY Zenon DEF TypeInv
<1>a. pc[k] # "none" => owner[k] \in Objects
  BY Here, Zenon
<1>b. /\ {"init", "establish", "gateway", "socks", "probe", "forward"} = SettingUp
      /\ {"ended", "delay", "fin1", "fin2", "fin3"} \cap (SettingUp \cup {"queued"}) = {}
  BY Zenon DEF SettingUp
<1>c. Servers = {"tun", "gateway", "socks"}
  BY Zenon DEF Servers
<1>m. ASSUME NEW l, Goto(k, l) PROVE pc'[k] = l /\ \A j \in Loops : j # k => pc'[j] = pc[j]
  BY <1>m, <1>0, Zenon DEF Goto, LoopInv
<1>1. LoopBegins(k) => CleanInv'
  <2> SUFFICES ASSUME LoopBegins(k) PROVE CleanInv'
    BY Zenon
  <2>1. /\ pc[k] = "queued"
        /\ UNCHANGED <<field, up, owner, job, enabled, object, main, cancelled, hurried>>
    BY Zenon DEF LoopBegins, service
  <2>2. /\ pc'[k] \in {"ended", "init", "establish"} /\ (k \in cancelled => pc'[k] = "ended")
        /\ \A j \in Loops : j # k => pc'[j] = pc[j]
    BY <1>0, Zenon DEF LoopBegins, Goto, LoopInv
  <2>3. CASE k \in cancelled
    BY <2>1, <2>2, <2>3, <1>b, CleanFrame, Zenon
  <2>4. CASE k \notin cancelled
    <3> SUFFICES ASSUME NEW o \in Objects, o \notin hurried
                 PROVE  FoundInv(o)' /\ EmptyInv(o)' /\ MakingInv(o)'
      BY <2>1, Zenon DEF CleanInv
    <3>1. FoundInv(o) /\ EmptyInv(o) /\ MakingInv(o)
      BY Zenon DEF CleanInv
    <3>2. FoundInv(o)'
      BY <2>1, <3>1, Zenon DEF FoundInv
    <3>3. EmptyInv(o)'
      <4>1. TakenDown' = TakenDown
        BY <2>1, Zenon DEF TakenDown
      <4> QED
        BY <2>1, <3>1, <4>1, Zenon DEF EmptyInv
    <3>4. MakingInv(o)'
      BY <2>1, <2>2, <2>4, <3>1, Zenon DEF MakingInv
    <3> QED
      BY <3>2, <3>3, <3>4, Zenon
  <2> QED
    BY <2>3, <2>4, Zenon
<1>2. InitNative(k) \/ Probe(k) => CleanInv'
  <2> SUFFICES ASSUME InitNative(k) \/ Probe(k) PROVE CleanInv'
    BY Zenon
  <2>1. UNCHANGED <<field, up, owner, job, enabled, object, main, cancelled, hurried>>
    BY Zenon DEF InitNative, Probe
  <2>2. /\ \A j \in Loops : j # k => pc'[j] = pc[j]
        /\ \/ pc'[k] = "ended"
           \/ pc[k] = "init" /\ pc'[k] = "establish"
           \/ pc[k] = "probe" /\ pc'[k] = "forward"
    BY <1>m, Zenon DEF InitNative, Probe, Fail
  <2>3. \A j \in Loops : \/ pc'[j] = pc[j]
                         \/ pc'[j] \notin SettingUp \cup {"queued"}
                         \/ /\ pc[j] \in SettingUp /\ pc'[j] \in SettingUp
                            /\ Made(pc[j]) \subseteq Made(pc'[j])
    BY <2>2, <1>b, MadeValues, Zenon
  <2> QED
    BY <2>1, <2>3, CleanFrame, Zenon
<1>3. ASSUME Goto(k, "ended") \/ UNCHANGED pc, UNCHANGED <<field, up, owner, job, enabled, object, main, cancelled, hurried>>
      PROVE  CleanInv'
  <2>1. \A j \in Loops : pc'[j] = pc[j] \/ pc'[j] \notin SettingUp \cup {"queued"}
    BY <1>3, <1>m, <1>b, Zenon
  <2> QED
    BY <1>3, <2>1, CleanFrame, Zenon
<1>4. EstablishTunInterface(k) => CleanInv'
  <2>1. "tun" \notin Made("establish") /\ Made("gateway") = Made("establish") \cup {"tun"}
    BY MadeValues, Zenon
  <2> QED
    BY <2>1, <1>3, <1>b, <1>c, CleanMake, Zenon DEF EstablishTunInterface
<1>5. StartGateway(k) => CleanInv'
  <2>1. "gateway" \notin Made("gateway") /\ Made("socks") = Made("gateway") \cup {"gateway"}
    BY MadeValues, Zenon
  <2> QED
    BY <2>1, <1>3, <1>b, <1>c, CleanMake, Zenon DEF StartGateway
<1>6. StartSocks(k) => CleanInv'
  <2>1. "socks" \notin Made("socks") /\ Made("probe") = Made("socks") \cup {"socks"}
    BY MadeValues, <1>c, Zenon
  <2> QED
    BY <2>1, <1>3, <1>b, <1>c, CleanMake, Zenon DEF StartSocks, Fail
<1>7. LaunchForward(k) \/ DelayEnds(k) \/ FinallyForward(k) => CleanInv'
  <2> SUFFICES ASSUME LaunchForward(k) \/ DelayEnds(k) \/ FinallyForward(k) PROVE CleanInv'
    BY Zenon
  <2>1. UNCHANGED <<up, owner, job, enabled, object, main, cancelled, hurried>> /\ owner[k] \in Objects
    BY <1>a, Zenon DEF LaunchForward, DelayEnds, FinallyForward, service
  <2>2. \A o \in Objects, f \in Servers : field'[o][f] = field[o][f]
    <3>1. \/ field' = field
          \/ \E v : field' = [field EXCEPT ![owner[k]]["tun2socks"] = v]
      BY Zenon DEF LaunchForward, DelayEnds, FinallyForward, CancelForward, service
    <3>2. field \in [Objects -> [Fields -> Loops \cup {None}]] /\ "tun2socks" \notin Servers
      BY <1>0, <1>c, Zenon DEF ServiceInv
    <3>3. CASE field' = field
      BY <3>3, Zenon
    <3>4. ASSUME NEW v, field' = [field EXCEPT ![owner[k]]["tun2socks"] = v]
          PROVE  \A o \in Objects, f \in Servers : field'[o][f] = field[o][f]
      BY <3>2, <3>4 DEF Fields
    <3> QED
      BY <3>1, <3>3, <3>4, Zenon
  <2>3. \A j \in Loops : pc'[j] = pc[j] \/ pc'[j] \notin SettingUp \cup {"queued"}
    BY <1>m, <1>b, Zenon DEF LaunchForward, DelayEnds, FinallyForward
  <2> QED
    BY <2>1, <2>2, <2>3, CleanFrame, Zenon
<1>8. FinallyGateway(k) \/ FinallySocks(k) => CleanInv'
  <2> SUFFICES ASSUME FinallyGateway(k) \/ FinallySocks(k) PROVE CleanInv'
    BY Zenon
  <2>1. UNCHANGED <<owner, job, enabled, object, main, cancelled, hurried>> /\ owner[k] \in Objects
    BY <1>a, Zenon DEF FinallyGateway, FinallySocks
  <2>2. \A j \in Loops : pc'[j] = pc[j] \/ pc'[j] \notin SettingUp \cup {"queued"}
    BY <1>m, <1>b, Zenon DEF FinallyGateway, FinallySocks
  <2>3. TakenDown' = TakenDown
    BY <2>1, Zenon DEF TakenDown
  <2>4. Release(owner[k], "gateway") \/ Release(owner[k], "socks")
    BY Zenon DEF FinallyGateway, FinallySocks
  <2> QED
    BY <2>1, <2>2, <2>3, <2>4, <1>c, CleanRelease, Zenon
<1> QED
  BY <1>1, <1>2, <1>4, <1>5, <1>6, <1>7, <1>8, Zenon DEF Loop

LEMMA CleanNext == ASSUME TypeInv, JobInv, CleanInv, Next PROVE CleanInv'
<1>1. Tap \/ ReceiveStats \/ Reopen => CleanInv'
  BY CleanFrame, Zenon DEF Tap, ReceiveStats, Reopen, service, loops
<1>d. ProcessDies => CleanInv'
  <2> SUFFICES ASSUME ProcessDies, NEW o \in Objects PROVE FoundInv(o)' /\ EmptyInv(o)' /\ MakingInv(o)'
    BY Zenon DEF CleanInv
  <2>1. up' = {} /\ \A k \in Loops : pc'[k] \in {"none", "ended"}
    BY Zenon DEF ProcessDies
  <2>2. \A f \in Servers : field'[o][f] = None
    BY Zenon DEF ProcessDies, Servers, Fields
  <2>3. TakenDown' \subseteq Servers
    BY Zenon DEF TakenDown, Servers
  <2>4. MakingInv(o)'
    BY <2>1, Zenon DEF MakingInv, SettingUp
  <2> QED
    BY <2>1, <2>2, <2>3, <2>4, Zenon DEF FoundInv, EmptyInv
<1>2. ASSUME NEW k \in Loops, Forward(k) PROVE CleanInv'
  BY <1>2, CleanFrame, Zenon DEF Forward, service
<1> QED
  BY <1>1, <1>d, <1>2, CleanMain, CleanLoop, Zenon DEF Next

IInv == TypeInv /\ JobInv /\ ShownInv /\ CleanInv

LEMMA IndInit == Init => IInv
<1> SUFFICES ASSUME Init PROVE IInv
  BY Zenon
<1>1. ShownInv
  <2>1. ui = FALSE /\ casts = <<>> /\ ~alive
    BY Zenon DEF Init
  <2> QED
    BY <2>1, Zenon DEF ShownInv, Shown
<1> QED
  BY <1>1, TypeInit, JobInit, CleanInit, Zenon DEF IInv

LEMMA IndNext == ASSUME IInv, [Next]_vars PROVE IInv'
<1>1. TypeInv /\ JobInv /\ ShownInv /\ CleanInv
  BY Zenon DEF IInv
<1>2. TypeInv'
  BY <1>1, TypeNext, Zenon
<1>3. Next => JobInv' /\ ShownInv' /\ CleanInv'
  BY <1>1, JobNext, ShownNext, CleanNext, Zenon
<1>4. UNCHANGED vars => JobInv'
  <2> SUFFICES ASSUME UNCHANGED vars PROVE JobInv'
    BY Zenon
  <2>1. UNCHANGED <<object, alive, main, quits, enabled, job, owner, pc, cancelled, noTun>>
    BY Zenon DEF vars, service, loops
  <2>2. \A o \in Objects : (job'[o] # None <=> enabled'[o] /\ main' = "idle")
    BY <1>1, <2>1, Zenon DEF JobInv
  <2>3. \A o \in Objects : job'[o] # None =>
          job'[o] \notin cancelled' /\ (pc'[job'[o]] = "ended" => job'[o] \in noTun' \/ o \in quits')
    BY <1>1, <2>1, Zenon DEF JobInv
  <2>4. \A o \in Objects : enabled'[o] => o = object' /\ alive'
    BY <1>1, <2>1, Zenon DEF JobInv
  <2>5. \A k \in Loops : pc'[k] \in {"fin1", "fin2", "fin3"} => k \in cancelled'
    BY <1>1, <2>1, Zenon DEF JobInv
  <2>6. \A k \in cancelled' : owner'[k] # None
    BY <1>1, <2>1, Zenon DEF JobInv
  <2> QED
    BY <2>2, <2>3, <2>4, <2>5, <2>6, Zenon DEF JobInv
<1>5. UNCHANGED vars => ShownInv'
  <2>1. UNCHANGED vars => UNCHANGED <<casts, ui, fresh, main, commands, alive, enabled, object>>
    BY Zenon DEF vars, screen, service
  <2>2. UNCHANGED <<casts, ui>> => Shown' = Shown
    BY Zenon DEF Shown
  <2> QED
    BY <1>1, <2>1, <2>2, Zenon DEF ShownInv
<1>6. UNCHANGED vars => CleanInv'
  BY <1>1, CleanFrame, Zenon DEF vars, service, loops
<1> QED
  BY <1>2, <1>3, <1>4, <1>5, <1>6, Zenon DEF IInv

LEMMA CleanFollows == IInv => CleanAfterStop
<1> SUFFICES ASSUME IInv, NEW o \in 1..object, o < object \/ ~alive, o \notin hurried,
                    NEW p \in up, owner[p[2]] = o
             PROVE  FALSE
  BY Zenon DEF CleanAfterStop
<1>0. object \in 0..MaxEvents
  BY NewestObject, Zenon DEF IInv, TypeInv
<1>1. o \in Objects
  BY <1>0, EventsAssumption DEF Objects
<1>2. ~enabled[o]
  BY <1>1, NewestObject DEF IInv, TypeInv, JobInv
<1>3. FoundInv(o) /\ EmptyInv(o)
  BY <1>1, Zenon DEF IInv, CleanInv
<1>4. p[1] \in Servers /\ p[2] \in Loops
  BY Here, Zenon DEF IInv
<1>5. field[o][p[1]] = p[2] /\ field[o][p[1]] = None
  BY <1>2, <1>3, <1>4, Zenon DEF FoundInv, EmptyInv
<1> QED
  BY <1>4, <1>5, NoneAssumption DEF Loops

LEMMA SettlesFollows == IInv => ScreenSettles
<1> SUFFICES ASSUME IInv, Quiet
             PROVE  IF alive /\ enabled[object]
                    THEN /\ ui \/ fresh
                         /\ job[object] # None /\ (pc[job[object]] = "delay" \/ job[object] \in noTun)
                    ELSE ~ui
  BY Zenon DEF ScreenSettles
<1>1. ShownInv /\ JobInv /\ TypeInv
  BY Zenon DEF IInv
<1>2. Shown = ui /\ main = "idle" /\ commands = <<>>
  BY Zenon DEF Quiet, Shown
<1>3. (ui => alive /\ enabled[object]) /\ (alive /\ enabled[object] => ui \/ fresh)
  BY <1>1, <1>2, Zenon DEF ShownInv
<1>4. ASSUME alive, enabled[object]
      PROVE  job[object] # None /\ (pc[job[object]] = "delay" \/ job[object] \in noTun)
  <2>1. object \in Objects /\ job[object] # None
    BY <1>1, <1>2, <1>4, Here, Zenon DEF JobInv
  <2>2. job[object] \in Loops /\ owner[job[object]] = object
    BY <1>1, <2>1, Here, Zenon
  <2>3. pc[job[object]] \in {"none", "ended", "delay"}
    BY <2>2, Zenon DEF Quiet, Ended
  <2>4. pc[job[object]] # "none"
    BY <1>1, <2>1, <2>2, NoneAssumption DEF TypeInv, OwnInv, Objects
  <2>5. pc[job[object]] = "ended" => job[object] \in noTun \/ object \in quits
    BY <1>1, <2>1, Zenon DEF JobInv
  <2>6. object \notin quits
    BY <1>4, Zenon DEF Quiet
  <2> QED
    BY <2>1, <2>3, <2>4, <2>5, <2>6, Zenon
<1> QED
  BY <1>3, <1>4, Zenon

\* After onDestroy nothing of a service object is left behind, whichever step
\* of the start failed, however often the button was tapped, and whenever the
\* process died and was started again: unless the object was stopped in the
\* middle of a start, its fields lead stopVpnService to every interface and
\* server its loops have made.
THEOREM NothingLeftBehind == Spec => []CleanAfterStop
<1>1. Init => IInv
  BY IndInit, Zenon
<1>2. IInv /\ [Next]_vars => IInv'
  BY IndNext, Zenon
<1>3. IInv => CleanAfterStop
  BY CleanFollows, Zenon
<1> QED
  BY <1>1, <1>2, <1>3, PTL DEF Spec

\* However the taps, the commands and the broadcasts interleave, and whenever
\* the screen is closed and opened again or the process dies, the screen
\* agrees with the service once nothing is left to do and it has heard of it,
\* and a service that is on has a loop that runs or got no interface.
THEOREM ScreenAgrees == Spec => []ScreenSettles
<1>1. Init => IInv
  BY IndInit, Zenon
<1>2. IInv /\ [Next]_vars => IInv'
  BY IndNext, Zenon
<1>3. IInv => ScreenSettles
  BY SettlesFollows, Zenon
<1> QED
  BY <1>1, <1>2, <1>3, PTL DEF Spec
=============================================================================
