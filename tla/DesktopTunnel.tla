--------------------------- MODULE DesktopTunnel ---------------------------
(***************************************************************************)
(* The Windows program of TON-Tunnel.cpp: the window thread that starts    *)
(* and stops a session (ADNL client, core, SOCKS server, Wintun bridge),   *)
(* and the system proxy it borrows from the user and has to give back,     *)
(* also after a crash.                                                     *)
(*                                                                         *)
(* The registry, the state file and the user's own choice outlive the      *)
(* process; everything else is lost with it.  RegSetValueExW writes are    *)
(* single steps, so a death can fall between any two of them.  A user's    *)
(* proxy is a model value that stands for its server and its bypass list.  *)
(***************************************************************************)
EXTENDS Naturals, Sequences, FiniteSets, TLC

CONSTANTS
    Ports,        \* values socks5_port may have in the configuration
    DefaultPort,  \* 1080
    UserProxies,  \* proxies the user may have chosen
    Lookalikes,   \* those of them whose address contains 127.0.0.1:1080
    None,         \* no server, no file, no owner
    MaxLives,     \* bound on the processes started one after another
    MaxStarts,    \* bound on the sessions of one process
    MaxPackets    \* bound on g_adnlInboundQueue

ASSUME BoundsAssumption ==
    /\ DefaultPort \in Ports /\ Ports \subseteq Nat /\ None \notin Ports
    /\ MaxLives \in Nat /\ MaxStarts \in Nat \ {0} /\ MaxPackets \in Nat

VARIABLES
    reg,       \* ProxyEnable, ProxyServer, ProxyOverride under HKEY_CURRENT_USER
    file,      \* ton-proxy-state.txt
    wish,      \* the proxy the user has chosen last; None is a direct connection
    lives,     \* processes started
    pc,        \* the window thread and the thread in an exception filter
    todo,      \* registry writes the thread has still to do
    back,      \* where the window thread goes on after stopCore
    prev,      \* g_prevProxy
    status,    \* what the status label says
    starts,    \* sessions begun by this process
    port,      \* cfgFile.socksPort
    adnl,      \* g_adnlHandle is started
    inq,       \* g_adnlInboundQueue: the session each packet was received in
    core,      \* the receiver thread of g_core runs
    socks,     \* the port g_socks5 listens on
    held,      \* what g_bridge has acquired
    marred     \* history: what has happened that the code cannot make good

disk    == <<reg, file, wish, lives>>
session == <<starts, port, adnl, inq, core, socks, held>>
vars    == <<disk, pc, todo, back, prev, status, session, marred>>

Threads == {"main", "filter"}
Ton(p)  == <<"socks=127.0.0.1", p>>
BridgeOrder == <<"dll", "adapter", "session", "lwip", "thread">>
Parts   == {BridgeOrder[i] : i \in 1..Len(BridgeOrder)}
Chosen(u) == [proxy |-> u, bypass |-> u]

\* A user's proxy is not a value this program writes, even if its address
\* contains the one recoverStaleTonProxyIfNeeded looks for.
ASSUME ProxiesAssumption ==
    /\ None \notin UserProxies /\ Lookalikes \subseteq UserProxies
    /\ \A p \in Ports : Ton(p) \notin UserProxies \cup {None}
    /\ \A u \in UserProxies \cup {None} : Chosen(u) # None

NotCaptured == [captured |-> FALSE, state |-> Chosen(None)]

\* What a program that honours the settings connects through.
Effective == IF reg.enable /\ reg.server # None
             THEN [proxy |-> reg.server, bypass |-> reg.override] ELSE Chosen(None)

ProcessInit ==
    /\ pc = [t \in Threads |-> "off"]  /\ todo = [t \in Threads |-> <<>>]
    /\ back = "idle"  /\ prev = NotCaptured  /\ status = "idle"  /\ starts = 0
    /\ port = DefaultPort  /\ adnl = FALSE  /\ inq = <<>>  /\ core = FALSE
    /\ socks = None  /\ held = {}

Init ==
    /\ wish \in UserProxies \cup {None}
    /\ \E s \in UserProxies \cup {None} :
          /\ wish # None => s = wish
          /\ reg = [enable |-> wish # None, server |-> s, override |-> s]
    /\ file = None /\ lives = 0
    /\ ProcessInit
    /\ marred = {}

Goto(t, l) == pc' = [pc EXCEPT ![t] = l]

\* Ways in which the settings get lost; the actions say when each happens.
\*   denied    Windows refused a call that save, restore or recovery needs
\*   stray     a process died with the proxy at a port recovery does not find
\*   torn      a process died between writes that belong together
\*   unsaved   a process died in a later session, which saves no state file
\*   raced     the exception filter ran while the window thread set the proxy
\*   outdated  the user changed the settings after g_prevProxy was captured
\*   mistaken  the user's own proxy was taken for one of an earlier run
Losses == {"denied", "stray", "torn", "unsaved", "raced", "outdated", "mistaken"}
Mar(m) == marred' = marred \cup {m}

----------------------------------------------------------------------------
(* The state file and the registry writes.                                 *)

\* The writes that put back what was saved: a proxy, or none at all.
SettingsWrites(s) ==
    IF s.proxy # None
    THEN << <<"server", s.proxy>>, <<"override", s.bypass>>, <<"enable", TRUE>> >>
    ELSE << <<"enable", FALSE>> >>

\* applySystemSocksProxy; <local> is nobody's bypass list.
ApplyWrites(p) ==
    << <<"enable", TRUE>>, <<"server", Ton(p)>>, <<"override", None>> >>

\* One RegSetValueExW of thread t.
WriteNext(t) ==
    /\ todo[t] # <<>>
    /\ reg' = [reg EXCEPT ![Head(todo[t])[1]] = Head(todo[t])[2]]
    /\ todo' = [todo EXCEPT ![t] = Tail(@)]
    /\ IF pc[t] = "applying" /\ pc["filter"] # "off" THEN Mar("raced") ELSE UNCHANGED marred
    /\ UNCHANGED <<file, wish, lives, pc, back, prev, status, session>>

\* The ports p for which the text 127.0.0.1:p contains 127.0.0.1:1080.
FoundPorts == {p \in Ports : p = DefaultPort \/ p \div 10 = DefaultPort}

\* No proxy is ever taken for one of an earlier run.
NeverStale == FALSE

\* ProxyEnable = 1 and ProxyServer contains 127.0.0.1:1080.
StaleTonProxy == reg.enable /\ reg.server \in Lookalikes \cup {Ton(p) : p \in FoundPorts}

\* The system proxy is this program's, at one of the given ports.
ProxyAt(ports) == reg.enable /\ reg.server \in {Ton(p) : p \in ports}

\* wWinMain, then WM_CREATE up to recoverStaleTonProxyIfNeeded.
Launch ==
    /\ pc["main"] = "off" /\ lives < MaxLives
    /\ lives' = lives + 1
    /\ Goto("main", "recover")
    /\ UNCHANGED <<reg, file, wish, todo, back, prev, status, session, marred>>

\* recoverStaleTonProxyIfNeeded; without a file the proxy is switched off.
Recover ==
    /\ pc["main"] = "recover"
    /\ \/ /\ ~StaleTonProxy
          /\ Goto("main", "created") /\ UNCHANGED <<todo, marred>>
       \/ /\ StaleTonProxy
          /\ Goto("main", "recovering")
          /\ todo' = [todo EXCEPT !["main"] = SettingsWrites(IF file = None THEN Chosen(None) ELSE file)]
          /\ IF reg.server \in UserProxies THEN Mar("mistaken") ELSE UNCHANGED marred
       \/ /\ Goto("main", "created") /\ Mar("denied") /\ UNCHANGED todo
    /\ UNCHANGED <<disk, back, prev, status, session>>

\* deleteProxyStateFile, the end of a recovery and of a restore.
DeleteFile(t) ==
    /\ pc[t] \in {"recovering", "restoring"} /\ todo[t] = <<>>
    /\ file' = None
    /\ Goto(t, IF t = "filter" THEN "dump"
               ELSE IF pc[t] = "recovering" THEN "created" ELSE "stopBridge")
    /\ UNCHANGED <<reg, wish, lives, todo, back, prev, status, session, marred>>

\* The rest of WM_CREATE posts kMsgAutoStart, which is dispatched next.
AutoStart ==
    /\ pc["main"] = "created"
    /\ starts' = starts + 1
    /\ back' = "config" /\ Goto("main", "restore")
    /\ UNCHANGED <<disk, todo, prev, status, port, adnl, inq, core, socks, held, marred>>

\* restoreSystemProxy up to its writes; `captured' stays set.
RestoreBegin(t) ==
    /\ pc[t] = "restore"
    /\ LET done == IF t = "main" THEN "stopBridge" ELSE "dump"
       IN \/ /\ ~prev.captured
             /\ Goto(t, done) /\ UNCHANGED <<todo, marred>>
          \/ /\ prev.captured
             /\ Goto(t, "restoring")
             /\ todo' = [todo EXCEPT ![t] = SettingsWrites(prev.state)]
             /\ UNCHANGED marred
          \/ /\ prev.captured
             /\ Goto(t, done) /\ Mar("denied") /\ UNCHANGED todo
    /\ UNCHANGED <<disk, back, prev, status, session>>

----------------------------------------------------------------------------
(* stopCore and startTunnel, on the window thread.                         *)

\* What the window thread leaves alone between two registry accesses.
aside == <<disk, todo, prev, marred>>

\* WintunLwipBridge::stop; an object whose start failed is not running.
StopBridge ==
    /\ pc["main"] = "stopBridge"
    /\ held' = IF "thread" \in held THEN {} ELSE held
    /\ Goto("main", "stopSocks")
    /\ UNCHANGED <<aside, back, status, starts, port, adnl, inq, core, socks>>

StopSocks ==
    /\ pc["main"] = "stopSocks"
    /\ socks' = None
    /\ Goto("main", "stopCore")
    /\ UNCHANGED <<aside, back, status, starts, port, adnl, inq, core, held>>

\* g_core->stop() joins the receiver; g_core.reset() destroys the last owner
\* of the DirectAdnlBackend, whose destructor calls stop().
StopCore ==
    /\ pc["main"] = "stopCore"
    /\ core' = FALSE
    /\ IF core THEN inq' = <<>> ELSE UNCHANGED inq
    /\ Goto("main", "stopAdnl")
    /\ UNCHANGED <<aside, back, status, starts, port, adnl, socks, held>>

\* ton_adnl_client_stop and _destroy: no callback after this.
StopAdnl ==
    /\ pc["main"] = "stopAdnl"
    /\ adnl' = FALSE
    /\ Goto("main", "stopped")
    /\ UNCHANGED <<aside, back, status, starts, port, inq, core, socks, held>>

\* stopCore ends without clearing the queue a second time.
StopEndKeeping == UNCHANGED inq

\* stopCore clears g_adnlInboundQueue after the backend is gone.
StopEndClearing == inq' = <<>>

StopEnd ==
    /\ pc["main"] = "stopped"
    /\ StopEndClearing
    /\ status' = "stopped"
    /\ Goto("main", back) /\ back' = "idle"
    /\ UNCHANGED <<aside, starts, port, adnl, core, socks, held>>

\* loadRuntimeConfig fails, or gives the port.
ReadConfig ==
    /\ pc["main"] = "config"
    /\ \/ Goto("main", "idle") /\ UNCHANGED port
       \/ \E p \in Ports : port' = p /\ Goto("main", "startAdnl")
    /\ UNCHANGED <<aside, back, status, starts, adnl, inq, core, socks, held>>

\* DirectAdnlBackend::start; on failure the handle is destroyed again.
StartAdnl ==
    /\ pc["main"] = "startAdnl"
    /\ \/ adnl' = TRUE /\ Goto("main", "startCore")
       \/ UNCHANGED adnl /\ Goto("main", "restore")
    /\ UNCHANGED <<aside, back, status, starts, port, inq, core, socks, held>>

\* TonClientCore::start cannot fail with a backend.
StartCore ==
    /\ pc["main"] = "startCore"
    /\ core' = TRUE /\ Goto("main", "startSocks")
    /\ UNCHANGED <<aside, back, status, starts, port, adnl, inq, socks, held>>

StartSocks ==
    /\ pc["main"] = "startSocks"
    /\ \/ socks' = port /\ Goto("main", "capture")
       \/ UNCHANGED socks /\ Goto("main", "restore")
    /\ UNCHANGED <<aside, back, status, starts, port, adnl, inq, core, held>>

\* captureSystemProxyState asks WinInet, unless a capture is already there; then
\* nothing is saved either, although restoreSystemProxy has deleted the file.
Capture ==
    /\ pc["main"] = "capture"
    /\ \/ /\ prev.captured
          /\ Goto("main", "apply") /\ UNCHANGED <<prev, marred>>
       \/ /\ ~prev.captured
          /\ prev' = [captured |-> TRUE, state |-> Effective]
          /\ Goto("main", "save") /\ UNCHANGED marred
       \/ /\ ~prev.captured
          /\ Mar("denied") /\ Goto("main", "apply") /\ UNCHANGED prev
    /\ UNCHANGED <<disk, todo, back, status, session>>

\* The state is kept in memory only.
NotSaved == UNCHANGED file

\* The three lines are in the file once the ofstream is closed.
Saved == file' = prev.state

\* The state file is truncated and then written; not when it cannot be opened.
Save ==
    /\ \/ pc["main"] = "save" /\ file' = None /\ Goto("main", "saving") /\ UNCHANGED marred
       \/ pc["main"] = "save" /\ Mar("denied") /\ Goto("main", "apply") /\ UNCHANGED file
       \/ pc["main"] = "saving" /\ Saved /\ Goto("main", "apply") /\ UNCHANGED marred
    /\ UNCHANGED <<reg, wish, lives, todo, back, prev, status, session>>

\* applySystemSocksProxy opens the key; a failure is only logged.
ApplyBegin ==
    /\ pc["main"] = "apply"
    /\ \/ Goto("main", "applying") /\ todo' = [todo EXCEPT !["main"] = ApplyWrites(port)]
       \/ Goto("main", "startBridge") /\ UNCHANGED todo
    /\ UNCHANGED <<disk, back, prev, status, session, marred>>

ApplyEnd ==
    /\ pc["main"] = "applying" /\ todo["main"] = <<>>
    /\ Goto("main", "startBridge")
    /\ UNCHANGED <<aside, back, status, session>>

\* A session that cannot be started leaves its adapter open.
UndoLeavingAdapter(part) == IF part = "lwip" THEN {"session", "adapter", "dll"} ELSE {"dll"}

\* What each failing step of WintunLwipBridge::start releases by itself.
Undo(part) ==
    CASE part = "dll"     -> {}
      [] part = "adapter" -> {"dll"}
      [] part = "session" -> {"adapter", "dll"}
      [] part = "lwip"    -> {"session", "adapter", "dll"}

\* WintunLwipBridge::start: wintun.dll, adapter, session and lwIP netif, each
\* of which may fail, then the read thread.  A failure is only logged.
StartBridge ==
    /\ pc["main"] = "startBridge"
    /\ LET part == BridgeOrder[1 + Cardinality(held)]
       IN \/ /\ held' = held \cup {part}
             /\ IF part = "thread" THEN Goto("main", "idle") /\ status' = "running"
                ELSE UNCHANGED <<pc, status>>
          \/ /\ part # "thread"
             /\ held' = held \ Undo(part)
             /\ Goto("main", "idle") /\ status' = "running"
    /\ UNCHANGED <<aside, back, starts, port, adnl, inq, core, socks>>

\* The START button, enabled while no session runs.
PressStart ==
    /\ pc["main"] = "idle" /\ status # "running" /\ starts < MaxStarts
    /\ starts' = starts + 1
    /\ back' = "config" /\ Goto("main", "restore")
    /\ UNCHANGED <<aside, status, port, adnl, inq, core, socks, held>>

PressStop ==
    /\ pc["main"] = "idle" /\ status = "running"
    /\ back' = "idle" /\ Goto("main", "restore")
    /\ UNCHANGED <<aside, status, session>>

\* WM_DESTROY: stopCore, then the message loop ends.
CloseWindow ==
    /\ pc["main"] = "idle"
    /\ back' = "quit" /\ Goto("main", "restore")
    /\ UNCHANGED <<aside, status, session>>

----------------------------------------------------------------------------
(* Packets, the user, and the ways a process ends.                         *)

\* onAdnlMessage, on the thread of the ADNL runtime.
Deliver ==
    /\ adnl /\ Len(inq) < MaxPackets
    /\ inq' = Append(inq, starts)
    /\ UNCHANGED <<disk, pc, todo, back, prev, status, starts, port, adnl, core, socks, held, marred>>

\* receivePacket, on the receiver thread of the core.
ReceivePacket ==
    /\ core /\ inq # <<>>
    /\ inq' = Tail(inq)
    /\ UNCHANGED <<disk, pc, todo, back, prev, status, starts, port, adnl, core, socks, held, marred>>

\* The user changes the settings while no session runs.  That ends a loss, but
\* for what may have put this program's address into g_prevProxy or the file.
UserSets ==
    /\ \/ pc["main"] = "off"
       \/ pc["main"] = "idle" /\ status # "running" /\ pc["filter"] = "off"
    /\ \E u \in UserProxies \cup {None} :
          /\ u # wish
          /\ wish' = u
          /\ reg' = IF u = None THEN [reg EXCEPT !.enable = FALSE]
                    ELSE [enable |-> TRUE, server |-> u, override |-> u]
    /\ marred' = (marred \cap {"denied", "stray"}) \cup (IF prev.captured THEN {"outdated"} ELSE {})
    /\ UNCHANGED <<file, lives, pc, todo, back, prev, status, session>>

\* All the memory of the process is gone.
ProcessGone ==
    /\ pc' = [t \in Threads |-> "off"]  /\ todo' = [t \in Threads |-> <<>>]
    /\ back' = "idle"  /\ prev' = NotCaptured  /\ status' = "idle"  /\ starts' = 0
    /\ port' = DefaultPort  /\ adnl' = FALSE  /\ inq' = <<>>  /\ core' = FALSE
    /\ socks' = None  /\ held' = {}

\* Writes of a group are missing, and the next run will not complete it.
HalfWritten == (\E t \in Threads : todo[t] # <<>>) /\ ~(StaleTonProxy /\ file # None)

\* What a death at this point loses.
Damage ==
    {m \in {"stray", "torn", "unsaved"} :
        \/ m = "stray"   /\ ProxyAt(Ports \ FoundPorts)
        \/ m = "torn"    /\ HalfWritten
        \/ m = "unsaved" /\ ProxyAt(Ports) /\ file = None /\ starts > 1}

Quit ==
    /\ pc["main"] = "quit" /\ ProcessGone
    /\ marred' = marred \cup Damage
    /\ UNCHANGED disk

\* The process is killed, or the machine loses power.
Kill ==
    /\ pc["main"] # "off" /\ ProcessGone
    /\ marred' = marred \cup Damage
    /\ UNCHANGED disk

\* unhandledExceptionFilter or onTerminate, on any thread of a session: it
\* restores the proxy while the other threads go on.
Exception ==
    /\ pc["main"] \notin {"off", "quit"} /\ pc["filter"] = "off"
    /\ Goto("filter", "restore")
    /\ UNCHANGED <<disk, todo, back, prev, status, session, marred>>

\* The dump is written and the process ends.
Abort ==
    /\ pc["filter"] = "dump" /\ ProcessGone
    /\ marred' = marred \cup Damage
    /\ UNCHANGED disk

Stop  == StopBridge \/ StopSocks \/ StopCore \/ StopAdnl \/ StopEnd
Start == \/ AutoStart \/ ReadConfig \/ StartAdnl \/ StartCore \/ StartSocks
         \/ Capture \/ Save \/ ApplyBegin \/ ApplyEnd \/ StartBridge
User  == Launch \/ PressStart \/ PressStop \/ CloseWindow \/ UserSets
Proxy(t) == WriteNext(t) \/ DeleteFile(t) \/ RestoreBegin(t)
Death == Quit \/ Kill \/ Exception \/ Abort

Next == \/ User \/ Recover \/ Start \/ Stop \/ Death \/ Deliver \/ ReceivePacket
        \/ \E t \in Threads : Proxy(t)

Spec == Init /\ [][Next]_vars

----------------------------------------------------------------------------
(* Properties.                                                             *)

\* The types of the variables; only a server is ever written where a server
\* belongs, and only a bypass list where a bypass list belongs.
TypeOK ==
    /\ reg.enable \in BOOLEAN
    /\ reg.server \in UserProxies \cup {None} \cup {Ton(p) : p \in Ports}
    /\ reg.override \in UserProxies \cup {None}
    /\ file = None \/ file.bypass \in UserProxies \cup {None}
    /\ wish \in UserProxies \cup {None} /\ lives \in 0..MaxLives
    /\ prev.captured \in BOOLEAN /\ status \in {"idle", "stopped", "running"}
    /\ starts \in 0..MaxStarts /\ port \in Ports /\ socks \in Ports \cup {None}
    /\ {adnl, core} \subseteq BOOLEAN /\ marred \subseteq Losses
    /\ held \subseteq Parts /\ Len(inq) <= MaxPackets

AtRest == pc["main"] = "idle" /\ pc["filter"] = "off"

\* Whenever the window thread is at rest, the system proxy is not an address
\* of this program at which nothing listens: neither a failed start, nor a
\* stop, nor a death of an earlier process, nor the exception filter racing
\* the start leaves the user without a connection ("Restore connectivity when
\* stale localhost proxy remains after crash.").  Not so after a death with a
\* socks5_port that recoverStaleTonProxyIfNeeded does not look for ("stray"),
\* or after a refused call.
ProxyHasListener ==
    AtRest /\ marred \cap {"denied", "stray"} = {} =>
        \A p \in Ports : Effective.proxy = Ton(p) => socks = p

\* While no session runs, the settings are the user's own again, through stops,
\* failed starts, kills and crashes at every point of any session of any
\* process, with the exceptions that Losses names: the first capture of a
\* process is on disk before the first write to the registry and is deleted
\* after the last one, and later sessions restore the same capture.
RestoredUnlessLost ==
    AtRest /\ status # "running" /\ marred = {} => Effective = Chosen(wish)

\* A packet the core receives was received by the ADNL client of the same
\* session: what arrives between the end of the receiver and the end of the
\* ADNL runtime is not left for the next session, whose stream ids start again
\* at 1.
PacketsOfThisSession ==
    core => \A i \in 1..Len(inq) : inq[i] = starts

\* A bridge that did not start holds neither the DLL nor an adapter nor a
\* session, and after stopCore nothing of it is left.
BridgeReleased ==
    AtRest => held \in (IF status = "running" THEN {{}, Parts} ELSE {{}})
=============================================================================
