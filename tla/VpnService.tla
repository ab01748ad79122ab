---------------------------- MODULE VpnService ----------------------------
(***************************************************************************)
(* TonShieldVpnService: start and stop of the Android VPN, with the screen *)
(* (VpnViewModel) that sends the commands and shows the broadcast state.   *)
(*                                                                         *)
(* The main thread runs onStartCommand, onDestroy and stopVpnService; each *)
(* start launches a coroutine, a loop, that runs runVpnTunnelLoop on       *)
(* another thread.  cancel() only takes effect where the loop suspends, in *)
(* delay.  A destroyed service object may still have loops, and a later    *)
(* command makes a new object.  The screen may be closed and opened again  *)
(* at any time, and the process that holds all of this may die.            *)
(***************************************************************************)
EXTENDS Naturals, Sequences, FiniteSets

CONSTANTS
    MaxEvents,   \* bound on the taps of the button and the deaths of the process
    None

ASSUME EventsAssumption == MaxEvents \in Nat \ {0}
ASSUME NoneAssumption == None \notin Nat

Objects == 1..MaxEvents   \* service objects; each comes from one command or restart
Loops   == 1..MaxEvents   \* coroutines; each comes from one start command

VARIABLES
    ui,          \* isVpnEnabled of the screen
    fresh,       \* the screen has received no broadcast since it was made
    events,      \* taps and deaths so far
    commands,    \* intents the main thread has not handled yet
    casts,       \* ACTION_VPN_STATS broadcasts not received yet
    object,      \* the newest service object, 0 before the first
    alive,       \* it has not been destroyed
    main,        \* the main thread: "idle", or where stopVpnService is
    dying,       \* stopVpnService was called by onDestroy
    quits,       \* objects for which stopSelf was called
    enabled,     \* vpnEnabled of each object
    native,      \* its nativeInitialized
    job,         \* its packetLoopJob
    field,       \* what vpnInterface, secureDnsGateway, localSocks5Server and
                 \* tun2SocksJob hold: the loop that made it, or None
    owner,       \* the object each loop belongs to
    pc,          \* where each loop is
    cancelled,   \* loops that were cancelled
    up,          \* tunnel interfaces and servers that exist: <<kind, loop>>
    forward,     \* the tun2socks coroutine of each loop
    noTun,       \* loops for which establish returned no interface
    hurried      \* objects that were stopped while a loop was starting, or
                 \* started while an earlier loop had not ended

screen  == <<ui, fresh, events, commands, casts>>
service == <<object, alive, main, dying, quits, enabled, native, job, field>>
loops   == <<owner, pc, cancelled, up, forward, noTun>>
vars    == <<screen, service, loops, hurried>>

Fields  == {"tun", "gateway", "socks", "tun2socks"}
Servers == {"tun", "gateway", "socks"}

Init ==
    /\ ui = FALSE  /\ fresh = TRUE  /\ events = 0  /\ commands = <<>>  /\ casts = <<>>
    /\ object = 0  /\ alive = FALSE  /\ main = "idle"  /\ dying = FALSE  /\ quits = {}
    /\ enabled = [o \in Objects |-> FALSE]
    /\ native  = [o \in Objects |-> FALSE]
    /\ job     = [o \in Objects |-> None]
    /\ field   = [o \in Objects |-> [f \in Fields |-> None]]
    /\ owner   = [k \in Loops |-> None]
    /\ pc      = [k \in Loops |-> "none"]
    /\ forward = [k \in Loops |-> "none"]
    /\ cancelled = {}  /\ up = {}  /\ noTun = {}  /\ hurried = {}

Ended     == {"none", "ended"}
SettingUp == {"init", "establish", "gateway", "socks", "probe", "forward"}
Active(k) == pc[k] \notin Ended

Goto(k, l)  == pc' = [pc EXCEPT ![k] = l]
StopSelf(o) == quits' = quits \cup {o}

\* tun2socks_terminate ends the native loop, of whichever session it is.
Terminate == forward' = [k \in Loops |-> IF forward[k] = "running" THEN "ended" ELSE forward[k]]

\* cancel() of a tun2socks coroutine: one not begun never begins.
CancelForward(o) ==
    LET k == field[o]["tun2socks"] IN
    /\ field' = [field EXCEPT ![o]["tun2socks"] = None]
    /\ forward' = [j \in Loops |-> IF j = k /\ forward[j] = "queued" THEN "ended" ELSE forward[j]]

ForgetOnly(o, f) ==
    /\ field' = [field EXCEPT ![o][f] = None]
    /\ UNCHANGED up

\* stop() or close() of what the field holds, then the field is cleared.
Release(o, f) ==
    /\ up' = up \ {<<f, field[o][f]>>}
    /\ field' = [field EXCEPT ![o][f] = None]

(***************************************************************************)
(* The screen.                                                             *)
(***************************************************************************)

\* The button: stop when the screen says on, else start once the permission
\* is there; the screen changes at once.
Tap ==
    /\ events < MaxEvents
    /\ events' = events + 1
    /\ commands' = Append(commands, IF ui THEN "stop" ELSE "start")
    /\ ui' = ~ui
    /\ UNCHANGED <<fresh, casts, service, loops, hurried>>

ReceiveStats ==
    /\ casts # <<>>
    /\ ui' = Head(casts)
    /\ fresh' = FALSE
    /\ casts' = Tail(casts)
    /\ UNCHANGED <<events, commands, service, loops, hurried>>

\* A new VpnViewModel starts with VpnUiState(), off.  The receiver of the old
\* one is gone, and with it the broadcasts it has not received.
NewScreen ==
    /\ ui' = FALSE
    /\ fresh' = TRUE
    /\ casts' = <<>>

\* The activity is finished and, after any time, opened again.
Reopen ==
    /\ NewScreen
    /\ UNCHANGED <<events, commands, service, loops, hurried>>

(***************************************************************************)
(* The main thread.                                                        *)
(***************************************************************************)

\* emitStatsUpdate.
EmitStats(b) == casts' = Append(casts, b)

\* The system makes a service object for a command when there is none.
CreateObject ==
    /\ main = "idle"  /\ commands # <<>>  /\ ~alive
    /\ object' = object + 1
    /\ alive' = TRUE
    /\ UNCHANGED <<screen, main, dying, quits, enabled, native, job, field, loops, hurried>>

\* onStartCommand with ACTION_START_VPN.
StartAgain ==
    /\ main = "idle"  /\ alive  /\ commands # <<>>  /\ Head(commands) = "start"
    /\ enabled[object]
    /\ commands' = Tail(commands)
    /\ EmitStats(TRUE)
    /\ UNCHANGED <<ui, fresh, events, service, loops, hurried>>

JobActive == job[object] # None /\ Active(job[object]) /\ job[object] \notin cancelled

StartCommand ==
    /\ main = "idle"  /\ alive  /\ commands # <<>>  /\ Head(commands) = "start"
    /\ ~enabled[object]
    /\ IF JobActive
       THEN UNCHANGED <<owner, pc, job, hurried>>
       ELSE \E k \in Loops :
            /\ owner[k] = None  /\ \A j \in 1..(k - 1) : owner[j] # None
            /\ owner' = [owner EXCEPT ![k] = object]
            /\ Goto(k, "queued")
            /\ job' = [job EXCEPT ![object] = k]
            /\ hurried' = IF \E j \in Loops : owner[j] = object /\ Active(j)
                          THEN hurried \cup {object} ELSE hurried
    /\ commands' = Tail(commands)
    /\ enabled' = [enabled EXCEPT ![object] = TRUE]
    /\ EmitStats(TRUE)
    /\ UNCHANGED <<ui, fresh, events, object, alive, main, dying, quits, native, field, cancelled, up,
                   forward, noTun>>

\* stopVpnService, called for ACTION_STOP_VPN and by onDestroy: it cancels
\* the coroutines first.
StopBegins ==
    /\ cancelled' = cancelled \cup ({job[object]} \ {None})
    /\ job' = [job EXCEPT ![object] = None]
    /\ CancelForward(object)
    /\ hurried' = IF \E k \in Loops : owner[k] = object /\ pc[k] \in SettingUp
                  THEN hurried \cup {object} ELSE hurried
    /\ main' = "servers"

StopCommand ==
    /\ main = "idle"  /\ alive  /\ commands # <<>>  /\ Head(commands) = "stop"
    /\ commands' = Tail(commands)
    /\ StopBegins
    /\ UNCHANGED <<ui, fresh, events, casts, object, alive, dying, quits, enabled, native,
                   owner, pc, up, noTun>>

OnDestroy ==
    /\ main = "idle"  /\ alive  /\ object \in quits
    /\ dying' = TRUE
    /\ StopBegins
    /\ UNCHANGED <<screen, object, alive, quits, enabled, native, owner, pc, up, noTun>>

\* Then tun2socks and the DNS gateway, the SOCKS server, the interface.
StopGateway ==
    /\ main = "servers"  /\ main' = "socks"
    /\ Terminate
    /\ Release(object, "gateway")
    /\ UNCHANGED <<screen, object, alive, dying, quits, enabled, native, job,
                   owner, pc, cancelled, noTun, hurried>>

StopSocks ==
    /\ main = "socks"  /\ main' = "tun"
    /\ Release(object, "socks")
    /\ UNCHANGED <<screen, object, alive, dying, quits, enabled, native, job,
                   owner, pc, cancelled, forward, noTun, hurried>>

StopTun ==
    /\ main = "tun"  /\ main' = "last"
    /\ Release(object, "tun")
    /\ UNCHANGED <<screen, object, alive, dying, quits, enabled, native, job,
                   owner, pc, cancelled, forward, noTun, hurried>>

\* stopSelf, vpnEnabled, the broadcast; the scope is cancelled and replaced.
StopEnds ==
    /\ main = "last"  /\ main' = "idle"
    /\ StopSelf(object)
    /\ enabled' = [enabled EXCEPT ![object] = FALSE]
    /\ EmitStats(FALSE)
    /\ forward' = [k \in Loops |-> IF owner[k] = object /\ forward[k] = "queued"
                                   THEN "ended" ELSE forward[k]]
    /\ cancelled' = cancelled \cup {k \in Loops : owner[k] = object}
    /\ alive' = ~dying
    /\ dying' = FALSE
    /\ UNCHANGED <<ui, fresh, events, commands, object, native, job, field,
                   owner, pc, up, noTun, hurried>>

(***************************************************************************)
(* runVpnTunnelLoop.  A start that fails calls stopSelf and returns.       *)
(***************************************************************************)

\* A coroutine cancelled before it began never runs.
LoopBegins(k) ==
    /\ pc[k] = "queued"
    /\ Goto(k, IF k \in cancelled THEN "ended"
               ELSE IF native[owner[k]] THEN "establish" ELSE "init")
    /\ UNCHANGED <<screen, service, owner, cancelled, up, forward, noTun, hurried>>

FailSilently(k) ==
    /\ Goto(k, "ended")
    /\ UNCHANGED quits

Fail(k) ==
    /\ Goto(k, "ended")
    /\ StopSelf(owner[k])

\* ensureNativeInitialized: configuration, peer and ADNL context.
InitNative(k) ==
    /\ pc[k] = "init"
    /\ \/ /\ Goto(k, "establish")
          /\ native' = [native EXCEPT ![owner[k]] = TRUE]
          /\ UNCHANGED quits
       \/ Fail(k) /\ UNCHANGED native
    /\ UNCHANGED <<screen, object, alive, main, dying, enabled, job, field, owner, cancelled, up,
                   forward, noTun, hurried>>

\* Without an interface the loop returns and leaves everything as it is.
EstablishTunInterface(k) ==
    /\ pc[k] = "establish"
    /\ \/ /\ Goto(k, "ended")
          /\ noTun' = noTun \cup {k}
          /\ UNCHANGED <<field, up>>
       \/ /\ Goto(k, "gateway")
          /\ up' = up \cup {<<"tun", k>>}
          /\ field' = [field EXCEPT ![owner[k]]["tun"] = k]
          /\ UNCHANGED noTun
    /\ UNCHANGED <<screen, object, alive, main, dying, quits, enabled, native, job, owner,
                   cancelled, forward, hurried>>

\* SecureDnsGateway.start: nothing catches a failing bind, see ProcessDies.
StartGateway(k) ==
    /\ pc[k] = "gateway"
    /\ Goto(k, "socks")
    /\ up' = up \cup {<<"gateway", k>>}
    /\ field' = [field EXCEPT ![owner[k]]["gateway"] = k]
    /\ UNCHANGED <<screen, object, alive, main, dying, quits, enabled, native, job, owner,
                   cancelled, forward, noTun, hurried>>

PortTaken == \E j \in Loops : <<"socks", j>> \in up

StartSocks(k) ==
    /\ pc[k] = "socks"
    /\ \/ /\ ~PortTaken
          /\ Goto(k, "probe")
          /\ up' = up \cup {<<"socks", k>>}
          /\ field' = [field EXCEPT ![owner[k]]["socks"] = k]
          /\ UNCHANGED quits
       \/ Fail(k) /\ UNCHANGED <<up, field>>
    /\ UNCHANGED <<screen, object, alive, main, dying, enabled, native, job, owner, cancelled,
                   forward, noTun, hurried>>

\* verifyLocalSocksServerReady: a connection to the port, which may time out.
Probe(k) ==
    /\ pc[k] = "probe"
    /\ \/ PortTaken /\ Goto(k, "forward") /\ UNCHANGED quits
       \/ Fail(k)
    /\ UNCHANGED <<screen, object, alive, main, dying, enabled, native, job, field, owner, cancelled,
                   up, forward, noTun, hurried>>

\* tun2socks gets a coroutine of the scope the field holds now.
LaunchForward(k) ==
    /\ pc[k] = "forward"
    /\ Goto(k, "delay")
    /\ forward' = [forward EXCEPT ![k] = "queued"]
    /\ field' = [field EXCEPT ![owner[k]]["tun2socks"] = k]
    /\ UNCHANGED <<screen, object, alive, main, dying, quits, enabled, native, job, owner, cancelled,
                   up, noTun, hurried>>

DelayChecksScope(k) ==
    /\ pc[k] = "delay"  /\ k \in cancelled  /\ main = "last"
    /\ Goto(k, "fin1")
    /\ UNCHANGED <<screen, service, owner, cancelled, up, forward, noTun, hurried>>

\* serviceScope.isActive is read from the field, whose scope is never a
\* cancelled one; delay throws when this coroutine was cancelled.
DelayEnds(k) ==
    /\ pc[k] = "delay"  /\ k \in cancelled
    /\ Goto(k, "fin1")
    /\ UNCHANGED <<screen, service, owner, cancelled, up, forward, noTun, hurried>>

\* finally: whatever the fields hold now is stopped.
FinallyGateway(k) ==
    /\ pc[k] = "fin1"
    /\ Goto(k, "fin2")
    /\ Terminate
    /\ Release(owner[k], "gateway")
    /\ UNCHANGED <<screen, object, alive, main, dying, quits, enabled, native, job, owner, cancelled,
                   noTun, hurried>>

FinallySocks(k) ==
    /\ pc[k] = "fin2"
    /\ Goto(k, "fin3")
    /\ Release(owner[k], "socks")
    /\ UNCHANGED <<screen, object, alive, main, dying, quits, enabled, native, job, owner, cancelled,
                   forward, noTun, hurried>>

FinallyForward(k) ==
    /\ pc[k] = "fin3"
    /\ Goto(k, "ended")
    /\ CancelForward(owner[k])
    /\ UNCHANGED <<screen, object, alive, main, dying, quits, enabled, native, job, owner, cancelled,
                   up, noTun, hurried>>

\* The tun2socks coroutine enters the native loop, which may end by itself.
Forward(k) ==
    /\ \/ forward[k] = "queued" /\ forward' = [forward EXCEPT ![k] = "running"]
       \/ forward[k] = "running" /\ forward' = [forward EXCEPT ![k] = "ended"]
    /\ UNCHANGED <<screen, service, owner, pc, cancelled, up, noTun, hurried>>

(***************************************************************************)
(* The process is killed, by the system or by an exception that leaves a   *)
(* coroutine: the objects, the loops and the screen are gone, and the      *)
(* kernel closes what they had opened.  Commands not handled yet stay with *)
(* the system; without any it may call onStartCommand, with a null intent, *)
(* of a service whose last one returned START_STICKY.  That is a start.    *)
(***************************************************************************)
Sticky == enabled[object] /\ object \notin quits

ProcessDies ==
    /\ alive  /\ events < MaxEvents
    /\ events' = events + 1
    /\ NewScreen
    /\ \/ UNCHANGED commands
       \/ commands = <<>> /\ Sticky /\ commands' = <<"start">>
    /\ alive' = FALSE  /\ main' = "idle"  /\ dying' = FALSE
    /\ enabled' = [o \in Objects |-> FALSE]
    /\ native'  = [o \in Objects |-> FALSE]
    /\ job'     = [o \in Objects |-> None]
    /\ field'   = [o \in Objects |-> [f \in Fields |-> None]]
    /\ pc'      = [k \in Loops |-> IF pc[k] = "none" THEN "none" ELSE "ended"]
    /\ forward' = [k \in Loops |-> IF forward[k] = "none" THEN "none" ELSE "ended"]
    /\ up' = {}
    /\ UNCHANGED <<object, quits, owner, cancelled, noTun, hurried>>

-----------------------------------------------------------------------------
Main ==
    \/ CreateObject \/ StartAgain \/ StartCommand \/ StopCommand \/ OnDestroy
    \/ StopGateway \/ StopSocks \/ StopTun \/ StopEnds

Loop(k) ==
    \/ LoopBegins(k) \/ InitNative(k) \/ EstablishTunInterface(k) \/ StartGateway(k)
    \/ StartSocks(k) \/ Probe(k) \/ LaunchForward(k) \/ DelayEnds(k)
    \/ FinallyGateway(k) \/ FinallySocks(k) \/ FinallyForward(k)

Next ==
    \/ Tap \/ ReceiveStats \/ Reopen \/ Main \/ ProcessDies
    \/ \E k \in Loops : Loop(k) \/ Forward(k)

\* The main thread, the coroutines and the broadcasts make progress; the
\* user need not tap, and tun2socks need not end.
Fairness ==
    /\ WF_vars(Main)
    /\ WF_vars(ReceiveStats)
    /\ \A k \in Loops : WF_vars(Loop(k))

Spec == Init /\ [][Next]_vars /\ Fairness

-----------------------------------------------------------------------------
\* The types of the variables; a field of an object names a loop of that
\* object, and what exists was made by a loop that has run.
TypeOK ==
    /\ commands \in Seq({"start", "stop"})  /\ casts \in Seq(BOOLEAN)
    /\ object \in 0..MaxEvents  /\ main \in {"idle", "servers", "socks", "tun", "last"}
    /\ \A o \in Objects, f \in Fields :
        field[o][f] # None => field[o][f] \in Loops /\ owner[field[o][f]] = o
    /\ \A k \in Loops : pc[k] \in Ended \cup SettingUp \cup {"queued", "delay", "fin1", "fin2", "fin3"}
    /\ forward \in [Loops -> {"none", "queued", "running", "ended"}]
    /\ \A p \in up : p[1] \in Servers /\ pc[p[2]] \notin {"none", "queued"}

\* The loops of a destroyed service object end, however far their start was
\* when it was stopped.
DestroyedLoopsEnd ==
    []<>(\A k \in Loops : owner[k] # None /\ (owner[k] < object \/ ~alive) => ~Active(k))

\* After onDestroy, and when its loops have ended, a service object that was
\* not stopped in the middle of a start has left no interface and no server
\* behind, whichever step of the start failed.
CleanAfterStop ==
    \A o \in 1..object :
        /\ o < object \/ ~alive
        /\ o \notin hurried
        /\ \A k \in Loops : owner[k] = o => ~Active(k)
        => ~\E p \in up : owner[p[2]] = o

Quiet ==
    /\ main = "idle"  /\ commands = <<>>  /\ casts = <<>>
    /\ ~(alive /\ object \in quits)
    /\ \A k \in Loops : pc[k] \in Ended \cup {"delay"} /\ (pc[k] = "delay" => k \notin cancelled)

\* When nothing is left to do, the screen shows the state of the service, and
\* a service that is on has a loop that runs or got no interface: a start
\* that failed otherwise has been turned off again, on the screen too.  Only a
\* screen that was made while the service was on, and has heard nothing since,
\* shows off although it is on.
ScreenSettles ==
    Quiet =>
        IF alive /\ enabled[object]
        THEN /\ ui \/ fresh
             /\ job[object] # None /\ (pc[job[object]] = "delay" \/ job[object] \in noTun)
        ELSE ~ui
=============================================================================
