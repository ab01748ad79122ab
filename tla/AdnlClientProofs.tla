--------------------------- MODULE AdnlClientProofs ---------------------------
(***************************************************************************)
(* Proofs about AdnlClient, for any threads, configurations and bounds.    *)
(* The inductive invariant IInv says, of one runtime, how far its          *)
(* initialisation has come (RuntimeInv), of the two users which runtime    *)
(* they have made, published and not yet destroyed at each of their places *)
(* (AndroidInv, DesktopInv), of a sender that the runtime it read is still *)
(* the published one (SenderInv), and of the receive queue that only the   *)
(* published runtime, or the one about to be, has put packets into it      *)
(* (QueueInv).                                                             *)
(***************************************************************************)
EXTENDS AdnlClient, TLAPS

\* The calls posted to the Adnl actor, carried out or not
Posted(h) == done[h] \cup {box[h][i] : i \in 1..Len(box[h])}

\* One runtime: it has its configuration and callback from its creation on, the
\* calls are posted in order, and it is ready only in its loop and after them.
RuntimeAt(h) ==
    /\ h \in 1..made => rt[h].cfg \in Configs /\ rt[h].callback
    /\ h \notin 1..made => rt[h].thread = "off" /\ ~rt[h].deleted
    /\ rt[h].thread \in {"off", "ended"} => ~rt[h].ready
    /\ rt[h].thread = "off" => box[h] = <<>> /\ ~rt[h].running
    /\ rt[h].ready => rt[h].adnl /\ Calls \subseteq Posted(h)
    /\ rt[h].thread \in DOMAIN After => ~rt[h].ready
    /\ rt[h].thread \in {"key", "peer", "advertise", "ready"} \cup Calls => rt[h].adnl
    /\ rt[h].thread \in {"addPeer", "subscribe", "ready"} => "addId" \in Posted(h)
    /\ rt[h].thread \in {"subscribe", "ready"} => "addPeer" \in Posted(h)
    /\ rt[h].thread = "ready" => "subscribe" \in Posted(h)
    /\ rt[h].deleted => Joined(h) /\ ~rt[h].running

RuntimeInv == \A h \in Runtimes : RuntimeAt(h)

\* The published runtime exists, runs and was not destroyed.
Live(h) ==
    h \in 1..made /\ rt[h].running /\ ~rt[h].deleted /\ ~Joined(h)

\* A thread in initialize: only the holder of the monitor is past its second
\* look at nativeContextPtr, and then nothing is published but what it made.
CallerInv(c) ==
    /\ pc[c] # "idle" => want[c] \in Configs
    /\ pc[c] \in {"configure", "replace", "create", "start", "publish"} => ctx = 0
    /\ pc[c] \in Critical \ {"record"} => ptr = 0
    /\ pc[c] \in Critical => runtimeConfig = None
    /\ pc[c] \in {"replace", "create"} => pending = want[c]
    /\ pc[c] \in {"start", "publish", "assign", "record"} =>
          new \in 1..made /\ rt[new].cfg = want[c] /\ ~rt[new].deleted
    /\ pc[c] = "start" => rt[new].thread = "off"
    /\ pc[c] = "publish" => Live(new)
    /\ pc[c] \in {"assign", "record"} => ctx = new
    /\ pc[c] = "record" => ptr = new

AndroidInv ==
    host = "android" =>
        /\ pc["main"] = "idle"
        /\ ctx # 0 => started /\ Live(ctx)
        /\ \A c \in Callers : CallerInv(c)
        /\ lock = None => ctx = ptr
        /\ lock = None /\ ctx # 0 => runtimeConfig = rt[ctx].cfg
        /\ runtimeConfig # None => ctx # 0

DesktopInv ==
    host = "desktop" =>
        /\ lock = None /\ runtimeConfig = None
        /\ \A c \in Callers : pc[c] = "idle"
        /\ pc["main"] \in {"clearAgain", "create"} => ctx = 0
        /\ pc["main"] = "create" => want["main"] \in Configs
        /\ pc["main"] = "start" => ctx \in 1..made /\ rt[ctx].thread = "off"
        /\ pc["main"] \in {"clear", "stop", "join"} => ctx # 0
        /\ ctx # 0 /\ pc["main"] \notin {"start", "join"} => Live(ctx)
        /\ ctx # 0 => ctx \in 1..made /\ ~rt[ctx].deleted
        /\ ctx # 0 /\ pc["main"] = "join" => ~rt[ctx].running
        /\ pc["main"] \notin {"idle", "joinSenders"} => \A s \in Senders : at[s] = "gone"
        /\ serving => pc["main"] = "idle"
        /\ pc["main"] \notin {"enter", "configure", "replace", "publish", "assign", "record"}

\* A sender works on the published runtime.
SenderInv ==
    \A s \in Senders :
        /\ at[s] \in {"send", "post"} => ctx # 0 /\ hold[s] = ctx
        /\ at[s] = "post" => rt[hold[s]].ready

\* The published runtime, or the one initialize started and is about to publish
Owned(h) == h = ctx \/ \E c \in Callers : pc[c] = "publish" /\ h = new

\* Only an owned runtime has a thread; packets of others are found in the queue
\* only by stopCore, which is about to clear it.
QueueInv ==
    /\ \A h \in Runtimes : ~Joined(h) => Owned(h)
    /\ pc["main"] # "clearAgain" => \A i \in 1..Len(queue) : Owned(queue[i])

IInv == TypeOK /\ RuntimeInv /\ AndroidInv /\ DesktopInv /\ SenderInv /\ PeerKnownFirst /\ QueueInv

\* The places of init_adnl_udp and what follows each
LEMMA AfterPlaces ==
    /\ DOMAIN After = {"parse", "create", "key", "peer", "advertise", "addId", "addPeer", "subscribe", "ready"}
    /\ After["parse"] = "create" /\ After["create"] = "key" /\ After["key"] = "peer"
    /\ After["peer"] = "advertise" /\ After["advertise"] = "addId" /\ After["addId"] = "addPeer"
    /\ After["addPeer"] = "subscribe" /\ After["subscribe"] = "ready" /\ After["ready"] = "loop"
BY Zenon DEF After

\* The ranges of the handles
LEMMA Numbers == MaxRuntimes \in Nat /\ MaxArrived \in Nat /\ 0 \in 0..MaxRuntimes /\ 0 \in 0..MaxArrived
BY BoundsAssumption

LEMMA Ranges ==
    ASSUME TypeOK
    PROVE  /\ made \in Nat /\ 1..made \subseteq Runtimes
           /\ made < MaxRuntimes => made + 1 \in Runtimes /\ made + 1 \in 1..MaxRuntimes
           /\ ctx \in Nat /\ (ctx # 0 => ctx \in Runtimes)
<1>1. made \in 0..MaxRuntimes /\ ctx \in 0..MaxRuntimes
  BY Zenon DEF TypeOK
<1> QED
  BY <1>1, Numbers DEF Runtimes

\* A step of init_adnl_udp leaves a runtime a runtime.
LEMMA RuntimeMoves ==
    ASSUME NEW r \in Runtime, r.thread \in DOMAIN After
    PROVE  /\ \A ok \in BOOLEAN : [r EXCEPT !.thread = IF ok THEN After[@] ELSE "loop", !.ready = @ /\ ok] \in Runtime
           /\ [r EXCEPT !.thread = After[@]] \in Runtime
           /\ [r EXCEPT !.thread = After[@], !.ready = TRUE] \in Runtime
           /\ [r EXCEPT !.thread = After[@], !.adnl = TRUE] \in Runtime
<1>1. After[r.thread] \in {"loop"} \cup DOMAIN After
  BY AfterPlaces, Zenon
<1>2. r.ready \in BOOLEAN
  BY Zenon DEF Runtime
<1>3. \A ok \in BOOLEAN : (r.ready /\ ok) \in BOOLEAN
  BY <1>2, Zenon
<1>4. \A ok \in BOOLEAN : (IF ok THEN After[r.thread] ELSE "loop") \in {"loop"} \cup DOMAIN After
  BY <1>1, Zenon
<1>5. \A t \in {"loop"} \cup DOMAIN After, b \in BOOLEAN : [r EXCEPT !.thread = t, !.ready = b] \in Runtime
  BY Zenon DEF Runtime
<1>6. ASSUME NEW ok \in BOOLEAN PROVE [r EXCEPT !.thread = IF ok THEN After[@] ELSE "loop", !.ready = @ /\ ok] \in Runtime
  BY <1>3, <1>4, <1>5, Zenon
<1>7. [r EXCEPT !.thread = After[@]] \in Runtime
  BY <1>1, Zenon DEF Runtime
<1>8. [r EXCEPT !.thread = After[@], !.ready = TRUE] \in Runtime
  BY <1>1, Zenon DEF Runtime
<1>9. [r EXCEPT !.thread = After[@], !.adnl = TRUE] \in Runtime
  BY <1>1, Zenon DEF Runtime
<1> QED
  BY <1>6, <1>7, <1>8, <1>9, Zenon

\* What a step of init_adnl_udp that posts nothing does to its runtime
Checked(h) ==
    /\ rt[h].thread \in {"parse", "create", "key", "peer", "advertise", "ready"}
    /\ rt'[h].thread \in {"loop", After[rt[h].thread]}
    /\ rt'[h].ready => rt[h].thread = "ready" \/ rt[h].ready
    /\ rt[h].adnl \/ rt[h].thread = "create" => rt'[h].adnl
    /\ UNCHANGED <<box, done>>

Called(h) ==
    /\ rt[h].thread \in Calls
    /\ rt'[h].thread = After[rt[h].thread]
    /\ (rt'[h].ready => rt[h].ready) /\ (rt[h].adnl => rt'[h].adnl)
    /\ box' = [box EXCEPT ![h] = Append(@, rt[h].thread)]
    /\ UNCHANGED done

Stopped(h) ==
    /\ rt[h].thread = "loop" /\ ~rt[h].running
    /\ rt'[h].thread = "ended" /\ ~rt'[h].ready
    /\ UNCHANGED <<box, done>>

Sliced(h) ==
    /\ {rt[h].thread, rt'[h].thread} \subseteq {"loop", "run"}
    /\ rt'[h].ready = rt[h].ready /\ rt'[h].adnl = rt[h].adnl
    /\ UNCHANGED <<box, done>>

\* The runtime keeps what only the C API changes.
Kept(h) ==
    /\ rt' \in [Runtimes -> Runtime]
    /\ \A g \in Runtimes \ {h} : rt'[g] = rt[g]
    /\ rt'[h].cfg = rt[h].cfg /\ rt'[h].callback = rt[h].callback
    /\ rt'[h].running = rt[h].running /\ rt'[h].deleted = rt[h].deleted

\* A step of the scheduler thread is one of the four, or the Adnl actor's.
LEMMA SchedulerMoves ==
    ASSUME TypeOK, RuntimeInv, NEW h \in Runtimes, Scheduler(h)
    PROVE  Kept(h) /\ (Checked(h) \/ Called(h) \/ Sliced(h) \/ Stopped(h) \/ Take(h))
<1>1. rt[h] \in Runtime /\ rt \in [Runtimes -> Runtime]
  BY Zenon DEF TypeOK
<1> DEFINE r == rt[h]
<1>c. ASSUME rt[h].thread \in DOMAIN After PROVE rt[h].cfg \in Config
  BY <1>c, AfterPlaces, SetsAssumption, Zenon DEF RuntimeInv, RuntimeAt
<1>2. ASSUME InitCheck(h) PROVE Kept(h) /\ Checked(h)
  <2>1. ASSUME NEW ok \in BOOLEAN, Proceed(h, ok), rt[h].thread \in {"parse", "key", "peer", "advertise"}
        PROVE  Kept(h) /\ rt'[h].thread \in {"loop", After[rt[h].thread]} /\ (rt'[h].ready => rt[h].ready) /\ rt'[h].adnl = rt[h].adnl
    <3>1. rt[h].thread \in DOMAIN After
      BY <2>1, AfterPlaces, Zenon
    <3> DEFINE n == [rt[h] EXCEPT !.thread = IF ok THEN After[@] ELSE "loop", !.ready = @ /\ ok]
    <3>2. n \in Runtime
      BY <3>1, <1>1, RuntimeMoves, Zenon
    <3>3. rt' = [rt EXCEPT ![h] = n]
      BY <2>1, <1>1, Zenon DEF Proceed, Runtime
    <3>4. /\ n.cfg = rt[h].cfg /\ n.callback = rt[h].callback /\ n.running = rt[h].running 
          /\ n.deleted = rt[h].deleted /\ n.adnl = rt[h].adnl
          /\ n.thread = IF ok THEN After[rt[h].thread] ELSE "loop"
          /\ n.ready = (rt[h].ready /\ ok)
      BY <1>1, Zenon DEF Runtime
    <3> HIDE DEF n
    <3>5. rt' \in [Runtimes -> Runtime] /\ rt'[h] = n /\ \A g \in Runtimes \ {h} : rt'[g] = rt[g]
      BY <3>2, <3>3, <1>1, Zenon
    <3> QED
      BY <3>4, <3>5, Zenon DEF Kept
  <2>2. rt[h].thread \in {"parse", "key", "peer", "advertise"} /\ \E ok \in BOOLEAN : Proceed(h, ok)
    <3>1. rt[h].thread \in {"parse", "key", "peer", "advertise"}
      BY <1>2, Zenon DEF InitCheck
    <3>2. rt[h].cfg.egress \in BOOLEAN
      BY <3>1, <1>c, AfterPlaces, Zenon DEF Config
    <3>3. Imports(rt[h].cfg) \in BOOLEAN /\ Advertises(rt[h].cfg) \in BOOLEAN
      BY <3>1, <1>c, AfterPlaces, Zenon DEF Config, Imports, Advertises
    <3> QED
      BY <1>2, <3>1, <3>2, <3>3, Zenon DEF InitCheck
  <2> QED
    BY <2>1, <2>2, <1>2, <1>1, Zenon DEF Checked, InitCheck, Runtime
<1>3. ASSUME InitCreate(h) PROVE Kept(h) /\ Checked(h)
  <2>1. [rt[h] EXCEPT !.thread = After[@], !.adnl = TRUE] \in Runtime
    BY <1>3, <1>1, RuntimeMoves, AfterPlaces, Zenon DEF InitCreate
  <2>2. rt' = [rt EXCEPT ![h] = [rt[h] EXCEPT !.thread = After[@], !.adnl = TRUE]]
    BY <1>3, <1>1, Zenon DEF InitCreate, Runtime
  <2> QED
    BY <1>3, <1>1, <2>1, <2>2 DEF Kept, Checked, InitCreate, Runtime
<1>4. ASSUME Slice(h) PROVE Kept(h) /\ Sliced(h)
  <2>1. PICK t \in {"loop", "run"} : rt' = [rt EXCEPT ![h].thread = t]
    BY <1>4, Zenon DEF Slice
  <2> DEFINE n == [rt[h] EXCEPT !.thread = t]
  <2>2. n \in Runtime
    BY <1>1, Zenon DEF Runtime
  <2>3. rt' = [rt EXCEPT ![h] = n]
    BY <2>1, <1>1, Zenon DEF Runtime
  <2>4. /\ n.cfg = rt[h].cfg /\ n.callback = rt[h].callback /\ n.running = rt[h].running
        /\ n.deleted = rt[h].deleted /\ n.adnl = rt[h].adnl /\ n.ready = rt[h].ready /\ n.thread = t
    BY <1>1, Zenon DEF Runtime
  <2> HIDE DEF n
  <2>5. rt' \in [Runtimes -> Runtime] /\ rt'[h] = n /\ \A g \in Runtimes \ {h} : rt'[g] = rt[g]
    BY <2>2, <2>3, <1>1, Zenon
  <2>6. rt[h].thread \in {"loop", "run"} /\ UNCHANGED <<box, done>>
    BY <1>4, Zenon DEF Slice
  <2> QED
    BY <2>4, <2>5, <2>6, Zenon DEF Kept, Sliced
<1>5. ASSUME InitCall(h) PROVE Kept(h) /\ Called(h)
  <2>1. [rt[h] EXCEPT !.thread = After[@]] \in Runtime
    BY <1>5, <1>1, RuntimeMoves, AfterPlaces, Zenon DEF InitCall, Calls
  <2>2. rt' = [rt EXCEPT ![h] = [rt[h] EXCEPT !.thread = After[@]]]
    BY <1>5, <1>1, Zenon DEF InitCall, Runtime
  <2> QED
    BY <1>5, <1>1, <2>1, <2>2 DEF Kept, Called, InitCall, Runtime
<1>6. ASSUME InitReady(h) PROVE Kept(h) /\ Checked(h)
  <2>1. [rt[h] EXCEPT !.thread = After[@], !.ready = TRUE] \in Runtime
    BY <1>6, <1>1, RuntimeMoves, AfterPlaces, Zenon DEF InitReady
  <2>2. rt' = [rt EXCEPT ![h] = [rt[h] EXCEPT !.thread = After[@], !.ready = TRUE]]
    BY <1>6, <1>1, Zenon DEF InitReady, Runtime
  <2> QED
    BY <1>6, <1>1, <2>1, <2>2 DEF Kept, Checked, InitReady, Runtime
<1>7. ASSUME Take(h) PROVE Kept(h)
  BY <1>7, <1>1, Zenon DEF Take, Kept
<1>8. ASSUME Shutdown(h) PROVE Kept(h) /\ Stopped(h)
  BY <1>8, <1>1 DEF Shutdown, Kept, Stopped, Runtime
<1> QED
  BY <1>2, <1>3, <1>4, <1>5, <1>6, <1>7, <1>8, Zenon DEF Scheduler

\* ton_adnl_client_create with its callback
LEMMA CreateMoves ==
    ASSUME TypeOK, NEW h \in Runtimes, NEW c \in Configs, Create(h, c)
    PROVE  /\ rt' \in [Runtimes -> Runtime] /\ made' = h
           /\ \A g \in Runtimes \ {h} : rt'[g] = rt[g]
           /\ rt'[h].cfg = c /\ rt'[h].callback /\ ~rt'[h].running /\ ~rt'[h].ready
           /\ ~rt'[h].deleted /\ rt'[h].thread = "off"
<1> DEFINE n == [NoRuntime EXCEPT !.cfg = c, !.callback = TRUE]
<1>1. n \in Runtime
  BY Zenon DEF Runtime, NoRuntime
<1>2. n.cfg = c /\ n.callback /\ ~n.running /\ ~n.ready /\ ~n.deleted /\ n.thread = "off"
  BY Zenon DEF NoRuntime
<1>3. made' = h /\ rt' = [rt EXCEPT ![h] = n]
  BY Zenon DEF Create
<1> HIDE DEF n
<1> QED
  BY <1>1, <1>2, <1>3, Zenon DEF TypeOK

LEMMA StartMoves ==
    ASSUME TypeOK, NEW h \in Runtimes, StartRuntime(h)
    PROVE  /\ rt' \in [Runtimes -> Runtime]
           /\ \A g \in Runtimes \ {h} : rt'[g] = rt[g]
           /\ rt'[h].cfg = rt[h].cfg /\ rt'[h].callback = rt[h].callback
           /\ rt'[h].deleted = rt[h].deleted /\ rt'[h].ready = rt[h].ready
           /\ rt'[h].running /\ rt'[h].thread = "parse"
<1>1. rt[h] \in Runtime /\ rt \in [Runtimes -> Runtime]
  BY Zenon DEF TypeOK
<1> DEFINE n == [rt[h] EXCEPT !.running = TRUE, !.thread = "parse"]
<1>2. n \in Runtime
  BY <1>1, AfterPlaces, Zenon DEF Runtime
<1>3. n.cfg = rt[h].cfg /\ n.callback = rt[h].callback /\ n.deleted = rt[h].deleted /\ n.ready = rt[h].ready /\ n.running /\ n.thread = "parse"
  BY <1>1, Zenon DEF Runtime
<1>4. rt' = [rt EXCEPT ![h] = n]
  BY <1>1, Zenon DEF StartRuntime, Runtime
<1> HIDE DEF n
<1> QED
  BY <1>1, <1>2, <1>3, <1>4, Zenon

LEMMA StopMoves ==
    ASSUME TypeOK, NEW h \in Runtimes, StopRuntime(h)
    PROVE  /\ rt' \in [Runtimes -> Runtime]
           /\ \A g \in Runtimes \ {h} : rt'[g] = rt[g]
           /\ rt'[h].cfg = rt[h].cfg /\ rt'[h].callback = rt[h].callback
           /\ rt'[h].deleted = rt[h].deleted /\ rt'[h].ready = rt[h].ready
           /\ rt'[h].adnl = rt[h].adnl /\ rt'[h].thread = rt[h].thread
           /\ ~rt'[h].running
<1>1. rt[h] \in Runtime /\ rt \in [Runtimes -> Runtime]
  BY Zenon DEF TypeOK
<1> DEFINE n == [rt[h] EXCEPT !.running = FALSE]
<1>2. n \in Runtime
  BY <1>1, AfterPlaces, Zenon DEF Runtime
<1>3. n.cfg = rt[h].cfg /\ n.callback = rt[h].callback /\ n.deleted = rt[h].deleted /\ n.ready = rt[h].ready /\ n.adnl = rt[h].adnl /\ n.thread = rt[h].thread /\ ~n.running
  BY <1>1, Zenon DEF Runtime
<1>4. rt' = [rt EXCEPT ![h] = n]
  BY <1>1, Zenon DEF StopRuntime, Runtime
<1> HIDE DEF n
<1> QED
  BY <1>1, <1>2, <1>3, <1>4, Zenon

LEMMA DestroyMoves ==
    ASSUME TypeOK, NEW h \in Runtimes, Destroy(h)
    PROVE  /\ rt' \in [Runtimes -> Runtime]
           /\ \A g \in Runtimes \ {h} : rt'[g] = rt[g] /\ box'[g] = box[g]
           /\ box' \in [Runtimes -> Seq(Calls \cup {"send"})] /\ box'[h] = <<>>
           /\ rt'[h].cfg = rt[h].cfg /\ rt'[h].callback = rt[h].callback
           /\ rt'[h].deleted /\ rt'[h].ready = rt[h].ready
           /\ rt'[h].running = rt[h].running /\ rt'[h].thread = rt[h].thread
<1>1. rt[h] \in Runtime /\ rt \in [Runtimes -> Runtime]
  BY Zenon DEF TypeOK
<1> DEFINE n == [rt[h] EXCEPT !.deleted = TRUE]
<1>2. n \in Runtime
  BY <1>1, AfterPlaces, Zenon DEF Runtime
<1>3. n.cfg = rt[h].cfg /\ n.callback = rt[h].callback /\ n.ready = rt[h].ready /\ n.running = rt[h].running /\ n.thread = rt[h].thread /\ n.deleted
  BY <1>1, Zenon DEF Runtime
<1>4. rt' = [rt EXCEPT ![h] = n]
  BY <1>1, Zenon DEF Destroy, Runtime
<1> HIDE DEF n
<1>5. box' \in [Runtimes -> Seq(Calls \cup {"send"})] /\ box'[h] = <<>> /\ \A g \in Runtimes \ {h} : box'[g] = box[g]
  BY DEF TypeOK, Destroy
<1> QED
  BY <1>1, <1>2, <1>3, <1>4, <1>5, Zenon

\* Messages of the Adnl actor's box
LEMMA AppendRange ==
    ASSUME NEW S, NEW s \in Seq(S), NEW x \in S
    PROVE  /\ Append(s, x) \in Seq(S) /\ Len(Append(s, x)) = Len(s) + 1
           /\ \A i \in 1..Len(s) : Append(s, x)[i] = s[i]
           /\ Append(s, x)[Len(s) + 1] = x
OBVIOUS

LEMMA TailRange ==
    ASSUME NEW S, NEW s \in Seq(S), s # <<>>
    PROVE  /\ Tail(s) \in Seq(S) /\ Len(Tail(s)) = Len(s) - 1 /\ Len(s) \in Nat \ {0}
           /\ \A i \in 1..(Len(s) - 1) : Tail(s)[i] = s[i + 1]
           /\ Head(s) = s[1] /\ Head(s) \in S
OBVIOUS

LEMMA PostedAppend ==
    ASSUME TypeOK, NEW h \in Runtimes, NEW x \in Calls \cup {"send"}, UNCHANGED done,
           box' = [box EXCEPT ![h] = Append(@, x)]
    PROVE  /\ box' \in [Runtimes -> Seq(Calls \cup {"send"})]
           /\ Posted(h) \cup {x} \subseteq Posted(h)'
           /\ \A g \in Runtimes \ {h} : box'[g] = box[g] /\ Posted(g)' = Posted(g)
<1>1. box[h] \in Seq(Calls \cup {"send"}) /\ Len(box[h]) \in Nat
  BY DEF TypeOK
<1>2. box'[h] = Append(box[h], x) /\ \A g \in Runtimes \ {h} : box'[g] = box[g]
  BY Zenon DEF TypeOK
<1>3. box' \in [Runtimes -> Seq(Calls \cup {"send"})]
  BY <1>1, AppendRange, Zenon DEF TypeOK
<1>4. Posted(h) \cup {x} \subseteq Posted(h)'
  BY <1>1, <1>2, AppendRange DEF Posted
<1> QED
  BY <1>2, <1>3, <1>4 DEF Posted

LEMMA PostedTake ==
    ASSUME TypeOK, NEW h \in Runtimes, Take(h)
    PROVE  /\ box' \in [Runtimes -> Seq(Calls \cup {"send"})]
           /\ done' \in [Runtimes -> SUBSET Calls]
           /\ Posted(h) \cap Calls \subseteq Posted(h)'
           /\ \A g \in Runtimes \ {h} : box'[g] = box[g] /\ done'[g] = done[g] /\ Posted(g)' = Posted(g)
<1>1. box[h] \in Seq(Calls \cup {"send"}) /\ box[h] # <<>>
  BY Zenon DEF TypeOK, Take
<1>2. box'[h] = Tail(box[h]) /\ \A g \in Runtimes \ {h} : box'[g] = box[g]
  BY Zenon DEF TypeOK, Take
<1>3. done'[h] = done[h] \cup ({Head(box[h])} \cap Calls) /\ \A g \in Runtimes \ {h} : done'[g] = done[g]
  BY Zenon DEF TypeOK, Take
<1>4. box' \in [Runtimes -> Seq(Calls \cup {"send"})]
  BY <1>1, TailRange, Zenon DEF TypeOK, Take
<1>5. done' \in [Runtimes -> SUBSET Calls]
  BY Zenon DEF TypeOK, Take
<1>6. ASSUME NEW i \in 1..Len(box[h]), box[h][i] \in Calls PROVE box[h][i] \in Posted(h)'
  <2>1. CASE i = 1
    BY <2>1, <1>6, <1>3, <1>1, TailRange, Zenon DEF Posted
  <2>2. CASE i # 1
    <3>1. i - 1 \in 1..Len(box'[h]) /\ box'[h][i - 1] = box[h][i]
      BY <2>2, <1>1, <1>2, TailRange
    <3> QED
      BY <3>1, Zenon DEF Posted
  <2> QED
    BY <2>1, <2>2, Zenon
<1>7. done[h] \subseteq Posted(h)'
  BY <1>3, Zenon DEF Posted
<1>8. Posted(h) \cap Calls \subseteq Posted(h)'
  BY <1>6, <1>7, Zenon DEF Posted
<1> QED
  BY <1>2, <1>3, <1>4, <1>5, <1>8 DEF Posted

\* Which user a thread at work belongs to, and what the monitor excludes
LEMMA CallerFacts ==
    ASSUME IInv, NEW c \in Callers, pc[c] # "idle"
    PROVE  /\ host = "android" /\ c \in Threads /\ c # "main" /\ c # None /\ want[c] \in Configs
           /\ AndroidInv /\ CallerInv(c)
           /\ pc[c] \in Critical => lock = c /\ \A d \in Callers \ {c} : pc[d] \notin Critical
BY SetsAssumption, Zenon DEF IInv, TypeOK, AndroidInv, DesktopInv, CallerInv, Threads

LEMMA MainFacts ==
    ASSUME IInv, pc["main"] # "idle"
    PROVE  host = "desktop" /\ "main" \in Threads /\ DesktopInv
BY Zenon DEF IInv, TypeOK, AndroidInv, Threads

\* Steps that leave the runtimes, or the queue, alone
LEMMA RuntimesSame ==
    ASSUME RuntimeInv, PeerKnownFirst, UNCHANGED runtimeVars
    PROVE  RuntimeInv' /\ PeerKnownFirst' /\ \A h : (Live(h) => Live(h)')
<1>1. UNCHANGED <<rt, made, box, done>>
  BY Zenon DEF runtimeVars
<1> QED
  BY <1>1 DEF RuntimeInv, RuntimeAt, PeerKnownFirst, Live, Joined, Posted

LEMMA QueueSame ==
    ASSUME QueueInv, UNCHANGED <<ctx, queue>>,
           \A c \in Callers : pc[c] = "publish" => pc'[c] = "publish" /\ new' = new,
           \A h \in Runtimes : rt[h].thread \in {"off", "ended"} => rt'[h].thread \in {"off", "ended"},
           pc["main"] = "clearAgain" => pc'["main"] = "clearAgain"
    PROVE  QueueInv'
<1>1. \A h : Owned(h) => Owned(h)'
  BY Zenon DEF Owned
<1> QED
  BY <1>1, Zenon DEF QueueInv, Joined

\* A caller that is outside the monitor is not concerned by what its holder does.
LEMMA OtherCallers ==
    ASSUME NEW c, \A d \in Callers \ {c} : CallerInv(d) /\ pc[d] \notin Critical /\ pc'[d] = pc[d] /\ want'[d] = want[d]
    PROVE  \A d \in Callers \ {c} : CallerInv(d)'
BY Zenon DEF CallerInv, Critical

LEMMA SendersSame ==
    ASSUME SenderInv, UNCHANGED <<ctx, at, hold>>, UNCHANGED rt
    PROVE  SenderInv'
BY Zenon DEF SenderInv

LEMMA CallKeeps ==
    ASSUME IInv, NEW c \in Callers, Call(c) PROVE IInv'
<1>1. host = "android" /\ pc[c] = "idle" /\ c \in Threads /\ c # "main"
  BY SetsAssumption, Zenon DEF Call, Threads
<1>2. /\ UNCHANGED <<host, rt, made, box, done, ctx, started, ptr, pending, runtimeConfig, receiving, lock, new>>
      /\ UNCHANGED <<queue, arrived, at, hold>>
  BY Zenon DEF Call, runtimeVars, queueVars, senderVars
<1>3. RuntimeInv' /\ PeerKnownFirst' /\ \A h : (Live(h) => Live(h)')
  BY <1>2, RuntimesSame, Zenon DEF IInv, runtimeVars
<1>4. SenderInv'
  BY <1>2, SendersSame, Zenon DEF IInv
<1>5. DesktopInv'
  BY <1>1, <1>2, Zenon DEF DesktopInv
<1>q. QueueInv'
  <2>1. \A d \in Callers : pc[d] = "publish" => pc'[d] = "publish"
    BY <1>1, SetsAssumption, Zenon DEF Call, IInv, TypeOK, Threads
  <2>2. pc["main"] = "clearAgain" => pc'["main"] = "clearAgain"
    BY <1>1, Zenon DEF IInv, AndroidInv
  <2> QED
    BY <1>2, <2>1, <2>2, QueueSame, Zenon DEF IInv
<1>6. CASE ptr # 0
  <2>1. serving' = TRUE /\ UNCHANGED <<pc, want>>
    BY <1>6, Zenon DEF Call
  <2>2. TypeOK'
    BY <1>2, <2>1, Zenon DEF IInv, TypeOK
  <2>3. AndroidInv'
    BY <1>2, <1>3, <2>1, Zenon DEF IInv, AndroidInv, CallerInv
  <2> QED
    BY <1>3, <1>4, <1>5, <1>q, <2>2, <2>3, Zenon DEF IInv
<1>7. CASE ptr = 0
  <2>1. UNCHANGED serving /\ pc' = [pc EXCEPT ![c] = "enter"]
    BY <1>7, Zenon DEF Call
  <2>2. PICK g \in Configs : want' = [want EXCEPT ![c] = g]
    BY <1>7, Zenon DEF Call
  <2>3. pc'[c] = "enter" /\ pc' \in [Threads -> Places] /\ \A t \in Threads \ {c} : pc'[t] = pc[t]
    BY <1>1, <2>1, Zenon DEF IInv, TypeOK, Places
  <2>4. want'[c] = g /\ want' \in [Threads -> Configs \cup {None}] /\ \A t \in Threads \ {c} : want'[t] = want[t]
    BY <1>1, <2>2, Zenon DEF IInv, TypeOK
  <2>5. TypeOK'
    BY <1>1, <1>2, <2>1, <2>3, <2>4, Zenon DEF IInv, TypeOK, Critical, Threads
  <2>6. \A d \in Callers : CallerInv(d)'
    BY <1>1, <1>2, <1>3, <2>3, <2>4, Zenon DEF IInv, AndroidInv, CallerInv, Critical, Threads
  <2>7. AndroidInv'
    BY <1>1, <1>2, <1>3, <2>3, <2>6, Zenon DEF IInv, AndroidInv, Threads
  <2> QED
    BY <1>3, <1>4, <1>5, <1>q, <2>5, <2>7, Zenon DEF IInv
<1> QED
  BY <1>6, <1>7, Zenon

\* The C API keeps the runtimes' invariant, and what is live stays so.
LEMMA CreateKeeps ==
    ASSUME IInv, made < MaxRuntimes, NEW c \in Configs, Create(made + 1, c), UNCHANGED <<box, done>>
    PROVE  RuntimeInv' /\ PeerKnownFirst' /\ \A h \in Runtimes : Live(h) => Live(h)'
<1>0. made \in Nat /\ made + 1 \in Runtimes /\ MaxRuntimes \in Nat /\ TypeOK /\ RuntimeInv
  BY Ranges, Numbers, Zenon DEF IInv
<1>1. /\ made' = made + 1 /\ \A g \in Runtimes \ {made + 1} : rt'[g] = rt[g]
      /\ rt'[made + 1].cfg = c /\ rt'[made + 1].callback /\ ~rt'[made + 1].running /\ ~rt'[made + 1].ready
      /\ ~rt'[made + 1].deleted /\ rt'[made + 1].thread = "off"
  BY <1>0, CreateMoves, Zenon
<1>2. box[made + 1] = <<>>
  BY <1>0 DEF RuntimeInv, RuntimeAt
<1>3. \A h : Posted(h)' = Posted(h)
  BY Zenon DEF Posted
<1>4. RuntimeInv'
  <2> SUFFICES ASSUME NEW h \in Runtimes PROVE RuntimeAt(h)'
    BY Zenon DEF RuntimeInv
  <2>1. CASE h = made + 1
    BY <1>0, <1>1, <1>2, <2>1, AfterPlaces, Zenon DEF Calls, RuntimeAt
  <2>2. CASE h # made + 1
    <3>1. rt'[h] = rt[h] /\ (h \in 1..made' <=> h \in 1..made) /\ RuntimeAt(h)
      BY <1>0, <1>1, <2>2 DEF RuntimeInv, Runtimes
    <3> QED
      BY <3>1, <1>3, Zenon DEF Joined, RuntimeAt
  <2> QED
    BY <2>1, <2>2, Zenon
<1>5. PeerKnownFirst'
  BY DEF IInv, PeerKnownFirst
<1>6. \A h \in Runtimes : Live(h) => Live(h)'
  BY <1>0, <1>1 DEF Live, Joined, RuntimeInv, RuntimeAt, Runtimes
<1> QED
  BY <1>4, <1>5, <1>6, Zenon

LEMMA StartKeeps ==
    ASSUME IInv, NEW x \in 1..made, rt[x].thread = "off", ~rt[x].deleted, StartRuntime(x), UNCHANGED <<made, box, done>>
    PROVE  RuntimeInv' /\ PeerKnownFirst' /\ Live(x)' /\ \A h \in Runtimes : Live(h) => Live(h)'
<1>0. x \in Runtimes /\ TypeOK /\ RuntimeInv
  BY Ranges, Zenon DEF IInv
<1>1. /\ \A g \in Runtimes \ {x} : rt'[g] = rt[g]
      /\ rt'[x].cfg = rt[x].cfg /\ rt'[x].callback = rt[x].callback
      /\ ~rt'[x].deleted /\ rt'[x].ready = rt[x].ready
      /\ rt'[x].running /\ rt'[x].thread = "parse"
  BY <1>0, StartMoves, Zenon
<1>3. \A h : Posted(h)' = Posted(h)
  BY Zenon DEF Posted
<1>4. RuntimeInv'
  <2> SUFFICES ASSUME NEW h \in Runtimes PROVE RuntimeAt(h)'
    BY Zenon DEF RuntimeInv
  <2>0. RuntimeAt(h)
    BY <1>0, Zenon DEF RuntimeInv
  <2>1. CASE h = x
    BY <1>0, <1>1, <2>0, <2>1, AfterPlaces, Zenon DEF Calls, RuntimeAt
  <2>2. CASE h # x
    BY <1>1, <1>3, <2>0, <2>2, Zenon DEF Joined, RuntimeAt
  <2> QED
    BY <2>1, <2>2, Zenon
<1>5. PeerKnownFirst'
  BY DEF IInv, PeerKnownFirst
<1>6. Live(x)' /\ \A h \in Runtimes : Live(h) => Live(h)'
  BY <1>0, <1>1, Zenon DEF Live, Joined
<1> QED
  BY <1>4, <1>5, <1>6, Zenon

LEMMA StopKeeps ==
    ASSUME IInv, NEW x \in 1..made, StopRuntime(x), UNCHANGED <<made, box, done>>
    PROVE  RuntimeInv' /\ PeerKnownFirst' /\ ~rt'[x].running /\ rt'[x].deleted = rt[x].deleted
<1>0. x \in Runtimes /\ TypeOK /\ RuntimeInv
  BY Ranges, Zenon DEF IInv
<1>1. /\ \A g \in Runtimes \ {x} : rt'[g] = rt[g]
      /\ rt'[x].cfg = rt[x].cfg /\ rt'[x].callback = rt[x].callback
      /\ rt'[x].deleted = rt[x].deleted /\ rt'[x].ready = rt[x].ready
      /\ rt'[x].adnl = rt[x].adnl /\ rt'[x].thread = rt[x].thread
      /\ ~rt'[x].running
  BY <1>0, StopMoves, Zenon
<1>3. \A h : Posted(h)' = Posted(h)
  BY Zenon DEF Posted
<1>4. RuntimeInv'
  <2> SUFFICES ASSUME NEW h \in Runtimes PROVE RuntimeAt(h)'
    BY Zenon DEF RuntimeInv
  <2>0. RuntimeAt(h)
    BY <1>0, Zenon DEF RuntimeInv
  <2>1. CASE h = x
    BY <1>0, <1>1, <1>3, <2>0, <2>1, Zenon DEF Joined, RuntimeAt
  <2>2. CASE h # x
    BY <1>1, <1>3, <2>0, <2>2, Zenon DEF Joined, RuntimeAt
  <2> QED
    BY <2>1, <2>2, Zenon
<1>5. PeerKnownFirst'
  BY DEF IInv, PeerKnownFirst
<1> QED
  BY <1>1, <1>4, <1>5, Zenon

LEMMA DestroyKeeps ==
    ASSUME IInv, NEW x \in 1..made, Joined(x), ~rt[x].running, Destroy(x), UNCHANGED <<made, done>>
    PROVE  RuntimeInv' /\ PeerKnownFirst'
<1>0. x \in Runtimes /\ TypeOK /\ RuntimeInv
  BY Ranges, Zenon DEF IInv
<1>1. /\ \A g \in Runtimes \ {x} : rt'[g] = rt[g] /\ box'[g] = box[g]
      /\ box'[x] = <<>>
      /\ rt'[x].cfg = rt[x].cfg /\ rt'[x].callback = rt[x].callback
      /\ rt'[x].deleted /\ rt'[x].ready = rt[x].ready
      /\ rt'[x].running = rt[x].running /\ rt'[x].thread = rt[x].thread
  BY <1>0, DestroyMoves, Zenon
<1>2. rt[x].thread \in {"off", "ended"} /\ ~rt[x].ready
  BY <1>0, Zenon DEF RuntimeInv, RuntimeAt, Joined
<1>4. RuntimeInv'
  <2> SUFFICES ASSUME NEW h \in Runtimes PROVE RuntimeAt(h)'
    BY Zenon DEF RuntimeInv
  <2>0. RuntimeAt(h)
    BY <1>0, Zenon DEF RuntimeInv
  <2>1. CASE h = x
    BY <1>0, <1>1, <1>2, <2>0, <2>1, AfterPlaces, Zenon DEF Joined, Calls, RuntimeAt
  <2>2. CASE h # x
    <3>1. Posted(h)' = Posted(h)
      BY <1>1, <2>2, Zenon DEF Posted
    <3> QED
      BY <1>1, <3>1, <2>0, <2>2, Zenon DEF Joined, RuntimeAt
  <2> QED
    BY <2>1, <2>2, Zenon
<1>5. PeerKnownFirst'
  BY <1>0, <1>1 DEF IInv, PeerKnownFirst
<1> QED
  BY <1>4, <1>5, Zenon


\* What every step of initialize has in common: one caller moves, and outside of
\* its own place it meets no other caller inside the monitor.
LEMMA CallerMoves ==
    ASSUME IInv, NEW c \in Callers, pc[c] # "idle", NEW p \in Places, pc' = [pc EXCEPT ![c] = p]
    PROVE  /\ pc' \in [Threads -> Places] /\ pc'[c] = p /\ \A t \in Threads \ {c} : pc'[t] = pc[t]
           /\ \A d \in Callers \ {c} : pc'[d] = pc[d] /\ CallerInv(d)
           /\ pc'["main"] = "idle"
           /\ RuntimeInv /\ PeerKnownFirst /\ QueueInv /\ SenderInv /\ TypeOK
BY CallerFacts, SetsAssumption, Zenon DEF IInv, TypeOK, Threads, AndroidInv

LEMMA EnterKeeps ==
    ASSUME IInv, NEW c \in Callers, Enter(c) PROVE IInv'
<1>1. pc[c] = "enter" /\ lock = None
  BY Zenon DEF Enter
<1>2. /\ host = "android" /\ c \in Threads /\ c # "main" /\ c # None /\ want[c] \in Configs /\ AndroidInv
  BY <1>1, CallerFacts, Zenon
<1>3. /\ UNCHANGED <<host, rt, made, box, done, ctx, started, ptr, pending, runtimeConfig, receiving, want, new>>
      /\ UNCHANGED <<queue, arrived, at, hold>>
  BY Zenon DEF Enter, runtimeVars, queueVars, senderVars
<1>4. RuntimeInv' /\ PeerKnownFirst' /\ \A h : (Live(h) => Live(h)')
  BY <1>3, RuntimesSame, Zenon DEF IInv, runtimeVars
<1>5. SenderInv' /\ DesktopInv'
  BY <1>2, <1>3, SendersSame, Zenon DEF IInv, DesktopInv
<1>6. \A d \in Callers : pc[d] \notin Critical
  BY <1>1, SetsAssumption, Zenon DEF IInv, TypeOK
<1>q. QueueInv'
  <2>1. \A d \in Callers : pc[d] # "publish"
    BY <1>6, Zenon DEF Critical
  <2> QED
    BY <1>2, <1>3, <2>1, QueueSame, Zenon DEF IInv, AndroidInv
<1>7. CASE ptr = 0
  <2>1. pc' = [pc EXCEPT ![c] = "configure"] /\ lock' = c /\ UNCHANGED serving
    BY <1>7, Zenon DEF Enter
  <2>2. /\ pc' \in [Threads -> Places] /\ pc'[c] = "configure" /\ \A t \in Threads \ {c} : pc'[t] = pc[t]
        /\ \A d \in Callers \ {c} : pc'[d] = pc[d] /\ CallerInv(d)
        /\ pc'["main"] = "idle"
    BY <1>1, <2>1, CallerMoves, Zenon DEF Places, Critical
  <2>3. TypeOK'
    BY <1>2, <1>3, <1>6, <2>1, <2>2, Zenon DEF IInv, TypeOK, Critical
  <2>4. ctx = 0 /\ runtimeConfig = None
    BY <1>1, <1>2, <1>7, Zenon DEF AndroidInv
  <2>5. CallerInv(c)'
    BY <1>2, <1>3, <1>7, <2>2, <2>4, Zenon DEF CallerInv, Critical
  <2>6. \A d \in Callers \ {c} : CallerInv(d)'
    BY <1>3, <1>6, <2>2, OtherCallers, Zenon
  <2>7. AndroidInv'
    BY <1>2, <1>3, <1>4, <2>1, <2>2, <2>4, <2>5, <2>6, Zenon DEF AndroidInv
  <2> QED
    BY <1>4, <1>5, <1>q, <2>3, <2>7, Zenon DEF IInv
<1>8. CASE ptr # 0
  <2>1. pc' = [pc EXCEPT ![c] = "idle"] /\ serving' = TRUE /\ UNCHANGED lock
    BY <1>8, Zenon DEF Enter
  <2>2. /\ pc' \in [Threads -> Places] /\ pc'[c] = "idle" /\ \A t \in Threads \ {c} : pc'[t] = pc[t]
        /\ \A d \in Callers \ {c} : pc'[d] = pc[d] /\ CallerInv(d)
        /\ pc'["main"] = "idle"
    BY <1>1, <2>1, CallerMoves, Zenon DEF Places
  <2>3. TypeOK'
    BY <1>2, <1>3, <1>6, <2>1, <2>2, Zenon DEF IInv, TypeOK, Critical
  <2>4. CallerInv(c)'
    BY <2>2, Zenon DEF CallerInv, Critical
  <2>5. \A d \in Callers \ {c} : CallerInv(d)'
    BY <1>3, <1>6, <2>2, OtherCallers, Zenon
  <2>6. AndroidInv'
    BY <1>2, <1>3, <1>4, <2>1, <2>2, <2>4, <2>5, Zenon DEF AndroidInv
  <2> QED
    BY <1>4, <1>5, <1>q, <2>3, <2>6, Zenon DEF IInv
<1> QED
  BY <1>7, <1>8, Zenon

LEMMA ConfigureKeeps ==
    ASSUME IInv, NEW c \in Callers, Configure(c) PROVE IInv'
<1>1. pc[c] = "configure"
  BY Zenon DEF Configure
<1>2. /\ host = "android" /\ c \in Threads /\ c # "main" /\ c # None /\ want[c] \in Configs /\ AndroidInv
      /\ CallerInv(c) /\ lock = c /\ \A d \in Callers \ {c} : pc[d] \notin Critical
  BY <1>1, CallerFacts, Zenon DEF Critical
<1>3. /\ UNCHANGED <<host, rt, made, box, done, ctx, started, ptr, runtimeConfig, receiving, lock, want, new, serving>>
      /\ UNCHANGED <<queue, arrived, at, hold>>
      /\ pending' = want[c] /\ pc' = [pc EXCEPT ![c] = "replace"]
  BY <1>1, <1>2, Zenon DEF Configure, runtimeVars, queueVars, senderVars, CallerInv
<1>4. RuntimeInv' /\ PeerKnownFirst' /\ \A h : (Live(h) => Live(h)')
  BY <1>3, RuntimesSame, Zenon DEF IInv, runtimeVars
<1>5. /\ pc' \in [Threads -> Places] /\ pc'[c] = "replace" /\ \A t \in Threads \ {c} : pc'[t] = pc[t]
      /\ \A d \in Callers \ {c} : pc'[d] = pc[d] /\ CallerInv(d)
      /\ pc'["main"] = "idle"
  BY <1>1, <1>3, CallerMoves, Zenon DEF Places, Critical
<1>6. \A d \in Callers \ {c} : CallerInv(d)'
  BY <1>2, <1>3, <1>5, OtherCallers, Zenon
<1>7. CallerInv(c)'
  BY <1>1, <1>2, <1>3, <1>4, <1>5, Zenon DEF CallerInv, Critical
<1>m. \A d \in Callers : lock' = d <=> pc'[d] \in Critical
  BY <1>1, <1>2, <1>3, <1>5, SetsAssumption, Zenon DEF Critical
<1>8. TypeOK'
  BY <1>1, <1>2, <1>3, <1>5, <1>m, Zenon DEF IInv, TypeOK, CallerInv
<1>9. AndroidInv'
  BY <1>1, <1>2, <1>3, <1>4, <1>5, <1>6, <1>7, Zenon DEF AndroidInv, CallerInv, Critical
<1>10. DesktopInv'
  BY <1>2, <1>3, Zenon DEF DesktopInv
<1>11. SenderInv'
  BY <1>1, <1>2, <1>3, Zenon DEF IInv, SenderInv, CallerInv
<1>q. QueueInv'
  <2>1. \A d \in Callers : pc[d] # "publish"
    BY <1>1, <1>2, Zenon DEF Critical
  <2> QED
    BY <1>2, <1>3, <2>1, QueueSame, Zenon DEF IInv, AndroidInv
<1> QED
  BY <1>4, <1>8, <1>q, <1>9, <1>10, <1>11, Zenon DEF IInv

LEMMA ReplaceKeeps ==
    ASSUME IInv, NEW c \in Callers, Replace(c) PROVE IInv'
<1>1. pc[c] = "replace"
  BY Zenon DEF Replace
<1>2. /\ host = "android" /\ c \in Threads /\ c # "main" /\ c # None /\ want[c] \in Configs /\ AndroidInv
      /\ CallerInv(c) /\ lock = c /\ \A d \in Callers \ {c} : pc[d] \notin Critical
  BY <1>1, CallerFacts, Zenon DEF Critical
<1>3. /\ UNCHANGED <<host, rt, made, box, done, ctx, started, ptr, pending, runtimeConfig, receiving, lock, want, new, serving>>
      /\ UNCHANGED <<queue, arrived, at, hold>>
      /\ pc' = [pc EXCEPT ![c] = "create"]
  BY <1>1, <1>2, Zenon DEF Replace, runtimeVars, queueVars, senderVars, CallerInv
<1>4. RuntimeInv' /\ PeerKnownFirst' /\ \A h : (Live(h) => Live(h)')
  BY <1>3, RuntimesSame, Zenon DEF IInv, runtimeVars
<1>5. /\ pc' \in [Threads -> Places] /\ pc'[c] = "create" /\ \A t \in Threads \ {c} : pc'[t] = pc[t]
      /\ \A d \in Callers \ {c} : pc'[d] = pc[d] /\ CallerInv(d)
      /\ pc'["main"] = "idle"
  BY <1>1, <1>3, CallerMoves, Zenon DEF Places, Critical
<1>6. \A d \in Callers \ {c} : CallerInv(d)'
  BY <1>2, <1>3, <1>5, OtherCallers, Zenon
<1>7. CallerInv(c)'
  BY <1>1, <1>2, <1>3, <1>4, <1>5, Zenon DEF CallerInv, Critical
<1>m. \A d \in Callers : lock' = d <=> pc'[d] \in Critical
  BY <1>1, <1>2, <1>3, <1>5, SetsAssumption, Zenon DEF Critical
<1>8. TypeOK'
  BY <1>1, <1>2, <1>3, <1>5, <1>m, Zenon DEF IInv, TypeOK, CallerInv
<1>9. AndroidInv'
  BY <1>1, <1>2, <1>3, <1>4, <1>5, <1>6, <1>7, Zenon DEF AndroidInv, CallerInv, Critical
<1>10. DesktopInv'
  BY <1>2, <1>3, Zenon DEF DesktopInv
<1>11. SenderInv'
  BY <1>1, <1>2, <1>3, Zenon DEF IInv, SenderInv, CallerInv
<1>q. QueueInv'
  <2>1. \A d \in Callers : pc[d] # "publish"
    BY <1>1, <1>2, Zenon DEF Critical
  <2> QED
    BY <1>2, <1>3, <2>1, QueueSame, Zenon DEF IInv, AndroidInv
<1> QED
  BY <1>4, <1>8, <1>q, <1>9, <1>10, <1>11, Zenon DEF IInv

LEMMA CreateFailsKeeps ==
    ASSUME IInv, NEW c \in Callers, CreateFails(c) PROVE IInv'
<1>1. pc[c] = "create"
  BY Zenon DEF CreateFails
<1>2. /\ host = "android" /\ c \in Threads /\ c # "main" /\ c # None /\ want[c] \in Configs /\ AndroidInv
      /\ CallerInv(c) /\ lock = c /\ \A d \in Callers \ {c} : pc[d] \notin Critical
  BY <1>1, CallerFacts, Zenon DEF Critical
<1>3. /\ UNCHANGED <<host, rt, made, box, done, ctx, ptr, pending, runtimeConfig, receiving, want, new, serving>>
      /\ UNCHANGED <<queue, arrived, at, hold>>
      /\ started' = FALSE /\ lock' = None /\ pc' = [pc EXCEPT ![c] = "idle"]
  BY <1>1, <1>2, Zenon DEF CreateFails, runtimeVars, queueVars, senderVars, CallerInv
<1>4. RuntimeInv' /\ PeerKnownFirst' /\ \A h : (Live(h) => Live(h)')
  BY <1>3, RuntimesSame, Zenon DEF IInv, runtimeVars
<1>5. /\ pc' \in [Threads -> Places] /\ pc'[c] = "idle" /\ \A t \in Threads \ {c} : pc'[t] = pc[t]
      /\ \A d \in Callers \ {c} : pc'[d] = pc[d] /\ CallerInv(d)
      /\ pc'["main"] = "idle"
  BY <1>1, <1>3, CallerMoves, Zenon DEF Places, Critical
<1>6. \A d \in Callers \ {c} : CallerInv(d)'
  BY <1>2, <1>3, <1>5, OtherCallers, Zenon
<1>7. CallerInv(c)'
  BY <1>1, <1>2, <1>3, <1>4, <1>5, Zenon DEF CallerInv, Critical
<1>m. \A d \in Callers : lock' = d <=> pc'[d] \in Critical
  BY <1>1, <1>2, <1>3, <1>5, SetsAssumption, Zenon DEF Critical
<1>8. TypeOK'
  BY <1>1, <1>2, <1>3, <1>5, <1>m, Zenon DEF IInv, TypeOK, CallerInv
<1>9. AndroidInv'
  BY <1>1, <1>2, <1>3, <1>4, <1>5, <1>6, <1>7, Zenon DEF AndroidInv, CallerInv, Critical
<1>10. DesktopInv'
  BY <1>2, <1>3, Zenon DEF DesktopInv
<1>11. SenderInv'
  BY <1>1, <1>2, <1>3, Zenon DEF IInv, SenderInv, CallerInv
<1>q. QueueInv'
  <2>1. \A d \in Callers : pc[d] # "publish"
    BY <1>1, <1>2, Zenon DEF Critical
  <2> QED
    BY <1>2, <1>3, <2>1, QueueSame, Zenon DEF IInv, AndroidInv
<1> QED
  BY <1>4, <1>8, <1>q, <1>9, <1>10, <1>11, Zenon DEF IInv

LEMMA PublishKeeps ==
    ASSUME IInv, NEW c \in Callers, Publish(c) PROVE IInv'
<1>1. pc[c] = "publish"
  BY Zenon DEF Publish
<1>2. /\ host = "android" /\ c \in Threads /\ c # "main" /\ c # None /\ want[c] \in Configs /\ AndroidInv
      /\ CallerInv(c) /\ lock = c /\ \A d \in Callers \ {c} : pc[d] \notin Critical
  BY <1>1, CallerFacts, Zenon DEF Critical
<1>3. /\ UNCHANGED <<host, rt, made, box, done, ptr, pending, runtimeConfig, receiving, lock, want, new, serving>>
      /\ UNCHANGED <<queue, arrived, at, hold>>
      /\ ctx' = new /\ started' = TRUE /\ pc' = [pc EXCEPT ![c] = "assign"]
  BY <1>1, <1>2, Zenon DEF Publish, runtimeVars, queueVars, senderVars, CallerInv
<1>4. RuntimeInv' /\ PeerKnownFirst' /\ \A h : (Live(h) => Live(h)')
  BY <1>3, RuntimesSame, Zenon DEF IInv, runtimeVars
<1>5. /\ pc' \in [Threads -> Places] /\ pc'[c] = "assign" /\ \A t \in Threads \ {c} : pc'[t] = pc[t]
      /\ \A d \in Callers \ {c} : pc'[d] = pc[d] /\ CallerInv(d)
      /\ pc'["main"] = "idle"
  BY <1>1, <1>3, CallerMoves, Zenon DEF Places, Critical
<1>6. \A d \in Callers \ {c} : CallerInv(d)'
  BY <1>2, <1>3, <1>5, OtherCallers, Zenon
<1>7. CallerInv(c)'
  BY <1>1, <1>2, <1>3, <1>4, <1>5, Zenon DEF CallerInv, Critical
<1>m. \A d \in Callers : lock' = d <=> pc'[d] \in Critical
  BY <1>1, <1>2, <1>3, <1>5, SetsAssumption, Zenon DEF Critical
<1>8. TypeOK'
  BY <1>1, <1>2, <1>3, <1>5, <1>m, Zenon DEF IInv, TypeOK, CallerInv
<1>9. AndroidInv'
  BY <1>1, <1>2, <1>3, <1>4, <1>5, <1>6, <1>7, Zenon DEF AndroidInv, CallerInv, Critical
<1>10. DesktopInv'
  BY <1>2, <1>3, Zenon DEF DesktopInv
<1>11. SenderInv'
  BY <1>1, <1>2, <1>3, Zenon DEF IInv, SenderInv, CallerInv
<1>q. QueueInv'
  <2>1. ctx = 0 /\ 0 \notin Runtimes
    BY <1>1, <1>2, Numbers DEF CallerInv, Runtimes
  <2>2. \A h \in Runtimes : Owned(h) => Owned(h)'
    BY <1>3, <2>1, Zenon DEF Owned
  <2>3. \A i \in 1..Len(queue) : queue[i] \in Runtimes
    BY DEF IInv, TypeOK
  <2> QED
    BY <1>2, <1>3, <2>2, <2>3, Zenon DEF IInv, QueueInv, AndroidInv, Joined
<1> QED
  BY <1>4, <1>8, <1>q, <1>9, <1>10, <1>11, Zenon DEF IInv

LEMMA AssignKeeps ==
    ASSUME IInv, NEW c \in Callers, Assign(c) PROVE IInv'
<1>1. pc[c] = "assign"
  BY Zenon DEF Assign
<1>2. /\ host = "android" /\ c \in Threads /\ c # "main" /\ c # None /\ want[c] \in Configs /\ AndroidInv
      /\ CallerInv(c) /\ lock = c /\ \A d \in Callers \ {c} : pc[d] \notin Critical
  BY <1>1, CallerFacts, Zenon DEF Critical
<1>3. /\ UNCHANGED <<host, rt, made, box, done, ctx, started, pending, runtimeConfig, receiving, lock, want, new, serving>>
      /\ UNCHANGED <<queue, arrived, at, hold>>
      /\ ptr' = new /\ pc' = [pc EXCEPT ![c] = "record"]
  BY <1>1, <1>2, Zenon DEF Assign, runtimeVars, queueVars, senderVars, CallerInv
<1>4. RuntimeInv' /\ PeerKnownFirst' /\ \A h : (Live(h) => Live(h)')
  BY <1>3, RuntimesSame, Zenon DEF IInv, runtimeVars
<1>5. /\ pc' \in [Threads -> Places] /\ pc'[c] = "record" /\ \A t \in Threads \ {c} : pc'[t] = pc[t]
      /\ \A d \in Callers \ {c} : pc'[d] = pc[d] /\ CallerInv(d)
      /\ pc'["main"] = "idle"
  BY <1>1, <1>3, CallerMoves, Zenon DEF Places, Critical
<1>6. \A d \in Callers \ {c} : CallerInv(d)'
  BY <1>2, <1>3, <1>5, OtherCallers, Zenon
<1>7. CallerInv(c)'
  BY <1>1, <1>2, <1>3, <1>4, <1>5, Zenon DEF CallerInv, Critical
<1>m. \A d \in Callers : lock' = d <=> pc'[d] \in Critical
  BY <1>1, <1>2, <1>3, <1>5, SetsAssumption, Zenon DEF Critical
<1>8. TypeOK'
  BY <1>1, <1>2, <1>3, <1>5, <1>m, Zenon DEF IInv, TypeOK, CallerInv
<1>9. AndroidInv'
  BY <1>1, <1>2, <1>3, <1>4, <1>5, <1>6, <1>7, Zenon DEF AndroidInv, CallerInv, Critical
<1>10. DesktopInv'
  BY <1>2, <1>3, Zenon DEF DesktopInv
<1>11. SenderInv'
  BY <1>1, <1>2, <1>3, Zenon DEF IInv, SenderInv, CallerInv
<1>q. QueueInv'
  <2>1. \A d \in Callers : pc[d] # "publish"
    BY <1>1, <1>2, Zenon DEF Critical
  <2> QED
    BY <1>2, <1>3, <2>1, QueueSame, Zenon DEF IInv, AndroidInv
<1> QED
  BY <1>4, <1>8, <1>q, <1>9, <1>10, <1>11, Zenon DEF IInv

LEMMA RecordKeeps ==
    ASSUME IInv, NEW c \in Callers, Record(c) PROVE IInv'
<1>1. pc[c] = "record"
  BY Zenon DEF Record
<1>2. /\ host = "android" /\ c \in Threads /\ c # "main" /\ c # None /\ want[c] \in Configs /\ AndroidInv
      /\ CallerInv(c) /\ lock = c /\ \A d \in Callers \ {c} : pc[d] \notin Critical
  BY <1>1, CallerFacts, Zenon DEF Critical
<1>3. /\ UNCHANGED <<host, rt, made, box, done, ctx, started, ptr, pending, want, new>>
      /\ UNCHANGED <<queue, arrived, at, hold>>
      /\ runtimeConfig' = want[c] /\ receiving' = TRUE /\ lock' = None /\ serving' = TRUE /\ pc' = [pc EXCEPT ![c] = "idle"]
  BY <1>1, <1>2, Zenon DEF Record, runtimeVars, queueVars, senderVars, CallerInv
<1>4. RuntimeInv' /\ PeerKnownFirst' /\ \A h : (Live(h) => Live(h)')
  BY <1>3, RuntimesSame, Zenon DEF IInv, runtimeVars
<1>5. /\ pc' \in [Threads -> Places] /\ pc'[c] = "idle" /\ \A t \in Threads \ {c} : pc'[t] = pc[t]
      /\ \A d \in Callers \ {c} : pc'[d] = pc[d] /\ CallerInv(d)
      /\ pc'["main"] = "idle"
  BY <1>1, <1>3, CallerMoves, Zenon DEF Places, Critical
<1>6. \A d \in Callers \ {c} : CallerInv(d)'
  BY <1>2, <1>3, <1>5, OtherCallers, Zenon
<1>7. CallerInv(c)'
  BY <1>1, <1>2, <1>3, <1>4, <1>5, Zenon DEF CallerInv, Critical
<1>m. \A d \in Callers : lock' = d <=> pc'[d] \in Critical
  BY <1>1, <1>2, <1>3, <1>5, SetsAssumption, Zenon DEF Critical
<1>8. TypeOK'
  BY <1>1, <1>2, <1>3, <1>5, <1>m, Zenon DEF IInv, TypeOK, CallerInv
<1>9. AndroidInv'
  BY <1>1, <1>2, <1>3, <1>4, <1>5, <1>6, <1>7 DEF AndroidInv, CallerInv, Critical
<1>10. DesktopInv'
  BY <1>2, <1>3, Zenon DEF DesktopInv
<1>11. SenderInv'
  BY <1>1, <1>2, <1>3, Zenon DEF IInv, SenderInv, CallerInv
<1>q. QueueInv'
  <2>1. \A d \in Callers : pc[d] # "publish"
    BY <1>1, <1>2, Zenon DEF Critical
  <2> QED
    BY <1>2, <1>3, <2>1, QueueSame, Zenon DEF IInv, AndroidInv
<1> QED
  BY <1>4, <1>8, <1>q, <1>9, <1>10, <1>11, Zenon DEF IInv

LEMMA CreateContextKeeps ==
    ASSUME IInv, NEW c \in Callers, CreateContext(c) PROVE IInv'
<1>1. pc[c] = "create"
  BY Zenon DEF CreateContext
<1>2. /\ host = "android" /\ c \in Threads /\ c # "main" /\ c # None /\ want[c] \in Configs /\ AndroidInv
      /\ CallerInv(c) /\ lock = c /\ \A d \in Callers \ {c} : pc[d] \notin Critical
  BY <1>1, CallerFacts, Zenon DEF Critical
<1>3. /\ UNCHANGED <<host, box, done, ctx, started, ptr, pending, runtimeConfig, receiving, lock, want, serving>>
      /\ UNCHANGED <<queue, arrived, at, hold>>
      /\ new' = made + 1 /\ pc' = [pc EXCEPT ![c] = "start"]
  BY <1>1, <1>2, Zenon DEF CreateContext, runtimeVars, queueVars, senderVars, CallerInv
<1>r. /\ rt' \in [Runtimes -> Runtime] /\ \A h \in Runtimes \ {made + 1} : rt'[h] = rt[h]
      /\ rt'[made + 1].cfg = want[c] /\ ~rt'[made + 1].deleted /\ rt'[made + 1].thread = "off"
      /\ made' = made + 1 /\ made + 1 \in Runtimes /\ made' \in 1..MaxRuntimes /\ ctx = 0
  <2>1. made \in Nat /\ made + 1 \in 1..MaxRuntimes /\ MaxRuntimes \in Nat /\ TypeOK
    BY Ranges, Numbers, Zenon DEF CreateContext, IInv
  <2> QED
    BY <1>1, <1>2, <2>1, CreateMoves, Zenon DEF CreateContext, Runtimes, CallerInv
<1>4. RuntimeInv' /\ PeerKnownFirst' /\ \A h \in Runtimes : Live(h) => Live(h)'
  BY <1>1, <1>2, <1>3, CreateKeeps, Zenon DEF CreateContext, CallerInv
<1>5. /\ pc' \in [Threads -> Places] /\ pc'[c] = "start" /\ \A t \in Threads \ {c} : pc'[t] = pc[t]
      /\ \A d \in Callers \ {c} : pc'[d] = pc[d] /\ CallerInv(d)
      /\ pc'["main"] = "idle"
  BY <1>1, <1>3, CallerMoves, Zenon DEF Places, Critical
<1>6. \A d \in Callers \ {c} : CallerInv(d)'
  BY <1>2, <1>3, <1>5, OtherCallers, Zenon
<1>7. CallerInv(c)'
  BY <1>1, <1>2, <1>3, <1>4, <1>5, <1>r DEF CallerInv, Critical
<1>m. \A d \in Callers : lock' = d <=> pc'[d] \in Critical
  BY <1>1, <1>2, <1>3, <1>5, SetsAssumption, Zenon DEF Critical
<1>8. TypeOK'
  BY <1>1, <1>2, <1>3, <1>5, <1>m, <1>r DEF IInv, TypeOK, CallerInv
<1>9. AndroidInv'
  BY <1>1, <1>2, <1>3, <1>4, <1>5, <1>6, <1>7, <1>r, Zenon DEF AndroidInv, CallerInv, Critical
<1>10. DesktopInv'
  BY <1>2, <1>3, Zenon DEF DesktopInv
<1>11. SenderInv'
  BY <1>1, <1>2, <1>3, <1>r, Zenon DEF IInv, SenderInv, CallerInv
<1>q. QueueInv'
  <2>1. \A d \in Callers : pc[d] # "publish"
    BY <1>1, <1>2, Zenon DEF Critical
  <2>2. \A h \in Runtimes : rt[h].thread \in {"off", "ended"} => rt'[h].thread \in {"off", "ended"}
    BY <1>r, Zenon
  <2> QED
    BY <1>2, <1>3, <2>1, <2>2, QueueSame, Zenon DEF IInv, AndroidInv
<1> QED
  BY <1>4, <1>8, <1>q, <1>9, <1>10, <1>11, Zenon DEF IInv

LEMMA StartContextKeeps ==
    ASSUME IInv, NEW c \in Callers, StartContext(c) PROVE IInv'
<1>1. pc[c] = "start"
  BY Zenon DEF StartContext
<1>2. /\ host = "android" /\ c \in Threads /\ c # "main" /\ c # None /\ want[c] \in Configs /\ AndroidInv
      /\ CallerInv(c) /\ lock = c /\ \A d \in Callers \ {c} : pc[d] \notin Critical
  BY <1>1, CallerFacts, Zenon DEF Critical
<1>3. /\ UNCHANGED <<host, made, box, done, ctx, started, ptr, pending, runtimeConfig, receiving, lock, want, new, serving>>
      /\ UNCHANGED <<queue, arrived, at, hold>>
      /\ pc' = [pc EXCEPT ![c] = "publish"]
  BY <1>1, <1>2, Zenon DEF StartContext, runtimeVars, queueVars, senderVars, CallerInv
<1>r. /\ rt' \in [Runtimes -> Runtime] /\ \A h \in Runtimes \ {new} : rt'[h] = rt[h]
      /\ rt'[new].cfg = rt[new].cfg /\ ~rt'[new].deleted
      /\ new \in Runtimes /\ new \in 1..made /\ ctx = 0 /\ Live(new)'
  <2>1. new \in 1..made /\ new \in Runtimes /\ ~rt[new].deleted /\ rt[new].thread = "off" /\ ctx = 0 /\ TypeOK
    BY <1>1, <1>2, Ranges, Zenon DEF CallerInv, IInv
  <2> QED
    BY <1>3, <2>1, StartMoves, StartKeeps, Zenon DEF StartContext
<1>4. RuntimeInv' /\ PeerKnownFirst' /\ \A h \in Runtimes : Live(h) => Live(h)'
  BY <1>1, <1>2, <1>3, StartKeeps, Zenon DEF StartContext, CallerInv
<1>5. /\ pc' \in [Threads -> Places] /\ pc'[c] = "publish" /\ \A t \in Threads \ {c} : pc'[t] = pc[t]
      /\ \A d \in Callers \ {c} : pc'[d] = pc[d] /\ CallerInv(d)
      /\ pc'["main"] = "idle"
  BY <1>1, <1>3, CallerMoves, Zenon DEF Places, Critical
<1>6. \A d \in Callers \ {c} : CallerInv(d)'
  BY <1>2, <1>3, <1>5, OtherCallers, Zenon
<1>7. CallerInv(c)'
  BY <1>1, <1>2, <1>3, <1>4, <1>5, <1>r, Zenon DEF CallerInv, Critical
<1>m. \A d \in Callers : lock' = d <=> pc'[d] \in Critical
  BY <1>1, <1>2, <1>3, <1>5, SetsAssumption, Zenon DEF Critical
<1>8. TypeOK'
  BY <1>1, <1>2, <1>3, <1>5, <1>m, <1>r, Zenon DEF IInv, TypeOK, CallerInv
<1>9. AndroidInv'
  BY <1>1, <1>2, <1>3, <1>4, <1>5, <1>6, <1>7, <1>r, Zenon DEF AndroidInv, CallerInv, Critical
<1>10. DesktopInv'
  BY <1>2, <1>3, Zenon DEF DesktopInv
<1>11. SenderInv'
  BY <1>1, <1>2, <1>3, <1>r, Zenon DEF IInv, SenderInv, CallerInv
<1>q. QueueInv'
  <2>1. \A h : Owned(h) => Owned(h)'
    BY <1>1, <1>3, <1>5, Zenon DEF Owned
  <2>3. ASSUME NEW h \in Runtimes, ~Joined(h)' PROVE Owned(h)'
    <3>1. CASE h = new
      BY <1>3, <1>5, <3>1, Zenon DEF Owned
    <3>2. CASE h # new
      <4>1. ~Joined(h)
        BY <1>r, <2>3, <3>2, Zenon DEF Joined
      <4> QED
        BY <2>1, <4>1, Zenon DEF IInv, QueueInv
    <3> QED
      BY <3>1, <3>2, Zenon
  <2> QED
    BY <1>2, <1>3, <1>5, <2>1, <2>3, Zenon DEF IInv, QueueInv, AndroidInv
<1> QED
  BY <1>4, <1>8, <1>q, <1>9, <1>10, <1>11, Zenon DEF IInv

\* A step of the scheduler thread keeps the runtime's own invariant.
LEMMA SchedulerRuntime ==
    ASSUME TypeOK, RuntimeInv, UNCHANGED made, NEW h \in Runtimes, Scheduler(h)
    PROVE  /\ RuntimeInv'
           /\ box' \in [Runtimes -> Seq(Calls \cup {"send"})] /\ done' \in [Runtimes -> SUBSET Calls]
<1>0. Kept(h) /\ (Checked(h) \/ Called(h) \/ Sliced(h) \/ Stopped(h) \/ Take(h))
  BY SchedulerMoves, Zenon
<1>1. ASSUME NEW g \in Runtimes \ {h}, Posted(g)' = Posted(g), box'[g] = box[g] PROVE RuntimeAt(g)'
  <2>1. rt'[g] = rt[g] /\ RuntimeAt(g)
    BY <1>0, Zenon DEF Kept, RuntimeInv
  <2> QED
    BY <1>1, <2>1, Zenon DEF RuntimeAt, Joined
<1>2. RuntimeAt(h)
  BY Zenon DEF RuntimeInv
<1>3. /\ rt'[h].cfg = rt[h].cfg /\ rt'[h].callback = rt[h].callback
      /\ rt'[h].running = rt[h].running /\ rt'[h].deleted = rt[h].deleted
  BY <1>0, Zenon DEF Kept
<1>4. CASE Checked(h)
  <2>1. \A g : Posted(g)' = Posted(g)
    BY <1>4, Zenon DEF Checked, Posted
  <2>2. rt[h].thread \in DOMAIN After /\ rt[h].thread \notin {"off", "ended", "loop"}
    BY <1>4, AfterPlaces, Zenon DEF Checked
  <2>3. ~rt[h].ready /\ ~rt[h].deleted /\ h \in 1..made
    BY <1>2, <2>2, Zenon DEF RuntimeAt, Joined
  <2>4. rt'[h].thread \in {"loop", "create", "key", "peer", "advertise", "addId"}
    BY <1>4, AfterPlaces DEF Checked
  <2>5. rt'[h].thread \in {"key", "peer", "advertise", "addId"} => rt'[h].adnl
    BY <1>2, <1>4, AfterPlaces, Zenon DEF Checked, RuntimeAt
  <2>6. rt'[h].ready => rt'[h].adnl /\ Calls \subseteq Posted(h) /\ rt'[h].thread = "loop"
    BY <1>2, <1>4, <2>3, AfterPlaces, Zenon DEF Checked, RuntimeAt, Calls
  <2>7. RuntimeAt(h)'
    BY <1>2, <1>3, <1>4, <2>1, <2>3, <2>4, <2>5, <2>6, AfterPlaces, Zenon DEF RuntimeAt, Calls
  <2> QED
    BY <1>1, <1>4, <2>1, <2>7, Zenon DEF Checked, RuntimeInv, TypeOK
<1>5. CASE Called(h)
  <2>1. /\ box' \in [Runtimes -> Seq(Calls \cup {"send"})] /\ Posted(h) \cup {rt[h].thread} \subseteq Posted(h)'
        /\ \A g \in Runtimes \ {h} : box'[g] = box[g] /\ Posted(g)' = Posted(g)
    BY <1>5, PostedAppend, Zenon DEF Called
  <2>2. rt[h].thread \in DOMAIN After /\ rt[h].thread \notin {"off", "ended", "loop"}
    BY <1>5, AfterPlaces, Zenon DEF Called, Calls
  <2>3. ~rt[h].ready /\ ~rt[h].deleted /\ h \in 1..made /\ rt[h].adnl
    BY <1>2, <1>5, <2>2, Zenon DEF RuntimeAt, Joined, Called
  <2>4. ~rt'[h].ready /\ rt'[h].adnl /\ rt'[h].thread = After[rt[h].thread]
    BY <1>5, <2>3, Zenon DEF Called
  <2>5. /\ rt[h].thread = "addId" => rt'[h].thread = "addPeer"
        /\ rt[h].thread = "addPeer" => rt'[h].thread = "subscribe"
        /\ rt[h].thread = "subscribe" => rt'[h].thread = "ready"
        /\ rt[h].thread \in {"addId", "addPeer", "subscribe"}
    BY <1>5, <2>4, AfterPlaces, Zenon DEF Called, Calls
  <2>6. RuntimeAt(h)'
    BY <1>2, <1>3, <2>1, <2>3, <2>4, <2>5, AfterPlaces, Zenon DEF RuntimeAt
  <2> QED
    BY <1>1, <1>5, <2>1, <2>6, Zenon DEF Called, RuntimeInv, TypeOK
<1>6. CASE Stopped(h)
  <2>1. \A g : Posted(g)' = Posted(g)
    BY <1>6, Zenon DEF Stopped, Posted
  <2>2. h \in 1..made /\ ~rt[h].deleted
    BY <1>2, <1>6, Zenon DEF RuntimeAt, Joined, Stopped
  <2>3. RuntimeAt(h)'
    BY <1>2, <1>3, <1>6, <2>2, AfterPlaces, Zenon DEF RuntimeAt, Stopped, Joined, Calls
  <2> QED
    BY <1>1, <1>6, <2>1, <2>3, Zenon DEF Stopped, RuntimeInv, TypeOK
<1>7. CASE Take(h)
  <2>1. /\ box' \in [Runtimes -> Seq(Calls \cup {"send"})] /\ done' \in [Runtimes -> SUBSET Calls]
        /\ Posted(h) \cap Calls \subseteq Posted(h)'
        /\ \A g \in Runtimes \ {h} : box'[g] = box[g] /\ Posted(g)' = Posted(g)
    BY <1>7, PostedTake, Zenon
  <2>2. rt' = rt /\ rt[h].thread = "run"
    BY <1>7, Zenon DEF Take
  <2>3. rt[h].ready => Calls \subseteq Posted(h)'
    BY <1>2, <2>1, Zenon DEF RuntimeAt
  <2>4. RuntimeAt(h)'
    BY <1>2, <2>2, <2>3, Zenon DEF RuntimeAt, Joined, Calls
  <2> QED
    BY <1>1, <2>1, <2>4, Zenon DEF RuntimeInv
<1>8. CASE Sliced(h)
  <2>1. \A g : Posted(g)' = Posted(g)
    BY <1>8, Zenon DEF Sliced, Posted
  <2>2. rt[h].thread \in {"loop", "run"} /\ rt'[h].thread \in {"loop", "run"} /\ rt'[h].ready = rt[h].ready /\ rt'[h].adnl = rt[h].adnl
    BY <1>8, Zenon DEF Sliced
  <2>3. h \in 1..made /\ ~rt[h].deleted
    BY <1>2, <2>2, Zenon DEF RuntimeAt, Joined
  <2>4. RuntimeAt(h)'
    BY <1>2, <1>3, <2>1, <2>2, <2>3, AfterPlaces, Zenon DEF RuntimeAt, Joined, Calls
  <2> QED
    BY <1>1, <1>8, <2>1, <2>4, Zenon DEF Sliced, RuntimeInv, TypeOK
<1> QED
  BY <1>0, <1>4, <1>5, <1>6, <1>7, <1>8, Zenon

\* The calls stay ahead of the frames.
LEMMA SchedulerPeer ==
    ASSUME TypeOK, RuntimeInv, PeerKnownFirst, NEW h \in Runtimes, Scheduler(h)
    PROVE  PeerKnownFirst'
<1>0. Checked(h) \/ Called(h) \/ Sliced(h) \/ Stopped(h) \/ Take(h)
  BY SchedulerMoves, Zenon
<1> DEFINE Before(b, d, i) == d \cup {b[j] : j \in 1..(i - 1)}
<1> SUFFICES ASSUME NEW g \in Runtimes, NEW i \in 1..Len(box'[g]), box'[g][i] = "send"
             PROVE  Calls \subseteq Before(box'[g], done'[g], i)
  BY Zenon DEF PeerKnownFirst
<1>1. ASSUME box'[g] = box[g], done'[g] = done[g] PROVE Calls \subseteq Before(box'[g], done'[g], i)
  BY <1>1 DEF PeerKnownFirst
<1>2. box[h] \in Seq(Calls \cup {"send"}) /\ box[g] \in Seq(Calls \cup {"send"})
  BY Zenon DEF TypeOK
<1>3. CASE Called(h) /\ g = h
  <2>1. box'[h] = Append(box[h], rt[h].thread) /\ done' = done /\ rt[h].thread \in Calls
    BY <1>3, Zenon DEF Called, TypeOK
  <2>2. i \in 1..Len(box[h]) /\ \A j \in 1..i : box'[h][j] = box[h][j]
    BY <1>2, <1>3, <2>1, AppendRange DEF Calls
  <2> QED
    BY <1>3, <2>1, <2>2 DEF PeerKnownFirst
<1>4. CASE Take(h) /\ g = h
  <2>1. box'[h] = Tail(box[h]) /\ done'[h] = done[h] \cup ({Head(box[h])} \cap Calls) /\ box[h] # <<>>
    BY <1>4, Zenon DEF Take, TypeOK
  <2>2. i + 1 \in 1..Len(box[h]) /\ box[h][i + 1] = "send" /\ box[h][1] = Head(box[h])
    BY <1>2, <1>4, <2>1, TailRange
  <2>3. Calls \subseteq Before(box[h], done[h], i + 1)
    BY <2>2, Zenon DEF PeerKnownFirst
  <2>4. ASSUME NEW j \in 1..i, box[h][j] \in Calls PROVE box[h][j] \in Before(box'[h], done'[h], i)
    <3>1. CASE j = 1
      BY <2>1, <2>2, <2>4, <3>1, Zenon
    <3>2. CASE j # 1
      <4>1. j - 1 \in 1..(i - 1) /\ box'[h][j - 1] = box[h][j]
        BY <1>2, <1>4, <2>1, <2>2, <3>2, TailRange
      <4> QED
        BY <4>1, Zenon
    <3> QED
      BY <3>1, <3>2, Zenon
  <2>5. i \in Nat /\ (i + 1) - 1 = i
    OBVIOUS
  <2> QED
    <3>1. ASSUME NEW x \in Calls PROVE x \in done[h] \/ \E j \in 1..i : x = box[h][j]
      BY <2>3, <2>5, <3>1, Zenon
    <3>2. done[h] \subseteq Before(box'[h], done'[h], i)
      BY <2>1, Zenon
    <3> QED
      BY <1>4, <2>4, <3>1, <3>2
<1>5. CASE Checked(h) \/ Sliced(h) \/ Stopped(h)
  BY <1>1, <1>5, Zenon DEF Checked, Sliced, Stopped
<1>6. CASE g # h /\ (Called(h) \/ Take(h))
  BY <1>1, <1>6, Zenon DEF Called, Take, TypeOK
<1> QED
  BY <1>0, <1>3, <1>4, <1>5, <1>6, Zenon

LEMMA SchedulerKeeps ==
    ASSUME IInv, NEW h \in Runtimes, Scheduler(h) PROVE IInv'
<1>0. TypeOK /\ RuntimeInv /\ Kept(h) /\ (Checked(h) \/ Called(h) \/ Sliced(h) \/ Stopped(h) \/ Take(h))
  BY SchedulerMoves, Zenon DEF IInv
<1>1. /\ UNCHANGED <<host, made, ctx, started, queue, arrived, ptr, pending, runtimeConfig, receiving, lock>>
      /\ UNCHANGED <<want, new, pc, serving, at, hold>>
  BY Zenon DEF Scheduler, InitCheck, InitCreate, InitCall, InitReady, Slice, Take, Shutdown,
         hostVars, senderVars, queueVars
<1>2. RuntimeInv' /\ PeerKnownFirst'
  BY <1>1, SchedulerRuntime, SchedulerPeer, Zenon DEF IInv
<1>3. TypeOK'
  BY <1>0, <1>1, SchedulerRuntime, Zenon DEF Kept, TypeOK
<1>4. \A g \in Runtimes : rt'[g].cfg = rt[g].cfg /\ rt'[g].deleted = rt[g].deleted /\ rt'[g].running = rt[g].running
  BY <1>0, Zenon DEF Kept
<1>5. ASSUME NEW g \in Runtimes PROVE (rt[g].thread = "off" => rt'[g].thread = "off") /\ (Live(g) => Live(g)')
  <2>1. CASE g # h
    BY <1>0, <1>1, <2>1, Zenon DEF Kept, Live, Joined
  <2>2. CASE g = h /\ Checked(h)
    BY <1>1, <1>4, <2>2, AfterPlaces, Zenon DEF Checked, Live, Joined
  <2>3. CASE g = h /\ Called(h)
    BY <1>1, <1>4, <2>3, AfterPlaces, Zenon DEF Called, Calls, Live, Joined
  <2>4. CASE g = h /\ Stopped(h)
    BY <2>4, Zenon DEF Stopped, Live
  <2>5. CASE Take(h)
    BY <1>1, <2>5, Zenon DEF Take, Live, Joined
  <2>6. CASE g = h /\ Sliced(h)
    BY <1>1, <1>4, <2>6, Zenon DEF Sliced, Live, Joined
  <2> QED
    BY <1>0, <2>1, <2>2, <2>3, <2>4, <2>5, <2>6, Zenon
<1>6. 1..made \subseteq Runtimes /\ (ctx # 0 => ctx \in Runtimes)
  BY <1>0, Ranges, Zenon
<1>7. AndroidInv'
  <2>1. ASSUME NEW c \in Callers, CallerInv(c) PROVE CallerInv(c)'
    BY <1>1, <1>4, <1>5, <1>6, <2>1, Zenon DEF CallerInv
  <2> QED
    BY <1>1, <1>4, <1>5, <1>6, <2>1, Zenon DEF IInv, AndroidInv
<1>8. DesktopInv'
  BY <1>1, <1>4, <1>5, <1>6, Zenon DEF IInv, DesktopInv
<1>9. ASSUME NEW g \in Runtimes, rt[g].ready, Live(g) PROVE rt'[g].ready
  <2>1. RuntimeAt(g)
    BY <1>0, Zenon DEF RuntimeInv
  <2>2. rt[g].thread \notin DOMAIN After /\ rt[g].running
    BY <1>9, <2>1, Zenon DEF RuntimeAt, Live
  <2>3. ~(g = h /\ (Checked(h) \/ Called(h) \/ Stopped(h)))
    BY <2>2, AfterPlaces, Zenon DEF Checked, Called, Stopped, Calls
  <2> QED
    BY <1>0, <1>9, <2>3, Zenon DEF Kept, Sliced, Take
<1>10. SenderInv'
  <2> SUFFICES ASSUME NEW s \in Senders PROVE /\ at[s] \in {"send", "post"} => ctx # 0 /\ hold[s] = ctx
                                              /\ at[s] = "post" => rt'[hold[s]].ready
    BY <1>1, Zenon DEF SenderInv
  <2>1. at[s] \in {"send", "post"} => ctx # 0 /\ hold[s] = ctx /\ Live(ctx)
    BY <1>0, Zenon DEF IInv, SenderInv, AndroidInv, DesktopInv, TypeOK
  <2> QED
    BY <1>6, <1>9, <2>1, Zenon DEF IInv, SenderInv
<1>11. QueueInv'
  <2>1. \A g \in Runtimes : rt[g].thread \in {"off", "ended"} => rt'[g].thread \in {"off", "ended"}
    <3>1. Checked(h) \/ Called(h) \/ Sliced(h) \/ Stopped(h) \/ rt' = rt
      BY <1>0, Zenon DEF Take
    <3>2. rt[h].thread \in {"off", "ended"} => rt' = rt
      BY <3>1, AfterPlaces, Zenon DEF Checked, Called, Sliced, Stopped, Calls
    <3> QED
      BY <1>0, <3>2, Zenon DEF Kept
  <2> QED
    BY <1>1, <2>1, QueueSame, Zenon DEF IInv
<1> QED
  BY <1>2, <1>3, <1>7, <1>8, <1>10, <1>11, Zenon DEF IInv

LEMMA UsersSame ==
    ASSUME AndroidInv, DesktopInv, UNCHANGED <<rt, made>>, UNCHANGED hostVars,
           \A s \in Senders : at[s] = "gone" => at'[s] = "gone" \/ serving
    PROVE  AndroidInv' /\ DesktopInv'
<1>1. UNCHANGED <<host, ctx, started, ptr, pending, runtimeConfig, receiving, lock, want, new, pc, serving>>
  BY Zenon DEF hostVars
<1>2. \A h : Live(h)' = Live(h)
  BY Zenon DEF Live, Joined
<1>3. \A c \in Callers : CallerInv(c) => CallerInv(c)'
  BY <1>1, <1>2, Zenon DEF CallerInv
<1>4. AndroidInv'
  BY <1>1, <1>2, <1>3, Zenon DEF AndroidInv
<1>5. DesktopInv'
  BY <1>1, <1>2, Zenon DEF DesktopInv
<1> QED
  BY <1>4, <1>5, Zenon

LEMMA ArriveKeeps ==
    ASSUME IInv, NEW h \in Runtimes, Arrive(h) PROVE IInv'
<1>1. /\ UNCHANGED <<rt, made, box, done, at, hold>> /\ UNCHANGED hostVars /\ UNCHANGED runtimeVars
      /\ rt[h].thread = "run" /\ arrived < MaxArrived /\ arrived' = arrived + 1
  BY Zenon DEF Arrive, senderVars, runtimeVars
<1>2. rt[h].callback
  BY <1>1, Zenon DEF IInv, RuntimeInv, RuntimeAt
<1>3. queue' = Append(queue, h)
  BY <1>1, <1>2, Zenon DEF Arrive
<1>4. arrived' \in 0..MaxArrived /\ queue \in Seq(Runtimes)
  <2>1. arrived \in 0..MaxArrived /\ queue \in Seq(Runtimes)
    BY Zenon DEF IInv, TypeOK
  <2> QED
    BY <1>1, <2>1, Numbers
<1>5. /\ queue' \in Seq(Runtimes) /\ Len(queue') = Len(queue) + 1 /\ Len(queue) \in Nat
      /\ \A i \in 1..Len(queue) : queue'[i] = queue[i]
      /\ queue'[Len(queue) + 1] = h
  BY <1>3, <1>4, AppendRange
<1>6. QueueInv'
  <2>1. UNCHANGED <<ctx, pc, new>>
    BY <1>1, Zenon DEF hostVars
  <2>2. \A g : Owned(g)' = Owned(g)
    BY <2>1, Zenon DEF Owned
  <2>3. Owned(h)
    BY <1>1, Zenon DEF IInv, QueueInv, Joined
  <2>4. \A i \in 1..Len(queue') : i \in 1..Len(queue) \/ queue'[i] = h
    BY <1>5
  <2> QED
    BY <1>1, <1>5, <2>1, <2>2, <2>3, <2>4, Zenon DEF IInv, QueueInv, Joined
<1>7. TypeOK'
  BY <1>1, <1>4, <1>5, Zenon DEF IInv, TypeOK, hostVars
<1>8. AndroidInv' /\ DesktopInv'
  BY <1>1, UsersSame, Zenon DEF IInv
<1>9. RuntimeInv' /\ PeerKnownFirst'
  BY <1>1, RuntimesSame, Zenon DEF IInv
<1>10. SenderInv'
  BY <1>1, SendersSame, Zenon DEF IInv, hostVars
<1> QED
  BY <1>6, <1>7, <1>8, <1>9, <1>10, Zenon DEF IInv

LEMMA ReceiveKeeps ==
    ASSUME IInv, ReceivePacket PROVE IInv'
<1>1. /\ UNCHANGED <<rt, made, box, done, arrived, at, hold>> /\ UNCHANGED hostVars /\ UNCHANGED runtimeVars
      /\ queue # <<>> /\ queue' = Tail(queue)
  BY Zenon DEF ReceivePacket, senderVars, runtimeVars
<1>2. queue \in Seq(Runtimes)
  BY Zenon DEF IInv, TypeOK
<1>3. /\ queue' \in Seq(Runtimes) /\ Len(queue') = Len(queue) - 1 /\ Len(queue) \in Nat \ {0}
      /\ \A i \in 1..(Len(queue) - 1) : queue'[i] = queue[i + 1]
  BY <1>1, <1>2, TailRange, Zenon
<1>4. QueueInv'
  <2>1. UNCHANGED <<ctx, pc, new>>
    BY <1>1, Zenon DEF hostVars
  <2>2. \A g : Owned(g)' = Owned(g)
    BY <2>1, Zenon DEF Owned
  <2>3. \A i \in 1..Len(queue') : \E j \in 1..Len(queue) : queue'[i] = queue[j]
    BY <1>3
  <2> QED
    BY <1>1, <2>1, <2>2, <2>3, Zenon DEF IInv, QueueInv, Joined
<1>7. TypeOK'
  BY <1>1, <1>3, Zenon DEF IInv, TypeOK, hostVars
<1>8. AndroidInv' /\ DesktopInv'
  BY <1>1, UsersSame, Zenon DEF IInv
<1>9. RuntimeInv' /\ PeerKnownFirst'
  BY <1>1, RuntimesSame, Zenon DEF IInv
<1>10. SenderInv'
  BY <1>1, SendersSame, Zenon DEF IInv, hostVars
<1> QED
  BY <1>4, <1>7, <1>8, <1>9, <1>10, Zenon DEF IInv

\* A sender reads the published runtime, is refused, accepted or posts its frame.
LEMMA SenderKeeps ==
    ASSUME IInv, NEW s \in Senders, Worker(s) \/ Check(s) \/ Sender(s) PROVE IInv'
<1>0. /\ UNCHANGED <<rt, made, done>> /\ UNCHANGED hostVars /\ UNCHANGED queueVars
      /\ UNCHANGED <<host, ctx, started, ptr, pending, runtimeConfig, receiving, lock, want, new, pc, serving>>
      /\ UNCHANGED <<queue, arrived>>
  BY Zenon DEF Worker, Check, Sender, Refuse, Accept, Post, runtimeVars, hostVars, queueVars
<1>1. /\ at \in [Senders -> {"gone", "idle", "send", "post"}] /\ hold \in [Senders -> 0..MaxRuntimes]
      /\ ctx \in 0..MaxRuntimes /\ MaxRuntimes \in Nat /\ TypeOK
  BY Numbers, Zenon DEF IInv, TypeOK
<1>2. /\ at' \in [Senders -> {"gone", "idle", "send", "post"}] /\ hold' \in [Senders -> 0..MaxRuntimes]
      /\ \A u \in Senders \ {s} : at'[u] = at[u] /\ hold'[u] = hold[u]
  <2>0. CASE Worker(s)
    BY <1>1, <2>0, Zenon DEF Worker
  <2>1. CASE Check(s)
    BY <1>1, <2>1, Zenon DEF Check
  <2>2. CASE Refuse(s)
    BY <1>1, <2>2, Zenon DEF Refuse
  <2>3. CASE Accept(s)
    BY <1>1, <2>3, Zenon DEF Accept
  <2>4. CASE Post(s)
    BY <1>1, <2>4, Zenon DEF Post
  <2> QED
    BY <2>0, <2>1, <2>2, <2>3, <2>4, Zenon DEF Sender
<1>3. AndroidInv' /\ DesktopInv'
  <2>1. \A u \in Senders : at[u] = "gone" => at'[u] = "gone" \/ serving
    BY <1>1, <1>2, Zenon DEF Worker, Check, Sender, Refuse, Accept, Post
  <2> QED
    BY <1>0, <2>1, UsersSame, Zenon DEF IInv
<1>4. SenderInv'
  <2>1. \A u \in Senders \ {s} : (at'[u] \in {"send", "post"} => ctx # 0 /\ hold'[u] = ctx) /\ (at'[u] = "post" => rt[hold'[u]].ready)
    BY <1>2, Zenon DEF IInv, SenderInv
  <2>2. (at[s] \in {"send", "post"} => ctx # 0 /\ hold[s] = ctx) /\ (at[s] = "post" => rt[hold[s]].ready)
    BY Zenon DEF IInv, SenderInv
  <2>3. (at'[s] \in {"send", "post"} => ctx # 0 /\ hold'[s] = ctx) /\ (at'[s] = "post" => rt[hold'[s]].ready)
    <3>0. CASE Worker(s)
      BY <1>1, <3>0, Zenon DEF Worker
    <3>1. CASE Check(s)
      BY <1>1, <3>1, Zenon DEF Check
    <3>2. CASE Refuse(s)
      BY <1>1, <3>2, Zenon DEF Refuse
    <3>3. CASE Accept(s)
      BY <1>1, <2>2, <3>3, Zenon DEF Accept
    <3>4. CASE Post(s)
      BY <1>1, <3>4, Zenon DEF Post
    <3> QED
      BY <3>0, <3>1, <3>2, <3>3, <3>4, Zenon DEF Sender
  <2> QED
    BY <1>0, <2>1, <2>3 DEF SenderInv
<1>5. QueueInv'
  BY <1>0, QueueSame, Zenon DEF IInv
<1>6. CASE ~Post(s)
  <2>1. UNCHANGED box
    BY <1>6, Zenon DEF Worker, Check, Sender, Refuse, Accept, runtimeVars
  <2>2. RuntimeInv' /\ PeerKnownFirst'
    BY <1>0, <2>1, RuntimesSame, Zenon DEF IInv, runtimeVars
  <2>3. TypeOK'
    BY <1>0, <1>2, <2>1, Zenon DEF IInv, TypeOK
  <2> QED
    BY <1>3, <1>4, <1>5, <2>2, <2>3, Zenon DEF IInv
<1>7. CASE Post(s)
  <2>a. hold[s] \in Runtimes
    BY <1>1, <1>7 DEF IInv, SenderInv, Post, Runtimes
  <2>x. PICK x \in Runtimes : x = hold[s]
    BY <2>a, Zenon
  <2>0. at[s] = "post" /\ x = ctx /\ x \in Runtimes /\ rt[x].ready /\ RuntimeAt(x) /\ RuntimeInv
    BY <1>1, <1>7, <2>x, Zenon DEF IInv, SenderInv, Post, RuntimeInv
  <2>1. box' = [box EXCEPT ![x] = Append(@, "send")]
    BY <1>7, <2>x, Zenon DEF Post
  <2>2. /\ box' \in [Runtimes -> Seq(Calls \cup {"send"})]
        /\ Posted(x) \cup {"send"} \subseteq Posted(x)'
        /\ \A g \in Runtimes \ {x} : box'[g] = box[g] /\ Posted(g)' = Posted(g)
    BY <1>0, <1>1, <2>0, <2>1, PostedAppend, Zenon
  <2>3. TypeOK'
    BY <1>0, <1>2, <2>2, Zenon DEF IInv, TypeOK
  <2>4. Calls \subseteq Posted(x) /\ rt[x].thread # "off"
    BY <2>0, Zenon DEF RuntimeAt
  <2>5. RuntimeAt(x)'
    BY <1>0, <2>0, <2>2, <2>4, Zenon DEF RuntimeAt, Joined
  <2>6. ASSUME NEW g \in Runtimes \ {x} PROVE RuntimeAt(g)'
    <3>1. RuntimeAt(g)
      BY <2>0, Zenon DEF RuntimeInv
    <3> QED
      BY <1>0, <2>2, <3>1, Zenon DEF RuntimeAt, Joined
  <2>7. RuntimeInv'
    BY <2>5, <2>6, Zenon DEF RuntimeInv
  <2>8. PeerKnownFirst'
    <3> SUFFICES ASSUME NEW g \in Runtimes, NEW i \in 1..Len(box'[g]), box'[g][i] = "send"
                 PROVE  Calls \subseteq done[g] \cup {box'[g][j] : j \in 1..(i - 1)}
      BY <1>0, Zenon DEF PeerKnownFirst
    <3>1. CASE g # x
      <4>1. box'[g] = box[g]
        BY <2>2, <3>1, Zenon
      <4>2. PeerKnownFirst
        BY Zenon DEF IInv
      <4> QED
        BY <4>1, <4>2 DEF PeerKnownFirst
    <3>2. CASE g = x
      <4>1. box[x] \in Seq(Calls \cup {"send"}) /\ box'[x] = Append(box[x], "send")
        BY <1>1, <2>0, <2>1, Zenon DEF TypeOK
      <4>2. Len(box[x]) \in Nat /\ Len(box'[x]) = Len(box[x]) + 1 /\ \A j \in 1..Len(box[x]) : box'[x][j] = box[x][j]
        BY <4>1, AppendRange
      <4>3. CASE i \in 1..Len(box[x])
        <5>1. Calls \subseteq done[x] \cup {box[x][j] : j \in 1..(i - 1)}
          BY <2>0, <3>2, <4>2, <4>3, Zenon DEF IInv, PeerKnownFirst
        <5>2. \A j \in 1..(i - 1) : box'[x][j] = box[x][j]
          BY <4>2, <4>3
        <5> QED
          BY <3>2, <5>1, <5>2, Zenon
      <4>4. CASE i = Len(box[x]) + 1
        <5>1. i - 1 = Len(box[x])
          BY <4>2, <4>4
        <5> QED
          BY <2>4, <3>2, <4>2, <5>1, Zenon DEF Posted
      <4> QED
        BY <3>2, <4>2, <4>3, <4>4
    <3> QED
      BY <3>1, <3>2, Zenon
  <2> QED
    BY <1>3, <1>4, <1>5, <2>3, <2>7, <2>8, Zenon DEF IInv
<1> QED
  BY <1>6, <1>7, Zenon

LEMMA PressKeeps ==
    ASSUME IInv, Press PROVE IInv'
<1>1. host = "desktop" /\ pc["main"] = "idle" /\ "main" \in Threads /\ DesktopInv /\ TypeOK
  BY Zenon DEF Press, IInv, Threads
<1>2. /\ UNCHANGED <<host, rt, made, box, done, ctx, started, ptr, pending, runtimeConfig, receiving, lock, new>>
      /\ UNCHANGED <<queue, arrived, at, hold>>
      /\ serving' = FALSE /\ pc' = [pc EXCEPT !["main"] = "joinSenders"]
  BY Zenon DEF Press, runtimeVars, queueVars, senderVars
<1>3. /\ pc' \in [Threads -> Places] /\ pc'["main"] = "joinSenders"
      /\ \A c \in Callers : pc'[c] = "idle" /\ pc[c] = "idle"
  <2>1. \A c \in Callers : c # "main" /\ c \in Threads
    BY SetsAssumption, Zenon DEF Threads
  <2> QED
    BY <1>1, <1>2, <2>1, Zenon DEF TypeOK, Places, Critical, DesktopInv
<1>w. want' \in [Threads -> Configs \cup {None}]
  BY <1>1 DEF Press, TypeOK
<1>4. RuntimeInv' /\ PeerKnownFirst' /\ \A h : (Live(h) => Live(h)')
  BY <1>2, RuntimesSame, Zenon DEF IInv, runtimeVars
<1>5. QueueInv'
  BY <1>1, <1>2, <1>3, QueueSame, Zenon DEF IInv
<1>6. TypeOK'
  BY <1>1, <1>2, <1>3, <1>w, Zenon DEF TypeOK, Critical
<1>7. AndroidInv'
  BY <1>1, <1>2, Zenon DEF AndroidInv
<1>8. DesktopInv'
  BY <1>1, <1>2, <1>3, <1>4, Zenon DEF DesktopInv
<1>9. SenderInv'
  BY <1>2, SendersSame, Zenon DEF IInv
<1> QED
  BY <1>4, <1>5, <1>6, <1>7, <1>8, <1>9, Zenon DEF IInv

LEMMA JoinSendersKeeps ==
    ASSUME IInv, JoinSenders PROVE IInv'
<1>1. host = "desktop" /\ pc["main"] = "joinSenders" /\ "main" \in Threads /\ DesktopInv /\ TypeOK
  BY MainFacts, Zenon DEF JoinSenders, IInv, Threads
<1>2. /\ UNCHANGED <<host, rt, made, box, done, ctx, started, ptr, pending, runtimeConfig, lock, want>>
      /\ UNCHANGED <<new, serving, queue, arrived, at, hold>>
      /\ receiving' = FALSE /\ (\A s \in Senders : at[s] = "gone") /\ pc' = [pc EXCEPT !["main"] = IF ctx = 0 THEN "clearAgain" ELSE "clear"]
  BY Zenon DEF JoinSenders, runtimeVars, queueVars, senderVars
<1>3. /\ pc' \in [Threads -> Places] /\ pc'["main"] = IF ctx = 0 THEN "clearAgain" ELSE "clear"
      /\ \A c \in Callers : pc'[c] = "idle" /\ pc[c] = "idle"
  <2>1. \A c \in Callers : c # "main" /\ c \in Threads
    BY SetsAssumption, Zenon DEF Threads
  <2> QED
    BY <1>1, <1>2, <2>1, Zenon DEF TypeOK, Places, Critical, DesktopInv
<1>4. RuntimeInv' /\ PeerKnownFirst' /\ \A h : (Live(h) => Live(h)')
  BY <1>2, RuntimesSame, Zenon DEF IInv, runtimeVars
<1>5. QueueInv'
  BY <1>1, <1>2, <1>3, QueueSame, Zenon DEF IInv
<1>6. TypeOK'
  BY <1>1, <1>2, <1>3, Numbers, Zenon DEF TypeOK, DesktopInv, Critical
<1>7. AndroidInv'
  BY <1>1, <1>2, Zenon DEF AndroidInv
<1>8. DesktopInv'
  BY <1>1, <1>2, <1>3, <1>4, Zenon DEF DesktopInv
<1>9. SenderInv'
  BY <1>1, <1>2, Zenon DEF IInv, SenderInv, DesktopInv
<1> QED
  BY <1>4, <1>5, <1>6, <1>7, <1>8, <1>9, Zenon DEF IInv

LEMMA ClearKeeps ==
    ASSUME IInv, Clear PROVE IInv'
<1>1. host = "desktop" /\ pc["main"] = "clear" /\ "main" \in Threads /\ DesktopInv /\ TypeOK
  BY MainFacts, Zenon DEF Clear, IInv, Threads
<1>2. /\ UNCHANGED <<host, rt, made, box, done, ctx, ptr, pending, runtimeConfig, receiving, lock, want, new>>
      /\ UNCHANGED <<serving, arrived, at, hold>>
      /\ started' = FALSE /\ queue' = <<>> /\ pc' = [pc EXCEPT !["main"] = "stop"]
  BY Zenon DEF Clear, runtimeVars, senderVars
<1>3. /\ pc' \in [Threads -> Places] /\ pc'["main"] = "stop"
      /\ \A c \in Callers : pc'[c] = "idle" /\ pc[c] = "idle"
  <2>1. \A c \in Callers : c # "main" /\ c \in Threads
    BY SetsAssumption, Zenon DEF Threads
  <2> QED
    BY <1>1, <1>2, <2>1, Zenon DEF TypeOK, Places, Critical, DesktopInv
<1>4. RuntimeInv' /\ PeerKnownFirst' /\ \A h : (Live(h) => Live(h)')
  BY <1>2, RuntimesSame, Zenon DEF IInv, runtimeVars
<1>q. queue' \in Seq(Runtimes) /\ Len(queue') = 0 /\ 1..0 = {}
  BY <1>2
<1>5. QueueInv'
  <2>1. \A h : Owned(h) => Owned(h)'
    BY <1>2, <1>3, Zenon DEF Owned
  <2> QED
    BY <1>2, <1>q, <2>1, Zenon DEF IInv, QueueInv, Joined
<1>6. TypeOK'
  BY <1>1, <1>2, <1>3, <1>q, Numbers, Zenon DEF TypeOK, DesktopInv, Critical
<1>7. AndroidInv'
  BY <1>1, <1>2, Zenon DEF AndroidInv
<1>8. DesktopInv'
  BY <1>1, <1>2, <1>3, <1>4, Zenon DEF DesktopInv
<1>9. SenderInv'
  BY <1>1, <1>2, Zenon DEF IInv, SenderInv, DesktopInv
<1> QED
  BY <1>4, <1>5, <1>6, <1>7, <1>8, <1>9, Zenon DEF IInv

LEMMA StopHandleKeeps ==
    ASSUME IInv, StopHandle PROVE IInv'
<1>1. host = "desktop" /\ pc["main"] = "stop" /\ "main" \in Threads /\ DesktopInv /\ TypeOK
  BY MainFacts, Zenon DEF StopHandle, IInv, Threads
<1>2. /\ UNCHANGED <<host, made, box, done, ctx, started, ptr, pending, runtimeConfig, receiving, lock, want, new>>
      /\ UNCHANGED <<serving, queue, arrived, at, hold>>
      /\ pc' = [pc EXCEPT !["main"] = "join"]
  BY Zenon DEF StopHandle, queueVars, senderVars
<1>3. /\ pc' \in [Threads -> Places] /\ pc'["main"] = "join"
      /\ \A c \in Callers : pc'[c] = "idle" /\ pc[c] = "idle"
  <2>1. \A c \in Callers : c # "main" /\ c \in Threads
    BY SetsAssumption, Zenon DEF Threads
  <2> QED
    BY <1>1, <1>2, <2>1, Zenon DEF TypeOK, Places, Critical, DesktopInv
<1>r. /\ rt' \in [Runtimes -> Runtime] /\ ctx \in 1..made /\ ~rt'[ctx].running /\ ~rt'[ctx].deleted
      /\ RuntimeInv' /\ PeerKnownFirst'
      /\ \A h \in Runtimes : rt'[h].thread = rt[h].thread
      /\ \A s \in Senders : at[s] = "gone"
  <2>0. 1..made \subseteq Runtimes
    BY <1>1, Ranges, Zenon
  <2>1. StopRuntime(ctx) /\ ctx \in 1..made /\ ~rt[ctx].deleted /\ \A s \in Senders : at[s] = "gone"
    BY <1>1, Zenon DEF StopHandle, DesktopInv
  <2>2. rt' \in [Runtimes -> Runtime] /\ \A h \in Runtimes : rt'[h].thread = rt[h].thread
    BY <1>1, <2>0, <2>1, StopMoves, Zenon
  <2>3. RuntimeInv' /\ PeerKnownFirst' /\ ~rt'[ctx].running /\ rt'[ctx].deleted = rt[ctx].deleted
    BY <1>2, <2>1, StopKeeps, Zenon
  <2> QED
    BY <2>1, <2>2, <2>3, Zenon
<1>4. RuntimeInv' /\ PeerKnownFirst'
  BY <1>r, Zenon
<1>5. QueueInv'
  BY <1>1, <1>2, <1>3, <1>r, QueueSame, Zenon DEF IInv
<1>6. TypeOK'
  BY <1>1, <1>2, <1>3, <1>r, Numbers, Zenon DEF TypeOK, DesktopInv, Critical
<1>7. AndroidInv'
  BY <1>1, <1>2, Zenon DEF AndroidInv
<1>8. DesktopInv'
  BY <1>1, <1>2, <1>3, <1>4, <1>r, Zenon DEF DesktopInv
<1>9. SenderInv'
  BY <1>1, <1>2, <1>r, Zenon DEF IInv, SenderInv, DesktopInv
<1> QED
  BY <1>4, <1>5, <1>6, <1>7, <1>8, <1>9, Zenon DEF IInv

LEMMA JoinKeeps ==
    ASSUME IInv, Join PROVE IInv'
<1>1. host = "desktop" /\ pc["main"] = "join" /\ "main" \in Threads /\ DesktopInv /\ TypeOK
  BY MainFacts, Zenon DEF Join, IInv, Threads
<1>2. /\ UNCHANGED <<host, made, done, started, ptr, pending, runtimeConfig, receiving, lock, want, new, serving>>
      /\ UNCHANGED <<queue, arrived, at, hold>>
      /\ ctx' = 0 /\ pc' = [pc EXCEPT !["main"] = "clearAgain"]
  BY Zenon DEF Join, queueVars, senderVars
<1>3. /\ pc' \in [Threads -> Places] /\ pc'["main"] = "clearAgain"
      /\ \A c \in Callers : pc'[c] = "idle" /\ pc[c] = "idle"
  <2>1. \A c \in Callers : c # "main" /\ c \in Threads
    BY SetsAssumption, Zenon DEF Threads
  <2> QED
    BY <1>1, <1>2, <2>1, Zenon DEF TypeOK, Places, Critical, DesktopInv
<1>r. /\ rt' \in [Runtimes -> Runtime] /\ box' \in [Runtimes -> Seq(Calls \cup {"send"})]
      /\ RuntimeInv' /\ PeerKnownFirst' /\ Joined(ctx)
      /\ \A h \in Runtimes : rt'[h].thread = rt[h].thread
      /\ \A s \in Senders : at[s] = "gone"
  <2>0. 1..made \subseteq Runtimes
    BY <1>1, Ranges, Zenon
  <2>1. /\ Joined(ctx) /\ Destroy(ctx) /\ ctx \in 1..made /\ ~rt[ctx].running
        /\ \A s \in Senders : at[s] = "gone"
    BY <1>1, Zenon DEF Join, DesktopInv
  <2>2. /\ rt' \in [Runtimes -> Runtime] /\ box' \in [Runtimes -> Seq(Calls \cup {"send"})]
        /\ \A h \in Runtimes : rt'[h].thread = rt[h].thread
    BY <1>1, <2>0, <2>1, DestroyMoves, Zenon
  <2>3. RuntimeInv' /\ PeerKnownFirst'
    BY <1>2, <2>1, DestroyKeeps, Zenon
  <2> QED
    BY <2>1, <2>2, <2>3, Zenon
<1>4. RuntimeInv' /\ PeerKnownFirst'
  BY <1>r, Zenon
<1>5. QueueInv'
  <2>1. \A h \in Runtimes : ~Joined(h) => h = ctx
    BY <1>3, Zenon DEF IInv, QueueInv, Owned
  <2> QED
    BY <1>3, <1>r, <2>1, Zenon DEF QueueInv, Joined
<1>6. TypeOK'
  BY <1>1, <1>2, <1>3, <1>r, Numbers, Zenon DEF TypeOK, DesktopInv, Critical
<1>7. AndroidInv'
  BY <1>1, <1>2, Zenon DEF AndroidInv
<1>8. DesktopInv'
  BY <1>1, <1>2, <1>3, <1>4, <1>r, Zenon DEF DesktopInv
<1>9. SenderInv'
  BY <1>1, <1>2, <1>r, Zenon DEF IInv, SenderInv, DesktopInv
<1> QED
  BY <1>4, <1>5, <1>6, <1>7, <1>8, <1>9, Zenon DEF IInv

LEMMA ClearAgainKeeps ==
    ASSUME IInv, ClearAgain PROVE IInv'
<1>1. host = "desktop" /\ pc["main"] = "clearAgain" /\ "main" \in Threads /\ DesktopInv /\ TypeOK
  BY MainFacts, Zenon DEF ClearAgain, IInv, Threads
<1>2. /\ UNCHANGED <<host, rt, made, box, done, ctx, ptr, pending, runtimeConfig, receiving, lock, want, new>>
      /\ UNCHANGED <<serving, arrived, at, hold>>
      /\ started' = FALSE /\ queue' = <<>> /\ pc' = [pc EXCEPT !["main"] = IF want["main"] = None THEN "idle" ELSE "create"]
  BY Zenon DEF ClearAgain, runtimeVars, senderVars
<1>3. /\ pc' \in [Threads -> Places] /\ pc'["main"] = IF want["main"] = None THEN "idle" ELSE "create"
      /\ \A c \in Callers : pc'[c] = "idle" /\ pc[c] = "idle"
  <2>1. \A c \in Callers : c # "main" /\ c \in Threads
    BY SetsAssumption, Zenon DEF Threads
  <2> QED
    BY <1>1, <1>2, <2>1, Zenon DEF TypeOK, Places, Critical, DesktopInv
<1>4. RuntimeInv' /\ PeerKnownFirst' /\ \A h : (Live(h) => Live(h)')
  BY <1>2, RuntimesSame, Zenon DEF IInv, runtimeVars
<1>q. queue' \in Seq(Runtimes) /\ Len(queue') = 0 /\ 1..0 = {}
  BY <1>2
<1>5. QueueInv'
  <2>1. \A h : Owned(h) => Owned(h)'
    BY <1>2, <1>3, Zenon DEF Owned
  <2> QED
    BY <1>2, <1>q, <2>1, Zenon DEF IInv, QueueInv, Joined
<1>6. TypeOK'
  BY <1>1, <1>2, <1>3, <1>q, Numbers, Zenon DEF TypeOK, DesktopInv, Critical
<1>7. AndroidInv'
  BY <1>1, <1>2, Zenon DEF AndroidInv
<1>8. DesktopInv'
  <2>1. want["main"] = None \/ want["main"] \in Configs
    BY <1>1, Zenon DEF TypeOK
  <2>2. /\ lock = None /\ runtimeConfig = None /\ ctx = 0 /\ ~serving
        /\ \A s \in Senders : at[s] = "gone"
    BY <1>1, Zenon DEF DesktopInv
  <2>3. CASE want["main"] = None
    <3>1. pc'["main"] = "idle"
      BY <1>3, <2>3, Zenon
    <3> QED
      BY <1>2, <1>3, <2>2, <3>1 DEF DesktopInv
  <2>4. CASE want["main"] # None
    <3>1. pc'["main"] = "create" /\ want'["main"] \in Configs
      BY <1>2, <1>3, <2>1, <2>4, Zenon
    <3> QED
      BY <1>2, <1>3, <2>2, <3>1 DEF DesktopInv
  <2> QED
    BY <2>3, <2>4, Zenon
<1>9. SenderInv'
  BY <1>1, <1>2, Zenon DEF IInv, SenderInv, DesktopInv
<1> QED
  BY <1>4, <1>5, <1>6, <1>7, <1>8, <1>9, Zenon DEF IInv

LEMMA CreateHandleKeeps ==
    ASSUME IInv, CreateHandle PROVE IInv'
<1>1. /\ host = "desktop" /\ pc["main"] = "create" /\ "main" \in Threads /\ DesktopInv /\ TypeOK
      /\ ctx = 0 /\ want["main"] \in Configs /\ \A s \in Senders : at[s] = "gone"
  BY MainFacts, Zenon DEF CreateHandle, IInv, Threads, DesktopInv
<1>2. /\ UNCHANGED <<host, box, done, started, ptr, pending, runtimeConfig, receiving, lock, want, new, serving>>
      /\ UNCHANGED <<queue, arrived, at, hold>>
  BY Zenon DEF CreateHandle, queueVars, senderVars
<1>c. \A c \in Callers : c # "main" /\ c \in Threads
  BY SetsAssumption, Zenon DEF Threads
<1>3. AndroidInv'
  BY <1>1, <1>2, Zenon DEF AndroidInv
<1>n. \A c \in Callers : pc[c] # "publish"
  BY <1>1, Zenon DEF DesktopInv
<1>4. CASE pc' = [pc EXCEPT !["main"] = "idle"] /\ UNCHANGED <<rt, made, ctx>>
  <2>1. /\ pc' \in [Threads -> Places] /\ pc'["main"] = "idle"
        /\ \A c \in Callers : pc'[c] = "idle" /\ pc[c] = "idle"
    BY <1>1, <1>4, <1>c, Zenon DEF TypeOK, Places, DesktopInv
  <2>2. RuntimeInv' /\ PeerKnownFirst' /\ SenderInv'
    BY <1>2, <1>4, RuntimesSame, SendersSame, Zenon DEF IInv, runtimeVars
  <2>3. TypeOK'
    BY <1>1, <1>2, <1>4, <2>1, Zenon DEF TypeOK, DesktopInv, Critical
  <2>4. DesktopInv'
    BY <1>1, <1>2, <1>4, <2>1, Zenon DEF DesktopInv
  <2>5. QueueInv'
    BY <1>1, <1>2, <1>4, <1>n, QueueSame, Zenon DEF IInv
  <2> QED
    BY <1>3, <2>2, <2>3, <2>4, <2>5, Zenon DEF IInv
<1>5. CASE /\ made < MaxRuntimes /\ Create(made + 1, want["main"])
           /\ ctx' = made + 1 /\ pc' = [pc EXCEPT !["main"] = "start"]
  <2>1. /\ pc' \in [Threads -> Places] /\ pc'["main"] = "start"
        /\ \A c \in Callers : pc'[c] = "idle" /\ pc[c] = "idle"
    BY <1>1, <1>5, <1>c, Zenon DEF TypeOK, Places, Critical, DesktopInv
  <2>2. made \in Nat /\ made + 1 \in Runtimes /\ MaxRuntimes \in Nat /\ made + 1 \in 1..MaxRuntimes
    BY <1>1, <1>5, Ranges, Numbers, Zenon
  <2>3. /\ rt' \in [Runtimes -> Runtime] /\ made' = made + 1
        /\ ~rt'[made + 1].deleted /\ rt'[made + 1].thread = "off"
    BY <1>1, <1>5, <2>2, CreateMoves, Zenon
  <2>4. RuntimeInv' /\ PeerKnownFirst'
    BY <1>1, <1>2, <1>5, CreateKeeps, Zenon
  <2>5. TypeOK'
    <3>1. \A c \in Callers : lock' = c <=> pc'[c] \in Critical
      BY <1>1, <1>2, <2>1, SetsAssumption, Zenon DEF DesktopInv, Critical
    <3>2. made' \in 0..MaxRuntimes /\ ctx' \in 0..MaxRuntimes
      BY <1>5, <2>2, <2>3
    <3> QED
      BY <1>1, <1>2, <2>1, <2>3, <3>1, <3>2, Zenon DEF TypeOK
  <2>6. DesktopInv'
    <3>1. ctx' \in 1..made' /\ rt'[ctx'].thread = "off" /\ ~rt'[ctx'].deleted
      BY <1>5, <2>2, <2>3
    <3>2. lock' = None /\ runtimeConfig' = None /\ serving' = serving /\ ~serving
      BY <1>1, <1>2, Zenon DEF DesktopInv
    <3> QED
      BY <1>1, <1>2, <2>1, <3>1, <3>2 DEF DesktopInv
  <2>7. SenderInv'
    BY <1>1, <1>2, Zenon DEF SenderInv
  <2>8. QueueInv'
    <3>1. \A h \in Runtimes : ~Owned(h)
      BY <1>1, <1>n, Numbers DEF Owned, Runtimes
    <3>2. \A i \in 1..Len(queue) : queue[i] \in Runtimes
      BY <1>1 DEF TypeOK
    <3>3. ~\E i \in 1..Len(queue) : TRUE
      BY <1>1, <3>1, <3>2, Zenon DEF IInv, QueueInv
    <3>4. \A h \in Runtimes : Joined(h)'
      BY <1>1, <1>5, <2>2, <2>3, <3>1, CreateMoves, Zenon DEF IInv, QueueInv, Joined
    <3> QED
      BY <1>2, <3>3, <3>4, Zenon DEF QueueInv
  <2> QED
    BY <1>3, <2>4, <2>5, <2>6, <2>7, <2>8, Zenon DEF IInv
<1> QED
  BY <1>4, <1>5, Zenon DEF CreateHandle

LEMMA StartHandleKeeps ==
    ASSUME IInv, StartHandle PROVE IInv'
<1>1. host = "desktop" /\ pc["main"] = "start" /\ "main" \in Threads /\ DesktopInv /\ TypeOK
  BY MainFacts, Zenon DEF StartHandle, IInv, Threads
<1>2. /\ UNCHANGED <<host, made, box, done, ctx, started, ptr, pending, runtimeConfig, receiving, lock, want>>
      /\ UNCHANGED <<new, serving, queue, arrived, at, hold>>
      /\ pc' = [pc EXCEPT !["main"] = "up"]
  BY Zenon DEF StartHandle, runtimeVars, queueVars, senderVars
<1>3. /\ pc' \in [Threads -> Places] /\ pc'["main"] = "up"
      /\ \A c \in Callers : pc'[c] = "idle" /\ pc[c] = "idle"
  <2>1. \A c \in Callers : c # "main" /\ c \in Threads
    BY SetsAssumption, Zenon DEF Threads
  <2> QED
    BY <1>1, <1>2, <2>1, Zenon DEF TypeOK, Places, Critical, DesktopInv
<1>r. /\ rt' \in [Runtimes -> Runtime] /\ Live(ctx)' /\ ctx \in 1..made /\ ~rt'[ctx].deleted
      /\ RuntimeInv' /\ PeerKnownFirst' /\ \A s \in Senders : at[s] = "gone"
  <2>1. \A s \in Senders : at[s] = "gone"
    BY <1>1, Zenon DEF DesktopInv
  <2>2. ctx \in 1..made /\ ctx \in Runtimes /\ rt[ctx].thread = "off" /\ ctx # 0
    BY <1>1, Ranges DEF DesktopInv
  <2>3. ~rt[ctx].deleted
    BY <1>1, <2>2, Zenon DEF DesktopInv
  <2>4. Live(ctx)' /\ RuntimeInv' /\ PeerKnownFirst'
    <3>1. PICK x \in 1..made : x = ctx
      BY <2>2, Zenon
    <3> QED
      BY <1>2, <2>2, <2>3, <3>1, StartKeeps, Zenon DEF StartHandle
  <2> QED
    BY <1>1, <2>1, <2>2, <2>3, <2>4, StartMoves, Zenon DEF StartHandle
<1>4. RuntimeInv' /\ PeerKnownFirst'
  BY <1>r, Zenon
<1>5. QueueInv'
  <2>1. \A h : Owned(h)' = Owned(h)
    BY <1>2, <1>3, Zenon DEF Owned
  <2>2. \A h \in Runtimes : ~Joined(h)' => ~Joined(h) \/ h = ctx
    BY <1>1, <1>r, StartMoves, Ranges, Zenon DEF StartHandle, Joined
  <2> QED
    BY <1>1, <1>2, <1>3, <2>1, <2>2, Zenon DEF IInv, QueueInv, Owned
<1>6. TypeOK'
  BY <1>1, <1>2, <1>3, <1>r, Numbers, Zenon DEF TypeOK, DesktopInv, Critical
<1>7. AndroidInv'
  BY <1>1, <1>2, Zenon DEF AndroidInv
<1>8. DesktopInv'
  BY <1>1, <1>2, <1>3, <1>4, <1>r, Zenon DEF DesktopInv
<1>9. SenderInv'
  BY <1>1, <1>2, <1>r, Zenon DEF IInv, SenderInv, DesktopInv
<1> QED
  BY <1>4, <1>5, <1>6, <1>7, <1>8, <1>9, Zenon DEF IInv

LEMMA UpKeeps ==
    ASSUME IInv, Up PROVE IInv'
<1>1. host = "desktop" /\ pc["main"] = "up" /\ "main" \in Threads /\ DesktopInv /\ TypeOK
  BY MainFacts, Zenon DEF Up, IInv, Threads
<1>2. /\ UNCHANGED <<host, rt, made, box, done, ctx, ptr, pending, runtimeConfig, lock, new>>
      /\ UNCHANGED <<queue, arrived, at, hold>>
      /\ started' = TRUE /\ receiving' = TRUE
  BY Zenon DEF Up, runtimeVars, queueVars, senderVars
<1>s. PICK p \in {"idle", "joinSenders"} : pc' = [pc EXCEPT !["main"] = p] /\ (serving' => p = "idle")
  <2>1. ~serving
    BY <1>1, Zenon DEF DesktopInv
  <2>2. \/ pc' = [pc EXCEPT !["main"] = "idle"]
        \/ pc' = [pc EXCEPT !["main"] = "joinSenders"] /\ ~serving'
    BY <2>1, Zenon DEF Up
  <2> QED
    BY <2>2, Zenon
<1>w. want' \in [Threads -> Configs \cup {None}] /\ serving' \in BOOLEAN
  <2>1. want \in [Threads -> Configs \cup {None}] /\ serving \in BOOLEAN
    BY <1>1, Zenon DEF TypeOK
  <2>2. want' = want \/ want' = [want EXCEPT !["main"] = None]
    BY Zenon DEF Up
  <2>3. serving' = TRUE \/ serving' = serving
    BY Zenon DEF Up
  <2> QED
    BY <1>1, <2>1, <2>2, <2>3
<1>3. /\ pc' \in [Threads -> Places] /\ pc'["main"] \in {"idle", "joinSenders"} /\ (serving' => pc'["main"] = "idle")
      /\ \A c \in Callers : pc'[c] = "idle" /\ pc[c] = "idle"
  <2>1. \A c \in Callers : c # "main" /\ c \in Threads
    BY SetsAssumption, Zenon DEF Threads
  <2> QED
    BY <1>1, <1>s, <2>1, Zenon DEF TypeOK, Places, Critical, DesktopInv
<1>4. RuntimeInv' /\ PeerKnownFirst' /\ \A h : (Live(h) => Live(h)')
  BY <1>2, RuntimesSame, Zenon DEF IInv, runtimeVars
<1>5. QueueInv'
  BY <1>1, <1>2, <1>3, QueueSame, Zenon DEF IInv
<1>6. TypeOK'
  BY <1>1, <1>2, <1>3, <1>w, Numbers, Zenon DEF TypeOK, DesktopInv, Critical
<1>7. AndroidInv'
  BY <1>1, <1>2, Zenon DEF AndroidInv
<1>8. DesktopInv'
  BY <1>1, <1>2, <1>3, <1>4, Zenon DEF DesktopInv
<1>9. SenderInv'
  BY <1>1, <1>2, Zenon DEF IInv, SenderInv, DesktopInv
<1> QED
  BY <1>4, <1>5, <1>6, <1>7, <1>8, <1>9, Zenon DEF IInv

\* A process that has made no runtime satisfies the invariant.
LEMMA IndInit == Init => IInv
<1> SUFFICES ASSUME Init PROVE IInv
  BY Zenon
<1>n. NoRuntime \in Runtime
  BY Zenon DEF NoRuntime, Runtime
<1>0. NoRuntime \in Runtime /\ "main" \in Threads /\ 0 \in 0..MaxRuntimes /\ 0 \in 0..MaxArrived
  BY <1>n, Numbers, Zenon DEF Threads
<1>1. \A h \in Runtimes : /\ rt[h].thread = "off" /\ ~rt[h].deleted /\ ~rt[h].ready /\ ~rt[h].running
                         /\ box[h] = <<>>
  BY Zenon DEF Init, NoRuntime
<1>2. TypeOK
  <2>1. \A c \in Callers : c # None /\ pc[c] = "idle"
    BY SetsAssumption, Zenon DEF Init, Threads
  <2>2. rt \in [Runtimes -> Runtime] /\ box \in [Runtimes -> Seq(Calls \cup {"send"})] /\ done \in [Runtimes -> SUBSET Calls]
    BY <1>0 DEF Init
  <2>3. \A c \in Callers : lock = c <=> pc[c] \in Critical
    BY <2>1, Zenon DEF Init, Critical
  <2>4. /\ want \in [Threads -> Configs \cup {None}] /\ pc \in [Threads -> Places]
        /\ at \in [Senders -> {"gone", "idle", "send", "post"}] /\ hold \in [Senders -> 0..MaxRuntimes]
    BY <1>0, Zenon DEF Init, Places
  <2>5. queue \in Seq(Runtimes) /\ lock \in Callers \cup {None} /\ runtimeConfig \in Configs \cup {None} /\ pending \in Configs \cup {None}
    BY DEF Init
  <2>6. /\ made \in 0..MaxRuntimes /\ ctx \in 0..MaxRuntimes /\ ptr \in 0..MaxRuntimes /\ new \in 0..MaxRuntimes
        /\ arrived \in 0..MaxArrived
    BY <1>0, Zenon DEF Init
  <2>7. host \in {"android", "desktop"} /\ started \in BOOLEAN /\ receiving \in BOOLEAN /\ serving \in BOOLEAN
    BY Zenon DEF Init
  <2> QED
    BY <2>2, <2>3, <2>4, <2>5, <2>6, <2>7, Zenon DEF TypeOK
<1>3. RuntimeInv
  BY <1>1, AfterPlaces DEF Init, RuntimeInv, RuntimeAt, Calls
<1>4. AndroidInv /\ DesktopInv /\ SenderInv
  BY <1>0, Zenon DEF Init, AndroidInv, CallerInv, DesktopInv, SenderInv, Threads, Critical
<1>5. PeerKnownFirst /\ QueueInv
  BY <1>1 DEF Init, PeerKnownFirst, QueueInv, Joined
<1> QED
  BY <1>2, <1>3, <1>4, <1>5, Zenon DEF IInv

\* Every step of every thread keeps it.
LEMMA IndNext == IInv /\ [Next]_vars => IInv'
<1> SUFFICES ASSUME IInv, [Next]_vars PROVE IInv'
  BY Zenon
<1>1. ASSUME NEW h \in Runtimes, Scheduler(h) \/ Arrive(h) PROVE IInv'
  BY <1>1, SchedulerKeeps, ArriveKeeps, Zenon
<1>2. ASSUME NEW c \in Callers, Call(c) \/ Initialize(c) PROVE IInv'
  BY <1>2, CallKeeps, EnterKeeps, ConfigureKeeps, ReplaceKeeps, CreateContextKeeps, CreateFailsKeeps,
     StartContextKeeps, PublishKeeps, AssignKeeps, RecordKeeps, Zenon DEF Initialize
<1>3. CASE Press \/ Main
  BY <1>3, PressKeeps, JoinSendersKeeps, ClearKeeps, StopHandleKeeps, JoinKeeps, ClearAgainKeeps,
     CreateHandleKeeps, StartHandleKeeps, UpKeeps, Zenon DEF Main
<1>4. ASSUME NEW s \in Senders, Worker(s) \/ Check(s) \/ Sender(s) PROVE IInv'
  BY <1>4, SenderKeeps, Zenon
<1>5. CASE ReceivePacket
  BY <1>5, ReceiveKeeps, Zenon
<1>6. CASE UNCHANGED vars
  <2>1. /\ UNCHANGED runtimeVars /\ UNCHANGED queueVars /\ UNCHANGED hostVars /\ UNCHANGED <<rt, made, ctx, queue, pc, new, at, hold>>
        /\ \A s \in Senders : at[s] = "gone" => at'[s] = "gone"
    BY <1>6, Zenon DEF vars, runtimeVars, queueVars, hostVars
  <2>2. TypeOK'
    BY <1>6, Zenon DEF IInv, TypeOK, vars
  <2> QED
    BY <2>1, <2>2, RuntimesSame, QueueSame, UsersSame, SendersSame, Zenon DEF IInv
<1> QED
  BY <1>1, <1>2, <1>3, <1>4, <1>5, <1>6, Zenon DEF Next

LEMMA Inductive == Spec => []IInv
<1>1. Init => IInv
  BY IndInit, Zenon
<1>2. IInv /\ [Next]_vars => IInv'
  BY IndNext, Zenon
<1> QED
  BY <1>1, <1>2, PTL DEF Spec

\* Every variable of the runtime, of ton_transport.cpp and of NativeTonTransport
\* keeps its type, and the monitor has one holder.
THEOREM TypeCorrect == Spec => []TypeOK
<1>1. IInv => TypeOK
  BY Zenon DEF IInv
<1> QED
  BY <1>1, Inductive, PTL

\* Whatever the number of senders and however the scheduler thread is delayed, a
\* frame send() accepted is behind add_id, add_peer and subscribe in the actor's box.
THEOREM PeerBeforeFrames == Spec => []PeerKnownFirst
<1>1. IInv => PeerKnownFirst
  BY Zenon DEF IInv
<1> QED
  BY <1>1, Inductive, PTL

\* No sender and no scheduler thread uses a runtime after ton_adnl_client_destroy,
\* with any number of threads calling initialize or sending.
THEOREM RuntimesLive == Spec => []UsesLiveRuntime
<1>1. ASSUME IInv PROVE UsesLiveRuntime
  <2>1. TypeOK /\ RuntimeInv /\ SenderInv
    BY <1>1, Zenon DEF IInv
  <2>2. ctx # 0 => ~rt[ctx].deleted /\ ctx \in Runtimes
    <3>1. host \in {"android", "desktop"} /\ AndroidInv /\ DesktopInv
      BY <1>1, <2>1, Zenon DEF IInv, TypeOK
    <3>2. ctx # 0 => ~rt[ctx].deleted
      BY <3>1, Zenon DEF AndroidInv, DesktopInv, Live
    <3> QED
      BY <2>1, <3>2, Ranges, Zenon
  <2>3. ASSUME NEW s \in Senders, at[s] = "post" PROVE rt[hold[s]].adnl
    BY <2>1, <2>2, <2>3, Zenon DEF SenderInv, RuntimeInv, RuntimeAt
  <2>4. \A h \in Runtimes : rt[h].deleted => Joined(h)
    BY <2>1, Zenon DEF RuntimeInv, RuntimeAt
  <2> QED
    BY <2>1, <2>2, <2>3, <2>4, Zenon DEF UsesLiveRuntime, SenderInv
<1> QED
  BY <1>1, Inductive, PTL

\* However often the Windows program is started and stopped, and whenever packets
\* come in, a session's receive queue holds only packets of its own runtime.
THEOREM QueueOfSession == Spec => []PacketsOfRuntime
<1>1. ASSUME IInv PROVE PacketsOfRuntime
  <2> SUFFICES ASSUME ctx # 0, NEW i \in 1..Len(queue) PROVE queue[i] = ctx
    BY Zenon DEF PacketsOfRuntime
  <2>1. \A c \in Callers : pc[c] # "publish"
    BY <1>1, Zenon DEF IInv, TypeOK, AndroidInv, CallerInv, DesktopInv
  <2>2. pc["main"] # "clearAgain"
    BY <1>1, Zenon DEF IInv, TypeOK, AndroidInv, DesktopInv
  <2> QED
    BY <1>1, <2>1, <2>2, Zenon DEF IInv, QueueInv, Owned
<1> QED
  BY <1>1, Inductive, PTL

\* Of any number of threads in initialize, the one whose configuration
\* runtimeConfig keeps is the one that made the runtime.
THEOREM TokenMatchesPeer == Spec => []TokenOfPeer
<1>1. ASSUME IInv PROVE TokenOfPeer
  <2>1. CASE host = "desktop"
    BY <1>1, <2>1, Zenon DEF IInv, DesktopInv, TokenOfPeer
  <2>2. CASE host = "android" /\ lock = None
    BY <1>1, <2>2, Zenon DEF IInv, AndroidInv, TokenOfPeer
  <2>3. CASE host = "android" /\ lock # None
    <3>1. lock \in Callers /\ pc[lock] \in Critical /\ CallerInv(lock)
      BY <1>1, <2>3, Zenon DEF IInv, TypeOK, AndroidInv
    <3> QED
      BY <3>1, Zenon DEF CallerInv, TokenOfPeer
  <2> QED
    BY <1>1, <2>1, <2>2, <2>3, Zenon DEF IInv, TypeOK
<1> QED
  BY <1>1, Inductive, PTL
=============================================================================
