------------------------- MODULE SocksClientProofs -------------------------
(***************************************************************************)
(* Theorems about SocksClient, for any number of SOCKS connections, of     *)
(* frames of a stream and of frames on their way.                          *)
(***************************************************************************)
EXTENDS SocksClient, TLAPS

\* The frames the egress sends; its DATA is numbered from 1.
DownFrames == Control \cup {DATA(i) : i \in 1..MaxSends}

Places == {"listening", "handshake", "open", "grace", "openFailed", "relay", "await", "write",
           "teardown", "joinUplink", "unregister", "done"}

ThreadInv ==
    /\ main \in {"run", "joinAccept", "joinWorkers", "stopped"}
    /\ pc \in [Workers -> Places]
    /\ uplink \in [Workers -> {"none", "loop", "recv", "send", "done"}]
    /\ client \in [Workers -> {"none", "open", "closed"}]
FlagInv ==
    /\ alive \in [Workers -> BOOLEAN] /\ remoteEnded \in [Workers -> BOOLEAN]
    /\ established \in [Workers -> BOOLEAN] /\ disturbed \in [Workers -> BOOLEAN]
    /\ lost \in [Workers -> BOOLEAN]
QueueInv ==
    /\ queues \in [Workers -> Seq(DownFrames) \cup {None}]
    /\ got \in [Workers -> Seq(1..MaxSends)]
NetInv ==
    /\ up \in [Workers -> Seq(Frames)] /\ down \in [Workers -> Seq(DownFrames)]
EgressInv ==
    /\ egress \in [Workers -> {"none", "live", "ending", "gone"}]
    /\ rx \in [Workers -> BOOLEAN]
    /\ pushed \in [Workers -> 0..MaxSends] /\ before \in [Workers -> 0..MaxSends]
    /\ \A w \in Workers : rx[w] => pushed[w] < MaxSends

TypeInv == ThreadInv /\ FlagInv /\ QueueInv /\ NetInv /\ EgressInv

-----------------------------------------------------------------------------
(* Facts about one worker and its stream *)

Relaying == {"relay", "await", "write", "teardown", "joinUplink", "unregister"}

\* The entry of streamQueues_, and what an absent one stands for.
Entry(w) == IF queues[w] = None THEN <<>> ELSE queues[w]

\* Everything the egress has sent and the worker has not taken.
Pipe(w) == Entry(w) \o down[w]

Has(s, f) == \E i \in 1..Len(s) : s[i] = f

\* Where a worker may be, by its entry and its uplink thread.
PlaceInv(w) ==
    /\ queues[w] = None => pc[w] \in {"listening", "handshake", "done"}
    /\ uplink[w] \in {"loop", "recv", "send"} => pc[w] \in Relaying \ {"unregister"}
    /\ pc[w] # "done" => (established[w] <=> pc[w] \in Relaying)

\* Before openStream nothing has been sent, in either direction.
FreshInv(w) ==
    pc[w] \in {"listening", "handshake"} =>
        /\ up[w] = <<>> /\ down[w] = <<>> /\ queues[w] = None
        /\ egress[w] = "none" /\ got[w] = <<>> /\ ~remoteEnded[w]

\* OPEN is sent once: while it is on its way, nothing else is.
OpenInv(w) ==
    Has(up[w], OPEN) =>
        /\ up[w] = <<OPEN>> /\ down[w] = <<>> /\ Entry(w) = <<>>
        /\ egress[w] = "none" /\ ~established[w] /\ ~remoteEnded[w]

\* A stream that has been refused or ended at the egress stays so.
EndedInv(w) ==
    \/ Has(Entry(w), CLOSE) \/ Has(Entry(w), ERROR) \/ Has(down[w], CLOSE) \/ Has(down[w], ERROR)
    \/ remoteEnded[w]
    => egress[w] # "live"

\* After closeStream the egress has ended the stream, or will.
ClosedInv(w) ==
    established[w] /\ pc[w] \in {"unregister", "done"} =>
        egress[w] # "live" \/ lost[w] \/ Has(up[w], CLOSE)

\* DATA g+1 to n is in p, in order, and no other DATA.
Order(p, g, n) ==
    /\ \A i, j \in 1..Len(p) : i < j /\ p[i].type = "DATA" /\ p[j].type = "DATA" => p[i].n < p[j].n
    /\ \A i \in 1..Len(p) : p[i].type = "DATA" => p[i].n \in (g + 1)..n
    /\ \A m \in (g + 1)..n : Has(p, DATA(m))

\* A CLOSE in p has DATA sent before it in front of it.
Behind(p, b) == \A i, j \in 1..Len(p) : i < j /\ p[i] = CLOSE /\ p[j].type = "DATA" => p[j].n > b

\* What the egress has counted: nothing before the stream, and nothing
\* before a CLOSE that it has not sent.
CountInv(w) ==
    /\ egress[w] = "none" => ~rx[w] /\ pushed[w] = 0
    /\ egress[w] # "gone" => before[w] = 0
    /\ before[w] <= pushed[w]

\* While the network keeps the order: openStream finds the ACK in front, and
\* the relay finds the next DATA before any other.
AckInv(w) ==
    ~disturbed[w] /\ pc[w] \in {"open", "grace"} =>
        /\ got[w] = <<>>
        /\ egress[w] = "none" => \A i \in 1..Len(Pipe(w)) : Pipe(w)[i] = ERROR
        /\ egress[w] # "none" => Pipe(w) # <<>> /\ Pipe(w)[1] = OPEN
OrderInv(w) ==
    ~disturbed[w] /\ pc[w] \in {"open", "grace", "relay", "await", "write"} =>
        /\ Len(got[w]) <= pushed[w]
        /\ Order(Pipe(w), Len(got[w]), pushed[w])
        /\ Has(Pipe(w), CLOSE) => egress[w] = "gone"
        /\ Behind(Pipe(w), before[w])
GotInv(w) == ~disturbed[w] => \A i \in 1..Len(got[w]) : got[w][i] = i

\* No CLOSE of the client is on its way while it relays.
UpInv(w) == Has(up[w], CLOSE) => pc[w] \in {"unregister", "done"}

Sane(w) ==
    /\ PlaceInv(w) /\ FreshInv(w) /\ OpenInv(w) /\ EndedInv(w) /\ ClosedInv(w) /\ UpInv(w)
    /\ CountInv(w) /\ AckInv(w) /\ OrderInv(w) /\ GotInv(w)
AllSane == \A w \in Workers : Sane(w)

-----------------------------------------------------------------------------
(* Frames and sequences *)

LEMMA FrameFacts ==
    /\ OPEN.type = "OPEN" /\ CLOSE.type = "CLOSE" /\ ERROR.type = "ERROR"
    /\ OPEN # CLOSE /\ OPEN # ERROR /\ CLOSE # ERROR
    /\ OPEN \in Control /\ CLOSE \in Control /\ ERROR \in Control
    /\ \A i : DATA(i).type = "DATA" /\ DATA(i).n = i
    /\ \A i, j : DATA(i) = DATA(j) => i = j
    /\ \A f \in Control : f.type # "DATA" /\ f \in {OPEN, CLOSE, ERROR}
BY DEF OPEN, CLOSE, ERROR, DATA, Control

LEMMA FrameTypes ==
    /\ Control \subseteq DownFrames /\ DownFrames \subseteq Frames
    /\ \A i \in 1..MaxSends : DATA(i) \in DownFrames
    /\ DATA(0) \in Frames
    /\ \A f \in Frames : f \notin Control => f.type = "DATA"
    /\ \A f \in DownFrames : f.type = "DATA" => f.n \in 1..MaxSends /\ f = DATA(f.n)
    /\ \A f \in Frames : /\ f.type = "OPEN" => f = OPEN
                         /\ f.type = "CLOSE" => f = CLOSE
                         /\ f.type = "ERROR" => f = ERROR
<1>1. \A i \in 1..MaxSends : i \in 0..MaxSends
  BY BoundsAssumption
<1>2. 0 \in 0..MaxSends
  BY BoundsAssumption
<1> QED
  BY <1>1, <1>2, FrameFacts, Zenon DEF DownFrames, Frames, Control, OPEN, CLOSE, ERROR, DATA

LEMMA SeqWider == ASSUME NEW S, NEW T, S \subseteq T PROVE Seq(S) \subseteq Seq(T)
OBVIOUS

LEMMA SameSeq ==
    ASSUME NEW S, NEW s \in Seq(S), NEW t \in Seq(S), Len(s) = Len(t), \A i \in 1..Len(s) : s[i] = t[i]
    PROVE  s = t
OBVIOUS

\* No entry is not an entry.
LEMMA NoneIsNoQueue == None \notin Seq(DownFrames)
BY SeqWider, FrameTypes, NoneAssumption, Zenon

LEMMA RemoveAtFacts ==
    ASSUME NEW S, NEW s \in Seq(S), NEW i \in 1..Len(s)
    PROVE  /\ RemoveAt(s, i) \in Seq(S) /\ Len(RemoveAt(s, i)) = Len(s) - 1
           /\ \A j \in 1..(i - 1) : RemoveAt(s, i)[j] = s[j]
           /\ \A j \in i..(Len(s) - 1) : RemoveAt(s, i)[j] = s[j + 1]
<1>1. Len(s) \in Nat /\ i - 1 \in Nat /\ i - 1 <= Len(s) /\ i + 1 \in Nat
  OBVIOUS
<1>2. SubSeq(s, 1, i - 1) \in Seq(S) /\ Len(SubSeq(s, 1, i - 1)) = i - 1
  BY <1>1
<1>3. SubSeq(s, i + 1, Len(s)) \in Seq(S) /\ Len(SubSeq(s, i + 1, Len(s))) = Len(s) - i
  BY <1>1
<1>4. \A j \in 1..(i - 1) : SubSeq(s, 1, i - 1)[j] = s[j]
  BY <1>1
<1>5. \A j \in 1..(Len(s) - i) : SubSeq(s, i + 1, Len(s))[j] = s[i + j]
  BY <1>1
<1> DEFINE a == SubSeq(s, 1, i - 1)
           b == SubSeq(s, i + 1, Len(s))
<1>6. RemoveAt(s, i) = a \o b
  BY Zenon DEF RemoveAt
<1> HIDE DEF a, b
<1>7. a \in Seq(S) /\ b \in Seq(S) /\ Len(a) = i - 1 /\ Len(b) = Len(s) - i
  BY <1>2, <1>3, Zenon DEF a, b
<1>8. a \o b \in Seq(S) /\ Len(a \o b) = Len(s) - 1
  BY <1>1, <1>7
<1>9. ASSUME NEW j \in 1..(i - 1) PROVE (a \o b)[j] = s[j]
  <2>1. j \in 1..Len(a) /\ a[j] = s[j]
    BY <1>4, <1>7, Zenon DEF a
  <2>2. j \in 1..(Len(a) + Len(b)) /\ j <= Len(a)
    BY <2>1, <1>1, <1>7
  <2>3. (a \o b)[j] = a[j]
    BY <2>2, <1>7
  <2> QED
    BY <2>1, <2>3, Zenon
<1>10. ASSUME NEW j \in i..(Len(s) - 1) PROVE (a \o b)[j] = s[j + 1]
  <2>1. j - Len(a) = j - i + 1 /\ j - i + 1 \in 1..Len(b) /\ i + (j - i + 1) = j + 1 /\ j > Len(a) /\ j <= Len(a) + Len(b) /\ j \in Nat
    BY <1>1, <1>7
  <2>2. (a \o b)[j] = b[j - i + 1]
    <3>1. j \in 1..(Len(a) + Len(b)) /\ ~(j <= Len(a))
      BY <2>1, <1>1, <1>7
    <3>2. (a \o b)[j] = b[j - Len(a)]
      BY <3>1, <1>7
    <3> QED
      BY <3>2, <2>1, Zenon
  <2>3. b[j - i + 1] = s[j + 1]
    BY <2>1, <1>5, <1>7 DEF b
  <2> QED
    BY <2>2, <2>3, Zenon
<1> QED
  BY <1>6, <1>8, <1>9, <1>10, Zenon

LEMMA RemoveAtHas ==
    ASSUME NEW S, NEW s \in Seq(S), NEW i \in 1..Len(s), NEW f, Has(RemoveAt(s, i), f)
    PROVE  Has(s, f)
<1>1. PICK j \in 1..(Len(s) - 1) : RemoveAt(s, i)[j] = f
  BY RemoveAtFacts, Zenon DEF Has
<1>2. RemoveAt(s, i)[j] = s[j] \/ RemoveAt(s, i)[j] = s[j + 1]
  BY RemoveAtFacts
<1> QED
  BY <1>1, <1>2 DEF Has

\* What is left after the i-th frame was another one.
LEMMA RemoveAtKeeps ==
    ASSUME NEW S, NEW s \in Seq(S), NEW i \in 1..Len(s), NEW f, Has(s, f), s[i] # f
    PROVE  Has(RemoveAt(s, i), f)
<1>1. PICK j \in 1..Len(s) : s[j] = f
  BY Zenon DEF Has
<1>2. CASE j < i
  <2>1. j \in 1..(i - 1) /\ j \in 1..Len(RemoveAt(s, i))
    BY <1>2, RemoveAtFacts
  <2>2. RemoveAt(s, i)[j] = s[j]
    BY <2>1, RemoveAtFacts, Zenon
  <2> QED
    BY <1>1, <2>1, <2>2, Zenon DEF Has
<1>3. CASE j > i
  <2>1. j - 1 \in i..(Len(s) - 1) /\ j - 1 \in 1..Len(RemoveAt(s, i)) /\ j - 1 + 1 = j
    BY <1>3, RemoveAtFacts
  <2>2. RemoveAt(s, i)[j - 1] = s[j]
    BY <2>1, RemoveAtFacts, Zenon
  <2> QED
    BY <1>1, <2>1, <2>2, Zenon DEF Has
<1> QED
  BY <1>1, <1>2, <1>3

LEMMA AppendHas ==
    ASSUME NEW S, NEW s \in Seq(S), NEW e \in S, NEW f
    PROVE  Has(Append(s, e), f) <=> Has(s, f) \/ e = f
BY DEF Has

LEMMA TailHas ==
    ASSUME NEW S, NEW s \in Seq(S), s # <<>>, NEW f, Has(Tail(s), f)
    PROVE  Has(s, f)
BY DEF Has

LEMMA HeadHas ==
    ASSUME NEW S, NEW s \in Seq(S), s # <<>>
    PROVE  Has(s, Head(s))
BY DEF Has

LEMMA EmptyHas == \A f : ~Has(<<>>, f)
BY DEF Has

\* The DATA of a stream: one more, one less, and frames that are not DATA.
LEMMA OrderMore ==
    ASSUME NEW S, NEW p \in Seq(S), NEW g \in Nat, NEW n \in Nat, g <= n, Order(p, g, n), DATA(n + 1) \in S
    PROVE  Order(Append(p, DATA(n + 1)), g, n + 1)
<1> DEFINE e == DATA(n + 1)
           q == Append(p, e)
<1>0. e.type = "DATA" /\ e.n = n + 1 /\ e \in S
  BY FrameFacts, Zenon
<1> HIDE DEF e
<1>1. Len(q) = Len(p) + 1 /\ q[Len(p) + 1] = e /\ Len(p) \in Nat /\ \A i \in 1..Len(p) : q[i] = p[i]
  BY <1>0
<1>2. \A m : Has(q, m) <=> Has(p, m) \/ e = m
  BY <1>0, AppendHas, Zenon
<1> HIDE DEF q
<1>3. \A i, j \in 1..Len(q) : i < j /\ q[i].type = "DATA" /\ q[j].type = "DATA" => q[i].n < q[j].n
  <2> SUFFICES ASSUME NEW i \in 1..Len(q), NEW j \in 1..Len(q), i < j, q[i].type = "DATA", q[j].type = "DATA"
               PROVE  q[i].n < q[j].n
    BY Zenon
  <2>1. i \in 1..Len(p) /\ q[i] = p[i] /\ p[i].n \in (g + 1)..n
    BY <1>1 DEF Order
  <2>2. CASE j = Len(p) + 1
    BY <2>1, <2>2, <1>0, <1>1
  <2>3. CASE j \in 1..Len(p)
    BY <2>1, <2>3, <1>1, Zenon DEF Order
  <2> QED
    BY <2>2, <2>3, <1>1
<1>4. \A i \in 1..Len(q) : q[i].type = "DATA" => q[i].n \in (g + 1)..(n + 1)
  <2> SUFFICES ASSUME NEW i \in 1..Len(q), q[i].type = "DATA" PROVE q[i].n \in (g + 1)..(n + 1)
    BY Zenon
  <2>1. CASE i = Len(p) + 1
    BY <2>1, <1>0, <1>1
  <2>2. CASE i \in 1..Len(p)
    <3>1. p[i].n \in (g + 1)..n
      BY <2>2, <1>1, Zenon DEF Order
    <3> QED
      BY <3>1, <2>2, <1>1
  <2> QED
    BY <2>1, <2>2, <1>1
<1>5. \A m \in (g + 1)..(n + 1) : Has(q, DATA(m))
  <2> SUFFICES ASSUME NEW m \in (g + 1)..(n + 1) PROVE Has(q, DATA(m))
    BY Zenon
  <2>1. CASE m = n + 1
    BY <2>1, <1>2, Zenon DEF e
  <2>2. CASE m \in (g + 1)..n
    BY <2>2, <1>2, Zenon DEF Order
  <2> QED
    BY <2>1, <2>2
<1>6. Order(q, g, n + 1)
  BY <1>3, <1>4, <1>5, Zenon DEF Order
<1> QED
  BY <1>6, Zenon DEF q, e

LEMMA OrderOther ==
    ASSUME NEW S, NEW p \in Seq(S), NEW g, NEW n, Order(p, g, n), NEW f \in S, f.type # "DATA"
    PROVE  Order(Append(p, f), g, n)
<1> DEFINE q == Append(p, f)
<1>1. Len(q) = Len(p) + 1 /\ q[Len(p) + 1] = f /\ Len(p) \in Nat /\ \A i \in 1..Len(p) : q[i] = p[i]
  OBVIOUS
<1>2. \A m : Has(p, m) => Has(q, m)
  BY AppendHas, Zenon
<1> HIDE DEF q
<1>3. \A i \in 1..Len(q) : q[i].type = "DATA" => i \in 1..Len(p) /\ q[i] = p[i]
  BY <1>1
<1>4. Order(q, g, n)
  BY <1>2, <1>3, Zenon DEF Order
<1> QED
  BY <1>4, Zenon DEF q

LEMMA OrderNext ==
    ASSUME NEW S, NEW p \in Seq(S), NEW g \in Nat, NEW n \in Nat, Order(p, g, n), p # <<>>
    PROVE  /\ p[1].type # "DATA" => Order(Tail(p), g, n)
           /\ p[1].type = "DATA" => p[1].n = g + 1 /\ g < n /\ Order(Tail(p), g + 1, n)
<1> DEFINE q == Tail(p)
<1>1. Len(p) \in Nat /\ Len(p) > 0 /\ Len(q) = Len(p) - 1 /\ \A i \in 1..Len(q) : q[i] = p[i + 1] /\ i + 1 \in 1..Len(p)
  OBVIOUS
<1> HIDE DEF q
<1>2. \A i, j \in 1..Len(q) : i < j /\ q[i].type = "DATA" /\ q[j].type = "DATA" => q[i].n < q[j].n
  <2> SUFFICES ASSUME NEW i \in 1..Len(q), NEW j \in 1..Len(q), i < j, q[i].type = "DATA", q[j].type = "DATA"
               PROVE  q[i].n < q[j].n
    BY Zenon
  <2>1. i + 1 < j + 1 /\ i + 1 \in 1..Len(p) /\ j + 1 \in 1..Len(p) /\ q[i] = p[i + 1] /\ q[j] = p[j + 1]
    BY <1>1
  <2> QED
    BY <2>1, Zenon DEF Order
<1>3. \A i \in 1..Len(q) : q[i].type = "DATA" => q[i].n \in (g + 1)..n
  BY <1>1, Zenon DEF Order
<1>4. \A m : Has(p, m) => p[1] = m \/ Has(q, m)
  <2> SUFFICES ASSUME NEW m, NEW i \in 1..Len(p), p[i] = m, p[1] # m PROVE Has(q, m)
    BY Zenon DEF Has
  <2>1. i - 1 \in 1..Len(q) /\ i - 1 + 1 = i
    BY <1>1
  <2>2. q[i - 1] = m
    BY <1>1, <2>1, Zenon
  <2> QED
    BY <2>1, <2>2, Zenon DEF Has
<1>5. ASSUME p[1].type # "DATA" PROVE Order(q, g, n)
  <2>1. \A m \in (g + 1)..n : Has(q, DATA(m))
    BY <1>4, <1>5, FrameFacts, Zenon DEF Order
  <2> QED
    BY <2>1, <1>2, <1>3, Zenon DEF Order
<1>6. ASSUME p[1].type = "DATA" PROVE p[1].n = g + 1 /\ g < n /\ Order(q, g + 1, n)
  <2>1. p[1].n \in (g + 1)..n /\ 1 \in 1..Len(p)
    BY <1>1, <1>6 DEF Order
  <2>2. g + 1 \in (g + 1)..n
    BY <2>1
  <2>3. PICK i \in 1..Len(p) : p[i] = DATA(g + 1)
    BY <2>2, Zenon DEF Order, Has
  <2>4. p[i].type = "DATA" /\ p[i].n = g + 1
    BY <2>3, FrameFacts, Zenon
  <2>5. i = 1
    <3>1. CASE i > 1
      <4>1. p[1].n < p[i].n
        BY <3>1, <2>1, <2>4, <1>6, Zenon DEF Order
      <4> QED
        BY <4>1, <2>1, <2>4
    <3> QED
      BY <3>1, <2>3
  <2>6. p[1].n = g + 1 /\ g < n
    BY <2>1, <2>4, <2>5
  <2>7. \A j \in 1..Len(q) : q[j].type = "DATA" => q[j].n \in (g + 1 + 1)..n
    <3> SUFFICES ASSUME NEW j \in 1..Len(q), q[j].type = "DATA" PROVE q[j].n \in (g + 1 + 1)..n
      BY Zenon
    <3>1. j + 1 \in 1..Len(p) /\ 1 < j + 1 /\ q[j] = p[j + 1]
      BY <1>1
    <3>2. p[1].n < p[j + 1].n /\ p[j + 1].n \in (g + 1)..n
      BY <3>1, <2>1, <1>6, Zenon DEF Order
    <3> QED
      BY <3>1, <3>2, <2>6
  <2>8. \A m \in (g + 1 + 1)..n : Has(q, DATA(m))
    <3> SUFFICES ASSUME NEW m \in (g + 1 + 1)..n PROVE Has(q, DATA(m))
      BY Zenon
    <3>1. m \in (g + 1)..n /\ m # g + 1
      OBVIOUS
    <3>2. p[1] # DATA(m)
      BY <3>1, <2>6, FrameFacts, Zenon
    <3> QED
      BY <3>1, <3>2, <1>4, Zenon DEF Order
  <2>9. Order(q, g + 1, n)
    BY <1>2, <2>7, <2>8, Zenon DEF Order
  <2> QED
    BY <2>6, <2>9, Zenon
<1> QED
  BY <1>5, <1>6, Zenon DEF q

\* The same for what is behind a CLOSE.
LEMMA BehindNext ==
    ASSUME NEW S, NEW p \in Seq(S), NEW b, Behind(p, b)
    PROVE  p # <<>> => Behind(Tail(p), b)
<1> SUFFICES ASSUME p # <<>> PROVE Behind(Tail(p), b)
  BY Zenon
<1> DEFINE q == Tail(p)
<1>1. \A i \in 1..Len(q) : q[i] = p[i + 1] /\ i + 1 \in 1..Len(p)
  OBVIOUS
<1>2. Len(q) \in Nat
  OBVIOUS
<1> HIDE DEF q
<1>3. Behind(q, b)
  BY <1>1, <1>2 DEF Behind
<1> QED
  BY <1>3, Zenon DEF q

LEMMA BehindMore ==
    ASSUME NEW S, NEW p \in Seq(S), NEW b, NEW f \in S
    PROVE  /\ Behind(p, b) /\ (f.type = "DATA" => f.n > b) => Behind(Append(p, f), b)
           /\ ~Has(p, CLOSE) => Behind(Append(p, f), b)
<1> DEFINE q == Append(p, f)
<1>1. Len(q) = Len(p) + 1 /\ q[Len(p) + 1] = f /\ Len(p) \in Nat /\ \A i \in 1..Len(p) : q[i] = p[i]
  OBVIOUS
<1> HIDE DEF q
<1>2. ASSUME NEW i \in 1..Len(q), NEW j \in 1..Len(q), i < j
      PROVE  i \in 1..Len(p) /\ q[i] = p[i] /\ ((j \in 1..Len(p) /\ q[j] = p[j]) \/ q[j] = f)
  BY <1>1, <1>2
<1>3. Behind(p, b) /\ (f.type = "DATA" => f.n > b) => Behind(q, b)
  BY <1>2, Zenon DEF Behind
<1>4. ~Has(p, CLOSE) => Behind(q, b)
  BY <1>2, Zenon DEF Behind, Has
<1> QED
  BY <1>3, <1>4, Zenon DEF q

-----------------------------------------------------------------------------
(* Types *)

LEMMA TypeInit == Init => TypeInv
<1> SUFFICES ASSUME Init PROVE TypeInv
  BY Zenon
<1>1. \A S : <<>> \in Seq(S)
  OBVIOUS
<1>2. 0 \in 0..MaxSends
  BY BoundsAssumption
<1>3. ThreadInv
  BY Zenon DEF Init, ThreadInv, Places
<1>4. FlagInv
  BY Zenon DEF Init, FlagInv
<1>5. QueueInv
  BY <1>1, Zenon DEF Init, QueueInv
<1>6. NetInv
  BY <1>1, Zenon DEF Init, NetInv
<1>7. EgressInv
  BY <1>2, Zenon DEF Init, EgressInv
<1> QED
  BY <1>3, <1>4, <1>5, <1>6, <1>7, Zenon DEF TypeInv

\* The steps, by whose they are.
OfWorker(w) ==
    \/ Accept(w) \/ HandshakeFails(w)
    \/ OpenBegin(w) \/ OpenFrame(w) \/ OpenTimeout(w) \/ OpenFailed(w)
    \/ RelayLoop(w) \/ RelayNoFrame(w) \/ RelayFrame(w) \/ RelayWrite(w)
    \/ Teardown(w) \/ JoinUplink(w) \/ Unregister(w)
OfUplink(w) == UplinkLoop(w) \/ UplinkRecv(w) \/ UplinkSend(w) \/ UplinkEnd(w)
OfNet(w) ==
    \/ \E i \in 1..Len(down[w]) : Receive(w, i) \/ LoseDown(w, i)
    \/ \E i \in 1..Len(up[w]) : EgressTakes(w, i) \/ LoseUp(w, i)
OfEgress(w) == EgressRecv(w) \/ EgressPush(w) \/ EgressEnd(w) \/ EgressNotify(w)
OfStop == StopBegin \/ StopJoinAccept \/ StopJoinWorkers

LEMMA Steps ==
    ASSUME TypeInv, Next
    PROVE  OfStop \/ \E w \in Workers : OfWorker(w) \/ OfUplink(w) \/ OfNet(w) \/ OfEgress(w)
<1>1. \A w \in Workers : DOMAIN up[w] = 1..Len(up[w]) /\ DOMAIN down[w] = 1..Len(down[w])
  BY DEF TypeInv, NetInv
<1> QED
  BY <1>1, Zenon DEF Next, Stop, Worker, Open, Relay, Uplink, Environment, OfStop, OfWorker, OfUplink, OfNet, OfEgress

LEMMA ThreadNext == ASSUME TypeInv, Next PROVE ThreadInv'
<1>0. ThreadInv
  BY Zenon DEF TypeInv
<1>1. OfStop => ThreadInv'
  BY <1>0, Zenon DEF OfStop, StopBegin, StopJoinAccept, StopJoinWorkers, ThreadInv, relay
<1>2. ASSUME NEW w \in Workers, OfWorker(w) PROVE ThreadInv'
  <2>1. ASSUME NEW l \in Places, Goto(w, l) PROVE pc' \in [Workers -> Places]
    BY <2>1, <1>0, Zenon DEF Goto, ThreadInv
  <2>2. pc[w] \in Places
    BY <1>0, Zenon DEF ThreadInv
  <2>3. pc' \in [Workers -> Places]
    BY <1>2, <2>1, <2>2, Zenon DEF OfWorker, Places, Accept, HandshakeFails, OpenBegin, OpenFrame, OpenTimeout, OpenFailed,
       RelayLoop, RelayNoFrame, RelayFrame, RelayWrite, Teardown, JoinUplink, Unregister
  <2>4. UNCHANGED main
    BY <1>2, Zenon DEF OfWorker, Accept, HandshakeFails, OpenBegin, OpenFrame, OpenTimeout, OpenFailed,
       RelayLoop, RelayNoFrame, RelayFrame, RelayWrite, Teardown, JoinUplink, Unregister
  <2>5. client' \in [Workers -> {"none", "open", "closed"}]
    BY <1>0, <1>2, Zenon DEF ThreadInv, relay, OfWorker, Accept, HandshakeFails, OpenBegin, OpenFrame, OpenTimeout, OpenFailed,
       RelayLoop, RelayNoFrame, RelayFrame, RelayWrite, Teardown, JoinUplink, Unregister
  <2>6. uplink' \in [Workers -> {"none", "loop", "recv", "send", "done"}]
    BY <1>0, <1>2, Zenon DEF ThreadInv, relay, OfWorker, Accept, HandshakeFails, OpenBegin, OpenFrame, OpenTimeout, OpenFailed,
       RelayLoop, RelayNoFrame, RelayFrame, RelayWrite, Teardown, JoinUplink, Unregister
  <2> QED
    BY <1>0, <2>3, <2>4, <2>5, <2>6, Zenon DEF ThreadInv
<1>3. ASSUME NEW w \in Workers, OfUplink(w) PROVE ThreadInv'
  BY <1>0, <1>3, Zenon DEF OfUplink, UplinkLoop, UplinkRecv, UplinkSend, UplinkEnd, ThreadInv
<1>4. ASSUME NEW w \in Workers, OfNet(w) \/ OfEgress(w) PROVE ThreadInv'
  BY <1>0, <1>4, Zenon DEF OfNet, OfEgress, Receive, LoseDown, EgressTakes, LoseUp, EgressRecv, EgressPush, EgressEnd,
     EgressNotify, relay, ThreadInv
<1> QED
  BY <1>1, <1>2, <1>3, <1>4, Steps, Zenon

LEMMA FlagNext == ASSUME TypeInv, Next PROVE FlagInv'
<1>0. FlagInv
  BY Zenon DEF TypeInv
<1>1. UNCHANGED <<alive, remoteEnded, flags>> => FlagInv'
  BY <1>0, Zenon DEF FlagInv, flags
<1>2. OfStop => FlagInv'
  BY <1>1, Zenon DEF OfStop, StopBegin, StopJoinAccept, StopJoinWorkers, relay
<1>3. ASSUME NEW w \in Workers, OfWorker(w) PROVE FlagInv'
  <2>1. CASE OpenFrame(w)
    <3>1. alive' \in [Workers -> BOOLEAN]
      BY <1>0, <2>1, Zenon DEF OpenFrame, FlagInv
    <3>2. established' \in [Workers -> BOOLEAN]
      BY <1>0, <2>1, Zenon DEF OpenFrame, FlagInv
    <3> QED
      BY <1>0, <2>1, <3>1, <3>2, Zenon DEF OpenFrame, FlagInv
  <2>2. CASE RelayFrame(w)
    <3>1. remoteEnded' \in [Workers -> BOOLEAN]
      BY <1>0, <2>2 DEF RelayFrame, FlagInv
    <3> QED
      BY <1>0, <2>2, <3>1, Zenon DEF RelayFrame, FlagInv, flags
  <2>3. CASE Teardown(w)
    <3>1. alive' \in [Workers -> BOOLEAN]
      BY <1>0, <2>3, Zenon DEF Teardown, FlagInv
    <3> QED
      BY <1>0, <2>3, <3>1, Zenon DEF Teardown, FlagInv, flags
  <2>4. CASE \/ Accept(w) \/ HandshakeFails(w) \/ OpenBegin(w) \/ OpenTimeout(w) \/ OpenFailed(w)
             \/ RelayLoop(w) \/ RelayNoFrame(w) \/ RelayWrite(w) \/ JoinUplink(w) \/ Unregister(w)
    BY <2>4, <1>1, Zenon DEF Accept, HandshakeFails, OpenBegin, OpenTimeout, OpenFailed, RelayLoop, RelayNoFrame,
       RelayWrite, JoinUplink, Unregister, relay
  <2> QED
    BY <1>3, <2>1, <2>2, <2>3, <2>4, Zenon DEF OfWorker
<1>4. ASSUME NEW w \in Workers, OfUplink(w) PROVE FlagInv'
  <2>1. alive' \in [Workers -> BOOLEAN]
    BY <1>0, <1>4, Zenon DEF OfUplink, UplinkLoop, UplinkRecv, UplinkSend, UplinkEnd, FlagInv
  <2> QED
    BY <1>0, <1>4, <2>1, Zenon DEF OfUplink, UplinkLoop, UplinkRecv, UplinkSend, UplinkEnd, FlagInv, flags
<1>5. ASSUME NEW w \in Workers, OfNet(w) PROVE FlagInv'
  <2>1. UNCHANGED <<alive, remoteEnded, established>>
    BY <1>5, Zenon DEF OfNet, Receive, LoseDown, EgressTakes, LoseUp, relay, flags
  <2>2. disturbed' \in [Workers -> BOOLEAN]
    BY <1>0, <1>5, Zenon DEF OfNet, Receive, LoseDown, EgressTakes, LoseUp, flags, FlagInv
  <2>3. lost' \in [Workers -> BOOLEAN]
    BY <1>0, <1>5, Zenon DEF OfNet, Receive, LoseDown, EgressTakes, LoseUp, flags, FlagInv
  <2> QED
    BY <1>0, <2>1, <2>2, <2>3, Zenon DEF FlagInv
<1>6. ASSUME NEW w \in Workers, OfEgress(w) PROVE FlagInv'
  BY <1>1, <1>6, Zenon DEF OfEgress, EgressRecv, EgressPush, EgressEnd, EgressNotify, relay
<1> QED
  BY <1>2, <1>3, <1>4, <1>5, <1>6, Steps, Zenon

\* A frame that a worker takes from its entry.
LEMMA HeadOfEntry ==
    ASSUME TypeInv, NEW w \in Workers, HasFrame(w)
    PROVE  /\ queues[w] \in Seq(DownFrames) /\ queues[w] # <<>> /\ Head(queues[w]) \in DownFrames
           /\ Tail(queues[w]) \in Seq(DownFrames) /\ Entry(w) = queues[w] /\ queues[w] # None
BY DEF HasFrame, TypeInv, QueueInv, Entry

LEMMA QueueNext == ASSUME TypeInv, Next PROVE QueueInv'
<1>0. QueueInv /\ NetInv
  BY Zenon DEF TypeInv
<1>1. UNCHANGED <<queues, got>> => QueueInv'
  BY <1>0, Zenon DEF QueueInv
<1>2. OfStop => QueueInv'
  BY <1>1, Zenon DEF OfStop, StopBegin, StopJoinAccept, StopJoinWorkers, relay
<1>3. ASSUME NEW w \in Workers, OfWorker(w) PROVE QueueInv'
  <2>1. HasFrame(w) /\ Pop(w) => queues' \in [Workers -> Seq(DownFrames) \cup {None}]
    BY HeadOfEntry, <1>0, Zenon DEF Pop, QueueInv
  <2>2. OpenBegin(w) => QueueInv'
    BY <1>0 DEF OpenBegin, Register, QueueInv, relay
  <2>3. OpenFrame(w) => QueueInv'
    BY <1>0, <2>1, Zenon DEF OpenFrame, QueueInv
  <2>4. OpenFailed(w) \/ Unregister(w) => QueueInv'
    BY <1>0, Zenon DEF OpenFailed, Unregister, QueueInv, relay
  <2>5. RelayFrame(w) => QueueInv'
    <3> SUFFICES ASSUME RelayFrame(w) PROVE QueueInv'
      BY Zenon
    <3>1. HasFrame(w) /\ Pop(w)
      BY Zenon DEF RelayFrame
    <3>2. Head(queues[w]).type = "DATA" => Head(queues[w]).n \in 1..MaxSends
      BY <3>1, HeadOfEntry, FrameTypes, Zenon
    <3>3. got' \in [Workers -> Seq(1..MaxSends)]
      BY <3>2, <1>0 DEF RelayFrame, QueueInv
    <3> QED
      BY <3>1, <3>3, <2>1, Zenon DEF QueueInv
  <2>6. \/ Accept(w) \/ HandshakeFails(w) \/ OpenTimeout(w)
        \/ RelayLoop(w) \/ RelayNoFrame(w) \/ RelayWrite(w) \/ Teardown(w) \/ JoinUplink(w)
        => QueueInv'
    BY <1>1, Zenon DEF Accept, HandshakeFails, OpenTimeout, RelayLoop, RelayNoFrame,
       RelayWrite, Teardown, JoinUplink, relay
  <2> QED
    BY <1>3, <2>2, <2>3, <2>4, <2>5, <2>6, Zenon DEF OfWorker
<1>4. ASSUME NEW w \in Workers, OfUplink(w) PROVE QueueInv'
  BY <1>1, <1>4, Zenon DEF OfUplink, UplinkLoop, UplinkRecv, UplinkSend, UplinkEnd
<1>5. ASSUME NEW w \in Workers, OfNet(w) PROVE QueueInv'
  <2>1. ASSUME NEW i \in 1..Len(down[w]), Receive(w, i) PROVE QueueInv'
    <3>1. down[w][i] \in DownFrames
      BY <1>0 DEF NetInv
    <3> DEFINE f == down[w][i]
    <3> HIDE DEF f
    <3>2. Enqueued(w, f) /\ UNCHANGED got /\ f \in DownFrames
      BY <2>1, <3>1, Zenon DEF Receive, relay, f
    <3>3. queues' \in [Workers -> Seq(DownFrames) \cup {None}]
      BY <3>2, <1>0 DEF Enqueued, QueueInv
    <3> QED
      BY <3>2, <3>3, <1>0, Zenon DEF QueueInv
  <2>2. ASSUME NEW i, LoseDown(w, i) \/ EgressTakes(w, i) \/ LoseUp(w, i) PROVE QueueInv'
    BY <2>2, <1>1, Zenon DEF LoseDown, EgressTakes, LoseUp, relay
  <2> QED
    BY <1>5, <2>1, <2>2, Zenon DEF OfNet
<1>6. ASSUME NEW w \in Workers, OfEgress(w) PROVE QueueInv'
  BY <1>1, <1>6, Zenon DEF OfEgress, EgressRecv, EgressPush, EgressEnd, EgressNotify, relay
<1> QED
  BY <1>2, <1>3, <1>4, <1>5, <1>6, Steps, Zenon

LEMMA NetNext == ASSUME TypeInv, Next PROVE NetInv'
<1>0. NetInv /\ EgressInv
  BY Zenon DEF TypeInv
<1>1. UNCHANGED <<up, down>> => NetInv'
  BY <1>0, Zenon DEF NetInv
<1>2. OfStop => NetInv'
  BY <1>1, Zenon DEF OfStop, StopBegin, StopJoinAccept, StopJoinWorkers, net
<1>3. ASSUME NEW w \in Workers, NEW f \in Frames, Send(w, f), UNCHANGED down PROVE NetInv'
  BY <1>0, <1>3 DEF Send, NetInv
<1>4. ASSUME NEW w \in Workers, NEW f \in DownFrames, Answer(w, f)
      PROVE  down' \in [Workers -> Seq(DownFrames)]
  BY <1>0, <1>4 DEF Answer, NetInv
<1>5. OPEN \in Frames /\ CLOSE \in Frames /\ DATA(0) \in Frames
  BY FrameFacts, FrameTypes, Zenon
<1>6. OPEN \in DownFrames /\ CLOSE \in DownFrames /\ ERROR \in DownFrames
  BY FrameFacts, FrameTypes, Zenon
<1>7. ASSUME NEW w \in Workers, OfWorker(w) PROVE NetInv'
  <2>1. OpenBegin(w) => NetInv'
    BY <1>1, <1>3, <1>5, Zenon DEF OpenBegin
  <2>2. JoinUplink(w) => NetInv'
    BY <1>1, <1>3, <1>5, Zenon DEF JoinUplink, CloseUnlessEnded
  <2>3. \/ Accept(w) \/ HandshakeFails(w) \/ OpenFrame(w) \/ OpenTimeout(w) \/ OpenFailed(w)
        \/ RelayLoop(w) \/ RelayNoFrame(w) \/ RelayFrame(w) \/ RelayWrite(w) \/ Teardown(w) \/ Unregister(w)
        => NetInv'
    BY <1>1, Zenon DEF Accept, HandshakeFails, OpenFrame, OpenTimeout, OpenFailed, RelayLoop, RelayNoFrame,
       RelayFrame, RelayWrite, Teardown, Unregister, net
  <2> QED
    BY <1>7, <2>1, <2>2, <2>3, Zenon DEF OfWorker
<1>8. ASSUME NEW w \in Workers, OfUplink(w) PROVE NetInv'
  <2>1. UplinkSend(w) => NetInv'
    BY <1>3, <1>5, Zenon DEF UplinkSend
  <2>2. UplinkLoop(w) \/ UplinkRecv(w) \/ UplinkEnd(w) => NetInv'
    BY <1>1, Zenon DEF UplinkLoop, UplinkRecv, UplinkEnd, net
  <2> QED
    BY <1>8, <2>1, <2>2, Zenon DEF OfUplink
<1>9. ASSUME NEW w \in Workers, OfNet(w) PROVE NetInv'
  <2>1. ASSUME NEW i \in 1..Len(down[w]) PROVE RemoveAt(down[w], i) \in Seq(DownFrames)
    BY <1>0, RemoveAtFacts, Zenon DEF NetInv
  <2>2. ASSUME NEW i \in 1..Len(up[w]) PROVE RemoveAt(up[w], i) \in Seq(Frames)
    BY <1>0, RemoveAtFacts, Zenon DEF NetInv
  <2>3. ASSUME NEW i \in 1..Len(down[w]), Receive(w, i) \/ LoseDown(w, i) PROVE NetInv'
    BY <2>1, <2>3, <1>0, Zenon DEF Receive, LoseDown, NetInv
  <2>4. ASSUME NEW i \in 1..Len(up[w]), LoseUp(w, i) PROVE NetInv'
    BY <2>2, <2>4, <1>0, Zenon DEF LoseUp, NetInv
  <2>5. ASSUME NEW i \in 1..Len(up[w]), EgressTakes(w, i) PROVE NetInv'
    <3>1. up' \in [Workers -> Seq(Frames)]
      BY <2>2, <2>5, <1>0, Zenon DEF EgressTakes, NetInv
    <3>2. EgressOpen(w) \/ EgressData(w) \/ EgressClose(w)
      BY <2>5, Zenon DEF EgressTakes
    <3>3. down' \in [Workers -> Seq(DownFrames)]
      BY <3>2, <1>4, <1>6, <1>0, Zenon DEF EgressOpen, EgressData, EgressClose, NetInv
    <3> QED
      BY <3>1, <3>3, Zenon DEF NetInv
  <2> QED
    BY <1>9, <2>3, <2>4, <2>5, Zenon DEF OfNet
<1>10. ASSUME NEW w \in Workers, OfEgress(w) PROVE NetInv'
  <2>1. EgressRecv(w) \/ EgressEnd(w) => NetInv'
    BY <1>1, Zenon DEF EgressRecv, EgressEnd
  <2>2. EgressNotify(w) => NetInv'
    BY <1>0, <1>4, <1>6, Zenon DEF EgressNotify, NetInv
  <2>3. EgressPush(w) => NetInv'
    <3>1. rx[w] => pushed[w] + 1 \in 1..MaxSends
      BY <1>0, BoundsAssumption DEF EgressInv
    <3>2. rx[w] => DATA(pushed[w] + 1) \in DownFrames
      BY <3>1, FrameTypes, Zenon
    <3> QED
      BY <3>2, <1>0, <1>4, Zenon DEF EgressPush, NetInv
  <2> QED
    BY <1>10, <2>1, <2>2, <2>3, Zenon DEF OfEgress
<1> QED
  BY <1>2, <1>7, <1>8, <1>9, <1>10, Steps, Zenon

LEMMA EgressNext == ASSUME TypeInv, Next PROVE EgressInv'
<1>0. EgressInv
  BY Zenon DEF TypeInv
<1>1. UNCHANGED remote => EgressInv'
  BY <1>0, Zenon DEF EgressInv, remote
<1>2. OfStop => EgressInv'
  BY <1>1, Zenon DEF OfStop, StopBegin, StopJoinAccept, StopJoinWorkers, net
<1>3. ASSUME NEW w \in Workers, OfWorker(w) PROVE EgressInv'
  BY <1>1, <1>3, Zenon DEF OfWorker, Accept, HandshakeFails, OpenBegin, OpenFrame, OpenTimeout, OpenFailed, RelayLoop,
     RelayNoFrame, RelayFrame, RelayWrite, Teardown, JoinUplink, Unregister, net
<1>4. ASSUME NEW w \in Workers, OfUplink(w) PROVE EgressInv'
  BY <1>1, <1>4, Zenon DEF OfUplink, UplinkLoop, UplinkRecv, UplinkSend, UplinkEnd, net
<1>5. ASSUME NEW w \in Workers, NEW i, EgressTakes(w, i) PROVE EgressInv'
  <2>1. UNCHANGED <<rx, pushed, before>>
    BY <1>5, Zenon DEF EgressTakes
  <2>2. EgressOpen(w) \/ EgressData(w) \/ EgressClose(w)
    BY <1>5, Zenon DEF EgressTakes
  <2>3. egress' \in [Workers -> {"none", "live", "ending", "gone"}]
    BY <2>2, <1>0, Zenon DEF EgressOpen, EgressData, EgressClose, Become, EgressInv
  <2> QED
    BY <2>1, <2>3, <1>0, Zenon DEF EgressInv
<1>6. ASSUME NEW w \in Workers, OfNet(w) PROVE EgressInv'
  <2>1. ASSUME NEW i, Receive(w, i) \/ LoseDown(w, i) \/ LoseUp(w, i) PROVE EgressInv'
    BY <2>1, <1>1, Zenon DEF Receive, LoseDown, LoseUp
  <2> QED
    BY <1>5, <1>6, <2>1, Zenon DEF OfNet
<1>7. ASSUME NEW w \in Workers, OfEgress(w) PROVE EgressInv'
  <2>1. EgressRecv(w) => EgressInv'
    BY <1>0, Zenon DEF EgressRecv, EgressInv
  <2>2. EgressPush(w) => EgressInv'
    <3> SUFFICES ASSUME EgressPush(w) PROVE EgressInv'
      BY Zenon
    <3>1. pushed[w] + 1 \in 0..MaxSends
      BY <1>0, BoundsAssumption DEF EgressPush, EgressInv
    <3>2. pushed' \in [Workers -> 0..MaxSends] /\ \A v \in Workers : v # w => pushed'[v] = pushed[v]
      BY <3>1, <1>0, Zenon DEF EgressPush, EgressInv
    <3>3. rx' \in [Workers -> BOOLEAN] /\ ~rx'[w] /\ \A v \in Workers : v # w => rx'[v] = rx[v]
      BY <1>0, Zenon DEF EgressPush, EgressInv
    <3>4. UNCHANGED <<egress, before>>
      BY Zenon DEF EgressPush
    <3>5. \A v \in Workers : rx'[v] => pushed'[v] < MaxSends
      BY <3>2, <3>3, <1>0, Zenon DEF EgressInv
    <3> QED
      BY <3>2, <3>3, <3>4, <3>5, <1>0, Zenon DEF EgressInv
  <2>3. EgressEnd(w) => EgressInv'
    BY <1>0, Zenon DEF EgressEnd, Become, EgressInv
  <2>4. EgressNotify(w) => EgressInv'
    BY <1>0, Zenon DEF EgressNotify, Become, EgressInv
  <2> QED
    BY <1>7, <2>1, <2>2, <2>3, <2>4, Zenon DEF OfEgress
<1> QED
  BY <1>2, <1>3, <1>4, <1>6, <1>7, Steps, Zenon

-----------------------------------------------------------------------------
(* One worker and its stream *)

\* Nothing that Sane(w) is about changes.
SameRelay(w) ==
    /\ got'[w] = got[w] /\ remoteEnded'[w] = remoteEnded[w] /\ established'[w] = established[w]
SameThreads(w) == pc'[w] = pc[w] /\ uplink'[w] = uplink[w]
SameEgress(w) ==
    egress'[w] = egress[w] /\ rx'[w] = rx[w] /\ pushed'[w] = pushed[w] /\ before'[w] = before[w]
SameFrames(w) == queues'[w] = queues[w] /\ up'[w] = up[w] /\ down'[w] = down[w]
SameFlags(w) == disturbed'[w] = disturbed[w] /\ lost'[w] = lost[w]
Same(w) == SameThreads(w) /\ SameRelay(w) /\ SameEgress(w) /\ SameFrames(w) /\ SameFlags(w)

LEMMA Unchanged == UNCHANGED <<pc, relay, queues, net, flags>> => \A w : Same(w)
BY Zenon DEF Same, SameThreads, SameRelay, SameEgress, SameFrames, SameFlags, relay, net, remote, flags

\* A step of one worker's threads, stream or frames leaves the others alone.
LEMMA Apart ==
    ASSUME TypeInv, NEW w \in Workers, NEW v \in Workers, v # w,
           OfWorker(w) \/ OfUplink(w) \/ OfNet(w) \/ OfEgress(w)
    PROVE  Same(v)
<1>0. /\ pc \in [Workers -> Places] /\ uplink \in [Workers -> {"none", "loop", "recv", "send", "done"}]
      /\ queues \in [Workers -> Seq(DownFrames) \cup {None}] /\ got \in [Workers -> Seq(1..MaxSends)]
      /\ up \in [Workers -> Seq(Frames)] /\ down \in [Workers -> Seq(DownFrames)]
      /\ egress \in [Workers -> {"none", "live", "ending", "gone"}]
      /\ pushed \in [Workers -> 0..MaxSends] /\ before \in [Workers -> 0..MaxSends]
  BY Zenon DEF TypeInv, ThreadInv, QueueInv, NetInv, EgressInv
<1>f. /\ remoteEnded \in [Workers -> BOOLEAN] /\ established \in [Workers -> BOOLEAN] /\ rx \in [Workers -> BOOLEAN]
      /\ disturbed \in [Workers -> BOOLEAN] /\ lost \in [Workers -> BOOLEAN]
  BY Zenon DEF TypeInv, FlagInv, EgressInv
<1>1. CASE OfWorker(w)
  <2>1. SameThreads(v)
    BY <1>0, <1>1, Zenon DEF SameThreads, OfWorker, Goto, Accept, HandshakeFails, OpenBegin, OpenFrame, OpenTimeout, OpenFailed,
       RelayLoop, RelayNoFrame, RelayFrame, RelayWrite, Teardown, JoinUplink, Unregister, relay
  <2>2. got'[v] = got[v]
    BY <1>0, <1>1, Zenon DEF OfWorker, Accept, HandshakeFails, OpenBegin, OpenFrame, OpenTimeout, OpenFailed,
       RelayLoop, RelayNoFrame, RelayFrame, RelayWrite, Teardown, JoinUplink, Unregister, relay
  <2>3. remoteEnded'[v] = remoteEnded[v] /\ established'[v] = established[v]
    BY <1>f, <1>1, Zenon DEF OfWorker, Accept, HandshakeFails, OpenBegin, OpenFrame, OpenTimeout, OpenFailed,
       RelayLoop, RelayNoFrame, RelayFrame, RelayWrite, Teardown, JoinUplink, Unregister, relay, flags
  <2>4. UNCHANGED <<remote, down, disturbed, lost>>
    BY <1>1, Zenon DEF OfWorker, Accept, HandshakeFails, OpenBegin, OpenFrame, OpenTimeout, OpenFailed,
       RelayLoop, RelayNoFrame, RelayFrame, RelayWrite, Teardown, JoinUplink, Unregister, net, flags
  <2>5. queues'[v] = queues[v]
    BY <1>0, <1>1, Zenon DEF OfWorker, Register, Pop, Accept, HandshakeFails, OpenBegin, OpenFrame, OpenTimeout, OpenFailed,
       RelayLoop, RelayNoFrame, RelayFrame, RelayWrite, Teardown, JoinUplink, Unregister
  <2>6. up'[v] = up[v]
    BY <1>0, <1>1, Zenon DEF OfWorker, Send, CloseUnlessEnded, Accept, HandshakeFails, OpenBegin, OpenFrame, OpenTimeout,
       OpenFailed, RelayLoop, RelayNoFrame, RelayFrame, RelayWrite, Teardown, JoinUplink, Unregister, net
  <2> QED
    BY <2>1, <2>2, <2>3, <2>4, <2>5, <2>6, Zenon DEF Same, SameRelay, SameEgress, SameFrames, SameFlags, remote
<1>2. CASE OfUplink(w)
  <2>1. uplink'[v] = uplink[v] /\ up'[v] = up[v]
    BY <1>0, <1>2, Zenon DEF OfUplink, Send, UplinkLoop, UplinkRecv, UplinkSend, UplinkEnd, net
  <2>2. UNCHANGED <<pc, remoteEnded, got, queues, down, remote, flags>>
    BY <1>2, Zenon DEF OfUplink, UplinkLoop, UplinkRecv, UplinkSend, UplinkEnd, net
  <2> QED
    BY <2>1, <2>2, Zenon DEF Same, SameThreads, SameRelay, SameEgress, SameFrames, SameFlags, remote, flags
<1>3. CASE OfNet(w)
  <2>1. UNCHANGED <<pc, relay, rx, pushed, before, established>>
    BY <1>3, Zenon DEF OfNet, Receive, LoseDown, EgressTakes, LoseUp, remote, flags
  <2>2. queues'[v] = queues[v]
    BY <1>0, <1>3, Zenon DEF OfNet, Receive, Enqueued, LoseDown, EgressTakes, LoseUp
  <2>3. up'[v] = up[v]
    BY <1>0, <1>3, Zenon DEF OfNet, Receive, LoseDown, EgressTakes, LoseUp
  <2>4. EgressOpen(w) \/ EgressData(w) \/ EgressClose(w) => down'[v] = down[v] /\ egress'[v] = egress[v]
    BY <1>0, Zenon DEF EgressOpen, EgressData, EgressClose, Answer, Become
  <2>5. down'[v] = down[v] /\ egress'[v] = egress[v]
    BY <1>0, <1>3, <2>4, Zenon DEF OfNet, Receive, LoseDown, EgressTakes, LoseUp, remote
  <2>6. SameFlags(v)
    BY <1>f, <1>3, Zenon DEF SameFlags, OfNet, Receive, LoseDown, EgressTakes, LoseUp, flags
  <2> QED
    BY <2>1, <2>2, <2>3, <2>5, <2>6, Zenon DEF Same, SameThreads, SameRelay, SameEgress, SameFrames, relay
<1>4. CASE OfEgress(w)
  <2>1. UNCHANGED <<pc, relay, queues, up, flags>>
    BY <1>4, Zenon DEF OfEgress, EgressRecv, EgressPush, EgressEnd, EgressNotify
  <2>2. down'[v] = down[v] /\ egress'[v] = egress[v] /\ pushed'[v] = pushed[v] /\ before'[v] = before[v]
    BY <1>0, <1>4, Zenon DEF OfEgress, Answer, Become, EgressRecv, EgressPush, EgressEnd, EgressNotify
  <2>3. rx'[v] = rx[v]
    BY <1>f, <1>4, Zenon DEF OfEgress, EgressRecv, EgressPush, EgressEnd, EgressNotify
  <2> QED
    BY <2>1, <2>2, <2>3, Zenon DEF Same, SameThreads, SameRelay, SameEgress, SameFrames, SameFlags, relay, flags
<1> QED
  BY <1>1, <1>2, <1>3, <1>4, Zenon

\* What the egress has sent: a frame is taken, moved on to the entry, or sent.
LEMMA EntryType ==
    ASSUME TypeInv, NEW w \in Workers
    PROVE  Entry(w) \in Seq(DownFrames) /\ down[w] \in Seq(DownFrames) /\ Pipe(w) \in Seq(DownFrames)
<1>1. Entry(w) \in Seq(DownFrames) /\ down[w] \in Seq(DownFrames)
  BY DEF Entry, TypeInv, QueueInv, NetInv
<1> QED
  BY <1>1 DEF Pipe

LEMMA PipeSame ==
    ASSUME NEW w, queues'[w] = queues[w], down'[w] = down[w]
    PROVE  Pipe(w)' = Pipe(w) /\ Entry(w)' = Entry(w)
BY Zenon DEF Pipe, Entry

LEMMA PipeTaken ==
    ASSUME TypeInv, NEW w \in Workers, HasFrame(w), Pop(w), down'[w] = down[w]
    PROVE  /\ Pipe(w) # <<>> /\ Pipe(w)[1] = Head(queues[w]) /\ Pipe(w)' = Tail(Pipe(w))
           /\ Entry(w)' = Tail(Entry(w)) /\ Entry(w) # <<>> /\ queues'[w] = Tail(queues[w])
<1>1. /\ queues[w] \in Seq(DownFrames) /\ queues[w] # <<>> /\ Tail(queues[w]) \in Seq(DownFrames)
      /\ Entry(w) = queues[w] /\ queues[w] # None
  BY HeadOfEntry, Zenon
<1>2. queues'[w] = Tail(queues[w])
  BY Zenon DEF Pop, TypeInv, QueueInv
<1>3. Entry(w)' = Tail(queues[w])
  BY <1>1, <1>2, NoneIsNoQueue, Zenon DEF Entry
<1>4. down[w] \in Seq(DownFrames)
  BY Zenon DEF TypeInv, NetInv
<1>5. ASSUME NEW q \in Seq(DownFrames), NEW d \in Seq(DownFrames), q # <<>>
      PROVE  q \o d # <<>> /\ (q \o d)[1] = Head(q) /\ Tail(q) \o d = Tail(q \o d)
  <2>1. Len(q) \in Nat /\ Len(d) \in Nat /\ Len(q) > 0 /\ Len(q \o d) = Len(q) + Len(d) /\ q \o d \in Seq(DownFrames)
    BY <1>5
  <2>2. q \o d # <<>> /\ (q \o d)[1] = Head(q)
    BY <2>1, <1>5
  <2>3. Tail(q \o d) \in Seq(DownFrames) /\ Len(Tail(q \o d)) = Len(q) + Len(d) - 1
    BY <2>1, <2>2
  <2>4. Tail(q) \o d \in Seq(DownFrames) /\ Len(Tail(q) \o d) = Len(q) + Len(d) - 1 /\ Len(Tail(q)) = Len(q) - 1
    BY <2>1, <1>5
  <2>5. ASSUME NEW i \in 1..(Len(q) + Len(d) - 1) PROVE (Tail(q) \o d)[i] = Tail(q \o d)[i]
    <3>1. Tail(q \o d)[i] = (q \o d)[i + 1]
      BY <2>1, <2>2
    <3>2. CASE i <= Len(q) - 1
      <4>1. (Tail(q) \o d)[i] = Tail(q)[i] /\ Tail(q)[i] = q[i + 1]
        BY <3>2, <2>1, <2>4, <1>5
      <4>2. (q \o d)[i + 1] = q[i + 1]
        BY <3>2, <2>1
      <4> QED
        BY <3>1, <4>1, <4>2, Zenon
    <3>3. CASE i > Len(q) - 1
      <4>1. (Tail(q) \o d)[i] = d[i - (Len(q) - 1)]
        BY <3>3, <2>1, <2>4, <1>5
      <4>2. (q \o d)[i + 1] = d[(i + 1) - Len(q)]
        BY <3>3, <2>1
      <4>3. i - (Len(q) - 1) = (i + 1) - Len(q)
        BY <2>1
      <4> QED
        BY <3>1, <4>1, <4>2, <4>3, Zenon
    <3> QED
      BY <3>2, <3>3, <2>1
  <2>6. Tail(q) \o d = Tail(q \o d)
    BY <2>3, <2>4, <2>5
  <2> QED
    BY <2>2, <2>6, Zenon
<1> QED
  BY <1>1, <1>2, <1>3, <1>4, <1>5, Zenon DEF Pipe

LEMMA PipeMoved ==
    ASSUME TypeInv, NEW w \in Workers, NEW i \in 1..Len(down[w]), Receive(w, i)
    PROVE  /\ i = 1 /\ queues[w] # None => Pipe(w)' = Pipe(w)
           /\ \A f : Has(Entry(w)', f) => Has(Entry(w), f) \/ Has(down[w], f)
           /\ \A f : Has(down'[w], f) => Has(down[w], f)
           /\ queues'[w] = None => queues[w] = None
<1> DEFINE d == down[w]
           q == queues[w]
           e == down[w][i]
<1>1. d \in Seq(DownFrames) /\ Len(d) \in Nat /\ i \in 1..Len(d) /\ e \in DownFrames /\ e = d[i]
  BY DEF TypeInv, NetInv
<1>2. down'[w] = RemoveAt(d, i)
  BY Zenon DEF Receive, TypeInv, NetInv
<1>3. q = None \/ q \in Seq(DownFrames)
  BY Zenon DEF TypeInv, QueueInv
<1>4. Entry(w) = IF q = None THEN <<>> ELSE q
  BY Zenon DEF Entry
<1>5. queues'[w] = IF q = None THEN (IF e \in Control THEN <<e>> ELSE q) ELSE Append(q, e)
  BY Zenon DEF Receive, Enqueued, TypeInv, QueueInv
<1> HIDE DEF d, q, e
<1>6. \A f : Has(down'[w], f) => Has(d, f)
  BY <1>1, <1>2, RemoveAtHas, Zenon
<1>7. Has(d, e)
  BY <1>1, Zenon DEF Has
<1>8. <<e>> \in Seq(DownFrames) /\ <<e>> = Append(<<>>, e) /\ <<>> \in Seq(DownFrames)
  BY <1>1
<1>9. ASSUME q = None PROVE queues'[w] \in {None, <<e>>}
  BY <1>5, <1>9, Zenon
<1>10. ASSUME q # None PROVE queues'[w] = Append(q, e) /\ Append(q, e) \in Seq(DownFrames) /\ Append(q, e) # None
  BY <1>1, <1>3, <1>5, <1>10, NoneIsNoQueue
<1>11. Entry(w)' \in {Entry(w), <<e>>, Append(Entry(w), e)} /\ (Entry(w)' = <<e>> => TRUE)
  BY <1>4, <1>9, <1>10, Zenon DEF Entry
<1>12. \A f : Has(Entry(w)', f) => Has(Entry(w), f) \/ Has(d, f)
  <2>1. Entry(w) \in Seq(DownFrames)
    BY <1>3, <1>4, <1>8, Zenon
  <2>2. \A f : Has(Append(Entry(w), e), f) => Has(Entry(w), f) \/ e = f
    BY <2>1, <1>1, AppendHas, Zenon
  <2>3. \A f : Has(<<e>>, f) => e = f
    BY DEF Has
  <2> QED
    BY <1>7, <1>11, <2>2, <2>3, Zenon
<1>13. ASSUME i = 1, q # None PROVE Pipe(w)' = Pipe(w)
  <2> DEFINE r == RemoveAt(d, i)
             a == Append(q, e)
  <2>1. q \in Seq(DownFrames) /\ Len(q) \in Nat
    BY <1>3, <1>13
  <2>2. r \in Seq(DownFrames) /\ Len(r) = Len(d) - 1 /\ \A j \in 1..(Len(d) - 1) : r[j] = d[j + 1]
    BY <1>1, <1>13, RemoveAtFacts, Zenon
  <2>3. a \in Seq(DownFrames) /\ Len(a) = Len(q) + 1 /\ a[Len(q) + 1] = e /\ \A j \in 1..Len(q) : a[j] = q[j]
    BY <1>1, <2>1
  <2>4. Pipe(w) = q \o d /\ Pipe(w)' = a \o r
    BY <1>2, <1>4, <1>10, <1>13, Zenon DEF Pipe, Entry, d, q
  <2> HIDE DEF a, r
  <2>5. q \o d \in Seq(DownFrames) /\ Len(q \o d) = Len(q) + Len(d)
    BY <1>1, <2>1
  <2>6. a \o r \in Seq(DownFrames) /\ Len(a \o r) = Len(q) + Len(d)
    <3>0. a \in Seq(DownFrames) /\ r \in Seq(DownFrames)
      BY <2>2, <2>3, Zenon
    <3>1. a \o r \in Seq(DownFrames) /\ Len(a \o r) = Len(a) + Len(r)
      BY <3>0
    <3> QED
      BY <3>1, <1>1, <2>1, <2>2, <2>3
  <2>7. ASSUME NEW j \in 1..(Len(q) + Len(d)) PROVE (a \o r)[j] = (q \o d)[j]
    <3>1. CASE j <= Len(q)
      <4>1. (a \o r)[j] = a[j] /\ a[j] = q[j]
        BY <3>1, <1>1, <2>1, <2>2, <2>3
      <4>2. (q \o d)[j] = q[j]
        BY <3>1, <1>1, <2>1
      <4> QED
        BY <4>1, <4>2, Zenon
    <3>2. CASE j = Len(q) + 1
      <4>1. (a \o r)[j] = e
        BY <3>2, <1>1, <2>1, <2>2, <2>3
      <4>2. (q \o d)[j] = d[1]
        BY <3>2, <1>1, <2>1
      <4> QED
        BY <4>1, <4>2, <1>1, <1>13, Zenon
    <3>3. CASE j > Len(q) + 1
      <4>1. (a \o r)[j] = r[j - (Len(q) + 1)]
        BY <3>3, <1>1, <2>1, <2>2, <2>3
      <4>2. j - (Len(q) + 1) \in 1..(Len(d) - 1) /\ j - (Len(q) + 1) + 1 = j - Len(q)
        BY <3>3, <1>1, <2>1
      <4>3. (q \o d)[j] = d[j - Len(q)]
        BY <3>3, <1>1, <2>1
      <4>4. r[j - (Len(q) + 1)] = d[j - Len(q)]
        BY <4>2, <2>2, Zenon
      <4> QED
        BY <4>1, <4>3, <4>4, Zenon
    <3>4. j <= Len(q) \/ j = Len(q) + 1 \/ j > Len(q) + 1
      BY <2>1, <1>1
    <3> QED
      BY <3>1, <3>2, <3>3, <3>4, Zenon
  <2>8. a \o r = q \o d
    BY <2>5, <2>6, <2>7, SameSeq, Zenon
  <2> QED
    BY <2>4, <2>8, Zenon
<1> QED
  BY <1>6, <1>9, <1>10, <1>12, <1>13, Zenon DEF d, q

LEMMA PipeSent ==
    ASSUME TypeInv, NEW w \in Workers, NEW f \in DownFrames, Answer(w, f), queues'[w] = queues[w]
    PROVE  Pipe(w)' = Append(Pipe(w), f) /\ Entry(w)' = Entry(w) /\ down'[w] = Append(down[w], f)
<1>1. Entry(w) \in Seq(DownFrames) /\ down[w] \in Seq(DownFrames)
  BY EntryType, Zenon
<1>2. down'[w] = Append(down[w], f)
  BY Zenon DEF Answer, TypeInv, NetInv
<1>3. Entry(w)' = Entry(w)
  BY Zenon DEF Entry
<1>4. ASSUME NEW q \in Seq(DownFrames), NEW d \in Seq(DownFrames)
      PROVE  q \o Append(d, f) = Append(q \o d, f)
  <2>1. q \o Append(d, f) \in Seq(DownFrames) /\ Len(q \o Append(d, f)) = Len(q) + Len(d) + 1
    BY <1>4
  <2>2. Append(q \o d, f) \in Seq(DownFrames) /\ Len(Append(q \o d, f)) = Len(q) + Len(d) + 1
    BY <1>4
  <2>3. \A i \in 1..(Len(q) + Len(d) + 1) : (q \o Append(d, f))[i] = Append(q \o d, f)[i]
    BY <1>4
  <2> QED
    BY <2>1, <2>2, <2>3
<1> QED
  BY <1>1, <1>2, <1>3, <1>4, Zenon DEF Pipe

LEMMA SameSane == ASSUME NEW w, Sane(w), Same(w) PROVE Sane(w)'
<1>1. Pipe(w)' = Pipe(w) /\ Entry(w)' = Entry(w)
  BY PipeSame, Zenon DEF Same, SameFrames
<1>2. PlaceInv(w)' /\ FreshInv(w)' /\ CountInv(w)' /\ GotInv(w)'
  BY Zenon DEF Sane, Same, SameThreads, SameRelay, SameEgress, SameFrames, SameFlags, PlaceInv, FreshInv, CountInv, GotInv
<1>3. OpenInv(w)' /\ EndedInv(w)' /\ ClosedInv(w)' /\ UpInv(w)'
  BY <1>1, Zenon DEF Sane, Same, SameThreads, SameRelay, SameEgress, SameFrames, SameFlags, OpenInv, EndedInv, ClosedInv, UpInv
<1>4. AckInv(w)' /\ OrderInv(w)'
  BY <1>1, Zenon DEF Sane, Same, SameThreads, SameRelay, SameEgress, SameFrames, SameFlags, AckInv, OrderInv
<1> QED
  BY <1>2, <1>3, <1>4, Zenon DEF Sane

\* A thread goes on, and no frame is taken or sent.
LEMMA Moves ==
    ASSUME NEW w, Sane(w), SameRelay(w), SameEgress(w), SameFrames(w), SameFlags(w),
           \/ pc'[w] = pc[w]
           \/ pc[w] = "listening" /\ pc'[w] = "handshake"
           \/ pc[w] = "handshake" /\ pc'[w] = "done"
           \/ pc[w] \in {"open", "grace"} /\ pc'[w] = "openFailed"
           \/ pc[w] \in {"relay", "await", "write"} /\ pc'[w] \in {"relay", "await", "teardown"}
           \/ pc[w] = "teardown" /\ pc'[w] = "joinUplink",
           uplink'[w] = uplink[w] \/ uplink[w] \in {"loop", "recv", "send"}
    PROVE  Sane(w)'
<1>1. Pipe(w)' = Pipe(w) /\ Entry(w)' = Entry(w)
  BY PipeSame, Zenon DEF SameFrames
<1>2. PlaceInv(w)'
  BY Zenon DEF Sane, SameRelay, SameFrames, PlaceInv, Relaying
<1>3. FreshInv(w)'
  BY Zenon DEF Sane, SameRelay, SameFrames, SameEgress, FreshInv
<1>4. OpenInv(w)' /\ EndedInv(w)'
  BY <1>1, Zenon DEF Sane, SameRelay, SameEgress, SameFrames, OpenInv, EndedInv
<1>5. ClosedInv(w)' /\ UpInv(w)'
  BY Zenon DEF Sane, SameRelay, SameEgress, SameFrames, SameFlags, ClosedInv, UpInv, PlaceInv, Relaying
<1>6. CountInv(w)' /\ GotInv(w)'
  BY Zenon DEF Sane, SameRelay, SameEgress, SameFlags, CountInv, GotInv
<1>7. AckInv(w)' /\ OrderInv(w)'
  BY <1>1, Zenon DEF Sane, SameRelay, SameEgress, SameFlags, AckInv, OrderInv
<1> QED
  BY <1>2, <1>3, <1>4, <1>5, <1>6, <1>7, Zenon DEF Sane

LEMMA SaneMoves ==
    ASSUME TypeInv, NEW w \in Workers, Sane(w),
           \/ Accept(w) \/ HandshakeFails(w) \/ OpenTimeout(w) \/ RelayLoop(w) \/ RelayNoFrame(w) \/ RelayWrite(w)
           \/ Teardown(w) \/ UplinkLoop(w) \/ UplinkRecv(w) \/ UplinkEnd(w)
    PROVE  Sane(w)'
<1>0. pc \in [Workers -> Places] /\ uplink \in [Workers -> {"none", "loop", "recv", "send", "done"}]
  BY Zenon DEF TypeInv, ThreadInv
<1>1. UNCHANGED <<got, remoteEnded, queues, net, flags>>
  BY Zenon DEF Accept, HandshakeFails, OpenTimeout, RelayLoop, RelayNoFrame, RelayWrite, Teardown, UplinkLoop, UplinkRecv,
     UplinkEnd, relay
<1>2. SameRelay(w) /\ SameEgress(w) /\ SameFrames(w) /\ SameFlags(w)
  BY <1>1, Zenon DEF SameRelay, SameEgress, SameFrames, SameFlags, net, remote, flags
<1>3. \/ pc'[w] = pc[w]
      \/ pc[w] = "listening" /\ pc'[w] = "handshake"
      \/ pc[w] = "handshake" /\ pc'[w] = "done"
      \/ pc[w] \in {"open", "grace"} /\ pc'[w] = "openFailed"
      \/ pc[w] \in {"relay", "await", "write"} /\ pc'[w] \in {"relay", "await", "teardown"}
      \/ pc[w] = "teardown" /\ pc'[w] = "joinUplink"
  BY <1>0, Zenon DEF Goto, Accept, HandshakeFails, OpenTimeout, RelayLoop, RelayNoFrame, RelayWrite, Teardown, UplinkLoop,
     UplinkRecv, UplinkEnd
<1>4. uplink'[w] = uplink[w] \/ uplink[w] \in {"loop", "recv", "send"}
  BY <1>0, Zenon DEF Accept, HandshakeFails, OpenTimeout, RelayLoop, RelayNoFrame, RelayWrite, Teardown, UplinkLoop,
     UplinkRecv, UplinkEnd, relay
<1> QED
  BY <1>2, <1>3, <1>4, Moves, Zenon

LEMMA SaneOpenBegin == ASSUME TypeInv, NEW w \in Workers, Sane(w), OpenBegin(w) PROVE Sane(w)'
<1>0. /\ pc[w] = "handshake" /\ up[w] = <<>> /\ down[w] = <<>> /\ queues[w] = None
      /\ egress[w] = "none" /\ got[w] = <<>> /\ ~remoteEnded[w]
  BY Zenon DEF OpenBegin, Sane, FreshInv
<1>1. ~established[w] /\ uplink[w] \notin {"loop", "recv", "send"}
  BY <1>0, Zenon DEF Sane, PlaceInv, Relaying
<1>2. SameRelay(w) /\ SameEgress(w) /\ SameFlags(w) /\ uplink'[w] = uplink[w] /\ down'[w] = down[w]
  BY Zenon DEF OpenBegin, SameRelay, SameEgress, SameFlags, relay, remote, flags
<1>3. queues'[w] = <<>> /\ <<>> # None
  <2>1. <<>> \in Seq(DownFrames)
    OBVIOUS
  <2> QED
    BY <1>0, <2>1, NoneIsNoQueue, Zenon DEF OpenBegin, Register, TypeInv, QueueInv
<1>4. pc'[w] \in {"open", "openFailed"} /\ (up'[w] = <<>> \/ up'[w] = Append(<<>>, OPEN))
  BY <1>0, Zenon DEF OpenBegin, Goto, Send, TypeInv, ThreadInv, NetInv
<1>5. up'[w] = <<>> \/ up'[w] = <<OPEN>>
  BY <1>4
<1>6. Entry(w)' = <<>> /\ Pipe(w)' = <<>>
  BY <1>0, <1>2, <1>3 DEF Entry, Pipe
<1>7. ~Has(<<>>, OPEN) /\ ~Has(<<>>, CLOSE) /\ ~Has(<<>>, ERROR) /\ ~Has(<<OPEN>>, CLOSE)
  BY FrameFacts DEF Has
<1>8. PlaceInv(w)' /\ FreshInv(w)'
  BY <1>1, <1>2, <1>3, <1>4, Zenon DEF PlaceInv, FreshInv, Relaying, SameRelay
<1>9. OpenInv(w)'
  BY <1>0, <1>1, <1>2, <1>5, <1>6, <1>7, Zenon DEF OpenInv, SameRelay, SameEgress
<1>10. EndedInv(w)' /\ ClosedInv(w)'
  BY <1>0, <1>1, <1>2, <1>4, <1>6, <1>7, Zenon DEF EndedInv, ClosedInv, SameRelay, SameEgress
<1>11. UpInv(w)'
  BY <1>4, <1>5, <1>7, Zenon DEF UpInv
<1>12. CountInv(w)' /\ GotInv(w)'
  BY <1>2, Zenon DEF Sane, CountInv, GotInv, SameRelay, SameEgress, SameFlags
<1>13. AckInv(w)'
  BY <1>0, <1>2, <1>6 DEF AckInv, SameRelay, SameEgress
<1>14. OrderInv(w)'
  <2>1. pushed[w] = 0 /\ Len(<<>>) = 0
    BY <1>0, Zenon DEF Sane, CountInv
  <2>2. Order(<<>>, 0, 0)
    BY DEF Order
  <2>3. Behind(<<>>, before[w])
    BY DEF Behind
  <2> QED
    BY <1>0, <1>2, <1>6, <1>7, <2>1, <2>2, <2>3 DEF OrderInv, SameRelay, SameEgress
<1> QED
  BY <1>8, <1>9, <1>10, <1>11, <1>12, <1>13, <1>14, Zenon DEF Sane

\* unregisterStream throws away what is left.
LEMMA SaneUnregister ==
    ASSUME TypeInv, NEW w \in Workers, Sane(w), OpenFailed(w) \/ Unregister(w)
    PROVE  Sane(w)'
<1>1. /\ SameRelay(w) /\ SameEgress(w) /\ SameFlags(w) /\ uplink'[w] = uplink[w]
      /\ down'[w] = down[w] /\ up'[w] = up[w]
  BY Zenon DEF OpenFailed, Unregister, SameRelay, SameEgress, SameFlags, relay, net, remote, flags
<1>2. queues'[w] = None /\ pc'[w] = "done" /\ pc[w] \in {"openFailed", "unregister"}
  BY Zenon DEF OpenFailed, Unregister, Goto, TypeInv, ThreadInv, QueueInv
<1>3. Entry(w)' = <<>>
  BY <1>2, Zenon DEF Entry
<1>4. ~Has(<<>>, CLOSE) /\ ~Has(<<>>, ERROR)
  BY EmptyHas, Zenon
<1>5. PlaceInv(w)' /\ FreshInv(w)' /\ UpInv(w)' /\ AckInv(w)' /\ OrderInv(w)'
  BY <1>1, <1>2, Zenon DEF Sane, PlaceInv, FreshInv, UpInv, AckInv, OrderInv, Relaying
<1>6. OpenInv(w)' /\ EndedInv(w)'
  BY <1>1, <1>3, <1>4, Zenon DEF Sane, OpenInv, EndedInv, SameRelay, SameEgress
<1>7. ClosedInv(w)'
  BY <1>1, <1>2, Zenon DEF Sane, ClosedInv, PlaceInv, Relaying, SameRelay, SameEgress, SameFlags
<1>8. CountInv(w)' /\ GotInv(w)'
  BY <1>1, Zenon DEF Sane, CountInv, GotInv, SameRelay, SameEgress, SameFlags
<1> QED
  BY <1>5, <1>6, <1>7, <1>8, Zenon DEF Sane

\* A frame the client sends after OPEN.
LEMMA SaneSends ==
    ASSUME TypeInv, NEW w \in Workers, Sane(w), UplinkSend(w) \/ JoinUplink(w)
    PROVE  Sane(w)'
<1>0. up[w] \in Seq(Frames) /\ DATA(0) \in Frames /\ CLOSE \in Frames /\ DATA(0) # OPEN /\ DATA(0) # CLOSE /\ CLOSE # OPEN
  BY FrameFacts, FrameTypes, Zenon DEF TypeInv, NetInv
<1>1. /\ SameRelay(w) /\ SameEgress(w) /\ SameFlags(w) /\ queues'[w] = queues[w] /\ down'[w] = down[w]
  BY Zenon DEF UplinkSend, JoinUplink, SameRelay, SameEgress, SameFlags, relay, remote, flags
<1>2. Pipe(w)' = Pipe(w) /\ Entry(w)' = Entry(w)
  BY <1>1, PipeSame, Zenon
<1>3. pc[w] \in Relaying /\ established[w] /\ ~Has(up[w], OPEN)
  <2>1. pc[w] \in Relaying
    BY Zenon DEF UplinkSend, JoinUplink, Sane, PlaceInv, Relaying
  <2> QED
    BY <2>1, Zenon DEF Sane, PlaceInv, OpenInv, Relaying
<1>4. CASE UplinkSend(w)
  <2>1. up'[w] = Append(up[w], DATA(0)) /\ pc'[w] = pc[w] /\ uplink'[w] = "loop" /\ uplink[w] = "send"
    BY <1>4, Zenon DEF UplinkSend, Send, TypeInv, NetInv, ThreadInv
  <2>2. /\ Has(up'[w], CLOSE) <=> Has(up[w], CLOSE)
        /\ ~Has(up'[w], OPEN)
    BY <1>0, <1>3, <2>1, AppendHas
  <2>3. PlaceInv(w)' /\ FreshInv(w)'
    BY <1>1, <1>3, <2>1, Zenon DEF Sane, PlaceInv, FreshInv, Relaying, SameRelay
  <2>4. OpenInv(w)' /\ EndedInv(w)'
    BY <1>1, <1>2, <2>2, Zenon DEF Sane, OpenInv, EndedInv, SameRelay, SameEgress
  <2>5. ClosedInv(w)' /\ UpInv(w)'
    BY <1>1, <2>1, <2>2, Zenon DEF Sane, ClosedInv, UpInv, SameRelay, SameEgress, SameFlags
  <2>6. CountInv(w)' /\ GotInv(w)' /\ AckInv(w)' /\ OrderInv(w)'
    BY <1>1, <1>2, <2>1, Zenon DEF Sane, CountInv, GotInv, AckInv, OrderInv, SameRelay, SameEgress, SameFlags
  <2> QED
    BY <2>3, <2>4, <2>5, <2>6, Zenon DEF Sane
<1>5. CASE JoinUplink(w)
  <2>1. /\ pc[w] = "joinUplink" /\ pc'[w] = "unregister" /\ uplink'[w] = uplink[w] /\ uplink[w] = "done"
        /\ remoteEnded[w] => up'[w] = up[w]
        /\ ~remoteEnded[w] => up'[w] = Append(up[w], CLOSE)
    BY <1>5, Zenon DEF JoinUplink, Joined, CloseUnlessEnded, Send, Goto, relay, TypeInv, NetInv, ThreadInv
  <2>2. /\ ~Has(up'[w], OPEN)
        /\ remoteEnded[w] \/ Has(up'[w], CLOSE)
    <3>1. \A f : Has(Append(up[w], CLOSE), f) <=> Has(up[w], f) \/ CLOSE = f
      BY <1>0, AppendHas, Zenon
    <3> QED
      BY <1>0, <1>3, <2>1, <3>1, Zenon
  <2>3. PlaceInv(w)' /\ FreshInv(w)' /\ UpInv(w)' /\ AckInv(w)' /\ OrderInv(w)'
    BY <1>1, <1>3, <2>1, Zenon DEF Sane, PlaceInv, FreshInv, UpInv, AckInv, OrderInv, Relaying, SameRelay
  <2>4. OpenInv(w)' /\ EndedInv(w)'
    BY <1>1, <1>2, <2>2, Zenon DEF Sane, OpenInv, EndedInv, SameRelay, SameEgress
  <2>5. ClosedInv(w)'
    BY <1>1, <2>1, <2>2, Zenon DEF Sane, ClosedInv, EndedInv, SameRelay, SameEgress, SameFlags
  <2>6. CountInv(w)' /\ GotInv(w)'
    BY <1>1, Zenon DEF Sane, CountInv, GotInv, SameRelay, SameEgress, SameFlags
  <2> QED
    BY <2>3, <2>4, <2>5, <2>6, Zenon DEF Sane
<1> QED
  BY <1>4, <1>5, Zenon

\* openStream takes a frame.
LEMMA SaneOpenFrame == ASSUME TypeInv, NEW w \in Workers, Sane(w), OpenFrame(w) PROVE Sane(w)'
<1> DEFINE f == Head(queues[w])
<1>0. HasFrame(w) /\ Pop(w) /\ pc[w] \in {"open", "grace"}
  BY Zenon DEF OpenFrame
<1>1. /\ SameEgress(w) /\ SameFlags(w) /\ down'[w] = down[w] /\ up'[w] = up[w]
      /\ got'[w] = got[w] /\ remoteEnded'[w] = remoteEnded[w]
  BY Zenon DEF OpenFrame, SameEgress, SameFlags, net, remote
<1>2. queues[w] \in Seq(DownFrames) /\ Entry(w) \in Seq(DownFrames) /\ Pipe(w) \in Seq(DownFrames)
  BY <1>0, HeadOfEntry, EntryType, Zenon
<1>3. /\ Pipe(w) # <<>> /\ Pipe(w)[1] = f /\ Pipe(w)' = Tail(Pipe(w))
      /\ Entry(w)' = Tail(Entry(w)) /\ Entry(w) # <<>> /\ queues'[w] = Tail(queues[w]) /\ Tail(queues[w]) \in Seq(DownFrames)
  BY <1>0, <1>1, PipeTaken, HeadOfEntry, Zenon
<1>4. /\ f = OPEN => pc'[w] = "relay" /\ established'[w] /\ uplink'[w] = "loop"
      /\ f # OPEN => pc'[w] \in {"open", "grace", "openFailed"} /\ established'[w] = established[w] /\ uplink'[w] = uplink[w]
      /\ f = ERROR => pc'[w] = "openFailed"
  BY <1>0, FrameFacts, Zenon DEF OpenFrame, Goto, TypeInv, ThreadInv, FlagInv
<1>5. queues'[w] # None /\ ~established[w] /\ ~Has(up[w], OPEN) /\ ~Has(up[w], CLOSE)
  BY <1>0, <1>3, NoneIsNoQueue, Zenon DEF Sane, PlaceInv, OpenInv, UpInv, Relaying
<1> HIDE DEF f
<1>6. PlaceInv(w)' /\ FreshInv(w)' /\ UpInv(w)'
  BY <1>0, <1>1, <1>4, <1>5, Zenon DEF Sane, PlaceInv, FreshInv, UpInv, Relaying
<1>7. OpenInv(w)' /\ ClosedInv(w)'
  BY <1>1, <1>4, <1>5, Zenon DEF OpenInv, ClosedInv
<1>8. EndedInv(w)'
  BY <1>1, <1>2, <1>3, TailHas, Zenon DEF Sane, EndedInv, SameEgress
<1>9. CountInv(w)' /\ GotInv(w)'
  BY <1>1, Zenon DEF Sane, CountInv, GotInv, SameEgress, SameFlags
<1>10. ASSUME ~disturbed[w] PROVE f \in {OPEN, ERROR}
  <2>1. 1 \in 1..Len(Pipe(w))
    BY <1>2, <1>3
  <2> QED
    BY <1>0, <1>3, <1>10, <2>1, Zenon DEF Sane, AckInv
<1>11. AckInv(w)'
  BY <1>1, <1>4, <1>10, Zenon DEF AckInv, SameFlags
<1>12. OrderInv(w)'
  <2> SUFFICES ASSUME ~disturbed[w], f = OPEN
               PROVE  /\ Len(got[w]) <= pushed[w]
                      /\ Order(Tail(Pipe(w)), Len(got[w]), pushed[w])
                      /\ Has(Tail(Pipe(w)), CLOSE) => egress[w] = "gone"
                      /\ Behind(Tail(Pipe(w)), before[w])
    BY <1>1, <1>3, <1>4, <1>10, Zenon DEF OrderInv, SameEgress, SameFlags
  <2>1. /\ Len(got[w]) <= pushed[w] /\ Order(Pipe(w), Len(got[w]), pushed[w])
        /\ Has(Pipe(w), CLOSE) => egress[w] = "gone"
        /\ Behind(Pipe(w), before[w])
    BY <1>0, Zenon DEF Sane, OrderInv
  <2>2. Len(got[w]) \in Nat /\ pushed[w] \in Nat
    BY DEF TypeInv, QueueInv, EgressInv
  <2>3. Order(Tail(Pipe(w)), Len(got[w]), pushed[w])
    BY <1>2, <1>3, <2>1, <2>2, OrderNext, FrameFacts, Zenon
  <2>4. Behind(Tail(Pipe(w)), before[w])
    BY <1>2, <1>3, <2>1, BehindNext, Zenon
  <2> QED
    BY <1>2, <1>3, <2>1, <2>3, <2>4, TailHas, Zenon
<1> QED
  BY <1>6, <1>7, <1>8, <1>9, <1>11, <1>12, Zenon DEF Sane

\* The relay takes a frame; the next DATA is the one that follows.
LEMMA SaneRelayFrame == ASSUME TypeInv, NEW w \in Workers, Sane(w), RelayFrame(w) PROVE Sane(w)'
<1> DEFINE f == Head(queues[w])
<1>0. HasFrame(w) /\ Pop(w) /\ pc[w] = "await"
  BY Zenon DEF RelayFrame
<1>1. /\ SameEgress(w) /\ SameFlags(w) /\ down'[w] = down[w] /\ up'[w] = up[w]
      /\ established'[w] = established[w] /\ uplink'[w] = uplink[w]
  BY Zenon DEF RelayFrame, SameEgress, SameFlags, net, remote, flags
<1>2. queues[w] \in Seq(DownFrames) /\ Entry(w) \in Seq(DownFrames) /\ Pipe(w) \in Seq(DownFrames)
  BY <1>0, HeadOfEntry, EntryType, Zenon
<1>3. /\ Pipe(w) # <<>> /\ Pipe(w)[1] = f /\ Pipe(w)' = Tail(Pipe(w)) /\ Entry(w) = queues[w]
      /\ Entry(w)' = Tail(Entry(w)) /\ Entry(w) # <<>> /\ queues'[w] = Tail(queues[w]) /\ Tail(queues[w]) \in Seq(DownFrames)
  BY <1>0, <1>1, PipeTaken, HeadOfEntry, Zenon
<1>4. /\ got'[w] = IF f.type = "DATA" THEN Append(got[w], f.n) ELSE got[w]
      /\ remoteEnded'[w] <=> f \in {CLOSE, ERROR}
      /\ pc'[w] \in {"write", "teardown", "relay"}
  BY <1>0, Zenon DEF RelayFrame, Goto, TypeInv, ThreadInv, FlagInv, QueueInv
<1>5. queues'[w] # None /\ established[w] /\ ~Has(up[w], OPEN) /\ ~Has(up[w], CLOSE)
  BY <1>0, <1>3, NoneIsNoQueue, Zenon DEF Sane, PlaceInv, OpenInv, UpInv, Relaying
<1>6. got[w] \in Seq(1..MaxSends) /\ Len(got[w]) \in Nat /\ pushed[w] \in Nat
  BY DEF TypeInv, QueueInv, EgressInv
<1>7. Has(Entry(w), f) /\ f \in DownFrames
  BY <1>0, <1>2, <1>3, HeadHas, HeadOfEntry, Zenon
<1> HIDE DEF f
<1>8. PlaceInv(w)' /\ FreshInv(w)' /\ UpInv(w)'
  BY <1>0, <1>1, <1>4, <1>5, Zenon DEF Sane, PlaceInv, FreshInv, UpInv, Relaying
<1>9. OpenInv(w)' /\ ClosedInv(w)' /\ AckInv(w)'
  BY <1>1, <1>4, <1>5, Zenon DEF OpenInv, ClosedInv, AckInv
<1>10. EndedInv(w)'
  BY <1>1, <1>2, <1>3, <1>4, <1>7, TailHas, Zenon DEF Sane, EndedInv, SameEgress
<1>11. CountInv(w)'
  BY <1>1, Zenon DEF Sane, CountInv, SameEgress
<1>12. ASSUME ~disturbed[w]
       PROVE  /\ f.type = "DATA" => f.n = Len(got[w]) + 1
              /\ Len(got'[w]) <= pushed[w]
              /\ Order(Tail(Pipe(w)), Len(got'[w]), pushed[w])
              /\ Has(Tail(Pipe(w)), CLOSE) => egress[w] = "gone"
              /\ Behind(Tail(Pipe(w)), before[w])
  <2>1. /\ Len(got[w]) <= pushed[w] /\ Order(Pipe(w), Len(got[w]), pushed[w])
        /\ Has(Pipe(w), CLOSE) => egress[w] = "gone"
        /\ Behind(Pipe(w), before[w])
    BY <1>0, <1>12, Zenon DEF Sane, OrderInv
  <2>2. /\ f.type # "DATA" => Order(Tail(Pipe(w)), Len(got[w]), pushed[w])
        /\ f.type = "DATA" => f.n = Len(got[w]) + 1 /\ Len(got[w]) < pushed[w] /\ Order(Tail(Pipe(w)), Len(got[w]) + 1, pushed[w])
    BY <1>2, <1>3, <1>6, <2>1, OrderNext, Zenon
  <2>3. f.type = "DATA" => Len(got'[w]) = Len(got[w]) + 1
    <3>1. f.type = "DATA" => f.n \in 1..MaxSends
      BY <1>7, FrameTypes, Zenon
    <3> QED
      BY <3>1, <1>4, <1>6
  <2>4. f.type # "DATA" => got'[w] = got[w]
    BY <1>4, Zenon
  <2>5. Behind(Tail(Pipe(w)), before[w])
    BY <1>2, <1>3, <2>1, BehindNext, Zenon
  <2>6. Has(Tail(Pipe(w)), CLOSE) => egress[w] = "gone"
    BY <1>2, <1>3, <2>1, TailHas, Zenon
  <2> QED
    BY <1>6, <2>1, <2>2, <2>3, <2>4, <2>5, <2>6
<1>13. OrderInv(w)'
  BY <1>1, <1>3, <1>12, Zenon DEF OrderInv, SameEgress, SameFlags
<1>14. GotInv(w)'
  <2> SUFFICES ASSUME ~disturbed[w], NEW i \in 1..Len(got'[w]) PROVE got'[w][i] = i
    BY <1>1, Zenon DEF GotInv, SameFlags
  <2>0. \A j \in 1..Len(got[w]) : got[w][j] = j
    BY Zenon DEF Sane, GotInv
  <2>1. CASE f.type # "DATA"
    BY <2>0, <2>1, <1>4, Zenon
  <2>2. CASE f.type = "DATA"
    <3>1. f.n = Len(got[w]) + 1 /\ f.n \in 1..MaxSends
      BY <2>2, <1>7, <1>12, FrameTypes, Zenon
    <3>2. got'[w] = Append(got[w], f.n)
      BY <2>2, <1>4, Zenon
    <3>3. Len(got'[w]) = Len(got[w]) + 1 /\ got'[w][Len(got[w]) + 1] = f.n /\ \A j \in 1..Len(got[w]) : got'[w][j] = got[w][j]
      BY <3>1, <3>2, <1>6
    <3> QED
      BY <2>0, <3>1, <3>3, <1>6
  <2> QED
    BY <2>1, <2>2, Zenon
<1> QED
  BY <1>8, <1>9, <1>10, <1>11, <1>13, <1>14, Zenon DEF Sane

-----------------------------------------------------------------------------
(* The network *)

LEMMA SaneReceive ==
    ASSUME TypeInv, NEW w \in Workers, Sane(w), NEW i \in 1..Len(down[w]), Receive(w, i)
    PROVE  Sane(w)'
<1>1. /\ SameThreads(w) /\ SameRelay(w) /\ SameEgress(w) /\ up'[w] = up[w] /\ lost'[w] = lost[w]
  BY Zenon DEF Receive, SameThreads, SameRelay, SameEgress, relay, remote
<1>2. ~disturbed'[w] => ~disturbed[w] /\ i = 1
  BY Zenon DEF Receive, TypeInv, FlagInv
<1>3. down[w] # <<>>
  BY DEF TypeInv, NetInv
<1>4. ~Has(up[w], OPEN) /\ pc[w] \notin {"listening", "handshake"}
  BY <1>3, Zenon DEF Sane, OpenInv, FreshInv
<1>5. /\ i = 1 /\ queues[w] # None => Pipe(w)' = Pipe(w)
      /\ \A f : Has(Entry(w)', f) => Has(Entry(w), f) \/ Has(down[w], f)
      /\ \A f : Has(down'[w], f) => Has(down[w], f)
      /\ queues'[w] = None => queues[w] = None
  BY PipeMoved, Zenon
<1>6. PlaceInv(w)'
  BY <1>1, <1>5, Zenon DEF Sane, PlaceInv, SameThreads, SameRelay
<1>7. FreshInv(w)' /\ OpenInv(w)'
  BY <1>1, <1>4, Zenon DEF FreshInv, OpenInv, SameThreads
<1>8. EndedInv(w)'
  BY <1>1, <1>5, Zenon DEF Sane, EndedInv, SameRelay, SameEgress
<1>9. ClosedInv(w)' /\ UpInv(w)' /\ CountInv(w)'
  BY <1>1, Zenon DEF Sane, ClosedInv, UpInv, CountInv, SameThreads, SameRelay, SameEgress
<1>10. GotInv(w)'
  BY <1>1, <1>2, Zenon DEF Sane, GotInv, SameRelay
<1>11. ASSUME ~disturbed'[w], pc[w] \notin {"listening", "handshake", "done"} PROVE Pipe(w)' = Pipe(w) /\ ~disturbed[w]
  BY <1>2, <1>5, <1>11, Zenon DEF Sane, PlaceInv
<1>12. AckInv(w)' /\ OrderInv(w)'
  BY <1>1, <1>11, Zenon DEF Sane, AckInv, OrderInv, SameThreads, SameRelay, SameEgress
<1> QED
  BY <1>6, <1>7, <1>8, <1>9, <1>10, <1>12, Zenon DEF Sane

LEMMA SaneLoseDown ==
    ASSUME TypeInv, NEW w \in Workers, Sane(w), NEW i \in 1..Len(down[w]), LoseDown(w, i)
    PROVE  Sane(w)'
<1>1. /\ SameThreads(w) /\ SameRelay(w) /\ SameEgress(w) /\ up'[w] = up[w] /\ queues'[w] = queues[w] /\ lost'[w] = lost[w]
  BY Zenon DEF LoseDown, SameThreads, SameRelay, SameEgress, relay, remote
<1>2. disturbed'[w]
  BY Zenon DEF LoseDown, TypeInv, FlagInv
<1>3. down[w] # <<>> /\ down[w] \in Seq(DownFrames) /\ down'[w] = RemoveAt(down[w], i)
  BY DEF LoseDown, TypeInv, NetInv
<1>4. ~Has(up[w], OPEN) /\ pc[w] \notin {"listening", "handshake"}
  BY <1>3, Zenon DEF Sane, OpenInv, FreshInv
<1>5. \A f : Has(down'[w], f) => Has(down[w], f)
  BY <1>3, RemoveAtHas, Zenon
<1>6. PlaceInv(w)' /\ FreshInv(w)' /\ OpenInv(w)'
  BY <1>1, <1>4, Zenon DEF Sane, PlaceInv, FreshInv, OpenInv, SameThreads, SameRelay
<1>7. EndedInv(w)'
  BY <1>1, <1>5, Zenon DEF Sane, EndedInv, Entry, SameRelay, SameEgress
<1>8. ClosedInv(w)' /\ UpInv(w)' /\ CountInv(w)'
  BY <1>1, Zenon DEF Sane, ClosedInv, UpInv, CountInv, SameThreads, SameRelay, SameEgress
<1>9. AckInv(w)' /\ OrderInv(w)' /\ GotInv(w)'
  BY <1>2, Zenon DEF AckInv, OrderInv, GotInv
<1> QED
  BY <1>6, <1>7, <1>8, <1>9, Zenon DEF Sane

\* A frame leaves the uplink: OPEN was the only one there.
LEMMA UpTaken ==
    ASSUME TypeInv, NEW w \in Workers, Sane(w), NEW i \in 1..Len(up[w]), up' = [up EXCEPT ![w] = RemoveAt(@, i)]
    PROVE  /\ up'[w] = RemoveAt(up[w], i) /\ up[w] \in Seq(Frames)
           /\ pc[w] \notin {"listening", "handshake"} /\ ~Has(up'[w], OPEN)
           /\ \A f : Has(up'[w], f) => Has(up[w], f)
<1>1. up'[w] = RemoveAt(up[w], i) /\ up[w] \in Seq(Frames) /\ up[w] # <<>>
  BY DEF TypeInv, NetInv
<1>2. \A f : Has(up'[w], f) => Has(up[w], f)
  BY <1>1, RemoveAtHas, Zenon
<1>3. ASSUME Has(up'[w], OPEN) PROVE FALSE
  <2>1. up[w] = <<OPEN>>
    BY <1>2, <1>3, Zenon DEF Sane, OpenInv
  <2>2. Len(up[w]) = 1
    BY <2>1
  <2>3. Len(up'[w]) = 0
    BY <2>2, <1>1, RemoveAtFacts
  <2> QED
    BY <2>3, <1>3 DEF Has
<1> QED
  BY <1>1, <1>2, <1>3, Zenon DEF Sane, FreshInv

LEMMA SaneLoseUp ==
    ASSUME TypeInv, NEW w \in Workers, Sane(w), NEW i \in 1..Len(up[w]), LoseUp(w, i)
    PROVE  Sane(w)'
<1>1. /\ SameThreads(w) /\ SameRelay(w) /\ SameEgress(w) /\ queues'[w] = queues[w] /\ down'[w] = down[w]
      /\ disturbed'[w] = disturbed[w]
  BY Zenon DEF LoseUp, SameThreads, SameRelay, SameEgress, relay, remote
<1>2. lost'[w]
  BY Zenon DEF LoseUp, TypeInv, FlagInv
<1>3. pc[w] \notin {"listening", "handshake"} /\ ~Has(up'[w], OPEN) /\ \A f : Has(up'[w], f) => Has(up[w], f)
  BY UpTaken, Zenon DEF LoseUp
<1>4. Pipe(w)' = Pipe(w) /\ Entry(w)' = Entry(w)
  BY <1>1, PipeSame, Zenon
<1>5. PlaceInv(w)' /\ FreshInv(w)' /\ OpenInv(w)' /\ UpInv(w)'
  BY <1>1, <1>3, Zenon DEF Sane, PlaceInv, FreshInv, OpenInv, UpInv, SameThreads, SameRelay
<1>6. EndedInv(w)' /\ ClosedInv(w)' /\ CountInv(w)'
  BY <1>1, <1>2, <1>4, Zenon DEF Sane, EndedInv, ClosedInv, CountInv, SameRelay, SameEgress
<1>7. AckInv(w)' /\ OrderInv(w)' /\ GotInv(w)'
  BY <1>1, <1>4, Zenon DEF Sane, AckInv, OrderInv, GotInv, SameThreads, SameRelay, SameEgress
<1> QED
  BY <1>5, <1>6, <1>7, Zenon DEF Sane

-----------------------------------------------------------------------------
(* The egress *)

\* What a step of the egress leaves alone, and may do to the uplink's frames.
Beside(w) ==
    /\ SameThreads(w) /\ SameRelay(w) /\ SameFlags(w) /\ queues'[w] = queues[w]
    /\ pc[w] \notin {"listening", "handshake"} /\ ~Has(up'[w], OPEN)
    /\ \A f : Has(up'[w], f) => Has(up[w], f)

LEMMA SaneBeside ==
    ASSUME NEW w, Sane(w), Beside(w)
    PROVE  PlaceInv(w)' /\ FreshInv(w)' /\ OpenInv(w)' /\ UpInv(w)' /\ GotInv(w)'
<1>1. PlaceInv(w)' /\ FreshInv(w)' /\ OpenInv(w)'
  BY Zenon DEF Sane, Beside, PlaceInv, FreshInv, OpenInv, SameThreads, SameRelay
<1>2. UpInv(w)' /\ GotInv(w)'
  BY Zenon DEF Sane, Beside, UpInv, GotInv, SameThreads, SameRelay, SameFlags
<1> QED
  BY <1>1, <1>2, Zenon

\* Nothing is sent, and a live stream may be ending.
LEMMA SaneQuiet ==
    ASSUME NEW w, Sane(w), Beside(w), down'[w] = down[w], pushed'[w] = pushed[w], before'[w] = before[w],
           egress'[w] = egress[w] \/ (egress[w] = "live" /\ egress'[w] = "ending"),
           egress'[w] = "none" => rx'[w] = rx[w],
           egress'[w] # "live" \/ (Has(up[w], CLOSE) => Has(up'[w], CLOSE))
    PROVE  Sane(w)'
<1>1. Pipe(w)' = Pipe(w) /\ Entry(w)' = Entry(w)
  BY PipeSame, Zenon DEF Beside
<1>2. EndedInv(w)' /\ ClosedInv(w)' /\ CountInv(w)'
  BY <1>1, Zenon DEF Sane, Beside, EndedInv, ClosedInv, CountInv, SameThreads, SameRelay, SameFlags
<1>3. AckInv(w)'
  BY <1>1, Zenon DEF Sane, Beside, AckInv, SameThreads, SameRelay, SameFlags
<1>4. OrderInv(w)'
  BY <1>1, Zenon DEF Sane, Beside, OrderInv, SameThreads, SameRelay, SameFlags
<1> QED
  BY <1>2, <1>3, <1>4, SaneBeside, Zenon DEF Sane

\* ERROR or CLOSE is sent for a stream that is not live; CLOSE by closeStream,
\* or to a client that has sent one.
LEMMA SaneSays ==
    ASSUME TypeInv, NEW w \in Workers, Sane(w), Beside(w), NEW f \in {ERROR, CLOSE}, Answer(w, f),
           rx'[w] = rx[w], pushed'[w] = pushed[w], egress[w] # "live",
           \/ /\ egress'[w] = egress[w] /\ before'[w] = before[w]
              /\ f = CLOSE => pc[w] \in {"unregister", "done"}
           \/ /\ egress[w] = "ending" /\ egress'[w] = "gone" /\ f = CLOSE
              /\ before'[w] = pushed[w]
    PROVE  Sane(w)'
<1>0. f \in DownFrames /\ f.type # "DATA" /\ pushed[w] \in Nat
  BY FrameFacts, FrameTypes DEF TypeInv, EgressInv
<1>1. Pipe(w)' = Append(Pipe(w), f) /\ Pipe(w) \in Seq(DownFrames)
  BY <1>0, PipeSent, EntryType, Zenon DEF Beside
<1>2. \A g : Has(Pipe(w)', g) <=> Has(Pipe(w), g) \/ f = g
  BY <1>0, <1>1, AppendHas
<1>3. EndedInv(w)' /\ ClosedInv(w)'
  BY Zenon DEF EndedInv, ClosedInv
<1>4. CountInv(w)'
  BY <1>0 DEF Sane, CountInv
<1>5. AckInv(w)'
  <2> SUFFICES ASSUME ~disturbed[w], pc[w] \in {"open", "grace"}
               PROVE  /\ got[w] = <<>>
                      /\ egress'[w] = "none" => \A i \in 1..Len(Append(Pipe(w), f)) : Append(Pipe(w), f)[i] = ERROR
                      /\ egress'[w] # "none" => Append(Pipe(w), f) # <<>> /\ Append(Pipe(w), f)[1] = OPEN
    BY <1>1, Zenon DEF AckInv, Beside, SameThreads, SameRelay, SameFlags
  <2>1. /\ got[w] = <<>>
        /\ egress[w] = "none" => \A i \in 1..Len(Pipe(w)) : Pipe(w)[i] = ERROR
        /\ egress[w] # "none" => Pipe(w) # <<>> /\ Pipe(w)[1] = OPEN
    BY Zenon DEF Sane, AckInv
  <2>2. egress'[w] = "none" <=> egress[w] = "none"
    BY Zenon
  <2>3. egress'[w] = "none" => f = ERROR
    BY Zenon
  <2> DEFINE p == Pipe(w)
  <2>4. p \in Seq(DownFrames)
    BY <1>1, Zenon
  <2> HIDE DEF p
  <2>5. /\ Len(Append(p, f)) = Len(p) + 1 /\ Append(p, f)[Len(p) + 1] = f /\ \A i \in 1..Len(p) : Append(p, f)[i] = p[i]
        /\ Len(p) \in Nat /\ (p # <<>> => Len(p) > 0) /\ Append(p, f) # <<>>
    BY <2>4, <1>0
  <2> QED
    BY <2>1, <2>2, <2>3, <2>5 DEF p
<1>6. OrderInv(w)'
  <2> SUFFICES ASSUME ~disturbed[w], pc[w] \in {"open", "grace", "relay", "await", "write"}
               PROVE  /\ Len(got[w]) <= pushed[w]
                      /\ Order(Append(Pipe(w), f), Len(got[w]), pushed[w])
                      /\ Has(Pipe(w)', CLOSE) => egress'[w] = "gone"
                      /\ Behind(Append(Pipe(w), f), before'[w])
    BY <1>1, Zenon DEF OrderInv, Beside, SameThreads, SameRelay, SameFlags
  <2>1. /\ Len(got[w]) <= pushed[w] /\ Order(Pipe(w), Len(got[w]), pushed[w])
        /\ Has(Pipe(w), CLOSE) => egress[w] = "gone"
        /\ Behind(Pipe(w), before[w])
    BY Zenon DEF Sane, OrderInv
  <2>2. Order(Append(Pipe(w), f), Len(got[w]), pushed[w])
    BY <1>0, <1>1, <2>1, OrderOther, Zenon
  <2>3. Has(Pipe(w)', CLOSE) => egress'[w] = "gone"
    BY <1>2, <2>1, Zenon
  <2>4. Behind(Append(Pipe(w), f), before'[w])
    BY <1>0, <1>1, <2>1, BehindMore, Zenon
  <2> QED
    BY <2>1, <2>2, <2>3, <2>4, Zenon
<1> QED
  BY <1>3, <1>4, <1>5, <1>6, SaneBeside, Zenon DEF Sane

\* The bytes rx_thread has received go out as the next DATA.
LEMMA SanePush == ASSUME TypeInv, NEW w \in Workers, Sane(w), EgressPush(w) PROVE Sane(w)'
<1> DEFINE f == DATA(pushed[w] + 1)
<1>0. /\ rx[w] /\ pushed[w] < MaxSends /\ pushed[w] \in Nat /\ before[w] \in Nat /\ before[w] <= pushed[w]
      /\ egress[w] # "none" /\ Len(got[w]) \in Nat
  BY DEF EgressPush, TypeInv, EgressInv, QueueInv, Sane, CountInv
<1>1. pushed[w] + 1 \in 1..MaxSends
  BY <1>0, BoundsAssumption
<1>2. f \in DownFrames /\ f.type = "DATA" /\ f.n = pushed[w] + 1 /\ f # CLOSE /\ f # ERROR
  BY <1>1, FrameTypes, FrameFacts, Zenon
<1>3. Beside(w) /\ egress'[w] = egress[w] /\ before'[w] = before[w] /\ queues'[w] = queues[w] /\ up'[w] = up[w]
  BY <1>0, Zenon DEF EgressPush, Beside, SameThreads, SameRelay, SameFlags, relay, flags, Sane, FreshInv, OpenInv
<1>4. pushed'[w] = pushed[w] + 1 /\ Answer(w, f)
  BY Zenon DEF EgressPush, TypeInv, EgressInv
<1>5. Pipe(w)' = Append(Pipe(w), f) /\ Entry(w)' = Entry(w) /\ down'[w] = Append(down[w], f)
  BY <1>2, <1>3, <1>4, PipeSent, Zenon
<1>6. Pipe(w) \in Seq(DownFrames) /\ down[w] \in Seq(DownFrames)
  BY EntryType, Zenon
<1> HIDE DEF f
<1>7. Has(down'[w], CLOSE) => Has(down[w], CLOSE)
  BY <1>2, <1>5, <1>6, AppendHas
<1>8. Has(down'[w], ERROR) => Has(down[w], ERROR)
  BY <1>2, <1>5, <1>6, AppendHas
<1>9. EndedInv(w)'
  BY <1>3, <1>5, <1>7, <1>8, Zenon DEF Sane, EndedInv, Beside, SameRelay
<1>10. ClosedInv(w)'
  BY <1>3, Zenon DEF Sane, ClosedInv, Beside, SameThreads, SameRelay, SameFlags
<1>11. CountInv(w)'
  BY <1>0, <1>3, <1>4 DEF Sane, CountInv
<1>12. AckInv(w)'
  <2> SUFFICES ASSUME ~disturbed[w], pc[w] \in {"open", "grace"}
               PROVE  got[w] = <<>> /\ Append(Pipe(w), f) # <<>> /\ Append(Pipe(w), f)[1] = OPEN
    BY <1>0, <1>3, <1>5, Zenon DEF AckInv, Beside, SameThreads, SameRelay, SameFlags
  <2>1. got[w] = <<>> /\ Pipe(w) # <<>> /\ Pipe(w)[1] = OPEN
    BY <1>0, Zenon DEF Sane, AckInv
  <2> QED
    BY <1>2, <1>6, <2>1
<1>13. OrderInv(w)'
  <2> SUFFICES ASSUME ~disturbed[w], pc[w] \in {"open", "grace", "relay", "await", "write"}
               PROVE  /\ Len(got[w]) <= pushed[w] + 1
                      /\ Order(Append(Pipe(w), f), Len(got[w]), pushed[w] + 1)
                      /\ Has(Append(Pipe(w), f), CLOSE) => egress[w] = "gone"
                      /\ Behind(Append(Pipe(w), f), before[w])
    BY <1>3, <1>4, <1>5, Zenon DEF OrderInv, Beside, SameThreads, SameRelay, SameFlags
  <2>1. /\ Len(got[w]) <= pushed[w] /\ Order(Pipe(w), Len(got[w]), pushed[w])
        /\ Has(Pipe(w), CLOSE) => egress[w] = "gone"
        /\ Behind(Pipe(w), before[w])
    BY Zenon DEF Sane, OrderInv
  <2>2. Order(Append(Pipe(w), f), Len(got[w]), pushed[w] + 1)
    BY <1>0, <1>2, <1>6, <2>1, OrderMore, Zenon DEF f
  <2>3. Has(Append(Pipe(w), f), CLOSE) => egress[w] = "gone"
    BY <1>2, <1>6, <2>1, AppendHas, Zenon
  <2>4. f.n > before[w]
    BY <1>0, <1>2
  <2>5. Behind(Append(Pipe(w), f), before[w])
    BY <1>2, <1>6, <2>1, <2>4, BehindMore, Zenon
  <2> QED
    BY <1>0, <2>1, <2>2, <2>3, <2>5
<1> QED
  BY <1>3, <1>9, <1>10, <1>11, <1>12, <1>13, SaneBeside, Zenon DEF Sane

\* handleOpen answers the only frame there is.
LEMMA SaneOpened ==
    ASSUME TypeInv, NEW w \in Workers, Sane(w), Beside(w), Has(up[w], OPEN), EgressOpen(w),
           rx'[w] = rx[w], pushed'[w] = pushed[w], before'[w] = before[w]
    PROVE  Sane(w)'
<1>0. /\ down[w] = <<>> /\ Entry(w) = <<>> /\ egress[w] = "none" /\ ~established[w] /\ ~remoteEnded[w]
      /\ pushed[w] = 0 /\ ~rx[w] /\ before[w] = 0
  BY Zenon DEF Sane, OpenInv, CountInv
<1>1. CASE Answer(w, ERROR) /\ UNCHANGED egress
  BY <1>0, <1>1, SaneSays, FrameFacts, Zenon
<1>2. CASE Answer(w, OPEN) /\ Become(w, "live")
  <2>1. egress'[w] = "live"
    BY <1>2, Zenon DEF Become, TypeInv, EgressInv
  <2>2. OPEN \in DownFrames /\ OPEN.type # "DATA" /\ OPEN # CLOSE /\ OPEN # ERROR
    BY FrameTypes, FrameFacts, Zenon
  <2>3. /\ Pipe(w)' = Append(Pipe(w), OPEN) /\ Entry(w)' = <<>> /\ down'[w] = Append(<<>>, OPEN)
        /\ Pipe(w) \in Seq(DownFrames)
    BY <1>0, <1>2, <2>2, PipeSent, EntryType, Zenon DEF Beside
  <2>4. Pipe(w) = <<>>
    BY <1>0 DEF Pipe
  <2>5. <<>> \in Seq(DownFrames)
    OBVIOUS
  <2>6. ~Has(down'[w], CLOSE) /\ ~Has(down'[w], ERROR)
    <3>1. \A g : Has(Append(<<>>, OPEN), g) <=> Has(<<>>, g) \/ OPEN = g
      BY <2>2, <2>5, AppendHas, Zenon
    <3> QED
      BY <2>2, <2>3, <3>1, EmptyHas, Zenon
  <2>7. EndedInv(w)'
    BY <1>0, <2>3, <2>6, EmptyHas, Zenon DEF EndedInv, Beside, SameRelay
  <2>8. ClosedInv(w)' /\ CountInv(w)'
    BY <1>0, <2>1 DEF ClosedInv, CountInv, Beside, SameRelay
  <2>9. AckInv(w)'
    <3>1. Append(<<>>, OPEN) # <<>> /\ Append(<<>>, OPEN)[1] = OPEN
      OBVIOUS
    <3> QED
      BY <2>1, <2>3, <2>4, <3>1, Zenon DEF Sane, AckInv, Beside, SameThreads, SameRelay, SameFlags
  <2>10. OrderInv(w)'
    <3> SUFFICES ASSUME ~disturbed[w], pc[w] \in {"open", "grace", "relay", "await", "write"}
                 PROVE  /\ Len(got[w]) <= pushed[w]
                        /\ Order(Append(Pipe(w), OPEN), Len(got[w]), pushed[w])
                        /\ ~Has(Append(Pipe(w), OPEN), CLOSE)
                        /\ Behind(Append(Pipe(w), OPEN), before[w])
      BY <2>3, Zenon DEF OrderInv, Beside, SameThreads, SameRelay, SameFlags
    <3>1. /\ Len(got[w]) <= pushed[w] /\ Order(Pipe(w), Len(got[w]), pushed[w])
          /\ Behind(Pipe(w), before[w])
      BY Zenon DEF Sane, OrderInv
    <3>2. Order(Append(Pipe(w), OPEN), Len(got[w]), pushed[w])
      BY <2>2, <2>3, <3>1, OrderOther, Zenon
    <3>3. ~Has(Append(Pipe(w), OPEN), CLOSE)
      BY <2>3, <2>4, <2>6, Zenon
    <3>4. Behind(Append(Pipe(w), OPEN), before[w])
      BY <2>2, <2>3, <3>1, BehindMore, Zenon
    <3> QED
      BY <3>1, <3>2, <3>3, <3>4, Zenon
  <2> QED
    BY <2>7, <2>8, <2>9, <2>10, SaneBeside, Zenon DEF Sane
<1> QED
  BY <1>1, <1>2, Zenon DEF EgressOpen

\* The egress handles a frame.
LEMMA SaneTakes ==
    ASSUME TypeInv, NEW w \in Workers, Sane(w), NEW i \in 1..Len(up[w]), EgressTakes(w, i)
    PROVE  Sane(w)'
<1> DEFINE f == up[w][i]
<1>0. /\ up'[w] = RemoveAt(up[w], i) /\ up[w] \in Seq(Frames)
      /\ pc[w] \notin {"listening", "handshake"} /\ ~Has(up'[w], OPEN)
      /\ \A g : Has(up'[w], g) => Has(up[w], g)
  BY UpTaken, Zenon DEF EgressTakes
<1>1. Beside(w) /\ rx'[w] = rx[w] /\ pushed'[w] = pushed[w] /\ before'[w] = before[w]
  BY <1>0, Zenon DEF EgressTakes, Beside, SameThreads, SameRelay, SameFlags, relay, flags
<1>2. f \in Frames /\ Has(up[w], f)
  BY <1>0 DEF Has
<1>3. \/ f.type = "OPEN" /\ EgressOpen(w)
      \/ f.type = "DATA" /\ EgressData(w)
      \/ f.type = "CLOSE" /\ EgressClose(w)
  BY Zenon DEF EgressTakes
<1>4. ASSUME egress[w] = "live", Become(w, "ending") PROVE egress'[w] = "ending"
  BY <1>4, Zenon DEF Become, TypeInv, EgressInv
<1>5. ASSUME f # CLOSE PROVE Has(up[w], CLOSE) => Has(up'[w], CLOSE)
  BY <1>0, <1>5, RemoveAtKeeps, Zenon
<1> HIDE DEF f
<1>6. CASE f.type = "OPEN" /\ EgressOpen(w)
  BY <1>1, <1>2, <1>6, SaneOpened, FrameTypes, Zenon
<1>7. CASE f.type = "DATA" /\ EgressData(w)
  <2>0. f # CLOSE
    BY <1>7, FrameFacts, Zenon
  <2>1. CASE UNCHANGED <<down, egress>>
    BY <2>0, <2>1, <1>1, <1>5, SaneQuiet, Zenon
  <2>2. CASE egress[w] = "live" /\ Become(w, "ending") /\ UNCHANGED down
    BY <2>2, <1>1, <1>4, SaneQuiet, Zenon
  <2>3. CASE egress[w] # "live" /\ Answer(w, ERROR) /\ UNCHANGED egress
    BY <2>3, <1>1, SaneSays, FrameFacts, Zenon
  <2> QED
    BY <1>7, <2>1, <2>2, <2>3, Zenon DEF EgressData
<1>8. CASE f.type = "CLOSE" /\ EgressClose(w)
  <2>0. pc[w] \in {"unregister", "done"}
    BY <1>2, <1>8, FrameTypes, Zenon DEF Sane, UpInv
  <2>1. CASE egress[w] = "live" /\ Become(w, "ending") /\ UNCHANGED down
    BY <2>1, <1>1, <1>4, SaneQuiet, Zenon
  <2>2. CASE egress[w] # "live" /\ Answer(w, CLOSE) /\ UNCHANGED egress
    BY <2>0, <2>2, <1>1, SaneSays, Zenon
  <2> QED
    BY <1>8, <2>1, <2>2, Zenon DEF EgressClose
<1> QED
  BY <1>3, <1>6, <1>7, <1>8, Zenon

LEMMA SaneEgress == ASSUME TypeInv, NEW w \in Workers, Sane(w), OfEgress(w) PROVE Sane(w)'
<1>0. egress \in [Workers -> {"none", "live", "ending", "gone"}] /\ before \in [Workers -> 0..MaxSends]
  BY Zenon DEF TypeInv, EgressInv
<1>1. ASSUME egress[w] # "none", EgressRecv(w) \/ EgressEnd(w) \/ EgressNotify(w) PROVE Beside(w)
  BY <1>1, Zenon DEF EgressRecv, EgressEnd, EgressNotify, Beside, SameThreads, SameRelay, SameFlags, relay, flags, Sane, FreshInv,
     OpenInv
<1>2. CASE EgressRecv(w)
  <2>1. egress[w] = "live" /\ UNCHANGED <<up, down, egress, pushed, before>>
    BY <1>2, Zenon DEF EgressRecv
  <2> QED
    BY <2>1, <1>1, <1>2, SaneQuiet, Zenon
<1>3. CASE EgressEnd(w)
  <2>1. egress[w] = "live" /\ egress'[w] = "ending" /\ UNCHANGED <<up, down, rx, pushed, before>>
    BY <1>0, <1>3, Zenon DEF EgressEnd, Become
  <2> QED
    BY <2>1, <1>1, <1>3, SaneQuiet, Zenon
<1>4. CASE EgressNotify(w)
  <2>1. egress[w] = "ending" /\ egress'[w] = "gone" /\ before'[w] = pushed[w] /\ Answer(w, CLOSE) /\ UNCHANGED <<rx, pushed>>
    BY <1>0, <1>4, Zenon DEF EgressNotify, Become
  <2> QED
    BY <2>1, <1>1, <1>4, SaneSays, Zenon
<1> QED
  BY <1>2, <1>3, <1>4, SanePush, Zenon DEF OfEgress

-----------------------------------------------------------------------------
(* The inductive invariant *)

IInv == TypeInv /\ AllSane

LEMMA InitInv == Init => IInv
<1> SUFFICES ASSUME Init PROVE IInv
  BY Zenon
<1>1. TypeInv
  BY TypeInit, Zenon
<1> SUFFICES ASSUME NEW w \in Workers PROVE Sane(w)
  BY <1>1, Zenon DEF IInv, AllSane
<1>2. /\ pc[w] = "listening" /\ uplink[w] = "none" /\ queues[w] = None /\ got[w] = <<>> /\ up[w] = <<>> /\ down[w] = <<>>
      /\ egress[w] = "none" /\ pushed[w] = 0 /\ before[w] = 0
  BY Zenon DEF Init
<1>3. ~remoteEnded[w] /\ ~rx[w] /\ ~established[w]
  BY Zenon DEF Init
<1>4. Entry(w) = <<>>
  BY <1>2, Zenon DEF Entry
<1>5. PlaceInv(w) /\ FreshInv(w) /\ ClosedInv(w) /\ CountInv(w)
  BY <1>2, <1>3 DEF PlaceInv, FreshInv, ClosedInv, CountInv, Relaying
<1>6. OpenInv(w) /\ EndedInv(w) /\ UpInv(w)
  BY <1>2, <1>3, <1>4, EmptyHas, Zenon DEF OpenInv, EndedInv, UpInv
<1>7. AckInv(w) /\ OrderInv(w)
  BY <1>2, Zenon DEF AckInv, OrderInv
<1>8. Len(got[w]) = 0
  BY <1>2, Zenon
<1>9. GotInv(w)
  BY <1>8 DEF GotInv
<1> QED
  BY <1>5, <1>6, <1>7, <1>9, Zenon DEF Sane

LEMMA NextInv == IInv /\ [Next]_vars => IInv'
<1> SUFFICES ASSUME IInv, [Next]_vars PROVE IInv'
  BY Zenon
<1>0. TypeInv /\ AllSane
  BY Zenon DEF IInv
<1>1. CASE UNCHANGED vars
  <2>1. UNCHANGED <<pc, relay, queues, net, flags>> /\ main' = main
    BY <1>1, Zenon DEF vars
  <2>2. ThreadInv' /\ FlagInv'
    BY <1>0, <2>1, Zenon DEF TypeInv, ThreadInv, FlagInv, relay, flags
  <2>3. QueueInv' /\ NetInv' /\ EgressInv'
    BY <1>0, <2>1, Zenon DEF TypeInv, QueueInv, NetInv, EgressInv, relay, net, remote
  <2>4. AllSane'
    BY <1>0, <2>1, Unchanged, SameSane, Zenon DEF AllSane
  <2> QED
    BY <2>2, <2>3, <2>4, Zenon DEF IInv, TypeInv
<1>2. CASE Next
  <2>1. TypeInv'
    BY <1>0, <1>2, ThreadNext, FlagNext, QueueNext, NetNext, EgressNext, Zenon DEF TypeInv
  <2>2. CASE OfStop
    <3>1. UNCHANGED <<pc, relay, queues, net, flags>>
      BY <2>2, Zenon DEF OfStop, StopBegin, StopJoinAccept, StopJoinWorkers
    <3> QED
      BY <1>0, <2>1, <3>1, Unchanged, SameSane, Zenon DEF IInv, AllSane
  <2>3. ASSUME NEW w \in Workers, OfWorker(w) \/ OfUplink(w) \/ OfNet(w) \/ OfEgress(w) PROVE AllSane'
    <3>0. Sane(w)
      BY <1>0, Zenon DEF AllSane
    <3>1. ASSUME OfWorker(w) PROVE Sane(w)'
      <4>1. \/ Accept(w) \/ HandshakeFails(w) \/ OpenTimeout(w) \/ RelayLoop(w) \/ RelayNoFrame(w) \/ RelayWrite(w)
            \/ Teardown(w)
            => Sane(w)'
        BY <1>0, <3>0, SaneMoves, Zenon
      <4>2. OpenFailed(w) \/ Unregister(w) => Sane(w)'
        BY <1>0, <3>0, SaneUnregister, Zenon
      <4>3. JoinUplink(w) => Sane(w)'
        BY <1>0, <3>0, SaneSends, Zenon
      <4> QED
        BY <1>0, <3>0, <3>1, <4>1, <4>2, <4>3, SaneOpenBegin, SaneOpenFrame, SaneRelayFrame, Zenon DEF OfWorker
    <3>2. ASSUME OfUplink(w) PROVE Sane(w)'
      <4>1. UplinkLoop(w) \/ UplinkRecv(w) \/ UplinkEnd(w) => Sane(w)'
        BY <1>0, <3>0, SaneMoves, Zenon
      <4>2. UplinkSend(w) => Sane(w)'
        BY <1>0, <3>0, SaneSends, Zenon
      <4> QED
        BY <3>2, <4>1, <4>2, Zenon DEF OfUplink
    <3>3. ASSUME OfNet(w) PROVE Sane(w)'
      BY <1>0, <3>0, <3>3, SaneReceive, SaneLoseDown, SaneTakes, SaneLoseUp, Zenon DEF OfNet
    <3>4. Sane(w)'
      BY <1>0, <2>3, <3>0, <3>1, <3>2, <3>3, SaneEgress, Zenon
    <3>5. \A v \in Workers : v # w => Sane(v)'
      BY <1>0, <2>3, Apart, SameSane, Zenon DEF AllSane
    <3> QED
      BY <3>4, <3>5, Zenon DEF AllSane
  <2> QED
    BY <1>0, <1>2, <2>1, <2>2, <2>3, Steps, Zenon DEF IInv
<1> QED
  BY <1>1, <1>2, Zenon

LEMMA Invariant == Spec => []IInv
BY InitInv, NextInv, PTL DEF Spec

-----------------------------------------------------------------------------
(* Theorems *)

\* TypeOK holds in every reachable state: the threads, flags, queues and frames
\* have the types of the code, and a worker between registerStream and
\* unregisterStream has an entry in streamQueues_.
THEOREM TypeCorrect == Spec => []TypeOK
<1>1. IInv => TypeOK
  <2> SUFFICES ASSUME IInv PROVE TypeOK
    BY Zenon
  <2>1. TypeInv /\ AllSane
    BY Zenon DEF IInv
  <2>2. \A w \in Workers : queues[w] = None => pc[w] \in {"listening", "handshake", "done"}
    BY <2>1, Zenon DEF AllSane, Sane, PlaceInv
  <2>3. Seq(DownFrames) \subseteq Seq(Frames)
    BY FrameTypes, SeqWider, Zenon
  <2>4. \A w \in Workers : queues[w] = None \/ queues[w] \in Seq(Frames)
    BY <2>1, <2>3, Zenon DEF TypeInv, QueueInv
  <2>5. down \in [Workers -> Seq(Frames)] /\ up \in [Workers -> Seq(Frames)] /\ got \in [Workers -> Seq(1..MaxSends)]
    BY <2>1, <2>3, Zenon DEF TypeInv, NetInv, QueueInv
  <2> QED
    BY <2>1, <2>2, <2>4, <2>5, Zenon DEF TypeOK, TypeInv, ThreadInv, FlagInv, EgressInv, Places
<1> QED
  BY <1>1, Invariant, PTL

\* InOrder holds in every reachable state: openStream, the entry of
\* streamQueues_ and the relay lose and swap no DATA of their own.
THEOREM BytesInOrder == Spec => []InOrder
<1>1. IInv => InOrder
  <2> SUFFICES ASSUME IInv, NEW w \in Workers, ~disturbed[w], NEW i \in DOMAIN got[w] PROVE got[w][i] = i
    BY Zenon DEF InOrder
  <2>1. DOMAIN got[w] = 1..Len(got[w])
    BY DEF IInv, TypeInv, QueueInv
  <2> QED
    BY <2>1, Zenon DEF IInv, AllSane, Sane, GotInv
<1> QED
  BY <1>1, Invariant, PTL

\* NoStreamLeftBehind holds in every reachable state: a worker that is through
\* with an established stream has ended it at the egress, or its CLOSE is on its
\* way or lost.
THEOREM StreamEnds == Spec => []NoStreamLeftBehind
<1>1. IInv => NoStreamLeftBehind
  <2> SUFFICES ASSUME IInv, NEW w \in Workers, established[w], pc[w] = "done", egress[w] = "live"
               PROVE  lost[w] \/ \E i \in 1..Len(up[w]) : up[w][i] = CLOSE
    BY Zenon DEF NoStreamLeftBehind
  <2>1. lost[w] \/ Has(up[w], CLOSE)
    BY Zenon DEF IInv, AllSane, Sane, ClosedInv
  <2> QED
    BY <2>1, Zenon DEF Has
<1> QED
  BY <1>1, Invariant, PTL

\* CompleteBeforeClose holds of every step: the DATA that the egress sent before
\* its CLOSE is in front of it in the entry, and the relay has taken it.
THEOREM ClosesComplete == Spec => CompleteBeforeClose
<1>1. IInv /\ [Next]_vars =>
        [\A w \in Workers : (pc[w] = "await" /\ pc'[w] = "teardown" /\ Head(queues[w]) = CLOSE /\ ~disturbed[w])
            => Len(got[w]) >= before[w]]_vars
  <2> SUFFICES ASSUME IInv, Next, NEW w \in Workers,
                      pc[w] = "await", pc'[w] = "teardown", Head(queues[w]) = CLOSE, ~disturbed[w]
               PROVE  Len(got[w]) >= before[w]
    BY Zenon
  <2>0. TypeInv /\ Sane(w) /\ pc \in [Workers -> Places]
    BY Zenon DEF IInv, AllSane, TypeInv, ThreadInv
  <2>1. RelayFrame(w)
    <3>1. ~OfStop
      BY Zenon DEF OfStop, StopBegin, StopJoinAccept, StopJoinWorkers
    <3>2. PICK v \in Workers : OfWorker(v) \/ OfUplink(v) \/ OfNet(v) \/ OfEgress(v)
      BY <2>0, <3>1, Steps, Zenon
    <3>3. v = w
      BY <2>0, <3>2, Apart, Zenon DEF Same, SameThreads
    <3>4. ~OfUplink(w) /\ ~OfNet(w) /\ ~OfEgress(w)
      BY Zenon DEF OfUplink, OfNet, OfEgress, UplinkLoop, UplinkRecv, UplinkSend, UplinkEnd, Receive, LoseDown, EgressTakes, LoseUp,
         EgressRecv, EgressPush, EgressEnd, EgressNotify
    <3>5. OfWorker(w)
      BY <3>2, <3>3, <3>4, Zenon
    <3> QED
      BY <2>0, <3>5, Zenon DEF OfWorker, Goto, Accept, HandshakeFails, OpenBegin, OpenFrame, OpenTimeout, OpenFailed,
         RelayLoop, RelayNoFrame, RelayFrame, RelayWrite, Teardown, JoinUplink, Unregister
  <2>2. HasFrame(w) /\ Pop(w) /\ down'[w] = down[w]
    BY <2>1, Zenon DEF RelayFrame, net
  <2>3. Pipe(w) \in Seq(DownFrames) /\ Pipe(w) # <<>> /\ Pipe(w)[1] = CLOSE
    BY <2>0, <2>2, PipeTaken, EntryType, Zenon
  <2>4. Order(Pipe(w), Len(got[w]), pushed[w]) /\ Behind(Pipe(w), before[w])
    BY <2>0, Zenon DEF Sane, OrderInv
  <2>5. Len(got[w]) \in Nat /\ before[w] \in Nat /\ pushed[w] \in Nat /\ before[w] <= pushed[w]
    BY <2>0 DEF TypeInv, QueueInv, EgressInv, Sane, CountInv
  <2>6. ASSUME Len(got[w]) < before[w] PROVE FALSE
    <3>1. before[w] \in (Len(got[w]) + 1)..pushed[w]
      BY <2>5, <2>6
    <3>2. PICK j \in 1..Len(Pipe(w)) : Pipe(w)[j] = DATA(before[w])
      BY <2>4, <3>1, Zenon DEF Order, Has
    <3>3. Pipe(w)[j].type = "DATA" /\ Pipe(w)[j].n = before[w] /\ j # 1
      BY <2>3, <3>2, FrameFacts
    <3>4. 1 \in 1..Len(Pipe(w)) /\ 1 < j
      BY <2>3, <3>2, <3>3
    <3>5. Pipe(w)[j].n > before[w]
      BY <2>3, <2>4, <3>3, <3>4, Zenon DEF Behind
    <3> QED
      BY <2>5, <3>3, <3>5
  <2> QED
    BY <2>5, <2>6
<1> QED
  BY <1>1, Invariant, PTL DEF Spec, CompleteBeforeClose

\* CloseIsLast holds of every step: closeStream comes after uplink.join(), so a
\* worker that has sent its CLOSE sends nothing more.
THEOREM NothingAfterClose == Spec => CloseIsLast
<1>1. IInv /\ [Next]_vars =>
        [\A w \in Workers : pc[w] \in {"unregister", "done"} => Len(up'[w]) <= Len(up[w])]_vars
  <2> SUFFICES ASSUME IInv, Next, NEW w \in Workers, pc[w] \in {"unregister", "done"}
               PROVE  Len(up'[w]) <= Len(up[w])
    BY Zenon
  <2>0. TypeInv /\ Sane(w) /\ up[w] \in Seq(Frames) /\ Len(up[w]) \in Nat /\ uplink[w] # "send"
    BY DEF IInv, AllSane, TypeInv, NetInv, Sane, PlaceInv, Relaying
  <2>1. up'[w] = up[w] => Len(up'[w]) <= Len(up[w])
    BY <2>0
  <2>2. CASE OfStop
    BY <2>1, <2>2, Zenon DEF OfStop, StopBegin, StopJoinAccept, StopJoinWorkers, net
  <2>3. ASSUME NEW v \in Workers, v # w, OfWorker(v) \/ OfUplink(v) \/ OfNet(v) \/ OfEgress(v) PROVE up'[w] = up[w]
    BY <2>0, <2>3, Apart, Zenon DEF Same, SameFrames
  <2>4. ASSUME OfWorker(w) \/ OfUplink(w) \/ OfEgress(w) PROVE up' = up
    BY <2>0, <2>4, Zenon DEF OfWorker, OfUplink, OfEgress, Accept, HandshakeFails, OpenBegin, OpenFrame, OpenTimeout,
       OpenFailed, RelayLoop, RelayNoFrame, RelayFrame, RelayWrite, Teardown, JoinUplink, Unregister, UplinkLoop, UplinkRecv,
       UplinkSend, UplinkEnd, EgressRecv, EgressPush, EgressEnd, EgressNotify, net
  <2>5. ASSUME OfNet(w) PROVE up' = up \/ \E i \in 1..Len(up[w]) : up'[w] = RemoveAt(up[w], i)
    BY <2>5, Zenon DEF OfNet, Receive, LoseDown, EgressTakes, LoseUp, TypeInv, NetInv, IInv
  <2>6. \A i \in 1..Len(up[w]) : Len(RemoveAt(up[w], i)) = Len(up[w]) - 1
    BY <2>0, RemoveAtFacts, Zenon
  <2>7. OfNet(w) => Len(up'[w]) <= Len(up[w])
    BY <2>0, <2>1, <2>5, <2>6
  <2> QED
    BY <2>0, <2>1, <2>2, <2>3, <2>4, <2>7, Steps, Zenon
<1> QED
  BY <1>1, Invariant, PTL DEF Spec, CloseIsLast
=============================================================================
