------------------------------ MODULE MCWire ------------------------------
(***************************************************************************)
(* AdnlBackend on a small instance, and the codecs of Frames on every      *)
(* short datagram.  A sample is one datagram to decode; the states that    *)
(* have one are initial states of their own, in which the backend rests.   *)
(***************************************************************************)
EXTENDS AdnlBackend, Frames

VARIABLE sample

Id(n) == U32(n)

\* An OPEN, a CLOSE of the same stream, OPEN and DATA in one datagram, a DATA
\* of another stream, an OPEN cut short, and too few bytes for a stream id.
MCDatagrams ==
    { EncodeOpen(Id(1), <<104>>, 443, <<>>),
      EncodeClose(Id(1)),
      EncodeOpen(Id(1), <<104>>, 443, <<7>>) \o EncodeData(Id(1), <<9>>),
      EncodeData(Id(2), <<9>>),
      EncodeOpenAck(Id(1)),
      <<Open, 0, 0>> }

MCIds == {Id(1), Id(2)}

MCFramesOf(d) ==
    LET fs == EgressFrames(d, 1) IN [i \in DOMAIN fs |-> <<fs[i][1], fs[i][2]>>]

Ids2   == {Id(1), <<255, 0, 1, 2>>}
Bodies == {<<>>, <<3>>, <<2, 0>>}

\* Frames with what each receiver should make of them.
ToEgress ==
    {[bytes |-> EncodeOpen(i, h, p, t), frame |-> <<Open, i, <<h, p, t>> >>] :
        i \in Ids2, h \in Bodies, p \in {80, 65535}, t \in Bodies}
    \cup {[bytes |-> EncodeData(i, b), frame |-> <<Data, i, b>>] : i \in Ids2, b \in Bodies}
    \cup {[bytes |-> EncodeClose(i), frame |-> <<Close, i, <<>> >>] : i \in Ids2}

ToClient ==
    {[bytes |-> EncodeOpenAck(i), frame |-> <<Open, i, <<>> >>] : i \in Ids2}
    \cup {[bytes |-> EncodeData(i, b), frame |-> <<Data, i, b>>] : i \in Ids2, b \in Bodies}
    \cup {[bytes |-> EncodeClose(i), frame |-> <<Close, i, <<>> >>] : i \in Ids2}
    \cup {[bytes |-> EncodeError(i, b), frame |-> <<Error, i, b>>] : i \in Ids2, b \in Bodies}

\* An acknowledgement and long DATA: the header of a DATA frame, read as the
\* length of a host, is 512 bytes or more.
ZeroBytes(n) == [i \in 1..n |-> 0]
LongToClient ==
    {[bytes |-> EncodeOpenAck(i), frame |-> <<Open, i, <<>> >>] : i \in Ids2}
    \cup {[bytes |-> EncodeData(i, b), frame |-> <<Data, i, b>>] :
            i \in Ids2, b \in {ZeroBytes(508), ZeroBytes(509), ZeroBytes(764), [ZeroBytes(509) EXCEPT ![509] = 1]}}

\* Two frames in one datagram, of which cut bytes at the end are missing.
Cuts == 0..12
Pairs(S) == {<<x, y>> : x \in S, y \in S}

Samples ==
    [to : {"egress"}, parts : Pairs(ToEgress), cut : Cuts]
    \cup [to : {"client"}, parts : Pairs(ToClient), cut : Cuts]
    \cup [to : {"client"}, parts : Pairs(LongToClient), cut : {0, 1}]
    \cup [to : {"segments"}, payload : UNION {[1..n -> {1, 2}] : n \in 1..5}, size : 1..3]

Whole(s)    == s.parts[1].bytes \o s.parts[2].bytes
Datagram(s) == SubSeq(Whole(s), 1, Len(Whole(s)) - s.cut)
Sent(s)     == <<s.parts[1].frame, s.parts[2].frame>>

\* The frames of a sample that the cut has left complete.
Complete(s) ==
    IF s.cut = 0 THEN Sent(s)
    ELSE IF s.cut <= Len(s.parts[2].bytes) THEN <<s.parts[1].frame>> ELSE <<>>

\* Behind an acknowledgement there are enough bytes to be the host, the port
\* and the token of a request.
Ambiguous(s) ==
    LET rest == s.parts[2].bytes IN
    /\ s.parts[1].frame[1] = Open
    /\ \E host \in 0..Len(rest), token \in 0..Len(rest) :
        /\ Len(rest) >= 2 + host + 4 + token
        /\ U16(host) = SubSeq(rest, 1, 2)
        /\ U16(token) = SubSeq(rest, 2 + host + 3, 2 + host + 4)

\* The egress makes of a datagram exactly the frames that arrived complete.
\* The Android client makes of it all the frames when nothing is missing and
\* otherwise no frame that was not sent.  The Windows client agrees with it
\* but for an acknowledgement that what follows makes look like a request:
\* then, and only then, it loses a frame.  The segments of a long write put
\* together again are what was written.
FramesKept ==
    sample # None =>
        CASE sample.to = "egress" ->
             EgressFrames(Datagram(sample), 1) = Complete(sample)
          [] sample.to = "client" ->
             LET w == WindowsFrames(Datagram(sample), 1, <<>>)
                 a == AndroidFrames(Datagram(sample), 1, <<>>)
             IN  /\ IsPrefix(a, Complete(sample))
                 /\ sample.cut = 0 => a = Sent(sample) /\ (w = a <=> ~Ambiguous(sample))
                 /\ ~Ambiguous(sample) => w = a
          [] sample.to = "segments" ->
             LET fs == EgressFrames(FlattenSeq(Segments(Id(1), sample.payload, sample.size)), 1) IN
             /\ FlattenSeq([i \in DOMAIN fs |-> fs[i][3]]) = sample.payload
             /\ \A i \in DOMAIN fs : Len(fs[i][3]) \in 1..sample.size

MCInit == Init /\ sample \in Samples \cup {None}
MCNext == sample = None /\ Next /\ UNCHANGED sample
MCSpec == MCInit /\ [][MCNext]_<<vars, sample>>
=============================================================================
