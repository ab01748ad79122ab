------------------------------ MODULE Frames ------------------------------
(***************************************************************************)
(* The decoders: the frame loop of EgressNode::onAdnlMessage with          *)
(* protocol.cpp, decodeInboundFrames of TonProtocol.cpp (Windows client)   *)
(* and decodeInboundFrames of NativeTonTransport.kt (Android client); and  *)
(* the segmentation of long writes.                                        *)
(***************************************************************************)
EXTENDS FrameFormat, SequencesExt

\* sendStreamDataImmediateSegmented: one DATA frame for each segment.
RECURSIVE Segments(_, _, _)
Segments(id, payload, size) ==
    IF payload = <<>> THEN <<>>
    ELSE LET len == IF Len(payload) < size THEN Len(payload) ELSE size IN
         <<EncodeData(id, SubSeq(payload, 1, len))>>
         \o Segments(id, SubSeq(payload, len + 1, Len(payload)), size)

(***************************************************************************)
(* Decoders.  A decoded frame is <<type, stream id, body>>, where the body *)
(* is <<host, port, token>>, a payload, a message or empty.                *)
(***************************************************************************)

\* tryGetFrameLength: the length of the frame at an offset, 0 when it is not
\* complete or its type is not known.
FrameLength(b, at) ==
    LET at5 == at + 5 IN
    IF Left(b, at) < 5 THEN 0
    ELSE CASE b[at] = Open ->
              IF Left(b, at5) < 2 THEN 0
              ELSE LET host == ReadU16(b, at5) IN
                   IF Left(b, at5) < 2 + host + 4 THEN 0
                   ELSE LET token == ReadU16(b, at5 + 2 + host + 2) IN
                        IF Left(b, at5) < 2 + host + 4 + token THEN 0
                        ELSE 5 + 2 + host + 4 + token
           [] b[at] = Data ->
              IF Left(b, at5) < 4 \/ Left(b, at5) < 4 + ReadU32(b, at5) THEN 0
              ELSE 9 + ReadU32(b, at5)
           [] b[at] = Close -> 5
           [] b[at] = Error ->
              IF Left(b, at5) < 2 \/ Left(b, at5) < 2 + ReadU16(b, at5) THEN 0
              ELSE 7 + ReadU16(b, at5)
           [] OTHER -> 0

\* decodeMessage of one complete frame; the length checks it repeats are
\* those of FrameLength.
DecodeMessage(f) ==
    LET id == StreamId(f, 1) IN
    CASE f[1] = Open ->
         LET host == ReadU16(f, 6)
             token == ReadU16(f, 10 + host)
         IN  <<Open, id, <<Bytes(f, 8, host), ReadU16(f, 8 + host), Bytes(f, 12 + host, token)>> >>
      [] f[1] = Data  -> <<Data, id, Bytes(f, 10, ReadU32(f, 6))>>
      [] f[1] = Close -> <<Close, id, <<>> >>
      [] f[1] = Error -> <<Error, id, Bytes(f, 8, ReadU16(f, 6))>>

\* The loop of EgressNode::onAdnlMessage: frames in front of the first one
\* that cannot be decoded are dispatched, the rest is dropped.
RECURSIVE EgressFrames(_, _)
EgressFrames(b, at) ==
    LET len == FrameLength(b, at) IN
    IF len = 0 THEN <<>>
    ELSE <<DecodeMessage(Bytes(b, at, len))>> \o EgressFrames(b, at + len)

\* The length of the OPEN body at an offset in TonProtocol.cpp: a complete
\* request, or else none, which makes the frame an acknowledgement.
OpenBody(b, at) ==
    IF Left(b, at) < 2 THEN 0
    ELSE LET host == ReadU16(b, at) IN
         IF Left(b, at) < 2 + host + 4 THEN 0
         ELSE LET token == ReadU16(b, at + 2 + host + 2) IN
              IF Left(b, at) < 2 + host + 4 + token THEN 0
              ELSE 2 + host + 4 + token

\* decodeInboundFrames of TonProtocol.cpp.  A cut DATA or ERROR, or an
\* unknown type, makes the whole result empty.
RECURSIVE WindowsFrames(_, _, _)
WindowsFrames(b, at, out) ==
    LET at5 == at + 5
        id  == StreamId(b, at)
    IN
    IF Left(b, at) < 5 THEN out
    ELSE CASE b[at] = Open ->
              WindowsFrames(b, at5 + OpenBody(b, at5), Append(out, <<Open, id, <<>> >>))
           [] b[at] = Close -> WindowsFrames(b, at5, Append(out, <<Close, id, <<>> >>))
           [] b[at] = Data ->
              IF Left(b, at5) < 4 \/ Left(b, at5) < 4 + ReadU32(b, at5) THEN <<>>
              ELSE LET len == ReadU32(b, at5) IN
                   WindowsFrames(b, at5 + 4 + len, Append(out, <<Data, id, Bytes(b, at5 + 4, len)>>))
           [] b[at] = Error ->
              IF Left(b, at5) < 2 \/ Left(b, at5) < 2 + ReadU16(b, at5) THEN <<>>
              ELSE LET len == ReadU16(b, at5) IN
                   WindowsFrames(b, at5 + 2 + len, Append(out, <<Error, id, Bytes(b, at5 + 2, len)>>))
           [] OTHER -> <<>>

\* decodeInboundFrames of NativeTonTransport.kt: as above, but OPEN is the
\* header alone, an unknown type is a frame of its own, and a DATA length of
\* 2^31 or more is negative.
RECURSIVE AndroidFrames(_, _, _)
AndroidFrames(b, at, out) ==
    LET at5 == at + 5
        id  == StreamId(b, at)
    IN
    IF Left(b, at) < 5 THEN out
    ELSE CASE b[at] = Data ->
              IF Left(b, at5) < 4 \/ b[at5] >= 128 \/ Left(b, at5) < 4 + ReadU32(b, at5) THEN <<>>
              ELSE LET len == ReadU32(b, at5) IN
                   AndroidFrames(b, at5 + 4 + len, Append(out, <<Data, id, Bytes(b, at5 + 4, len)>>))
           [] b[at] = Error ->
              IF Left(b, at5) < 2 \/ Left(b, at5) < 2 + ReadU16(b, at5) THEN <<>>
              ELSE LET len == ReadU16(b, at5) IN
                   AndroidFrames(b, at5 + 2 + len, Append(out, <<Error, id, Bytes(b, at5 + 2, len)>>))
           [] OTHER -> AndroidFrames(b, at5, Append(out, <<b[at], id, <<>> >>))
=============================================================================
