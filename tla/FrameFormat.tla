---------------------------- MODULE FrameFormat ----------------------------
(***************************************************************************)
(* The frame format: integers, the header and the encoders of the egress   *)
(* (protocol.cpp), of the Windows client (TonProtocol.cpp) and of the      *)
(* Android client (NativeTonTransport.kt), which agree byte for byte.      *)
(* A datagram is a sequence of bytes.                                      *)
(***************************************************************************)
EXTENDS Naturals, Sequences

Open  == 1
Data  == 2
Close == 3
Error == 4

U16LittleEndian(n) == << n % 256, (n \div 256) % 256 >>

\* writeU16, writeU32, readU16 and readU32: big endian.
U16(n) == << (n \div 256) % 256, n % 256 >>
U32(n) == << (n \div 16777216) % 256, (n \div 65536) % 256, (n \div 256) % 256, n % 256 >>

ReadU16(b, at) == b[at] * 256 + b[at + 1]

\* A length field; from 2^30 on its value does not matter, no datagram is as long.
ReadU32(b, at) ==
    IF b[at] >= 64 THEN 1073741824
    ELSE b[at] * 16777216 + b[at + 1] * 65536 + b[at + 2] * 256 + b[at + 3]

Left(b, at) == Len(b) + 1 - at
Bytes(b, at, len) == SubSeq(b, at, at + len - 1)

\* A stream id is only compared: it is kept as its four bytes.
StreamId(b, at) == Bytes(b, at + 1, 4)

\* encodeOpenFrame and openStream: the request of a client.
EncodeOpen(id, host, port, token) ==
    <<Open>> \o id \o U16(Len(host)) \o host \o U16(port) \o U16(Len(token)) \o token

\* encodeOpen of the egress: the acknowledgement has the header alone.
EncodeOpenAck(id) == <<Open>> \o id

EncodeData(id, payload) == <<Data>> \o id \o U32(Len(payload)) \o payload

EncodeClose(id) == <<Close>> \o id

EncodeError(id, message) == <<Error>> \o id \o U16(Len(message)) \o message
=============================================================================
