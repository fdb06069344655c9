----------------------------- MODULE PacketPath -----------------------------
(***************************************************************************)
(* The way of a packet through the utilities of libsponge.  A sender       *)
(* unparses a header, computes its checksum over header and payload and    *)
(* writes both as one BufferList: FileDescriptor::write makes views of the *)
(* list and calls writev(2) until nothing is left.  A receiver takes what  *)
(* arrived, checks the sum chunk by chunk and parses the header.           *)
(*                                                                         *)
(* External: the sender and the receiver, whose protocols are not in the   *)
(* repository yet (buffer.hh, parser.hh and the checksum's doc say how     *)
(* they use these classes), writev(2), which takes any part of what it is  *)
(* given, and the network, which may cut the packet off.                   *)
(***************************************************************************)
EXTENDS Address

CONSTANTS Widths,    \* the integers of the header after the checksum, in bytes
          Values,    \* their possible values
          IpAt,      \* which of them is the sender's IP address
          Sources,   \* its possible socket addresses, as <<ip, port>>
          Payloads   \* what may follow the header

ASSUME PacketAssumption ==
  /\ Widths \in Seq({1, 2, 4})
  /\ Values \in [DOMAIN Widths -> SUBSET Nat]
  /\ \A i \in DOMAIN Widths : \A v \in Values[i] : v < Pow[Widths[i]]
  /\ IpAt \in DOMAIN Widths /\ Widths[IpAt] = 4
  /\ \A s \in Sources : s[1] \in [1 .. 4 -> Byte] /\ s[2] \in 0 .. Pow[2] - 1
  /\ Payloads \subseteq Seq(Byte)

Checksum == INSTANCE InternetChecksum

VARIABLES phase,     \* "send", "receive", "parse" or "done"
          source,    \* the Address of the sender
          fields,    \* the integers the sender has for the header
          packet,    \* the BufferList it has made
          views,     \* what write() still has to send
          wire,      \* what writev(2) has taken
          got,       \* how many bytes of it arrived
          arrived,   \* those that the receiver has not looked at yet
          ck,        \* the receiver's InternetChecksum
          parser,    \* the receiver's NetParser
          parsed     \* the integers it has returned

packetVars == <<phase, source, fields, packet, views, wire, got, arrived, ck, parser, parsed>>

headerSize == FoldLeft(LAMBDA a, b : a + b, 2, Widths)

header(sum, f) ==
  unparse_int(sum, 2) \o FlattenSeq([i \in DOMAIN Widths |-> unparse_int(f[i], Widths[i])])

\* The sum over a packet that has a zero where the sum will be, in two chunks.
sumOf(f, payload) ==
  Checksum!value(Checksum!add(Checksum!add(Checksum!NewChecksum(0), header(0, f)), payload))

PacketInit ==
  /\ phase = "send"
  /\ source \in {resolved(s[1], s[2]) : s \in Sources}
  /\ fields \in {f \in [DOMAIN Widths -> {ipv4_numeric(source)} \cup UNION Range(Values)] :
                   \A i \in DOMAIN Widths : IF i = IpAt THEN f[i] = ipv4_numeric(source)
                                            ELSE f[i] \in Values[i]}
  /\ \E payload \in Payloads :
       packet = <<NewBuffer(header(sumOf(fields, payload), fields)), NewBuffer(payload)>>
  /\ views = NewViews(packet)
  /\ wire = <<>>
  /\ got = 0
  /\ arrived = <<>>
  /\ ck = Checksum!NewChecksum(0)
  /\ parser = NewParser(NoBuffer)
  /\ parsed = <<>>

\* One round of write(): writev(2) takes the first n bytes of the views.
WriteRound(n) ==
  /\ phase = "send"
  /\ wire' = wire \o SubSeq(FlattenSeq(views), 1, n)
  /\ views' = views_remove_prefix(views, n)
  /\ UNCHANGED <<phase, source, fields, packet, got, arrived, ck, parser, parsed>>

\* The loop of write() ends; the first n bytes arrive.
Deliver(n) ==
  /\ phase = "send"
  /\ views_size(views) = 0
  /\ got' = n
  /\ arrived' = SubSeq(wire, 1, n)
  /\ parser' = NewParser(NewBuffer(arrived'))
  /\ phase' = "receive"
  /\ UNCHANGED <<source, fields, packet, views, wire, ck, parsed>>

\* The receiver adds a chunk to its checksum.
Check(n) ==
  /\ phase = "receive"
  /\ ck' = Checksum!add(ck, SubSeq(arrived, 1, n))
  /\ arrived' = SubSeq(arrived, n + 1, Len(arrived))
  /\ UNCHANGED <<phase, source, fields, packet, views, wire, got, parser, parsed>>

\* Everything is added: a sum that is not zero is an error, and the receiver
\* goes on to skip the checksum's own bytes.
Judge ==
  /\ phase = "receive"
  /\ arrived = <<>>
  /\ parser' = skip(IF Checksum!value(ck) = 0 THEN parser
                    ELSE [parser EXCEPT !.error = "BadChecksum"], 2)
  /\ phase' = "parse"
  /\ UNCHANGED <<source, fields, packet, views, wire, got, arrived, ck, parsed>>

\* u8(), u16() or u32(), whatever comes next in the header.
Parse ==
  /\ phase = "parse"
  /\ Len(parsed) < Len(Widths)
  /\ LET len == Widths[Len(parsed) + 1]
     IN  /\ parsed' = Append(parsed, parse_int(parser, len))
         /\ parser' = skip(parser, len)
  /\ UNCHANGED <<phase, source, fields, packet, views, wire, got, arrived, ck>>

Finish == /\ phase = "parse"
          /\ Len(parsed) = Len(Widths)
          /\ phase' = "done"
          /\ UNCHANGED <<source, fields, packet, views, wire, got, arrived, ck, parser, parsed>>

Done == phase = "done" /\ UNCHANGED packetVars

PacketNext == \/ \E n \in 1 .. views_size(views) : WriteRound(n)
              \/ \E n \in 0 .. Len(wire) : Deliver(n)
              \/ \E n \in 1 .. Len(arrived) : Check(n)
              \/ Judge \/ Parse \/ Finish \/ Done

PacketSpec == PacketInit /\ [][PacketNext]_packetVars

----------------------------------------------------------------------------
(* Properties *)

\* However writev(2) cuts the list up, what it has taken and what the views
\* still show are the packet, byte for byte.
NothingLostInViews == wire \o FlattenSeq(views) = concatenate(packet)

\* A packet that arrives whole passes the checksum, in whatever chunks it is
\* added, is parsed into the integers that were unparsed, and leaves the payload.
IntactIsAccepted ==
  phase = "done" /\ got = Len(wire) =>
    /\ ~failed(parser)
    /\ parsed = fields
    /\ str(parser.buffer) = packet[2].storage

\* The ones' complement sum of the words of data, by its definition: residues of
\* WORD - 1, of which only an empty sum has the value 0.
wordSum(data) ==
  FoldLeft(LAMBDA a, b : a + b, 0,
           [i \in DOMAIN data |-> data[i] * (IF i % 2 = 1 THEN BASE ELSE 1)])
onesComplement(n) == IF n = 0 THEN 0 ELSE 1 + ((n - 1) % (Checksum!WORD - 1))

\* "The internet checksum algorithm": chunk by chunk, the class computes the
\* sum that any other implementation computes, as long as the words of the data
\* add up to no more than its uint32_t holds.
SumIsRight ==
  phase = "receive" =>
    LET data == SubSeq(wire, 1, got - Len(arrived))
    IN  wordSum(data) < Checksum!WORD * Checksum!WORD
          => Checksum!value(ck) = Checksum!WORD - 1 - onesComplement(wordSum(data))

\* The address that the receiver makes of the number is equal to the sender's,
\* unless the sender's has a port: that is not part of the number.
AddressSurvives ==
  phase = "done" /\ got = Len(wire) =>
    (equal(from_ipv4_numeric(parsed[IpAt]), source) <=> source._address.port = <<0, 0>>)

\* A packet cut off inside its header is never taken for a packet.
ShortIsNoticed == phase = "done" /\ got < headerSize => failed(parser)

\* After an error the parser stays in error, takes nothing more from the buffer
\* and returns only zeros.
ErrorIsFinal ==
  [][phase = "parse" /\ failed(parser) =>
       /\ failed(parser')
       /\ parser'.buffer = parser.buffer
       /\ parsed' \in {parsed, Append(parsed, 0)}]_packetVars
=============================================================================
