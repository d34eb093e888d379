---------------------------- MODULE ClientHello ----------------------------
(***************************************************************************)
(* cmd/sniproxy: parseClientHello, extractSNI and parseSNI on one TLS      *)
(* record.  Every field of a ClientHello is found by adding up length      *)
(* fields that the client chose; a read past the end of a slice is a panic *)
(* that ends the proxy.                                                    *)
(*                                                                         *)
(* Positions are Go's, from 0, in record.Payload; limit is the end of the  *)
(* slice the code is working on (the payload, the handshake body, the data *)
(* of the SNI extension).  touched is not in the code: the end of the      *)
(* furthest read.                                                          *)
(***************************************************************************)
EXTENDS Integers, Sequences

CONSTANT Records   \* what clients send first: TLS records

Byte == 0..255

ASSUME RecordsAssumption == Records \subseteq [type : Byte, payload : Seq(Byte)]

VARIABLES
    record,    \* what the client sends first; gone once parseClientHello returns
    step,      \* the field that is next
    pos, end, limit, touched,
    name       \* where the name that was found starts and ends

parserVars == <<record, step, pos, end, limit, touched, name>>

Steps == {"idle", "record", "random", "session", "ciphers", "compression", "extensions",
          "extension", "sni", "ok", "error", "returned"}

Size == Len(record.payload)

(* A byte; what lies beyond the record does not matter, reading it does. *)
At(i) == IF i < Size THEN record.payload[i + 1] ELSE 0

Uint16(i) == At(i) * 256 + At(i + 1)
uint24(i) == At(i) * 65536 + At(i + 1) * 256 + At(i + 2)

(* A length field of one or two bytes. *)
LengthAt(i, width) == IF width = 1 THEN At(i) ELSE Uint16(i)

NoRecord == [type |-> 0, payload |-> <<>>]

ParserInit ==
    /\ record \in Records /\ step = "idle"
    /\ pos = 0 /\ end = 0 /\ limit = 0 /\ touched = 0 /\ name = <<0, 0>>

(* The header and as many bytes as it announces. *)
readRecord ==
    /\ step = "idle"
    /\ step' = "record" /\ limit' = Size
    /\ UNCHANGED <<record, pos, end, touched, name>>

(* parseClientHello returns; nothing of its state is left. *)
Returned ==
    /\ step \in {"ok", "error"}
    /\ record' = NoRecord /\ step' = "returned"
    /\ pos' = 0 /\ end' = 0 /\ limit' = 0 /\ touched' = 0 /\ name' = <<0, 0>>

(* What a step leaves: the furthest read, and an error or a new position. *)
Reject(read) ==
    /\ step' = "error" /\ touched' = read
    /\ UNCHANGED <<record, pos, end, limit, name>>

Advance(to, position, read) ==
    /\ step' = to /\ pos' = position /\ touched' = read
    /\ UNCHANGED <<record, end, limit, name>>

-----------------------------------------------------------------------------
(* parseClientHello: a handshake record that holds a whole ClientHello. *)
NotHandshake == record.type # 22 \/ Size < 1

NotClientHello == At(0) # 1 \/ Size < 4

Handshake ==
    /\ step = "record"
    /\ \/ NotHandshake /\ Reject(0)
       \/ ~NotHandshake /\ NotClientHello /\ Reject(1)
       \/ ~NotHandshake /\ ~NotClientHello /\ Size - 4 < uint24(1) /\ Reject(4)
       \/ /\ ~NotHandshake /\ ~NotClientHello /\ Size - 4 >= uint24(1)
          /\ step' = "random" /\ pos' = 4 /\ limit' = 4 + uint24(1) /\ touched' = 4
          /\ UNCHANGED <<record, end, name>>

(* Version and random, which are passed over. *)
Random ==
    /\ step = "random"
    /\ \/ limit < pos + 34 /\ Reject(touched)
       \/ limit >= pos + 34 /\ Advance("session", pos + 34, touched)

\* A mistake: the length field is read before its own bytes are checked.
VectorUnchecked(from, width, to) ==
    LET next == pos + width + LengthAt(pos, width)
    IN  /\ step = from
        /\ \/ limit < next /\ Reject(pos + width)
           \/ limit >= next /\ Advance(to, next, pos + width)

(* A length and that many bytes: session ID, cipher suites and compression  *)
(* methods are passed over in this way.                                     *)
Vector(from, width, to) ==
    LET next == pos + width + LengthAt(pos, width)
    IN  /\ step = from
        /\ \/ limit < pos + width /\ Reject(touched)
           \/ limit >= pos + width /\ limit < next /\ Reject(pos + width)
           \/ limit >= pos + width /\ limit >= next /\ Advance(to, next, pos + width)

(* The length of all extensions. *)
Extensions ==
    LET extLen == Uint16(pos)
    IN  /\ step = "extensions"
        /\ \/ limit < pos + 2 /\ Reject(touched)
           \/ limit >= pos + 2 /\ (extLen = 0 \/ limit < pos + 2 + extLen) /\ Reject(pos + 2)
           \/ /\ limit >= pos + 2 /\ extLen # 0 /\ limit >= pos + 2 + extLen
              /\ step' = "extension" /\ pos' = pos + 2 /\ touched' = pos + 2
              /\ end' = pos + 2 + extLen
              /\ UNCHANGED <<record, limit, name>>

\* A mistake: the data of an extension may reach past all extensions.
ExtensionUnbounded ==
    LET type == Uint16(pos)
        next == pos + 4 + Uint16(pos + 2)
    IN  /\ step = "extension"
        /\ \/ pos + 4 > end /\ Reject(touched)
           \/ pos + 4 <= end /\ type # 0 /\ Advance("extension", next, pos + 4)
           \/ /\ pos + 4 <= end /\ type = 0
              /\ step' = "sni" /\ pos' = pos + 4 /\ limit' = next /\ touched' = pos + 4
              /\ UNCHANGED <<record, end, name>>

\* A mistake: only the first extension is looked at.
ExtensionFirstOnly ==
    LET next == pos + 4 + Uint16(pos + 2)
    IN  /\ step = "extension"
        /\ \/ pos + 4 > end /\ Reject(touched)
           \/ pos + 4 <= end /\ (next > end \/ Uint16(pos) # 0) /\ Reject(pos + 4)
           \/ /\ pos + 4 <= end /\ next <= end /\ Uint16(pos) = 0
              /\ step' = "sni" /\ pos' = pos + 4 /\ limit' = next /\ touched' = pos + 4
              /\ UNCHANGED <<record, end, name>>

(* One turn of the loop: the first extension of type server_name is parsed, *)
(* others are passed over.                                                  *)
Extension ==
    LET type == Uint16(pos)
        next == pos + 4 + Uint16(pos + 2)
    IN  /\ step = "extension"
        /\ \/ pos + 4 > end /\ Reject(touched)
           \/ pos + 4 <= end /\ next > end /\ Reject(pos + 4)
           \/ pos + 4 <= end /\ next <= end /\ type # 0 /\ Advance("extension", next, pos + 4)
           \/ /\ pos + 4 <= end /\ next <= end /\ type = 0
              /\ step' = "sni" /\ pos' = pos + 4 /\ limit' = next /\ touched' = pos + 4
              /\ UNCHANGED <<record, end, name>>

(* parseSNI: the first entry of the list, which must be a host name. *)
parseSNI ==
    LET listLen == Uint16(pos)
        listEnd == pos + 2 + listLen
        noEntry == listLen = 0 \/ limit < listEnd \/ pos + 5 > listEnd
        nameEnd == pos + 5 + Uint16(pos + 3)
    IN  /\ step = "sni"
        /\ \/ limit < pos + 2 /\ Reject(touched)
           \/ limit >= pos + 2 /\ noEntry /\ Reject(pos + 2)
           \/ limit >= pos + 2 /\ ~noEntry /\ At(pos + 2) # 0 /\ Reject(pos + 3)
           \/ limit >= pos + 2 /\ ~noEntry /\ At(pos + 2) = 0 /\ nameEnd > listEnd /\ Reject(pos + 5)
           \/ /\ limit >= pos + 2 /\ ~noEntry /\ At(pos + 2) = 0 /\ nameEnd <= listEnd
              /\ step' = "ok" /\ name' = <<pos + 5, nameEnd>> /\ touched' = nameEnd
              /\ UNCHANGED <<record, pos, end, limit>>

ParseStep ==
    \/ Handshake \/ Random
    \/ Vector("session", 1, "ciphers")
    \/ Vector("ciphers", 2, "compression")
    \/ Vector("compression", 1, "extensions")
    \/ Extensions \/ Extension \/ parseSNI

ParserNext == readRecord \/ ParseStep \/ Returned

ParserSpec == ParserInit /\ [][ParserNext]_parserVars

-----------------------------------------------------------------------------
(* No read leaves its slice, whatever the client wrote into the length      *)
(* fields, so the parser cannot panic; and the name it returns lies inside  *)
(* the data of the server_name extension, and that inside the extensions.   *)
StaysInside ==
    /\ touched <= limit /\ limit <= Size
    /\ step = "ok" => /\ pos <= name[1] /\ name[1] <= name[2]
                      /\ name[2] <= limit /\ limit <= end

=============================================================================
