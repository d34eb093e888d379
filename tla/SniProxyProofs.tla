-------------------------- MODULE SniProxyProofs --------------------------
(***************************************************************************)
(* Proofs about the SNI proxy: the ClientHello parser stays inside its     *)
(* slices for every record a client can send and finds the name in every   *)
(* hello, and a proxied connection is copied in order, not past the idle   *)
(* timeout, and not cut off, for every timeout and any number of chunks.   *)
(***************************************************************************)
EXTENDS SniProxyProps, ClientHelloLayout, TLAPS

(* Types of the parser's state. *)
TypeInv ==
    /\ record \in [type : Byte, payload : Seq(Byte)]
    /\ step \in Steps
    /\ pos \in Nat /\ end \in Nat /\ limit \in Nat /\ touched \in Nat
    /\ name \in Nat \X Nat

(* The slice at work lies in the record, and what is left of it is ahead of *)
(* pos; the extensions lie in the hello, and the extension in them.         *)
InsideInv ==
    /\ touched <= limit /\ limit <= Size /\ pos <= limit
    /\ step = "record" => limit = Size
    /\ step = "extension" => pos <= end /\ end <= limit
    /\ step = "sni" => limit <= end
    /\ step = "ok" => pos <= name[1] /\ name[1] <= name[2] /\ name[2] <= limit /\ limit <= end

Inv == TypeInv /\ InsideInv

(* Lengths read from the record are numbers, wherever they are read. *)
LEMMA ReadsAreNat ==
    ASSUME TypeInv
    PROVE  /\ Size \in Nat
           /\ \A i \in Nat : /\ At(i) \in Nat
                             /\ Uint16(i) \in Nat
                             /\ uint24(i) \in Nat
<1>1. Size \in Nat
  BY DEF TypeInv, Size
<1>2. \A i \in Nat : At(i) \in Byte
  <2> SUFFICES ASSUME NEW i \in Nat PROVE At(i) \in Byte
    OBVIOUS
  <2>1. CASE i < Size
    <3>1. i + 1 \in 1..Len(record.payload)
      BY <1>1, <2>1 DEF Size
    <3>2. record.payload \in Seq(Byte)
      BY DEF TypeInv
    <3> QED BY <2>1, <3>1, <3>2 DEF At
  <2>2. CASE ~(i < Size)
    BY <2>2 DEF At, Byte
  <2> QED BY <2>1, <2>2
<1>3. \A i \in Nat : Uint16(i) \in Nat /\ uint24(i) \in Nat
  <2> SUFFICES ASSUME NEW i \in Nat PROVE Uint16(i) \in Nat /\ uint24(i) \in Nat
    OBVIOUS
  <2>1. At(i) \in Nat /\ At(i + 1) \in Nat /\ At(i + 2) \in Nat
    <3>1. i + 1 \in Nat /\ i + 2 \in Nat OBVIOUS
    <3>2. \A b \in Byte : b \in Nat BY DEF Byte
    <3> QED BY <1>2, <3>1, <3>2
  <2>2. \A a, b, c \in Nat : a * 256 + b \in Nat /\ a * 65536 + b * 256 + c \in Nat
    OBVIOUS
  <2>3. Uint16(i) \in Nat
    BY <2>1, <2>2 DEF Uint16
  <2>4. uint24(i) \in Nat
    BY <2>1, <2>2 DEF uint24
  <2> QED BY <2>3, <2>4
<1>4. \A i \in Nat : At(i) \in Nat
  BY <1>2 DEF Byte
<1> QED BY <1>1, <1>3, <1>4

(* A rejected hello leaves the slices as they were. *)
LEMMA RejectKeepsInv ==
    ASSUME Inv, NEW read \in Nat, read <= limit, Reject(read)
    PROVE  Inv'
BY DEF Inv, TypeInv, InsideInv, Reject, Steps, Size

(* A step over a field that lies in the slice. *)
LEMMA AdvanceKeepsInv ==
    ASSUME Inv, NEW to \in {"session", "ciphers", "compression", "extensions"},
           NEW position \in Nat, NEW read \in Nat,
           position <= limit, read <= limit, Advance(to, position, read)
    PROVE  Inv'
BY DEF Inv, TypeInv, InsideInv, Advance, Steps, Size

(* One step of the parser each. *)
LEMMA VectorKeepsInv ==
    ASSUME Inv, NEW from, NEW width \in {1, 2},
           NEW to \in {"session", "ciphers", "compression", "extensions"},
           Vector(from, width, to)
    PROVE  Inv'
<1> DEFINE next == pos + width + LengthAt(pos, width)
<1>1. pos \in Nat /\ limit \in Nat /\ touched \in Nat /\ touched <= limit /\ TypeInv
  BY DEF Inv, TypeInv, InsideInv
<1>2. LengthAt(pos, width) \in Nat
  BY <1>1, ReadsAreNat DEF LengthAt
<1>3. next \in Nat /\ pos + width \in Nat /\ pos + width <= next
  BY <1>1, <1>2
<1> HIDE DEF next
<1>4. CASE limit < pos + width /\ Reject(touched)
  BY <1>1, <1>4, RejectKeepsInv
<1>5. CASE limit >= pos + width /\ Reject(pos + width)
  <2>1. pos + width <= limit
    BY <1>1, <1>3, <1>5
  <2> QED BY <1>3, <1>5, <2>1, RejectKeepsInv
<1>6. CASE limit >= next /\ Advance(to, next, pos + width)
  <2>1. pos + width <= limit /\ next <= limit
    BY <1>1, <1>3, <1>6
  <2> QED BY <1>3, <1>6, <2>1, AdvanceKeepsInv
<1> QED BY <1>4, <1>5, <1>6 DEF Vector, next

LEMMA HandshakeKeepsInv ==
    ASSUME Inv, Handshake
    PROVE  Inv'
<1>1. TypeInv /\ limit = Size
  BY DEF Inv, InsideInv, Handshake
<1>2. Size \in Nat /\ uint24(1) \in Nat
  BY <1>1, ReadsAreNat
<1>3. CASE NotHandshake /\ Reject(0)
  BY <1>1, <1>2, <1>3, RejectKeepsInv
<1>4. CASE ~NotHandshake /\ Reject(1)
  <2>1. 1 <= limit
    BY <1>1, <1>2, <1>4 DEF NotHandshake
  <2> QED BY <1>4, <2>1, RejectKeepsInv
<1>5. CASE ~NotClientHello /\ Reject(4)
  <2>1. 4 <= limit
    BY <1>1, <1>2, <1>5 DEF NotClientHello
  <2> QED BY <1>5, <2>1, RejectKeepsInv
<1>6. CASE /\ ~NotClientHello /\ Size - 4 >= uint24(1)
           /\ step' = "random" /\ pos' = 4 /\ limit' = 4 + uint24(1) /\ touched' = 4
           /\ UNCHANGED <<record, end, name>>
  <2>1. TypeInv'
    BY <1>1, <1>2, <1>6 DEF TypeInv, Steps
  <2>2. Size' = Size
    BY <1>6 DEF Size
  <2>3. InsideInv'
    BY <1>2, <1>6, <2>2 DEF InsideInv
  <2> QED BY <2>1, <2>3 DEF Inv
<1> QED BY <1>3, <1>4, <1>5, <1>6 DEF Handshake

LEMMA RandomKeepsInv ==
    ASSUME Inv, Random
    PROVE  Inv'
<1>1. pos \in Nat /\ limit \in Nat /\ touched \in Nat /\ touched <= limit
  BY DEF Inv, TypeInv, InsideInv
<1>2. CASE Reject(touched)
  BY <1>1, <1>2, RejectKeepsInv
<1>3. CASE limit >= pos + 34 /\ Advance("session", pos + 34, touched)
  <2>1. pos + 34 \in Nat /\ pos + 34 <= limit
    BY <1>1, <1>3
  <2> QED BY <1>1, <1>3, <2>1, AdvanceKeepsInv
<1> QED BY <1>2, <1>3 DEF Random

LEMMA ExtensionsKeepsInv ==
    ASSUME Inv, Extensions
    PROVE  Inv'
<1> DEFINE extLen == Uint16(pos)
<1>1. TypeInv /\ pos \in Nat /\ limit \in Nat /\ touched \in Nat /\ touched <= limit
  BY DEF Inv, TypeInv, InsideInv
<1>2. extLen \in Nat /\ Size \in Nat
  BY <1>1, ReadsAreNat
<1> HIDE DEF extLen
<1>3. CASE Reject(touched)
  BY <1>1, <1>3, RejectKeepsInv
<1>4. CASE limit >= pos + 2 /\ Reject(pos + 2)
  <2>1. pos + 2 \in Nat /\ pos + 2 <= limit
    BY <1>1, <1>4
  <2> QED BY <1>4, <2>1, RejectKeepsInv
<1>5. CASE /\ limit >= pos + 2 + extLen
           /\ step' = "extension" /\ pos' = pos + 2 /\ touched' = pos + 2
           /\ end' = pos + 2 + extLen
           /\ UNCHANGED <<record, limit, name>>
  <2>1. TypeInv'
    BY <1>1, <1>2, <1>5 DEF TypeInv, Steps
  <2>2. Size' = Size
    BY <1>5 DEF Size
  <2>3. InsideInv'
    BY <1>1, <1>2, <1>5, <2>2 DEF InsideInv, Inv
  <2> QED BY <2>1, <2>3 DEF Inv
<1> QED BY <1>3, <1>4, <1>5 DEF Extensions, extLen

LEMMA ExtensionKeepsInv ==
    ASSUME Inv, Extension
    PROVE  Inv'
<1> DEFINE next == pos + 4 + Uint16(pos + 2)
<1>1. /\ TypeInv /\ pos \in Nat /\ end \in Nat /\ limit \in Nat /\ touched \in Nat
      /\ touched <= limit /\ limit <= Size /\ end <= limit
  BY DEF Inv, TypeInv, InsideInv, Extension
<1>2. next \in Nat /\ pos + 4 <= next /\ Size \in Nat
  BY <1>1, ReadsAreNat
<1> HIDE DEF next
<1>3. CASE Reject(touched)
  BY <1>1, <1>3, RejectKeepsInv
<1>4. CASE pos + 4 <= end /\ Reject(pos + 4)
  <2>1. pos + 4 \in Nat /\ pos + 4 <= limit
    BY <1>1, <1>4
  <2> QED BY <1>4, <2>1, RejectKeepsInv
<1>5. CASE pos + 4 <= end /\ next <= end /\ Advance("extension", next, pos + 4)
  <2>1. TypeInv'
    BY <1>1, <1>2, <1>5 DEF Advance, TypeInv, Steps
  <2>2. Size' = Size
    BY <1>5 DEF Size, Advance
  <2>3. InsideInv'
    BY <1>1, <1>2, <1>5, <2>2 DEF InsideInv, Advance
  <2> QED BY <2>1, <2>3 DEF Inv
<1>6. CASE /\ pos + 4 <= end /\ next <= end
           /\ step' = "sni" /\ pos' = pos + 4 /\ limit' = next /\ touched' = pos + 4
           /\ UNCHANGED <<record, end, name>>
  <2>1. TypeInv'
    BY <1>1, <1>2, <1>6 DEF TypeInv, Steps
  <2>2. Size' = Size
    BY <1>6 DEF Size
  <2>3. InsideInv'
    BY <1>1, <1>2, <1>6, <2>2 DEF InsideInv
  <2> QED BY <2>1, <2>3 DEF Inv
<1> QED BY <1>3, <1>4, <1>5, <1>6 DEF Extension, next

LEMMA parseSNIKeepsInv ==
    ASSUME Inv, parseSNI
    PROVE  Inv'
<1> DEFINE listLen == Uint16(pos)
           listEnd == pos + 2 + listLen
           noEntry == listLen = 0 \/ limit < listEnd \/ pos + 5 > listEnd
           nameEnd == pos + 5 + Uint16(pos + 3)
<1>1. /\ TypeInv /\ pos \in Nat /\ end \in Nat /\ limit \in Nat /\ touched \in Nat
      /\ touched <= limit /\ limit <= Size /\ limit <= end /\ pos <= limit
  BY DEF Inv, TypeInv, InsideInv, parseSNI
<1>2. listEnd \in Nat /\ nameEnd \in Nat /\ pos + 5 <= nameEnd /\ Size \in Nat
  BY <1>1, ReadsAreNat
<1>3. ~noEntry => listEnd <= limit /\ pos + 5 <= listEnd
  BY <1>1, <1>2
<1> HIDE DEF listEnd, nameEnd, noEntry
<1>4. CASE Reject(touched)
  BY <1>1, <1>4, RejectKeepsInv
<1>5. CASE limit >= pos + 2 /\ Reject(pos + 2)
  <2>1. pos + 2 \in Nat /\ pos + 2 <= limit
    BY <1>1, <1>5
  <2> QED BY <1>5, <2>1, RejectKeepsInv
<1>6. CASE ~noEntry /\ Reject(pos + 3)
  <2>1. pos + 3 \in Nat /\ pos + 3 <= limit
    BY <1>1, <1>2, <1>3, <1>6
  <2> QED BY <1>6, <2>1, RejectKeepsInv
<1>7. CASE ~noEntry /\ Reject(pos + 5)
  <2>1. pos + 5 \in Nat /\ pos + 5 <= limit
    BY <1>1, <1>2, <1>3, <1>7
  <2> QED BY <1>7, <2>1, RejectKeepsInv
<1>8. CASE /\ ~noEntry /\ nameEnd <= listEnd
           /\ step' = "ok" /\ name' = <<pos + 5, nameEnd>> /\ touched' = nameEnd
           /\ UNCHANGED <<record, pos, end, limit>>
  <2>1. TypeInv'
    BY <1>1, <1>2, <1>8 DEF TypeInv, Steps
  <2>2. Size' = Size
    BY <1>8 DEF Size
  <2>3. InsideInv'
    BY <1>1, <1>2, <1>3, <1>8, <2>2 DEF InsideInv
  <2> QED BY <2>1, <2>3 DEF Inv
<1> QED BY <1>4, <1>5, <1>6, <1>7, <1>8 DEF parseSNI, listEnd, nameEnd, noEntry

(* readRecord starts with the whole record, Returned leaves nothing. *)
LEMMA CallKeepsInv ==
    ASSUME Inv, readRecord \/ Returned
    PROVE  Inv'
<1>1. TypeInv /\ Size \in Nat
  BY ReadsAreNat DEF Inv
<1>2. CASE readRecord
  <2>1. TypeInv'
    BY <1>1, <1>2 DEF readRecord, TypeInv, Steps
  <2>2. Size' = Size
    BY <1>2 DEF readRecord, Size
  <2>3. touched <= Size /\ pos <= Size
    BY <1>1 DEF Inv, InsideInv, TypeInv
  <2>4. InsideInv'
    BY <1>1, <1>2, <2>2, <2>3 DEF readRecord, InsideInv
  <2> QED BY <2>1, <2>4 DEF Inv
<1>3. CASE Returned
  <2>1. <<>> \in Seq(Byte) /\ Len(<<>>) = 0 /\ 0 \in Byte
    BY DEF Byte
  <2>2. NoRecord \in [type : Byte, payload : Seq(Byte)] /\ NoRecord.payload = <<>>
    BY <2>1 DEF NoRecord
  <2>3. TypeInv'
    BY <1>3, <2>2 DEF Returned, TypeInv, Steps
  <2>4. Size' = 0
    BY <1>3, <2>1, <2>2 DEF Returned, Size
  <2>5. InsideInv'
    BY <1>3, <2>4 DEF Returned, InsideInv
  <2> QED BY <2>3, <2>5 DEF Inv
<1> QED BY <1>2, <1>3

LEMMA NextKeepsInv ==
    ASSUME Inv, [ParserNext]_parserVars
    PROVE  Inv'
<1>1. CASE readRecord \/ Returned
  BY <1>1, CallKeepsInv
<1>2. CASE Handshake
  BY <1>2, HandshakeKeepsInv
<1>3. CASE Random
  BY <1>3, RandomKeepsInv
<1>4. CASE \/ Vector("session", 1, "ciphers")
           \/ Vector("ciphers", 2, "compression")
           \/ Vector("compression", 1, "extensions")
  BY <1>4, VectorKeepsInv
<1>5. CASE Extensions
  BY <1>5, ExtensionsKeepsInv
<1>6. CASE Extension
  BY <1>6, ExtensionKeepsInv
<1>7. CASE parseSNI
  BY <1>7, parseSNIKeepsInv
<1>8. CASE UNCHANGED parserVars
  BY <1>8 DEF parserVars, Inv, TypeInv, InsideInv, Size
<1> QED BY <1>1, <1>2, <1>3, <1>4, <1>5, <1>6, <1>7, <1>8 DEF ParserNext, ParseStep

(* Before anything is read. *)
LEMMA InitInv ==
    ASSUME ParserInit
    PROVE  Inv
<1>1. record \in [type : Byte, payload : Seq(Byte)]
  BY RecordsAssumption DEF ParserInit
<1>2. TypeInv
  BY <1>1 DEF ParserInit, TypeInv, Steps
<1>3. Size \in Nat
  BY <1>2, ReadsAreNat
<1> QED BY <1>2, <1>3 DEF ParserInit, Inv, InsideInv

(* A step of the proxy is a step of the parser, or none of it. *)
LEMMA ProxyParses == [HNext]_hvars => [ParserNext]_parserVars
  BY DEF HNext, hvars, vars, parserVars, ParserNext, ProxyStep, ProxyTick, ProcessStep, Accept, Send,
         Leave, Open, ReadRecord, HelloFails, Parse, Parsed, LookupHost, Dial, Goto, ReplayFails,
         Replay, HandlerReturns, Transfer, ReadChunk, ReadEnds, CallTimesOut, WriteFails, Ends, WriteChunk

(* For every record, whatever its length fields say, extractSNI and         *)
(* parseSNI read only inside the slice they work on, and a name they return *)
(* lies in the server_name extension of the hello.                          *)
THEOREM StaysInsideHolds == HSpec => []StaysInside
<1>1. Inv => StaysInside
  BY DEF Inv, InsideInv, StaysInside
<1>2. HInit => Inv
  BY InitInv DEF HInit, ProxyInit
<1>3. Inv /\ [HNext]_hvars => Inv'
  BY NextKeepsInv, ProxyParses
<1> QED BY <1>1, <1>2, <1>3, PTL DEF HSpec

-----------------------------------------------------------------------------
(* While a record that holds hello h is parsed: pos is where the field that *)
(* is next starts in h, and no extension passed over was a server_name.     *)
Leads(h, i) == \A j \in 1..(i - 1) : h.extensions[j].type # 0

InHello(h) ==
    /\ step = "random" => pos = 4 /\ limit = EndOf(h)
    /\ step = "session" => pos = 38 /\ limit = EndOf(h)
    /\ step = "ciphers" => pos = CiphersAt(h) /\ limit = EndOf(h)
    /\ step = "compression" => pos = CompressionAt(h) /\ limit = EndOf(h)
    /\ step = "extensions" => pos = BlockAt(h) /\ limit = EndOf(h)

InExtensions(h) ==
    step = "extension" =>
        end = EndOf(h) /\ \E i \in 1..(Len(h.extensions) + 1) : pos = h.at[i] /\ Leads(h, i)

InServerName(h) ==
    step = "sni" =>
        \E i \in 1..Len(h.extensions) :
            Leads(h, i) /\ h.extensions[i].type = 0 /\ pos = h.at[i] + 4 /\ limit = h.at[i + 1]

Answered(h) ==
    /\ step = "ok" => NamesIn(h) = {SubSeq(record.payload, name[1] + 1, name[2])}
    /\ step = "error" => NamesIn(h) = {}

OnTrack(h) == InHello(h) /\ InExtensions(h) /\ InServerName(h) /\ Answered(h)

NameInv == \A h \in Hellos : LaidOut(record, h) => OnTrack(h)

(* The parts of a hello are numbers and sequences. *)
LEMMA HelloTypes ==
    ASSUME NEW h \in Hellos
    PROVE  /\ h.session \in Nat /\ h.ciphers \in Nat /\ h.compression \in Nat
           /\ Len(h.extensions) \in Nat
           /\ \A k \in 1..(Len(h.extensions) + 1) : h.at[k] \in Nat
           /\ \A k \in 1..Len(h.extensions) :
                 /\ h.extensions[k].type \in Nat /\ h.extensions[k].length \in Nat
                 /\ h.extensions[k].entries \in Seq(Entries)
           /\ EndOf(h) \in Nat
<1>1. /\ h \in [session : Nat, ciphers : Nat, compression : Nat,
                extensions : Seq(ExtensionKinds), at : Seq(Nat)]
      /\ Len(h.at) = Len(h.extensions) + 1
  BY HellosAssumption
<1>2. h.extensions \in Seq(ExtensionKinds) /\ h.at \in Seq(Nat) /\ Len(h.extensions) \in Nat
  BY <1>1
<1>3. ASSUME NEW k \in 1..(Len(h.extensions) + 1) PROVE h.at[k] \in Nat
  BY <1>1, <1>2
<1>4. ASSUME NEW k \in 1..Len(h.extensions) PROVE h.extensions[k] \in ExtensionKinds
  BY <1>2
<1>5. ASSUME NEW x \in ExtensionKinds PROVE x.type \in Nat /\ x.length \in Nat /\ x.entries \in Seq(Entries)
  BY DEF ExtensionKinds
<1>6. Len(h.extensions) + 1 \in 1..(Len(h.extensions) + 1)
  BY <1>2
<1>7. EndOf(h) \in Nat
  BY <1>3, <1>6 DEF EndOf
<1> QED BY <1>1, <1>2, <1>3, <1>4, <1>5, <1>7

(* Bytes that a record holds are what the parser reads there. *)
LEMMA ReadOne ==
    ASSUME TypeInv, NEW i \in Nat, NEW b, Holds(record, i, <<b>>)
    PROVE  At(i) = b /\ i + 1 <= Size
<1>1. Len(<<b>>) = 1 /\ <<b>>[1] = b
  OBVIOUS
<1>2. i + 1 <= Size /\ record.payload[i + 1] = b
  BY <1>1 DEF Holds, Size
<1>3. Size \in Nat
  BY ReadsAreNat
<1> QED BY <1>2, <1>3 DEF At

LEMMA ReadTwoBytes ==
    ASSUME TypeInv, NEW i \in Nat, NEW n \in Nat, Holds(record, i, Two(n))
    PROVE  At(i) = n \div 256 /\ At(i + 1) = n % 256
<1>1. Len(Two(n)) = 2 /\ Two(n)[1] = n \div 256 /\ Two(n)[2] = n % 256
  BY DEF Two
<1>2. i + 2 <= Size /\ record.payload[i + 1] = n \div 256 /\ record.payload[i + 2] = n % 256
  BY <1>1 DEF Holds, Size
<1>3. Size \in Nat
  BY ReadsAreNat
<1>4. At(i) = n \div 256
  BY <1>2, <1>3 DEF At
<1>5. At(i + 1) = n % 256
  BY <1>2, <1>3 DEF At
<1> QED BY <1>4, <1>5

LEMMA ReadTwo ==
    ASSUME TypeInv, NEW i \in Nat, NEW n \in Nat, Holds(record, i, Two(n))
    PROVE  Uint16(i) = n
<1>1. (n \div 256) * 256 + (n % 256) = n
  OBVIOUS
<1> QED BY <1>1, ReadTwoBytes DEF Uint16

(* The extensions lie one behind the other, in the hello. *)
LEMMA HelloLayout ==
    ASSUME TypeInv, NEW h \in Hellos, LaidOut(record, h)
    PROVE  /\ 44 <= EndOf(h) /\ EndOf(h) <= Size
           /\ uint24(1) = EndOf(h) - 4 /\ At(0) = 1
           /\ At(38) = h.session /\ Uint16(CiphersAt(h)) = h.ciphers
           /\ At(CompressionAt(h)) = h.compression
           /\ Uint16(BlockAt(h)) = EndOf(h) - BlockAt(h) - 2
           /\ BlockAt(h) + 2 = h.at[1] /\ BlockAt(h) + 2 <= EndOf(h)
           /\ BlockAt(h) = CompressionAt(h) + 1 + h.compression
           /\ CompressionAt(h) = CiphersAt(h) + 2 + h.ciphers
           /\ CiphersAt(h) = 39 + h.session
           /\ CiphersAt(h) \in Nat /\ CompressionAt(h) \in Nat /\ BlockAt(h) \in Nat
<1>1. h.session \in Nat /\ h.ciphers \in Nat /\ h.compression \in Nat
  BY HelloTypes
<1>2. /\ CiphersAt(h) = 39 + h.session /\ CompressionAt(h) = CiphersAt(h) + 2 + h.ciphers
      /\ BlockAt(h) = CompressionAt(h) + 1 + h.compression
  BY DEF CiphersAt, CompressionAt, BlockAt
<1>3. CiphersAt(h) \in Nat /\ CompressionAt(h) \in Nat /\ BlockAt(h) \in Nat /\ 42 <= BlockAt(h)
  <2>1. PICK s \in Nat : s = h.session BY <1>1
  <2>2. PICK c \in Nat : c = h.ciphers BY <1>1
  <2>3. PICK m \in Nat : m = h.compression BY <1>1
  <2>4. CiphersAt(h) = 39 + s BY <1>2, <2>1
  <2>5. CompressionAt(h) = CiphersAt(h) + 2 + c BY <1>2, <2>2
  <2>6. BlockAt(h) = CompressionAt(h) + 1 + m BY <1>2, <2>3
  <2> QED BY <2>4, <2>5, <2>6
<1>4. /\ Holds(record, 0, <<1, 0>>) /\ h.at[1] = BlockAt(h) + 2 /\ EndOf(h) <= Size
      /\ \A k \in 1..Len(h.at) : h.at[k] <= EndOf(h)
  BY DEF LaidOut, Size
<1>5. EndOf(h) \in Nat /\ BlockAt(h) + 2 <= EndOf(h) /\ 44 <= EndOf(h)
  <2>1. 1 \in 1..Len(h.at)
    BY HelloTypes, HellosAssumption
  <2>2. BlockAt(h) + 2 <= EndOf(h)
    BY <1>4, <2>1
  <2>3. EndOf(h) \in Nat
    BY HelloTypes
  <2> QED BY <1>3, <2>2, <2>3
<1>6. EndOf(h) - 4 \in Nat /\ EndOf(h) - BlockAt(h) - 2 \in Nat
  BY <1>3, <1>5
<1>7. Uint16(CiphersAt(h)) = h.ciphers /\ Uint16(BlockAt(h)) = EndOf(h) - BlockAt(h) - 2
  <2>1. Holds(record, CiphersAt(h), Two(h.ciphers))
    BY DEF LaidOut
  <2>2. Uint16(CiphersAt(h)) = h.ciphers
    BY <1>1, <1>3, <2>1, ReadTwo, Zenon
  <2>3. Holds(record, BlockAt(h), Two(EndOf(h) - BlockAt(h) - 2))
    BY DEF LaidOut
  <2>4. Uint16(BlockAt(h)) = EndOf(h) - BlockAt(h) - 2
    BY <1>3, <1>6, <2>3, ReadTwo, Zenon
  <2> QED BY <2>2, <2>4
<1>8. At(38) = h.session /\ At(CompressionAt(h)) = h.compression
  <2>1. Holds(record, 38, <<h.session>>) /\ Holds(record, CompressionAt(h), <<h.compression>>)
    BY DEF LaidOut
  <2>2. 38 \in Nat
    OBVIOUS
  <2> QED BY <1>3, <2>1, <2>2, ReadOne, Zenon
<1>9. At(2) = (EndOf(h) - 4) \div 256 /\ At(3) = (EndOf(h) - 4) % 256
  <2>1. Holds(record, 2, Two(EndOf(h) - 4))
    BY DEF LaidOut
  <2>2. PICK n \in Nat : n = EndOf(h) - 4
    BY <1>6
  <2>3. Holds(record, 2, Two(n))
    BY <2>1, <2>2
  <2>4. At(2) = n \div 256 /\ At(2 + 1) = n % 256
    <3>1. 2 \in Nat
      OBVIOUS
    <3> QED BY <2>3, <3>1, ReadTwoBytes, Zenon
  <2>5. 2 + 1 = 3
    OBVIOUS
  <2> QED BY <2>2, <2>4, <2>5, Zenon
<1>10. At(0) = 1 /\ At(1) = 0
  <2>1. Len(<<1, 0>>) = 2 /\ <<1, 0>>[1] = 1 /\ <<1, 0>>[2] = 0
    OBVIOUS
  <2>2. 2 <= Size /\ record.payload[1] = 1 /\ record.payload[2] = 0
    BY <1>4, <2>1 DEF Holds, Size
  <2>3. Size \in Nat
    BY ReadsAreNat
  <2> QED BY <2>2, <2>3 DEF At
<1>11. uint24(1) = EndOf(h) - 4
  <2>1. uint24(1) = At(1) * 65536 + At(2) * 256 + At(3)
    BY DEF uint24
  <2>2. PICK n \in Nat : n = EndOf(h) - 4
    BY <1>6
  <2>3. (n \div 256) * 256 + (n % 256) = n
    OBVIOUS
  <2> QED BY <1>9, <1>10, <2>1, <2>2, <2>3
<1> QED BY <1>2, <1>3, <1>4, <1>5, <1>7, <1>8, <1>10, <1>11

(* An extension and where the next one starts. *)
LEMMA ExtensionLayout ==
    ASSUME TypeInv, NEW h \in Hellos, LaidOut(record, h), NEW i \in 1..Len(h.extensions)
    PROVE  /\ h.at[i] \in Nat /\ h.at[i + 1] \in Nat /\ h.extensions[i].length \in Nat
           /\ Uint16(h.at[i]) = h.extensions[i].type
           /\ Uint16(h.at[i] + 2) = h.extensions[i].length
           /\ h.at[i + 1] = h.at[i] + 4 + h.extensions[i].length /\ h.at[i + 1] <= EndOf(h)
<1>1. /\ i + 1 \in 1..(Len(h.extensions) + 1) /\ i \in 1..(Len(h.extensions) + 1)
      /\ i + 1 \in 1..Len(h.at)
  BY HelloTypes, HellosAssumption
<1>2. h.at[i] \in Nat /\ h.at[i + 1] \in Nat
      /\ h.extensions[i].type \in Nat /\ h.extensions[i].length \in Nat
  BY <1>1, HelloTypes
<1>3. ExtensionLaidOut(record, h, i) /\ h.at[i + 1] <= EndOf(h)
  BY <1>1 DEF LaidOut
<1>4. /\ Holds(record, h.at[i], Two(h.extensions[i].type))
      /\ Holds(record, h.at[i] + 2, Two(h.extensions[i].length))
      /\ h.at[i + 1] = h.at[i] + 4 + h.extensions[i].length
  BY <1>3 DEF ExtensionLaidOut
<1>5. Uint16(h.at[i]) = h.extensions[i].type
  BY <1>2, <1>4, ReadTwo, Zenon
<1>6. h.at[i] + 2 \in Nat
  BY <1>2
<1>7. Uint16(h.at[i] + 2) = h.extensions[i].length
  BY <1>2, <1>4, <1>6, ReadTwo, Zenon
<1> QED BY <1>2, <1>3, <1>4, <1>5, <1>7

(* The name of a hello is that of its first server_name extension. *)
LEMMA NoName ==
    ASSUME NEW h, \A k \in 1..Len(h.extensions) : h.extensions[k].type # 0
    PROVE  NamesIn(h) = {}
  BY DEF NamesIn

LEMMA TheName ==
    ASSUME NEW h \in Hellos, NEW i \in 1..Len(h.extensions), Leads(h, i), h.extensions[i].type = 0
    PROVE  NamesIn(h) = IF h.extensions[i].entries # <<>> /\ h.extensions[i].entries[1].type = 0
                        THEN {h.extensions[i].entries[1].name} ELSE {}
<1> DEFINE leads(k) == h.extensions[k].type = 0 /\ \A j \in 1..(k - 1) : h.extensions[j].type # 0
           hosts == {k \in 1..Len(h.extensions) : leads(k) /\ h.extensions[k].entries # <<>>
                                                  /\ h.extensions[k].entries[1].type = 0}
<1>1. \A k \in 1..Len(h.extensions) : leads(k) => k = i
  <2> SUFFICES ASSUME NEW k \in 1..Len(h.extensions), leads(k) PROVE k = i
    OBVIOUS
  <2>1. k \in Int /\ i \in Int /\ k >= 1 /\ i >= 1
    BY HelloTypes
  <2>2. ~(i < k)
    <3> SUFFICES ASSUME i < k PROVE FALSE
      OBVIOUS
    <3>1. i \in 1..(k - 1) BY <2>1
    <3> QED BY <3>1
  <2>3. ~(k < i)
    <3> SUFFICES ASSUME k < i PROVE FALSE
      OBVIOUS
    <3>1. k \in 1..(i - 1) BY <2>1
    <3> QED BY <3>1 DEF Leads
  <2> QED BY <2>1, <2>2, <2>3
<1>2. leads(i)
  BY DEF Leads
<1> HIDE DEF leads
<1>3. CASE h.extensions[i].entries # <<>> /\ h.extensions[i].entries[1].type = 0
  <2>1. hosts = {i}
    BY <1>1, <1>2, <1>3
  <2> QED BY <1>3, <2>1 DEF NamesIn, leads
<1>4. CASE ~(h.extensions[i].entries # <<>> /\ h.extensions[i].entries[1].type = 0)
  <2>1. \A k \in hosts : FALSE
    BY <1>1, <1>4
  <2> HIDE DEF hosts
  <2>2. hosts = {}
    BY <2>1
  <2> QED BY <1>4, <2>2 DEF NamesIn, leads, hosts
<1> QED BY <1>3, <1>4

LEMMA SameSequence ==
    ASSUME NEW q \in Seq(Byte), NEW s \in Seq(Byte), Len(q) = Len(s),
           \A k \in 1..Len(s) : q[k] = s[k]
    PROVE  q = s
  OBVIOUS

(* Bytes that a record holds are a part of it. *)
LEMMA HeldIsSubSeq ==
    ASSUME TypeInv, NEW i \in Nat, NEW s \in Seq(Byte), Holds(record, i + 5, s)
    PROVE  SubSeq(record.payload, i + 6, i + 5 + Len(s)) = s
<1>1. PICK p \in Seq(Byte) : p = record.payload
  BY DEF TypeInv
<1>2. PICK m \in Nat : m = i + 5
  OBVIOUS
<1>3. m + Len(s) <= Len(p) /\ \A k \in 1..Len(s) : p[m + k] = s[k]
  BY <1>1, <1>2 DEF Holds
<1>4. SubSeq(p, m + 1, m + Len(s)) = s
  <2> DEFINE q == SubSeq(p, m + 1, m + Len(s))
  <2>1. Len(q) = Len(s) /\ q \in Seq(Byte)
    BY <1>3
  <2>2. ASSUME NEW k \in 1..Len(s) PROVE q[k] = s[k]
    <3>1. q[k] = p[m + k]
      BY <1>3
    <3> QED BY <1>3, <3>1
  <2> HIDE DEF q
  <2>3. q = s
    BY <2>1, <2>2, SameSequence, Zenon
  <2> QED BY <2>3 DEF q
<1>5. i + 6 = m + 1
  BY <1>2
<1> QED BY <1>1, <1>2, <1>4, <1>5, Zenon

(* The list of a server_name extension. *)
EntryRead(e, list, next) ==
    /\ At(list + 2) = e.type /\ Uint16(list + 3) = Len(e.name) /\ Len(e.name) \in Nat
    /\ list + 5 + Len(e.name) <= next
    /\ SubSeq(record.payload, list + 6, list + 5 + Len(e.name)) = e.name

ListRead(entries, list, next) ==
    /\ list + 2 <= next /\ Uint16(list) = next - list - 2
    /\ entries = <<>> => next = list + 2
    /\ entries # <<>> => EntryRead(entries[1], list, next)

LEMMA ListLayout ==
    ASSUME TypeInv, NEW h \in Hellos, LaidOut(record, h), NEW i \in 1..Len(h.extensions),
           h.extensions[i].type = 0
    PROVE  ListRead(h.extensions[i].entries, h.at[i] + 4, h.at[i + 1])
<1> DEFINE ext == h.extensions[i]
<1>1. /\ h.at[i] \in Nat /\ h.at[i + 1] \in Nat /\ ext.length \in Nat
      /\ h.at[i + 1] = h.at[i] + 4 + ext.length
  BY ExtensionLayout
<1>2. ext.entries \in Seq(Entries)
  BY HelloTypes
<1>3. ListLaidOut(record, ext, h.at[i])
  BY DEF LaidOut, ExtensionLaidOut
<1>4. PICK l \in Nat : l = ext.length
  BY <1>1
<1>5. PICK a \in Nat : a = h.at[i]
  BY <1>1
<1> DEFINE list == a + 4
           next == a + 4 + l
<1>6. list \in Nat /\ next \in Nat /\ list = a + 4 /\ next = list + l
  OBVIOUS
<1> HIDE DEF list, next
<1>7. l >= 2 /\ Holds(record, list, Two(l - 2)) /\ (ext.entries = <<>> => l = 2)
  BY <1>3, <1>4, <1>5 DEF ListLaidOut, list
<1>8. Uint16(list) = l - 2
  <2>1. l - 2 \in Nat
    BY <1>7
  <2> QED BY <1>6, <1>7, <2>1, ReadTwo, Zenon
<1>9. list + 2 <= next /\ Uint16(list) = next - list - 2
  <2>1. l >= 2
    BY <1>7
  <2>2. list + 2 <= next /\ next - list - 2 = l - 2
    BY <1>6, <2>1
  <2> QED BY <1>8, <2>2
<1>10. ext.entries = <<>> => next = list + 2
  BY <1>6, <1>7
<1>11. ASSUME ext.entries # <<>>
       PROVE  EntryRead(ext.entries[1], list, next)
  <2>1. 1 \in 1..Len(ext.entries)
    BY <1>2, <1>11
  <2>2. PICK e \in Entries : e = ext.entries[1]
    BY <1>2, <2>1
  <2>3. e.name \in Seq(Byte) /\ Len(e.name) \in Nat
    BY DEF Entries
  <2>4. /\ e.at = h.at[i] + 6
        /\ Holds(record, e.at, <<e.type>>) /\ Holds(record, e.at + 1, Two(Len(e.name)))
        /\ Holds(record, e.at + 3, e.name)
        /\ e.at + 3 + Len(e.name) <= h.at[i] + 4 + ext.length
    BY <1>3, <1>11, <2>1, <2>2 DEF ListLaidOut
  <2>5. PICK n \in Nat : n = Len(e.name)
    BY <2>3
  <2>6. e.at = list + 2 /\ e.at + 1 = list + 3 /\ e.at + 3 = list + 5
    <3>1. e.at = a + 6
      BY <1>5, <2>4
    <3> QED BY <1>6, <3>1
  <2>7. list + 2 \in Nat /\ list + 3 \in Nat /\ list + 5 \in Nat
    <3>1. list \in Nat
      BY <1>6
    <3>2. \A x \in Nat : x + 2 \in Nat /\ x + 3 \in Nat /\ x + 5 \in Nat
      OBVIOUS
    <3> QED BY <3>1, <3>2, Zenon
  <2>8. /\ Holds(record, list + 2, <<e.type>>) /\ Holds(record, list + 3, Two(n))
        /\ Holds(record, list + 5, e.name)
    BY <2>4, <2>5, <2>6, Zenon
  <2>9. At(list + 2) = e.type
    BY <2>7, <2>8, ReadOne, Zenon
  <2>10. Uint16(list + 3) = n
    BY <2>7, <2>8, ReadTwo, Zenon
  <2>11. list + 5 + n <= next
    <3>1. list + 5 + n <= a + 4 + l
      BY <1>4, <1>5, <2>4, <2>5, <2>6, Zenon
    <3> QED BY <1>6, <3>1
  <2>12. SubSeq(record.payload, list + 6, list + 5 + n) = e.name
    BY <1>6, <2>3, <2>5, <2>8, HeldIsSubSeq, Zenon
  <2>13. EntryRead(e, list, next)
    BY <2>3, <2>5, <2>9, <2>10, <2>11, <2>12, Zenon DEF EntryRead
  <2> QED BY <2>2, <2>13
<1>12. ListRead(ext.entries, list, next)
  BY <1>9, <1>10, <1>11, Zenon DEF ListRead
<1>13. list = h.at[i] + 4 /\ next = h.at[i + 1]
  BY <1>1, <1>4, <1>5 DEF list, next
<1> QED BY <1>12, <1>13, Zenon

(* Each step of the parser moves on along the hello. *)
LEMMA HandshakeOnTrack ==
    ASSUME Inv, NEW h \in Hellos, LaidOut(record, h), Handshake
    PROVE  OnTrack(h)'
<1>1. TypeInv /\ EndOf(h) \in Nat
  BY HelloTypes DEF Inv
<1>2. 44 <= EndOf(h) /\ EndOf(h) <= Size /\ uint24(1) = EndOf(h) - 4 /\ At(0) = 1 /\ Size \in Nat
  BY <1>1, HelloLayout, ReadsAreNat
<1>3. ~NotHandshake /\ ~NotClientHello
  BY <1>1, <1>2 DEF NotHandshake, NotClientHello, LaidOut
<1>4. step' = "random" /\ pos' = 4 /\ limit' = 4 + uint24(1)
  BY <1>1, <1>2, <1>3 DEF Handshake
<1>5. limit' = EndOf(h)
  BY <1>1, <1>2, <1>4
<1> QED BY <1>4, <1>5 DEF OnTrack, InHello, InExtensions, InServerName, Answered

LEMMA RandomOnTrack ==
    ASSUME Inv, NEW h \in Hellos, LaidOut(record, h), OnTrack(h), Random
    PROVE  OnTrack(h)'
<1>1. TypeInv /\ EndOf(h) \in Nat /\ pos = 4 /\ limit = EndOf(h)
  BY HelloTypes DEF Inv, Random, OnTrack, InHello
<1>2. 44 <= EndOf(h)
  BY <1>1, HelloLayout
<1>3. step' = "session" /\ pos' = 38 /\ limit' = EndOf(h)
  BY <1>1, <1>2 DEF Random, Advance
<1> QED BY <1>3 DEF OnTrack, InHello, InExtensions, InServerName, Answered

(* A vector that ends inside the slice is passed over. *)
LEMMA VectorPassed ==
    ASSUME Inv, NEW from, NEW width \in {1, 2}, NEW to, Vector(from, width, to),
           NEW n \in Nat, LengthAt(pos, width) = n, pos + width + n <= limit
    PROVE  step' = to /\ pos' = pos + width + n /\ limit' = limit
<1>1. pos \in Nat /\ limit \in Nat
  BY DEF Inv, TypeInv
<1>2. limit >= pos + width /\ limit >= pos + width + n
  BY <1>1
<1> QED BY <1>1, <1>2 DEF Vector, Advance

LEMMA VectorsOnTrack ==
    ASSUME Inv, NEW h \in Hellos, LaidOut(record, h), OnTrack(h),
           \/ Vector("session", 1, "ciphers")
           \/ Vector("ciphers", 2, "compression")
           \/ Vector("compression", 1, "extensions")
    PROVE  OnTrack(h)'
<1>1. /\ TypeInv /\ EndOf(h) \in Nat
      /\ h.session \in Nat /\ h.ciphers \in Nat /\ h.compression \in Nat
  BY HelloTypes DEF Inv
<1>2. /\ At(38) = h.session /\ Uint16(CiphersAt(h)) = h.ciphers
      /\ At(CompressionAt(h)) = h.compression
      /\ BlockAt(h) + 2 <= EndOf(h)
      /\ BlockAt(h) = CompressionAt(h) + 1 + h.compression
      /\ CompressionAt(h) = CiphersAt(h) + 2 + h.ciphers
      /\ CiphersAt(h) = 39 + h.session
      /\ CiphersAt(h) \in Nat /\ CompressionAt(h) \in Nat /\ BlockAt(h) \in Nat
  BY <1>1, HelloLayout
<1>3. CiphersAt(h) <= EndOf(h) /\ CompressionAt(h) <= EndOf(h) /\ BlockAt(h) <= EndOf(h)
  BY <1>1, <1>2
<1>4. CASE Vector("session", 1, "ciphers")
  <2>1. pos = 38 /\ limit = EndOf(h)
    BY <1>4 DEF Vector, OnTrack, InHello
  <2>2. LengthAt(pos, 1) = h.session /\ pos + 1 + h.session = CiphersAt(h)
    BY <1>1, <1>2, <2>1 DEF LengthAt
  <2>3. step' = "ciphers" /\ pos' = CiphersAt(h) /\ limit' = EndOf(h)
    BY <1>1, <1>3, <1>4, <2>1, <2>2, VectorPassed
  <2> QED BY <2>3 DEF OnTrack, InHello, InExtensions, InServerName, Answered, CiphersAt
<1>5. CASE Vector("ciphers", 2, "compression")
  <2>1. pos = CiphersAt(h) /\ limit = EndOf(h)
    BY <1>5 DEF Vector, OnTrack, InHello
  <2>2. LengthAt(pos, 2) = h.ciphers /\ pos + 2 + h.ciphers = CompressionAt(h)
    BY <1>1, <1>2, <2>1 DEF LengthAt
  <2>3. step' = "compression" /\ pos' = CompressionAt(h) /\ limit' = EndOf(h)
    BY <1>1, <1>3, <1>5, <2>1, <2>2, VectorPassed
  <2> QED BY <2>3 DEF OnTrack, InHello, InExtensions, InServerName, Answered
<1>6. CASE Vector("compression", 1, "extensions")
  <2>1. pos = CompressionAt(h) /\ limit = EndOf(h)
    BY <1>6 DEF Vector, OnTrack, InHello
  <2>2. LengthAt(pos, 1) = h.compression /\ pos + 1 + h.compression = BlockAt(h)
    BY <1>1, <1>2, <2>1 DEF LengthAt
  <2>3. step' = "extensions" /\ pos' = BlockAt(h) /\ limit' = EndOf(h)
    BY <1>1, <1>3, <1>6, <2>1, <2>2, VectorPassed
  <2> QED BY <2>3 DEF OnTrack, InHello, InExtensions, InServerName, Answered
<1> QED BY <1>4, <1>5, <1>6

(* A hello whose extensions have no length has none. *)
LEMMA ExtensionsOnTrack ==
    ASSUME Inv, NEW h \in Hellos, LaidOut(record, h), OnTrack(h), Extensions
    PROVE  OnTrack(h)'
<1>1. TypeInv /\ EndOf(h) \in Nat /\ pos = BlockAt(h) /\ limit = EndOf(h) /\ Len(h.extensions) \in Nat
  BY HelloTypes DEF Inv, Extensions, OnTrack, InHello
<1>2. /\ Uint16(pos) = EndOf(h) - pos - 2 /\ pos + 2 = h.at[1] /\ pos + 2 <= EndOf(h)
      /\ pos \in Nat
  BY <1>1, HelloLayout
<1>3. limit >= pos + 2 /\ limit >= pos + 2 + Uint16(pos) /\ pos + 2 + Uint16(pos) = EndOf(h)
  BY <1>1, <1>2
<1>4. CASE Uint16(pos) = 0
  <2>1. EndOf(h) = h.at[1]
    BY <1>1, <1>2, <1>4
  <2>2. Len(h.extensions) = 0
    <3> SUFFICES ASSUME Len(h.extensions) # 0 PROVE FALSE
      OBVIOUS
    <3>1. 1 \in 1..Len(h.extensions)
      BY <1>1
    <3>2. /\ h.at[1] \in Nat /\ h.at[1 + 1] \in Nat /\ h.extensions[1].length \in Nat
          /\ h.at[1 + 1] = h.at[1] + 4 + h.extensions[1].length /\ h.at[1 + 1] <= EndOf(h)
      BY <1>1, <3>1, ExtensionLayout
    <3> QED BY <1>1, <2>1, <3>2
  <2>3. NamesIn(h) = {}
    BY <2>2, NoName
  <2>4. step' = "error"
    BY <1>3, <1>4 DEF Extensions, Reject
  <2> QED BY <2>3, <2>4 DEF OnTrack, InHello, InExtensions, InServerName, Answered
<1>5. CASE Uint16(pos) # 0
  <2>1. step' = "extension" /\ pos' = pos + 2 /\ end' = pos + 2 + Uint16(pos)
    <3>1. limit \in Nat /\ pos \in Nat /\ pos + 2 + Uint16(pos) = limit
      BY <1>1, <1>2, <1>3, Zenon
    <3>2. ~(limit < pos + 2) /\ ~(limit < pos + 2 + Uint16(pos))
      BY <1>3, <3>1
    <3> QED BY <1>5, <3>2, Zenon DEF Extensions
  <2>2. pos' = h.at[1] /\ end' = EndOf(h)
    BY <1>2, <1>3, <2>1
  <2>3. 1 \in 1..(Len(h.extensions) + 1) /\ Leads(h, 1)
    BY <1>1 DEF Leads
  <2>4. InExtensions(h)'
    BY <2>2, <2>3 DEF InExtensions, Leads
  <2> QED BY <2>1, <2>4 DEF OnTrack, InHello, InServerName, Answered
<1> QED BY <1>4, <1>5

(* The loop passes over what is not a server_name and ends with the hello. *)
LEMMA ExtensionOnTrack ==
    ASSUME Inv, NEW h \in Hellos, LaidOut(record, h), OnTrack(h), Extension
    PROVE  OnTrack(h)'
<1>1. TypeInv /\ EndOf(h) \in Nat /\ Len(h.extensions) \in Nat /\ end = EndOf(h) /\ pos \in Nat
  BY HelloTypes DEF Inv, TypeInv, Extension, OnTrack, InExtensions
<1>2. PICK i \in 1..(Len(h.extensions) + 1) : pos = h.at[i] /\ Leads(h, i)
  BY DEF Extension, OnTrack, InExtensions
<1>3. CASE i = Len(h.extensions) + 1
  <2>1. pos = end
    BY <1>1, <1>2, <1>3 DEF EndOf
  <2>2. ~(pos + 4 <= end)
    BY <1>1, <2>1
  <2>3. step' = "error"
    BY <2>2 DEF Extension, Reject
  <2>4. \A k \in 1..Len(h.extensions) : h.extensions[k].type # 0
    BY <1>1, <1>2, <1>3 DEF Leads
  <2>5. NamesIn(h) = {}
    BY <2>4, NoName
  <2> QED BY <2>3, <2>5 DEF OnTrack, InHello, InExtensions, InServerName, Answered
<1>4. CASE i # Len(h.extensions) + 1
  <2>1. i \in 1..Len(h.extensions) /\ i + 1 \in 1..(Len(h.extensions) + 1) /\ i \in Nat
    BY <1>1, <1>4
  <2>2. /\ h.at[i + 1] \in Nat /\ h.extensions[i].length \in Nat
        /\ Uint16(pos) = h.extensions[i].type /\ Uint16(pos + 2) = h.extensions[i].length
        /\ h.at[i + 1] = pos + 4 + h.extensions[i].length /\ h.at[i + 1] <= end
    BY <1>1, <1>2, <2>1, ExtensionLayout
  <2>3. pos + 4 + Uint16(pos + 2) = h.at[i + 1]
    BY <2>2
  <2>4. ~(pos + 4 > end) /\ ~(h.at[i + 1] > end)
    <3>1. PICK l \in Nat : l = h.extensions[i].length
      BY <2>2
    <3>2. PICK next \in Nat : next = h.at[i + 1]
      BY <2>2
    <3>3. next = pos + 4 + l /\ next <= end /\ end \in Nat
      BY <1>1, <2>2, <3>1, <3>2
    <3>4. ~(pos + 4 > end) /\ ~(next > end)
      BY <1>1, <3>3
    <3> QED BY <3>2, <3>4
  <2>5. CASE Uint16(pos) # 0
    <3>1. step' = "extension" /\ pos' = h.at[i + 1] /\ end' = end
      BY <2>3, <2>4, <2>5 DEF Extension, Reject, Advance
    <3>2. Leads(h, i + 1)
      <4> SUFFICES ASSUME NEW j \in 1..i PROVE h.extensions[j].type # 0
        BY <2>1 DEF Leads
      <4>1. CASE j = i BY <2>2, <2>5, <4>1
      <4>2. CASE j # i
        <5>1. j \in 1..(i - 1) BY <2>1, <4>2
        <5> QED BY <1>2, <5>1 DEF Leads
      <4> QED BY <4>1, <4>2
    <3>3. end' = EndOf(h)
      BY <1>1, <3>1
    <3>4. InExtensions(h)'
      BY <2>1, <3>1, <3>2, <3>3 DEF InExtensions, Leads
    <3> QED BY <3>1, <3>4 DEF OnTrack, InHello, InServerName, Answered
  <2>6. CASE Uint16(pos) = 0
    <3>1. step' = "sni" /\ pos' = pos + 4 /\ limit' = h.at[i + 1]
      BY <2>3, <2>4, <2>6 DEF Extension, Reject
    <3>2. pos' = h.at[i] + 4 /\ h.extensions[i].type = 0
      BY <1>2, <2>2, <2>6, <3>1
    <3>3. InServerName(h)'
      BY <1>2, <2>1, <3>1, <3>2 DEF InServerName, Leads
    <3> QED BY <3>1, <3>3 DEF OnTrack, InHello, InExtensions, Answered
  <2> QED BY <2>5, <2>6
<1> QED BY <1>3, <1>4

(* The first entry decides. *)
LEMMA parseSNIOnTrack ==
    ASSUME Inv, NEW h \in Hellos, LaidOut(record, h), OnTrack(h), parseSNI
    PROVE  OnTrack(h)'
<1> DEFINE listLen == Uint16(pos)
           listEnd == pos + 2 + listLen
           noEntry == listLen = 0 \/ limit < listEnd \/ pos + 5 > listEnd
           nameEnd == pos + 5 + Uint16(pos + 3)
<1>1. TypeInv /\ pos \in Nat /\ limit \in Nat
  BY DEF Inv, TypeInv
<1>2. PICK i \in 1..Len(h.extensions) :
          Leads(h, i) /\ h.extensions[i].type = 0 /\ pos = h.at[i] + 4 /\ limit = h.at[i + 1]
  BY DEF parseSNI, OnTrack, InServerName
<1> DEFINE entries == h.extensions[i].entries
<1>3. /\ pos + 2 <= limit /\ Uint16(pos) = limit - pos - 2
      /\ entries = <<>> => limit = pos + 2
      /\ entries # <<>> =>
            /\ At(pos + 2) = entries[1].type /\ Uint16(pos + 3) = Len(entries[1].name)
            /\ Len(entries[1].name) \in Nat /\ pos + 5 + Len(entries[1].name) <= limit
            /\ SubSeq(record.payload, pos + 6, pos + 5 + Len(entries[1].name)) = entries[1].name
  <2>1. ListRead(entries, pos, limit)
    BY <1>1, <1>2, ListLayout, Zenon
  <2> HIDE DEF entries
  <2> QED BY <2>1, Zenon DEF ListRead, EntryRead
<1>4. NamesIn(h) = IF entries # <<>> /\ entries[1].type = 0 THEN {entries[1].name} ELSE {}
  BY <1>2, TheName
<1> HIDE DEF entries
<1>5. listEnd = limit /\ limit >= pos + 2
  BY <1>1, <1>3
<1>6. CASE entries = <<>>
  <2>1. noEntry
    BY <1>1, <1>3, <1>6
  <2>2. step' = "error"
    BY <1>5, <2>1 DEF parseSNI, Reject
  <2>3. NamesIn(h) = {}
    BY <1>4, <1>6
  <2> QED BY <2>2, <2>3 DEF OnTrack, InHello, InExtensions, InServerName, Answered
<1>7. CASE entries # <<>>
  <2>1. PICK n \in Nat : n = Len(entries[1].name)
    BY <1>3, <1>7
  <2>2. /\ At(pos + 2) = entries[1].type /\ Uint16(pos + 3) = n /\ pos + 5 + n <= limit
        /\ SubSeq(record.payload, pos + 6, pos + 5 + n) = entries[1].name
    BY <1>3, <1>7, <2>1
  <2>3. Uint16(pos) # 0 /\ pos + 5 <= limit
    BY <1>1, <1>3, <2>2
  <2>4. ~noEntry
    BY <1>1, <1>5, <2>3
  <2>5. nameEnd = pos + 5 + n /\ nameEnd <= listEnd /\ ~(nameEnd > listEnd) /\ ~(limit < pos + 2)
    BY <1>1, <1>5, <2>2
  <2> HIDE DEF noEntry, nameEnd, listEnd
  <2>6. CASE At(pos + 2) # 0
    <3>1. step' = "error"
      BY <2>4, <2>5, <2>6 DEF parseSNI, Reject, noEntry, listEnd
    <3>2. NamesIn(h) = {}
      BY <1>4, <2>2, <2>6
    <3> QED BY <3>1, <3>2 DEF OnTrack, InHello, InExtensions, InServerName, Answered
  <2>7. CASE At(pos + 2) = 0
    <3>1. step' = "ok" /\ name' = <<pos + 5, nameEnd>> /\ record' = record
      BY <2>4, <2>5, <2>7 DEF parseSNI, Reject, noEntry, nameEnd, listEnd
    <3>2. NamesIn(h) = {SubSeq(record.payload, pos + 6, pos + 5 + n)}
      BY <1>4, <1>7, <2>2, <2>7
    <3>3. name'[1] + 1 = pos + 6 /\ name'[2] = pos + 5 + n
      BY <1>1, <2>5, <3>1
    <3>4. Answered(h)'
      BY <3>1, <3>2, <3>3 DEF Answered
    <3> QED BY <3>1, <3>4 DEF OnTrack, InHello, InExtensions, InServerName
  <2> QED BY <2>6, <2>7
<1> QED BY <1>6, <1>7

(* Before the record is looked at, and when nothing of it is left. *)
LEMMA CallOnTrack ==
    ASSUME NameInv, readRecord \/ Returned
    PROVE  NameInv'
<1>1. CASE readRecord
  BY <1>1 DEF readRecord, NameInv, OnTrack, InHello, InExtensions, InServerName, Answered
<1>2. CASE Returned
  <2>1. step' = "returned"
    BY <1>2 DEF Returned
  <2> QED BY <2>1 DEF NameInv, OnTrack, InHello, InExtensions, InServerName, Answered
<1> QED BY <1>1, <1>2

LEMMA NextOnTrack ==
    ASSUME Inv, NameInv, [ParserNext]_parserVars
    PROVE  NameInv'
<1>1. CASE readRecord \/ Returned
  BY <1>1, CallOnTrack
<1>2. CASE ParseStep
  <2>1. record' = record
    BY <1>2 DEF ParseStep, Handshake, Random, Vector, Extensions, Extension, parseSNI, Reject, Advance
  <2> SUFFICES ASSUME NEW h \in Hellos, LaidOut(record, h) PROVE OnTrack(h)'
    BY <2>1 DEF NameInv
  <2>2. OnTrack(h)
    BY DEF NameInv
  <2> QED BY <1>2, <2>2, HandshakeOnTrack, RandomOnTrack, VectorsOnTrack, ExtensionsOnTrack,
             ExtensionOnTrack, parseSNIOnTrack DEF ParseStep
<1>3. CASE UNCHANGED parserVars
  BY <1>3 DEF parserVars, NameInv, OnTrack, InHello, InExtensions, InServerName, Answered
<1> QED BY <1>1, <1>2, <1>3 DEF ParserNext

(* The name the proxy connects to is the one the client asked for, in every *)
(* hello that is laid out as one, whatever its vectors hold and whichever   *)
(* extensions it carries, in any order; and it refuses only a hello that    *)
(* asks for no name.                                                        *)
THEOREM FindsNameHolds == HSpec => []FindsName
<1>1. NameInv => FindsName
  BY DEF NameInv, OnTrack, Answered, FindsName
<1>2. HInit => Inv
  BY InitInv DEF HInit, ProxyInit
<1>3. HInit => NameInv
  BY DEF HInit, ProxyInit, ParserInit, NameInv, OnTrack, InHello, InExtensions, InServerName, Answered
<1>4. Inv /\ [HNext]_hvars => Inv'
  BY NextKeepsInv, ProxyParses
<1>5. Inv /\ NameInv /\ [HNext]_hvars => NameInv'
  BY NextOnTrack, ProxyParses
<1> QED BY <1>1, <1>2, <1>3, <1>4, <1>5, PTL DEF HSpec

-----------------------------------------------------------------------------
(* Types of a connection's state. *)
ConnType ==
    /\ peer \in [{"client", "server"} -> {"open", "half", "gone"}]
    /\ sent \in [Directions -> Nat] /\ taken \in [Directions -> Nat]
    /\ got \in [Directions -> Seq(Nat)]
    /\ copier \in [Directions -> [pc : {"none", "read", "write", "done"}, left : Nat]]
    /\ quiet \in [Directions -> Nat]

Numbered(d) == \A i \in 1..Len(got[d]) : got[d][i] = i

(* What the proxy has read and not yet passed on: nothing, the hello until  *)
(* it is replayed, or the one chunk in the buffer of a write.               *)
Carried(d) ==
    /\ stage \in {"none", "hello"} => taken[d] = 0 /\ got[d] = <<>>
    /\ stage \in {"parse", "lookup", "dial", "replay"} =>
          got[d] = <<>> /\ taken[d] = IF d = "up" THEN 1 ELSE 0
    /\ In(d, "read") => taken[d] = Len(got[d])
    /\ In(d, "write") => taken[d] = Len(got[d]) + 1

(* The running deadline has what the quiet time leaves of it, and a copy    *)
(* that has ended had a reason to.                                          *)
Timed(d) ==
    /\ Counting(d) => quiet[d] + copier[d].left = IdleTimeout
    /\ In(d, "done") => Over(d)

ConnInv == ConnType /\ \A d \in Directions : Numbered(d) /\ Carried(d) /\ Timed(d)

(* quiet starts over when something moves, and only then. *)
LEMMA QuietStep ==
    ASSUME NEW d \in Directions,
           quiet' = [x \in Directions |->
               IF taken'[x] # taken[x] \/ got'[x] # got[x] \/ stage' # stage THEN 0 ELSE quiet[x]]
    PROVE  /\ taken'[d] = taken[d] /\ got'[d] = got[d] /\ stage' = stage => quiet'[d] = quiet[d]
           /\ taken'[d] # taken[d] \/ got'[d] # got[d] \/ stage' # stage => quiet'[d] = 0
  OBVIOUS

LEMMA InitConn == HInit => ConnInv
<1> SUFFICES ASSUME HInit PROVE ConnInv OBVIOUS
<1>1. \A d \in Directions : got[d] = <<>> /\ <<>> \in Seq(Nat) /\ Len(<<>>) = 0
  BY DEF HInit, ProxyInit
<1>2. ConnType BY <1>1 DEF HInit, ProxyInit, ConnType
<1>3. ASSUME NEW d \in Directions PROVE Numbered(d) /\ Carried(d) /\ Timed(d)
  BY <1>1 DEF HInit, ProxyInit, Numbered, Carried, Timed, Counting, In
<1> QED BY <1>2, <1>3 DEF ConnInv

(* Every step keeps the types. *)
LEMMA NextConnType == ConnInv /\ [HNext]_hvars => ConnType'
<1> SUFFICES ASSUME ConnInv, HNext PROVE ConnType'
  BY DEF ConnInv, ConnType, hvars, vars
<1> USE DEF ConnInv, ConnType
<1>2. IdleTimeout \in Nat /\ 0 \in Nat BY ProxyAssumption
<1>1. quiet' \in [Directions -> Nat]
  <2>1. \A d \in Directions : quiet[d] \in Nat
    OBVIOUS
  <2>2. CASE quiet' = [d \in Directions |->
                 IF taken'[d] # taken[d] \/ got'[d] # got[d] \/ stage' # stage THEN 0 ELSE quiet[d]]
    BY <1>2, <2>1, <2>2
  <2>3. CASE quiet' = [d \in Directions |-> Lower(quiet[d] + 1, IdleTimeout + 1)]
    <3>1. \A d \in Directions : Lower(quiet[d] + 1, IdleTimeout + 1) \in Nat
      BY <1>2, <2>1 DEF Lower
    <3> QED BY <2>3, <3>1
  <2> QED BY <2>2, <2>3 DEF HNext
<1>3. ASSUME NEW d \in Directions, NEW pc \in {"none", "read", "write", "done"}, NEW left \in Nat,
             Become(d, pc, left)
      PROVE  copier' \in [Directions -> [pc : {"none", "read", "write", "done"}, left : Nat]]
  BY <1>3 DEF Become
<1>4. CASE ProxyTick
  <2>1. ASSUME NEW d \in Directions
        PROVE  (IF Counting(d) THEN [copier[d] EXCEPT !.left = @ - 1] ELSE copier[d])
               \in [pc : {"none", "read", "write", "done"}, left : Nat]
    <3>1. CASE Counting(d)
      <4>1. copier[d].left - 1 \in Nat BY <1>4, <3>1 DEF ProxyTick
      <4> QED BY <3>1, <4>1
    <3>2. CASE ~Counting(d) BY <3>2
    <3> QED BY <3>1, <3>2
  <2>2. copier' \in [Directions -> [pc : {"none", "read", "write", "done"}, left : Nat]]
    BY <1>4, <2>1 DEF ProxyTick
  <2> QED BY <1>1, <1>4, <2>2 DEF ProxyTick
<1>5. CASE ProcessStep \/ Accept \/ HandlerReturns
  BY <1>1, <1>5 DEF ProcessStep, connVars, Accept, HandlerReturns, Goto
<1>6. ASSUME NEW d \in Directions, Send(d) PROVE ConnType' BY <1>1, <1>6 DEF Send
<1>7. ASSUME NEW e \in {"client", "server"}, NEW how \in {"half", "gone"}, Leave(e, how)
      PROVE  ConnType'
  BY <1>1, <1>7 DEF Leave
<1>8. CASE Open
  BY <1>1, <1>8 DEF Open, ReadRecord, HelloFails, Parse, connVars, Parsed, LookupHost, Dial, Goto, ReplayFails
<1>9. CASE Replay
  <2>1. <<1>> \in Seq(Nat) OBVIOUS
  <2>2. Copying \in [Directions -> [pc : {"none", "read", "write", "done"}, left : Nat]]
    BY <1>2 DEF Copying
  <2> QED BY <1>1, <1>9, <2>1, <2>2 DEF Replay
<1>10. ASSUME NEW d \in Directions, Transfer(d) PROVE ConnType'
  <2>1. CASE ReadChunk(d) BY <1>1, <1>2, <1>3, <2>1 DEF ReadChunk
  <2>2. CASE ReadEnds(d) \/ CallTimesOut(d) \/ WriteFails(d)
    BY <1>1, <1>2, <1>3, <2>2 DEF ReadEnds, CallTimesOut, WriteFails, Ends
  <2> QED BY <1>10, <2>1, <2>2 DEF Transfer
<1>11. ASSUME NEW d \in Directions, WriteChunk(d) PROVE ConnType'
  <2>1. Append(got[d], taken[d]) \in Seq(Nat) OBVIOUS
  <2> QED BY <1>1, <1>2, <1>3, <1>11, <2>1 DEF WriteChunk
<1> QED BY <1>4, <1>5, <1>6, <1>7, <1>8, <1>9, <1>10, <1>11 DEF HNext, ProxyStep

DirInv(d) == Numbered(d) /\ Carried(d) /\ Timed(d)

(* A step that moves nothing of a direction and lets no end return. *)
LEMMA StillKept ==
    ASSUME ConnInv, NEW d \in Directions, peer' = peer, sent' = sent, stage' = stage,
           taken'[d] = taken[d], got'[d] = got[d], copier'[d] = copier[d], quiet'[d] = quiet[d]
    PROVE  DirInv(d)'
  BY DEF ConnInv, DirInv, Numbered, Carried, Timed, Counting, In, Over

(* Before and after the copying a direction is as it was. *)
LEMMA StageKept ==
    ASSUME ConnInv, NEW d \in Directions, stage' # "copy", got' = got, Carried(d)'
    PROVE  DirInv(d)'
  BY DEF ConnInv, DirInv, Numbered, Timed, Counting, In

(* A direction's own copy ends for one of the reasons of Over. *)
LEMMA EndKept ==
    ASSUME ConnInv, NEW d \in Directions, Ends(d), quiet'[d] = quiet[d], Over(d)
    PROVE  DirInv(d)'
<1>1. copier'[d].pc = "done" BY DEF Ends, Become, ConnInv, ConnType
<1>2. Over(d)' BY DEF Ends, Over
<1>3. Numbered(d)' BY DEF Ends, ConnInv, Numbered
<1>4. Carried(d)' BY <1>1 DEF Ends, ConnInv, Carried, In
<1>5. Timed(d)' BY <1>1, <1>2 DEF Timed, Counting, In
<1> QED BY <1>3, <1>4, <1>5 DEF DirInv

(* Every step keeps what is said of each direction. *)
LEMMA NextDir == ConnInv /\ [HNext]_hvars => \A d \in Directions : DirInv(d)'
<1> SUFFICES ASSUME ConnInv, [HNext]_hvars, NEW d \in Directions PROVE DirInv(d)' OBVIOUS
<1>1. /\ peer \in [{"client", "server"} -> {"open", "half", "gone"}]
      /\ sent \in [Directions -> Nat] /\ taken \in [Directions -> Nat]
      /\ got \in [Directions -> Seq(Nat)]
      /\ copier \in [Directions -> [pc : {"none", "read", "write", "done"}, left : Nat]]
      /\ quiet \in [Directions -> Nat]
  BY DEF ConnInv, ConnType
<1>2. Numbered(d) /\ Carried(d) /\ Timed(d) BY DEF ConnInv
<1>3. CASE UNCHANGED hvars BY <1>3, StillKept DEF hvars, vars
<1>4. CASE ProxyTick /\ quiet' = [x \in Directions |-> Lower(quiet[x] + 1, IdleTimeout + 1)]
  <2>1. CASE Counting(d)
    <3>1. copier'[d] = [copier[d] EXCEPT !.left = @ - 1] /\ copier[d].left > 0
      BY <1>4, <2>1 DEF ProxyTick
    <3>2. copier'[d].pc = copier[d].pc /\ copier'[d].left = copier[d].left - 1 BY <1>1, <3>1
    <3>3. quiet[d] \in Nat /\ copier[d].left \in Nat BY <1>1
    <3>4. quiet[d] + copier[d].left = IdleTimeout BY <1>2, <2>1 DEF Timed
    <3>5. quiet'[d] = quiet[d] + 1 BY <1>4, <3>1, <3>3, <3>4 DEF Lower
    <3>6. quiet'[d] + copier'[d].left = IdleTimeout BY <3>2, <3>3, <3>4, <3>5
    <3>7. copier[d].pc # "done" BY <2>1 DEF Counting, In
    <3>8. Timed(d)' BY <3>2, <3>6, <3>7 DEF Timed, In
    <3>9. Carried(d)' BY <1>2, <1>4, <3>2 DEF Carried, In, ProxyTick
    <3> QED BY <1>2, <1>4, <3>8, <3>9 DEF DirInv, Numbered, ProxyTick
  <2>2. CASE ~Counting(d)
    <3>1. copier'[d] = copier[d] BY <1>4, <2>2 DEF ProxyTick
    <3>2. quiet'[d] = Lower(quiet[d] + 1, IdleTimeout + 1) /\ quiet[d] \in Nat BY <1>1, <1>4
    <3>3. quiet[d] >= IdleTimeout => quiet'[d] >= IdleTimeout BY <3>2, ProxyAssumption DEF Lower
    <3>4. Over(d) => Over(d)' BY <1>4, <3>3 DEF Over, ProxyTick
    <3>5. Timed(d)' BY <1>2, <1>4, <2>2, <3>1, <3>4 DEF Timed, Counting, In, ProxyTick
    <3>6. Carried(d)' BY <1>2, <1>4, <3>1 DEF Carried, In, ProxyTick
    <3> QED BY <1>2, <1>4, <3>5, <3>6 DEF DirInv, Numbered, ProxyTick
  <2> QED BY <2>1, <2>2
<1>5. CASE ProxyStep /\ quiet' = [x \in Directions |->
              IF taken'[x] # taken[x] \/ got'[x] # got[x] \/ stage' # stage THEN 0 ELSE quiet[x]]
  <2>1. /\ taken'[d] = taken[d] /\ got'[d] = got[d] /\ stage' = stage => quiet'[d] = quiet[d]
        /\ taken'[d] # taken[d] \/ got'[d] # got[d] \/ stage' # stage => quiet'[d] = 0
    BY <1>5, QuietStep
  <2>2. CASE ProcessStep \/ Parse BY <2>1, <2>2, StillKept DEF ProcessStep, Parse, connVars
  <2>3. CASE Accept \/ HandlerReturns \/ HelloFails \/ Parsed \/ LookupHost \/ Dial \/ ReplayFails
    <3>1. got' = got /\ stage' # "copy" /\ taken' = taken
      BY <2>3 DEF Accept, HandlerReturns, HelloFails, Parsed, LookupHost, Dial, ReplayFails, Goto
    <3>2. Carried(d)'
      BY <1>2, <2>3, <3>1 DEF Carried, In, Accept, HandlerReturns, HelloFails, Parsed, LookupHost, Dial,
                              ReplayFails, Goto
    <3> QED BY <3>1, <3>2, StageKept
  <2>4. CASE ReadRecord
    <3>1. Carried(d)' BY <1>1, <1>2, <2>4 DEF Carried, In, ReadRecord, Directions
    <3> QED BY <2>4, <3>1, StageKept DEF ReadRecord
  <2>5. ASSUME NEW x \in Directions, Send(x) PROVE DirInv(d)'
    <3>1. quiet'[d] = quiet[d] BY <2>1, <2>5 DEF Send
    <3>2. In(d, "done") => Over(d)'
      BY <1>1, <1>2, <2>5, <3>1 DEF Timed, Over, Send, Source, Directions
    <3>3. Timed(d)' BY <1>2, <2>5, <3>1, <3>2 DEF Timed, Counting, In, Send
    <3> QED BY <1>2, <2>5, <3>3 DEF DirInv, Numbered, Carried, In, Send
  <2>6. ASSUME NEW e \in {"client", "server"}, NEW how \in {"half", "gone"}, Leave(e, how)
        PROVE  DirInv(d)'
    <3>1. quiet'[d] = quiet[d] BY <2>1, <2>6 DEF Leave
    <3>2. In(d, "done") => Over(d)'
      BY <1>1, <1>2, <2>6, <3>1 DEF Timed, Over, Leave, Source
    <3>3. Timed(d)' BY <1>2, <2>6, <3>1, <3>2 DEF Timed, Counting, In, Leave
    <3> QED BY <1>2, <2>6, <3>3 DEF DirInv, Numbered, Carried, In, Leave
  <2>7. CASE Replay
    <3>1. copier'[d] = [pc |-> "read", left |-> IdleTimeout] BY <2>7 DEF Replay, Copying
    <3>2. quiet'[d] = 0 BY <2>1, <2>7 DEF Replay
    <3>3. Timed(d)' BY <3>1, <3>2, ProxyAssumption DEF Timed, In
    <3>4. got'[d] = IF d = "up" THEN <<1>> ELSE <<>>
      BY <1>1, <1>2, <2>7 DEF Replay, Carried
    <3>5. Len(<<1>>) = 1 /\ <<1>>[1] = 1 /\ Len(<<>>) = 0 OBVIOUS
    <3>6. Numbered(d)' BY <3>4, <3>5 DEF Numbered
    <3>7. taken'[d] = Len(got'[d]) BY <1>2, <2>7, <3>4, <3>5 DEF Replay, Carried
    <3>8. Carried(d)' BY <2>7, <3>1, <3>7 DEF Replay, Carried, In
    <3> QED BY <3>3, <3>6, <3>8 DEF DirInv
  <2>8. ASSUME NEW x \in Directions, x # d, Transfer(x) \/ WriteChunk(x) PROVE DirInv(d)'
    <3>1. taken'[d] = taken[d] /\ got'[d] = got[d] /\ copier'[d] = copier[d]
          /\ stage' = stage /\ peer' = peer /\ sent' = sent
      BY <1>1, <2>8 DEF Transfer, ReadChunk, ReadEnds, CallTimesOut, WriteFails, Ends, WriteChunk, Become
    <3> QED BY <2>1, <3>1, StillKept
  <2>9. CASE ReadChunk(d)
    <3>1. taken'[d] = taken[d] + 1 /\ taken[d] \in Nat BY <1>1, <2>9 DEF ReadChunk
    <3>2. quiet'[d] = 0 BY <2>1, <3>1
    <3>3. copier'[d] = [pc |-> "write", left |-> IdleTimeout] BY <1>1, <2>9 DEF ReadChunk, Become
    <3>4. Timed(d)' BY <3>2, <3>3, ProxyAssumption DEF Timed, In
    <3>5. Carried(d)' BY <1>2, <2>9, <3>1, <3>3 DEF ReadChunk, Carried, In
    <3> QED BY <1>2, <2>9, <3>4, <3>5 DEF DirInv, Numbered, ReadChunk
  <2>10. CASE WriteChunk(d)
    <3>1. PICK s \in Seq(Nat) : s = got[d] BY <1>1
    <3>2. PICK n \in Nat : n = Len(s) /\ taken[d] = n + 1
      BY <1>2, <2>10, <3>1 DEF WriteChunk, Carried, In
    <3>3. got'[d] = Append(s, n + 1) /\ taken'[d] = n + 1
      BY <1>1, <2>10, <3>1, <3>2 DEF WriteChunk
    <3>4. Len(Append(s, n + 1)) = n + 1 /\ Append(s, n + 1)[n + 1] = n + 1
          /\ \A i \in 1..n : Append(s, n + 1)[i] = s[i]
      BY <3>2
    <3>5. \A i \in 1..n : s[i] = i BY <1>2, <3>1, <3>2 DEF Numbered
    <3>6. \A i \in 1..(n + 1) : Append(s, n + 1)[i] = i
      <4> SUFFICES ASSUME NEW i \in 1..(n + 1) PROVE Append(s, n + 1)[i] = i OBVIOUS
      <4>1. CASE i = n + 1 BY <3>4, <4>1
      <4>2. CASE i # n + 1
        <5>1. i \in 1..n BY <4>2
        <5> QED BY <3>4, <3>5, <5>1
      <4> QED BY <4>1, <4>2
    <3>7. Numbered(d)' BY <3>3, <3>4, <3>6 DEF Numbered
    <3>8. got'[d] # got[d] BY <3>1, <3>2, <3>3, <3>4
    <3>9. quiet'[d] = 0 BY <2>1, <3>8
    <3>10. copier'[d] = [pc |-> "read", left |-> IdleTimeout] BY <1>1, <2>10 DEF WriteChunk, Become
    <3>11. Timed(d)' BY <3>9, <3>10, ProxyAssumption DEF Timed, In
    <3>12. stage' = "copy" /\ Len(got'[d]) = taken'[d] BY <2>10, <3>3, <3>4 DEF WriteChunk, In
    <3>13. Carried(d)' BY <3>10, <3>12 DEF Carried, In
    <3> QED BY <3>7, <3>11, <3>13 DEF DirInv
  <2>11. CASE ReadEnds(d) \/ CallTimesOut(d) \/ WriteFails(d)
    <3>1. Ends(d) BY <2>11 DEF ReadEnds, CallTimesOut, WriteFails
    <3>2. quiet'[d] = quiet[d] BY <2>1, <3>1 DEF Ends
    <3>3. ReadEnds(d) => Over(d) BY <1>2 DEF ReadEnds, Carried, Over, Source
    <3>4. CallTimesOut(d) => Over(d)
      <4> SUFFICES ASSUME CallTimesOut(d) PROVE quiet[d] >= IdleTimeout BY DEF Over
      <4>1. quiet[d] + copier[d].left = IdleTimeout /\ copier[d].left = 0
        BY <1>2 DEF CallTimesOut, Timed, Counting
      <4> QED BY <1>1, <4>1, ProxyAssumption
    <3>5. WriteFails(d) => Over(d) BY DEF WriteFails, Over, Target
    <3> QED BY <2>11, <3>1, <3>2, <3>3, <3>4, <3>5, EndKept
  <2> QED BY <1>5, <2>2, <2>3, <2>4, <2>5, <2>6, <2>7, <2>8, <2>9, <2>10, <2>11
          DEF ProxyStep, Open, Transfer
<1> QED BY <1>3, <1>4, <1>5 DEF HNext

LEMMA NextConn == ConnInv /\ [HNext]_hvars => ConnInv'
  BY NextConnType, NextDir DEF ConnInv, DirInv

(* The hello is replayed first, then come the copied chunks: neither end    *)
(* misses, repeats or reorders anything the other sent, and a copy that is  *)
(* waiting for data holds none back.                                        *)
THEOREM InOrderHolds == HSpec => []InOrder
<1>1. ConnInv => InOrder
  <2> SUFFICES ASSUME ConnInv, NEW d \in Directions
               PROVE  /\ got[d] = [i \in DOMAIN got[d] |-> i]
                      /\ In(d, "read") => Len(got[d]) = taken[d]
    BY DEF InOrder
  <2>1. got[d] \in Seq(Nat) /\ \A i \in 1..Len(got[d]) : got[d][i] = i
    BY DEF ConnInv, ConnType, Numbered
  <2>2. got[d] = [i \in 1..Len(got[d]) |-> i]
    <3> DEFINE s == got[d]
    <3>1. s \in Seq(Nat) /\ \A i \in 1..Len(s) : s[i] = i BY <2>1
    <3> HIDE DEF s
    <3>2. s = [i \in 1..Len(s) |-> i] BY <3>1
    <3> QED BY <3>2 DEF s
  <2>3. DOMAIN got[d] = 1..Len(got[d]) BY <2>1
  <2>4. In(d, "read") => Len(got[d]) = taken[d] BY DEF ConnInv, Carried
  <2> QED BY <2>2, <2>3, <2>4
<1> QED BY <1>1, InitConn, NextConn, PTL DEF HSpec

(* A read or a write that waits is given up when the idle timeout is over:  *)
(* the deadline is set anew for each of them.                               *)
THEOREM IdleBoundHolds == HSpec => []IdleBound
<1>1. ConnInv => IdleBound
  <2> SUFFICES ASSUME ConnInv, NEW d \in Directions, Counting(d) PROVE quiet[d] <= IdleTimeout
    BY DEF IdleBound
  <2>1. quiet[d] \in Nat /\ copier[d].left \in Nat BY DEF ConnInv, ConnType
  <2>2. quiet[d] + copier[d].left = IdleTimeout BY DEF ConnInv, Timed
  <2> QED BY <2>1, <2>2
<1> QED BY <1>1, InitConn, NextConn, PTL DEF HSpec

(* A connection is closed only when both of its directions are over: one    *)
(* that is still in use is not cut off because the other has ended.         *)
THEOREM ClosedWhenOverHolds == HSpec => ClosedWhenOver
<1>1. ConnInv /\ [HNext]_hvars =>
          [stage = "copy" /\ stage' = "closed" => \A d \in Directions : Over(d)]_hvars
  <2> SUFFICES ASSUME ConnInv, HNext, stage = "copy", stage' = "closed", NEW d \in Directions
               PROVE  Over(d)
    OBVIOUS
  <2>1. HandlerReturns
    BY DEF HNext, ProxyStep, ProxyTick, ProcessStep, connVars, Accept, Send, Leave, Open, ReadRecord,
           HelloFails, Parse, Parsed, LookupHost, Dial, Goto, ReplayFails, Replay, Transfer, ReadChunk,
           ReadEnds, CallTimesOut, WriteFails, Ends, WriteChunk
  <2>2. In(d, "done") BY <2>1 DEF HandlerReturns, In
  <2> QED BY <2>2 DEF ConnInv, Timed
<1> QED BY <1>1, InitConn, NextConn, PTL DEF HSpec, ClosedWhenOver
=============================================================================
