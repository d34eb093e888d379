-------------------------- MODULE ClientHelloLayout --------------------------
(***************************************************************************)
(* What a ClientHello looks like on the wire, as RFC 8446 and RFC 6066     *)
(* order its fields, and the name it asks for: the reference the parser is *)
(* checked against.  A hello is the lengths of its vectors, its extensions *)
(* and where these start; what the vectors and the other extensions hold   *)
(* is left open.                                                           *)
(***************************************************************************)
EXTENDS ClientHello

CONSTANT Hellos   \* well-formed hellos

(* An entry of a server_name list, and an extension: entries is what one of *)
(* type 0 lists, length that of its data.                                   *)
Entries == [at : Nat, type : Byte, name : Seq(Byte)]
ExtensionKinds == [type : Nat, length : Nat, entries : Seq(Entries)]

(* at[i] is where the i-th extension starts, the last one the hello's end. *)
ASSUME HellosAssumption ==
    /\ Hellos \subseteq [session : Nat, ciphers : Nat, compression : Nat,
                         extensions : Seq(ExtensionKinds), at : Seq(Nat)]
    /\ \A h \in Hellos : Len(h.at) = Len(h.extensions) + 1

Two(n) == <<n \div 256, n % 256>>

(* The bytes of record r from position i on. *)
Holds(r, i, bytes) ==
    /\ i + Len(bytes) <= Len(r.payload)
    /\ \A k \in 1..Len(bytes) : r.payload[i + k] = bytes[k]

CiphersAt(h) == 39 + h.session
CompressionAt(h) == CiphersAt(h) + 2 + h.ciphers
BlockAt(h) == CompressionAt(h) + 1 + h.compression
EndOf(h) == h.at[Len(h.extensions) + 1]

(* The list of a server_name extension at position i: its length, then one  *)
(* entry behind the other, all of them inside the extension.                *)
ListLaidOut(r, ext, i) ==
    /\ ext.length >= 2 /\ Holds(r, i + 4, Two(ext.length - 2))
    /\ ext.entries = <<>> => ext.length = 2
    /\ ext.entries # <<>> => ext.entries[1].at = i + 6
    /\ \A k \in 1..Len(ext.entries) :
          LET e == ext.entries[k]
              behind == e.at + 3 + Len(e.name)
          IN  /\ Holds(r, e.at, <<e.type>>) /\ Holds(r, e.at + 1, Two(Len(e.name)))
              /\ Holds(r, e.at + 3, e.name)
              /\ behind <= i + 4 + ext.length
              /\ behind = IF k < Len(ext.entries) THEN ext.entries[k + 1].at ELSE i + 4 + ext.length

ExtensionLaidOut(r, h, k) ==
    LET ext == h.extensions[k]
    IN  /\ Holds(r, h.at[k], Two(ext.type)) /\ Holds(r, h.at[k] + 2, Two(ext.length))
        /\ h.at[k + 1] = h.at[k] + 4 + ext.length
        /\ ext.type = 0 => ListLaidOut(r, ext, h.at[k])

(* Record r is a handshake record with hello h in it. *)
LaidOut(r, h) ==
    /\ r.type = 22 /\ Holds(r, 0, <<1, 0>>) /\ Holds(r, 2, Two(EndOf(h) - 4))
    /\ Holds(r, 38, <<h.session>>) /\ Holds(r, CiphersAt(h), Two(h.ciphers))
    /\ Holds(r, CompressionAt(h), <<h.compression>>)
    /\ Holds(r, BlockAt(h), Two(EndOf(h) - BlockAt(h) - 2))
    /\ h.at[1] = BlockAt(h) + 2
    /\ EndOf(h) <= Len(r.payload) /\ \A k \in 1..Len(h.at) : h.at[k] <= EndOf(h)
    /\ \A k \in 1..Len(h.extensions) : ExtensionLaidOut(r, h, k)

(* The names a hello asks for: the host name that leads its first           *)
(* server_name extension, if there is one.                                  *)
NamesIn(h) ==
    LET leads(k) == h.extensions[k].type = 0 /\ \A j \in 1..(k - 1) : h.extensions[j].type # 0
        hosts == {k \in 1..Len(h.extensions) : leads(k) /\ h.extensions[k].entries # <<>>
                                               /\ h.extensions[k].entries[1].type = 0}
    IN  {h.extensions[k].entries[1].name : k \in hosts}

(* Whatever else a hello carries and in which order, the name the proxy     *)
(* connects to is the one the client asked for, and only a hello that asks  *)
(* for none is refused.                                                     *)
FindsName ==
    \A h \in Hellos : LaidOut(record, h) =>
        /\ step = "ok" => NamesIn(h) = {SubSeq(record.payload, name[1] + 1, name[2])}
        /\ step = "error" => NamesIn(h) = {}
=============================================================================
