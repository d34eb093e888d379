---------------------------- MODULE MCSniProxy ----------------------------
(* One connection for TLC.  Hellos with and without a session ID, other     *)
(* extensions before or after the name, and no name, written byte by byte   *)
(* as a client does; then two of them cut short, and with one of their      *)
(* bytes replaced.                                                          *)
EXTENDS SniProxyProps, ClientHelloLayout, SequencesExt

(* session, ciphers and compression are byte strings, extensions a sequence *)
(* of extensions; one of type 0 holds entries <<name type, name>>.          *)
Counted1(bytes) == <<Len(bytes)>> \o bytes
Counted2(bytes) == Two(Len(bytes)) \o bytes

EntryBytes(entry) == <<entry[1]>> \o Counted2(entry[2])
ListBytes(entries) == Counted2(FlattenSeq([i \in DOMAIN entries |-> EntryBytes(entries[i])]))
DataBytes(ext) == IF ext.type = 0 THEN ListBytes(ext.entries) ELSE ext.data
ExtensionBytes(ext) == Two(ext.type) \o Counted2(DataBytes(ext))
BlockBytes(exts) == FlattenSeq([i \in DOMAIN exts |-> ExtensionBytes(exts[i])])

VectorBytes(hello) ==
    [i \in 1..34 |-> 3] \o Counted1(hello.session) \o Counted2(hello.ciphers) \o Counted1(hello.compression)

HelloBody(hello) == VectorBytes(hello) \o Counted2(BlockBytes(hello.extensions))

ClientHelloBytes(body) == <<1, 0>> \o Two(Len(body)) \o body

Written(hello) == [type |-> 22, payload |-> ClientHelloBytes(HelloBody(hello))]

(* Where the writer has put things. *)
Layout(hello) ==
    LET exts == hello.extensions
        start == 6 + Len(VectorBytes(hello))
        at == [i \in 1..(Len(exts) + 1) |-> start + Len(BlockBytes(SubSeq(exts, 1, i - 1)))]
        listed(i) ==
            [k \in DOMAIN exts[i].entries |->
                [at |-> at[i] + 4 + Len(ListBytes(SubSeq(exts[i].entries, 1, k - 1))),
                 type |-> exts[i].entries[k][1], name |-> exts[i].entries[k][2]]]
    IN  [session |-> Len(hello.session), ciphers |-> Len(hello.ciphers),
         compression |-> Len(hello.compression), at |-> at,
         extensions |-> [i \in DOMAIN exts |->
             [type |-> exts[i].type, length |-> Len(DataBytes(exts[i])),
              entries |-> IF exts[i].type = 0 THEN listed(i) ELSE <<>>]]]

-----------------------------------------------------------------------------
SniExtension(type, host) == [type |-> 0, entries |-> <<<<type, host>>>>]
OtherExtension == [type |-> 16, data |-> <<7>>]

ExtensionLists ==
    { <<>>, <<OtherExtension>>,
      <<SniExtension(0, <<97>>)>>, <<SniExtension(1, <<97>>)>>,
      <<OtherExtension, SniExtension(0, <<97, 98>>)>>,
      <<SniExtension(0, <<>>), OtherExtension>>,
      <<[type |-> 0, entries |-> <<>>]>>,
      <<[type |-> 0, entries |-> <<<<0, <<97>>>>, <<1, <<98>>>>>>]>> }

Hello(vector, list) ==
    [session |-> vector, ciphers |-> vector \o vector, compression |-> vector, extensions |-> list]

Sent ==
    {Hello(<<5>>, list) : list \in ExtensionLists}
        \cup {Hello(<<>>, <<SniExtension(0, <<97>>)>>)}

MCHellos == {Layout(hello) : hello \in Sent}

(* The reference describes what a client writes. *)
ASSUME WriterAssumption == \A hello \in Sent : LaidOut(Written(hello), Layout(hello))

Damaged == {Hello(<<5>>, <<OtherExtension, SniExtension(0, <<97>>)>>), Hello(<<>>, <<SniExtension(0, <<97>>)>>)}

(* The first bytes, and those after version and random. *)
Places(payload) == {i \in DOMAIN payload : i <= 4 \/ i > 38}

CutShort(hello) ==
    {ClientHelloBytes(SubSeq(HelloBody(hello), 1, n)) : n \in {0, 1} \cup 33..Len(HelloBody(hello))}
        \cup {SubSeq(ClientHelloBytes(HelloBody(hello)), 1, n) : n \in {0, 1, 3, 4, 40}}

Replaced(hello) ==
    LET payload == ClientHelloBytes(HelloBody(hello))
    IN  {[payload EXCEPT ![i] = b] : i \in Places(payload), b \in {0, 1, 2, 4, 255}}

MCRecords ==
    {Written(hello) : hello \in Sent}
        \cup [type : {22}, payload : UNION {CutShort(h) \cup Replaced(h) : h \in Damaged}]
        \cup {[type |-> 23, payload |-> <<1>>]}
=============================================================================
