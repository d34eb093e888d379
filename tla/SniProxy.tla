------------------------------ MODULE SniProxy ------------------------------
(***************************************************************************)
(* cmd/sniproxy: one proxied connection and the process around it.         *)
(* handleConn reads the ClientHello, resolves and dials the name in it,    *)
(* replays the hello and runs two copy loops, one per direction, until     *)
(* both have ended.  Connections share nothing but the process.            *)
(*                                                                         *)
(* Bytes travel in numbered chunks; the first one of the client is its     *)
(* hello.  left counts down the deadline of the call a goroutine is in.    *)
(***************************************************************************)
EXTENDS ClientHello

CONSTANTS
    ReadTimeout,   \* readTimeout, in ticks
    IdleTimeout,   \* idleTimeout, in ticks
    MaxChunks      \* bound: chunks an end sends

ASSUME ProxyAssumption ==
    ReadTimeout \in Nat \ {0} /\ IdleTimeout \in Nat \ {0} /\ MaxChunks \in Nat \ {0}

VARIABLES
    process,   \* main and the accept loop
    stage,     \* handleConn: none, hello, parse, lookup, dial, replay, copy, closed
    helloLeft, \* the read deadline of the hello
    peer,      \* the two ends: open, half (they will send no more), gone
    sent,      \* chunks each direction's source has sent
    taken,     \* chunks the proxy has read
    got,       \* chunks the destination has received
    copier     \* the two transfer goroutines

connVars == <<stage, helloLeft, peer, sent, taken, got, copier>>
vars == <<parserVars, process, stage, helloLeft, peer, sent, taken, got, copier>>

Directions == {"up", "down"}
Source(d) == IF d = "up" THEN "client" ELSE "server"
Target(d) == IF d = "up" THEN "server" ELSE "client"

ProxyInit ==
    /\ ParserInit
    /\ process \in {"serving", "unbound"}
    /\ stage = "none" /\ helloLeft = 0
    /\ peer = [e \in {"client", "server"} |-> "open"]
    /\ sent = [d \in Directions |-> 0]
    /\ taken = [d \in Directions |-> 0]
    /\ got = [d \in Directions |-> <<>>]
    /\ copier = [d \in Directions |-> [pc |-> "none", left |-> 0]]

-----------------------------------------------------------------------------
(* main and ListenAndServe.  main waits for the accept loop and for nothing *)
(* else; its return ends every connection.                                  *)

(* Signal and cancel, the closed listener, the end.  A proxy that could not *)
(* listen waits for the signal all the same.                                *)
ProcessStep ==
    /\ \/ process = "serving" /\ process' = "cancelled"
       \/ process = "cancelled" /\ process' = "closing"
       \/ process \in {"closing", "unbound"} /\ process' = "exited"
    /\ UNCHANGED <<parserVars, connVars>>

(* A connection may still be accepted between cancel and Close. *)
Accept ==
    /\ process \in {"serving", "cancelled"}
    /\ stage = "none"
    /\ stage' = "hello" /\ helloLeft' = ReadTimeout
    /\ UNCHANGED <<parserVars, process, peer, sent, taken, got, copier>>

-----------------------------------------------------------------------------
(* The two ends.  The code has no limit to what an end may send; nothing    *)
(* may be concluded from MaxChunks.                                         *)
Send(d) ==
    /\ stage \notin {"none", "closed"}
    /\ d = "down" => stage \in {"replay", "copy"}
    /\ peer[Source(d)] = "open"
    /\ sent[d] < MaxChunks
    /\ sent' = [sent EXCEPT ![d] = @ + 1]
    /\ UNCHANGED <<parserVars, process, stage, helloLeft, peer, taken, got, copier>>

Leave(e, how) ==
    /\ stage \notin {"none", "closed"}
    /\ e = "server" => stage \in {"replay", "copy"}
    /\ peer[e] # "gone" /\ peer[e] # how
    /\ peer' = [peer EXCEPT ![e] = how]
    /\ UNCHANGED <<parserVars, process, stage, helloLeft, sent, taken, got, copier>>

-----------------------------------------------------------------------------
(* handleConn up to the copying. *)

(* readRecord reads exactly the record, under the deadline. *)
ReadRecord ==
    /\ stage = "hello"
    /\ sent["up"] > 0
    /\ readRecord
    /\ stage' = "parse" /\ helloLeft' = 0
    /\ taken' = [taken EXCEPT !["up"] = 1]
    /\ UNCHANGED <<process, peer, sent, got, copier>>

(* The deadline passes, or the client leaves, before the record is there.  *)
HelloFails ==
    /\ stage = "hello"
    /\ \/ helloLeft = 0
       \/ peer["client"] = "half" /\ sent["up"] = 0
       \/ peer["client"] = "gone"
    /\ stage' = "closed"
    /\ UNCHANGED <<parserVars, process, helloLeft, peer, sent, taken, got, copier>>

Parse ==
    /\ stage = "parse"
    /\ ParseStep
    /\ UNCHANGED <<process, connVars>>

Parsed ==
    /\ stage = "parse"
    /\ stage' = IF step = "ok" THEN "lookup" ELSE "closed"
    /\ Returned
    /\ UNCHANGED <<process, helloLeft, peer, sent, taken, got, copier>>

Goto(from, to) ==
    /\ stage = from /\ stage' = to
    /\ UNCHANGED <<parserVars, process, helloLeft, peer, sent, taken, got, copier>>

(* LookupHost and DialContext end, one way or the other. *)
LookupHost == Goto("lookup", "dial") \/ Goto("lookup", "closed")
Dial == Goto("dial", "replay") \/ Goto("dial", "closed")

Copying == [d \in Directions |-> [pc |-> "read", left |-> IdleTimeout]]

\* A mistake: the hello is not replayed.
ReplayNothing ==
    /\ stage = "replay"
    /\ peer["server"] # "gone"
    /\ stage' = "copy" /\ copier' = Copying
    /\ UNCHANGED <<parserVars, process, helloLeft, peer, sent, taken, got>>

(* upstream.Write(clientHello), without a deadline, then the two copies. *)
Replay ==
    /\ stage = "replay"
    /\ peer["server"] # "gone"
    /\ got' = [got EXCEPT !["up"] = <<1>>]
    /\ stage' = "copy" /\ copier' = Copying
    /\ UNCHANGED <<parserVars, process, helloLeft, peer, sent, taken>>

ReplayFails ==
    /\ peer["server"] = "gone"
    /\ Goto("replay", "closed")

-----------------------------------------------------------------------------
(* transfer. *)
In(d, pc) == stage = "copy" /\ copier[d].pc = pc

Become(d, pc, left) == copier' = [copier EXCEPT ![d] = [pc |-> pc, left |-> left]]

Ends(d) ==
    /\ Become(d, "done", 0)
    /\ UNCHANGED <<parserVars, process, stage, helloLeft, peer, sent, taken, got>>

\* A mistake: the write has no deadline of its own (a deadline out of reach).
ReadChunkNoDeadline(d) ==
    /\ In(d, "read")
    /\ sent[d] > taken[d]
    /\ taken' = [taken EXCEPT ![d] = @ + 1]
    /\ Become(d, "write", 3 * IdleTimeout)
    /\ UNCHANGED <<parserVars, process, stage, helloLeft, peer, sent, got>>

(* Read returns data; the write gets a deadline of its own. *)
ReadChunk(d) ==
    /\ In(d, "read")
    /\ sent[d] > taken[d]
    /\ taken' = [taken EXCEPT ![d] = @ + 1]
    /\ Become(d, "write", IdleTimeout)
    /\ UNCHANGED <<parserVars, process, stage, helloLeft, peer, sent, got>>

(* End of file once all is read, or a reset at any time. *)
ReadEnds(d) ==
    /\ In(d, "read")
    /\ \/ peer[Source(d)] = "half" /\ sent[d] = taken[d]
       \/ peer[Source(d)] = "gone"
    /\ Ends(d)

\* A mistake: a timeout is no reason to stop.
CallTimesOutRetries(d) ==
    /\ In(d, "read") \/ In(d, "write")
    /\ copier[d].left = 0
    /\ Become(d, copier[d].pc, IdleTimeout)
    /\ UNCHANGED <<parserVars, process, stage, helloLeft, peer, sent, taken, got>>

(* The deadline of the read or of the write passes. *)
CallTimesOut(d) ==
    /\ In(d, "read") \/ In(d, "write")
    /\ copier[d].left = 0
    /\ Ends(d)

\* A mistake: the read deadline is set once, before the loop.
WriteChunkKeepsDeadline(d) ==
    /\ In(d, "write")
    /\ peer[Target(d)] # "gone"
    /\ got' = [got EXCEPT ![d] = Append(@, taken[d])]
    /\ Become(d, "read", copier[d].left)
    /\ UNCHANGED <<parserVars, process, stage, helloLeft, peer, sent, taken>>

(* Write takes the chunk, and the loop sets a new read deadline.  This      *)
(* waits for the peer to make room.                                         *)
WriteChunk(d) ==
    /\ In(d, "write")
    /\ peer[Target(d)] # "gone"
    /\ got' = [got EXCEPT ![d] = Append(@, taken[d])]
    /\ Become(d, "read", IdleTimeout)
    /\ UNCHANGED <<parserVars, process, stage, helloLeft, peer, sent, taken>>

WriteFails(d) ==
    /\ In(d, "write")
    /\ peer[Target(d)] = "gone"
    /\ Ends(d)

\* A mistake: handleConn waits for one direction only, as with wg.Add(1).
HandlerReturnsEarly ==
    /\ \E d \in Directions : copier[d].pc = "done"
    /\ Goto("copy", "closed")

(* wg.Wait returns; both connections are closed. *)
HandlerReturns ==
    /\ \A d \in Directions : copier[d].pc = "done"
    /\ Goto("copy", "closed")

-----------------------------------------------------------------------------
(* Time passes while no deadline is due and nothing is being computed. *)
Counting(d) == In(d, "read") \/ In(d, "write")

ProxyTick ==
    /\ (stage = "hello" /\ helloLeft > 0) \/ \E d \in Directions : Counting(d)
    /\ \A d \in Directions : Counting(d) => copier[d].left > 0
    /\ helloLeft' = IF stage = "hello" THEN helloLeft - 1 ELSE helloLeft
    /\ copier' = [d \in Directions |->
           IF Counting(d) THEN [copier[d] EXCEPT !.left = @ - 1] ELSE copier[d]]
    /\ UNCHANGED <<parserVars, process, stage, peer, sent, taken, got>>

Open == ReadRecord \/ HelloFails \/ Parse \/ Parsed \/ LookupHost \/ Dial \/ ReplayFails

Transfer(d) == ReadChunk(d) \/ ReadEnds(d) \/ CallTimesOut(d) \/ WriteFails(d)

ProxyStep ==
    \/ ProcessStep \/ Accept
    \/ \E d \in Directions : Send(d)
    \/ \E e \in {"client", "server"}, how \in {"half", "gone"} : Leave(e, how)
    \/ Open \/ Replay \/ HandlerReturns
    \/ \E d \in Directions : Transfer(d) \/ WriteChunk(d)
=============================================================================
