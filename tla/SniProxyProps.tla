--------------------------- MODULE SniProxyProps ---------------------------
(* What a proxied connection promises.  quiet is not in the code: for each  *)
(* direction, the ticks since a chunk was read from its source or taken by  *)
(* its target, up to one more than the deadline.                            *)
EXTENDS SniProxy

VARIABLE quiet

hvars == <<vars, quiet>>

Lower(a, b) == IF a < b THEN a ELSE b

HInit == ProxyInit /\ quiet = [d \in Directions |-> 0]

HNext ==
    /\ process # "exited"
    /\ \/ /\ ProxyStep
          /\ quiet' = [d \in Directions |->
                 IF taken'[d] # taken[d] \/ got'[d] # got[d] \/ stage' # stage THEN 0 ELSE quiet[d]]
       \/ /\ ProxyTick
          /\ quiet' = [d \in Directions |-> Lower(quiet[d] + 1, IdleTimeout + 1)]

(* The steps of the process are taken when they can be; what the two ends  *)
(* do, and whether they make room for a write, is up to them.              *)
Running(A) == process # "exited" /\ A

HSpec ==
    /\ HInit /\ [][HNext]_hvars
    /\ WF_vars(Running(Open)) /\ WF_vars(Running(HandlerReturns)) /\ WF_vars(Running(ProxyTick))
    /\ \A d \in Directions : WF_vars(Running(Transfer(d)))

-----------------------------------------------------------------------------
(* The replayed hello and the copy loop together: each end receives what    *)
(* the other sent, from its first byte on, in order and without a gap, and  *)
(* a copy that is waiting for data holds none back.                         *)
InOrder ==
    \A d \in Directions :
        /\ got[d] = [i \in DOMAIN got[d] |-> i]
        /\ In(d, "read") => Len(got[d]) = taken[d]

(* A direction in which nothing moves is not copied for longer than the     *)
(* idle timeout, with one deadline for each read and one for each write.    *)
IdleBound ==
    \A d \in Directions : Counting(d) => quiet[d] <= IdleTimeout

(* Both directions count when transfer returns and wg.Wait is passed: a     *)
(* connection that is being used is not closed.  A direction is over when   *)
(* all its source sent is delivered, an end is gone, or nothing moved in it *)
(* for the idle timeout.                                                    *)
Over(d) ==
    \/ peer[Source(d)] = "half" /\ Len(got[d]) = sent[d]
    \/ \E e \in {"client", "server"} : peer[e] = "gone"
    \/ quiet[d] >= IdleTimeout

ClosedWhenOver ==
    [][stage = "copy" /\ stage' = "closed" => \A d \in Directions : Over(d)]_hvars

(* The two ends send no more, from some time on. *)
FallSilent == <>[][UNCHANGED sent]_vars

(* handleConn gets past the hello whatever the client does, up to the       *)
(* replayed hello: that write has no deadline.  A connection that is being  *)
(* copied is kept as long as its ends exchange data; once they send no more *)
(* it is let go, although neither may leave or take what was sent to it.    *)
Released ==
    /\ stage = "hello" ~> stage \in {"closed", "replay"} \/ process = "exited"
    /\ FallSilent => (stage = "copy" ~> stage = "closed" \/ process = "exited")
=============================================================================
