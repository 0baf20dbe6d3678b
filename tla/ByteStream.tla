----------------------------- MODULE ByteStream -----------------------------
(***************************************************************************)
(* What the receive half of a stream promises h3, whatever the buffering   *)
(* between the transport and the application: the chunks of the peer       *)
(* arrive in order and without gaps, Fin comes after the last of them, a   *)
(* reset only if the peer reset, a connection error only if the connection *)
(* is closing, an internal error only after the application's own stop.    *)
(***************************************************************************)
EXTENDS Naturals, Sequences

CONSTANT Streams

VARIABLES
  sent,      \* sent[s]: number of chunks the peer's packets carried so far
  peer,      \* peer[s]: "none", "fin" or "reset"
  closing,   \* the connection is closing or closed
  stopped,   \* stopped[s]: the application called stop_sending
  rcvd,      \* rcvd[s]: chunks handed to the application
  end        \* end[s]: the end it was told

vars == <<sent, peer, closing, stopped, rcvd, end>>

Init ==
  /\ sent = [s \in Streams |-> 0] /\ peer = [s \in Streams |-> "none"]
  /\ closing = FALSE /\ stopped = [s \in Streams |-> FALSE]
  /\ rcvd = [s \in Streams |-> <<>>] /\ end = [s \in Streams |-> "none"]

Arrive(s) ==
  /\ peer[s] = "none"
  /\ \/ /\ sent' = [sent EXCEPT ![s] = @ + 1] /\ UNCHANGED peer
     \/ /\ \E e \in {"fin", "reset"} : peer' = [peer EXCEPT ![s] = e]
        /\ UNCHANGED sent
  /\ UNCHANGED <<closing, stopped, rcvd, end>>

Close == closing' = TRUE /\ UNCHANGED <<sent, peer, stopped, rcvd, end>>

Stop(s) ==
  /\ stopped' = [stopped EXCEPT ![s] = TRUE]
  /\ UNCHANGED <<sent, peer, closing, rcvd, end>>

Deliver(s) ==
  /\ end[s] = "none" /\ Len(rcvd[s]) < sent[s]
  /\ rcvd' = [rcvd EXCEPT ![s] = Append(@, Len(@) + 1)]
  /\ UNCHANGED <<sent, peer, closing, stopped, end>>

End(s) ==
  /\ end[s] = "none"
  /\ \/ /\ peer[s] = "fin" /\ Len(rcvd[s]) = sent[s]
        /\ end' = [end EXCEPT ![s] = "fin"]
     \/ peer[s] = "reset" /\ end' = [end EXCEPT ![s] = "reset"]
     \/ closing /\ end' = [end EXCEPT ![s] = "conn"]
     \/ stopped[s] /\ end' = [end EXCEPT ![s] = "internal"]
  /\ UNCHANGED <<sent, peer, closing, stopped, rcvd>>

Next ==
  \/ Close
  \/ \E s \in Streams : Arrive(s) \/ Stop(s) \/ Deliver(s) \/ End(s)

Spec == Init /\ [][Next]_vars
=============================================================================
