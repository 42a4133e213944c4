--------------------------- MODULE MessageChannel ---------------------------
(***************************************************************************)
(* What message_send_all and message_receive_all promise for one direction *)
(* of a connection: the messages arrive one by one and in the order they   *)
(* were sent, those that fit in one packet as they were sent.  What arrives *)
(* of a longer one is left open.  Messages may be lost only from the end:  *)
(* then the connection is over, and nothing else arrives.                  *)
(***************************************************************************)
EXTENDS Naturals, Sequences

CONSTANTS Messages,
          Whole,         \* the messages that fit in one packet
          Garbled        \* what may be received of one that does not

VARIABLES sent, received

Init == sent = <<>> /\ received = <<>>

Send == /\ \E m \in Messages : sent' = Append(sent, m)
        /\ UNCHANGED received

Receive ==
    LET k == Len(received) + 1
    IN  /\ k \in DOMAIN sent
        /\ \/ received' = Append(received, sent[k])
           \/ /\ sent[k] \notin Whole
              /\ \E m \in Messages \union {Garbled} : received' = Append(received, m)
        /\ UNCHANGED sent

Next == Send \/ Receive

Spec == Init /\ [][Next]_<<sent, received>>
=============================================================================
