------------------------------- MODULE ByteStream -------------------------------
(***************************************************************************)
(* What AsyncRead + AsyncWrite promise the HTTP/2 server that drives a     *)
(* NoiseStream. The bytes of a direction are numbered 1, 2, 3, ... in the  *)
(* order they are sent. A read returns the next few of them, end of file   *)
(* only at the end, and waits only when there is nothing to return. A      *)
(* flush that answers Ok has put every accepted byte on the wire.          *)
(***************************************************************************)
EXTENDS Integers, Sequences

VARIABLES
    sent,       \* bytes the peer has sent
    end,        \* "open", "eof", or "error": how the peer's bytes end
    delivered,  \* the bytes reads returned, in order
    read,       \* what the last read returned
    accepted,   \* bytes writes answered for
    wire,       \* bytes of these handed to the network
    written     \* what the last write, flush or shutdown returned

incoming == <<sent, end, delivered, read>>
outgoing == <<accepted, wire, written>>
vars == <<incoming, outgoing>>

Init ==
    /\ sent = 0 /\ end = "open" /\ delivered = <<>> /\ read = "none"
    /\ accepted = 0 /\ wire = 0 /\ written = "none"

AllDelivered == Len(delivered) = sent

Arrive ==
    /\ end = "open"
    /\ sent' \in Nat /\ sent' >= sent
    /\ UNCHANGED <<end, delivered, read, outgoing>>

End ==
    /\ end = "open"
    /\ end' \in {"eof", "error"}
    /\ UNCHANGED <<sent, delivered, read, outgoing>>

(* The n bytes after those already delivered.                               *)
Following(n) == [i \in 1..n |-> Len(delivered) + i]

Read ==
    \/ /\ \E n \in 1..(sent - Len(delivered)) :
             delivered' = delivered \o Following(n)
       /\ read' = "bytes"
       /\ UNCHANGED <<sent, end, outgoing>>
    \/ /\ read' = "nothing asked"
       /\ UNCHANGED <<sent, end, delivered, outgoing>>
    \/ /\ AllDelivered
       /\ \/ end = "open" /\ read' = "pending" /\ UNCHANGED end
          \/ end = "eof" /\ read' = "eof" /\ UNCHANGED end
          \/ end = "error" /\ read' = "error" /\ end' = "eof"
       /\ UNCHANGED <<sent, delivered, outgoing>>

Write ==
    /\ \/ /\ accepted' \in Nat /\ accepted' >= accepted
          /\ written' = "ok"
       \/ written' \in {"pending", "error"} /\ UNCHANGED accepted
    /\ UNCHANGED <<wire, incoming>>

Transmit ==
    /\ wire' \in wire..accepted
    /\ UNCHANGED <<accepted, written, incoming>>

(* Flush and shutdown.                                                      *)
Flush ==
    /\ \/ wire = accepted /\ written' = "flushed"
       \/ written' \in {"pending", "error"}
    /\ UNCHANGED <<accepted, wire, incoming>>

Next == Arrive \/ End \/ Read \/ Write \/ Transmit \/ Flush

Spec == Init /\ [][Next]_vars
================================================================================
