----------------------------- MODULE ByteStream -----------------------------
(***************************************************************************)
(* What a Session or Client promises about the bytes handed to sendAsync:  *)
(* they reach the peer in the order they were accepted, none twice, and    *)
(* while the connection stays open every accepted byte is eventually       *)
(* delivered.  Closing may drop what has not been delivered.  Byte k is    *)
(* the k-th byte accepted, so the accepted stream is 1..submitted.         *)
(***************************************************************************)
EXTENDS Naturals, Sequences

VARIABLES
    submitted,   \* number of bytes accepted so far
    delivered,   \* bytes the peer has received
    phase        \* "new", "open" or "closed"

vars == <<submitted, delivered, phase>>

Init ==
    /\ submitted = 0
    /\ delivered = <<>>
    /\ phase = "new"

Open ==
    /\ phase = "new"
    /\ phase' = "open"
    /\ UNCHANGED <<submitted, delivered>>

(* Bytes may be accepted after the close: the caller's connected check and *)
(* the append are not atomic with respect to the close.                    *)
Submit ==
    /\ phase # "new"
    /\ \E n \in 1..2: submitted' = submitted + n
    /\ UNCHANGED <<delivered, phase>>

(* Some of the accepted bytes that follow the delivered ones reach the     *)
(* peer, in order.                                                         *)
Deliver ==
    /\ phase = "open"
    /\ \E j \in (Len(delivered) + 1)..submitted:
         delivered' = [i \in 1..j |-> i]
    /\ UNCHANGED <<submitted, phase>>

Close ==
    /\ phase = "open"
    /\ phase' = "closed"
    /\ UNCHANGED <<submitted, delivered>>

Next == Open \/ Submit \/ Deliver \/ Close

Spec == Init /\ [][Next]_vars /\ WF_vars(Deliver)

=============================================================================
