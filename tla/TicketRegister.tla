--------------------------- MODULE TicketRegister ---------------------------
(***************************************************************************)
(* What the ticket tools promise, each tool being one atomic step on a map *)
(* from ids to tickets: a ticket is filed under the next unused number of  *)
(* its day, may be amended while it is not closed, and is final from then  *)
(* on.  Reads and refused requests leave the register alone.               *)
(***************************************************************************)
EXTENDS Integers, Functions

CONSTANT TicketId       \* a set of <<day, number>> pairs

VARIABLE tickets        \* the tickets filed so far, by id

Init == tickets = [x \in {} |-> x]

File(id) ==
  /\ id \notin DOMAIN tickets
  /\ id[2] = 1 \/ <<id[1], id[2] - 1>> \in DOMAIN tickets
  /\ DOMAIN tickets' = DOMAIN tickets \cup {id}
  /\ Restrict(tickets', DOMAIN tickets) = tickets
  /\ tickets'[id].status = "open"
  /\ tickets'[id].comments = 0
  /\ ~tickets'[id].closed_at

Amend(id) ==
  /\ tickets[id].status # "closed"
  /\ DOMAIN tickets' = DOMAIN tickets
  /\ tickets' = [tickets EXCEPT ![id] = tickets'[id]]
  /\ tickets'[id].comments \in {tickets[id].comments, tickets[id].comments + 1}
  /\ tickets'[id].closed_at <=> tickets'[id].status = "closed"

Next ==
  \/ \E id \in TicketId : File(id)
  \/ \E id \in DOMAIN tickets : Amend(id)

Spec == Init /\ [][Next]_tickets
=============================================================================
