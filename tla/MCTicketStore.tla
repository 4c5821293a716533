--------------------------- MODULE MCTicketStore ---------------------------
(* TLC instances of TicketStore.                                           *)
EXTENDS TicketStore, TLC

NoLabels == [l \in Label |-> 0]
OneEach == [l \in Label |-> 1]

MCCreates ==
  {[labels |-> [l \in Label |-> n], assignee |-> Nobody] : n \in {0, 3}}

Plain == [status |-> Keep, assignee |-> Keep, comment |-> FALSE,
          add |-> {}, remove |-> NoLabels]

MCEdits ==
  {CloseEdit(TRUE), CloseEdit(FALSE),
   [Plain EXCEPT !.status = "open", !.comment = TRUE],
   [Plain EXCEPT !.add = Label, !.assignee = CHOOSE a \in Assignee : TRUE],
   [Plain EXCEPT !.remove = OneEach, !.assignee = Nobody]}

HandlerSymmetry == Permutations(Handler)
=============================================================================
