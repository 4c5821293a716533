--------------------------- MODULE MCTicketClient ---------------------------
(* TLC instances of TicketClient.                                          *)
EXTENDS TicketClient

NoLabels == [l \in Label |-> 0]

Someone == CHOOSE a \in Assignee : TRUE

MCCreates == {[labels |-> [l \in Label |-> 1], assignee |-> Someone]}

Plain == [status |-> Keep, assignee |-> Keep, comment |-> FALSE,
          add |-> {}, remove |-> NoLabels]

MCEdits == {CloseEdit(TRUE),
            [Plain EXCEPT !.assignee = Someone, !.comment = TRUE,
                          !.remove = [l \in Label |-> 2]],
            [Plain EXCEPT !.assignee = Nobody, !.status = "waiting", !.add = Label]}

MCAsks == {[op |-> "create", args |-> a] : a \in MCCreates}
            \cup {[op |-> "update", id |-> <<1, 1>>, edit |-> e] : e \in MCEdits}
=============================================================================
