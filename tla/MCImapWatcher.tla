---------------------------- MODULE MCImapWatcher ----------------------------
(* TLC instance of ImapWatcher: a question, the answer to its reply, and an  *)
(* outsider who joins the same thread.                                       *)
EXTENDS ImapWatcher

MCRefTo == [u \in Messages |-> IF u = 1 THEN None ELSE 1]
=============================================================================
