----------------------------- MODULE MCAuditLog -----------------------------
(* TLC instance of AuditQueries: an LLM call whose alert carried evidence    *)
(* about a host and whose decision has no record of its own, a verification, *)
(* a fix (written without lock), and two annotations of the LLM call, which  *)
(* are interchangeable.                                                      *)
EXTENDS AuditQueries, TLC

CONSTANTS l1, l2, b1, a1, a2

MCSymmetry == Permutations(Annotator)

MCTarget == [a \in Annotator |-> l1]

MCMeta == [w \in Writer |->
  IF w = l1 THEN LlmCall(<<"run", "1">>, "soc-triage", "acme", "text", <<"run", "0">>, "mail")
  ELSE IF w = l2 THEN Verification("act-1", None)
  ELSE FixApplied(<<"fix", "act-1">>, "acme", 1)]
=============================================================================
