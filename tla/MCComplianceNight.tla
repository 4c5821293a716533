-------------------------- MODULE MCComplianceNight --------------------------
(* TLC instance of ComplianceNight: two tenants of different scope and two  *)
(* hosts, whose datastreams map the first rule to both controls or to none.  *)
EXTENDS ComplianceNight, TLC

CONSTANTS h1, h2, rule1, rule2, access, audit

\* The datastream of h2 maps no control to the first rule.
MCRefs == h1 :> (rule1 :> {access, audit} @@ rule2 :> {audit})
       @@ h2 :> (rule1 :> {} @@ rule2 :> {audit})
MCApplicable == 1 :> {access, audit} @@ 2 :> {audit}
MCPermits == {1} \X {audit}

Results(first, second) == rule1 :> first @@ rule2 :> second
Day(scan1, tenant1, scan2, tenant2) ==
  [scan |-> h1 :> scan1 @@ h2 :> scan2, manifest |-> h1 :> tenant1 @@ h2 :> tenant2]

\* The hosts disagree on both rules, and h2 fails one that only the datastream of
\* h1 maps; or h2 has not been scanned yet.
MCDays ==
  {Day(Results("pass", "fail"), None, Results("fail", "other"), 2),
   Day(Results("other", "pass"), 2, None, None)}
=============================================================================
