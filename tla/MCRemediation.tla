---------------------------- MODULE MCRemediation ----------------------------
(* TLC instance of Remediation: a local run without tenant, the fleet pass, a *)
(* dry run, a tenant that refuses, no confidence, and a check; the routing    *)
(* file is revoked for one tenant, or saved with a flaw.                      *)
EXTENDS Remediation, TLC

CONSTANTS remote, shellCheck, proseCheck, manual, willing, sandbox

Remediate(c, h, t, level, dry) ==
  [tool |-> "remediate", control |-> c, host |-> h, tenant |-> t,
   confidence |-> level, dry |-> dry]

MCSeverity == [c \in Control |-> IF c = shellCheck THEN "medium" ELSE "high"]

Defaults ==
  [threshold |-> 1, severities |-> {"high", "medium"},
   actions |-> {"email", "auto_remediate"}, other |-> "ok"]
Overrides(forWilling, forSandbox) ==
  [defaults |-> Defaults,
   tenants |-> (willing :> forWilling) @@ (sandbox :> forSandbox)]

\* A file that lets one tenant do less, and the same with a flaw in the other's.
Shipped == Overrides([severities |-> {"high"}], [actions |-> {"email"}])
Flawed == Overrides([severities |-> {"high", Bad}], [actions |-> {"email"}])

MCFile == {Shipped, Flawed}

MCAsks ==
  {Remediate(shellCheck, Local, None, 0, FALSE),
   Remediate(proseCheck, Local, willing, 1, FALSE),
   Remediate(shellCheck, remote, sandbox, 1, FALSE),
   Remediate(shellCheck, remote, willing, 1, TRUE),
   Remediate(manual, Local, willing, 1, FALSE),
   [tool |-> "check", control |-> shellCheck, host |-> remote]}
MCSymmetry == Permutations(Run)
=============================================================================
