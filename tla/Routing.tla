------------------------------- MODULE Routing -------------------------------
(***************************************************************************)
(* services/soc_routing.py: the YAML file of per-tenant policies, how it   *)
(* is merged with its defaults and validated, and the gate that remediation *)
(* asks.  A mapping of the file is the function of its leaves, so that a   *)
(* deep merge is an override.  Three leaves reach the gate; "other" stands *)
(* for the rest (routing, recipients, quiet hours, blocked addresses,      *)
(* patterns, stig), which are only validated.  Bad is a value of the wrong *)
(* type or range, also inside a list.                                      *)
(***************************************************************************)
EXTENDS Integers

CONSTANTS
  Tenant,
  Severity,      \* ALLOWED_SEVERITIES
  Action,        \* ALLOWED_RECOMMENDED_RESPONSES
  Top,           \* confidences and thresholds are 0..Top for 0.0..1.0
  Bad,
  Unreadable,    \* no file, no YAML, or no mapping at the top
  None           \* no config: load_config has raised RoutingError

ASSUME RoutingAssumption == Top \in Nat /\ Bad \notin 0..Top /\ "auto_remediate" \in Action

Policy == [threshold: 0..Top, severities: SUBSET Severity, actions: SUBSET Action]

Leaf(m, field, default) == IF field \in DOMAIN m THEN m[field] ELSE default

\* _deep_merge: lists are replaced, never concatenated.
Merged(defaults, raw) ==
  [field \in DOMAIN defaults \cup DOMAIN raw |->
     IF field \in DOMAIN raw THEN raw[field] ELSE defaults[field]]

\* The checks of _validate_tenant; only the threshold is mandatory.
Valid(m) ==
  /\ Leaf(m, "threshold", Bad) \in 0..Top
  /\ Leaf(m, "severities", {}) \subseteq Severity
  /\ Leaf(m, "actions", {}) \subseteq Action
  /\ Leaf(m, "other", "ok") # Bad

PolicyOf(m) ==
  [threshold |-> m["threshold"], severities |-> Leaf(m, "severities", {}),
   actions |-> Leaf(m, "actions", {})]

\* A tenant's block; one that is no mapping at all counts as empty.
Block(file, t) ==
  Merged(file.defaults, IF file.tenants[t] = Bad THEN << >> ELSE file.tenants[t])

\* load_config: one flaw anywhere and no tenant has a policy.
Loadable(file) ==
  /\ file # Unreadable
  /\ Valid(file.defaults)
  /\ DOMAIN file.tenants # {}
  /\ \A t \in DOMAIN file.tenants : Valid(Block(file, t))

Load(file) ==
  IF Loadable(file) THEN [t \in DOMAIN file.tenants |-> PolicyOf(Block(file, t))]
  ELSE None

\* RoutingConfig.tenant raises for a tenant that the file does not name.
Knows(config, t) == config # None /\ t \in DOMAIN config

\* TenantRouting.can_auto_remediate
CanAutoRemediate(policy, confidence, severity) ==
  /\ "auto_remediate" \in policy.actions
  /\ severity \in policy.severities
  /\ confidence >= policy.threshold
=============================================================================
