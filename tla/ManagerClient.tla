----------------------------- MODULE ManagerClient -----------------------------
(***************************************************************************)
(* services/soc-manager-mcp/server.py (C2): one HTTP handler thread per    *)
(* call, all of them sharing one _ManagerClient and its cached JWT.  The   *)
(* Wazuh manager is outside the program: it may revoke its tokens, be      *)
(* unreachable, or take an order and then answer with an error, or not at  *)
(* all.  What becomes of an order it has taken, the tools never look at:   *)
(* they test the status, and pass affected_items and failed_items on.      *)
(* Tokens are numbered in the order the manager issues them; it accepts    *)
(* the ones after `dead`, so NoToken ("Bearer None") is never accepted.    *)
(***************************************************************************)
EXTENDS Integers

CONSTANTS
  Threads,      \* handler threads, one call each
  MaxRetries,   \* self._max_retries
  MaxExpiries,  \* bound: revocations and expiries of tokens
  MaxFaults     \* bound: faults of the network and the manager

ASSUME ManagerAssumption == {MaxRetries, MaxExpiries, MaxFaults} \subseteq Nat

\* A reading tool, and restart_agent or run_scan.
Served == {"read", "scan"}
\* A call whose arguments are refused, one whose arguments are no JSON object
\* (an AttributeError), and a tool that TOOLS does not list (restart_fleet).
Refusal == [malformed |-> 400, garbled |-> 500, unlisted |-> 404]
Requests == Served \cup DOMAIN Refusal
NoToken == 0

VARIABLES
  mutations,  \* SOC_MANAGER_MCP_ALLOW_MUTATIONS = "1" in C2's environment
  token,    \* _CLIENT._token
  expired,  \* the token was fetched more than _token_ttl_s ago
  issued,   \* manager: tokens issued
  dead,     \* manager: the last token it no longer accepts
  pc,       \* where each thread is
  request,  \* what its call asks for
  attempt,  \* the loop variable of request()
  used,     \* the token of its own that it has read or been issued
  result,   \* the HTTP status of its answer, 0 before
  orders,   \* history: restart orders of the call that the manager took
  hit,      \* history: calls hit by a fault of the network or the manager
  expiries, faults  \* history: their numbers so far

manager == <<mutations, issued, dead>>
expiry == <<expired, expiries>>
call == <<request, attempt, used, result, orders>>
clientVars == <<token, manager, expiry, pc, call, hit, faults>>

ClientInit ==
  /\ mutations \in BOOLEAN
  /\ token = NoToken /\ expired = TRUE
  /\ issued = 0 /\ dead = 0
  /\ pc = [t \in Threads |-> "none"] /\ request = [t \in Threads |-> "read"]
  /\ attempt = [t \in Threads |-> 0] /\ used = [t \in Threads |-> NoToken]
  /\ result = [t \in Threads |-> 0] /\ orders = [t \in Threads |-> 0]
  /\ hit = {} /\ expiries = 0 /\ faults = 0

Goto(t, p) == pc' = [pc EXCEPT ![t] = p]

\* The answer; the locals of the call are gone.
Answer(t, status) ==
  /\ Goto(t, "answered")
  /\ result' = [result EXCEPT ![t] = status]
  /\ attempt' = [attempt EXCEPT ![t] = 0] /\ used' = [used EXCEPT ![t] = NoToken]

Fault(t) ==
  /\ faults < MaxFaults /\ faults' = faults + 1
  /\ hit' = hit \cup {t}

-----------------------------------------------------------------------------
(* The manager.                                                            *)

\* The manager restarts, or its security configuration changes: it accepts
\* none of the tokens it has issued.
Revoke ==
  /\ dead < issued /\ dead' = issued
  /\ expiries < MaxExpiries /\ expiries' = expiries + 1
  /\ UNCHANGED <<mutations, token, expired, issued, pc, call, hit, faults>>

\* The time to live of the cached token passes.
Expire ==
  /\ ~expired /\ expired' = TRUE
  /\ expiries < MaxExpiries /\ expiries' = expiries + 1
  /\ UNCHANGED <<token, manager, pc, call, hit, faults>>

-----------------------------------------------------------------------------
(* _dispatch, the tools, and the gate of request().                        *)

Arrive(t) ==
  /\ pc[t] = "new"
  /\ \/ request[t] \in DOMAIN Refusal /\ Answer(t, Refusal[request[t]])
     \/ request[t] = "scan" /\ ~mutations /\ Answer(t, 403)
     \/ /\ request[t] = "read" \/ (request[t] = "scan" /\ mutations)
        /\ Goto(t, "refresh") /\ UNCHANGED <<attempt, used, result>>
  /\ UNCHANGED <<token, expiry, manager, request, orders, hit, faults>>

-----------------------------------------------------------------------------
(* _maybe_refresh and _authenticate.                                       *)

Refresh(t) ==
  /\ pc[t] = "refresh"
  /\ Goto(t, IF token = NoToken \/ expired THEN "auth" ELSE "check")
  /\ UNCHANGED <<token, expiry, manager, call, hit, faults>>

Authenticate(t) ==
  /\ pc[t] = "auth"
  /\ issued' = issued + 1
  /\ used' = [used EXCEPT ![t] = issued']
  /\ Goto(t, "store")
  /\ UNCHANGED <<mutations, token, expiry, dead, request, attempt, result, orders, hit, faults>>

\* An error status, an unreachable manager or an answer that is no JWT is a
\* RuntimeError; a timeout while the answer is read is not caught.
AuthenticateFails(t) ==
  /\ pc[t] = "auth" /\ Fault(t)
  /\ Answer(t, 502) \/ Answer(t, 500)
  /\ UNCHANGED <<token, expiry, manager, request, orders>>

StoreToken(t) ==
  /\ pc[t] = "store"
  /\ token' = used[t]
  /\ Goto(t, "stamp")
  /\ UNCHANGED <<expiry, manager, call, hit, faults>>

\* _token_fetched_at is assigned after _token.
StampToken(t) ==
  /\ pc[t] = "stamp"
  /\ expired' = FALSE
  /\ Goto(t, "check")
  /\ UNCHANGED <<token, manager, expiries, call, hit, faults>>

-----------------------------------------------------------------------------
(* One attempt of request().                                               *)

\* assert self._token is not None: an AssertionError is an answer 500.
AssertToken(t) ==
  /\ pc[t] = "check"
  /\ \/ token = NoToken /\ Answer(t, 500)
     \/ token # NoToken /\ Goto(t, "header") /\ UNCHANGED <<attempt, used, result>>
  /\ UNCHANGED <<token, expiry, manager, request, orders, hit, faults>>

\* The header reads the attribute once more.
ReadToken(t) ==
  /\ pc[t] = "header"
  /\ used' = [used EXCEPT ![t] = token]
  /\ Goto(t, "send")
  /\ UNCHANGED <<token, expiry, manager, request, attempt, result, orders, hit, faults>>

\* The manager accepts the token and takes the request.
Accept(t) ==
  /\ pc[t] = "send" /\ used[t] > dead
  /\ orders' = [orders EXCEPT ![t] = IF request[t] = "scan" THEN @ + 1 ELSE @]
  /\ Goto(t, "reply")
  /\ UNCHANGED <<token, expiry, manager, request, attempt, used, result, hit, faults>>

\* Seeded fault: an agent that the answer does not list is a LookupError.
ReplyLooksUp(t) ==
  /\ pc[t] = "reply"
  /\ Answer(t, 200) \/ Answer(t, 404)
  /\ UNCHANGED <<token, expiry, manager, request, orders, hit, faults>>

\* 200; get_agent and get_rule_info answer 404 when the list lacks the id.
Reply(t) ==
  /\ pc[t] = "reply"
  /\ Answer(t, 200) \/ (request[t] = "read" /\ Answer(t, 404))
  /\ UNCHANGED <<token, expiry, manager, request, orders, hit, faults>>

\* Seeded fault: a timeout of the answer is retried like an unreachable manager.
ReplyLostRetried(t) ==
  /\ pc[t] = "reply" /\ Fault(t)
  /\ \/ attempt[t] < MaxRetries /\ attempt' = [attempt EXCEPT ![t] = @ + 1]
        /\ Goto(t, "refresh") /\ UNCHANGED <<used, result>>
     \/ attempt[t] >= MaxRetries /\ Answer(t, 502)
  /\ UNCHANGED <<token, expiry, manager, request, orders>>

\* The answer times out or is cut off: getresponse raises, nothing catches it.
ReplyLost(t) ==
  /\ pc[t] = "reply" /\ Fault(t)
  /\ Answer(t, 500)
  /\ UNCHANGED <<token, expiry, manager, request, orders>>

\* The manager gets the request and neither answers nor takes it.
SendLost(t) ==
  /\ pc[t] = "send" /\ Fault(t)
  /\ Answer(t, 500)
  /\ UNCHANGED <<token, expiry, manager, request, orders>>

\* Any other status than 200 and 401 is the tool's RuntimeError, whether the
\* manager refused the request or failed after it had taken it.
ManagerError(t) ==
  /\ (pc[t] = "send" /\ used[t] > dead) \/ pc[t] = "reply"
  /\ Fault(t)
  /\ Answer(t, 502)
  /\ UNCHANGED <<token, expiry, manager, request, orders>>

\* URLError: the request never left; the next attempt, or a RuntimeError.
Unreachable(t) ==
  /\ pc[t] = "send" /\ Fault(t)
  /\ \/ /\ attempt[t] < MaxRetries
        /\ attempt' = [attempt EXCEPT ![t] = @ + 1]
        /\ Goto(t, "refresh") /\ UNCHANGED <<used, result>>
     \/ attempt[t] >= MaxRetries /\ Answer(t, 502)
  /\ UNCHANGED <<token, expiry, manager, request, orders>>

\* 401: the token is dropped before the next attempt, but not after the last.
Reject(t) ==
  /\ pc[t] = "send" /\ used[t] <= dead
  /\ \/ attempt[t] < MaxRetries /\ Goto(t, "drop") /\ UNCHANGED <<attempt, used, result>>
     \/ attempt[t] >= MaxRetries /\ Answer(t, 502)
  /\ UNCHANGED <<token, expiry, manager, request, orders, hit, faults>>

DropToken(t) ==
  /\ pc[t] = "drop"
  /\ token' = NoToken
  /\ attempt' = [attempt EXCEPT ![t] = @ + 1]
  /\ Goto(t, "refresh")
  /\ UNCHANGED <<expiry, manager, request, used, result, orders, hit, faults>>

-----------------------------------------------------------------------------
\* What a thread does of its own, and what the network does to it.
Step(t) ==
  \/ Arrive(t) \/ Refresh(t) \/ Authenticate(t) \/ StoreToken(t) \/ StampToken(t)
  \/ AssertToken(t) \/ ReadToken(t) \/ Accept(t) \/ Reply(t) \/ Reject(t) \/ DropToken(t)
NetworkFault(t) ==
  \/ AuthenticateFails(t) \/ ReplyLost(t) \/ SendLost(t) \/ ManagerError(t) \/ Unreachable(t)

\* A call reaches the server.
Call(t, r) ==
  /\ pc[t] = "none"
  /\ Goto(t, "new")
  /\ request' = [request EXCEPT ![t] = r]
  /\ UNCHANGED <<token, expiry, manager, attempt, used, result, orders, hit, faults>>

ClientNext ==
  \/ Revoke \/ Expire
  \/ \E t \in Threads : Step(t) \/ NetworkFault(t) \/ \E r \in Requests : Call(t, r)

ClientSpec == ClientInit /\ [][ClientNext]_clientVars

-----------------------------------------------------------------------------
(* Properties.                                                             *)

Places == {"none", "new", "refresh", "auth", "store", "stamp", "check", "header",
           "send", "reply", "drop", "answered"}
Statuses == {0, 200, 400, 403, 404, 500, 502}

\* The server's variables have their types.
ClientTypeOK ==
  /\ mutations \in BOOLEAN
  /\ issued \in Nat /\ dead \in 0..issued /\ token \in 0..issued /\ expired \in BOOLEAN
  /\ pc \in [Threads -> Places] /\ request \in [Threads -> Requests]
  /\ attempt \in [Threads -> 0..MaxRetries] /\ used \in [Threads -> 0..issued]
  /\ result \in [Threads -> Statuses] /\ orders \in [Threads -> Nat]
  /\ hit \subseteq Threads /\ expiries \in 0..MaxExpiries /\ faults \in 0..MaxFaults

\* However often a call is tried again - a rejected token, an unreachable
\* manager - the manager takes its order once at most.
OncePerCall == \A t \in Threads : orders[t] <= 1

\* The status tells the caller what became of the order: 200 says that the
\* manager took it, once, and 4xx that it did not; 500 and 502 leave it open,
\* but only when the manager or the network failed the call.
AnswerTells == \A t \in Threads :
  /\ result[t] = 200 /\ request[t] = "scan" => orders[t] = 1
  /\ result[t] \in {400, 403, 404} => orders[t] = 0
  /\ result[t] \in {500, 502} /\ t \notin hit => orders[t] = 0

\* "handlers run in threads but the token cache is just an attribute read":
\* a well-formed call that no fault hits is not an internal error.
SharedTokenIsFine == \A t \in Threads :
  result[t] = 500 /\ request[t] \in Served => t \in hit
=============================================================================
