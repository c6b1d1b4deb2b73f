----------------------------- MODULE AdminPanel ------------------------------
(***************************************************************************)
(* The admin panel (routers/admin.py) over the suppression rows of         *)
(* BounceWebhook.  A call passes the dependency _require_admin, which      *)
(* checks the IP allowlist, the rate limit and the secret in this order    *)
(* and audits a refusal as best it can, and then its handler, which acts   *)
(* and then audits.  The handler modelled is the one that changes          *)
(* something: DELETE /admin/suppressed/{email}; the others only read.      *)
(*                                                                         *)
(* The operator makes one call at a time.  The limiter counts in a table:  *)
(* one row for an IP and a minute, incremented and read by one statement.  *)
(***************************************************************************)
EXTENDS BounceWebhook

CONSTANTS
    Ips, Allowed,  \* ADMIN_IP_ALLOWLIST; no entry allows every IP
    Limit,         \* ADMIN_RATE_LIMIT_PER_MIN
    KeepMinutes,   \* purge_expired's older_than_minutes
    MaxMinute,     \* bound: the last minute
    MaxHits        \* bound: calls of one IP in a minute

ASSUME AdminAssumption ==
    /\ Allowed \subseteq Ips
    /\ Limit \in Nat /\ KeepMinutes \in Nat \ {0}
    /\ MaxMinute \in Nat /\ MaxHits \in Nat

VARIABLES
    minute,  \* the current minute
    hits,    \* hits[i][m]: admin_rate_limit.request_count, 0 without a row
    passed,  \* history: passed[i], calls the counter let pass this minute
    call     \* the call under way, or the last one with its answer

webVars == <<clock, seen, accepted, repeated, writing, rows, forgot>>
limitVars == <<minute, hits, passed>>
panelVars == <<webVars, limitVars, call>>

NoCall == [pc |-> "idle"]

PanelInit ==
    /\ Init
    /\ minute = 0
    /\ hits = [i \in Ips |-> [m \in 0..MaxMinute |-> 0]]
    /\ passed = [i \in Ips |-> 0]
    /\ call = NoCall
-----------------------------------------------------------------------------
\* _ip_allowed.
IpAllowed(ip) == Allowed = {} \/ ip \in Allowed

Refused(code) == [pc |-> "refuse", code |-> code]

\* The next call arrives, with or without the secret.
Call(ip, secret, e) ==
    /\ call.pc \in {"idle", "answered"}
    /\ hits[ip][minute] < MaxHits
    /\ call' = IF IpAllowed(ip)
               THEN [pc |-> "limit", ip |-> ip, secret |-> secret, email |-> e]
               ELSE Refused(403)
    /\ UNCHANGED <<webVars, limitVars>>

\* The credentials, once the limiter has let the call pass.
CheckSecret ==
    call' = IF call.secret THEN [pc |-> "remove", email |-> call.email] ELSE Refused(401)

\* Windows that purge_expired removes, in one call out of a hundred.
PurgedMutant(h) == [i \in Ips |-> [m \in 0..MaxMinute |->
                      IF m < minute + KeepMinutes THEN 0 ELSE h[i][m]]]
Purged(h) == [i \in Ips |-> [m \in 0..MaxMinute |->
                IF m + KeepMinutes <= minute THEN 0 ELSE h[i][m]]]

\* AdminRateLimitRepository.hit: the upsert returns the count it has written.
Hit ==
    /\ call.pc = "limit"
    /\ LET counted == [hits EXCEPT ![call.ip][minute] = @ + 1] IN
       /\ hits' \in {counted, Purged(counted)}
       /\ IF counted[call.ip][minute] <= Limit
          THEN CheckSecret /\ passed' = [passed EXCEPT ![call.ip] = @ + 1]
          ELSE call' = Refused(429) /\ UNCHANGED passed
    /\ UNCHANGED <<webVars, minute>>

\* The upsert fails, or it is committed and its reply or the purge fails: the
\* limiter lets the call pass.
HitFails ==
    /\ call.pc = "limit"
    /\ hits' \in {hits, [hits EXCEPT ![call.ip][minute] = @ + 1]}
    /\ CheckSecret
    /\ UNCHANGED <<webVars, minute, passed>>

Answered(code, removed, audited) ==
    [pc |-> "answered", code |-> code, removed |-> removed, audited |-> audited]

\* _audit_from_dependency swallows its failures; the refusal is answered.
Refuse ==
    /\ call.pc = "refuse"
    /\ \E audited \in BOOLEAN : call' = Answered(call.code, FALSE, audited)
    /\ UNCHANGED <<webVars, limitVars>>

\* remove_suppression: the DELETE, and 404 when it removed nothing.
Remove ==
    /\ call.pc = "remove"
    /\ LET removed == \E row \in rows : row[2] = call.email IN
       call' = [pc |-> "audit", code |-> IF removed THEN 200 ELSE 404, removed |-> removed]
    /\ AdminRemove(call.email)
    /\ UNCHANGED limitVars

\* The DELETE fails, or it is committed and its reply is lost.
RemoveFails ==
    /\ call.pc = "remove"
    /\ \/ call' = Answered(500, FALSE, FALSE) /\ UNCHANGED webVars
       \/ /\ call' = Answered(500, \E row \in rows : row[2] = call.email, FALSE)
          /\ AdminRemove(call.email)
    /\ UNCHANGED limitVars

\* _audit_ok at the end of the handler.  Nothing catches its failure: the call
\* is answered 500, and what it did stays done.
AuditMutant ==
    /\ call.pc = "audit"
    /\ \E audited \in BOOLEAN : call' = Answered(call.code, call.removed, audited)
    /\ UNCHANGED <<webVars, limitVars>>
Audit ==
    /\ call.pc = "audit"
    /\ \/ call' = Answered(call.code, call.removed, TRUE)
       \/ call' = Answered(500, call.removed, FALSE)
    /\ UNCHANGED <<webVars, limitVars>>

\* The next minute begins.
NextMinute ==
    /\ minute < MaxMinute /\ minute' = minute + 1
    /\ passed' = [i \in Ips |-> 0]
    /\ UNCHANGED <<webVars, hits, call>>

\* The webhook's side moves; a restart of the backend drops the call as well.
WebhookMoves ==
    /\ \/ (\E k \in Tokens : Deliver(k) \/ Upsert(k)) /\ UNCHANGED call
       \/ Tick /\ UNCHANGED call
       \/ Restart /\ call' = NoCall
    /\ UNCHANGED limitVars

PanelNext ==
    \/ \E ip \in Ips, secret \in BOOLEAN, e \in Emails : Call(ip, secret, e)
    \/ Hit \/ HitFails \/ Refuse \/ Remove \/ RemoveFails \/ Audit
    \/ NextMinute
    \/ WebhookMoves

PanelSpec == PanelInit /\ [][PanelNext]_panelVars
-----------------------------------------------------------------------------
\* Every answer of a handler but 500 is in the audit trail, and 200 says that
\* rows were removed.  (A removal missing from the trail was answered 500, or
\* the backend restarted under it.)
AnswersAreAudited ==
    call.pc = "answered" /\ call.code \in {200, 404}
      => call.audited /\ (call.code = 200 <=> call.removed)

\* The counter lets at most Limit calls of an IP pass in a minute, whatever is
\* purged meanwhile; calls that pass while it fails are not counted.
CounterCap == \A i \in Ips : passed[i] <= Limit
=============================================================================
