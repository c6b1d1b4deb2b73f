---------------------------- MODULE SmtpGateway -----------------------------
(***************************************************************************)
(* The SMTP gateway of smtp/main.py: SafeSenderHandler.handle_DATA and the *)
(* calls it awaits, for any number of concurrent transactions on ports 25  *)
(* and 587, against the backend endpoints /internal/rules,                 *)
(* /internal/suppressed and /internal/scan-log, the tenants' edits of the  *)
(* data those endpoints read, and the outbound relay (Mailgun).            *)
(*                                                                         *)
(* One action is the code between two awaits.  A call that is awaited can  *)
(* fail, take effect and lose its answer, or be cut off: by the client's   *)
(* disconnect, which cancels the handler at its await (the relay call runs *)
(* in an executor thread, which cancellation does not stop), or by a crash *)
(* of the gateway.                                                         *)
(*                                                                         *)
(* A message's content is abstracted to the set of rules whose pattern     *)
(* matches it (_rule_matches), the model's verdict on it to a choice.      *)
(***************************************************************************)
EXTENDS Integers, Sequences, FiniteSets

CONSTANTS
    Msgs,           \* messages a client wants delivered
    MaxSubmissions, \* bound: how often a client submits one message
    MaxEdits,       \* bound: how many edits the tenants make
    Customers, NoCustomer,
    Domains, NoDomain,
    CustomerOf,     \* the customer whose customers.domain is d, or NoCustomer
    Rcpts,
    Rules,          \* ids of rules
    Owner,          \* the customer a rule belongs to
    Exceptions,     \* rules with is_exception
    Envelope,       \* what each message is: see EnvelopeType
    Sessions,       \* the SMTP sessions a message may arrive on: see SessionType
    SpfEnforce,     \* SPF_ENFORCE
    RateMax,        \* RATE_LIMIT_MAX
    FetchAttempts,  \* max_attempts of _fetch_rules
    LogAttempts,    \* max_attempts of _log_scan
    Confidences,    \* confidences the model may report
    InitVerified,   \* customer_domains rows with verified = TRUE
    InitLegacy,     \* customers rows with domain_verified = TRUE
    InitActive,     \* rules with active = TRUE
    InitSuppressed, \* suppressed_addresses rows: <<customer, address>>
    InitAi          \* customers with AI scanning on and a policy to scan for

Txns == Msgs \X (1..MaxSubmissions)

\* token: the customer the X-SenderSafety-TestToken header was minted for.
\* rules: the rules whose pattern matches the message.
EnvelopeType == [domain : Domains, nullSender : BOOLEAN, test : BOOLEAN,
                 token : Customers \cup {NoCustomer}, rcpts : Seq(Rcpts) \ {<<>>},
                 rules : SUBSET Rules]

SpfResults == {"pass", "fail", "temperror", "softfail", "none"}

\* cust, bound, admin: what the Authenticator stored in the session (port 587).
\* spf, ptr, cidr: what the lookups on the peer yield (port 25).
SessionType == [port : {25, 587}, cust : Customers \cup {NoCustomer},
                bound : Domains, admin : BOOLEAN,
                spf : SpfResults, ptr : BOOLEAN, cidr : BOOLEAN]

ASSUME GatewayAssumption ==
    /\ MaxSubmissions \in Nat /\ MaxEdits \in Nat
    /\ NoCustomer \notin Customers
    /\ CustomerOf \in [Domains -> Customers \cup {NoCustomer}]
    /\ NoDomain \in Domains /\ CustomerOf[NoDomain] = NoCustomer
    /\ Owner \in [Rules -> Customers] /\ Exceptions \subseteq Rules
    /\ Envelope \in [Msgs -> EnvelopeType]
    /\ Sessions \subseteq SessionType /\ Sessions # {}
    /\ SpfEnforce \in BOOLEAN
    /\ RateMax \in Nat
    /\ FetchAttempts \in Nat \ {0} /\ LogAttempts \in Nat \ {0}
    /\ Confidences \subseteq 0..100
    /\ InitVerified \subseteq Domains /\ InitLegacy \subseteq Domains
    /\ InitActive \subseteq Rules /\ InitAi \subseteq Customers
    /\ InitSuppressed \subseteq Customers \X Rcpts
-----------------------------------------------------------------------------
VARIABLES
    pc,         \* pc[t]: the await transaction t's handler is at
    sess,       \* sess[t]: the session it arrived on
    tries,      \* tries[t]: failed attempts of the call being retried
    data,       \* data[t]: the rules snapshot the handler works from
    ridx,       \* ridx[t]: recipients looked up and found not suppressed
    pending,    \* pending[t]: the row to log and the answer to give after it
    reply,      \* reply[t]: the answer the client got
    handing,    \* transactions whose relay call is running in a thread
    delivered,  \* <<t, rcpt>>: the relay accepted t's message for rcpt
    rows,       \* scan_logs rows: <<t, attempt, outcome>>
    used,       \* used[c]: timestamps in c's rate-limit window
    verified, legacy, active, suppressed, aiOn,  \* the backend's tables
    edits,      \* how many edits the tenants have made
    born,       \* born[t]: the value of edits when t was submitted
    mishap      \* has a call failed, a client left or the gateway crashed yet

handlerVars == <<sess, data, ridx, born>>
relayVars   == <<handing, delivered>>
tableVars   == <<verified, legacy, active, suppressed, aiOn, edits>>
vars == <<pc, tries, pending, reply, rows, used, mishap,
          handlerVars, relayVars, tableVars>>

Steps == {"unsent", "gate", "testRules", "testPolicies", "token", "rules",
          "policies", "evaluate", "ai", "suppression", "forward", "alert",
          "log", "ended"}

Replies == {"none", "lost", "250", "451", "452", "530", "550 relay",
            "550 sender", "550 domain", "550 policy", "550 ai",
            "550 suppressed"}

\* What GET /internal/rules returns; NoData stands for None.
Snapshot == [cust : Customers \cup {NoCustomer}, rules : SUBSET Rules, ai : BOOLEAN]
NoData == [cust |-> NoCustomer, rules |-> {}, ai |-> FALSE]

Outcomes == {"none", "blocked", "allowed"}

Env(t)  == Envelope[t[1]]
Live(t) == pc[t] \notin {"unsent", "ended"}

Init ==
    /\ pc = [t \in Txns |-> "unsent"]
    /\ sess = [t \in Txns |-> CHOOSE s \in Sessions : TRUE]
    /\ tries = [t \in Txns |-> 0]
    /\ data = [t \in Txns |-> NoData]
    /\ ridx = [t \in Txns |-> 0]
    /\ pending = [t \in Txns |-> [outcome |-> "none", reply |-> "none"]]
    /\ reply = [t \in Txns |-> "none"]
    /\ handing = {} /\ delivered = {} /\ rows = {}
    /\ used = [c \in Customers |-> 0]
    /\ verified = InitVerified /\ legacy = InitLegacy /\ active = InitActive
    /\ suppressed = InitSuppressed /\ aiOn = InitAi
    /\ edits = 0 /\ born = [t \in Txns |-> 0]
    /\ mishap = FALSE
-----------------------------------------------------------------------------
\* Step helpers.  Each fixes pc, tries, pending and reply.

\* Go on to step s of the handler, with a fresh retry counter.
GoTo(t, s) == /\ pc' = [pc EXCEPT ![t] = s]
              /\ tries' = [tries EXCEPT ![t] = 0]
              /\ UNCHANGED <<pending, reply>>

\* Return answer r from handle_DATA.
Answer(t, r) == /\ pc' = [pc EXCEPT ![t] = "ended"]
                /\ reply' = [reply EXCEPT ![t] = r]
                /\ UNCHANGED <<tries, pending>>

\* Go on to step s ("log" or "alert"), leaving a row to log and an answer to give.
Conclude(t, s, o, r) ==
    /\ pc' = [pc EXCEPT ![t] = s]
    /\ tries' = [tries EXCEPT ![t] = 0]
    /\ pending' = [pending EXCEPT ![t] = [outcome |-> o, reply |-> r]]
    /\ UNCHANGED reply
-----------------------------------------------------------------------------
\* The client.  It submits a message, and submits it again when the last
\* submission got a transient answer or none at all.
Submit(t, s) ==
    /\ pc[t] = "unsent"
    /\ t[2] > 1 => reply[<<t[1], t[2] - 1>>] \in {"451", "452", "lost"}
    /\ pc' = [pc EXCEPT ![t] = "gate"]
    /\ sess' = [sess EXCEPT ![t] = s]
    /\ born' = [born EXCEPT ![t] = edits]
    /\ UNCHANGED <<tries, data, ridx, pending, reply, rows, used, mishap,
                   relayVars, tableVars>>

\* _port25_authorized: SPF, then PTR, then the CIDR list, then softfail.
Port25Authorized(s) ==
    IF SpfEnforce
    THEN /\ s.spf # "fail"
         /\ s.spf \in {"pass", "temperror", "softfail"} \/ s.ptr \/ s.cidr
    ELSE s.cidr

\* The answer the port gate gives, "none" when it lets the message through.
GateAnswer(s, d) ==
    CASE s.port = 25 /\ ~Port25Authorized(s) -> "550 relay"
      [] s.port = 587 /\ s.cust = NoCustomer /\ ~s.admin -> "530"
      [] s.port = 587 /\ ~s.admin /\ s.bound \notin {NoDomain, d} -> "550 sender"
      [] OTHER -> "none"

Gate(t) ==
    LET a == GateAnswer(sess[t], Env(t).domain)
    IN  /\ pc[t] = "gate"
        /\ \/ a # "none" /\ Answer(t, a)
           \/ a = "none" /\ Env(t).test /\ GoTo(t, "testRules")
           \/ a = "none" /\ ~Env(t).test /\ GoTo(t, "rules")
        /\ UNCHANGED <<rows, used, mishap, handlerVars, relayVars, tableVars>>
-----------------------------------------------------------------------------
\* _fetch_rules against GET /internal/rules/{domain}, which the test path and
\* the normal path both call.  The endpoint reads the customer and the rules
\* on one connection and the AI settings on a second.

\* The customer row found, and verified by either flag.
Served(d) == CustomerOf[d] # NoCustomer /\ d \in verified \cup legacy

ActiveRules(c) == {r \in active : Owner[r] = c}

\* _fetch_rules returned None: unknown domain, or every attempt failed.
NoRules(t) == \/ pc[t] = "testRules" /\ GoTo(t, "rules")
              \/ pc[t] = "testPolicies" /\ GoTo(t, "rules")
              \/ pc[t] \in {"rules", "policies"} /\ Answer(t, "550 domain")

\* Mutant: the query forgets "active = true".
ReadRulesMutant(t) ==
    LET d == Env(t).domain
    IN  /\ pc[t] \in {"testRules", "rules"}
        /\ \/ /\ Served(d)
              /\ data' = [data EXCEPT ![t] = [cust |-> CustomerOf[d],
                                              rules |-> {r \in Rules : Owner[r] = CustomerOf[d]},
                                              ai |-> FALSE]]
              /\ pc' = [pc EXCEPT ![t] = IF @ = "rules" THEN "policies" ELSE "testPolicies"]
              /\ UNCHANGED <<tries, pending, reply>>
           \/ /\ ~Served(d)
              /\ data' = [data EXCEPT ![t] = NoData]
              /\ NoRules(t)
        /\ UNCHANGED <<sess, ridx, born, rows, used, mishap, relayVars, tableVars>>

ReadRules(t) ==
    LET d == Env(t).domain
    IN  /\ pc[t] \in {"testRules", "rules"}
        /\ \/ /\ Served(d)
              /\ data' = [data EXCEPT ![t] = [cust |-> CustomerOf[d],
                                              rules |-> ActiveRules(CustomerOf[d]),
                                              ai |-> FALSE]]
              /\ pc' = [pc EXCEPT ![t] = IF @ = "rules" THEN "policies" ELSE "testPolicies"]
              /\ UNCHANGED <<tries, pending, reply>>
           \/ /\ ~Served(d)
              /\ data' = [data EXCEPT ![t] = NoData]
              /\ NoRules(t)
        /\ UNCHANGED <<sess, ridx, born, rows, used, mishap, relayVars, tableVars>>

ReadPolicies(t) ==
    /\ pc[t] \in {"testPolicies", "policies"}
    /\ data' = [data EXCEPT ![t].ai = data[t].cust \in aiOn]
    /\ GoTo(t, IF pc[t] = "policies" THEN "evaluate" ELSE "token")
    /\ UNCHANGED <<sess, ridx, born, rows, used, mishap, relayVars, tableVars>>

\* An attempt timed out or was answered with an error.
FetchFails(t) ==
    /\ pc[t] \in {"testRules", "testPolicies", "rules", "policies"}
    /\ mishap' = TRUE
    /\ data' = [data EXCEPT ![t] = NoData]
    /\ IF tries[t] + 1 < FetchAttempts
       THEN /\ pc' = [pc EXCEPT ![t] = IF @ \in {"rules", "policies"}
                                       THEN "rules" ELSE "testRules"]
            /\ tries' = [tries EXCEPT ![t] = @ + 1]
            /\ UNCHANGED <<pending, reply>>
       ELSE NoRules(t)
    /\ UNCHANGED <<sess, ridx, born, rows, used, relayVars, tableVars>>

\* verify_test_token.  A token minted for the customer may have expired.
TestToken(t) ==
    /\ pc[t] = "token"
    /\ \/ /\ Env(t).token = data[t].cust
          /\ Conclude(t, "log", "allowed", "250")
       \/ GoTo(t, "rules")
    /\ UNCHANGED <<rows, used, mishap, handlerVars, relayVars, tableVars>>
-----------------------------------------------------------------------------
\* The rules that make a message blocked, given the rules in force: a normal
\* rule matches, and no exception does.
Blocks(rs, matching) == /\ (rs \cap matching) \ Exceptions # {}
                        /\ rs \cap matching \cap Exceptions = {}

\* Rate limit and rule evaluation: no await in between.  is_allowed is taken
\* as one step here; module RateLimiterThreads has its steps.
Evaluate(t) ==
    LET c == data[t].cust
    IN  /\ pc[t] = "evaluate"
        /\ \/ /\ used[c] >= RateMax
              /\ Conclude(t, "alert", "none", "452")
              /\ UNCHANGED used
           \/ /\ used[c] < RateMax
              /\ used' = [used EXCEPT ![c] = @ + 1]
              /\ IF Blocks(data[t].rules, Env(t).rules)
                 THEN Conclude(t, "log", "blocked", "550 policy")
                 ELSE GoTo(t, IF data[t].ai THEN "ai" ELSE "suppression")
        /\ UNCHANGED <<rows, mishap, handlerVars, relayVars, tableVars>>

\* A "flag" blocks from this confidence on.
FlagThreshold == 70

\* scan_email in a worker thread: a verdict, or None on any error.
AiScan(t) ==
    /\ pc[t] = "ai"
    /\ \/ \E decision \in {"flag", "pass"}, confidence \in Confidences :
            /\ IF decision = "flag" /\ confidence >= FlagThreshold
               THEN Conclude(t, "log", "blocked", "550 ai")
               ELSE GoTo(t, "suppression")
            /\ UNCHANGED mishap
       \/ /\ GoTo(t, "suppression")
          /\ mishap' = TRUE
    /\ UNCHANGED <<rows, used, handlerVars, relayVars, tableVars>>

\* Mutant: only the first recipient is looked up.
LookUpMutant(t) ==
    LET first == <<data[t].cust, Env(t).rcpts[1]>>
    IN  /\ pc[t] = "suppression" /\ ridx[t] = 0
        /\ \/ /\ first \in suppressed
              /\ Conclude(t, "log", "blocked", "550 suppressed")
              /\ UNCHANGED <<ridx, mishap>>
           \/ /\ first \notin suppressed
              /\ ridx' = [ridx EXCEPT ![t] = Len(Env(t).rcpts)]
              /\ UNCHANGED <<pc, tries, pending, reply, mishap>>
        /\ UNCHANGED <<sess, data, born, rows, used, relayVars, tableVars>>

\* _is_suppressed for the next recipient; a failed lookup lets it pass.
LookUp(t) ==
    LET rcpts == Env(t).rcpts
    IN  /\ pc[t] = "suppression"
        /\ ridx[t] < Len(rcpts)
        /\ \/ /\ <<data[t].cust, rcpts[ridx[t] + 1]>> \in suppressed
              /\ Conclude(t, "log", "blocked", "550 suppressed")
              /\ UNCHANGED <<ridx, mishap>>
           \/ /\ \/ /\ <<data[t].cust, rcpts[ridx[t] + 1]>> \notin suppressed
                    /\ UNCHANGED mishap
                 \/ mishap' = TRUE
              /\ ridx' = [ridx EXCEPT ![t] = @ + 1]
              /\ UNCHANGED <<pc, tries, pending, reply>>
        /\ UNCHANGED <<sess, data, born, rows, used, relayVars, tableVars>>

\* Mutant: the relay call is started and not awaited.
StartForwardMutant(t) ==
    /\ pc[t] = "suppression"
    /\ ridx[t] = Len(Env(t).rcpts)
    /\ Answer(t, "250")
    /\ handing' = handing \cup {t}
    /\ UNCHANGED <<delivered, rows, used, mishap, handlerVars, tableVars>>

\* run_in_executor(_forward_via_mailgun_smtp).
StartForward(t) ==
    /\ pc[t] = "suppression"
    /\ ridx[t] = Len(Env(t).rcpts)
    /\ GoTo(t, "forward")
    /\ handing' = handing \cup {t}
    /\ UNCHANGED <<delivered, rows, used, mishap, handlerVars, tableVars>>
-----------------------------------------------------------------------------
\* The relay call's thread.  What it returns reaches the handler if that is
\* still there.
RcptSet(t) == {Env(t).rcpts[i] : i \in DOMAIN Env(t).rcpts}

Take(t, rs) == delivered' = delivered \cup {<<t, r>> : r \in rs}

\* sendmail returns: the relay accepted at least one recipient.
RelayAccepts(t) ==
    /\ t \in handing
    /\ handing' = handing \ {t}
    /\ \E rs \in (SUBSET RcptSet(t)) \ {{}} : Take(t, rs)
    /\ IF pc[t] = "forward" THEN Conclude(t, "log", "allowed", "250")
       ELSE UNCHANGED <<pc, tries, pending, reply>>
    /\ UNCHANGED <<rows, used, mishap, handlerVars, tableVars>>

\* Mutants: the exception is swallowed; it is answered as a permanent failure;
\* it is logged as a success.
RelayFailsAs(t, s, o, r) ==
    /\ t \in handing
    /\ handing' = handing \ {t}
    /\ \E rs \in SUBSET RcptSet(t) : Take(t, rs)
    /\ IF pc[t] = "forward" THEN Conclude(t, s, o, r)
       ELSE UNCHANGED <<pc, tries, pending, reply>>
    /\ mishap' = TRUE
    /\ UNCHANGED <<rows, used, handlerVars, tableVars>>
RelayFailsSwallowed(t) == RelayFailsAs(t, "log", "allowed", "250")
RelayFailsPermanent(t) == RelayFailsAs(t, "alert", "blocked", "550 relay")
RelayFailsAllowed(t)   == RelayFailsAs(t, "alert", "allowed", "451")

\* It raises: before the message was taken, or after (the relay's answer or
\* the closing QUIT was lost).
RelayFails(t) ==
    /\ t \in handing
    /\ handing' = handing \ {t}
    /\ \E rs \in SUBSET RcptSet(t) : Take(t, rs)
    /\ IF pc[t] = "forward" THEN Conclude(t, "alert", "blocked", "451")
       ELSE UNCHANGED <<pc, tries, pending, reply>>
    /\ mishap' = TRUE
    /\ UNCHANGED <<rows, used, handlerVars, tableVars>>
-----------------------------------------------------------------------------
\* _send_admin_alert_async returns, whatever happens to the alert.
Alert(t) ==
    /\ pc[t] = "alert"
    /\ IF pending[t].outcome = "none" THEN Answer(t, pending[t].reply)
       ELSE GoTo(t, "log")
    /\ UNCHANGED <<rows, used, mishap, handlerVars, relayVars, tableVars>>

\* POST /internal/scan-log accepts a row when the sender is null or its domain
\* is a verified customer_domains row.
Loggable(t) == Env(t).nullSender \/ Env(t).domain \in verified

Insert(t) == rows' = rows \cup {<<t, tries[t], pending[t].outcome>>}

\* Mutant: after the last attempt the count starts anew.
LogAgainMutant(t) == /\ tries' = [tries EXCEPT ![t] = (@ + 1) % LogAttempts]
                     /\ UNCHANGED <<pc, pending, reply>>

\* An attempt of _log_scan failed: another one, or on to the answer.
LogAgain(t) == IF tries[t] + 1 < LogAttempts
               THEN /\ tries' = [tries EXCEPT ![t] = @ + 1]
                    /\ UNCHANGED <<pc, pending, reply>>
               ELSE Answer(t, pending[t].reply)

\* Mutant: the loop does not return on a 201.
LogScanMutant(t) ==
    /\ pc[t] = "log"
    /\ \/ Loggable(t) /\ Insert(t) /\ LogAgain(t) /\ UNCHANGED mishap
       \/ ~Loggable(t) /\ LogAgain(t) /\ UNCHANGED <<rows, mishap>>
    /\ UNCHANGED <<used, handlerVars, relayVars, tableVars>>

LogScan(t) ==
    /\ pc[t] = "log"
    /\ \/ Loggable(t) /\ Insert(t) /\ Answer(t, pending[t].reply) /\ UNCHANGED mishap
       \/ ~Loggable(t) /\ LogAgain(t) /\ UNCHANGED <<rows, mishap>>
       \/ Loggable(t) /\ Insert(t) /\ LogAgain(t) /\ mishap' = TRUE
       \/ LogAgain(t) /\ mishap' = TRUE /\ UNCHANGED rows
    /\ UNCHANGED <<used, handlerVars, relayVars, tableVars>>
-----------------------------------------------------------------------------
\* The client goes away: aiosmtpd cancels the handler at its await.  A relay
\* call goes on, unless it was still queued for a thread.
Disconnect(t) ==
    /\ Live(t)
    /\ Answer(t, "lost")
    /\ mishap' = TRUE
    /\ handing' \in {handing, handing \ {t}}
    /\ UNCHANGED <<delivered, rows, used, handlerVars, tableVars>>

\* The gateway process dies, with its threads and its in-memory windows.
Crash ==
    /\ \E t \in Txns : Live(t) \/ t \in handing
    /\ pc' = [t \in Txns |-> IF Live(t) THEN "ended" ELSE pc[t]]
    /\ reply' = [t \in Txns |-> IF Live(t) THEN "lost" ELSE reply[t]]
    /\ handing' = {}
    /\ used' = [c \in Customers |-> 0]
    /\ mishap' = TRUE
    /\ UNCHANGED <<tries, pending, delivered, rows, handlerVars, tableVars>>

\* Mutant: a timestamp is dropped from an empty window.
WindowSlidesMutant(c) ==
    /\ used' = [used EXCEPT ![c] = @ - 1]
    /\ UNCHANGED <<pc, tries, pending, reply, rows, mishap,
                   handlerVars, relayVars, tableVars>>

\* The oldest timestamp of a customer's window expires.
WindowSlides(c) ==
    /\ used[c] > 0
    /\ used' = [used EXCEPT ![c] = @ - 1]
    /\ UNCHANGED <<pc, tries, pending, reply, rows, mishap,
                   handlerVars, relayVars, tableVars>>
-----------------------------------------------------------------------------
\* What tenants, webhooks and the admin change under the gateway's feet.
EditRule == /\ \/ \E r \in Rules \ active : active' = active \cup {r}
               \/ \E r \in active : active' = active \ {r}
            /\ UNCHANGED <<verified, legacy, suppressed, aiOn>>

EditAi == /\ \/ \E c \in Customers \ aiOn : aiOn' = aiOn \cup {c}
             \/ \E c \in aiOn : aiOn' = aiOn \ {c}
          /\ UNCHANGED <<verified, legacy, active, suppressed>>

Suppress == /\ \E c \in Customers, a \in Rcpts : suppressed' = suppressed \cup {<<c, a>>}
            /\ UNCHANGED <<verified, legacy, active, aiOn>>

\* delete_by_email releases the address for every customer.
Release == /\ \E a \in Rcpts : suppressed' = {row \in suppressed : row[2] # a}
           /\ UNCHANGED <<verified, legacy, active, aiOn>>

OwnedDomains == {d \in Domains : CustomerOf[d] # NoCustomer}

VerifyDomain == /\ \E d \in OwnedDomains : verified' = verified \cup {d}
                /\ UNCHANGED <<legacy, active, suppressed, aiOn>>

RemoveDomain == /\ \E d \in verified : verified' = verified \ {d}
                /\ UNCHANGED <<legacy, active, suppressed, aiOn>>

\* The single-domain flow sets customers.domain_verified, and nothing clears it.
VerifyLegacy == /\ \E d \in OwnedDomains : legacy' = legacy \cup {d}
                /\ UNCHANGED <<verified, active, suppressed, aiOn>>

TenantEdit ==
    /\ edits < MaxEdits
    /\ edits' = edits + 1
    /\ \/ EditRule \/ EditAi \/ Suppress \/ Release
       \/ VerifyDomain \/ RemoveDomain \/ VerifyLegacy
    /\ UNCHANGED <<pc, tries, pending, reply, rows, used, mishap,
                   handlerVars, relayVars>>
-----------------------------------------------------------------------------
HandlerStep(t) ==
    \/ Gate(t) \/ ReadRules(t) \/ ReadPolicies(t) \/ FetchFails(t) \/ TestToken(t)
    \/ Evaluate(t) \/ AiScan(t) \/ LookUp(t) \/ StartForward(t) \/ Alert(t)
    \/ LogScan(t)

RelayStep(t) == RelayAccepts(t) \/ RelayFails(t)

Next ==
    \/ \E t \in Txns : \/ \E s \in Sessions : Submit(t, s)
                       \/ HandlerStep(t) \/ RelayStep(t) \/ Disconnect(t)
    \/ \E c \in Customers : WindowSlides(c)
    \/ Crash \/ TenantEdit

Spec == Init /\ [][Next]_vars

\* Every await of the handler ends (each call has a timeout), and so does the
\* relay call (its socket has one); the two event loops run what is ready.
Fairness == \A t \in Txns : WF_vars(HandlerStep(t)) /\ WF_vars(RelayStep(t))

FairSpec == Spec /\ Fairness
-----------------------------------------------------------------------------
ControlTypeOK == /\ pc \in [Txns -> Steps]
                 /\ tries \in [Txns -> Nat]
                 /\ pending \in [Txns -> [outcome : Outcomes, reply : Replies]]
                 /\ reply \in [Txns -> Replies]

HandlerTypeOK == /\ sess \in [Txns -> Sessions]
                 /\ data \in [Txns -> Snapshot]
                 /\ ridx \in [Txns -> Nat]
                 /\ born \in [Txns -> Nat]

RelayTypeOK == /\ handing \subseteq Txns
               /\ delivered \subseteq Txns \X Rcpts

TableTypeOK == /\ verified \subseteq Domains /\ legacy \subseteq Domains
               /\ active \subseteq Rules /\ aiOn \subseteq Customers
               /\ suppressed \subseteq Customers \X Rcpts
               /\ edits \in Nat

\* Every variable has its type: the steps, answers, rows and counters that
\* handle_DATA can produce.
TypeOK == /\ ControlTypeOK /\ HandlerTypeOK /\ RelayTypeOK /\ TableTypeOK
          /\ rows \subseteq Txns \X Nat \X Outcomes
          /\ used \in [Customers -> Nat]
          /\ mishap \in BOOLEAN

\* The relay took t's message for some recipient.
Handed(t) == \E r \in Rcpts : <<t, r>> \in delivered

\* The transactions that may be answered as a connection test.
Exempt == {t \in Txns : /\ Env(t).test
                        /\ Env(t).token \in Customers
                        /\ Env(t).token = CustomerOf[Env(t).domain]}

\* No tenant edited anything since t was submitted.
Undisturbed(t) == born[t] = edits

\* A 250 is final for the client's server, which then forgets the message: so
\* the relay holds the message, whatever failed on the way, unless it was a
\* connection test (handle_DATA's two "250 OK" returns).
AcceptedWasHandedOver ==
    \A t \in Txns : reply[t] = "250" => Handed(t) \/ t \in Exempt

\* A refusal, permanent or for the rate limit, means the message went nowhere,
\* now or later: no relay call is running for it and none has delivered it.
RefusedNeverHandedOver ==
    \A t \in Txns :
        reply[t] \notin {"none", "lost", "250", "451"} => t \notin handing /\ ~Handed(t)

\* The tenant's rules hold for what leaves the gateway: a message handed to the
\* relay is one that the rules now in the table let through, if nobody edited
\* them since it was submitted.  Fetch retries, the test path's own fetch and
\* calls left running by a disconnect make no difference.
RulesApplied ==
    \A t \in Txns :
        (t \in handing \/ Handed(t)) /\ Undisturbed(t) =>
            ~Blocks(ActiveRules(CustomerOf[Env(t).domain]), Env(t).rules)

\* One suppressed recipient holds back the whole message, wherever it stands in
\* the list, as long as no lookup failed (a failed lookup lets it pass).
SuppressedHoldsBack ==
    \A t \in Txns :
        (t \in handing \/ Handed(t)) /\ Undisturbed(t) /\ ~mishap =>
            \A r \in RcptSet(t) : <<CustomerOf[Env(t).domain], r>> \notin suppressed

Attempts == 0..(LogAttempts - 1)

\* The scan log never contradicts what happened: an "allowed" row is about a
\* message the relay took (or a test) that was not refused, a "blocked" row
\* about one that was not accepted, and retried rows agree.
RowsTellTheTruth ==
    \A t \in Txns, k \in Attempts :
        /\ <<t, k, "allowed">> \in rows =>
              /\ Handed(t) \/ t \in Exempt
              /\ reply[t] \in {"none", "lost", "250"}
        /\ <<t, k, "blocked">> \in rows =>
              reply[t] \in {"none", "lost", "451", "550 policy", "550 ai", "550 suppressed"}
        /\ <<t, k, "none">> \notin rows

\* Answers that come with a row in the scan log.
LoggedReplies == {"250", "451", "550 policy", "550 ai", "550 suppressed"}

RowsOf(t) == {row \in rows : row[1] = t}

\* While nothing fails, an answered transaction of a sender the backend accepts
\* rows for has exactly one row: neither the retry loop nor the two logging
\* paths of one handler lose or double it.
LoggedOnce ==
    \A t \in Txns :
        ~mishap /\ Undisturbed(t) /\ Loggable(t) /\ reply[t] \in LoggedReplies =>
            Cardinality(RowsOf(t)) = 1

\* Every transaction ends, however many calls fail: the retry loops give up.
EveryTransactionEnds ==
    \A t \in Txns : pc[t] = "gate" ~> pc[t] = "ended"

\* The gateway keeps the promise of module RelayPromise.
AnswerOf(t) == CASE pc[t] = "unsent" -> "unsent"
                 [] pc[t] \in Steps \ {"unsent", "ended"} -> "open"
                 [] pc[t] = "ended" /\ reply[t] = "250" -> "accepted"
                 [] pc[t] = "ended" /\ reply[t] = "451" -> "deferred"
                 [] pc[t] = "ended" /\ reply[t] = "lost" -> "lost"
                 [] OTHER -> "rejected"

Promise == INSTANCE RelayPromise WITH
               answer <- [t \in Txns |-> AnswerOf(t)],
               handed <- {t \in Txns : Handed(t)}

KeepsPromise == Promise!PromiseSpec
-----------------------------------------------------------------------------
\* Why it is so: the inductive invariant behind the properties above, one
\* transaction at a time.

\* t's message is on its way to the relay or has reached it.
Sent(t) == t \in handing \/ Handed(t)

\* A running relay call belongs to a handler that waits for it or was lost.
HandingOk(t) ==
    t \in handing => /\ ~Handed(t)
                     /\ pc[t] = "forward" \/ reply[t] = "lost"

\* What remains for the handler of a message that was handed over.
HandedOk(t) ==
    Handed(t) => \/ pc[t] \in {"alert", "log"} /\ pending[t].reply \in {"250", "451"}
                 \/ reply[t] \in {"250", "451", "lost"}

\* The row to log and the answer to give agree with each other and with the relay.
PendingOk(t) ==
    /\ pc[t] = "alert" => \/ pending[t].outcome = "none" /\ pending[t].reply = "452"
                          \/ pending[t].outcome = "blocked" /\ pending[t].reply = "451"
    /\ pc[t] = "log" =>
          \/ /\ pending[t].outcome = "allowed" /\ pending[t].reply = "250"
             /\ Handed(t) \/ t \in Exempt
          \/ /\ pending[t].outcome = "blocked"
             /\ pending[t].reply \in {"451", "550 policy", "550 ai", "550 suppressed"}

RepliedOk(t) ==
    /\ reply[t] = "none" <=> pc[t] # "ended"
    /\ reply[t] = "250" => Handed(t) \/ t \in Exempt

\* A row of t that has been written, and what its handler does after it.
RowsOk(t) ==
    \A k \in Attempts :
        /\ <<t, k, "allowed">> \in rows =>
              /\ Handed(t) \/ t \in Exempt
              /\ \/ pc[t] = "log" /\ pending[t].outcome = "allowed"
                 \/ reply[t] \in {"lost", "250"}
        /\ <<t, k, "blocked">> \in rows =>
              \/ pc[t] = "log" /\ pending[t].outcome = "blocked"
              \/ reply[t] \in {"lost", "451", "550 policy", "550 ai", "550 suppressed"}
        /\ <<t, k, "none">> \notin rows

\* The steps at which the handler works from the snapshot it fetched.
DataSteps == {"testPolicies", "token", "policies", "evaluate", "ai", "suppression"}

\* The steps of the connection test's path.
TestSteps == {"testRules", "testPolicies", "token"}

\* The snapshot is the customer's, up to date unless the tenant has made an
\* edit, and past Evaluate it does not block the message.
DataOk(t) ==
    /\ born[t] <= edits
    /\ pc[t] \in TestSteps => Env(t).test
    /\ pc[t] \in DataSteps => /\ data[t].cust = CustomerOf[Env(t).domain]
                              /\ data[t].cust \in Customers
    /\ (pc[t] \in DataSteps \/ Sent(t)) /\ Undisturbed(t) =>
          data[t].rules = ActiveRules(CustomerOf[Env(t).domain])
    /\ pc[t] \in {"ai", "suppression"} \/ Sent(t) =>
          ~Blocks(data[t].rules, Env(t).rules)

\* The recipients looked up so far are not suppressed.
LookedUpOk(t) ==
    /\ pc[t] \in {"unsent", "gate", "testRules", "testPolicies", "token", "rules",
                  "policies", "evaluate", "ai"} => ridx[t] = 0
    /\ pc[t] = "suppression" \/ Sent(t) => ridx[t] <= Len(Env(t).rcpts)
    /\ Sent(t) => ridx[t] = Len(Env(t).rcpts)
    /\ (pc[t] = "suppression" \/ Sent(t)) /\ Undisturbed(t) /\ ~mishap =>
          \A i \in 1..ridx[t] :
              <<CustomerOf[Env(t).domain], Env(t).rcpts[i]>> \notin suppressed

TxnInv(t) == /\ HandingOk(t) /\ HandedOk(t) /\ PendingOk(t) /\ RepliedOk(t)
             /\ RowsOk(t) /\ DataOk(t) /\ LookedUpOk(t)

\* The row, the snapshot, the answer and the relay's state of every transaction
\* stay consistent with each other through every interleaving.
GatewayInv == \A t \in Txns : TxnInv(t)
=============================================================================
