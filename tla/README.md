# SenderSafety in TLA+

Formal models of SenderSafety: a service that filters the outgoing mail of its
customers. A customer's mail server hands its mail to the SMTP gateway, which asks the
backend for the customer's rules, evaluates them, has a language model look at the
message if the customer wants that, checks the recipients against the suppression list,
forwards the message through Mailgun's relay and logs the outcome. Customers manage
domains, rules and policies in a dashboard over the backend's API; Mailgun reports
bounces and complaints to a webhook.

The modules are translated from the code in `src/`, not from its documentation.
`PROJECT.json` maps every definition to the lines it stands for.

## The system

| Component | State it keeps | Operations | What makes it correct |
|---|---|---|---|
| SMTP gateway, message handling (`smtp/main.py`, `SafeSenderHandler`) | one coroutine per transaction with its snapshot of the rules; nothing on disk | `handle_DATA`: port gate, connection test, `_fetch_rules`, rate limit, rules, AI scan, `_is_suppressed`, forward, alert, `_log_scan`, answer | 250 means handed over; a refusal means nothing went out; rules and suppressions hold; log and answers agree; every transaction ends |
| Gateway, rate limiter (`RateLimiter`) | one deque of timestamps per customer, shared by the threads of both controllers | `is_allowed` | at most `RATE_LIMIT_MAX` messages in any window |
| Gateway, alerts (`_send_admin_alert`) | last alert per key | report, check, post | one alert per cooldown |
| Gateway, login (`Authenticator`) | the session | seal the password, ask the backend | the right customer, or none |
| Internal API (`backend/main.py`, `internal_*.py`) | tables `customers`, `customer_domains`, `rules`, `ai_policies`, `scan_logs`, `suppressed_addresses` | `/internal/rules`, `scan-log`, `suppressed`, `smtp-auth` | answers about the right customer, in one consistent state |
| Shared secret (`internal_auth.py`, `internal_auth_crypto.py`) | current and previous secret; nonce cache | require the header, open a sealed password, rotate | no traffic is dropped by a rotation |
| Webhook (`mailgun_validator.py`, `routers/webhooks.py`, `services/webhooks.py`) | cache of seen tokens, in memory | check, record, upsert | each event acted on once |
| Domains (`services/customers.py`) | `customer_domains` rows, TXT tokens | add, initialise, check, remove | a verified domain is controlled by its customer |
| API rate limiter (`security/rate_limit.py`) | one arrival time per key in Redis, and one in the process | the GCRA script, the local fallback | bursts and rates bounded, in an outage too |
| Connection pool (`db.py`, `deps.py`) | ten connections | acquire, return | none leaks, every request is answered |
| Rules and policies store (`services/rules.py`, `routers/ai_policies.py`) | tables | create, update, deactivate, with caps | caps; every stored regex compiles; an update finds its row |
| Connection test jobs (`services/customers.py`) | one entry and one task per test, in memory | start, count, send, poll, status, prune | every test gets a verdict, and keeps it |
| Logs (`services/logs.py`, `repositories/scan_logs.py`) | table `scan_logs` | a page: count, select | a walk through the pages misses nothing that was there |
| Credentials (`services/customers.py`) | password hash | rotate, show once | the password shown last works |
| Accounts (`routers/auth.py`, `services/auth.py`, `oauth_redirect.py`) | `customers` rows; signed state and session cookies in the browser | start, callback, exchange, find or insert, set cookies, welcome, log out | a session belongs to who granted it in that browser; one account per company |
| Admin panel (`routers/admin.py`, `services/admin.py`) | tables `admin_rate_limit`, `admin_audit` | allowlist, limiter, secret, remove a suppression, audit | what is answered was done and audited; the counter keeps its cap |
| Dashboard | browser state | calls the API | see "Not modelled" |

The parts meet as follows. The gateway calls the backend over HTTP with a shared secret
and a timeout on each call; each call may fail, or succeed and lose its answer. The
backend's handlers are coroutines on one event loop and share the pool; each statement
commits by itself, so two requests interleave between any two statements. The webhook
and the admin change the suppression list, the customers the other tables, while the
gateway works on a snapshot. The gateway's two controllers run in two threads and share
the rate limiter.

What is hard: a message must not be lost or refused *and* delivered although every call
may fail, the client may leave (which cancels the handler but not the relay call in its
executor thread) and the process may die at any await; a snapshot is used several
awaits after it was read; retries repeat calls whose first attempt took effect; windows,
caches and buckets have edges; the services are deployed one at a time.

## Modules

| Module | What it models |
|---|---|
| `SmtpGateway` | `handle_DATA` for any number of concurrent transactions, with the endpoints it calls and the tenants' edits under its feet |
| `RelayPromise` | what the gateway promises about a transaction, without saying how |
| `RateLimiterThreads` | `is_allowed`, one dict or deque operation a step, on one thread or two |
| `SlidingWindow` | the sliding window that it is meant to be |
| `BounceWebhook` | the webhook's replay protection and its write, with redelivery, overflow and restart |
| `AdminPanel` | the panel's guard and its one write, over the rows of `BounceWebhook` |
| `Domains` | the multi-domain flow, one database statement a step |
| `CustomerDomains` | `Domains` with the older single-domain flow, whose TXT records have the same name, and the SMTP session that uses a domain |
| `Gcra` | one bucket of the API limiter in Redis and in the process, with outages and lost entries |
| `ConnPool` | requests by the way they hold connections |
| `TestJobs` | connection tests and log pages over the pool |
| `SecretRotation` | rotating the shared secret with calls in flight |
| `Credentials` | test tokens and password rotations beside `SecretRotation` |
| `Accounts` | signing in: two redirect flows, a popup flow, accounts, cookies, welcome mails |
| `RuleStore` | one customer's rules and policies under concurrent edits |
| `*_proofs` | the theorems about the module they are named after, and about the one it extends or implements; `PoolAndStore_proofs` about `TestJobs`, `ConnPool` and `RuleStore` |
| `MC*` | values of the constants for TLC |

### How state and actions correspond to the code

**SmtpGateway.** A transaction is a message and the number of its submission; the client
submits again after a 4xx or when it got no answer, never after 250 or 5xx. `pc[t]` is
the await at which the handler is suspended, so an action is the code between two
awaits: `Gate` (port gate, SPF or login, and the test for a connection test), `ReadRules`
and `ReadPolicies` (the two connections of `/internal/rules`: two moments),
`FetchFails` (one attempt of `_fetch_rules` fails), `TestToken`, `Evaluate` (rate limit,
then rules), `AiScan`, `LookUp` (one recipient), `StartForward`, `RelayAccepts`,
`RelayFails` (before or after the relay took the message), `Alert`, `LogScan` (one
attempt: refused, lost before the insert, lost after it, done). `Disconnect` cancels
one handler at its await and `Crash` loses all of them; a relay call that runs in its
thread survives a disconnect, not a crash. `TenantEdit` changes one table. `data[t]` is
the snapshot, `pending[t]` the row to log and the answer to give afterwards,
`delivered` what the relay holds. `born`, `edits` and `mishap` are history variables: they
say whether the tenants edited anything since a submission and whether any call has
failed. A message is the set of rules that match it; the model's verdict is a choice.

**RateLimiterThreads.** The GIL makes one dict or deque operation atomic and no more, so
each is a step: the test for the key, the creation, the binding, the test of the oldest
timestamp, `popleft`, `len`, `append`. A deque is named for the thread that created it.

**BounceWebhook.** The validator has no await and is one action; the upsert comes after
one. The code records the token before it compares the signature, and `Deliver` does.

**Domains.** `req[r]` holds a request's next statement and its locals. A request waits
between statements and during the DNS lookup. Tokens are drawn fresh.

**Gcra.** `Admit` and `Refuse` are the script's two ends, the same for Redis and the local
bucket. `RedisFails` is a call whose round trip fails after the script ran or before;
`FallBack` is what `check_limit` does then, by policy. `Forget` loses an entry (Redis
restarts or evicts, the backend restarts, the local LRU drops). Times are in the
unit of the emission interval; the script's milliseconds are a scale.

**ConnPool.** Four shapes of handlers: `scoped` (one connection throughout), `serial`
(one, returned, then another), `nested` (a second while holding the first: every route
of `ai_policies.py`, admin performance), `health` (gives up after a second).

**SecretRotation.** The steps that `internal_auth.py` documents, a roll-back of the
gateway's step, and calls that carry the secret the gateway had when it sent them.

**Credentials** adds to it what else the secret signs, the test token (`Mint` at the backend,
`TakeTestMail` at the gateway), and `rotate_smtp_password`: `Rotate` draws and hashes,
`StoreHash` and `StoreFails` are the update (which may be committed and yet answer 500),
`Show` is the answer. `uncertain` is a history variable: rotations overlapped, or one failed.

**CustomerDomains** extends `Domains`: `InitPrimary`, `SetPrimaryToken`, `CheckPrimary`,
`LookupPrimary`, `MarkPrimary` are the statements of the older flow on the domain an account
was registered with. Both flows look for their tokens under `_sendersafety.<name>`,
so `dns` is shared. `LogIn` is `smtp_auth`, whose domain the gateway keeps till `Quit`.

**TestJobs** extends `ConnPool`: a test's task is started by a scoped request and keeps the
handle of its connection; asyncpg detaches that handle when the request returns it (`Attached`).
`CountBefore`, `SendTestEmail`, `Poll`, `Deadline` are the task's awaits, `Age` and `Status`
the entry's TTL and its pruning. `CountRows` and `FetchRows` are the two statements of a log
page; `walk` is a client that opens page after page. Rows take their `created_at` when their
insert begins and become visible when it commits, in any order. `mishap` is a history variable:
the tests that had a reason to fail outside of themselves (a statement that failed, a conversation
that the gateway did not take, ten seconds without a row). A statement on a detached handle is none.

**AdminPanel** extends `BounceWebhook`. `Call` is the allowlist, `Hit` and `HitFails` the
limiter's upsert with its occasional purge (every failure lets the call pass), `CheckSecret`
the credentials, `Refuse` the audit of a refusal, `Remove`, `RemoveFails` (before the DELETE is
committed, or after) and `Audit` the handler.

**Accounts.** A call is a request with the cookie its browser sent, and `req[c].pc` the
await its handler is at. `Start` draws a state and overwrites the browser's cookie for that
provider, `Consent` issues a code, `Callback` brings state and code from any browser to the
backend (a reload, a second tab, another browser), `CheckState`, `Exchange`, `VerifyGoogle` or
`UserInfo`, `FindBySub`, `GuardDomain` or `GuardEmail`, `Insert*` are the handler's steps,
`Land` is the answer's arrival, or its loss. `Popup` is the older flow without a state.
A `fault` is an exception nobody catches: a 500, with the cookies as they were.

**RuleStore.** A request holds between its check and its write what it has read. A pattern
is `plain` or `broken`, which matters for a regex alone. `raced` is a history variable: the rules
of which an update gave the column that a pending one had been validated with (`Crosses`). Every
other overlap of two updates has to be harmless.

### Abstractions worth knowing

* `ReadRules` and `ReadPolicies` are one moment each, although each runs two statements on its
  connection: the customer and then the rules, the flag and then the policies.
* `LogScan` joins the endpoint's domain check and its INSERT. A POST whose answer is lost may have
  inserted, but none inserts after the gateway has stopped waiting.
* A suppression belongs to a customer. Rows without one (`upsert_global`, and the lookup under
  `SUPPRESSION_LEGACY_NULL=1`) are not modelled.
* `CheckPrimary` reads the flag and the token in one moment, `_run_test_smtp_connection`'s count cannot
  collide with the release of its connection at the very moment it runs: it finds the handle
  attached or detached.

## Runs

TLC runs with `tlc -config <run>.cfg <module>`. Deadlock is checked in the runs that do not
say otherwise; in the others the bounds stop the clock, the calls or the submissions.

| Run | Module | Shows | Bounds |
|---|---|---|---|
| `gateway_retry` | MCSmtpGateway | type; 250 means handed over; refused means nothing out, ever; log rows agree with relay and answer; the inductive invariant; implements `RelayPromise`; every transaction ends | one message to two recipients, two submissions (enough for a retry to overlap the relay call that the first one left running), 2 fetch and 3 log attempts |
| `gateway_tenant` | MCSmtpGateway | rules and suppressions in force hold for what leaves; one row per answered transaction | a message and a connection test, one edit, one message per window, a peer that passes the gate and one that does not; 2 attempts |
| `limiter_one` | MCRateLimiterThreads | one thread keeps the cap, refuses only at the cap, implements `SlidingWindow` | cap 2, window 2, 7 calls over 7 ticks: several windows fill and drain |
| `limiter_two` | MCRateLimiterThreads | **violated**: the cap, with two threads | cap 2, 3 calls each |
| `webhook` | MCAdminPanel | a token the cache has not lost is accepted once; what the panel answers is what it did and audited; its counter lets at most the limit pass in a minute | 2 tokens, cache of 1 (so it overflows), tolerance 1, 4 ticks (so tokens become stale and expire); two IPs, one allowed; limit 2 of 3 calls; 2 minutes, the first of which the purge may remove |
| `domains` | MCCustomerDomains | who is verified in either flow controls the name; so does who sends | two customers, two names, one of them managed by both; two requests of the newer flow, one of the older; two tokens, one session |
| `gcra` | MCGcra | each bucket's cap; the sum through an outage; honest refusals | interval 2, burst 4, key life 4 (the tightest the assumption allows), 5 calls, 2 lost replies, 1 lost entry |
| `pool` | MCTestJobs | no leak, no shared connection, every request answered; a test settles for good; a page walk misses only what arrived within its last page | 2 connections, one request of each shape, the scoped one starting a test: one nested, one fewer than connections; 1 row at the start, 3 at most, 1 a page |
| `pool_nested` | MCConnPool | **violated**: every request answered | 2 connections, 2 nested requests |
| `test_answered` | MCTestJobs | **violated**: a connection test fails for a reason only | as `pool`, 2 rows |
| `settings` | MCSettings | no call refused for its header; a login refused for its seal only while a previous secret is set; a test mail of quiet times passes; the shown password works. Caps exceeded by less than the requests in flight; a broken regex needs updates that cross; an update finds its row | three secrets (two rotations), a rules call and a login, three passwords, two rotators; two requests at a time, three rules, caps of one, edits of pattern, type and activity, one column or several |
| `accounts` | MCAccounts | sessions are their browser's own; one account per identity and domain; conflicts have a reason; a burnt attempt stays burnt; one welcome | two people of one company (one at each provider, with one address), two browsers, two calls, two states: enough for a reload, a second tab, a callback in the other browser and two racing first logins |

`settings` checks two components that share nothing, `Credentials` and `RuleStore`: a state of one is in its
run beside the initial state of the other. Their interleavings would multiply the states and add no behaviour,
for every property speaks of the variables of one of them.

Every property of a passing run has a mutant, a change of one definition as a plausible
bug would make it (an off-by-one, a dropped guard, a swallowed exception), under which
TLC finds the property violated.

### Fairness

`gateway_retry` assumes weak fairness of each transaction's handler and of its relay
call. The event loops run every ready coroutine, and each await of `handle_DATA` ends by
itself: HTTP calls, the model call and the SMTP call have timeouts, `asyncio.sleep` ends.
Nothing is assumed of clients, tenants, crashes or of calls succeeding. `pool`
assumes weak fairness of each request's step: the loop runs what can run, and a query
returns or fails, which is an assumption about PostgreSQL (the pool sets no command timeout).
Weak fairness is enough: the requests are finitely many, so a connection that is returned
reaches every waiter in the end, and the code waits in order besides. For the tests it adds
weak fairness of each task's step: the first count, the gateway's conversation and the poll end,
the last by its deadline. It does not assume that anyone polls, that entries expire, or that
rows arrive. `GiveUp`, `Deadline` and failing statements are choices within those steps.

## What is proved

All theorems hold for every value of the constants that satisfies the modules'
assumptions (types, positive attempts and cache size, a burst no longer than Redis keeps
a key, disjoint calls).

* **Gateway** (`SmtpGateway_proofs`): `TypeCorrect`; `InvHolds`, the inductive invariant
  `GatewayInv`; from it `AcceptedHolds`, `RefusedHolds`, `RowsHold`, `RulesHold`,
  `SuppressedHolds`. The properties are not inductive: that a 250 means "handed over" needs
  to know what a handler at its log step has in `pending`; that a refused message never
  reaches the relay needs to know that a running relay call belongs to a handler at `forward`
  or to a lost one; that the rules hold needs the snapshot to be the customer's current
  rules unless an edit came after the submission. `GatewayInv` is the conjunction
  of these per transaction: `HandingOk`, `HandedOk`, `PendingOk`, `RepliedOk`, `RowsOk`,
  `DataOk`, `LookedUpOk`. The proof goes by groups of actions, one lemma each.
  `LoggedHolds` needs one invariant more (`OnceInv`): nothing is logged before the log step,
  and while nothing fails and nobody edits, nothing before the answer.
* **Refinement** (there too): `Refines`, the gateway implements
  `RelayPromise`, each step mapped to a step or a stutter, from `GatewayInv`.
* **Rate limiter**: `WindowHolds` (`RateLimiterThreads_proofs`): no window holds more than the
  cap, because evicted timestamps had expired and the rest is in order.
  `OneLoopImplements` (there too): with one loop `is_allowed` implements
  the window; the deque is the suffix of the log that was not evicted. So the window's
  invariant holds for the code's own deque, and with it `LoopKeepsCap` (the calls in a window
  are those from its least index on, and all of them are still in the deque)
  and `LoopRefusesAtCap`. All three assume `Alone`, one event loop: with two, `limiter_two` has a
  counterexample.
* **Webhook** (`AdminPanel_proofs`): `WebhookHolds`; an accepted token stays cached as
  long as it is fresh, for a cached entry lives two tolerances. `PanelWebhookHolds`: for the
  webhook every step of the panel is an admin's removal or a stutter.
* **Panel** (there too): `PanelHolds`, the invariant `PanelInv`: the row of the running minute is
  never behind the calls that it let pass (a purge removes older rows only), and what a call
  carries between two steps is what the step before decided. From it `CounterHolds`, `AnswersHold`.
* **Domains** (`CustomerDomains_proofs`): `ControlHolds`, `VerifiedMeansControlHolds`; every token,
  wherever it is kept, is one drawn for that customer and name. `CustomerHolds` adds the older
  flow (`PrimaryInv`): its tokens are drawn for the customer too, so a record that either flow finds
  was published by the one who controls the name. From it `PrimaryHolds`, `SessionHolds`, `CustomerControlHolds`.
* **API limiter** (`Gcra_proofs`): `GcraHolds`; each admission and every one after it is
  charged to the arrival time, which is never more than a burst ahead of the last admission.
  `RetryHolds` assumes a burst of at least one interval. `OutageHolds` assumes that the policy is not
  to let every call through, and needs `OutageInv`: the calls from the i-th "yes" on fit in what the two
  entries are ahead of it, which is a burst and the time since at most for each, and in as much
  again for each entry that was lost.
* **Rotation** (`Credentials_proofs`): `RotationHolds`; a call in flight carries the
  gateway's secret, which one of the backend's slots holds. `LoginsHold`: while no previous
  secret is set, that slot is the current one, which opens the seal.
* **Credentials** (there too): `CredRefines`, every step of `Credentials` is one of
  `SecretRotation` or a stutter, so `CredRotationHolds`. `TestsHold`: a token minted in quiet times is
  under the gateway's secret until a deployment touches it (`TokenInv`). `PasswordHolds`: while
  nothing is uncertain one rotation runs at most, and what it is about to show is what it
  stored (`PasswordInv`).
* **Accounts** (`Accounts_proofs`): `LoginHolds`, the invariant `LoginInv`, and from it `AccountsHold`,
  `SessionHolds`, `ConflictHolds`, `BurntHolds`, `WelcomedHolds`. That a session is its browser's own needs to
  follow the attempt from its start: a cookie holds a state that was drawn for its browser, in one
  place, and no burnt one (`JarOk`); a callback's cookie was its browser's when it was sent
  (`CookieOk`); past the comparison the state is the cookie's, with a code that was issued for it
  (`StateOk`); past the exchange the person has granted it in that browser (`OwnOk`). `ReasonOk` dates
  the rows a call has not seen; `WelcomeOk` says that one call at most is about to send a mail.

* **Pool** (`PoolAndStore_proofs`): `OneHolderEach`, from `PoolIInv`: what a request holds follows from
  its step, so whoever returns a connection returns all it has, and a connection that is idle is nobody's. From it
  `ConnectionsBoundHolders`, and `PoolNeverExhausted`: while the nested handlers
  are fewer than the connections, not all requests can be waiting. (`pool_nested` shows what happens
  when they are not.) That every request is then answered is liveness and stays with TLC.
* **Connection tests** (there too): `TestsUseThePool`, for the pool every step of `TestJobs` is one of its own or a
  stutter, which carries the pool's theorems over. `VerdictsStay` needs `JobsInv`: a
  verdict belongs to a task that has ended, so nothing parks a second one.
* **Log pages** (there too): `PagesMissOnlyLateRows`. The invariant `WalkIInv` says that a row the client should
  have seen and has not is older than as many rows as its pages had room for (`MissedAreOlder`), and
  that the total it compares with was counted before (`CountIsOld`). So the missed rows, which all are older than
  the rest, are few. The proof counts: the i-th newest of n rows has i - 1 newer ones.
* **Rules and policies** (there too): `StoreHolds`. `OnlyRacesInvalidate`, from `ValidIInv`: what an update has
  validated is still valid for the row as it is now, unless another update gave the column it had taken for
  granted (`PendingValid`). `UncrossedStaysValid` says why every other overlap is harmless.
  `CapsAreSoft`, from `SlackIInv`: the active rules, with those that updates are about to
  reactivate and those about to be inserted (`Targets`, `InsertingRule`), exceed the cap by less than n, for any n that bounds
  the requests in flight: the last one to count has seen all but those beside it. `PoolBoundsSlack` takes the
  pool's connections for n: it assumes that a request in flight holds a connection (`InFlightHolds`), which `get_conn` gives
  every route for its whole length.

**Only model-checked.** Liveness (`EveryTransactionEnds`, `EveryRequestAnswered`, `EveryTestSettles`) is
out of the prover's reach, for it rests on fairness and on the enabledness of actions. Every invariant and action property of the
passing runs has a proof.

## Where the code and its documents disagree

Shown by the three violated runs:

* `limiter_two`: the limiter's docstring relies on a single event loop; the two controllers
  have one each.
* `pool_nested`: as many requests on `ai_policies` routes as the pool has connections hold
  one each and wait for another without a limit.
* `test_answered`: the task of a connection test counts on the connection of the request that started
  it, and that request is answered at once, which is what F-16 is for ("POST kicks off the job and
  returns immediately with a test_id; the dashboard polls GET to learn the outcome"). The handle is detached
  then, the next count raises, and the client reads "Internal error" although its mail went through. The
  unit test of F-16 replaces the task by one that makes no statement. (Where the test does get to
  count, any other mail of the customer makes it succeed as well.)

Visible in the models, without a run of their own:

* `_fetch_rules` returns `None` for an unknown domain and for an unreachable backend alike
  (its docstring: "or None if domain not found"), and the gateway answers `None` with a permanent
  550: during an outage the mail of served domains bounces (`SmtpGateway`: `FetchFails`).
* A rotation of the shared secret promises that no traffic is dropped (`internal_auth.py:31`).
  The password's sealing key and the test token follow the current secret alone, so between
  steps 2 and 3 every SMTP login is refused. `LoginServed` says exactly how far the promise goes.
* `auth.py:292` "Always burn the state cookie on the way out — even on error": not on an
  exception that is not caught, such as a transport error of tokeninfo, a provider's answer that is not
  JSON, or the unique violation of a second first login (`Accounts`: `Redirects`). The code is spent by then,
  so the attempt gets no further anyway: `BurntStaysBurnt` is about the redirects that did arrive.
* Two first logins of one person at once: the second is told "This domain is already registered"
  about the person's own account, or gets a 500 (`ConflictHasReason`, `Create`).
* `services/rules.py:125` validates the effective regex; two overlapping updates, one of the pattern and
  one of the type, store one that does not compile. `InvalidOnlyByRace` says that nothing else does. The branch "deleted between
  ownership check and update" (`rules.py:155`) cannot be taken (`UpdateFindsItsRow`).
* `services/admin.py:59` says that the repository swallows audit failures. It does not:
  a removal is answered 500 and stays done (`AdminPanel`: `Audit`). The limiter fails open also
  when its purge or its reply fails.
* `init_domain_verification` ("Generate (or return-existing)") always draws a new token.
* `add_domain` strips every leading `w` and `.` of a name (`lstrip("www.")`), not the prefix.

### Known races

Met while modelling, visible in the models, without a run of their own:

* Two threads in `RateLimiterThreads` can pop from an empty deque (`raised`).
* Two removals of domains, or a removal and a verification, leave a customer without a
  verified domain although `remove_domain` refuses the last one (`Domains`: `Remove`, `Delete`).
* Two initialisations draw two tokens and the second overwrites the first
  (`Domains`: `InitVerify`, `SetToken`).
* `add_domain` says "verified by another account" when the name was merely added, by
  anyone (`Domains`: `Insert`).
* A delivery that fails the signature check has used up its token, so the next delivery with that token is
  refused as a replay; and a failed upsert is acknowledged all the same. Either way the event is lost
  (`BounceWebhook`: `Deliver`, `Upsert`): `WebhookInv` promises at most once, not at least once.
* Mail of a domain verified by the single-domain flow alone is served but never logged:
  `log_scan` binds rows to `customer_domains` (`SmtpGateway`: `Served` and `Loggable`).
* `sendmail`'s dictionary of refused recipients is ignored: a message accepted for one
  recipient is answered and logged as accepted (`RelayAccepts`).
* With a burst shorter than the interval (ratio 0, or one call a minute at the default
  ratio) a caller is refused at the time it was told to return, for ever; `RetryHolds`
  assumes otherwise.
* An SMTP session goes on sending for a domain that was removed, or verified by another
  customer, after its login (`CustomerDomains`: `session`); the login did control it.
* Concurrent creates exceed the caps on rules and policies, by less than the number of requests
  in flight, which the pool bounds by ten (`RuleStore`: `CapSlack`).
* A page of the log and its total belong to two moments (`TestJobs`: `walk.late`).
* Of two password rotations the one shown last need not be the one stored (`uncertain`).
* Two failing handlers both send an alert: the cooldown is checked and started in separate
  steps. Not modelled yet.

## Not modelled, and why

* Pattern matching of rules, header parsing, the text sent to the language model, templates
  and formatting: pure functions of their input; a message is the set of rules it matches.
* SPF, PTR and CIDR lookups: their results are inputs of the gate, in every combination
  the session type allows.
* The contents and expiry of sessions and JWTs, bcrypt, the sealing cipher, the subject hash's
  salt: cryptography. A login whose hash was read before a rotation still passes: that is all
  `smtp_auth` promises.
* The nonce cache of sealed passwords.
* The schema and the migrations: run once, before the backend starts.
* Statistics and exports, the read-only handlers of the admin panel, rows of one `created_at`
  (whose order between pages PostgreSQL leaves open). One operator uses the panel at a time.
* The dashboard, nginx and the containers, except where a restart matters (`Crash`,
  `Restart`, `Forget`, `DeployGateway`).
* Rate-limit windows and caches do not survive a restart and nothing claims they do.

## Plan

Done: the gateway and its promise, the limiter, the webhook and the panel, domains, the API
limiter, the pool with its tests and log pages, credentials, accounts, rules. The order was by what
an error costs: mail lost or leaked first, then abuse limits, then accounts, then operations.

Next, in this order:

1. A property and its theorem about "Known races": a customer keeps a verified domain while no two
   removals overlap. (Two event loops leave the limiter's cap no bound as simple: racing `popleft`s can also
   drop timestamps that have not expired.)
2. Alerts with their cooldown, in `SmtpGateway`.
3. The nonce cache of sealed passwords, in `Credentials`.
4. The dashboard's stale responses.

What joins an existing module also joins its run.
