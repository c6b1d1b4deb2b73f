---------------------------- MODULE BounceWebhook ---------------------------
(***************************************************************************)
(* The feedback loop for bounces and complaints: POST /webhooks/mailgun    *)
(* (routers/webhooks.py) checks the signature and the token's freshness    *)
(* (mailgun_validator.py), then writes suppression rows                    *)
(* (services/webhooks.py), which an admin may delete and which the gateway *)
(* asks about through /internal/suppressed.                                *)
(*                                                                         *)
(* The validator runs without an await, so one delivery's check is a step; *)
(* the rows are written after an await.  Mailgun may deliver a webhook     *)
(* several times and late.  The token cache is in memory: a restart of the *)
(* backend empties it.                                                     *)
(***************************************************************************)
EXTENDS Integers, Sequences, FiniteSets

CONSTANTS Tokens,      \* tokens: one for each event Mailgun reports
          Stamp,       \* Stamp[k]: the timestamp signed together with token k
          Email,       \* Email[k]: the recipient the event is about
          Tag,         \* Tag[k]: the customer id it carries, or NoCustomer
          Emails, Customers, NoCustomer,
          Tolerance,   \* TIMESTAMP_TOLERANCE_SECS
          CacheMax,    \* _TOKEN_CACHE_MAX
          Horizon      \* bound: the last clock reading

ASSUME WebhookAssumption ==
    /\ Stamp \in [Tokens -> Nat]
    /\ Email \in [Tokens -> Emails]
    /\ NoCustomer \notin Customers
    /\ Tag \in [Tokens -> Customers \cup {NoCustomer}]
    /\ Tolerance \in Nat
    /\ CacheMax \in Nat \ {0}
    /\ Horizon \in Nat

VARIABLES clock,     \* time.time()
          seen,      \* _seen_tokens: <<token, seen_at>>, oldest first
          accepted,  \* tokens of which a delivery passed every check
          repeated,  \* tokens of which more than one did
          writing,   \* tokens whose rows are about to be written
          rows,      \* suppressed_addresses: <<customer or NoCustomer, email>>
          forgot     \* tokens dropped from the cache before their time

vars == <<clock, seen, accepted, repeated, writing, rows, forgot>>

Init == /\ clock = 0
        /\ seen = <<>>
        /\ accepted = {} /\ repeated = {}
        /\ writing = {} /\ rows = {} /\ forgot = {}

Fresh(k) == clock - Stamp[k] <= Tolerance /\ Stamp[k] - clock <= Tolerance

\* Mutant: tokens are kept for one tolerance.
ExpiredMutant(i) == seen[i][2] < clock - Tolerance

\* _evict_expired removes n entries: those from the front on that are older
\* than two tolerances, up to the first that is not.
Expired(i) == seen[i][2] < clock - 2 * Tolerance
Evicts(n) == /\ \A i \in 1..n : Expired(i)
             /\ n < Len(seen) => ~Expired(n + 1)

Cached(s, k) == \E i \in 1..Len(s) : s[i][1] = k

\* A fresh token that is not among the live entries: it is recorded, in place of
\* the oldest one when the cache is full, and only then is the signature checked.
Record(k, live) ==
    LET full == Len(live) >= CacheMax
    IN  /\ seen' = Append(IF full THEN Tail(live) ELSE live, <<k, clock>>)
        /\ forgot' = forgot \cup {j \in Tokens : full /\ j = live[1][1]}

\* Every check passed; an event of a kind that is not acted on writes nothing.
Accepts(k) == /\ accepted' = accepted \cup {k}
              /\ repeated' = repeated \cup (accepted \cap {k})
              /\ writing' \in {writing, writing \cup {k}}

\* One delivery of the webhook with token k.  A mismatched signature (a rotated
\* signing key) is refused after the token was recorded.
Deliver(k) ==
    /\ Fresh(k)
    /\ \E n \in 0..Len(seen) :
        /\ Evicts(n)
        /\ LET live == SubSeq(seen, n + 1, Len(seen))
           IN  \/ /\ Cached(live, k)
                  /\ seen' = live
                  /\ UNCHANGED <<accepted, repeated, writing, forgot>>
               \/ /\ ~Cached(live, k)
                  /\ Record(k, live)
                  /\ Accepts(k) \/ UNCHANGED <<accepted, repeated, writing>>
    /\ UNCHANGED <<clock, rows>>

\* upsert_for_customer or upsert_global; an exception is logged and the webhook
\* is acknowledged all the same.
Upsert(k) == /\ k \in writing
             /\ writing' = writing \ {k}
             /\ rows' \in {rows, rows \cup {<<Tag[k], Email[k]>>}}
             /\ UNCHANGED <<clock, seen, accepted, repeated, forgot>>

\* DELETE /admin/suppressed/{email}.
AdminRemove(e) == /\ rows' = {row \in rows : row[2] # e}
                  /\ UNCHANGED <<clock, seen, accepted, repeated, writing, forgot>>

\* The backend restarts: its cache and its running handlers are gone.
Restart == /\ seen' = <<>>
           /\ forgot' = forgot \cup {k \in Tokens : Cached(seen, k)}
           /\ writing' = {}
           /\ UNCHANGED <<clock, accepted, repeated, rows>>

Tick == /\ clock < Horizon
        /\ clock' = clock + 1
        /\ UNCHANGED <<seen, accepted, repeated, writing, rows, forgot>>

Next == \/ \E k \in Tokens : Deliver(k) \/ Upsert(k)
        \/ \E e \in Emails : AdminRemove(e)
        \/ Restart \/ Tick

Spec == Init /\ [][Next]_vars
-----------------------------------------------------------------------------
TypeOK == /\ clock \in Nat
          /\ seen \in Seq(Tokens \X Nat)
          /\ accepted \subseteq Tokens /\ repeated \subseteq Tokens
          /\ writing \subseteq Tokens
          /\ rows \subseteq (Customers \cup {NoCustomer}) \X Emails
          /\ forgot \subseteq Tokens

\* "Tokens are single-use" (mailgun_validator's docstring), as far as the cache
\* reaches: a token that no overflow and no restart has dropped is accepted at
\* most once, from a sender whose clock is up to Tolerance ahead until it is
\* Tolerance behind.
SingleUse == repeated \subseteq forgot

\* Why: an accepted token stays cached for as long as it is fresh.
CachedWhileFresh ==
    \A k \in accepted \ forgot :
        \/ \E i \in 1..Len(seen) : seen[i][1] = k /\ seen[i][2] >= Stamp[k] - Tolerance
        \/ clock > Stamp[k] + Tolerance

\* The cache keeps a token exactly as long as a redelivery could still pass the
\* timestamp check, so each event is acted on once.
WebhookInv == TypeOK /\ SingleUse /\ CachedWhileFresh
=============================================================================
