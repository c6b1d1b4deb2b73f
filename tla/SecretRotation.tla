--------------------------- MODULE SecretRotation ----------------------------
(***************************************************************************)
(* Rotating INTERNAL_SHARED_SECRET (internal_auth.py, F-26).  The backend  *)
(* accepts two secrets in the X-Internal-Secret header of the gateway's    *)
(* calls, so that the two services can be deployed one at a time:          *)
(*                                                                         *)
(*   2. backend: current = S2, previous = S1                               *)
(*   3. gateway: S2 (and back to S1 if the deployment is botched)          *)
(*   4. backend: previous dropped                                          *)
(*                                                                         *)
(* The secret is also the key of the password sealed in a login's call to  *)
(* /internal/smtp-auth (security/internal_auth_crypto.py).  Secrets are    *)
(* numbered in the order they are generated; 0 is an empty slot.           *)
(***************************************************************************)
EXTENDS Integers

CONSTANTS
    Lookups,     \* calls that carry the header only: /internal/rules, scan-log, ...
    Logins,      \* calls to /internal/smtp-auth with the right password
    MaxSecret    \* bound: how many secrets are ever generated

Calls == Lookups \cup Logins

ASSUME RotationAssumption ==
    MaxSecret \in Nat \ {0} /\ Lookups \cap Logins = {}

VARIABLES
    current, previous,  \* the backend's two slots
    gateway,            \* the gateway's secret
    sent,    \* sent[c]: the secret the call in flight carries, 0 if none is
    answer   \* answer[c]: the backend's last answer to c

slots == <<current, previous, gateway>>
vars == <<slots, sent, answer>>

Init ==
    /\ current = 1 /\ previous = 0 /\ gateway = 1
    /\ sent = [c \in Calls |-> 0] /\ answer = [c \in Calls |-> "none"]
-----------------------------------------------------------------------------
\* Step 2: the backend restarts with a new secret, the old one as previous.
\* A call whose connection breaks is made again, with the same secret.
DeployBackend ==
    /\ previous = 0 /\ current < MaxSecret
    /\ current' = current + 1 /\ previous' = current
    /\ UNCHANGED <<gateway, sent, answer>>

\* Step 3, or its roll-back: the gateway restarts with the new secret or the
\* old one, and the calls it was making die with it.
DeployGateway(s) ==
    /\ previous # 0 /\ s \in {current, previous} /\ gateway' = s
    /\ sent' = [c \in Calls |-> 0]
    /\ UNCHANGED <<current, previous, answer>>

\* Step 4: the backend restarts without the old secret.
DropPreviousMutant ==
    /\ previous # 0 /\ previous' = 0
    /\ UNCHANGED <<current, gateway, sent, answer>>
DropPrevious ==
    /\ previous # 0 /\ gateway = current /\ previous' = 0
    /\ UNCHANGED <<current, gateway, sent, answer>>
-----------------------------------------------------------------------------
\* The gateway makes call c, header and seal with the secret it has.
Send(c) ==
    /\ sent[c] = 0 /\ sent' = [sent EXCEPT ![c] = gateway]
    /\ UNCHANGED <<slots, answer>>

\* require_internal_secret: either slot will do.
HeaderOk(s) == s \in {current, previous} \ {0}

\* open_password: the key is derived from the current secret alone.
BlobOkMutant(s) == s = previous
BlobOk(s) == s = current

Verdict(c) ==
    CASE ~HeaderOk(sent[c])                                     -> "401 header"
      [] HeaderOk(sent[c]) /\ c \in Logins /\ ~BlobOk(sent[c])   -> "401 blob"
      [] HeaderOk(sent[c]) /\ (c \in Logins => BlobOk(sent[c]))  -> "200"

\* The backend answers call c.
Receive(c) ==
    /\ sent[c] # 0
    /\ sent' = [sent EXCEPT ![c] = 0] /\ answer' = [answer EXCEPT ![c] = Verdict(c)]
    /\ UNCHANGED slots

Next ==
    \/ DeployBackend \/ DropPrevious \/ \E s \in 1..MaxSecret : DeployGateway(s)
    \/ \E c \in Calls : Send(c) \/ Receive(c)

Spec == Init /\ [][Next]_vars
-----------------------------------------------------------------------------
TypeOK ==
    /\ current \in 1..MaxSecret /\ previous \in 0..MaxSecret /\ gateway \in 1..MaxSecret
    /\ sent \in [Calls -> 0..MaxSecret]
    /\ answer \in [Calls -> {"none", "200", "401 header", "401 blob"}]

\* No call is refused for its header at any step of any number of rotations,
\* rolled back or not, however late it arrives ("no traffic is dropped").
HeaderServed == \A c \in Calls : answer[c] # "401 header"

\* A right password is refused only between steps 2 and 4 of a rotation, where
\* the gateway may still seal with the old secret ("no traffic is dropped" does
\* not hold of logins there).
LoginServed == [][\A c \in Logins :
    sent[c] # 0 /\ sent'[c] = 0 /\ answer'[c] = "401 blob" => previous # 0]_vars

\* Why: a call in flight carries the gateway's secret, and that is always in
\* one of the backend's slots, which differ (the backend would not start).
RotationInv ==
    /\ TypeOK
    /\ HeaderServed
    /\ current # previous
    /\ HeaderOk(gateway)
    /\ \A c \in Calls : sent[c] \in {0, gateway}
=============================================================================
