----------------------------- MODULE Credentials -----------------------------
(***************************************************************************)
(* What else depends on the secret of SecretRotation, and the password a   *)
(* customer's mail server logs in with:                                    *)
(*                                                                         *)
(*  - the token of a test mail, which the backend mints and the gateway    *)
(*    verifies (security/internal_auth_crypto.py): without it the mail is  *)
(*    scanned like any other;                                              *)
(*  - the rotation of one customer's SMTP password, with a bcrypt hash and *)
(*    an UPDATE between the draw and the answer (services/customers.py).   *)
(*                                                                         *)
(* Passwords are numbered in the order they are drawn; 0 is the first.     *)
(***************************************************************************)
EXTENDS SecretRotation

CONSTANTS
    Rotators,     \* requests that may be rotating the password at once
    MaxPassword   \* bound: passwords drawn

ASSUME CredentialsAssumption == MaxPassword \in Nat

VARIABLES
    token,      \* the test mail under way: its token's key, or NoToken
    unfair,     \* history: a token was refused though nothing rotated
    drawn,      \* passwords drawn
    hash,       \* customers.smtp_password_hash: of which password
    shown,      \* the password the customer was last shown
    rotating,   \* rotating[q]: the rotation q is at, or NoRotation
    uncertain   \* a rotation overlapped another or failed; no clean one since

rotationVars == <<slots, sent, answer>>
testVars == <<token, unfair>>
passwordVars == <<drawn, hash, shown, rotating, uncertain>>
credVars == <<rotationVars, testVars, passwordVars>>

NoToken == [key |-> 0, clean |-> FALSE]
NoRotation == [at |-> "none", password |-> 0]

CredInit ==
    /\ Init
    /\ token = NoToken /\ unfair = FALSE
    /\ drawn = 0 /\ hash = 0 /\ shown = 0 /\ uncertain = FALSE
    /\ rotating = [q \in Rotators |-> NoRotation]
-----------------------------------------------------------------------------
\* A call to the backend is made, or answered.
Call(c) ==
    /\ Send(c) \/ Receive(c)
    /\ UNCHANGED <<testVars, passwordVars>>

\* A deployment of the backend: a rotation is under way.
BackendDeployed ==
    /\ DeployBackend \/ DropPrevious
    /\ token' = [token EXCEPT !.clean = FALSE]
    /\ UNCHANGED <<unfair, passwordVars>>

\* A deployment of the gateway ends the SMTP conversation of the test mail.
GatewayDeployed ==
    /\ \E s \in 1..MaxSecret : DeployGateway(s)
    /\ token' = NoToken
    /\ UNCHANGED <<unfair, passwordVars>>

\* mint_test_token, with the backend's current secret.
Mint ==
    /\ token = NoToken
    /\ token' = [key |-> current, clean |-> previous = 0]
    /\ UNCHANGED <<rotationVars, unfair, passwordVars>>

\* verify_test_token: the gateway's secret has minted it.
VerifiesMutant == token.key = previous
Verifies == token.key = gateway

\* The gateway takes the test mail: a verified one is only logged, any other is
\* scanned.
TakeTestMail ==
    /\ token # NoToken /\ token' = NoToken
    /\ unfair' = (unfair \/ (token.clean /\ ~Verifies))
    /\ UNCHANGED <<rotationVars, passwordVars>>

\* The token is five minutes old before it arrives, and refused.
TokenExpires ==
    /\ token # NoToken /\ token' = NoToken
    /\ UNCHANGED <<rotationVars, unfair, passwordVars>>
-----------------------------------------------------------------------------
Busy(q) == rotating[q] # NoRotation

\* rotate_smtp_password draws a password and hashes it in a worker thread.
\* One that runs alone settles what earlier ones left open.
Rotate(q) ==
    /\ ~Busy(q) /\ drawn < MaxPassword
    /\ drawn' = drawn + 1
    /\ rotating' = [rotating EXCEPT ![q] = [at |-> "store", password |-> drawn']]
    /\ uncertain' = \E p \in Rotators \ {q} : Busy(p)
    /\ UNCHANGED <<rotationVars, testVars, hash, shown>>

\* update_smtp_password_hash.
StoreHash(q) ==
    /\ rotating[q].at = "store"
    /\ hash' = rotating[q].password
    /\ rotating' = [rotating EXCEPT ![q].at = "show"]
    /\ UNCHANGED <<rotationVars, testVars, drawn, shown, uncertain>>

\* The update fails, or its reply is lost after it was committed: the answer is
\* 500 and the customer is shown nothing.
StoreFailsMutant(q) ==
    /\ rotating[q].at = "store"
    /\ rotating' = [rotating EXCEPT ![q].at = "show"]
    /\ UNCHANGED <<rotationVars, testVars, drawn, hash, shown, uncertain>>
StoreFails(q) ==
    /\ rotating[q].at = "store"
    /\ hash' \in {hash, rotating[q].password}
    /\ rotating' = [rotating EXCEPT ![q] = NoRotation]
    /\ uncertain' = TRUE
    /\ UNCHANGED <<rotationVars, testVars, drawn, shown>>

\* The answer with the password, which is never shown again.
Show(q) ==
    /\ rotating[q].at = "show"
    /\ shown' = rotating[q].password
    /\ rotating' = [rotating EXCEPT ![q] = NoRotation]
    /\ UNCHANGED <<rotationVars, testVars, drawn, hash, uncertain>>

CredNext ==
    \/ \E c \in Calls : Call(c)
    \/ BackendDeployed \/ GatewayDeployed
    \/ Mint \/ TakeTestMail \/ TokenExpires
    \/ \E q \in Rotators : Rotate(q) \/ StoreHash(q) \/ StoreFails(q) \/ Show(q)

CredSpec == CredInit /\ [][CredNext]_credVars
-----------------------------------------------------------------------------
\* A test mail sent and taken while nothing is being rotated passes as a test.
TestsPass == ~unfair

\* The password the customer was last shown logs in, once no rotation is running,
\* unless the last rotations overlapped or one failed: then it may be dead.
ShownPasswordWorks ==
    ~uncertain /\ (\A q \in Rotators : ~Busy(q)) => hash = shown
=============================================================================
