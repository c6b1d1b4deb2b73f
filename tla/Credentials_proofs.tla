------------------------- MODULE Credentials_proofs --------------------------
(***************************************************************************)
(* SecretRotation: RotationInv, and with it HeaderServed, and LoginServed  *)
(* for any number of calls and of rotations.  Credentials: it implements   *)
(* SecretRotation, so that both hold there; TestsPass and                  *)
(* ShownPasswordWorks for any number of password rotations at once.        *)
(***************************************************************************)
EXTENDS Credentials, TLAPS

\* The invariant, one fact of each variable at a time.
Slots ==
    /\ current \in 1..MaxSecret /\ previous \in 0..MaxSecret /\ current # previous
    /\ gateway = current \/ (gateway = previous /\ previous # 0)
InFlight == sent \in [Calls -> 0..MaxSecret] /\ \A c \in Calls : sent[c] = 0 \/ sent[c] = gateway
Answered == /\ answer \in [Calls -> {"none", "200", "401 header", "401 blob"}]
            /\ \A c \in Calls : answer[c] # "401 header"

LEMMA Parts == RotationInv <=> Slots /\ InFlight /\ Answered
<1>1. MaxSecret \in Nat /\ 0 \notin 1..MaxSecret /\ 1..MaxSecret \subseteq 0..MaxSecret
    BY RotationAssumption
<1>2. ASSUME RotationInv PROVE Slots /\ InFlight /\ Answered
    <2>1. Slots
        BY <1>2 DEF RotationInv, TypeOK, HeaderOk, Slots
    <2> QED BY <1>2, <2>1 DEF RotationInv, TypeOK, HeaderServed, InFlight, Answered
<1>3. ASSUME Slots, InFlight, Answered PROVE RotationInv
    <2>1. gateway \in 1..MaxSecret /\ HeaderOk(gateway)
        BY <1>1, <1>3 DEF Slots, HeaderOk
    <2> QED BY <1>3, <2>1 DEF RotationInv, TypeOK, HeaderServed, Slots, InFlight, Answered
<1> QED BY <1>2, <1>3

\* A received call carries the gateway's secret, so its header passes.
LEMMA ReceiveKeeps ==
    ASSUME Slots, InFlight, Answered, NEW c \in Calls, Receive(c)
    PROVE  Slots' /\ InFlight' /\ Answered'
<1>1. sent[c] = gateway /\ HeaderOk(sent[c])
    BY DEF Slots, InFlight, Receive, HeaderOk
<1>2. Verdict(c) \in {"401 blob", "200"}
    BY <1>1 DEF Verdict
<1>3. /\ slots' = slots /\ sent' = [sent EXCEPT ![c] = 0]
      /\ \/ answer' = [answer EXCEPT ![c] = "401 blob"]
         \/ answer' = [answer EXCEPT ![c] = "200"]
    BY <1>2 DEF Receive, slots
<1>4. Slots'
    BY <1>3 DEF Slots, slots
<1>5. InFlight'
    <2>1. 0 \in 0..MaxSecret
        BY RotationAssumption
    <2> QED BY <1>3, <2>1 DEF InFlight, slots
<1>6. Answered'
    BY <1>3 DEF Answered
<1> QED BY <1>4, <1>5, <1>6

\* No call is ever refused for its header, whatever step of a rotation the
\* services are at.
THEOREM RotationHolds == Spec => []RotationInv
<1>0. 1 \in 1..MaxSecret /\ 0 \in 0..MaxSecret
    BY RotationAssumption
<1>1. Init => RotationInv
    BY <1>0 DEF Init, RotationInv, TypeOK, HeaderServed, HeaderOk
<1>2. RotationInv /\ [Next]_vars => RotationInv'
    <2>0. Slots' /\ InFlight' /\ Answered' => RotationInv'
        BY Parts, PTL
    <2> SUFFICES ASSUME Slots, InFlight, Answered, [Next]_vars
                 PROVE  Slots' /\ InFlight' /\ Answered'
        BY <2>0, Parts
    <2>1. CASE DeployBackend
        <3>1. current' = current + 1 /\ previous' = current /\ previous = 0
              /\ current < MaxSecret /\ gateway' = gateway /\ sent' = sent /\ answer' = answer
            BY <2>1 DEF DeployBackend
        <3>2. Slots'
            BY <3>1, RotationAssumption DEF Slots
        <3> QED BY <3>1, <3>2 DEF InFlight, Answered
    <2>2. CASE DropPrevious
        <3>1. Slots'
            BY <2>2, <1>0, RotationAssumption DEF DropPrevious, Slots
        <3> QED BY <2>2, <3>1 DEF DropPrevious, InFlight, Answered
    <2>3. ASSUME NEW s \in 1..MaxSecret, DeployGateway(s) PROVE Slots' /\ InFlight' /\ Answered'
        <3>1. Slots'
            BY <2>3 DEF DeployGateway, Slots
        <3>2. InFlight'
            BY <2>3, <1>0 DEF DeployGateway, InFlight
        <3> QED BY <2>3, <3>1, <3>2 DEF DeployGateway, Answered
    <2>4. ASSUME NEW c \in Calls, Send(c) PROVE Slots' /\ InFlight' /\ Answered'
        <3>1. slots' = slots /\ answer' = answer /\ sent' = [sent EXCEPT ![c] = gateway]
            BY <2>4 DEF Send, slots
        <3>2. gateway \in 0..MaxSecret
            BY RotationAssumption DEF Slots
        <3> QED BY <3>1, <3>2 DEF slots, Slots, InFlight, Answered
    <2>5. ASSUME NEW c \in Calls, Receive(c) PROVE Slots' /\ InFlight' /\ Answered'
        BY <2>5, ReceiveKeeps
    <2>6. CASE UNCHANGED vars
        BY <2>6 DEF vars, slots, Slots, InFlight, Answered
    <2> QED BY <2>1, <2>2, <2>3, <2>4, <2>5, <2>6 DEF Next
<1> QED BY <1>1, <1>2, PTL DEF Spec

\* Outside of a rotation the gateway seals with the secret the backend unseals
\* with, so a right password is refused only while a rotation is under way.
THEOREM LoginsHold == Spec => LoginServed
<1>1. ASSUME RotationInv, [Next]_vars, NEW c \in Logins,
             sent[c] # 0, sent'[c] = 0, answer'[c] = "401 blob"
      PROVE  previous # 0
    <2> SUFFICES ASSUME previous = 0 PROVE FALSE
        OBVIOUS
    <2>1. c \in Calls /\ Slots /\ InFlight /\ Answered
        BY <1>1, Parts DEF Calls
    <2>2. gateway = current /\ sent[c] = gateway /\ HeaderOk(sent[c]) /\ BlobOk(sent[c])
        BY <1>1, <2>1 DEF Slots, InFlight, HeaderOk, BlobOk
    <2>3. Verdict(c) = "200"
        BY <2>2, <1>1 DEF Verdict
    <2>4. PICK d \in Calls : Receive(d) \/ Send(d)
        BY <1>1, <2>1 DEF Next, DeployBackend, DropPrevious, DeployGateway, vars
    <2>5. Receive(d) /\ d = c
        BY <1>1, <2>1, <2>4 DEF Receive, Send, InFlight
    <2>6. answer'[c] = Verdict(c)
        BY <2>1, <2>5 DEF Receive, Answered
    <2> QED BY <1>1, <2>3, <2>6
<1>2. RotationInv /\ [Next]_vars =>
        [\A c \in Logins :
            sent[c] # 0 /\ sent'[c] = 0 /\ answer'[c] = "401 blob" => previous # 0]_vars
    BY <1>1
<1> QED BY <1>2, RotationHolds, PTL DEF Spec, LoginServed
-----------------------------------------------------------------------------
\* Test mails and password rotations leave the secrets and the calls alone, and
\* every other step of Credentials is one of SecretRotation.
LEMMA CredRefines == CredSpec => Spec
<1>1. CredInit => Init
    BY DEF CredInit
<1>2. [CredNext]_credVars => [Next]_vars
    <2> SUFFICES ASSUME [CredNext]_credVars PROVE [Next]_vars
        OBVIOUS
    <2>1. CASE \E c \in Calls : Call(c)
        BY <2>1 DEF Call, Next
    <2>2. CASE BackendDeployed
        BY <2>2 DEF BackendDeployed, Next
    <2>3. CASE GatewayDeployed
        BY <2>3 DEF GatewayDeployed, Next
    <2>4. CASE Mint \/ TakeTestMail \/ TokenExpires
        BY <2>4 DEF Mint, TakeTestMail, TokenExpires, rotationVars, vars
    <2>5. CASE \E q \in Rotators : Rotate(q) \/ StoreHash(q) \/ StoreFails(q) \/ Show(q)
        BY <2>5 DEF Rotate, StoreHash, StoreFails, Show, rotationVars, vars
    <2>6. CASE UNCHANGED credVars
        BY <2>6 DEF credVars, rotationVars, vars
    <2> QED BY <2>1, <2>2, <2>3, <2>4, <2>5, <2>6 DEF CredNext
<1> QED BY <1>1, <1>2, PTL DEF CredSpec, Spec

\* Neither test mails nor password rotations disturb the rotation of the secret.
THEOREM CredRotationHolds == CredSpec => []RotationInv /\ LoginServed
BY CredRefines, RotationHolds, LoginsHold

\* A token minted in quiet times is under the gateway's secret as long as no
\* deployment has touched it.
TokenInv ==
    /\ token \in [key : Int, clean : BOOLEAN]
    /\ token.clean => token.key = gateway
    /\ unfair = FALSE

\* A test mail minted and taken while nothing is being rotated passes as a test.
THEOREM TestsHold == CredSpec => []TestsPass
<1>1. CredInit => TokenInv
    BY DEF CredInit, TokenInv, NoToken
<1>2. RotationInv /\ TokenInv /\ [CredNext]_credVars => TokenInv'
    <2> SUFFICES ASSUME RotationInv, TokenInv, [CredNext]_credVars PROVE TokenInv'
        OBVIOUS
    <2>0. Slots /\ current \in Int
        BY Parts, RotationAssumption DEF Slots
    <2>1. ASSUME NEW c \in Calls, Call(c) PROVE TokenInv'
        BY <2>1 DEF Call, Send, Receive, testVars, slots, TokenInv
    <2>2. CASE BackendDeployed
        BY <2>2 DEF BackendDeployed, TokenInv
    <2>3. CASE GatewayDeployed
        BY <2>3 DEF GatewayDeployed, NoToken, TokenInv
    <2>4. CASE Mint
        BY <2>0, <2>4 DEF Mint, Slots, rotationVars, slots, TokenInv
    <2>5. CASE TakeTestMail
        <3>1. ~(token.clean /\ ~Verifies)
            BY DEF TokenInv, Verifies
        <3>2. token' = NoToken /\ unfair' = unfair
            BY <2>5, <3>1 DEF TakeTestMail, TokenInv
        <3> QED BY <3>2 DEF NoToken, TokenInv
    <2>6. CASE TokenExpires
        BY <2>6 DEF TokenExpires, NoToken, rotationVars, slots, TokenInv
    <2>7. ASSUME NEW q \in Rotators, Rotate(q) \/ StoreHash(q) \/ StoreFails(q) \/ Show(q)
          PROVE  TokenInv'
        BY <2>7 DEF Rotate, StoreHash, StoreFails, Show, rotationVars, slots, testVars, TokenInv
    <2>8. CASE UNCHANGED credVars
        BY <2>8 DEF credVars, rotationVars, slots, testVars, TokenInv
    <2> QED BY <2>1, <2>2, <2>3, <2>4, <2>5, <2>6, <2>7, <2>8 DEF CredNext
<1>3. TokenInv => TestsPass
    BY DEF TokenInv, TestsPass
<1> QED BY <1>1, <1>2, <1>3, CredRotationHolds, PTL DEF CredSpec
-----------------------------------------------------------------------------
\* While nothing is uncertain one rotation runs at most, and what it shows is
\* what it has stored.
PasswordInv ==
    /\ \A q \in Rotators : rotating[q] = NoRotation \/ rotating[q].at \in {"store", "show"}
    /\ rotating \in [Rotators -> [at : {"none", "store", "show"}, password : Int]]
    /\ drawn \in Int /\ uncertain \in BOOLEAN
    /\ ~uncertain =>
        /\ \A p, q \in Rotators : Busy(p) /\ Busy(q) => p = q
        /\ \A q \in Rotators : rotating[q].at = "show" => hash = rotating[q].password
        /\ (\A q \in Rotators : ~Busy(q)) => hash = shown

\* The steps of rotation q, of which only q's own entry changes.
LEMMA RotateKeeps == ASSUME PasswordInv, NEW q \in Rotators, Rotate(q) PROVE PasswordInv'
<1>1. /\ drawn' = drawn + 1 /\ hash' = hash /\ shown' = shown
      /\ rotating' = [rotating EXCEPT ![q] = [at |-> "store", password |-> drawn']]
      /\ uncertain' = \E p \in Rotators \ {q} : Busy(p)
    BY DEF Rotate
<1>2. rotating'[q] = [at |-> "store", password |-> drawn']
      /\ \A p \in Rotators \ {q} : rotating'[p] = rotating[p]
    BY <1>1 DEF PasswordInv
<1>3. [at |-> "store", password |-> drawn'] \in [at : {"none", "store", "show"}, password : Int]
    BY <1>1 DEF PasswordInv
<1>4. rotating' \in [Rotators -> [at : {"none", "store", "show"}, password : Int]]
    BY <1>1, <1>3 DEF PasswordInv
<1>5. Busy(q)'
    BY <1>2 DEF Busy, NoRotation
<1>6. ASSUME ~uncertain' PROVE \A p \in Rotators \ {q} : ~Busy(p)' /\ rotating'[p].at = "none"
    BY <1>1, <1>2, <1>6 DEF Busy, NoRotation
<1>7. uncertain' \in BOOLEAN
    BY <1>1
<1>8. rotating'[q].at = "store" /\ drawn' \in Int
    BY <1>1, <1>2 DEF PasswordInv
<1> QED BY <1>2, <1>4, <1>5, <1>6, <1>7, <1>8 DEF PasswordInv

LEMMA StoreHashKeeps == ASSUME PasswordInv, NEW q \in Rotators, StoreHash(q) PROVE PasswordInv'
<1>1. /\ rotating[q].at = "store" /\ hash' = rotating[q].password
      /\ rotating' = [rotating EXCEPT ![q].at = "show"]
      /\ drawn' = drawn /\ shown' = shown /\ uncertain' = uncertain
    BY DEF StoreHash
<1>2. /\ rotating'[q] = [at |-> "show", password |-> rotating[q].password]
      /\ \A p \in Rotators \ {q} : rotating'[p] = rotating[p]
      /\ rotating' \in [Rotators -> [at : {"none", "store", "show"}, password : Int]]
    BY <1>1 DEF PasswordInv
<1>3. Busy(q) /\ Busy(q)' /\ \A p \in Rotators \ {q} : Busy(p)' = Busy(p)
    BY <1>1, <1>2 DEF Busy, NoRotation
<1>4. ASSUME ~uncertain PROVE \A p \in Rotators \ {q} : rotating[p].at = "none"
    BY <1>3, <1>4 DEF PasswordInv, Busy, NoRotation
<1> QED BY <1>1, <1>2, <1>3, <1>4 DEF PasswordInv

LEMMA StoreFailsKeeps == ASSUME PasswordInv, NEW q \in Rotators, StoreFails(q) PROVE PasswordInv'
<1>1. /\ rotating' = [rotating EXCEPT ![q] = NoRotation]
      /\ drawn' = drawn /\ uncertain' = TRUE
    BY DEF StoreFails
<1>2. NoRotation \in [at : {"none", "store", "show"}, password : Int]
    BY DEF NoRotation
<1> QED BY <1>1, <1>2 DEF PasswordInv

LEMMA ShowKeeps == ASSUME PasswordInv, NEW q \in Rotators, Show(q) PROVE PasswordInv'
<1>1. /\ rotating[q].at = "show" /\ shown' = rotating[q].password
      /\ rotating' = [rotating EXCEPT ![q] = NoRotation]
      /\ drawn' = drawn /\ hash' = hash /\ uncertain' = uncertain
    BY DEF Show
<1>2. NoRotation \in [at : {"none", "store", "show"}, password : Int] /\ NoRotation.at = "none"
    BY DEF NoRotation
<1>3. /\ rotating'[q] = NoRotation
      /\ \A p \in Rotators \ {q} : rotating'[p] = rotating[p]
      /\ rotating' \in [Rotators -> [at : {"none", "store", "show"}, password : Int]]
    BY <1>1, <1>2 DEF PasswordInv
<1>4. Busy(q) /\ ~Busy(q)' /\ \A p \in Rotators \ {q} : Busy(p)' = Busy(p)
    BY <1>1, <1>2, <1>3 DEF Busy
<1>5. ~uncertain => hash = shown'
    BY <1>1 DEF PasswordInv
<1> QED BY <1>1, <1>2, <1>3, <1>4, <1>5 DEF PasswordInv

\* The password shown last logs in once no rotation is running, unless the last
\* rotations overlapped or one failed.
THEOREM PasswordHolds == CredSpec => []ShownPasswordWorks
<1>1. CredInit => PasswordInv
    <2> SUFFICES ASSUME CredInit PROVE PasswordInv
        OBVIOUS
    <2>1. NoRotation \in [at : {"none", "store", "show"}, password : Int] /\ NoRotation.at = "none"
        BY DEF NoRotation
    <2>2. /\ \A q \in Rotators : rotating[q] = NoRotation /\ ~Busy(q)
          /\ rotating \in [Rotators -> [at : {"none", "store", "show"}, password : Int]]
        BY <2>1 DEF CredInit, Busy
    <2>3. drawn \in Int /\ hash = shown
        BY DEF CredInit
    <2>4. uncertain \in BOOLEAN
        BY DEF CredInit
    <2>5. \A q \in Rotators : rotating[q].at # "show"
        BY <2>1, <2>2
    <2> QED BY <2>2, <2>3, <2>4, <2>5 DEF PasswordInv
<1>2. PasswordInv /\ [CredNext]_credVars => PasswordInv'
    <2> SUFFICES ASSUME PasswordInv, [CredNext]_credVars PROVE PasswordInv'
        OBVIOUS
    <2>1. CASE UNCHANGED passwordVars
        BY <2>1 DEF passwordVars, PasswordInv, Busy
    <2>2. ASSUME NEW q \in Rotators, Rotate(q) \/ StoreHash(q) \/ StoreFails(q) \/ Show(q)
          PROVE  PasswordInv'
        BY <2>2, RotateKeeps, StoreHashKeeps, StoreFailsKeeps, ShowKeeps
    <2>3. CASE \/ \E c \in Calls : Call(c)
               \/ BackendDeployed \/ GatewayDeployed \/ Mint \/ TakeTestMail \/ TokenExpires
               \/ UNCHANGED credVars
        BY <2>1, <2>3 DEF Call, BackendDeployed, GatewayDeployed, Mint, TakeTestMail,
                          TokenExpires, credVars
    <2> QED BY <2>2, <2>3 DEF CredNext
<1>3. PasswordInv => ShownPasswordWorks
    BY DEF PasswordInv, ShownPasswordWorks
<1> QED BY <1>1, <1>2, <1>3, PTL DEF CredSpec
=============================================================================
