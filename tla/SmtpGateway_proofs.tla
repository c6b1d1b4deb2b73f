------------------------- MODULE SmtpGateway_proofs -------------------------
(***************************************************************************)
(* Proofs about SmtpGateway for any number of messages, customers, rules,  *)
(* recipients and attempts: the type invariant, the inductive invariant    *)
(* GatewayInv, the safety invariants that follow from it, that a row is    *)
(* written once, and that the gateway implements RelayPromise.             *)
(***************************************************************************)
EXTENDS SmtpGateway, FiniteSetTheorems, TLAPS

\* What the constants say of the message of a transaction.
LEMMA EnvType == ASSUME NEW t \in Txns PROVE
    /\ Env(t).domain \in Domains
    /\ CustomerOf[Env(t).domain] \in Customers \cup {NoCustomer}
    /\ Env(t).rcpts \in Seq(Rcpts)
    /\ Env(t).rules \in SUBSET Rules
    /\ \A i \in 1..Len(Env(t).rcpts) : Env(t).rcpts[i] \in Rcpts
    /\ RcptSet(t) \subseteq Rcpts
<1>1. Envelope[t[1]] \in EnvelopeType
      BY GatewayAssumption DEF GatewayAssumption, Txns
<1>2. Env(t).domain \in Domains /\ Env(t).rcpts \in Seq(Rcpts)
         /\ Env(t).rules \in SUBSET Rules
      BY <1>1 DEF Env, EnvelopeType
<1>3. \A i \in 1..Len(Env(t).rcpts) : Env(t).rcpts[i] \in Rcpts
      BY <1>2
<1>4. RcptSet(t) \subseteq Rcpts
      BY <1>2, <1>3 DEF RcptSet
<1>5. CustomerOf[Env(t).domain] \in Customers \cup {NoCustomer}
      BY <1>2, GatewayAssumption DEF GatewayAssumption
<1> QED BY <1>2, <1>3, <1>4, <1>5

\* The port gate answers with one of its refusals or lets the message through.
LEMMA GateAnswers == ASSUME NEW s, NEW d PROVE
    GateAnswer(s, d) \in {"550 relay", "530", "550 sender", "none"}
BY DEF GateAnswer

-----------------------------------------------------------------------------
\* The step helpers keep the types of pc, tries, pending and reply.
LEMMA GoToTypes == ASSUME ControlTypeOK, NEW t \in Txns, NEW s \in Steps, GoTo(t, s)
                   PROVE  ControlTypeOK'
BY DEF ControlTypeOK, GoTo

LEMMA AnswerTypes == ASSUME ControlTypeOK, NEW t \in Txns, NEW r \in Replies, Answer(t, r)
                     PROVE  ControlTypeOK'
BY DEF ControlTypeOK, Answer, Steps

LEMMA ConcludeTypes ==
    ASSUME ControlTypeOK, NEW t \in Txns, NEW s \in Steps, NEW o \in Outcomes,
           NEW r \in Replies, Conclude(t, s, o, r)
    PROVE  ControlTypeOK'
BY DEF ControlTypeOK, Conclude

LEMMA NoRulesTypes == ASSUME ControlTypeOK, NEW t \in Txns, NoRules(t)
                      PROVE  ControlTypeOK'
<1>1. "rules" \in Steps /\ "550 domain" \in Replies
      BY DEF Steps, Replies
<1>2. GoTo(t, "rules") \/ Answer(t, "550 domain")
      BY DEF NoRules
<1> QED BY <1>1, <1>2, GoToTypes, AnswerTypes

LEMMA LogAgainTypes == ASSUME ControlTypeOK, NEW t \in Txns, LogAgain(t)
                       PROVE  ControlTypeOK'
<1>1. pending[t].reply \in Replies
      BY DEF ControlTypeOK
<1>2. CASE Answer(t, pending[t].reply)
      BY <1>1, <1>2, AnswerTypes
<1>3. CASE /\ tries' = [tries EXCEPT ![t] = @ + 1]
           /\ UNCHANGED <<pc, pending, reply>>
      BY <1>3 DEF ControlTypeOK
<1> QED BY <1>2, <1>3 DEF LogAgain

-----------------------------------------------------------------------------
\* Type correctness: the tables, the windows and every handler's local state
\* keep their types through every step of handle_DATA and of its surroundings.
LEMMA TypeInit == Init => TypeOK
<1> SUFFICES ASSUME Init PROVE TypeOK
    OBVIOUS
<1>1. (CHOOSE s \in Sessions : TRUE) \in Sessions
      BY GatewayAssumption DEF GatewayAssumption
<1>2. ControlTypeOK
      BY DEF Init, ControlTypeOK, Steps, Replies, Outcomes
<1>3. HandlerTypeOK
      BY <1>1 DEF Init, HandlerTypeOK, NoData, Snapshot
<1>4. RelayTypeOK /\ TableTypeOK
      BY GatewayAssumption DEF Init, GatewayAssumption, RelayTypeOK, TableTypeOK
<1> QED BY <1>2, <1>3, <1>4 DEF Init, TypeOK

LEMMA TypeStep == TypeOK /\ [Next]_vars => TypeOK'
<1> SUFFICES ASSUME TypeOK, [Next]_vars PROVE TypeOK'
    OBVIOUS
<1> USE DEF handlerVars, relayVars, tableVars
<1>a. ControlTypeOK /\ HandlerTypeOK /\ RelayTypeOK /\ TableTypeOK
      BY DEF TypeOK
<1>b. /\ \A s \in {"gate", "testRules", "rules", "token", "evaluate", "ai", "suppression",
                   "forward", "alert", "log"} : s \in Steps
      /\ \A r \in {"lost", "250", "451", "452", "550 domain", "550 policy", "550 ai",
                   "550 suppressed"} : r \in Replies
      /\ \A o \in {"none", "blocked", "allowed"} : o \in Outcomes
      BY DEF Steps, Replies, Outcomes
\* What an action on the control state alone leaves as it is.
<1>c. ASSUME UNCHANGED <<handlerVars, relayVars, tableVars>>
      PROVE  HandlerTypeOK' /\ RelayTypeOK' /\ TableTypeOK'
      BY <1>a, <1>c DEF HandlerTypeOK, RelayTypeOK, TableTypeOK
<1>1. ASSUME NEW t \in Txns, NEW s \in Sessions, Submit(t, s) PROVE TypeOK'
  <2>1. ControlTypeOK'
        BY <1>a, <1>b, <1>1 DEF Submit, ControlTypeOK
  <2>2. HandlerTypeOK'
        BY <1>a, <1>1 DEF Submit, HandlerTypeOK, TableTypeOK
  <2> QED BY <2>1, <2>2, <1>1 DEF Submit, TypeOK, RelayTypeOK, TableTypeOK
<1>2. ASSUME NEW t \in Txns, Gate(t) PROVE TypeOK'
  <2>1. GateAnswer(sess[t], Env(t).domain) \in Replies
        BY GateAnswers DEF Replies
  <2>2. \/ Answer(t, GateAnswer(sess[t], Env(t).domain))
        \/ GoTo(t, "testRules") \/ GoTo(t, "rules")
        BY <1>2 DEF Gate
  <2>3. ControlTypeOK'
        BY <1>a, <1>b, <2>1, <2>2, AnswerTypes, GoToTypes
  <2> QED BY <2>3, <1>c, <1>2 DEF Gate, TypeOK
<1>3. ASSUME NEW t \in Txns, ReadRules(t) PROVE TypeOK'
  <2>1. ControlTypeOK'
    <3>1. CASE Served(Env(t).domain)
          BY <1>a, <1>3, <3>1 DEF ReadRules, ControlTypeOK, Steps
    <3>2. CASE ~Served(Env(t).domain)
          BY <1>a, <1>3, <3>2, NoRulesTypes DEF ReadRules
    <3> QED BY <3>1, <3>2
  <2>2. ActiveRules(CustomerOf[Env(t).domain]) \subseteq Rules
        BY <1>a DEF TableTypeOK, ActiveRules
  <2>3. HandlerTypeOK'
    <3> DEFINE got == [cust |-> CustomerOf[Env(t).domain],
                       rules |-> ActiveRules(CustomerOf[Env(t).domain]), ai |-> FALSE]
    <3>1. got \in Snapshot /\ NoData \in Snapshot
          BY <2>2, EnvType DEF Snapshot, NoData
    <3>2. data' = [data EXCEPT ![t] = got] \/ data' = [data EXCEPT ![t] = NoData]
          BY <1>3 DEF ReadRules
    <3> HIDE DEF got
    <3>3. data' \in [Txns -> Snapshot]
          BY <1>a, <3>1, <3>2 DEF HandlerTypeOK
    <3> QED BY <1>a, <1>3, <3>3 DEF ReadRules, HandlerTypeOK
  <2> QED BY <2>1, <2>3, <1>3 DEF ReadRules, TypeOK, RelayTypeOK, TableTypeOK
<1>4. ASSUME NEW t \in Txns, ReadPolicies(t) PROVE TypeOK'
  <2>1. ControlTypeOK'
        BY <1>a, <1>b, <1>4, GoToTypes DEF ReadPolicies
  <2>2. HandlerTypeOK'
    <3>1. data[t] \in Snapshot /\ (data[t].cust \in aiOn) \in BOOLEAN
          BY <1>a DEF HandlerTypeOK
    <3>2. [data[t] EXCEPT !.ai = data[t].cust \in aiOn] \in Snapshot
          BY <3>1 DEF Snapshot
    <3>3. data' = [data EXCEPT ![t] = [data[t] EXCEPT !.ai = data[t].cust \in aiOn]]
          BY <1>4 DEF ReadPolicies
    <3>4. data' \in [Txns -> Snapshot]
          BY <1>a, <3>2, <3>3 DEF HandlerTypeOK
    <3> QED BY <1>a, <1>4, <3>4 DEF ReadPolicies, HandlerTypeOK
  <2> QED BY <2>1, <2>2, <1>4 DEF ReadPolicies, TypeOK, RelayTypeOK, TableTypeOK
<1>5. ASSUME NEW t \in Txns, FetchFails(t) PROVE TypeOK'
  <2>1. ControlTypeOK'
    <3>1. CASE tries[t] + 1 < FetchAttempts
          BY <1>a, <1>5, <3>1 DEF FetchFails, ControlTypeOK, Steps
    <3>2. CASE ~(tries[t] + 1 < FetchAttempts)
          BY <1>a, <1>5, <3>2, NoRulesTypes DEF FetchFails
    <3> QED BY <3>1, <3>2
  <2>2. HandlerTypeOK'
        BY <1>a, <1>5 DEF FetchFails, HandlerTypeOK, Snapshot, NoData
  <2> QED BY <2>1, <2>2, <1>5 DEF FetchFails, TypeOK, RelayTypeOK, TableTypeOK
<1>6. ASSUME NEW t \in Txns, TestToken(t) PROVE TypeOK'
  <2>1. ControlTypeOK'
        BY <1>a, <1>b, <1>6, GoToTypes, ConcludeTypes DEF TestToken
  <2> QED BY <2>1, <1>c, <1>6 DEF TestToken, TypeOK
<1>7. ASSUME NEW t \in Txns, Evaluate(t) PROVE TypeOK'
  <2>1. \/ Conclude(t, "alert", "none", "452") \/ Conclude(t, "log", "blocked", "550 policy")
        \/ GoTo(t, "ai") \/ GoTo(t, "suppression")
        BY <1>7 DEF Evaluate
  <2>2. ControlTypeOK'
        BY <1>a, <1>b, <2>1, GoToTypes, ConcludeTypes
  <2>3. used' \in [Customers -> Nat]
    <3>1. used \in [Customers -> Nat]
          BY DEF TypeOK
    <3>2. used' = used \/ used' = [used EXCEPT ![data[t].cust] = @ + 1]
          BY <1>7 DEF Evaluate
    <3> QED BY <3>1, <3>2
  <2> QED BY <2>2, <2>3, <1>c, <1>7 DEF Evaluate, TypeOK
<1>8. ASSUME NEW t \in Txns, AiScan(t) PROVE TypeOK'
  <2>1. Conclude(t, "log", "blocked", "550 ai") \/ GoTo(t, "suppression")
        BY <1>8 DEF AiScan
  <2>2. ControlTypeOK'
        BY <1>a, <1>b, <2>1, GoToTypes, ConcludeTypes
  <2>3. mishap' \in BOOLEAN
        BY <1>8 DEF AiScan, TypeOK
  <2> QED BY <2>2, <2>3, <1>c, <1>8 DEF AiScan, TypeOK
<1>9. ASSUME NEW t \in Txns, LookUp(t) PROVE TypeOK'
  <2>1. ControlTypeOK'
    <3>1. CASE Conclude(t, "log", "blocked", "550 suppressed")
          BY <1>a, <1>b, <3>1, ConcludeTypes
    <3>2. CASE UNCHANGED <<pc, tries, pending, reply>>
          BY <1>a, <3>2 DEF ControlTypeOK
    <3> QED BY <3>1, <3>2, <1>9 DEF LookUp
  <2>2. HandlerTypeOK' /\ mishap' \in BOOLEAN
    <3>1. ridx' = ridx \/ ridx' = [ridx EXCEPT ![t] = @ + 1]
          BY <1>9 DEF LookUp
    <3>2. ridx' \in [Txns -> Nat]
          BY <1>a, <3>1 DEF HandlerTypeOK
    <3>3. mishap' \in BOOLEAN
          BY <1>9 DEF LookUp, TypeOK
    <3> QED BY <1>a, <1>9, <3>2, <3>3 DEF LookUp, HandlerTypeOK
  <2> QED BY <2>1, <2>2, <1>9 DEF LookUp, TypeOK, RelayTypeOK, TableTypeOK
<1>10. ASSUME NEW t \in Txns, StartForward(t) PROVE TypeOK'
  <2>1. ControlTypeOK'
        BY <1>a, <1>b, <1>10, GoToTypes DEF StartForward
  <2> QED BY <2>1, <1>10 DEF StartForward, TypeOK, HandlerTypeOK, RelayTypeOK, TableTypeOK
<1>11. ASSUME NEW t \in Txns, RelayStep(t) PROVE TypeOK'
  <2>1. \/ Conclude(t, "log", "allowed", "250") \/ Conclude(t, "alert", "blocked", "451")
        \/ UNCHANGED <<pc, tries, pending, reply>>
        BY <1>11 DEF RelayStep, RelayAccepts, RelayFails
  <2>2. ControlTypeOK'
    <3>1. CASE UNCHANGED <<pc, tries, pending, reply>>
          BY <1>a, <3>1 DEF ControlTypeOK
    <3> QED BY <1>a, <1>b, <2>1, <3>1, ConcludeTypes
  <2>3. PICK rs \in SUBSET RcptSet(t) : Take(t, rs)
        BY <1>11 DEF RelayStep, RelayAccepts, RelayFails
  <2>4. delivered' \subseteq Txns \X Rcpts
        BY <1>a, <2>3, EnvType DEF Take, RelayTypeOK
  <2>5. /\ handing' \subseteq Txns /\ mishap' \in BOOLEAN
        /\ UNCHANGED <<rows, used, handlerVars, tableVars>>
        BY <1>11 DEF RelayStep, RelayAccepts, RelayFails, TypeOK, RelayTypeOK
  <2> QED BY <2>2, <2>4, <2>5 DEF TypeOK, HandlerTypeOK, RelayTypeOK, TableTypeOK
<1>12. ASSUME NEW t \in Txns, Alert(t) PROVE TypeOK'
  <2>1. pending[t].reply \in Replies
        BY <1>a DEF ControlTypeOK
  <2>2. ControlTypeOK'
        BY <1>a, <1>b, <2>1, <1>12, GoToTypes, AnswerTypes DEF Alert
  <2> QED BY <2>2, <1>c, <1>12 DEF Alert, TypeOK
<1>13. ASSUME NEW t \in Txns, LogScan(t) PROVE TypeOK'
  <2>1. pending[t] \in [outcome : Outcomes, reply : Replies] /\ tries[t] \in Nat
        BY <1>a DEF ControlTypeOK
  <2>2. ControlTypeOK'
        BY <1>a, <2>1, <1>13, LogAgainTypes, AnswerTypes DEF LogScan
  <2>3. rows' \subseteq Txns \X Nat \X Outcomes
        BY <2>1, <1>13 DEF LogScan, Insert, TypeOK
  <2>4. mishap' \in BOOLEAN
        BY <1>13 DEF LogScan, TypeOK
  <2> QED BY <2>2, <2>3, <2>4, <1>c, <1>13 DEF LogScan, TypeOK
<1>14. ASSUME NEW t \in Txns, Disconnect(t) PROVE TypeOK'
  <2>1. ControlTypeOK'
        BY <1>a, <1>b, <1>14, AnswerTypes DEF Disconnect
  <2>2. handing' \subseteq Txns
        BY <1>a, <1>14 DEF Disconnect, RelayTypeOK
  <2> QED BY <2>1, <2>2, <1>14
          DEF Disconnect, TypeOK, HandlerTypeOK, RelayTypeOK, TableTypeOK
<1>15. ASSUME NEW c \in Customers, WindowSlides(c) PROVE TypeOK'
  <2>1. used' \in [Customers -> Nat]
        BY <1>15 DEF WindowSlides, TypeOK
  <2> QED BY <2>1, <1>c, <1>15 DEF WindowSlides, TypeOK, ControlTypeOK
<1>16. CASE Crash
  <2>1. ControlTypeOK'
        BY <1>a, <1>16 DEF Crash, ControlTypeOK, Steps, Replies
  <2> QED BY <2>1, <1>16
          DEF Crash, TypeOK, HandlerTypeOK, RelayTypeOK, TableTypeOK
<1>17. CASE TenantEdit
  <2>1. TableTypeOK'
        BY <1>a, <1>17 DEF TenantEdit, TableTypeOK, EditRule, EditAi, Suppress, Release,
                           VerifyDomain, RemoveDomain, VerifyLegacy, OwnedDomains
  <2> QED BY <2>1, <1>17 DEF TenantEdit, TypeOK, ControlTypeOK, HandlerTypeOK, RelayTypeOK
<1>18. CASE UNCHANGED vars
      BY <1>18 DEF vars, TypeOK, ControlTypeOK, HandlerTypeOK, RelayTypeOK, TableTypeOK
<1> QED BY <1>1, <1>2, <1>3, <1>4, <1>5, <1>6, <1>7, <1>8, <1>9, <1>10, <1>11,
           <1>12, <1>13, <1>14, <1>15, <1>16, <1>17, <1>18
        DEF Next, HandlerStep

\* Every step, answer, row and counter of the gateway has its type.
THEOREM TypeCorrect == Spec => []TypeOK
BY TypeInit, TypeStep, PTL DEF Spec

-----------------------------------------------------------------------------
\* The inductive invariant.  A step that leaves transaction u alone keeps u's
\* part of it; each action is then a matter of its own transaction.

RowsUnchanged(u) == \A k \in Attempts, o \in Outcomes : <<u, k, o>> \in rows' <=> <<u, k, o>> \in rows

SameControl(u) == pc'[u] = pc[u] /\ pending'[u] = pending[u] /\ reply'[u] = reply[u]

SameRelay(u) == /\ u \in handing' <=> u \in handing
                /\ Handed(u)' <=> Handed(u)

SameLocals(u) == data'[u] = data[u] /\ ridx'[u] = ridx[u] /\ born'[u] = born[u]

SameTables == /\ UNCHANGED <<active, suppressed, edits>>
              /\ mishap => mishap'

Apart(u) == /\ SameControl(u) /\ SameRelay(u) /\ SameLocals(u)
            /\ RowsUnchanged(u) /\ SameTables

LEMMA StaysApart == ASSUME NEW u \in Txns, TxnInv(u), Apart(u)
                    PROVE  TxnInv(u)'
<1> USE DEF Apart, SameControl, SameRelay
<1>1. /\ Sent(u)' <=> Sent(u)
      /\ Undisturbed(u)' <=> Undisturbed(u)
      /\ ActiveRules(CustomerOf[Env(u).domain])' = ActiveRules(CustomerOf[Env(u).domain])
      BY DEF Sent, Undisturbed, ActiveRules, SameLocals, SameTables
<1>2. HandingOk(u)' /\ HandedOk(u)' /\ PendingOk(u)' /\ RepliedOk(u)'
      BY DEF TxnInv, HandingOk, HandedOk, PendingOk, RepliedOk
<1>3. RowsOk(u)'
      BY DEF TxnInv, RowsOk, RowsUnchanged, Outcomes
<1>4. DataOk(u)'
      BY <1>1 DEF TxnInv, DataOk, SameLocals, SameTables
<1>5. LookedUpOk(u)'
      BY <1>1 DEF TxnInv, LookedUpOk, SameLocals, SameTables
<1> QED BY <1>2, <1>3, <1>4, <1>5 DEF TxnInv

\* What the step helpers of t leave alone.
LEMMA HelpersApart ==
    ASSUME TypeOK, NEW t \in Txns, NEW u \in Txns \ {t},
           \/ \E s : GoTo(t, s)
           \/ \E r : Answer(t, r)
           \/ \E s, o, r : Conclude(t, s, o, r)
           \/ UNCHANGED <<pc, tries, pending, reply>>
           \/ LogAgain(t) \/ NoRules(t)
    PROVE  SameControl(u)
BY DEF TypeOK, ControlTypeOK, GoTo, Answer, Conclude, LogAgain, NoRules, SameControl

\* A step of t's handler or of its relay call leaves the others alone.
LEMMA OthersApart ==
    ASSUME TypeOK, NEW t \in Txns, NEW u \in Txns \ {t},
           \/ \E s \in Sessions : Submit(t, s)
           \/ HandlerStep(t) \/ RelayStep(t) \/ Disconnect(t)
    PROVE  Apart(u)
<1> USE DEF handlerVars, relayVars, tableVars
<1>1. SameControl(u)
  <2>1. CASE \E s \in Sessions : Submit(t, s)
        BY <2>1 DEF Submit, SameControl, TypeOK, ControlTypeOK
  <2>2. CASE Gate(t) \/ ReadPolicies(t) \/ TestToken(t) \/ Evaluate(t) \/ AiScan(t)
             \/ LookUp(t) \/ StartForward(t) \/ Alert(t) \/ LogScan(t)
        BY <2>2, HelpersApart DEF Gate, ReadPolicies, TestToken, Evaluate, AiScan, LookUp,
                                  StartForward, Alert, LogScan
  <2>3. CASE ReadRules(t)
        BY <2>3, HelpersApart DEF ReadRules, SameControl, TypeOK, ControlTypeOK
  <2>4. CASE FetchFails(t)
        BY <2>4, HelpersApart DEF FetchFails, SameControl, TypeOK, ControlTypeOK
  <2>5. CASE RelayStep(t) \/ Disconnect(t)
        BY <2>5, HelpersApart DEF RelayStep, RelayAccepts, RelayFails, Disconnect
  <2> QED BY <2>1, <2>2, <2>3, <2>4, <2>5 DEF HandlerStep
<1>2. SameRelay(u)
  <2>1. CASE delivered' = delivered
        BY <2>1 DEF HandlerStep, RelayStep, Submit, Gate, ReadRules, ReadPolicies, FetchFails,
                    TestToken, Evaluate, AiScan, LookUp, StartForward, RelayAccepts,
                    RelayFails, Alert, LogScan, Disconnect, SameRelay, Handed
  <2>2. CASE RelayStep(t)
    <3>1. PICK rs \in SUBSET RcptSet(t) : Take(t, rs)
          BY <2>2 DEF RelayStep, RelayAccepts, RelayFails
    <3>2. Handed(u)' <=> Handed(u)
          BY <3>1 DEF Take, Handed
    <3>3. u \in handing' <=> u \in handing
          BY <2>2 DEF RelayStep, RelayAccepts, RelayFails
    <3> QED BY <3>2, <3>3 DEF SameRelay
  <2>3. delivered' = delivered \/ RelayStep(t)
        BY DEF HandlerStep, Submit, Gate, ReadRules, ReadPolicies, FetchFails,
               TestToken, Evaluate, AiScan, LookUp, StartForward, Alert, LogScan, Disconnect
  <2> QED BY <2>1, <2>2, <2>3
<1>3. SameLocals(u)
  <2>1. \/ UNCHANGED <<data, ridx, born>>
        \/ ReadRules(t) \/ ReadPolicies(t) \/ FetchFails(t) \/ LookUp(t)
        \/ \E s \in Sessions : Submit(t, s)
        BY DEF HandlerStep, RelayStep, Gate, TestToken, Evaluate, AiScan, StartForward,
               RelayAccepts, RelayFails, Alert, LogScan, Disconnect
  <2>2. CASE ReadRules(t) \/ ReadPolicies(t) \/ FetchFails(t)
    <3>1. /\ \E x : data' = [data EXCEPT ![t] = x]
          /\ UNCHANGED <<ridx, born>>
          BY <2>2 DEF ReadRules, ReadPolicies, FetchFails
    <3> QED BY <3>1 DEF SameLocals, TypeOK, HandlerTypeOK
  <2>3. CASE LookUp(t)
        BY <2>3 DEF LookUp, SameLocals, TypeOK, HandlerTypeOK
  <2>4. CASE \E s \in Sessions : Submit(t, s)
        BY <2>4 DEF Submit, SameLocals, TypeOK, HandlerTypeOK
  <2> QED BY <2>1, <2>2, <2>3, <2>4 DEF SameLocals
<1>4. RowsUnchanged(u)
  <2>1. rows' = rows \/ Insert(t)
        BY DEF HandlerStep, RelayStep, Submit, Gate, ReadRules, ReadPolicies, FetchFails,
               TestToken, Evaluate, AiScan, LookUp, StartForward, RelayAccepts, RelayFails,
               Alert, LogScan, Disconnect
  <2> QED BY <2>1 DEF Insert, RowsUnchanged
<1>5. SameTables
  <2>1. UNCHANGED <<active, suppressed, edits>>
        BY DEF HandlerStep, RelayStep, Submit, Gate, ReadRules, ReadPolicies, FetchFails,
               TestToken, Evaluate, AiScan, LookUp, StartForward, RelayAccepts, RelayFails,
               Alert, LogScan, Disconnect
  <2>2. mishap' = mishap \/ mishap' = TRUE
        BY DEF HandlerStep, RelayStep, Submit, Gate, ReadRules, ReadPolicies, FetchFails,
               TestToken, Evaluate, AiScan, LookUp, StartForward, RelayAccepts, RelayFails,
               Alert, LogScan, Disconnect
  <2>3. mishap => mishap'
        BY <2>2
  <2> QED BY <2>1, <2>3 DEF SameTables
<1> QED BY <1>1, <1>2, <1>3, <1>4, <1>5 DEF Apart

-----------------------------------------------------------------------------
\* The part of transaction t itself.

\* t is not at a step from which anything has been sent.
LEMMA NothingSent == ASSUME NEW t \in Txns, TxnInv(t), pc[t] \notin {"forward", "alert", "log", "ended"}
                     PROVE  ~Sent(t) /\ t \notin handing /\ ~Handed(t)
BY DEF TxnInv, HandingOk, HandedOk, RepliedOk, Sent

\* t goes on to a step before the relay call: nothing to show for relay or rows.
LEMMA NoRowsYet ==
    ASSUME NEW t \in Txns, TxnInv(t), pc[t] \notin {"log", "ended"}
    PROVE  \A k \in Attempts, o \in Outcomes : <<t, k, o>> \notin rows
BY DEF TxnInv, RowsOk, RepliedOk, Outcomes

\* From before the relay call, t's handler goes on or concludes without it.
LEMMA BeforeRelay ==
    ASSUME TypeOK, NEW t \in Txns, TxnInv(t), RowsUnchanged(t), SameRelay(t),
           pc[t] \notin {"forward", "alert", "log", "ended"},
           \/ /\ pc'[t] \notin {"forward", "alert", "log", "ended"}
              /\ reply'[t] = "none"
           \/ /\ pc'[t] = "ended"
              /\ reply'[t] \in {"550 relay", "550 sender", "530", "550 domain", "lost"}
           \/ /\ pc'[t] = "log" /\ reply'[t] = "none"
              /\ \/ /\ pending'[t].outcome = "allowed" /\ pending'[t].reply = "250"
                    /\ t \in Exempt
                 \/ /\ pending'[t].outcome = "blocked"
                    /\ pending'[t].reply \in {"550 policy", "550 ai", "550 suppressed"}
           \/ /\ pc'[t] = "alert" /\ reply'[t] = "none"
              /\ pending'[t].outcome = "none" /\ pending'[t].reply = "452"
    PROVE  /\ HandingOk(t)' /\ HandedOk(t)' /\ PendingOk(t)' /\ RepliedOk(t)' /\ RowsOk(t)'
           /\ ~Sent(t)'
<1>1. t \notin handing /\ ~Handed(t)
      BY NothingSent
<1>2. t \notin handing' /\ ~Handed(t)'
      BY <1>1 DEF SameRelay
<1>3. \A k \in Attempts, o \in Outcomes : <<t, k, o>> \notin rows'
      BY NoRowsYet DEF RowsUnchanged
<1>4. HandingOk(t)' /\ HandedOk(t)' /\ ~Sent(t)'
      BY <1>2 DEF HandingOk, HandedOk, Sent
<1>5. RepliedOk(t)'
      BY DEF RepliedOk
<1>7. PendingOk(t)'
  <2>1. CASE pc'[t] \notin {"alert", "log"}
        BY <2>1 DEF PendingOk
  <2>2. CASE pc'[t] = "alert"
        BY <2>2 DEF PendingOk
  <2>3. CASE pc'[t] = "log"
    <3>1. CASE pending'[t].outcome = "allowed" /\ pending'[t].reply = "250" /\ t \in Exempt
          BY <2>3, <3>1 DEF PendingOk
    <3>2. CASE /\ pending'[t].outcome = "blocked"
               /\ pending'[t].reply \in {"550 policy", "550 ai", "550 suppressed"}
          BY <2>3, <3>2 DEF PendingOk
    <3> QED BY <2>3, <3>1, <3>2
  <2> QED BY <2>1, <2>2, <2>3
<1>6. RowsOk(t)'
      BY <1>3 DEF RowsOk, Outcomes
<1> QED BY <1>4, <1>5, <1>6, <1>7

\* What the step helpers do to t's control state.
LEMMA GoToEffect == ASSUME TypeOK, NEW t \in Txns, NEW s, GoTo(t, s)
                    PROVE  pc'[t] = s /\ reply'[t] = reply[t]
BY DEF TypeOK, ControlTypeOK, GoTo

LEMMA AnswerEffect == ASSUME TypeOK, NEW t \in Txns, NEW r, Answer(t, r)
                      PROVE  pc'[t] = "ended" /\ reply'[t] = r
BY DEF TypeOK, ControlTypeOK, Answer

LEMMA ConcludeEffect ==
    ASSUME TypeOK, NEW t \in Txns, NEW s, NEW o, NEW r, Conclude(t, s, o, r)
    PROVE  /\ pc'[t] = s /\ reply'[t] = reply[t]
           /\ pending'[t].outcome = o /\ pending'[t].reply = r
BY DEF TypeOK, ControlTypeOK, Conclude

\* One lemma per group of actions.  In each: the control state, the parts that
\* BeforeRelay gives, then the snapshot and the recipients looked up.

LEMMA SubmitStep == ASSUME TypeOK, NEW t \in Txns, TxnInv(t), NEW s \in Sessions, Submit(t, s)
                    PROVE  TxnInv(t)'
<1> USE DEF relayVars, tableVars
<1>1. pc[t] = "unsent" /\ pc'[t] = "gate" /\ reply'[t] = "none"
      BY DEF Submit, TypeOK, ControlTypeOK, TxnInv, RepliedOk
<1>2. SameRelay(t) /\ RowsUnchanged(t)
      BY DEF Submit, SameRelay, RowsUnchanged, Handed
<1>3. HandingOk(t)' /\ HandedOk(t)' /\ PendingOk(t)' /\ RepliedOk(t)' /\ RowsOk(t)' /\ ~Sent(t)'
      BY <1>1, <1>2, BeforeRelay
<1>4. born'[t] = edits /\ edits' = edits /\ ridx'[t] = ridx[t] /\ edits \in Nat
      BY DEF Submit, TypeOK, HandlerTypeOK, TableTypeOK
<1>5. DataOk(t)'
      BY <1>1, <1>3, <1>4 DEF DataOk, DataSteps, TestSteps
<1>6. LookedUpOk(t)'
      BY <1>1, <1>3, <1>4 DEF LookedUpOk, TxnInv
<1> QED BY <1>3, <1>5, <1>6 DEF TxnInv

\* The steps before the recipients are looked up that leave the snapshot alone.
LEMMA EarlyStep ==
    ASSUME TypeOK, NEW t \in Txns, TxnInv(t),
           Gate(t) \/ TestToken(t) \/ Evaluate(t) \/ AiScan(t)
    PROVE  TxnInv(t)'
<1> USE DEF handlerVars, relayVars, tableVars
<1>1. /\ pc[t] \in {"gate", "token", "evaluate", "ai"}
      /\ reply[t] = "none"
      BY DEF Gate, TestToken, Evaluate, AiScan, TxnInv, RepliedOk
<1>2. SameRelay(t) /\ SameLocals(t) /\ RowsUnchanged(t)
      BY DEF Gate, TestToken, Evaluate, AiScan, SameRelay, SameLocals, RowsUnchanged, Handed
<1>3. /\ UNCHANGED <<active, suppressed, edits>>
      /\ mishap' = mishap \/ mishap' = TRUE
      BY DEF Gate, TestToken, Evaluate, AiScan
<1>4. ~Sent(t)
      BY <1>1, NothingSent
<1>5. TestToken(t) /\ pc'[t] = "log" => t \in Exempt
  <2> SUFFICES ASSUME TestToken(t), pc'[t] = "log" PROVE t \in Exempt
      OBVIOUS
  <2>1. pc[t] = "token" /\ Env(t).token = data[t].cust
        BY GoToEffect DEF TestToken
  <2>2. /\ data[t].cust = CustomerOf[Env(t).domain] /\ data[t].cust \in Customers
        /\ Env(t).test
        BY <2>1 DEF TxnInv, DataOk, DataSteps, TestSteps
  <2> QED BY <2>1, <2>2 DEF Exempt
<1>6. CASE Gate(t)
  <2>1. \/ pc'[t] = "ended" /\ reply'[t] \in {"550 relay", "530", "550 sender"}
        \/ /\ pc'[t] \in {"testRules", "rules"} /\ reply'[t] = "none"
           /\ pc'[t] = "testRules" => Env(t).test
    <3>1. GateAnswer(sess[t], Env(t).domain) \in {"550 relay", "530", "550 sender", "none"}
          BY GateAnswers
    <3>2. CASE /\ GateAnswer(sess[t], Env(t).domain) # "none"
               /\ Answer(t, GateAnswer(sess[t], Env(t).domain))
      <4>1. pc'[t] = "ended" /\ reply'[t] = GateAnswer(sess[t], Env(t).domain)
            BY <3>2, AnswerEffect
      <4> QED BY <3>1, <3>2, <4>1
    <3>3. CASE Env(t).test /\ GoTo(t, "testRules")
          BY <1>1, <3>3, GoToEffect
    <3>4. CASE GoTo(t, "rules")
      <4>1. pc'[t] = "rules" /\ reply'[t] = "none"
            BY <1>1, <3>4, GoToEffect
      <4> QED BY <4>1
    <3> QED BY <1>6, <3>2, <3>3, <3>4 DEF Gate
  <2>2. /\ HandingOk(t)' /\ HandedOk(t)' /\ PendingOk(t)' /\ RepliedOk(t)' /\ RowsOk(t)'
        /\ ~Sent(t)'
        BY <1>1, <1>2, <2>1, BeforeRelay
  <2>3. DataOk(t)'
        BY <1>2, <1>3, <2>1, <2>2 DEF TxnInv, DataOk, DataSteps, TestSteps, SameLocals
  <2>4. LookedUpOk(t)'
        BY <1>1, <1>2, <2>1, <2>2 DEF TxnInv, LookedUpOk, SameLocals
  <2> QED BY <2>2, <2>3, <2>4 DEF TxnInv
<1>7. CASE TestToken(t)
  <2>1. \/ /\ pc'[t] = "log" /\ reply'[t] = "none" /\ t \in Exempt
           /\ pending'[t].outcome = "allowed" /\ pending'[t].reply = "250"
        \/ pc'[t] = "rules" /\ reply'[t] = "none"
        BY <1>1, <1>5, <1>7, GoToEffect, ConcludeEffect DEF TestToken
  <2>2. /\ HandingOk(t)' /\ HandedOk(t)' /\ PendingOk(t)' /\ RepliedOk(t)' /\ RowsOk(t)'
        /\ ~Sent(t)'
        BY <1>1, <1>2, <2>1, BeforeRelay
  <2>3. DataOk(t)'
        BY <1>2, <1>3, <2>1, <2>2 DEF TxnInv, DataOk, DataSteps, TestSteps, SameLocals
  <2>4. LookedUpOk(t)'
        BY <1>1, <1>2, <1>7, <2>1, <2>2 DEF TxnInv, LookedUpOk, SameLocals, TestToken
  <2> QED BY <2>2, <2>3, <2>4 DEF TxnInv
<1>8. CASE Evaluate(t)
  <2>1. \/ /\ pc'[t] = "alert" /\ reply'[t] = "none"
           /\ pending'[t].outcome = "none" /\ pending'[t].reply = "452"
        \/ /\ pc'[t] = "log" /\ reply'[t] = "none"
           /\ pending'[t].outcome = "blocked" /\ pending'[t].reply = "550 policy"
        \/ /\ pc'[t] \in {"ai", "suppression"} /\ reply'[t] = "none"
           /\ ~Blocks(data[t].rules, Env(t).rules)
    <3>1. CASE Conclude(t, "alert", "none", "452")
      <4>1. /\ pc'[t] = "alert" /\ reply'[t] = reply[t]
            /\ pending'[t].outcome = "none" /\ pending'[t].reply = "452"
            BY <3>1 DEF Conclude, TypeOK, ControlTypeOK
      <4> QED BY <1>1, <4>1
    <3>2. CASE Conclude(t, "log", "blocked", "550 policy")
      <4>1. /\ pc'[t] = "log" /\ reply'[t] = reply[t]
            /\ pending'[t].outcome = "blocked" /\ pending'[t].reply = "550 policy"
            BY <3>2 DEF Conclude, TypeOK, ControlTypeOK
      <4> QED BY <1>1, <4>1
    <3>3. CASE /\ ~Blocks(data[t].rules, Env(t).rules)
               /\ GoTo(t, IF data[t].ai THEN "ai" ELSE "suppression")
          BY <1>1, <3>3, GoToEffect
    <3> QED BY <1>8, <3>1, <3>2, <3>3 DEF Evaluate
  <2>2. /\ HandingOk(t)' /\ HandedOk(t)' /\ PendingOk(t)' /\ RepliedOk(t)' /\ RowsOk(t)'
        /\ ~Sent(t)'
        BY <1>1, <1>2, <2>1, BeforeRelay
  <2>3. DataOk(t)'
    <3>1. /\ Undisturbed(t)' <=> Undisturbed(t)
          /\ ActiveRules(CustomerOf[Env(t).domain])' = ActiveRules(CustomerOf[Env(t).domain])
          BY <1>2, <1>3 DEF Undisturbed, ActiveRules, SameLocals
    <3>2. pc[t] \in DataSteps
          BY <1>8 DEF Evaluate, DataSteps
    <3> QED BY <1>2, <1>3, <2>1, <2>2, <3>1, <3>2
            DEF TxnInv, DataOk, DataSteps, TestSteps, SameLocals
  <2>4. LookedUpOk(t)'
    <3>1. ridx[t] = 0 /\ ridx'[t] = 0
          BY <1>2, <1>8 DEF Evaluate, TxnInv, LookedUpOk, SameLocals
    <3>2. 0 <= Len(Env(t).rcpts) /\ \A i \in 1..0 : FALSE
          BY EnvType
    <3> QED BY <2>1, <2>2, <3>1, <3>2 DEF LookedUpOk
  <2> QED BY <2>2, <2>3, <2>4 DEF TxnInv
<1>9. CASE AiScan(t)
  <2>1. \/ /\ pc'[t] = "log" /\ reply'[t] = "none"
           /\ pending'[t].outcome = "blocked" /\ pending'[t].reply = "550 ai"
        \/ pc'[t] = "suppression" /\ reply'[t] = "none"
    <3>1. CASE Conclude(t, "log", "blocked", "550 ai")
      <4>1. /\ pc'[t] = "log" /\ reply'[t] = reply[t]
            /\ pending'[t].outcome = "blocked" /\ pending'[t].reply = "550 ai"
            BY <3>1 DEF Conclude, TypeOK, ControlTypeOK
      <4> QED BY <1>1, <4>1
    <3>2. CASE GoTo(t, "suppression")
          BY <1>1, <3>2, GoToEffect
    <3> QED BY <1>9, <3>1, <3>2 DEF AiScan
  <2>2. /\ HandingOk(t)' /\ HandedOk(t)' /\ PendingOk(t)' /\ RepliedOk(t)' /\ RowsOk(t)'
        /\ ~Sent(t)'
        BY <1>1, <1>2, <2>1, BeforeRelay
  <2>3. DataOk(t)'
    <3>1. /\ Undisturbed(t)' <=> Undisturbed(t)
          /\ ActiveRules(CustomerOf[Env(t).domain])' = ActiveRules(CustomerOf[Env(t).domain])
          BY <1>2, <1>3 DEF Undisturbed, ActiveRules, SameLocals
    <3>2. pc[t] = "ai"
          BY <1>9 DEF AiScan
    <3> QED BY <1>2, <1>3, <2>1, <2>2, <3>1, <3>2
            DEF TxnInv, DataOk, DataSteps, TestSteps, SameLocals
  <2>4. LookedUpOk(t)'
    <3>1. ridx[t] = 0 /\ ridx'[t] = 0
          BY <1>2, <1>9 DEF AiScan, TxnInv, LookedUpOk, SameLocals
    <3>2. 0 <= Len(Env(t).rcpts) /\ \A i \in 1..0 : FALSE
          BY EnvType
    <3> QED BY <2>1, <2>2, <3>1, <3>2 DEF LookedUpOk
  <2> QED BY <2>2, <2>3, <2>4 DEF TxnInv
<1> QED BY <1>6, <1>7, <1>8, <1>9

\* The steps that fetch the snapshot.
LEMMA NoRulesEffect ==
    ASSUME TypeOK, NEW t \in Txns, NoRules(t),
           pc[t] \in {"testRules", "testPolicies", "rules", "policies"}
    PROVE  \/ pc'[t] = "rules" /\ reply'[t] = reply[t]
           \/ pc'[t] = "ended" /\ reply'[t] = "550 domain"
<1>1. CASE GoTo(t, "rules")
      BY <1>1, GoToEffect
<1>2. CASE Answer(t, "550 domain")
      BY <1>2, AnswerEffect
<1> QED BY <1>1, <1>2 DEF NoRules

LEMMA FetchStep ==
    ASSUME TypeOK, NEW t \in Txns, TxnInv(t),
           ReadRules(t) \/ ReadPolicies(t) \/ FetchFails(t)
    PROVE  TxnInv(t)'
<1> USE DEF relayVars, tableVars
<1>1. /\ pc[t] \in {"testRules", "testPolicies", "rules", "policies"}
      /\ reply[t] = "none"
      BY DEF ReadRules, ReadPolicies, FetchFails, TxnInv, RepliedOk
<1>2. SameRelay(t) /\ RowsUnchanged(t)
      BY DEF ReadRules, ReadPolicies, FetchFails, SameRelay, RowsUnchanged, Handed
<1>3. UNCHANGED <<active, suppressed, edits, born, ridx, verified, legacy>>
      BY DEF ReadRules, ReadPolicies, FetchFails
<1>4. ridx[t] = 0
      BY <1>1 DEF TxnInv, LookedUpOk
<1>5. ActiveRules(CustomerOf[Env(t).domain])' = ActiveRules(CustomerOf[Env(t).domain])
      BY <1>3 DEF ActiveRules
\* It is enough to follow the control state and the snapshot.
<1>6. ASSUME \/ /\ pc'[t] \in {"testRules", "testPolicies", "token", "rules", "policies",
                               "evaluate"}
                /\ reply'[t] = "none"
                /\ pc'[t] \in TestSteps => Env(t).test
                /\ pc'[t] \in DataSteps =>
                      /\ data'[t].cust = CustomerOf[Env(t).domain]
                      /\ data'[t].cust \in Customers
                      /\ Undisturbed(t) =>
                            data'[t].rules = ActiveRules(CustomerOf[Env(t).domain])
             \/ pc'[t] = "ended" /\ reply'[t] = "550 domain"
      PROVE  TxnInv(t)'
  <2>1. /\ HandingOk(t)' /\ HandedOk(t)' /\ PendingOk(t)' /\ RepliedOk(t)' /\ RowsOk(t)'
        /\ ~Sent(t)'
        BY <1>1, <1>2, <1>6, BeforeRelay
  <2>2. born[t] <= edits /\ (Undisturbed(t)' <=> Undisturbed(t))
        BY <1>3 DEF TxnInv, DataOk, Undisturbed
  <2>3. DataOk(t)'
        BY <1>3, <1>5, <1>6, <2>1, <2>2 DEF DataOk, DataSteps, TestSteps
  <2>4. LookedUpOk(t)'
        BY <1>3, <1>4, <1>6, <2>1 DEF LookedUpOk
  <2> QED BY <2>1, <2>3, <2>4 DEF TxnInv
<1>7. CASE ReadRules(t)
  <2>1. CASE Served(Env(t).domain)
    <3>1. /\ pc'[t] = IF pc[t] = "rules" THEN "policies" ELSE "testPolicies"
          /\ reply'[t] = "none"
          BY <1>1, <1>7, <2>1 DEF ReadRules, TypeOK, ControlTypeOK
    <3>2. /\ data'[t].cust = CustomerOf[Env(t).domain]
          /\ data'[t].rules = ActiveRules(CustomerOf[Env(t).domain])
          BY <1>7, <2>1 DEF ReadRules, TypeOK, HandlerTypeOK
    <3>3. CustomerOf[Env(t).domain] \in Customers
          BY <2>1, EnvType DEF Served
    <3>4. pc'[t] \in TestSteps => Env(t).test
          BY <1>7, <3>1 DEF ReadRules, TestSteps, TxnInv, DataOk
    <3> QED BY <1>6, <1>7, <3>1, <3>2, <3>3, <3>4 DEF ReadRules
  <2>2. CASE ~Served(Env(t).domain)
        BY <1>1, <1>6, <1>7, <2>2, NoRulesEffect DEF ReadRules, TestSteps, DataSteps
  <2> QED BY <2>1, <2>2
<1>8. CASE ReadPolicies(t)
  <2>1. /\ pc'[t] = IF pc[t] = "policies" THEN "evaluate" ELSE "token"
        /\ reply'[t] = "none"
        BY <1>1, <1>8, GoToEffect DEF ReadPolicies
  <2>2. data'[t].cust = data[t].cust /\ data'[t].rules = data[t].rules
        BY <1>8 DEF ReadPolicies, TypeOK, HandlerTypeOK, Snapshot
  <2>3. pc[t] \in DataSteps /\ (pc'[t] \in TestSteps => pc[t] \in TestSteps)
        BY <1>8, <2>1 DEF ReadPolicies, DataSteps, TestSteps
  <2>4. /\ data'[t].cust = CustomerOf[Env(t).domain] /\ data'[t].cust \in Customers
        /\ Undisturbed(t) => data'[t].rules = ActiveRules(CustomerOf[Env(t).domain])
        /\ pc'[t] \in TestSteps => Env(t).test
        BY <2>2, <2>3 DEF TxnInv, DataOk
  <2> QED BY <1>6, <2>1, <2>4
<1>9. CASE FetchFails(t)
  <2>1. CASE tries[t] + 1 < FetchAttempts
    <3>1. /\ pc'[t] = IF pc[t] \in {"rules", "policies"} THEN "rules" ELSE "testRules"
          /\ reply'[t] = "none"
          BY <1>1, <1>9, <2>1 DEF FetchFails, TypeOK, ControlTypeOK
    <3>2. pc'[t] \in TestSteps => Env(t).test
          BY <1>1, <3>1 DEF TestSteps, TxnInv, DataOk
    <3> QED BY <1>6, <3>1, <3>2 DEF DataSteps
  <2>2. CASE ~(tries[t] + 1 < FetchAttempts)
        BY <1>1, <1>6, <1>9, <2>2, NoRulesEffect DEF FetchFails, TestSteps, DataSteps
  <2> QED BY <2>1, <2>2
<1> QED BY <1>7, <1>8, <1>9

\* The recipients' lookups and the start of the relay call.
LEMMA LookUpStep == ASSUME TypeOK, NEW t \in Txns, TxnInv(t), LookUp(t)
                    PROVE  TxnInv(t)'
<1> USE DEF relayVars, tableVars
<1>1. pc[t] = "suppression" /\ reply[t] = "none"
      BY DEF LookUp, TxnInv, RepliedOk
<1>2. SameRelay(t) /\ RowsUnchanged(t) /\ ~Sent(t)
      BY <1>1, NothingSent DEF LookUp, SameRelay, RowsUnchanged, Handed
<1>3. /\ UNCHANGED <<active, suppressed, edits, born, data>>
      /\ Undisturbed(t)' <=> Undisturbed(t)
      /\ ActiveRules(CustomerOf[Env(t).domain])' = ActiveRules(CustomerOf[Env(t).domain])
      BY DEF LookUp, Undisturbed, ActiveRules
<1>4. CASE Conclude(t, "log", "blocked", "550 suppressed")
  <2>1. /\ pc'[t] = "log" /\ reply'[t] = "none"
        /\ pending'[t].outcome = "blocked" /\ pending'[t].reply = "550 suppressed"
        BY <1>1, <1>4 DEF Conclude, TypeOK, ControlTypeOK
  <2>2. /\ HandingOk(t)' /\ HandedOk(t)' /\ PendingOk(t)' /\ RepliedOk(t)' /\ RowsOk(t)'
        /\ ~Sent(t)'
        BY <1>1, <1>2, <2>1, BeforeRelay
  <2>3. DataOk(t)' /\ LookedUpOk(t)'
        BY <1>3, <2>1, <2>2 DEF TxnInv, DataOk, LookedUpOk, DataSteps, TestSteps
  <2> QED BY <2>2, <2>3 DEF TxnInv
<1>5. CASE UNCHANGED <<pc, tries, pending, reply>>
  <2>1. /\ HandingOk(t)' /\ HandedOk(t)' /\ PendingOk(t)' /\ RepliedOk(t)' /\ RowsOk(t)'
        /\ ~Sent(t)'
        BY <1>1, <1>2, <1>5, BeforeRelay
  <2>2. DataOk(t)'
        BY <1>1, <1>3, <1>5, <2>1 DEF TxnInv, DataOk, DataSteps, TestSteps
  <2>3. LookedUpOk(t)'
    <3> DEFINE Free(i) == <<CustomerOf[Env(t).domain], Env(t).rcpts[i]>> \notin suppressed
    <3>1. data[t].cust = CustomerOf[Env(t).domain]
          BY <1>1 DEF TxnInv, DataOk, DataSteps
    <3>2. ridx[t] \in Nat /\ ridx[t] < Len(Env(t).rcpts) /\ Len(Env(t).rcpts) \in Nat
      <4>1. Env(t).rcpts \in Seq(Rcpts)
            BY EnvType
      <4>2. ridx[t] \in Nat /\ ridx[t] < Len(Env(t).rcpts)
            BY DEF TypeOK, HandlerTypeOK, LookUp
      <4> QED BY <4>1, <4>2
    <3>3. ~Conclude(t, "log", "blocked", "550 suppressed")
          BY <1>1, <1>5 DEF Conclude, TypeOK, ControlTypeOK
    <3>4. ridx'[t] = ridx[t] + 1
          BY <3>3 DEF LookUp, TypeOK, HandlerTypeOK
    <3>5. \/ Free(ridx[t] + 1) /\ mishap' = mishap
          \/ mishap' = TRUE
          BY <3>1, <3>3 DEF LookUp
    <3>6. Undisturbed(t) /\ ~mishap => \A i \in 1..ridx[t] : Free(i)
          BY <1>1 DEF TxnInv, LookedUpOk
    <3> HIDE DEF Free
    <3>7. ASSUME Undisturbed(t), ~mishap' PROVE \A i \in 1..(ridx[t] + 1) : Free(i)
      <4>1. Free(ridx[t] + 1) /\ ~mishap
            BY <3>5, <3>7
      <4>2. \A i \in 1..ridx[t] : Free(i)
            BY <3>6, <3>7, <4>1
      <4> QED BY <3>2, <4>1, <4>2
    <3>8. ridx'[t] <= Len(Env(t).rcpts)
          BY <3>2, <3>4
    <3>9. /\ Undisturbed(t)' <=> Undisturbed(t)
          /\ suppressed' = suppressed /\ pc'[t] = "suppression"
          BY <1>1, <1>3, <1>5
    <3> QED BY <2>1, <3>4, <3>7, <3>8, <3>9 DEF LookedUpOk, Free
  <2> QED BY <2>1, <2>2, <2>3 DEF TxnInv
<1> QED BY <1>4, <1>5 DEF LookUp

LEMMA StartStep == ASSUME TypeOK, NEW t \in Txns, TxnInv(t), StartForward(t)
                   PROVE  TxnInv(t)'
<1> USE DEF handlerVars, tableVars
<1>1. pc[t] = "suppression" /\ reply[t] = "none" /\ ridx[t] = Len(Env(t).rcpts)
      BY DEF StartForward, TxnInv, RepliedOk
<1>2. pc'[t] = "forward" /\ reply'[t] = "none"
      BY <1>1, GoToEffect DEF StartForward
<1>3. ~Handed(t) /\ ~Handed(t)'
      BY <1>1, NothingSent DEF StartForward, Handed
<1>4. /\ UNCHANGED <<active, suppressed, edits, born, data, ridx, rows, mishap>>
      /\ Undisturbed(t)' <=> Undisturbed(t)
      /\ ActiveRules(CustomerOf[Env(t).domain])' = ActiveRules(CustomerOf[Env(t).domain])
      BY DEF StartForward, Undisturbed, ActiveRules
<1>5. HandingOk(t)' /\ HandedOk(t)' /\ PendingOk(t)' /\ RepliedOk(t)'
      BY <1>2, <1>3 DEF HandingOk, HandedOk, PendingOk, RepliedOk
<1>6. RowsOk(t)'
      BY <1>1, <1>4, NoRowsYet DEF RowsOk, Outcomes
<1>7. DataOk(t)'
      BY <1>1, <1>2, <1>4 DEF TxnInv, DataOk, DataSteps, TestSteps
<1>8. LookedUpOk(t)'
      BY <1>1, <1>2, <1>4, EnvType DEF TxnInv, LookedUpOk
<1> QED BY <1>5, <1>6, <1>7, <1>8 DEF TxnInv

\* The relay call returns or raises, to a handler that waits or to none.
LEMMA RelayStepInv == ASSUME TypeOK, NEW t \in Txns, TxnInv(t), RelayStep(t)
                      PROVE  TxnInv(t)'
<1> USE DEF handlerVars, tableVars
<1>1. t \in handing /\ t \notin handing' /\ Sent(t)
      BY DEF RelayStep, RelayAccepts, RelayFails, Sent
<1>2. /\ UNCHANGED <<active, suppressed, edits, born, data, ridx, rows>>
      /\ Undisturbed(t)' <=> Undisturbed(t)
      /\ ActiveRules(CustomerOf[Env(t).domain])' = ActiveRules(CustomerOf[Env(t).domain])
      BY DEF RelayStep, RelayAccepts, RelayFails, Undisturbed, ActiveRules
<1>3. mishap => mishap'
  <2>1. mishap' = mishap \/ mishap' = TRUE
        BY DEF RelayStep, RelayAccepts, RelayFails
  <2> QED BY <2>1
<1>4. RelayAccepts(t) => Handed(t)'
  <2> SUFFICES ASSUME RelayAccepts(t) PROVE Handed(t)'
      OBVIOUS
  <2>1. PICK rs \in (SUBSET RcptSet(t)) \ {{}} : Take(t, rs)
        BY DEF RelayAccepts
  <2>2. PICK r \in rs : r \in Rcpts
        BY <2>1, EnvType
  <2>3. <<t, r>> \in delivered'
        BY <2>1, <2>2 DEF Take
  <2> QED BY <2>2, <2>3 DEF Handed
<1>5. CASE pc[t] = "forward"
  <2>1. reply[t] = "none"
        BY <1>5 DEF TxnInv, RepliedOk
  <2>2. \/ /\ pc'[t] = "log" /\ reply'[t] = "none" /\ Handed(t)'
           /\ pending'[t].outcome = "allowed" /\ pending'[t].reply = "250"
        \/ /\ pc'[t] = "alert" /\ reply'[t] = "none"
           /\ pending'[t].outcome = "blocked" /\ pending'[t].reply = "451"
    <3>1. CASE RelayAccepts(t)
      <4>1. Conclude(t, "log", "allowed", "250")
            BY <1>5, <3>1 DEF RelayAccepts
      <4> QED BY <1>4, <2>1, <3>1, <4>1, ConcludeEffect
    <3>2. CASE RelayFails(t)
      <4>1. Conclude(t, "alert", "blocked", "451")
            BY <1>5, <3>2 DEF RelayFails
      <4> QED BY <2>1, <4>1, ConcludeEffect
    <3> QED BY <3>1, <3>2 DEF RelayStep
  <2>3. HandingOk(t)' /\ HandedOk(t)'
        BY <1>1, <2>2 DEF HandingOk, HandedOk
  <2>4. PendingOk(t)'
        BY <2>2 DEF PendingOk
  <2>5. RepliedOk(t)'
        BY <2>2 DEF RepliedOk
  <2>6. RowsOk(t)'
        BY <1>2, <1>5, NoRowsYet DEF RowsOk, Outcomes
  <2>7. DataOk(t)'
        BY <1>1, <1>2, <2>2 DEF TxnInv, DataOk, DataSteps, TestSteps
  <2>8. LookedUpOk(t)'
        BY <1>1, <1>2, <1>3, <2>2 DEF TxnInv, LookedUpOk
  <2> QED BY <2>3, <2>4, <2>5, <2>6, <2>7, <2>8 DEF TxnInv
<1>6. CASE pc[t] # "forward"
  <2>1. /\ reply[t] = "lost" /\ pc[t] = "ended"
        BY <1>1, <1>6 DEF TxnInv, HandingOk, RepliedOk
  <2>2. UNCHANGED <<pc, tries, pending, reply>>
        BY <1>6 DEF RelayStep, RelayAccepts, RelayFails
  <2>3. HandingOk(t)' /\ HandedOk(t)' /\ PendingOk(t)' /\ RepliedOk(t)'
        BY <1>1, <2>1, <2>2 DEF HandingOk, HandedOk, PendingOk, RepliedOk
  <2>4. Handed(t) => Handed(t)'
    <3>1. PICK rs \in SUBSET RcptSet(t) : Take(t, rs)
          BY DEF RelayStep, RelayAccepts, RelayFails
    <3> QED BY <3>1 DEF Take, Handed
  <2>5. RowsOk(t)'
        BY <1>2, <2>1, <2>2, <2>4 DEF TxnInv, RowsOk
  <2>6. DataOk(t)'
        BY <1>1, <1>2, <2>1, <2>2 DEF TxnInv, DataOk, DataSteps, TestSteps
  <2>7. LookedUpOk(t)'
        BY <1>1, <1>2, <1>3, <2>1, <2>2 DEF TxnInv, LookedUpOk
  <2> QED BY <2>3, <2>5, <2>6, <2>7 DEF TxnInv
<1> QED BY <1>5, <1>6

\* After the relay call nothing but the control state and the rows change.
LEMMA AfterRelay ==
    ASSUME NEW t \in Txns, TxnInv(t), SameRelay(t), SameLocals(t), SameTables,
           pc'[t] \in {"log", "ended"}
    PROVE  DataOk(t)' /\ LookedUpOk(t)'
<1>1. /\ Undisturbed(t)' <=> Undisturbed(t)
      /\ Sent(t)' <=> Sent(t)
      /\ ActiveRules(CustomerOf[Env(t).domain])' = ActiveRules(CustomerOf[Env(t).domain])
      BY DEF SameRelay, SameLocals, SameTables, Undisturbed, Sent, ActiveRules
<1>2. DataOk(t)'
      BY <1>1 DEF TxnInv, DataOk, DataSteps, TestSteps, SameLocals, SameTables
<1>3. LookedUpOk(t)'
      BY <1>1 DEF TxnInv, LookedUpOk, SameLocals, SameTables
<1> QED BY <1>2, <1>3

LEMMA AlertStep == ASSUME TypeOK, NEW t \in Txns, TxnInv(t), Alert(t)
                   PROVE  TxnInv(t)'
<1> USE DEF handlerVars, relayVars, tableVars
<1>1. SameRelay(t) /\ SameLocals(t) /\ SameTables
      BY DEF Alert, SameRelay, SameLocals, SameTables, Handed
<1>2. /\ pc[t] = "alert" /\ reply[t] = "none"
      /\ t \notin handing
      /\ rows' = rows
      BY DEF Alert, TxnInv, RepliedOk, HandingOk
<1>3. \/ /\ pc'[t] = "ended" /\ reply'[t] = "452" /\ ~Handed(t)
      \/ /\ pc'[t] = "log" /\ reply'[t] = "none"
         /\ pending'[t].outcome = "blocked" /\ pending'[t].reply = "451"
  <2>1. CASE pending[t].outcome = "none"
    <3>1. pending[t].reply = "452"
          BY <1>2, <2>1 DEF TxnInv, PendingOk
    <3>2. ~Handed(t)
          BY <1>2, <3>1 DEF TxnInv, HandedOk
    <3>3. pc'[t] = "ended" /\ reply'[t] = pending[t].reply
          BY <2>1, AnswerEffect DEF Alert
    <3> QED BY <3>1, <3>2, <3>3
  <2>2. CASE pending[t].outcome # "none"
    <3>1. pending[t].outcome = "blocked" /\ pending[t].reply = "451"
          BY <1>2, <2>2 DEF TxnInv, PendingOk
    <3>2. pc'[t] = "log" /\ reply'[t] = reply[t] /\ pending' = pending
          BY <2>2, GoToEffect DEF Alert, GoTo
    <3> QED BY <1>2, <3>1, <3>2
  <2> QED BY <2>1, <2>2
<1>4. HandingOk(t)' /\ HandedOk(t)'
      BY <1>1, <1>2, <1>3 DEF HandingOk, HandedOk, SameRelay
<1>5. PendingOk(t)'
      BY <1>3 DEF PendingOk
<1>6. RepliedOk(t)'
      BY <1>3 DEF RepliedOk
<1>7. RowsOk(t)'
      BY <1>2, NoRowsYet DEF RowsOk, Outcomes
<1>8. DataOk(t)' /\ LookedUpOk(t)'
      BY <1>1, <1>3, AfterRelay
<1> QED BY <1>4, <1>5, <1>6, <1>7, <1>8 DEF TxnInv

\* An attempt of _log_scan: it may write the row, and the handler tries again
\* or answers.
LEMMA LogStep == ASSUME TypeOK, NEW t \in Txns, TxnInv(t), LogScan(t)
                 PROVE  TxnInv(t)'
<1> USE DEF handlerVars, relayVars, tableVars
<1>1. SameRelay(t) /\ SameLocals(t) /\ SameTables
  <2>1. mishap' = mishap \/ mishap' = TRUE
        BY DEF LogScan
  <2>2. mishap => mishap'
        BY <2>1
  <2> QED BY <2>2 DEF LogScan, SameRelay, SameLocals, SameTables, Handed
<1>2. pc[t] = "log" /\ reply[t] = "none" /\ t \notin handing
      BY DEF LogScan, TxnInv, RepliedOk, HandingOk
<1>3. /\ pending'[t] = pending[t]
      /\ \/ pc'[t] = "log" /\ reply'[t] = "none"
         \/ pc'[t] = "ended" /\ reply'[t] = pending[t].reply
  <2>1. LogAgain(t) \/ Answer(t, pending[t].reply)
        BY DEF LogScan
  <2>2. CASE Answer(t, pending[t].reply)
        BY <2>2, AnswerEffect DEF Answer
  <2>3. CASE LogAgain(t) /\ ~Answer(t, pending[t].reply)
        BY <1>2, <2>3 DEF LogAgain
  <2> QED BY <2>1, <2>2, <2>3
\* The two rows the handler may write.
<1>4. \/ /\ pending[t].outcome = "allowed" /\ pending[t].reply = "250"
         /\ Handed(t) \/ t \in Exempt
      \/ /\ pending[t].outcome = "blocked"
         /\ pending[t].reply \in {"451", "550 policy", "550 ai", "550 suppressed"}
      BY <1>2 DEF TxnInv, PendingOk
<1>5. Handed(t) => pending[t].reply \in {"250", "451"}
      BY <1>2 DEF TxnInv, HandedOk
<1>6. HandingOk(t)' /\ HandedOk(t)'
      BY <1>1, <1>2, <1>3, <1>5 DEF HandingOk, HandedOk, SameRelay
<1>7. PendingOk(t)' /\ RepliedOk(t)'
  <2>1. Handed(t)' <=> Handed(t)
        BY <1>1 DEF SameRelay
  <2>2. CASE pc'[t] = "log" /\ reply'[t] = "none"
        BY <1>3, <1>4, <2>1, <2>2 DEF PendingOk, RepliedOk
  <2>3. CASE pc'[t] = "ended" /\ reply'[t] = pending[t].reply
        BY <1>4, <2>1, <2>3 DEF PendingOk, RepliedOk
  <2> QED BY <1>3, <2>2, <2>3
<1>8. RowsOk(t)'
  <2> SUFFICES ASSUME NEW k \in Attempts
               PROVE  /\ <<t, k, "allowed">> \in rows' =>
                            /\ Handed(t)' \/ t \in Exempt
                            /\ \/ pc'[t] = "log" /\ pending'[t].outcome = "allowed"
                               \/ reply'[t] \in {"lost", "250"}
                      /\ <<t, k, "blocked">> \in rows' =>
                            \/ pc'[t] = "log" /\ pending'[t].outcome = "blocked"
                            \/ reply'[t] \in {"lost", "451", "550 policy", "550 ai",
                                              "550 suppressed"}
                      /\ <<t, k, "none">> \notin rows'
      BY DEF RowsOk
  <2>1. rows' = rows \/ rows' = rows \cup {<<t, tries[t], pending[t].outcome>>}
        BY DEF LogScan, Insert
  <2>2. /\ <<t, k, "allowed">> \in rows =>
              (Handed(t) \/ t \in Exempt) /\ pending[t].outcome = "allowed"
        /\ <<t, k, "blocked">> \in rows => pending[t].outcome = "blocked"
        /\ <<t, k, "none">> \notin rows
        BY <1>2 DEF TxnInv, RowsOk
  <2>3. /\ <<t, k, "allowed">> \in rows' =>
              (Handed(t) \/ t \in Exempt) /\ pending[t].outcome = "allowed"
        /\ <<t, k, "blocked">> \in rows' => pending[t].outcome = "blocked"
        /\ <<t, k, "none">> \notin rows'
        BY <1>4, <2>1, <2>2
  <2>4. Handed(t)' <=> Handed(t)
        BY <1>1 DEF SameRelay
  <2>5. CASE pending[t].outcome = "allowed"
        BY <1>3, <1>4, <2>3, <2>4, <2>5
  <2>6. CASE pending[t].outcome = "blocked"
        BY <1>3, <1>4, <2>3, <2>4, <2>6
  <2> QED BY <1>4, <2>5, <2>6
<1>9. DataOk(t)' /\ LookedUpOk(t)'
      BY <1>1, <1>3, AfterRelay
<1> QED BY <1>6, <1>7, <1>8, <1>9 DEF TxnInv

\* A handler that is cut off, by a disconnect or by a crash, leaves at most its
\* relay call behind.
LEMMA LostStep ==
    ASSUME TypeOK, NEW t \in Txns, TxnInv(t), Live(t),
           pc'[t] = "ended", reply'[t] = "lost", t \in handing' => t \in handing,
           UNCHANGED <<delivered, rows, data, ridx, born, active, suppressed, edits>>,
           mishap' = TRUE
    PROVE  TxnInv(t)'
<1>1. pc[t] # "ended" /\ reply[t] = "none"
      BY DEF Live, TxnInv, RepliedOk
<1>2. /\ Handed(t)' <=> Handed(t)
      /\ Sent(t)' => Sent(t)
      /\ Undisturbed(t)' <=> Undisturbed(t)
      /\ ActiveRules(CustomerOf[Env(t).domain])' = ActiveRules(CustomerOf[Env(t).domain])
      BY DEF Handed, Sent, Undisturbed, ActiveRules
<1>3. HandingOk(t)' /\ HandedOk(t)' /\ PendingOk(t)' /\ RepliedOk(t)'
      BY <1>2 DEF TxnInv, HandingOk, HandedOk, PendingOk, RepliedOk
<1>4. RowsOk(t)'
      BY <1>1, <1>2 DEF TxnInv, RowsOk
<1>5. DataOk(t)'
      BY <1>2 DEF TxnInv, DataOk, DataSteps, TestSteps
<1>6. LookedUpOk(t)'
      BY <1>2 DEF TxnInv, LookedUpOk
<1> QED BY <1>3, <1>4, <1>5, <1>6 DEF TxnInv

\* An edit makes every transaction in flight a disturbed one.
LEMMA EditStep == ASSUME TypeOK, NEW t \in Txns, TxnInv(t), TenantEdit
                  PROVE  TxnInv(t)'
<1> USE DEF handlerVars, relayVars
<1>1. /\ UNCHANGED <<pc, pending, reply, rows, handing, delivered, data, ridx, born, mishap>>
      /\ edits' = edits + 1
      BY DEF TenantEdit
<1>2. born[t] \in Nat /\ edits \in Nat /\ born[t] <= edits
      BY DEF TypeOK, HandlerTypeOK, TableTypeOK, TxnInv, DataOk
<1>3. ~Undisturbed(t)' /\ born'[t] <= edits'
      BY <1>1, <1>2 DEF Undisturbed
<1>4. (Handed(t)' <=> Handed(t)) /\ (Sent(t)' <=> Sent(t))
      BY <1>1 DEF Handed, Sent
<1>5. HandingOk(t)' /\ HandedOk(t)' /\ PendingOk(t)' /\ RepliedOk(t)' /\ RowsOk(t)'
      BY <1>1, <1>4 DEF TxnInv, HandingOk, HandedOk, PendingOk, RepliedOk, RowsOk
<1>6. DataOk(t)'
      BY <1>1, <1>3, <1>4 DEF TxnInv, DataOk
<1>7. LookedUpOk(t)'
      BY <1>1, <1>3, <1>4 DEF TxnInv, LookedUpOk
<1> QED BY <1>5, <1>6, <1>7 DEF TxnInv

-----------------------------------------------------------------------------
LEMMA InvInit == Init => GatewayInv
<1> SUFFICES ASSUME Init, NEW t \in Txns PROVE TxnInv(t)
    BY DEF GatewayInv
<1>1. /\ pc[t] = "unsent" /\ reply[t] = "none" /\ ridx[t] = 0 /\ born[t] = 0 /\ edits = 0
      /\ handing = {} /\ delivered = {} /\ rows = {}
      BY DEF Init
<1>2. ~Handed(t) /\ ~Sent(t)
      BY <1>1 DEF Handed, Sent
<1>3. HandingOk(t) /\ HandedOk(t) /\ PendingOk(t) /\ RepliedOk(t) /\ RowsOk(t)
      BY <1>1, <1>2 DEF HandingOk, HandedOk, PendingOk, RepliedOk, RowsOk
<1>4. DataOk(t) /\ LookedUpOk(t)
      BY <1>1, <1>2 DEF DataOk, LookedUpOk, DataSteps, TestSteps
<1> QED BY <1>3, <1>4 DEF TxnInv

LEMMA InvStep == TypeOK /\ GatewayInv /\ [Next]_vars => GatewayInv'
<1> SUFFICES ASSUME TypeOK, GatewayInv, [Next]_vars, NEW u \in Txns PROVE TxnInv(u)'
    BY DEF GatewayInv
<1>a. TxnInv(u)
      BY DEF GatewayInv
<1>1. ASSUME NEW t \in Txns, \/ \E s \in Sessions : Submit(t, s)
                             \/ HandlerStep(t) \/ RelayStep(t) \/ Disconnect(t)
      PROVE  TxnInv(u)'
  <2>1. CASE u # t
        BY <1>a, <1>1, <2>1, OthersApart, StaysApart
  <2>2. CASE u = t /\ Disconnect(t)
    <3>1. Live(t) /\ Answer(t, "lost") /\ mishap' = TRUE
          BY <2>2 DEF Disconnect
    <3>2. pc'[t] = "ended" /\ reply'[t] = "lost"
          BY <3>1, AnswerEffect
    <3>3. /\ t \in handing' => t \in handing
          /\ UNCHANGED <<delivered, rows, data, ridx, born, active, suppressed, edits>>
          BY <2>2 DEF Disconnect, handlerVars, tableVars
    <3> QED BY <1>a, <2>2, <3>1, <3>2, <3>3, LostStep
  <2>3. CASE u = t /\ ((\E s \in Sessions : Submit(t, s)) \/ RelayStep(t))
        BY <1>a, <2>3, SubmitStep, RelayStepInv
  <2>4. CASE u = t /\ HandlerStep(t)
        BY <1>a, <2>4, EarlyStep, FetchStep, LookUpStep, StartStep, AlertStep, LogStep
        DEF HandlerStep
  <2> QED BY <1>1, <2>1, <2>2, <2>3, <2>4
<1>2. ASSUME NEW c \in Customers, WindowSlides(c) PROVE TxnInv(u)'
  <2>1. Apart(u)
        BY <1>2 DEF WindowSlides, Apart, SameControl, SameRelay, SameLocals, RowsUnchanged,
                    SameTables, Handed, handlerVars, relayVars, tableVars
  <2> QED BY <1>a, <2>1, StaysApart
<1>3. CASE Crash
  <2>1. /\ handing' = {} /\ mishap' = TRUE
        /\ UNCHANGED <<pending, delivered, rows, data, ridx, born, active, suppressed, edits>>
        BY <1>3 DEF Crash, handlerVars, tableVars
  <2>2. CASE Live(u)
    <3>1. pc'[u] = "ended" /\ reply'[u] = "lost"
          BY <1>3, <2>2 DEF Crash
    <3> QED BY <1>a, <2>1, <2>2, <3>1, LostStep
  <2>3. CASE ~Live(u)
    <3>1. pc'[u] = pc[u] /\ reply'[u] = reply[u]
          BY <1>3, <2>3 DEF Crash
    <3>2. /\ Handed(u)' <=> Handed(u)
          /\ Sent(u)' => Sent(u)
          /\ Undisturbed(u)' <=> Undisturbed(u)
          /\ ActiveRules(CustomerOf[Env(u).domain])' = ActiveRules(CustomerOf[Env(u).domain])
          BY <2>1 DEF Handed, Sent, Undisturbed, ActiveRules
    <3>3. HandingOk(u)' /\ HandedOk(u)' /\ PendingOk(u)' /\ RepliedOk(u)' /\ RowsOk(u)'
          BY <1>a, <2>1, <3>1, <3>2
          DEF TxnInv, HandingOk, HandedOk, PendingOk, RepliedOk, RowsOk
    <3>4. DataOk(u)'
          BY <1>a, <2>1, <3>1, <3>2 DEF TxnInv, DataOk
    <3>5. LookedUpOk(u)'
          BY <1>a, <2>1, <3>1, <3>2 DEF TxnInv, LookedUpOk
    <3> QED BY <3>3, <3>4, <3>5 DEF TxnInv
  <2> QED BY <2>2, <2>3
<1>4. CASE TenantEdit
      BY <1>a, <1>4, EditStep
<1>5. CASE UNCHANGED vars
  <2>1. Apart(u)
        BY <1>5 DEF vars, Apart, SameControl, SameRelay, SameLocals, RowsUnchanged,
                    SameTables, Handed, handlerVars, relayVars, tableVars
  <2> QED BY <1>a, <2>1, StaysApart
<1> QED BY <1>1, <1>2, <1>3, <1>4, <1>5 DEF Next

\* Row, snapshot, answer and relay stay consistent for every transaction.
THEOREM InvHolds == Spec => []GatewayInv
<1>1. TypeOK /\ GatewayInv /\ [Next]_vars => GatewayInv'
      BY InvStep
<1> QED BY InvInit, <1>1, TypeCorrect, PTL DEF Spec

\* A 250 means that the relay holds the message or that it was a connection test.
THEOREM AcceptedHolds == Spec => []AcceptedWasHandedOver
<1>1. GatewayInv => AcceptedWasHandedOver
      BY DEF GatewayInv, AcceptedWasHandedOver, TxnInv, RepliedOk
<1> QED BY <1>1, InvHolds, PTL

\* A refused message went nowhere and never will.
THEOREM RefusedHolds == Spec => []RefusedNeverHandedOver
<1>1. GatewayInv => RefusedNeverHandedOver
  <2> SUFFICES ASSUME NEW t \in Txns, TxnInv(t),
                      reply[t] \notin {"none", "lost", "250", "451"}
               PROVE  t \notin handing /\ ~Handed(t)
      BY DEF GatewayInv, RefusedNeverHandedOver
  <2>1. pc[t] = "ended"
        BY DEF TxnInv, RepliedOk
  <2> QED BY <2>1 DEF TxnInv, HandingOk, HandedOk
<1> QED BY <1>1, InvHolds, PTL

\* The scan log never contradicts what happened to a message.
THEOREM RowsHold == Spec => []RowsTellTheTruth
<1>1. GatewayInv => RowsTellTheTruth
  <2> SUFFICES ASSUME NEW t \in Txns, NEW k \in Attempts, TxnInv(t)
               PROVE  /\ <<t, k, "allowed">> \in rows =>
                            /\ Handed(t) \/ t \in Exempt
                            /\ reply[t] \in {"none", "lost", "250"}
                      /\ <<t, k, "blocked">> \in rows =>
                            reply[t] \in {"none", "lost", "451", "550 policy", "550 ai",
                                          "550 suppressed"}
                      /\ <<t, k, "none">> \notin rows
      BY DEF GatewayInv, RowsTellTheTruth
  <2>1. pc[t] = "log" => reply[t] = "none"
        BY DEF TxnInv, RepliedOk
  <2> QED BY <2>1 DEF TxnInv, RowsOk
<1> QED BY <1>1, InvHolds, PTL

\* What leaves the gateway, the tenant's rules let through.
THEOREM RulesHold == Spec => []RulesApplied
<1>1. GatewayInv => RulesApplied
      BY DEF GatewayInv, RulesApplied, TxnInv, DataOk, Sent
<1> QED BY <1>1, InvHolds, PTL

\* While no lookup failed, nothing leaves for a suppressed recipient.
THEOREM SuppressedHolds == Spec => []SuppressedHoldsBack
<1>1. GatewayInv => SuppressedHoldsBack
  <2> SUFFICES ASSUME NEW t \in Txns, TxnInv(t), Sent(t), Undisturbed(t), ~mishap,
                      NEW r \in RcptSet(t)
               PROVE  <<CustomerOf[Env(t).domain], r>> \notin suppressed
      BY DEF GatewayInv, SuppressedHoldsBack, Sent
  <2>1. PICK i \in 1..Len(Env(t).rcpts) : r = Env(t).rcpts[i]
        BY EnvType DEF RcptSet
  <2> QED BY <2>1 DEF TxnInv, LookedUpOk
<1> QED BY <1>1, InvHolds, PTL
-----------------------------------------------------------------------------
(***************************************************************************)
(* SmtpGateway implements RelayPromise: under the mapping of KeepsPromise  *)
(* every step of the gateway is a step of the promise or leaves its        *)
(* variables alone.                                                        *)
(***************************************************************************)
\* The values of the promise's variables.
AnswerMap == [t \in Txns |-> AnswerOf(t)]
HandedSet == {t \in Txns : Handed(t)}

LEMMA AnswerRange == ASSUME NEW t \in Txns, TypeOK
                     PROVE  /\ AnswerOf(t) = "open" <=> Live(t)
                            /\ AnswerOf(t) = "unsent" <=> pc[t] = "unsent"
                            /\ pc[t] = "ended" /\ reply[t] = "lost" => AnswerOf(t) = "lost"
<1>1. pc[t] \in Steps
      BY DEF TypeOK, ControlTypeOK
<1>2. CASE pc[t] = "unsent"
      BY <1>2 DEF AnswerOf, Live
<1>3. CASE pc[t] = "ended"
      BY <1>3 DEF AnswerOf, Live
<1>4. CASE pc[t] \notin {"unsent", "ended"}
      BY <1>1, <1>4 DEF AnswerOf, Live
<1> QED BY <1>2, <1>3, <1>4

\* When all transactions but t keep their control state, the map changes at t.
LEMMA AnswerChanges ==
    ASSUME NEW t \in Txns, \A u \in Txns \ {t} : SameControl(u)
    PROVE  AnswerMap' = [AnswerMap EXCEPT ![t] = AnswerOf(t)']
<1>1. \A u \in Txns \ {t} : AnswerOf(u)' = AnswerOf(u)
      BY DEF SameControl, AnswerOf
<1> QED BY <1>1 DEF AnswerMap

\* A step of a live handler that leaves the relay alone goes on or answers.
LEMMA HandlerRefines ==
    ASSUME TypeOK, TypeOK', NEW t \in Txns, TxnInv(t)', Live(t), pc'[t] # "unsent",
           delivered' = delivered, \A u \in Txns \ {t} : SameControl(u)
    PROVE  [Promise!PromiseNext]_(Promise!promiseVars)
<1>1. AnswerOf(t) = "open" /\ AnswerMap[t] = "open"
      BY AnswerRange DEF AnswerMap
<1>2. AnswerMap' = [AnswerMap EXCEPT ![t] = AnswerOf(t)']
      BY AnswerChanges
<1>3. HandedSet' = HandedSet /\ (t \in HandedSet <=> Handed(t)')
      BY DEF HandedSet, Handed
<1>4. pc'[t] \in Steps /\ reply'[t] \in Replies
      BY DEF TypeOK, ControlTypeOK
<1>5. CASE pc'[t] # "ended"
  <2>1. AnswerOf(t)' = "open"
        BY <1>4, <1>5 DEF AnswerOf
  <2>2. AnswerMap' = AnswerMap
        BY <1>1, <1>2, <2>1 DEF AnswerMap
  <2> QED BY <1>3, <2>2 DEF Promise!promiseVars, AnswerMap, HandedSet
<1>6. CASE pc'[t] = "ended" /\ reply'[t] = "250"
  <2>1. AnswerOf(t)' = "accepted"
        BY <1>6 DEF AnswerOf
  <2>2. t \in HandedSet \cup Exempt
        BY <1>3, <1>6 DEF TxnInv, RepliedOk
  <2>3. Promise!Accept(t)
        BY <1>1, <1>2, <1>3, <2>1, <2>2 DEF Promise!Accept, AnswerMap, HandedSet
  <2> QED BY <2>3 DEF Promise!PromiseNext
<1>7. CASE pc'[t] = "ended" /\ reply'[t] = "451"
  <2>1. AnswerOf(t)' = "deferred"
        BY <1>7 DEF AnswerOf
  <2>2. Promise!Defer(t)
        BY <1>1, <1>2, <1>3, <2>1 DEF Promise!Defer, AnswerMap, HandedSet
  <2> QED BY <2>2 DEF Promise!PromiseNext
<1>8. CASE pc'[t] = "ended" /\ reply'[t] = "lost"
  <2>1. AnswerOf(t)' = "lost"
        BY <1>8 DEF AnswerOf
  <2>2. AnswerMap' = [u \in Txns |-> IF u \in {t} THEN "lost" ELSE AnswerMap[u]]
        BY <1>2, <2>1 DEF AnswerMap
  <2>3. Promise!Lose({t})
        BY <1>1, <1>3, <2>2 DEF Promise!Lose, AnswerMap, HandedSet
  <2> QED BY <2>3 DEF Promise!PromiseNext
<1>9. CASE pc'[t] = "ended" /\ reply'[t] \notin {"250", "451", "lost"}
  <2>1. AnswerOf(t)' = "rejected"
        BY <1>9 DEF AnswerOf, Steps
  <2>2. t \notin HandedSet
        BY <1>3, <1>9 DEF TxnInv, HandedOk
  <2>3. Promise!Reject(t)
        BY <1>1, <1>2, <1>3, <2>1, <2>2 DEF Promise!Reject, AnswerMap, HandedSet
  <2> QED BY <2>3 DEF Promise!PromiseNext
<1> QED BY <1>5, <1>6, <1>7, <1>8, <1>9

\* The relay call's end hands the message over or changes nothing.
LEMMA RelayRefines ==
    ASSUME TypeOK, TypeOK', NEW t \in Txns, TxnInv(t), TxnInv(t)', RelayStep(t)
    PROVE  [Promise!PromiseNext]_(Promise!promiseVars)
<1>1. t \in handing /\ ~Handed(t)
      BY DEF RelayStep, RelayAccepts, RelayFails, TxnInv, HandingOk
<1>2. PICK rs \in SUBSET RcptSet(t) : Take(t, rs)
      BY DEF RelayStep, RelayAccepts, RelayFails
<1>3. HandedSet' = HandedSet \/ HandedSet' = HandedSet \cup {t}
      BY <1>2 DEF HandedSet, Handed, Take
<1>4. t \notin HandedSet
      BY <1>1 DEF HandedSet
<1>5. AnswerOf(t)' = AnswerOf(t) /\ AnswerOf(t) \in {"open", "lost"}
  <2>1. CASE pc[t] = "forward"
    <3>1. Conclude(t, "log", "allowed", "250") \/ Conclude(t, "alert", "blocked", "451")
          BY <2>1 DEF RelayStep, RelayAccepts, RelayFails
    <3>2. CASE Conclude(t, "log", "allowed", "250")
      <4>1. pc'[t] = "log"
            BY <3>2, ConcludeEffect
      <4> QED BY <2>1, <4>1 DEF AnswerOf, Steps
    <3>3. CASE Conclude(t, "alert", "blocked", "451")
      <4>1. pc'[t] = "alert"
            BY <3>3, ConcludeEffect
      <4> QED BY <2>1, <4>1 DEF AnswerOf, Steps
    <3> QED BY <3>1, <3>2, <3>3
  <2>2. CASE pc[t] # "forward"
    <3>1. UNCHANGED <<pc, reply>>
          BY <2>2 DEF RelayStep, RelayAccepts, RelayFails
    <3>2. reply[t] = "lost" /\ pc[t] = "ended"
          BY <1>1, <2>2 DEF TxnInv, HandingOk, RepliedOk
    <3> QED BY <3>1, <3>2 DEF AnswerOf
  <2> QED BY <2>1, <2>2
<1>6. AnswerMap' = AnswerMap
  <2>1. \A u \in Txns \ {t} : SameControl(u)
        BY OthersApart DEF Apart
  <2>2. AnswerMap' = [AnswerMap EXCEPT ![t] = AnswerOf(t)]
        BY <1>5, <2>1, AnswerChanges
  <2> QED BY <2>2 DEF AnswerMap
<1>7. CASE HandedSet' = HandedSet
      BY <1>6, <1>7 DEF Promise!promiseVars, AnswerMap, HandedSet
<1>8. CASE HandedSet' = HandedSet \cup {t}
  <2>1. Promise!HandOver(t)
        BY <1>4, <1>5, <1>6, <1>8 DEF Promise!HandOver, AnswerMap, HandedSet
  <2> QED BY <2>1 DEF Promise!PromiseNext
<1> QED BY <1>3, <1>7, <1>8

\* A crash loses every transaction that has a handler.
LEMMA CrashRefines ==
    ASSUME TypeOK, TypeOK', Crash
    PROVE  [Promise!PromiseNext]_(Promise!promiseVars)
<1> DEFINE lives == {t \in Txns : Live(t)}
<1>1. HandedSet' = HandedSet
      BY DEF Crash, relayVars, HandedSet, Handed
<1>2. ASSUME NEW t \in Txns PROVE
          AnswerOf(t)' = IF t \in lives THEN "lost" ELSE AnswerOf(t)
  <2>1. CASE Live(t)
    <3>1. pc'[t] = "ended" /\ reply'[t] = "lost"
          BY <2>1 DEF Crash
    <3> QED BY <2>1, <3>1 DEF AnswerOf
  <2>2. CASE ~Live(t)
    <3>1. pc'[t] = pc[t] /\ reply'[t] = reply[t]
          BY <2>2 DEF Crash
    <3> QED BY <2>2, <3>1 DEF AnswerOf
  <2> QED BY <2>1, <2>2
<1>3. \A t \in lives : AnswerMap[t] = "open"
      BY AnswerRange DEF AnswerMap
<1>4. AnswerMap' = [t \in Txns |-> IF t \in lives THEN "lost" ELSE AnswerMap[t]]
      BY <1>2 DEF AnswerMap
<1>5. CASE lives = {}
  <2>1. AnswerMap' = AnswerMap
        BY <1>4, <1>5 DEF AnswerMap
  <2> QED BY <1>1, <2>1 DEF Promise!promiseVars, AnswerMap, HandedSet
<1>6. CASE lives # {}
  <2> HIDE DEF lives
  <2>1. Promise!Lose(lives)
        BY <1>1, <1>3, <1>4, <1>6 DEF Promise!Lose, AnswerMap, HandedSet
  <2>2. lives \in SUBSET Txns
        BY DEF lives
  <2> QED BY <2>1, <2>2 DEF Promise!PromiseNext
<1> QED BY <1>5, <1>6

\* A step that touches neither control nor relay is no step of the promise.
LEMMA StutterRefines == ASSUME UNCHANGED <<pc, reply, delivered>>
                        PROVE  UNCHANGED Promise!promiseVars
BY DEF Promise!promiseVars, AnswerOf, Handed

\* The gateway implements the promise: one answer per submission, at most one
\* hand-over, none after a refusal, and an acceptance only after one.
THEOREM Refines == Spec => KeepsPromise
<1>1. Init => Promise!PromiseInit
  <2> SUFFICES ASSUME Init PROVE Promise!PromiseInit
      OBVIOUS
  <2>1. \A t \in Txns : AnswerOf(t) = "unsent" /\ ~Handed(t)
        BY DEF Init, AnswerOf, Handed
  <2> QED BY <2>1 DEF Promise!PromiseInit
<1>2. TypeOK /\ TypeOK' /\ GatewayInv /\ GatewayInv' /\ [Next]_vars
          => [Promise!PromiseNext]_(Promise!promiseVars)
  <2> SUFFICES ASSUME TypeOK, TypeOK', GatewayInv, GatewayInv', [Next]_vars
               PROVE  [Promise!PromiseNext]_(Promise!promiseVars)
      OBVIOUS
  <2>a. \A t \in Txns : TxnInv(t) /\ TxnInv(t)'
        BY DEF GatewayInv
  <2>1. ASSUME NEW t \in Txns, NEW s \in Sessions, Submit(t, s)
        PROVE  [Promise!PromiseNext]_(Promise!promiseVars)
    <3>1. AnswerMap[t] = "unsent" /\ AnswerOf(t)' = "open"
      <4>1. pc[t] = "unsent" /\ pc'[t] = "gate"
            BY <2>1 DEF Submit, TypeOK, ControlTypeOK
      <4> QED BY <4>1 DEF AnswerMap, AnswerOf, Steps
    <3>2. AnswerMap' = [AnswerMap EXCEPT ![t] = "open"]
      <4>1. \A u \in Txns \ {t} : SameControl(u)
            BY <2>1, OthersApart DEF Apart
      <4> QED BY <3>1, <4>1, AnswerChanges
    <3>3. HandedSet' = HandedSet
          BY <2>1 DEF Submit, relayVars, HandedSet, Handed
    <3>4. Promise!Open(t)
          BY <3>1, <3>2, <3>3 DEF Promise!Open, AnswerMap, HandedSet
    <3> QED BY <3>4 DEF Promise!PromiseNext
  <2>2. ASSUME NEW t \in Txns, HandlerStep(t) \/ Disconnect(t)
        PROVE  [Promise!PromiseNext]_(Promise!promiseVars)
    <3>1. Live(t) /\ delivered' = delivered
          BY <2>2 DEF HandlerStep, Gate, ReadRules, ReadPolicies, FetchFails, TestToken,
                      Evaluate, AiScan, LookUp, StartForward, Alert, LogScan, Disconnect,
                      Live, relayVars
    <3>2. \A u \in Txns \ {t} : SameControl(u)
          BY <2>2, OthersApart DEF Apart
    <3>3. pc'[t] # "unsent"
      <4>1. CASE ReadRules(t)
            BY <2>a, <4>1, NoRulesEffect DEF ReadRules, TypeOK, ControlTypeOK
      <4>2. CASE FetchFails(t)
            BY <2>a, <4>2, NoRulesEffect DEF FetchFails, TypeOK, ControlTypeOK
      <4>3. CASE Gate(t) \/ ReadPolicies(t) \/ TestToken(t) \/ Evaluate(t) \/ AiScan(t)
                 \/ LookUp(t) \/ StartForward(t) \/ Alert(t) \/ LogScan(t) \/ Disconnect(t)
            BY <3>1, <4>3 DEF Gate, ReadPolicies, TestToken, Evaluate, AiScan, LookUp,
                         StartForward, Alert, LogScan, LogAgain, Disconnect, GoTo, Answer,
                         Conclude, TypeOK, ControlTypeOK, Live
      <4> QED BY <2>2, <4>1, <4>2, <4>3 DEF HandlerStep
    <3> QED BY <2>a, <3>1, <3>2, <3>3, HandlerRefines
  <2>3. ASSUME NEW t \in Txns, RelayStep(t)
        PROVE  [Promise!PromiseNext]_(Promise!promiseVars)
        BY <2>a, <2>3, RelayRefines
  <2>4. CASE Crash
        BY <2>4, CrashRefines
  <2>5. CASE TenantEdit \/ (\E c \in Customers : WindowSlides(c)) \/ UNCHANGED vars
    <3>1. UNCHANGED <<pc, reply, delivered>>
          BY <2>5 DEF TenantEdit, WindowSlides, vars, relayVars
    <3> QED BY <3>1, StutterRefines
  <2> QED BY <2>1, <2>2, <2>3, <2>4, <2>5 DEF Next
<1>3. Spec => []TypeOK /\ []GatewayInv
      BY TypeCorrect, InvHolds
<1> QED BY <1>1, <1>2, <1>3, PTL DEF Spec, KeepsPromise, Promise!PromiseSpec
-----------------------------------------------------------------------------
(***************************************************************************)
(* LoggedOnce.  Nothing is logged before the log step; while nothing fails *)
(* and nobody edits, nothing before the answer, and one row with it.       *)
(***************************************************************************)
Quiet(t) == ~mishap /\ Undisturbed(t) /\ Loggable(t)

OnceOk(t) ==
    /\ pc[t] \notin {"log", "ended"} => RowsOf(t) = {}
    /\ Quiet(t) /\ pc[t] = "log" => RowsOf(t) = {}
    /\ Quiet(t) /\ reply[t] \in LoggedReplies => \E row : RowsOf(t) = {row}

OnceInv == \A t \in Txns : OnceOk(t)

\* A step that writes no row for u, and answers u with nothing that is logged.
Calm(u) ==
    /\ RowsOf(u)' = RowsOf(u)
    /\ UNCHANGED <<verified, edits>> /\ born'[u] = born[u]
    /\ mishap => mishap'
    /\ \/ pc'[u] = pc[u] /\ reply'[u] = reply[u]
       \/ pc[u] \notin {"log", "ended"} /\ reply'[u] \notin LoggedReplies
       \/ pc'[u] = "ended" /\ reply'[u] = "lost"

LEMMA CalmKeeps == ASSUME NEW u \in Txns, OnceOk(u), Calm(u) PROVE OnceOk(u)'
<1>1. Quiet(u)' => Quiet(u)
      BY DEF Calm, Quiet, Undisturbed, Loggable
<1>2. CASE pc'[u] = pc[u] /\ reply'[u] = reply[u]
      BY <1>1, <1>2 DEF Calm, OnceOk
<1>3. CASE pc[u] \notin {"log", "ended"} /\ reply'[u] \notin LoggedReplies
      BY <1>3 DEF Calm, OnceOk
<1>4. CASE pc'[u] = "ended" /\ reply'[u] = "lost"
      BY <1>4 DEF OnceOk, LoggedReplies
<1> QED BY <1>2, <1>3, <1>4 DEF Calm

\* A step of t is calm for the others.
LEMMA OthersCalm ==
    ASSUME TypeOK, NEW t \in Txns, NEW u \in Txns \ {t},
           \/ \E s \in Sessions : Submit(t, s)
           \/ HandlerStep(t) \/ RelayStep(t) \/ Disconnect(t)
    PROVE  Calm(u)
<1> USE DEF handlerVars, relayVars, tableVars
<1>1. SameControl(u) /\ SameLocals(u) /\ SameTables
      BY OthersApart DEF Apart
<1>2. UNCHANGED verified
      BY DEF HandlerStep, RelayStep, Submit, Gate, ReadRules, ReadPolicies, FetchFails,
             TestToken, Evaluate, AiScan, LookUp, StartForward, RelayAccepts, RelayFails,
             Alert, LogScan, Disconnect
<1>3. RowsOf(u)' = RowsOf(u)
  <2>1. rows' = rows \/ Insert(t)
        BY DEF HandlerStep, RelayStep, Submit, Gate, ReadRules, ReadPolicies, FetchFails,
               TestToken, Evaluate, AiScan, LookUp, StartForward, RelayAccepts, RelayFails,
               Alert, LogScan, Disconnect
  <2> QED BY <2>1 DEF Insert, RowsOf
<1> QED BY <1>1, <1>2, <1>3 DEF Calm, SameControl, SameLocals, SameTables

\* So is one of its own, except for the submission and the log step.
LEMMA OwnCalm ==
    ASSUME TypeOK, NEW t \in Txns, TxnInv(t),
           (HandlerStep(t) /\ ~LogScan(t)) \/ RelayStep(t) \/ Disconnect(t)
    PROVE  Calm(t)
<1> USE DEF handlerVars, relayVars, tableVars
<1>1. /\ UNCHANGED <<rows, verified, edits, born>>
      /\ mishap' = mishap \/ mishap' = TRUE
      BY DEF HandlerStep, RelayStep, Gate, ReadRules, ReadPolicies, FetchFails,
             TestToken, Evaluate, AiScan, LookUp, StartForward, RelayAccepts, RelayFails,
             Alert, Disconnect
<1>2. mishap => mishap'
      BY <1>1
<1>3. RowsOf(t)' = RowsOf(t)
      BY <1>1 DEF RowsOf
<1>4. pc[t] # "ended" => reply[t] = "none"
      BY DEF TxnInv, RepliedOk
<1>5. \/ pc'[t] = pc[t] /\ reply'[t] = reply[t]
      \/ pc[t] \notin {"log", "ended"} /\ reply'[t] \notin LoggedReplies
      \/ pc'[t] = "ended" /\ reply'[t] = "lost"
  <2> USE DEF LoggedReplies
  <2>1. CASE Gate(t)
    <3>1. pc[t] = "gate"
          BY <2>1 DEF Gate
    <3>2. CASE Answer(t, GateAnswer(sess[t], Env(t).domain))
      <4>1. reply'[t] = GateAnswer(sess[t], Env(t).domain)
            BY <3>2, AnswerEffect
      <4>2. reply'[t] \notin LoggedReplies
            BY <4>1, GateAnswers
      <4> QED BY <3>1, <4>2
    <3>3. CASE GoTo(t, "testRules") \/ GoTo(t, "rules")
          BY <1>4, <3>1, <3>3, GoToEffect
    <3> QED BY <2>1, <3>2, <3>3 DEF Gate
  <2>2. CASE ReadRules(t) \/ FetchFails(t)
    <3>1. pc[t] \in {"testRules", "testPolicies", "rules", "policies"}
          BY <2>2 DEF ReadRules, FetchFails
    <3>2. NoRules(t) \/ reply' = reply
          BY <2>2 DEF ReadRules, FetchFails
    <3> QED BY <1>4, <3>1, <3>2, NoRulesEffect
  <2>3. CASE ReadPolicies(t) \/ TestToken(t) \/ Evaluate(t) \/ AiScan(t) \/ LookUp(t)
             \/ StartForward(t)
    <3>1. pc[t] \notin {"log", "ended"}
          BY <2>3 DEF ReadPolicies, TestToken, Evaluate, AiScan, LookUp, StartForward
    <3>2. reply' = reply
          BY <2>3 DEF ReadPolicies, TestToken, Evaluate, AiScan, LookUp, StartForward,
                      GoTo, Conclude
    <3> QED BY <1>4, <3>1, <3>2
  <2>4. CASE Alert(t)
    <3>1. pc[t] = "alert"
          BY <2>4 DEF Alert
    <3>2. CASE pending[t].outcome = "none" /\ Answer(t, pending[t].reply)
      <4>1. pending[t].reply = "452"
            BY <3>1, <3>2 DEF TxnInv, PendingOk
      <4> QED BY <3>1, <3>2, <4>1, AnswerEffect
    <3>3. CASE GoTo(t, "log")
          BY <1>4, <3>1, <3>3, GoToEffect
    <3> QED BY <2>4, <3>2, <3>3 DEF Alert
  <2>5. CASE RelayStep(t)
    <3>1. CASE pc[t] = "forward"
      <4>1. reply' = reply
            BY <2>5, <3>1 DEF RelayStep, RelayAccepts, RelayFails, Conclude
      <4> QED BY <1>4, <3>1, <4>1
    <3>2. CASE pc[t] # "forward"
          BY <2>5, <3>2 DEF RelayStep, RelayAccepts, RelayFails
    <3> QED BY <3>1, <3>2
  <2>6. CASE Disconnect(t)
        BY <2>6, AnswerEffect DEF Disconnect
  <2> QED BY <2>1, <2>2, <2>3, <2>4, <2>5, <2>6 DEF HandlerStep
<1> QED BY <1>1, <1>2, <1>3, <1>5 DEF Calm

\* The submission starts without a row, whatever was edited before it.
LEMMA SubmitOnce ==
    ASSUME TypeOK, NEW t \in Txns, TxnInv(t), OnceOk(t), NEW s \in Sessions, Submit(t, s)
    PROVE  OnceOk(t)'
<1>1. pc[t] = "unsent" /\ pc'[t] = "gate" /\ reply' = reply /\ rows' = rows
      BY DEF Submit, TypeOK, ControlTypeOK
<1>2. RowsOf(t)' = {}
      BY <1>1 DEF OnceOk, RowsOf
<1>3. reply'[t] = "none"
      BY <1>1 DEF TxnInv, RepliedOk
<1> QED BY <1>1, <1>2, <1>3 DEF OnceOk, LoggedReplies

\* While nothing fails the first attempt writes the row and answers.
LEMMA LogOnce ==
    ASSUME TypeOK, NEW t \in Txns, TxnInv(t), OnceOk(t), LogScan(t)
    PROVE  OnceOk(t)'
<1> USE DEF handlerVars, relayVars, tableVars
<1>1. pc[t] = "log"
      BY DEF LogScan
<1>2. pc'[t] \in {"log", "ended"}
  <2>1. CASE Answer(t, pending[t].reply)
        BY <2>1, AnswerEffect
  <2>2. CASE LogAgain(t) /\ ~Answer(t, pending[t].reply)
        BY <1>1, <2>2 DEF LogAgain
  <2> QED BY <2>1, <2>2 DEF LogScan
<1>3. CASE ~Quiet(t)'
      BY <1>2, <1>3 DEF OnceOk
<1>4. CASE Quiet(t)'
  <2>1. UNCHANGED <<verified, edits, born>>
        BY DEF LogScan
  <2>2. Loggable(t) /\ ~mishap' /\ (mishap' = mishap \/ mishap' = TRUE)
        BY <1>4, <2>1 DEF Quiet, Loggable, LogScan
  <2>3. Quiet(t)
        BY <1>4, <2>1, <2>2 DEF Quiet, Undisturbed, Loggable
  <2>4. Insert(t) /\ Answer(t, pending[t].reply)
        BY <2>2 DEF LogScan
  <2>5. RowsOf(t) = {}
        BY <1>1, <2>3 DEF OnceOk
  <2>6. RowsOf(t)' = {<<t, tries[t], pending[t].outcome>>}
        BY <2>4, <2>5 DEF Insert, RowsOf
  <2>7. pc'[t] = "ended"
        BY <2>4, AnswerEffect
  <2> QED BY <2>6, <2>7 DEF OnceOk
<1> QED BY <1>3, <1>4

\* An edit makes every transaction in flight a disturbed one.
LEMMA EditOnce == ASSUME TypeOK, NEW t \in Txns, TxnInv(t), OnceOk(t), TenantEdit
                  PROVE  OnceOk(t)'
<1> USE DEF handlerVars
<1>1. UNCHANGED <<pc, rows, born>> /\ edits' = edits + 1
      BY DEF TenantEdit
<1>2. born[t] \in Nat /\ edits \in Nat /\ born[t] <= edits
      BY DEF TypeOK, HandlerTypeOK, TableTypeOK, TxnInv, DataOk
<1>3. ~Quiet(t)'
      BY <1>1, <1>2 DEF Quiet, Undisturbed
<1>4. RowsOf(t)' = RowsOf(t)
      BY <1>1 DEF RowsOf
<1> QED BY <1>1, <1>3, <1>4 DEF OnceOk

LEMMA OnceStep == TypeOK /\ GatewayInv /\ OnceInv /\ [Next]_vars => OnceInv'
<1> SUFFICES ASSUME TypeOK, GatewayInv, OnceInv, [Next]_vars, NEW u \in Txns PROVE OnceOk(u)'
    BY DEF OnceInv
<1>a. TxnInv(u) /\ OnceOk(u)
      BY DEF GatewayInv, OnceInv
<1>1. ASSUME NEW t \in Txns, \/ \E s \in Sessions : Submit(t, s)
                             \/ HandlerStep(t) \/ RelayStep(t) \/ Disconnect(t)
      PROVE  OnceOk(u)'
  <2>1. CASE u # t
        BY <1>a, <1>1, <2>1, OthersCalm, CalmKeeps
  <2>2. CASE u = t /\ \E s \in Sessions : Submit(t, s)
        BY <1>a, <2>2, SubmitOnce
  <2>3. CASE u = t /\ LogScan(t)
        BY <1>a, <2>3, LogOnce
  <2>4. CASE u = t /\ ((HandlerStep(t) /\ ~LogScan(t)) \/ RelayStep(t) \/ Disconnect(t))
        BY <1>a, <2>4, OwnCalm, CalmKeeps
  <2> QED BY <1>1, <2>1, <2>2, <2>3, <2>4
<1>2. CASE (\E c \in Customers : WindowSlides(c)) \/ UNCHANGED vars
  <2>1. UNCHANGED <<pc, reply, rows, mishap, born, verified, edits>>
        BY <1>2 DEF WindowSlides, vars, handlerVars, tableVars
  <2> QED BY <1>a, <2>1, CalmKeeps DEF Calm, RowsOf
<1>3. CASE Crash
  <2>1. UNCHANGED <<rows, born, verified, edits>> /\ mishap' = TRUE
        BY <1>3 DEF Crash, handlerVars, tableVars
  <2>2. \/ pc'[u] = pc[u] /\ reply'[u] = reply[u]
        \/ pc'[u] = "ended" /\ reply'[u] = "lost"
        BY <1>3 DEF Crash
  <2> QED BY <1>a, <2>1, <2>2, CalmKeeps DEF Calm, RowsOf
<1>4. CASE TenantEdit
      BY <1>a, <1>4, EditOnce
<1> QED BY <1>1, <1>2, <1>3, <1>4 DEF Next

\* While nothing fails, an answered transaction has exactly one row in the scan
\* log (the log step of handle_DATA and _log_scan's retry loop).
THEOREM LoggedHolds == Spec => []LoggedOnce
<1>1. Init => OnceInv
      BY DEF Init, OnceInv, OnceOk, RowsOf, LoggedReplies
<1>2. TypeOK /\ GatewayInv /\ OnceInv /\ [Next]_vars => OnceInv'
      BY OnceStep
<1>3. OnceInv => LoggedOnce
  <2> SUFFICES ASSUME OnceInv, NEW t \in Txns, ~mishap, Undisturbed(t), Loggable(t),
                      reply[t] \in LoggedReplies
               PROVE  Cardinality(RowsOf(t)) = 1
      BY DEF LoggedOnce
  <2>1. PICK row : RowsOf(t) = {row}
        BY DEF OnceInv, OnceOk, Quiet
  <2> QED BY <2>1, FS_Singleton
<1> QED BY <1>1, <1>2, <1>3, TypeCorrect, InvHolds, PTL DEF Spec
=============================================================================
