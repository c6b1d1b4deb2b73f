------------------------ MODULE PoolAndStore_proofs -------------------------
(***************************************************************************)
(* Proofs about the backend's requests: the pool they share, connection    *)
(* tests and log pages over it (TestJobs), and the rules and policies they *)
(* write (RuleStore), for every number of requests, connections, rows,     *)
(* rules and caps.                                                         *)
(***************************************************************************)
EXTENDS TestJobs, RuleStore, FiniteSetTheorems, WellFoundedInduction, TLAPS

(***************************************************************************)
(* Rules and policies.                                                     *)
(***************************************************************************)

\* Updates about to write active = TRUE, and the rules that are active or will
\* be when those have written: what the cap has to be held against.
Reviving == {r \in Slots : req[r].pc = "apply" /\ req[r].edit.active = TRUE}
Targets == Active \cup {req[r].id : r \in Reviving}

InsertingRule == {r \in Slots : req[r].pc = "insert"}
InsertingPolicy == {r \in Slots : req[r].pc = "policy"}

\* The requests past their check, of which there are never more than n.
InFlight == {r \in Slots : req[r] # Idle}
FitIn(n) == Cardinality(InFlight) <= n

\* Each of them is counted with the row it will add.
RuleSlack(n) == Cardinality(Targets) + Cardinality(InsertingRule) < MaxRules + n
PolicySlack(n) == policies + Cardinality(InsertingPolicy) < MaxPolicies + n

\* What a request has validated is valid when it writes, but for races.
EditValid(i, e) == Valid(Given(e.pattern, rules[i].pattern), Given(e.type, rules[i].type))

PendingValid ==
    \A r \in Slots :
        /\ req[r].pc = "insert" => Valid(req[r].pattern, req[r].type)
        /\ req[r].pc \in {"recount", "apply"} /\ req[r].id \notin raced
             => EditValid(req[r].id, req[r].edit)
-----------------------------------------------------------------------------
\* The fields of a request in flight, by its step.
LEMMA ReqFields ==
    ASSUME StoreTypeOK, NEW r \in Slots
    PROVE  /\ req[r].pc \in {"idle", "policy", "insert", "recount", "apply"}
           /\ req[r].pc = "insert" => req[r] \in Creating
           /\ req[r].pc \in {"recount", "apply"} => req[r] \in Updating
           /\ req[r] = Idle => req[r].pc = "idle"
<1>1. req[r] \in {Idle, [pc |-> "policy"]} \cup Creating \cup Updating
      BY DEF StoreTypeOK
<1>2. CASE req[r] = Idle
      BY <1>2 DEF Idle
<1>3. CASE req[r] = [pc |-> "policy"]
      BY <1>3 DEF Idle
<1>4. CASE req[r] \in Creating
      BY <1>4 DEF Creating, Idle
<1>5. CASE req[r] \in Updating
      BY <1>5 DEF Updating, Idle
<1> QED BY <1>1, <1>2, <1>3, <1>4, <1>5

LEMMA EditFields ==
    ASSUME NEW e \in Edits
    PROVE  /\ e.pattern \in Patterns \cup {None} /\ e.type \in MatchTypes \cup {None}
           /\ e.active \in BOOLEAN \cup {None}
BY StoreAssumption DEF StoreAssumption

LEMMA StoreInitially == StoreInit => StoreInv
BY DEF StoreInit, StoreInv, StoreTypeOK, UpdateFindsItsRow, Idle

(***************************************************************************)
(* What a step that reads or writes the fields of a request does, told     *)
(* without the records.                                                    *)
(***************************************************************************)
LEMMA CreateEffect ==
    ASSUME NEW r \in Slots, NEW pattern \in Patterns, NEW type \in MatchTypes,
           CreateRule(r, pattern, type)
    PROVE  \E u \in Creating :
               /\ u.pc = "insert" /\ u.pattern = pattern /\ u.type = type
               /\ req' = [req EXCEPT ![r] = u]
BY DEF CreateRule, Creating

LEMMA InsertEffect ==
    ASSUME StoreInv, NEW r \in Slots, InsertRule(r)
    PROVE  \E i \in RuleIds \ Known, row \in Rule :
               /\ rules' = [rules EXCEPT ![i] = row] /\ req' = [req EXCEPT ![r] = Idle]
               /\ row.active = TRUE
               /\ row.pattern = req[r].pattern /\ row.type = req[r].type
<1>1. req[r] \in Creating
      BY ReqFields DEF InsertRule, StoreInv
<1>2. PICK i \in RuleIds \ Known :
        rules' = [rules EXCEPT ![i] = [active |-> TRUE, pattern |-> req[r].pattern,
                                       type |-> req[r].type]]
      BY DEF InsertRule
<1>3. [active |-> TRUE, pattern |-> req[r].pattern, type |-> req[r].type] \in Rule
      BY <1>1 DEF Creating, Rule
<1> QED BY <1>2, <1>3 DEF InsertRule, Answer

LEMMA UpdateEffect ==
    ASSUME NEW r \in Slots, NEW i \in RuleIds, NEW e \in Edits, UpdateRule(r, i, e)
    PROVE  \E u \in Updating :
               /\ req' = [req EXCEPT ![r] = u] /\ u.id = i /\ u.edit = e
               /\ u.pc = "apply" => e.active # TRUE \/ rules[i].active
<1> DEFINE step == IF e.active = TRUE /\ ~rules[i].active THEN "recount" ELSE "apply"
           u == [pc |-> step, id |-> i, edit |-> e]
<1>1. step \in {"recount", "apply"} /\ (step = "apply" => e.active # TRUE \/ rules[i].active)
      OBVIOUS
<1>2. req' = [req EXCEPT ![r] = u]
      BY DEF UpdateRule
<1> HIDE DEF step
<1>3. u \in Updating /\ u.pc = step /\ u.id = i /\ u.edit = e
      BY <1>1 DEF Updating
<1> QED BY <1>1, <1>2, <1>3

LEMMA CountEffect ==
    ASSUME StoreInv, NEW r \in Slots, CountForUpdate(r)
    PROVE  /\ req[r] \in Updating
           /\ \/ req' = [req EXCEPT ![r] = Idle]
              \/ /\ ~(Cardinality(Active) >= MaxRules)
                 /\ \E u \in Updating : /\ req' = [req EXCEPT ![r] = u] /\ u.pc = "apply"
                                        /\ u.id = req[r].id /\ u.edit = req[r].edit
<1>1. req[r] \in Updating
      BY ReqFields DEF CountForUpdate, StoreInv
<1> DEFINE u == [req[r] EXCEPT !.pc = "apply"]
<1>2. u \in Updating /\ u.pc = "apply" /\ u.id = req[r].id /\ u.edit = req[r].edit
      BY <1>1 DEF Updating
<1>3. \/ req' = [req EXCEPT ![r] = Idle]
      \/ ~(Cardinality(Active) >= MaxRules) /\ req' = [req EXCEPT ![r] = u]
      BY DEF CountForUpdate, Answer
<1> QED BY <1>1, <1>2, <1>3

LEMMA ApplyEffect ==
    ASSUME StoreInv, NEW r \in Slots, ApplyUpdate(r)
    PROVE  /\ req[r] \in Updating /\ req[r].id \in Known /\ rules[req[r].id] \in Rule
           /\ req' = [req EXCEPT ![r] = Idle]
           /\ \E row \in Rule :
                 /\ rules' = [rules EXCEPT ![req[r].id] = row]
                 /\ row.active = Given(req[r].edit.active, rules[req[r].id].active)
                 /\ row.pattern = Given(req[r].edit.pattern, rules[req[r].id].pattern)
                 /\ row.type = Given(req[r].edit.type, rules[req[r].id].type)
<1> DEFINE i == req[r].id
           e == req[r].edit
           row == [active |-> Given(e.active, rules[i].active),
                   pattern |-> Given(e.pattern, rules[i].pattern),
                   type |-> Given(e.type, rules[i].type)]
<1>1. req[r] \in Updating /\ i \in Known
      BY ReqFields DEF ApplyUpdate, UpdateFindsItsRow, StoreInv
<1>2. i \in RuleIds /\ e \in Edits
      BY <1>1 DEF Updating
<1>3. rules' = [rules EXCEPT ![i] = row] /\ req' = [req EXCEPT ![r] = Idle]
      BY DEF ApplyUpdate, Answer
<1>4. rules[i] \in Rule
      BY <1>1, <1>2 DEF Known, StoreTypeOK, StoreInv
<1>5. row \in Rule
  <2> HIDE DEF i, e
  <2> QED BY <1>2, <1>4, EditFields DEF Rule, Given
<1>6. /\ row.active = Given(e.active, rules[i].active)
      /\ row.pattern = Given(e.pattern, rules[i].pattern)
      /\ row.type = Given(e.type, rules[i].type)
      OBVIOUS
<1> HIDE DEF row
<1> QED BY <1>1, <1>3, <1>4, <1>5, <1>6

LEMMA DeleteEffect ==
    ASSUME StoreInv, NEW i \in RuleIds, SoftDelete(i)
    PROVE  /\ rules[i] \in Rule
           /\ \E row \in Rule : /\ rules' = [rules EXCEPT ![i] = row] /\ row.active = FALSE
                                /\ row.pattern = rules[i].pattern /\ row.type = rules[i].type
<1>1. rules[i] \in Rule
      BY DEF SoftDelete, Active, Known, StoreTypeOK, StoreInv
<1> DEFINE row == [rules[i] EXCEPT !.active = FALSE]
<1>2. row \in Rule /\ row.active = FALSE /\ row.pattern = rules[i].pattern /\ row.type = rules[i].type
      BY <1>1 DEF Rule
<1>3. rules' = [rules EXCEPT ![i] = row]
      BY DEF SoftDelete
<1> QED BY <1>1, <1>2, <1>3

\* A row that is written or deactivated stays a row.
LEMMA KnownGrows ==
    ASSUME StoreTypeOK, NEW i \in RuleIds, NEW row \in Rule, rules' = [rules EXCEPT ![i] = row]
    PROVE  Known' = Known \cup {i}
<1>1. None \notin Rule
      BY StoreAssumption DEF StoreAssumption
<1> QED BY <1>1 DEF Known, StoreTypeOK
-----------------------------------------------------------------------------
\* Types, and the row an update has found: one step for each action.
LEMMA StoreStep == ASSUME StoreInv, [StoreNext]_storeVars PROVE StoreInv'
<1> USE DEF StoreInv
<1>0. Idle.pc = "idle"
      BY DEF Idle
<1>1. ASSUME NEW r \in Slots, NEW pattern \in Patterns, NEW type \in MatchTypes,
             CreateRule(r, pattern, type)
      PROVE  StoreInv'
  <2>1. PICK u \in Creating : u.pc = "insert" /\ req' = [req EXCEPT ![r] = u]
        BY <1>1, CreateEffect
  <2>2. UNCHANGED <<rules, policies, raced>>
        BY <1>1 DEF CreateRule
  <2>3. StoreTypeOK' /\ UpdateFindsItsRow'
        BY <2>1, <2>2 DEF StoreTypeOK, UpdateFindsItsRow, Known
  <2> QED BY <2>3
<1>2. ASSUME NEW r \in Slots, NEW i \in RuleIds, NEW e \in Edits, UpdateRule(r, i, e)
      PROVE  StoreInv'
  <2>1. PICK u \in Updating :
            /\ req' = [req EXCEPT ![r] = u] /\ u.id = i /\ u.edit = e
            /\ u.pc = "apply" => e.active # TRUE \/ rules[i].active
        BY <1>2, UpdateEffect
  <2>2. i \in Known /\ UNCHANGED <<rules, policies, raced>>
        BY <1>2 DEF UpdateRule
  <2>3. StoreTypeOK' /\ UpdateFindsItsRow'
        BY <2>1, <2>2 DEF StoreTypeOK, UpdateFindsItsRow, Known
  <2> QED BY <2>3
<1>3. ASSUME NEW r \in Slots, InsertRule(r) PROVE StoreInv'
  <2>1. PICK i \in RuleIds \ Known, row \in Rule :
          rules' = [rules EXCEPT ![i] = row] /\ req' = [req EXCEPT ![r] = Idle]
        BY <1>3, InsertEffect
  <2>2. UNCHANGED <<policies, raced>> /\ Known' = Known \cup {i}
        BY <1>3, <2>1, KnownGrows DEF InsertRule
  <2>3. StoreTypeOK' /\ UpdateFindsItsRow'
        BY <1>0, <2>1, <2>2 DEF StoreTypeOK, UpdateFindsItsRow
  <2> QED BY <2>3
<1>4. ASSUME NEW r \in Slots, CountForUpdate(r) PROVE StoreInv'
  <2>1. req[r] \in Updating /\ req[r].pc \in {"recount", "apply"}
        BY <1>4, CountEffect DEF Updating
  <2>2. \/ req' = [req EXCEPT ![r] = Idle]
        \/ \E u \in Updating : req' = [req EXCEPT ![r] = u] /\ u.id = req[r].id
        BY <1>4, CountEffect
  <2>3. UNCHANGED <<rules, policies, raced>>
        BY <1>4 DEF CountForUpdate
  <2>4. StoreTypeOK' /\ UpdateFindsItsRow'
        BY <1>0, <2>1, <2>2, <2>3 DEF StoreTypeOK, UpdateFindsItsRow, Known
  <2> QED BY <2>4
<1>5. ASSUME NEW r \in Slots, ApplyUpdate(r) PROVE StoreInv'
  <2>1. PICK row \in Rule : rules' = [rules EXCEPT ![req[r].id] = row]
        BY <1>5, ApplyEffect
  <2>2. req[r].id \in RuleIds /\ req' = [req EXCEPT ![r] = Idle]
        BY <1>5, ApplyEffect DEF Known
  <2>3. policies' = policies /\ raced' \subseteq raced \cup {req[r].id}
        BY <1>5 DEF ApplyUpdate
  <2>4. Known' = Known \cup {req[r].id}
        BY <2>1, <2>2, KnownGrows
  <2>5. StoreTypeOK' /\ UpdateFindsItsRow'
        BY <1>0, <2>1, <2>2, <2>3, <2>4 DEF StoreTypeOK, UpdateFindsItsRow
  <2> QED BY <2>5
<1>6. ASSUME NEW i \in RuleIds, SoftDelete(i) PROVE StoreInv'
  <2>1. PICK row \in Rule : rules' = [rules EXCEPT ![i] = row]
        BY <1>6, DeleteEffect
  <2>2. UNCHANGED <<policies, req, raced>> /\ Known' = Known \cup {i}
        BY <1>6, <2>1, KnownGrows DEF SoftDelete
  <2>3. StoreTypeOK' /\ UpdateFindsItsRow'
        BY <2>1, <2>2 DEF StoreTypeOK, UpdateFindsItsRow
  <2> QED BY <2>3
<1>7. ASSUME NEW r \in Slots, CountPolicies(r) \/ InsertPolicy(r) PROVE StoreInv'
      BY <1>0, <1>7 DEF CountPolicies, InsertPolicy, Answer, StoreTypeOK, UpdateFindsItsRow, Known
<1>8. CASE DeletePolicy \/ UNCHANGED storeVars
      BY <1>8 DEF DeletePolicy, storeVars, StoreTypeOK, UpdateFindsItsRow, Known
<1> QED BY <1>1, <1>2, <1>3, <1>4, <1>5, <1>6, <1>7, <1>8 DEF StoreNext

\* An update writes into a row that is there, and every value has its type.
THEOREM StoreHolds == StoreSpec => []StoreInv
<1>1. StoreInv /\ [StoreNext]_storeVars => StoreInv'
      BY StoreStep
<1> QED BY <1>1, StoreInitially, PTL DEF StoreSpec
-----------------------------------------------------------------------------
(***************************************************************************)
(* Patterns.                                                               *)
(***************************************************************************)
ValidIInv == StoreInv /\ PendingValid /\ InvalidOnlyByRace

\* A step that leaves the rows and the other requests alone.
LEMMA PendingKept ==
    ASSUME StoreInv, PendingValid, NEW r \in Slots, NEW u,
           req' = [req EXCEPT ![r] = u], UNCHANGED <<rules, raced>>,
           u.pc = "insert" => Valid(u.pattern, u.type),
           u.pc \in {"recount", "apply"} /\ u.id \notin raced => EditValid(u.id, u.edit)
    PROVE  PendingValid'
BY DEF PendingValid, EditValid, StoreInv, StoreTypeOK

\* The row was <<p, t>>, and e makes it <<Given(e.pattern, p), Given(e.type, t)>>:
\* another update f that was in order still is, unless e gives the very column
\* that f takes for granted.
LEMMA UncrossedStaysValid ==
    ASSUME NEW e, NEW f, NEW p, NEW t, ~Crosses(e, f),
           Valid(Given(f.pattern, p), Given(f.type, t)),
           Valid(Given(e.pattern, p), Given(e.type, t))
    PROVE  Valid(Given(f.pattern, Given(e.pattern, p)), Given(f.type, Given(e.type, t)))
BY DEF Crosses, Given, Valid

\* A step that writes one row, and leaves the updates of it in order.
LEMMA RowWritten ==
    ASSUME ValidIInv, NEW i \in RuleIds, NEW row \in Rule, rules' = [rules EXCEPT ![i] = row],
           raced \subseteq raced', raced' \subseteq raced \cup {i},
           \A q \in Slots : req'[q] = req[q] \/ req'[q] = Idle,
           i \notin raced' => /\ Valid(row.pattern, row.type)
                              /\ \A q \in Slots : req'[q].pc \in {"recount", "apply"}
                                    /\ req'[q].id = i => EditValid(i, req[q].edit)'
    PROVE  PendingValid' /\ InvalidOnlyByRace'
<1>1. /\ rules'[i] = row /\ \A j \in RuleIds \ {i} : rules'[j] = rules[j]
      /\ Known' = Known \cup {i}
      BY KnownGrows DEF ValidIInv, StoreInv, StoreTypeOK
<1>2. InvalidOnlyByRace'
      BY <1>1 DEF ValidIInv, InvalidOnlyByRace, Known
<1>3. ASSUME NEW q \in Slots
      PROVE  /\ req'[q].pc = "insert" => Valid(req'[q].pattern, req'[q].type)
             /\ req'[q].pc \in {"recount", "apply"} /\ req'[q].id \notin raced'
                  => EditValid(req[q].id, req[q].edit)'
  <2>1. CASE req'[q] = Idle
        BY <2>1 DEF Idle
  <2>2. CASE req'[q] = req[q]
    <3>1. req[q].pc = "insert" => Valid(req[q].pattern, req[q].type)
          BY DEF ValidIInv, PendingValid
    <3>2. ASSUME req[q].pc \in {"recount", "apply"}, req[q].id \notin raced', req[q].id # i
          PROVE  EditValid(req[q].id, req[q].edit)'
      <4>1. req[q].id \in RuleIds /\ EditValid(req[q].id, req[q].edit)
            BY <3>2, ReqFields DEF ValidIInv, PendingValid, StoreInv, Updating
      <4> QED BY <1>1, <2>2, <3>2, <4>1 DEF EditValid
    <3> QED BY <2>2, <3>1, <3>2
  <2> QED BY <2>1, <2>2
<1> QED BY <1>2, <1>3 DEF PendingValid

LEMMA ValidStep == ASSUME ValidIInv, [StoreNext]_storeVars PROVE ValidIInv'
<1>0. StoreInv /\ StoreInv' /\ PendingValid /\ InvalidOnlyByRace
      BY StoreStep DEF ValidIInv
<1> SUFFICES PendingValid' /\ InvalidOnlyByRace'
    BY <1>0 DEF ValidIInv
<1>1. ASSUME NEW r \in Slots, NEW pattern \in Patterns, NEW type \in MatchTypes,
             CreateRule(r, pattern, type)
      PROVE  PendingValid' /\ InvalidOnlyByRace'
  <2>1. PICK u \in Creating : /\ u.pc = "insert" /\ u.pattern = pattern /\ u.type = type
                              /\ req' = [req EXCEPT ![r] = u]
        BY <1>1, CreateEffect
  <2>2. UNCHANGED <<rules, raced>> /\ Valid(pattern, type)
        BY <1>1 DEF CreateRule
  <2>3. PendingValid'
        BY <1>0, <2>1, <2>2, PendingKept
  <2> QED BY <1>0, <2>2, <2>3 DEF InvalidOnlyByRace, Known
<1>2. ASSUME NEW r \in Slots, NEW i \in RuleIds, NEW e \in Edits, UpdateRule(r, i, e)
      PROVE  PendingValid' /\ InvalidOnlyByRace'
  <2>1. PICK u \in Updating :
            /\ req' = [req EXCEPT ![r] = u] /\ u.id = i /\ u.edit = e
            /\ u.pc = "apply" => e.active # TRUE \/ rules[i].active
        BY <1>2, UpdateEffect
  <2>2. UNCHANGED <<rules, raced>> /\ EditValid(i, e)
        BY <1>2 DEF UpdateRule, EditValid
  <2>3. u.pc # "insert"
        BY DEF Updating
  <2>4. PendingValid'
        BY <1>0, <2>1, <2>2, <2>3, PendingKept
  <2> QED BY <1>0, <2>2, <2>4 DEF InvalidOnlyByRace, Known
<1>3. ASSUME NEW r \in Slots, InsertRule(r) PROVE PendingValid' /\ InvalidOnlyByRace'
  <2>1. PICK i \in RuleIds \ Known, row \in Rule :
               /\ rules' = [rules EXCEPT ![i] = row] /\ req' = [req EXCEPT ![r] = Idle]
               /\ row.active = TRUE
               /\ row.pattern = req[r].pattern /\ row.type = req[r].type
        BY <1>0, <1>3, InsertEffect
  <2>2. raced' = raced /\ Valid(row.pattern, row.type)
        BY <1>0, <1>3, <2>1 DEF InsertRule, PendingValid
  <2>3. \A q \in Slots : req'[q] = req[q] \/ req'[q] = Idle
        BY <1>0, <2>1 DEF StoreInv, StoreTypeOK
  <2>4. \A q \in Slots : ~(req'[q].pc \in {"recount", "apply"} /\ req'[q].id = i)
        BY <1>0, <2>1, <2>3 DEF StoreInv, UpdateFindsItsRow, Idle
  <2> QED BY <2>1, <2>2, <2>3, <2>4, RowWritten
<1>4. ASSUME NEW r \in Slots, CountForUpdate(r) PROVE PendingValid' /\ InvalidOnlyByRace'
  <2>1. req[r].pc = "recount" /\ UNCHANGED <<rules, raced>>
        BY <1>4 DEF CountForUpdate
  <2>2. CASE req' = [req EXCEPT ![r] = Idle]
    <3>1. PendingValid'
          BY <1>0, <2>1, <2>2, PendingKept DEF Idle
    <3> QED BY <1>0, <2>1, <3>1 DEF InvalidOnlyByRace, Known
  <2>3. ASSUME NEW u \in Updating, req' = [req EXCEPT ![r] = u], u.pc = "apply",
               u.id = req[r].id, u.edit = req[r].edit
        PROVE  PendingValid' /\ InvalidOnlyByRace'
    <3>1. u.id \notin raced => EditValid(u.id, u.edit)
          BY <1>0, <2>1, <2>3 DEF PendingValid
    <3>2. PendingValid'
          BY <1>0, <2>1, <2>3, <3>1, PendingKept
    <3> QED BY <1>0, <2>1, <3>2 DEF InvalidOnlyByRace, Known
  <2> QED BY <1>0, <1>4, <2>2, <2>3, CountEffect
<1>5. ASSUME NEW r \in Slots, ApplyUpdate(r) PROVE PendingValid' /\ InvalidOnlyByRace'
  <2> DEFINE e == req[r].edit
  <2>0. PICK i \in RuleIds : i = req[r].id
        BY <1>0, <1>5, ApplyEffect DEF Known
  <2>1. PICK row \in Rule :
                 /\ rules' = [rules EXCEPT ![i] = row]
                 /\ row.active = Given(e.active, rules[i].active)
                 /\ row.pattern = Given(e.pattern, rules[i].pattern)
                 /\ row.type = Given(e.type, rules[i].type)
        BY <1>0, <1>5, <2>0, ApplyEffect
  <2>2. req' = [req EXCEPT ![r] = Idle]
        BY <1>0, <1>5, ApplyEffect
  <2>3. /\ req[r].pc = "apply"
        /\ raced' = IF \E q \in Overlapping(r) : Crosses(e, req[q].edit)
                    THEN raced \cup {i} ELSE raced
        BY <1>5, <2>0 DEF ApplyUpdate
  <2>4. \A q \in Slots : req'[q] = IF q = r THEN Idle ELSE req[q]
        BY <1>0, <2>2 DEF StoreInv, StoreTypeOK
  <2>5. ASSUME i \notin raced'
        PROVE  /\ Valid(row.pattern, row.type)
               /\ \A q \in Slots : req'[q].pc \in {"recount", "apply"} /\ req'[q].id = i
                                     => EditValid(i, req[q].edit)'
    <3>1. i \notin raced /\ \A q \in Overlapping(r) : ~Crosses(e, req[q].edit)
          BY <2>3, <2>5
    <3>2. EditValid(i, e)
          BY <1>0, <2>0, <2>3, <3>1 DEF PendingValid
    <3>3. Valid(row.pattern, row.type)
          BY <2>1, <3>2 DEF EditValid
    <3>4. rules'[i] = row
          BY <1>0, <2>1, <2>2 DEF StoreInv, StoreTypeOK
    <3>5. ASSUME NEW q \in Slots, req'[q].pc \in {"recount", "apply"}, req'[q].id = i
          PROVE  EditValid(i, req[q].edit)'
      <4>1. q \in Overlapping(r) /\ req'[q] = req[q]
            BY <2>0, <2>4, <3>5 DEF Idle, Overlapping
      <4>2. EditValid(i, req[q].edit) /\ ~Crosses(e, req[q].edit)
            BY <1>0, <3>1, <3>5, <4>1 DEF PendingValid
      <4>3. EditValid(i, req[q].edit)' <=>
                Valid(Given(req'[q].edit.pattern, row.pattern), Given(req'[q].edit.type, row.type))
            BY <3>4 DEF EditValid
      <4>4. Valid(Given(req[q].edit.pattern, row.pattern), Given(req[q].edit.type, row.type))
            BY <2>1, <3>3, <4>2, UncrossedStaysValid DEF EditValid
      <4> QED BY <4>1, <4>3, <4>4
    <3> QED BY <3>3, <3>5
  <2>6. raced \subseteq raced' /\ raced' \subseteq raced \cup {i}
        BY <2>3
  <2>7. \A q \in Slots : req'[q] = req[q] \/ req'[q] = Idle
        BY <2>4
  <2> HIDE DEF e
  <2> QED BY <2>1, <2>5, <2>6, <2>7, RowWritten
<1>6. ASSUME NEW i \in RuleIds, SoftDelete(i) PROVE PendingValid' /\ InvalidOnlyByRace'
  <2>1. PICK row \in Rule :
            /\ rules' = [rules EXCEPT ![i] = row] /\ row.active = FALSE
            /\ row.pattern = rules[i].pattern /\ row.type = rules[i].type
        BY <1>0, <1>6, DeleteEffect
  <2>2. UNCHANGED <<req, raced>> /\ i \in Known
        BY <1>6 DEF SoftDelete, Active
  <2>3. ASSUME i \notin raced
        PROVE  /\ Valid(row.pattern, row.type)
               /\ \A q \in Slots : req'[q].pc \in {"recount", "apply"} /\ req'[q].id = i
                                     => EditValid(i, req[q].edit)'
    <3>1. Valid(row.pattern, row.type)
          BY <1>0, <2>1, <2>2, <2>3 DEF InvalidOnlyByRace
    <3>2. rules'[i] = row
          BY <1>0, <2>1 DEF StoreInv, StoreTypeOK
    <3>3. \A q \in Slots : req[q].pc \in {"recount", "apply"} /\ req[q].id = i
                             => EditValid(i, req[q].edit)
          BY <1>0, <2>3 DEF PendingValid
    <3> QED BY <2>1, <2>2, <3>1, <3>2, <3>3 DEF EditValid
  <2> QED BY <2>1, <2>2, <2>3, RowWritten
<1>7. ASSUME NEW r \in Slots, CountPolicies(r) PROVE PendingValid' /\ InvalidOnlyByRace'
  <2>1. req' = [req EXCEPT ![r] = [pc |-> "policy"]] /\ UNCHANGED <<rules, raced>>
        BY <1>7 DEF CountPolicies
  <2>2. PendingValid'
        BY <1>0, <2>1, PendingKept
  <2> QED BY <1>0, <2>1, <2>2 DEF InvalidOnlyByRace, Known
<1>8. ASSUME NEW r \in Slots, InsertPolicy(r) PROVE PendingValid' /\ InvalidOnlyByRace'
  <2>1. req' = [req EXCEPT ![r] = Idle] /\ UNCHANGED <<rules, raced>>
        BY <1>8 DEF InsertPolicy, Answer
  <2>2. PendingValid'
        BY <1>0, <2>1, PendingKept DEF Idle
  <2> QED BY <1>0, <2>1, <2>2 DEF InvalidOnlyByRace, Known
<1>9. CASE DeletePolicy \/ UNCHANGED storeVars
      BY <1>0, <1>9 DEF DeletePolicy, storeVars, PendingValid, EditValid, InvalidOnlyByRace, Known
<1> QED BY <1>1, <1>2, <1>3, <1>4, <1>5, <1>6, <1>7, <1>8, <1>9 DEF StoreNext

\* Whatever the requests do, a stored regular expression compiles, but for rules
\* that two updates wrote between each other's read and write.
THEOREM OnlyRacesInvalidate == StoreSpec => []InvalidOnlyByRace
<1>1. StoreInit => ValidIInv
      BY StoreInitially DEF StoreInit, ValidIInv, PendingValid, InvalidOnlyByRace, Known, Idle
<1>2. ValidIInv /\ [StoreNext]_storeVars => ValidIInv'
      BY ValidStep
<1>3. ValidIInv => InvalidOnlyByRace
      BY DEF ValidIInv
<1> QED BY <1>1, <1>2, <1>3, PTL DEF StoreSpec
-----------------------------------------------------------------------------
(***************************************************************************)
(* The caps.                                                               *)
(***************************************************************************)
SlackIInv(n) == StoreInv /\ RuleSlack(n) /\ PolicySlack(n)

LEMMA FiniteFacts ==
    /\ MaxRules \in Nat /\ MaxPolicies \in Nat
    /\ \A R \in SUBSET RuleIds : IsFiniteSet(R) /\ Cardinality(R) \in Nat
    /\ \A S \in SUBSET Slots : IsFiniteSet(S) /\ Cardinality(S) \in Nat
    /\ Cardinality(Slots) \in Nat \ {0}
<1>1. IsFiniteSet(RuleIds) /\ IsFiniteSet(Slots) /\ Slots # {}
      BY StoreAssumption DEF StoreAssumption
<1>2. \A R \in SUBSET RuleIds : IsFiniteSet(R)
      BY <1>1, FS_Subset
<1>3. \A S \in SUBSET Slots : IsFiniteSet(S)
      BY <1>1, FS_Subset
<1>4. Cardinality(Slots) # 0
      BY <1>1, FS_EmptySet
<1> QED BY <1>1, <1>2, <1>3, <1>4, FS_CardinalityType, StoreAssumption DEF StoreAssumption

LEMMA SubsetCount ==
    ASSUME NEW S, IsFiniteSet(S), NEW T \in SUBSET S
    PROVE  IsFiniteSet(T) /\ Cardinality(T) <= Cardinality(S)
           /\ Cardinality(T) \in Nat /\ Cardinality(S) \in Nat
BY FS_Subset, FS_CardinalityType

LEMMA OneMoreCount ==
    ASSUME NEW S, IsFiniteSet(S), NEW x, NEW T \in SUBSET (S \cup {x})
    PROVE  IsFiniteSet(T) /\ Cardinality(T) <= Cardinality(S) + 1
           /\ Cardinality(T) \in Nat /\ Cardinality(S) \in Nat
<1>1. /\ IsFiniteSet(S \cup {x})
      /\ Cardinality(S \cup {x}) =
           IF x \in S THEN Cardinality(S) ELSE Cardinality(S) + 1
      BY FS_AddElement
<1>2. Cardinality(S) \in Nat
      BY FS_CardinalityType
<1>3. /\ IsFiniteSet(T) /\ Cardinality(T) <= Cardinality(S \cup {x})
      /\ Cardinality(T) \in Nat
      BY <1>1, SubsetCount
<1> QED BY <1>1, <1>2, <1>3

\* Two disjoint sets of requests in flight, and r besides.
LEMMA PlaceFor ==
    ASSUME NEW F \in SUBSET Slots, NEW r \in F,
           NEW S \in SUBSET (F \ {r}), NEW T \in SUBSET (F \ {r}), S \cap T = {}
    PROVE  Cardinality(S) + Cardinality(T) < Cardinality(F)
<1>1. IsFiniteSet(F) /\ IsFiniteSet(S) /\ IsFiniteSet(T)
      BY FiniteFacts
<1>2. Cardinality(S \cup T) = Cardinality(S) + Cardinality(T) - Cardinality({})
      BY <1>1, FS_Union
<1>3. IsFiniteSet(F \ {r}) /\ Cardinality(F \ {r}) = Cardinality(F) - 1
      BY <1>1, FS_RemoveElement
<1>4. Cardinality(S \cup T) <= Cardinality(F \ {r})
  <2>1. S \cup T \in SUBSET (F \ {r})
        OBVIOUS
  <2> QED BY <1>3, <2>1, SubsetCount
<1>5. Cardinality({}) = 0
      BY FS_EmptySet
<1>6. Cardinality(S) \in Nat /\ Cardinality(T) \in Nat /\ Cardinality(F) \in Nat
      BY <1>1, FS_CardinalityType
<1> QED BY <1>2, <1>3, <1>4, <1>5, <1>6

LEMMA SlackSets ==
    ASSUME StoreTypeOK
    PROVE  /\ Active \in SUBSET RuleIds /\ Active \in SUBSET Targets
           /\ Targets \in SUBSET RuleIds
           /\ Reviving \in SUBSET Slots /\ InsertingRule \in SUBSET Slots
           /\ InsertingPolicy \in SUBSET Slots /\ Reviving \cap InsertingRule = {}
<1>1. \A r \in Reviving : req[r].id \in RuleIds
      BY ReqFields DEF Reviving, Updating
<1> QED BY <1>1 DEF Active, Known, Targets, Reviving, InsertingRule, InsertingPolicy

\* Each update about to reactivate adds one rule at most.
LEMMA TargetsCount ==
    ASSUME StoreTypeOK
    PROVE  Cardinality(Targets) <= Cardinality(Active) + Cardinality(Reviving)
<1> DEFINE ids == {req[r].id : r \in Reviving}
           f == [r \in Reviving |-> req[r].id]
<1>1. IsFiniteSet(Active) /\ IsFiniteSet(Reviving)
      BY SlackSets, FiniteFacts
<1>2. f \in Surjection(Reviving, ids)
      BY DEF Surjection
<1>3. IsFiniteSet(ids) /\ Cardinality(ids) <= Cardinality(Reviving)
      BY <1>1, <1>2, FS_Surjection
<1>4. Cardinality(Active \cup ids) =
        Cardinality(Active) + Cardinality(ids) - Cardinality(Active \cap ids)
      BY <1>1, <1>3, FS_Union
<1>5. /\ Cardinality(Active) \in Nat /\ Cardinality(ids) \in Nat
      /\ Cardinality(Reviving) \in Nat
      BY <1>1, <1>3, FS_CardinalityType
<1>6. Cardinality(Active \cap ids) \in Nat
      BY <1>1, FS_Intersection, FS_CardinalityType
<1> HIDE DEF ids
<1>7. Cardinality(Active \cup ids) <= Cardinality(Active) + Cardinality(Reviving)
      BY <1>3, <1>4, <1>5, <1>6
<1> QED BY <1>7 DEF Targets, ids

\* A request that finds the active rules below the cap has room for one more.
LEMMA Headroom ==
    ASSUME StoreTypeOK, NEW n \in Nat, NEW r \in Slots \ (Reviving \cup InsertingRule),
           ~(Cardinality(Active) >= MaxRules),
           NEW F \in SUBSET Slots, Reviving \cup InsertingRule \cup {r} \subseteq F,
           Cardinality(F) <= n
    PROVE  Cardinality(Targets) + Cardinality(InsertingRule) + 1 < MaxRules + n
<1>1. Cardinality(Reviving) + Cardinality(InsertingRule) < Cardinality(F)
      BY SlackSets, PlaceFor
<1>2. Cardinality(Targets) <= Cardinality(Active) + Cardinality(Reviving)
      BY TargetsCount
<1>3. /\ Cardinality(Active) \in Nat /\ Cardinality(Reviving) \in Nat
      /\ Cardinality(InsertingRule) \in Nat /\ Cardinality(Targets) \in Nat
      /\ Cardinality(F) \in Nat /\ MaxRules \in Nat
      BY SlackSets, FiniteFacts
<1> QED BY <1>1, <1>2, <1>3

\* Steps that add nothing.
LEMMA SlackShrinks ==
    ASSUME StoreTypeOK, NEW n \in Nat, RuleSlack(n),
           Targets' \subseteq Targets, InsertingRule' \subseteq InsertingRule
    PROVE  RuleSlack(n)'
<1>1. IsFiniteSet(Targets) /\ IsFiniteSet(InsertingRule) /\ MaxRules \in Nat
      BY SlackSets, FiniteFacts
<1>2. /\ Cardinality(Targets') <= Cardinality(Targets)
      /\ Cardinality(Targets') \in Nat /\ Cardinality(Targets) \in Nat
      BY <1>1, SubsetCount
<1>3. /\ Cardinality(InsertingRule') <= Cardinality(InsertingRule)
      /\ Cardinality(InsertingRule') \in Nat /\ Cardinality(InsertingRule) \in Nat
      BY <1>1, SubsetCount
<1> QED BY <1>1, <1>2, <1>3 DEF RuleSlack

LEMMA PolicySlackShrinks ==
    ASSUME StoreTypeOK, NEW n \in Nat, PolicySlack(n),
           policies' = policies, InsertingPolicy' \subseteq InsertingPolicy
    PROVE  PolicySlack(n)'
<1>1. IsFiniteSet(InsertingPolicy) /\ MaxPolicies \in Nat
      BY SlackSets, FiniteFacts
<1>2. /\ Cardinality(InsertingPolicy') <= Cardinality(InsertingPolicy)
      /\ Cardinality(InsertingPolicy') \in Nat /\ Cardinality(InsertingPolicy) \in Nat
      BY <1>1, SubsetCount
<1> QED BY <1>1, <1>2 DEF PolicySlack, StoreTypeOK

\* A step of one request that leaves the policies alone.
LEMMA PolicySideKept ==
    ASSUME NEW n \in Nat, SlackIInv(n), NEW r \in Slots, NEW u, req' = [req EXCEPT ![r] = u],
           u.pc # "policy", policies' = policies
    PROVE  PolicySlack(n)'
<1>1. \A q \in Slots : req'[q] = IF q = r THEN u ELSE req[q]
      BY DEF SlackIInv, StoreInv, StoreTypeOK
<1>2. InsertingPolicy' \subseteq InsertingPolicy
      BY <1>1 DEF InsertingPolicy
<1> QED BY <1>2, PolicySlackShrinks DEF SlackIInv, StoreInv

\* A step of one request that leaves the rules alone and is not about to write.
LEMMA RuleSideKept ==
    ASSUME NEW n \in Nat, SlackIInv(n), NEW r \in Slots, NEW u, req' = [req EXCEPT ![r] = u],
           u.pc # "insert", rules' = rules,
           u.pc = "apply" /\ u.edit.active = TRUE => u.id \in Active
    PROVE  RuleSlack(n)'
<1>1. \A q \in Slots : req'[q] = IF q = r THEN u ELSE req[q]
      BY DEF SlackIInv, StoreInv, StoreTypeOK
<1>2. InsertingRule' \subseteq InsertingRule
      BY <1>1 DEF InsertingRule
<1>3. Active' = Active
      BY DEF Active, Known
<1>4. \A q \in Reviving' : req'[q].id \in Targets
      BY <1>1 DEF Reviving, Targets
<1>5. Targets' \subseteq Targets
      BY <1>3, <1>4 DEF Targets
<1> QED BY <1>2, <1>5, SlackShrinks DEF SlackIInv, StoreInv

LEMMA SlackCreate ==
    ASSUME NEW n \in Nat, SlackIInv(n), FitIn(n)',
           NEW r \in Slots, NEW pattern \in Patterns, NEW type \in MatchTypes,
           CreateRule(r, pattern, type)
    PROVE  RuleSlack(n)' /\ PolicySlack(n)'
<1>1. PICK u \in Creating : /\ u.pc = "insert" /\ u.pattern = pattern /\ u.type = type
                            /\ req' = [req EXCEPT ![r] = u]
      BY CreateEffect
<1>2. UNCHANGED <<rules, policies>> /\ req[r] = Idle /\ Cardinality(Active) < MaxRules
      BY DEF CreateRule
<1>3. \A q \in Slots : req'[q] = IF q = r THEN u ELSE req[q]
      BY <1>1 DEF SlackIInv, StoreInv, StoreTypeOK
<1>4. r \in Slots \ (Reviving \cup InsertingRule)
      BY <1>2 DEF Reviving, InsertingRule, Idle
<1>5. InsertingRule' = InsertingRule \cup {r}
      BY <1>1, <1>3 DEF InsertingRule
<1>6. Active' = Active /\ Reviving' = Reviving
  <2>1. Active' = Active
        BY <1>2 DEF Active, Known
  <2>2. \A q \in Slots : q \in Reviving' <=> q \in Reviving
        BY <1>1, <1>3, <1>4 DEF Reviving
  <2> QED BY <2>1, <2>2 DEF Reviving
<1>7. Targets' = Targets
  <2>1. \A q \in Reviving : req'[q] = req[q]
        BY <1>3, <1>4 DEF Reviving
  <2> QED BY <1>6, <2>1 DEF Targets
<1>8. ~(Cardinality(Active) >= MaxRules)
  <2>1. Cardinality(Active) \in Nat /\ MaxRules \in Nat
        BY SlackSets, FiniteFacts DEF SlackIInv, StoreInv
  <2> QED BY <1>2, <2>1
<1>9. Cardinality(Targets) + Cardinality(InsertingRule) + 1 < MaxRules + n
  <2>1. u # Idle /\ \A q \in Reviving \cup InsertingRule : req[q] # Idle
        BY <1>1 DEF Reviving, InsertingRule, Idle
  <2>2. Reviving \cup InsertingRule \cup {r} \subseteq InFlight'
        BY <1>3, <1>4, <2>1, SlackSets DEF InFlight, SlackIInv, StoreInv
  <2>3. InFlight' \in SUBSET Slots
        BY DEF InFlight
  <2> QED BY <1>4, <1>8, <2>2, <2>3, Headroom DEF FitIn, SlackIInv, StoreInv
<1>10. /\ Cardinality(InsertingRule') = Cardinality(InsertingRule) + 1
       /\ Cardinality(InsertingRule) \in Nat /\ Cardinality(Targets) \in Nat
  <2>1. IsFiniteSet(InsertingRule)
        BY SlackSets, FiniteFacts DEF SlackIInv, StoreInv
  <2>2. Cardinality(InsertingRule \cup {r}) = Cardinality(InsertingRule) + 1
        BY <1>4, <2>1, FS_AddElement
  <2> QED BY <1>5, <2>2, SlackSets, FiniteFacts DEF SlackIInv, StoreInv
<1>11. RuleSlack(n)'
      BY <1>7, <1>9, <1>10 DEF RuleSlack
<1> QED BY <1>1, <1>2, <1>11, PolicySideKept

\* The row that a create adds was counted with the request.
LEMMA SlackInsert ==
    ASSUME NEW n \in Nat, SlackIInv(n), NEW r \in Slots, InsertRule(r)
    PROVE  RuleSlack(n)' /\ PolicySlack(n)'
<1>1. PICK i \in RuleIds \ Known, row \in Rule :
             /\ rules' = [rules EXCEPT ![i] = row] /\ req' = [req EXCEPT ![r] = Idle]
             /\ row.active = TRUE
             /\ row.pattern = req[r].pattern /\ row.type = req[r].type
      BY InsertEffect DEF SlackIInv
<1>2. policies' = policies /\ req[r].pc = "insert"
      BY DEF InsertRule
<1>3. \A q \in Slots : req'[q] = IF q = r THEN Idle ELSE req[q]
      BY <1>1 DEF SlackIInv, StoreInv, StoreTypeOK
<1>4. InsertingRule' = InsertingRule \ {r} /\ r \in InsertingRule
      BY <1>2, <1>3 DEF InsertingRule, Idle
<1>5. Active' \subseteq Active \cup {i}
      BY <1>1 DEF Active, Known, SlackIInv, StoreInv, StoreTypeOK
<1>6. \A q \in Reviving' : q \in Reviving /\ req'[q].id = req[q].id
      BY <1>3 DEF Reviving, Idle
<1>7. Targets' \subseteq Targets \cup {i}
      BY <1>5, <1>6 DEF Targets
<1>8. IsFiniteSet(Targets) /\ IsFiniteSet(InsertingRule)
      BY SlackSets, FiniteFacts DEF SlackIInv, StoreInv
<1>9. /\ Cardinality(Targets') <= Cardinality(Targets) + 1
      /\ Cardinality(Targets') \in Nat /\ Cardinality(Targets) \in Nat
      BY <1>7, <1>8, OneMoreCount
<1>10. /\ Cardinality(InsertingRule') = Cardinality(InsertingRule) - 1
       /\ Cardinality(InsertingRule) \in Nat
      BY <1>4, <1>8, FS_RemoveElement, FS_CardinalityType
<1>11. MaxRules \in Nat
      BY FiniteFacts
<1>12. RuleSlack(n)'
      BY <1>9, <1>10, <1>11 DEF RuleSlack, SlackIInv
<1>13. Idle.pc # "policy"
       BY DEF Idle
<1> QED BY <1>1, <1>2, <1>12, <1>13, PolicySideKept

LEMMA SlackCountForUpdate ==
    ASSUME NEW n \in Nat, SlackIInv(n), FitIn(n), NEW r \in Slots, CountForUpdate(r)
    PROVE  RuleSlack(n)' /\ PolicySlack(n)'
<1>1. UNCHANGED <<rules, policies>> /\ req[r].pc = "recount"
      BY DEF CountForUpdate
<1>2. CASE req' = [req EXCEPT ![r] = Idle]
  <2>1. Idle.pc = "idle"
        BY DEF Idle
  <2> QED BY <1>1, <1>2, <2>1, PolicySideKept, RuleSideKept
<1>3. ASSUME ~(Cardinality(Active) >= MaxRules), NEW u \in Updating,
             req' = [req EXCEPT ![r] = u], u.pc = "apply"
      PROVE  RuleSlack(n)' /\ PolicySlack(n)'
  <2>1. \A q \in Slots : req'[q] = IF q = r THEN u ELSE req[q]
        BY <1>3 DEF SlackIInv, StoreInv, StoreTypeOK
  <2>2. r \in Slots \ (Reviving \cup InsertingRule)
        BY <1>1 DEF Reviving, InsertingRule
  <2>3. Cardinality(Targets) + Cardinality(InsertingRule) + 1 < MaxRules + n
    <3>1. Reviving \cup InsertingRule \cup {r} \subseteq InFlight
          BY <1>1 DEF Reviving, InsertingRule, InFlight, Idle
    <3>2. InFlight \in SUBSET Slots
          BY DEF InFlight
    <3> QED BY <1>3, <2>2, <3>1, <3>2, Headroom DEF FitIn, SlackIInv, StoreInv
  <2>4. InsertingRule' = InsertingRule /\ Active' = Active
    <3>1. \A q \in Slots : q \in InsertingRule' <=> q \in InsertingRule
          BY <1>3, <2>1, <2>2 DEF InsertingRule
    <3>2. InsertingRule' = InsertingRule
          BY <3>1 DEF InsertingRule
    <3> QED BY <1>1, <3>2 DEF Active, Known
  <2>5. \A q \in Reviving' : req'[q].id \in Targets \cup {u.id}
        BY <2>1 DEF Reviving, Targets
  <2>6. Targets' \subseteq Targets \cup {u.id}
        BY <2>4, <2>5 DEF Targets
  <2>7. IsFiniteSet(Targets)
        BY SlackSets, FiniteFacts DEF SlackIInv, StoreInv
  <2>8. /\ Cardinality(Targets') <= Cardinality(Targets) + 1
        /\ Cardinality(Targets') \in Nat /\ Cardinality(Targets) \in Nat
        BY <2>6, <2>7, OneMoreCount
  <2>9. Cardinality(InsertingRule) \in Nat /\ MaxRules \in Nat
        BY SlackSets, FiniteFacts DEF SlackIInv, StoreInv
  <2>10. RuleSlack(n)'
        BY <2>3, <2>4, <2>8, <2>9 DEF RuleSlack
  <2> QED BY <1>1, <1>3, <2>10, PolicySideKept
<1> QED BY <1>2, <1>3, CountEffect DEF SlackIInv

\* A row that is written without going beyond the targets.
LEMMA RowWithinTargets ==
    ASSUME NEW n \in Nat, SlackIInv(n), NEW i \in RuleIds, NEW row \in Rule, rules' = [rules EXCEPT ![i] = row],
           row.active => i \in Targets,
           \A q \in Slots : req'[q] = req[q] \/ req'[q] = Idle,
           policies' = policies
    PROVE  RuleSlack(n)' /\ PolicySlack(n)'
<1>1. \A j \in Active' : j \in Active \/ (j = i /\ row.active)
      BY DEF Active, Known, SlackIInv, StoreInv, StoreTypeOK
<1>2. \A q \in Reviving' : q \in Reviving /\ req'[q].id = req[q].id
      BY DEF Reviving, Idle
<1>3. Targets' \subseteq Targets
      BY <1>1, <1>2 DEF Targets
<1>4. InsertingRule' \subseteq InsertingRule /\ InsertingPolicy' \subseteq InsertingPolicy
      BY DEF InsertingRule, InsertingPolicy, Idle
<1> QED BY <1>3, <1>4, SlackShrinks, PolicySlackShrinks DEF SlackIInv, StoreInv

LEMMA SlackStep ==
    ASSUME NEW n \in Nat, SlackIInv(n), FitIn(n), FitIn(n)', [StoreNext]_storeVars
    PROVE  SlackIInv(n)'
<1>0. StoreInv /\ StoreInv' /\ RuleSlack(n) /\ PolicySlack(n)
      BY StoreStep DEF SlackIInv
<1> SUFFICES RuleSlack(n)' /\ PolicySlack(n)'
    BY <1>0 DEF SlackIInv
<1>1. ASSUME NEW r \in Slots, NEW pattern \in Patterns, NEW type \in MatchTypes,
             CreateRule(r, pattern, type)
      PROVE  RuleSlack(n)' /\ PolicySlack(n)'
      BY <1>1, SlackCreate
<1>2. ASSUME NEW r \in Slots, NEW i \in RuleIds, NEW e \in Edits, UpdateRule(r, i, e)
      PROVE  RuleSlack(n)' /\ PolicySlack(n)'
  <2>1. PICK u \in Updating :
            /\ req' = [req EXCEPT ![r] = u] /\ u.id = i /\ u.edit = e
            /\ u.pc = "apply" => e.active # TRUE \/ rules[i].active
        BY <1>2, UpdateEffect
  <2>2. UNCHANGED <<rules, policies>> /\ i \in Known
        BY <1>2 DEF UpdateRule
  <2>3. u.pc # "insert" /\ u.pc # "policy"
        BY DEF Updating
  <2>4. u.pc = "apply" /\ u.edit.active = TRUE => u.id \in Active
        BY <2>1, <2>2 DEF Active
  <2> QED BY <2>1, <2>2, <2>3, <2>4, RuleSideKept, PolicySideKept
<1>3. ASSUME NEW r \in Slots, InsertRule(r) PROVE RuleSlack(n)' /\ PolicySlack(n)'
      BY <1>3, SlackInsert
<1>4. ASSUME NEW r \in Slots, CountForUpdate(r) PROVE RuleSlack(n)' /\ PolicySlack(n)'
      BY <1>4, SlackCountForUpdate
<1>5. ASSUME NEW r \in Slots, ApplyUpdate(r) PROVE RuleSlack(n)' /\ PolicySlack(n)'
  <2> DEFINE i == req[r].id
             e == req[r].edit
  <2>1. PICK row \in Rule :
                 /\ rules' = [rules EXCEPT ![i] = row]
                 /\ row.active = Given(e.active, rules[i].active)
                 /\ row.pattern = Given(e.pattern, rules[i].pattern)
                 /\ row.type = Given(e.type, rules[i].type)
        BY <1>0, <1>5, ApplyEffect
  <2>2. /\ req[r] \in Updating /\ i \in Known /\ i \in RuleIds
        /\ req' = [req EXCEPT ![r] = Idle]
        BY <1>0, <1>5, ApplyEffect DEF Known
  <2>3. req[r].pc = "apply" /\ policies' = policies
        BY <1>5 DEF ApplyUpdate
  <2>4. \A q \in Slots : req'[q] = req[q] \/ req'[q] = Idle
        BY <1>0, <2>2 DEF StoreInv, StoreTypeOK
  <2>5. e.active \in BOOLEAN \cup {None}
        BY <2>2, EditFields DEF Updating
  <2>6. CASE e.active = None
    <3>1. row.active => i \in Targets
          BY <2>1, <2>2, <2>6 DEF Given, Targets, Active
    <3> QED BY <2>1, <2>2, <2>3, <2>4, <3>1, RowWithinTargets
  <2>7. CASE e.active = TRUE
    <3>1. i \in Targets
          BY <2>3, <2>7 DEF Reviving, Targets
    <3> QED BY <2>1, <2>2, <2>3, <2>4, <3>1, RowWithinTargets
  <2>8. CASE e.active = FALSE /\ e.active # None
    <3>1. ~row.active
          BY <2>1, <2>8 DEF Given
    <3> QED BY <2>1, <2>2, <2>3, <2>4, <3>1, RowWithinTargets
  <2> QED BY <2>5, <2>6, <2>7, <2>8
<1>6. ASSUME NEW i \in RuleIds, SoftDelete(i) PROVE RuleSlack(n)' /\ PolicySlack(n)'
  <2>1. PICK row \in Rule :
            /\ rules' = [rules EXCEPT ![i] = row] /\ row.active = FALSE
            /\ row.pattern = rules[i].pattern /\ row.type = rules[i].type
        BY <1>0, <1>6, DeleteEffect
  <2>2. UNCHANGED <<req, policies>>
        BY <1>6 DEF SoftDelete
  <2> QED BY <2>1, <2>2, RowWithinTargets
<1>7. ASSUME NEW r \in Slots, CountPolicies(r) PROVE RuleSlack(n)' /\ PolicySlack(n)'
  <2> DEFINE u == [pc |-> "policy"]
  <2>1. /\ req' = [req EXCEPT ![r] = u] /\ UNCHANGED <<rules, policies>>
        /\ policies < MaxPolicies
        BY <1>7 DEF CountPolicies
  <2>2. RuleSlack(n)'
    <3>1. u.pc = "policy"
          OBVIOUS
    <3> HIDE DEF u
    <3> QED BY <2>1, <3>1, RuleSideKept
  <2>4. InsertingPolicy' \in SUBSET InFlight' /\ IsFiniteSet(InFlight')
        BY FiniteFacts DEF InsertingPolicy, InFlight, Idle
  <2>5. Cardinality(InsertingPolicy') <= n /\ Cardinality(InsertingPolicy') \in Nat
        BY <2>4, SubsetCount DEF FitIn
  <2>6. policies \in Nat /\ MaxPolicies \in Nat
        BY <1>0, FiniteFacts DEF StoreInv, StoreTypeOK
  <2>7. PolicySlack(n)'
        BY <2>1, <2>5, <2>6 DEF PolicySlack
  <2> QED BY <2>2, <2>7
<1>8. ASSUME NEW r \in Slots, InsertPolicy(r) PROVE RuleSlack(n)' /\ PolicySlack(n)'
  <2>1. /\ req' = [req EXCEPT ![r] = Idle] /\ rules' = rules /\ policies' = policies + 1
        /\ req[r].pc = "policy" /\ Idle.pc = "idle"
        BY <1>8 DEF InsertPolicy, Answer, Idle
  <2>2. RuleSlack(n)'
        BY <2>1, RuleSideKept
  <2>3. \A q \in Slots : req'[q] = IF q = r THEN Idle ELSE req[q]
        BY <1>0, <2>1 DEF StoreInv, StoreTypeOK
  <2>4. InsertingPolicy' = InsertingPolicy \ {r} /\ r \in InsertingPolicy
        BY <2>1, <2>3 DEF InsertingPolicy
  <2>5. IsFiniteSet(InsertingPolicy)
        BY <1>0, SlackSets, FiniteFacts DEF StoreInv
  <2>6. /\ Cardinality(InsertingPolicy') = Cardinality(InsertingPolicy) - 1
        /\ Cardinality(InsertingPolicy) \in Nat
        BY <2>4, <2>5, FS_RemoveElement, FS_CardinalityType
  <2>7. policies \in Nat /\ MaxPolicies \in Nat
        BY <1>0, FiniteFacts DEF StoreInv, StoreTypeOK
  <2>8. PolicySlack(n)'
        BY <1>0, <2>1, <2>6, <2>7 DEF PolicySlack
  <2> QED BY <2>2, <2>8
<1>9. CASE DeletePolicy
  <2>1. UNCHANGED <<rules, req>> /\ policies' = policies - 1
        BY <1>9 DEF DeletePolicy
  <2>2. /\ Targets' = Targets /\ InsertingRule' = InsertingRule
        /\ InsertingPolicy' = InsertingPolicy
        BY <2>1 DEF Targets, Active, Known, Reviving, InsertingRule, InsertingPolicy
  <2>3. policies \in Nat /\ MaxPolicies \in Nat /\ Cardinality(InsertingPolicy) \in Nat
        BY <1>0, SlackSets, FiniteFacts DEF StoreInv, StoreTypeOK
  <2> QED BY <1>0, <2>1, <2>2, <2>3 DEF RuleSlack, PolicySlack
<1>10. CASE UNCHANGED storeVars
  <2>1. /\ Targets' = Targets /\ InsertingRule' = InsertingRule
        /\ InsertingPolicy' = InsertingPolicy /\ policies' = policies
        BY <1>10 DEF storeVars, Targets, Active, Known, Reviving, InsertingRule, InsertingPolicy
  <2> QED BY <1>0, <2>1 DEF RuleSlack, PolicySlack
<1> QED BY <1>1, <1>2, <1>3, <1>4, <1>5, <1>6, <1>7, <1>8, <1>9, <1>10 DEF StoreNext

LEMMA SlackInitially == ASSUME NEW n \in Nat \ {0}, StoreInit PROVE SlackIInv(n)
<1>1. \A r \in Slots : req[r].pc = "idle"
      BY DEF StoreInit, Idle
<1>2. Known = {} /\ policies = 0
      BY DEF StoreInit, Known
<1>3. Targets = {} /\ InsertingRule = {} /\ InsertingPolicy = {}
      BY <1>1, <1>2 DEF Targets, Active, Reviving, InsertingRule, InsertingPolicy
<1>4. Cardinality({}) = 0
      BY FS_EmptySet
<1>5. MaxRules \in Nat /\ MaxPolicies \in Nat
      BY FiniteFacts
<1>6. RuleSlack(n) /\ PolicySlack(n)
      BY <1>2, <1>3, <1>4, <1>5 DEF RuleSlack, PolicySlack
<1> QED BY <1>6, StoreInitially DEF SlackIInv

\* Active rules and policies exceed the caps by less than n.
Exceeds(n) == Cardinality(Active) < MaxRules + n /\ policies < MaxPolicies + n

LEMMA SlackImplies == ASSUME NEW n \in Nat, SlackIInv(n) PROVE Exceeds(n)
<1>1. /\ IsFiniteSet(Targets) /\ IsFiniteSet(Active)
      /\ Cardinality(InsertingRule) \in Nat /\ Cardinality(InsertingPolicy) \in Nat
      /\ MaxRules \in Nat /\ MaxPolicies \in Nat /\ policies \in Nat
      BY SlackSets, FiniteFacts DEF SlackIInv, StoreInv, StoreTypeOK
<1>2. Active \in SUBSET Targets
      BY SlackSets DEF SlackIInv, StoreInv
<1>3. /\ Cardinality(Active) <= Cardinality(Targets)
      /\ Cardinality(Active) \in Nat /\ Cardinality(Targets) \in Nat
      BY <1>1, <1>2, SubsetCount
<1> QED BY <1>1, <1>3 DEF Exceeds, SlackIInv, RuleSlack, PolicySlack

\* However the requests interleave, the active rules and the policies exceed
\* their caps by less than the number of requests in flight at once.
THEOREM CapsAreSoft == StoreSpec => []CapSlack
<1> DEFINE n == Cardinality(Slots)
<1>1. n \in Nat \ {0}
      BY FiniteFacts
<1>2. FitIn(n)
  <2>1. InFlight \in SUBSET Slots /\ IsFiniteSet(Slots)
        BY FiniteFacts DEF InFlight
  <2> QED BY <2>1, SubsetCount DEF FitIn
<1>3. Exceeds(n) => CapSlack
      BY DEF Exceeds, CapSlack
<1> HIDE DEF n
<1>4. StoreInit => SlackIInv(n)
      BY <1>1, SlackInitially
<1>5. SlackIInv(n) /\ FitIn(n) /\ FitIn(n)' /\ [StoreNext]_storeVars => SlackIInv(n)'
      BY <1>1, SlackStep
<1>6. SlackIInv(n) => Exceeds(n)
      BY <1>1, SlackImplies
<1> QED BY <1>2, <1>3, <1>4, <1>5, <1>6, PTL DEF StoreSpec
-----------------------------------------------------------------------------
(***************************************************************************)
(* The connection pool.                                                    *)
(***************************************************************************)
PoolTypeOK ==
    /\ pc \in [Requests -> {"new", "first", "one", "more", "two", "done"}]
    /\ holds \in [Requests -> SUBSET Conns]
    /\ idle \in SUBSET Conns

HoldsOne(r) == \E c \in Conns : holds[r] = {c}

\* What a request holds is known from the step it is at: a request that waits
\* has nothing in hand, unless it is nested.
HoldsByStep ==
    \A r \in Requests :
        /\ pc[r] \in {"new", "first", "done"} => holds[r] = {}
        /\ pc[r] = "one" => HoldsOne(r)
        /\ pc[r] = "more" => \/ Shape(r) = "nested" /\ HoldsOne(r)
                             \/ Shape(r) = "serial" /\ holds[r] = {}

PoolIInv == PoolTypeOK /\ HoldsByStep /\ OneHolder

Nesting == {r \in Requests : Shape(r) = "nested"}
Holders == {r \in Requests : holds[r] # {}}

\* The connections bound the requests that hold one.
HoldersFit == IsFiniteSet(Holders) /\ Cardinality(Holders) <= Cardinality(Conns)

\* There is a connection to take, or a request that can give one back.
NotExhausted == idle # {} \/ \E r \in Requests : pc[r] \in {"one", "two"}
-----------------------------------------------------------------------------
LEMMA PoolInitially == Init => PoolIInv
BY DEF Init, PoolIInv, PoolTypeOK, HoldsByStep, OneHolder

\* A connection goes from the pool to the request that acquires it.
LEMMA PoolAcquire ==
    ASSUME PoolIInv, NEW r \in Requests, NEW step \in {"one", "two"}, Acquire(r, step),
           step = "one" => holds[r] = {}
    PROVE  PoolIInv'
<1>1. PICK c \in idle : holds' = [holds EXCEPT ![r] = @ \cup {c}] /\ idle' = idle \ {c}
      BY DEF Acquire
<1>2. c \in Conns /\ pc' = [pc EXCEPT ![r] = step]
      BY DEF PoolIInv, PoolTypeOK, Acquire, Go
<1>3. PoolTypeOK'
      BY <1>1, <1>2 DEF PoolIInv, PoolTypeOK
<1>4. HoldsByStep'
      BY <1>1, <1>2 DEF PoolIInv, PoolTypeOK, HoldsByStep, HoldsOne, Shape
<1>5. OneHolder'
  <2>1. \A q \in Requests : holds'[q] = IF q = r THEN holds[r] \cup {c} ELSE holds[q]
        BY <1>1 DEF PoolIInv, PoolTypeOK
  <2>2. \A d \in Conns : d \in idle' \/ \E q \in Requests : d \in holds'[q]
    <3> TAKE d \in Conns
    <3>1. CASE d = c
          BY <2>1, <3>1
    <3>2. CASE d # c
      <4>1. d \in idle \/ \E q \in Requests : d \in holds[q]
            BY DEF PoolIInv, OneHolder
      <4> QED BY <1>1, <2>1, <3>2, <4>1
    <3> QED BY <3>1, <3>2
  <2>3. \A q \in Requests : holds'[q] \subseteq Conns \ idle'
    <3>1. \A q \in Requests : holds[q] \subseteq Conns \ idle
          BY DEF PoolIInv, OneHolder
    <3> QED BY <1>1, <1>2, <2>1, <3>1
  <2>4. \A q \in Requests : pc'[q] = "done" => holds'[q] = {}
        BY <1>2, <2>1 DEF PoolIInv, PoolTypeOK, OneHolder
  <2>5. \A p, q \in Requests : p # q => holds'[p] \cap holds'[q] = {}
    <3>1. \A q \in Requests : c \notin holds[q]
          BY DEF PoolIInv, OneHolder
    <3>2. \A p, q \in Requests : p # q => holds[p] \cap holds[q] = {}
          BY DEF PoolIInv, OneHolder
    <3> QED BY <2>1, <3>1, <3>2
  <2> QED BY <2>2, <2>3, <2>4, <2>5 DEF OneHolder
<1> QED BY <1>3, <1>4, <1>5 DEF PoolIInv

\* The request's connections go back to the pool.
LEMMA PoolGiveBack ==
    ASSUME PoolIInv, NEW r \in Requests, NEW step \in {"more", "done"},
           pc' = [pc EXCEPT ![r] = step],
           step = "more" => Shape(r) = "serial",
           idle' = idle \cup holds[r], holds' = [holds EXCEPT ![r] = {}]
    PROVE  PoolIInv'
<1>1. \A q \in Requests : /\ holds'[q] = IF q = r THEN {} ELSE holds[q]
                          /\ pc'[q] = IF q = r THEN step ELSE pc[q]
      BY DEF PoolIInv, PoolTypeOK
<1>2. PoolTypeOK'
      BY DEF PoolIInv, PoolTypeOK
<1>3. HoldsByStep'
      BY <1>1 DEF PoolIInv, HoldsByStep, HoldsOne, Shape
<1>4. OneHolder'
      BY <1>1 DEF PoolIInv, OneHolder
<1> QED BY <1>2, <1>3, <1>4 DEF PoolIInv

\* A step of the handler that leaves its connections alone.
LEMMA PoolMoves ==
    ASSUME PoolIInv, NEW r \in Requests, NEW step \in {"first", "more", "done"},
           pc' = [pc EXCEPT ![r] = step], UNCHANGED <<holds, idle>>,
           step \in {"first", "done"} => holds[r] = {},
           step = "more" => Shape(r) = "nested" /\ HoldsOne(r)
    PROVE  PoolIInv'
<1>1. \A q \in Requests : pc'[q] = IF q = r THEN step ELSE pc[q]
      BY DEF PoolIInv, PoolTypeOK
<1>2. PoolTypeOK'
      BY DEF PoolIInv, PoolTypeOK
<1>3. HoldsByStep'
      BY <1>1 DEF PoolIInv, HoldsByStep, HoldsOne, Shape
<1>4. OneHolder'
      BY <1>1 DEF PoolIInv, OneHolder
<1> QED BY <1>2, <1>3, <1>4 DEF PoolIInv

LEMMA PoolStepKeeps == ASSUME PoolIInv, [Next]_vars PROVE PoolIInv'
<1> USE DEF Go
<1>1. ASSUME NEW r \in Requests, Arrive(r) PROVE PoolIInv'
      BY <1>1, PoolMoves DEF Arrive, PoolIInv, HoldsByStep
<1>2. ASSUME NEW r \in Requests, First(r) PROVE PoolIInv'
      BY <1>2, PoolAcquire DEF First, PoolIInv, HoldsByStep
<1>3. ASSUME NEW r \in Requests, AskMore(r) PROVE PoolIInv'
      BY <1>3, PoolMoves DEF AskMore, PoolIInv, HoldsByStep
<1>4. ASSUME NEW r \in Requests, HandBack(r) PROVE PoolIInv'
      BY <1>4, PoolGiveBack DEF HandBack
<1>5. ASSUME NEW r \in Requests, More(r) PROVE PoolIInv'
      BY <1>5, PoolAcquire DEF More
<1>6. ASSUME NEW r \in Requests, Return(r) PROVE PoolIInv'
      BY <1>6, PoolGiveBack DEF Return
<1>7. ASSUME NEW r \in Requests, GiveUp(r) PROVE PoolIInv'
      BY <1>7, PoolMoves DEF GiveUp, PoolIInv, HoldsByStep
<1>8. CASE UNCHANGED vars
      BY <1>8 DEF vars, PoolIInv, PoolTypeOK, HoldsByStep, HoldsOne, OneHolder, Shape
<1> QED BY <1>1, <1>2, <1>3, <1>4, <1>5, <1>6, <1>7, <1>8 DEF Next, Step

\* A request that holds connections holds one of its own: there are no more of
\* them than connections.
LEMMA HoldersAreFew == PoolIInv => HoldersFit
<1> HAVE PoolIInv
<1> DEFINE mine == [r \in Holders |-> CHOOSE c \in holds[r] : TRUE]
<1>1. \A r \in Holders : mine[r] \in holds[r] /\ holds[r] \subseteq Conns
      BY DEF Holders, PoolIInv, PoolTypeOK
<1>2. \A p, q \in Holders : mine[p] = mine[q] => p = q
  <2>1. \A p, q \in Requests : p # q => holds[p] \cap holds[q] = {}
        BY DEF PoolIInv, OneHolder
  <2> HIDE DEF mine
  <2> QED BY <1>1, <2>1 DEF Holders
<1>3. mine \in [Holders -> Conns]
      BY <1>1
<1>4. mine \in Injection(Holders, Conns)
  <2> HIDE DEF mine
  <2> QED BY <1>2, <1>3 DEF Injection, IsInjective
<1>5. IsFiniteSet(Conns)
      BY PoolAssumption DEF PoolAssumption
<1> HIDE DEF mine
<1> QED BY <1>4, <1>5, FS_Injection DEF HoldersFit

\* If every connection is with a request that waits for another, there is a
\* nested request for each.
LEMMA NestingIsNotEnough ==
    ASSUME IsFiniteSet(Nesting), Cardinality(Nesting) < Cardinality(Conns), PoolIInv
    PROVE  NotExhausted
<1> SUFFICES ASSUME idle = {}, \A r \in Requests : pc[r] \notin {"one", "two"}
             PROVE  FALSE
    BY DEF NotExhausted
<1> DEFINE holder == [c \in Conns |-> CHOOSE r \in Requests : c \in holds[r]]
<1>1. \A c \in Conns : holder[c] \in Requests /\ c \in holds[holder[c]]
      BY DEF PoolIInv, OneHolder
<1>2. \A r \in Requests : holds[r] # {} => r \in Nesting /\ HoldsOne(r)
      BY DEF PoolIInv, PoolTypeOK, HoldsByStep, Nesting
<1>3. holder \in [Conns -> Nesting]
      BY <1>1, <1>2
<1>4. \A c, d \in Conns : holder[c] = holder[d] => c = d
  <2> HIDE DEF holder
  <2> QED BY <1>1, <1>2 DEF HoldsOne
<1>5. holder \in Injection(Conns, Nesting)
  <2> HIDE DEF holder
  <2> QED BY <1>3, <1>4 DEF Injection, IsInjective
<1>6. Cardinality(Conns) <= Cardinality(Nesting)
      BY <1>5, FS_Injection
<1>7. IsFiniteSet(Conns)
      BY PoolAssumption DEF PoolAssumption
<1>8. Cardinality(Conns) \in Nat /\ Cardinality(Nesting) \in Nat
      BY <1>7, FS_CardinalityType
<1> QED BY <1>6, <1>8

LEMMA PoolHolds == Spec => []PoolIInv
<1>1. PoolIInv /\ [Next]_vars => PoolIInv'
      BY PoolStepKeeps
<1> QED BY <1>1, PoolInitially, PTL DEF Spec

\* Everything the pool promises it promises to the connection tests as well: to
\* them it is the pool, or it stands still.
THEOREM TestsUseThePool == TestSpec => Spec
<1>1. TestInit => Init
      BY DEF TestInit
<1>2. [TestNext]_allVars => [Next]_vars
  <2> HAVE [TestNext]_allVars
  <2>1. CASE PoolStep
        BY <2>1 DEF PoolStep
  <2>2. CASE TestNext /\ ~PoolStep
        BY <2>2 DEF TestNext, StartTest, TaskStep, CountBefore, SendTestEmail, Poll, Deadline,
                    Age, Status, LogBegins, LogCommits, CountRows, FetchRows, poolVars, vars
  <2>3. CASE UNCHANGED allVars
        BY <2>3 DEF allVars, poolVars, vars
  <2> QED BY <2>1, <2>2, <2>3
<1> QED BY <1>1, <1>2, PTL DEF TestSpec, Spec

\* No connection leaks and none is shared, whatever requests fail or give up.
THEOREM OneHolderEach == TestSpec => []OneHolder
<1>1. PoolIInv => OneHolder
      BY DEF PoolIInv
<1> QED BY <1>1, PoolHolds, TestsUseThePool, PTL

\* The requests that are between a statement and the next are at most as many as
\* the pool has connections.
THEOREM ConnectionsBoundHolders == TestSpec => []HoldersFit
BY HoldersAreFew, PoolHolds, TestsUseThePool, PTL

\* With fewer nested handlers than connections, the requests are never all
\* waiting: there is a connection in the pool, or a handler that returns one.
THEOREM PoolNeverExhausted ==
    ASSUME IsFiniteSet(Nesting), Cardinality(Nesting) < Cardinality(Conns)
    PROVE  TestSpec => []NotExhausted
<1>1. PoolIInv => NotExhausted
      BY NestingIsNotEnough
<1> QED BY <1>1, PoolHolds, TestsUseThePool, PTL
-----------------------------------------------------------------------------
(***************************************************************************)
(* Connection tests.                                                       *)
(***************************************************************************)
JobsTypeOK ==
    /\ task \in [Tests -> {"none", "count", "send", "poll", "end"}]
    /\ entry \in [Tests -> {"gone", "pending", "success", "failed"}]

\* A verdict is parked by a task that ends with it.
VerdictEnds == \A r \in Tests : entry[r] \in Settled => task[r] = "end"

JobsInv == JobsTypeOK /\ VerdictEnds

LEMMA TestsAreRequests == Tests \subseteq Requests
BY TestAssumption DEF TestAssumption

\* What one step does to the task and the entry of a test.
Parks(r, result) == task[r] \in {"count", "send", "poll"} /\ Settle(r, result)
Starts(r) ==
    /\ task[r] = "none" /\ task' = [task EXCEPT ![r] = "count"]
    /\ entry' = [Pruned EXCEPT ![r] = "pending"]
Advances(r) ==
    /\ task[r] \in {"count", "send"} /\ entry' = entry
    /\ \E step \in {"send", "poll"} : task' = [task EXCEPT ![r] = step]

LEMMA JobsStepCases ==
    ASSUME [TestNext]_allVars
    PROVE  \/ UNCHANGED <<task, entry>>
           \/ UNCHANGED task /\ entry' = Pruned
           \/ \E r \in Tests : Starts(r) \/ Advances(r)
           \/ \E r \in Tests : Parks(r, "failed") \/ Parks(r, "success")
<1>1. ASSUME NEW r \in Tests, StartTest(r) PROVE Starts(r)
      BY <1>1 DEF StartTest, Starts
<1>2. ASSUME NEW r \in Tests, CountBefore(r) PROVE Advances(r) \/ Parks(r, "failed")
      BY <1>2 DEF CountBefore, Fails, Advances, Parks
<1>3. ASSUME NEW r \in Tests, SendTestEmail(r) PROVE Advances(r) \/ Parks(r, "failed")
      BY <1>3 DEF SendTestEmail, Fails, Advances, Parks
<1>4. ASSUME NEW r \in Tests, Poll(r)
      PROVE  Parks(r, "failed") \/ Parks(r, "success")
      BY <1>4 DEF Poll, Parks
<1>5. ASSUME NEW r \in Tests, Deadline(r) PROVE Parks(r, "failed")
      BY <1>5 DEF Deadline, Fails, Parks
<1>6. ASSUME NEW r \in Tests, Age(r) PROVE UNCHANGED <<task, entry>>
      BY <1>6 DEF Age
<1>7. CASE Status
      BY <1>7 DEF Status
<1>8. CASE PoolStep \/ LogBegins \/ LogCommits \/ CountRows \/ FetchRows \/ UNCHANGED allVars
      BY <1>8 DEF PoolStep, LogBegins, LogCommits, CountRows, FetchRows, allVars, jobVars
<1> QED BY <1>1, <1>2, <1>3, <1>4, <1>5, <1>6, <1>7, <1>8 DEF TestNext, TaskStep

LEMMA PrunedFacts ==
    ASSUME JobsTypeOK
    PROVE  /\ Pruned \in [Tests -> {"gone", "pending", "success", "failed"}]
           /\ \A r \in Tests : Pruned[r] \in {entry[r], "gone"}
BY DEF JobsTypeOK, Pruned

LEMMA ParksEffect ==
    ASSUME JobsTypeOK, NEW r \in Tests, NEW result \in Settled, Parks(r, result)
    PROVE  /\ task[r] \in {"count", "send", "poll"}
           /\ \A q \in Tests :
                 /\ task'[q] = IF q = r THEN "end" ELSE task[q]
                 /\ q # r => entry'[q] = entry[q]
           /\ entry'[r] = IF entry[r] = "gone" THEN "gone" ELSE result
           /\ JobsTypeOK'
BY DEF JobsTypeOK, Parks, Settle, Settled

LEMMA StartsEffect ==
    ASSUME JobsTypeOK, NEW r \in Tests, Starts(r)
    PROVE  /\ task[r] = "none"
           /\ \A q \in Tests : task'[q] = IF q = r THEN "count" ELSE task[q]
           /\ \A q \in Tests : IF q = r THEN entry'[q] = "pending" ELSE entry'[q] = Pruned[q]
           /\ JobsTypeOK'
BY PrunedFacts DEF JobsTypeOK, Starts

LEMMA AdvancesEffect ==
    ASSUME JobsTypeOK, NEW r \in Tests, Advances(r)
    PROVE  /\ task[r] \in {"count", "send"} /\ task'[r] \in {"send", "poll"} /\ entry' = entry
           /\ \A q \in Tests \ {r} : task'[q] = task[q]
           /\ JobsTypeOK'
BY DEF JobsTypeOK, Advances

LEMMA JobsStep == ASSUME JobsInv, [TestNext]_allVars PROVE JobsInv'
<1> USE DEF JobsInv
<1>1. ASSUME NEW r \in Tests, NEW result \in Settled, Parks(r, result) PROVE JobsInv'
      BY <1>1, ParksEffect DEF VerdictEnds
<1>2. ASSUME NEW r \in Tests, Starts(r) PROVE JobsInv'
      BY <1>2, StartsEffect, PrunedFacts DEF VerdictEnds, Settled
<1>3. ASSUME NEW r \in Tests, Advances(r) PROVE JobsInv'
      BY <1>3, AdvancesEffect DEF VerdictEnds
<1>4. CASE UNCHANGED <<task, entry>>
      BY <1>4 DEF JobsTypeOK, VerdictEnds
<1>5. CASE UNCHANGED task /\ entry' = Pruned
      BY <1>5, PrunedFacts DEF JobsTypeOK, VerdictEnds, Settled
<1> QED BY <1>1, <1>2, <1>3, <1>4, <1>5, JobsStepCases DEF Settled

LEMMA JobsHold == TestSpec => []JobsInv
<1>1. TestInit => JobsInv
      BY DEF TestInit, JobsInv, JobsTypeOK, VerdictEnds, Settled
<1>2. JobsInv /\ [TestNext]_allVars => JobsInv'
      BY JobsStep
<1> QED BY <1>1, <1>2, PTL DEF TestSpec
-----------------------------------------------------------------------------
LEMMA ResultStep ==
    ASSUME JobsInv, [TestNext]_allVars, NEW r \in Tests
    PROVE  /\ entry[r] \in Settled => entry'[r] \in {entry[r], "gone"}
           /\ entry[r] = "gone" /\ task[r] # "none" => entry'[r] = "gone"
<1> USE DEF JobsInv
<1>1. ASSUME NEW q \in Tests, NEW result \in Settled, Parks(q, result)
      PROVE  /\ entry[r] \in Settled => entry'[r] \in {entry[r], "gone"}
             /\ entry[r] = "gone" /\ task[r] # "none" => entry'[r] = "gone"
      BY <1>1, ParksEffect DEF VerdictEnds
<1>2. ASSUME NEW q \in Tests, Starts(q)
      PROVE  /\ entry[r] \in Settled => entry'[r] \in {entry[r], "gone"}
             /\ entry[r] = "gone" /\ task[r] # "none" => entry'[r] = "gone"
      BY <1>2, StartsEffect, PrunedFacts DEF VerdictEnds
<1>3. ASSUME NEW q \in Tests, Advances(q) PROVE entry'[r] = entry[r]
      BY <1>3 DEF Advances
<1>4. CASE UNCHANGED <<task, entry>>
      BY <1>4
<1>5. CASE UNCHANGED task /\ entry' = Pruned
      BY <1>5, PrunedFacts
<1> QED BY <1>1, <1>2, <1>3, <1>4, <1>5, JobsStepCases DEF Settled

\* No late step of a task replaces a verdict or brings an expired test back.
THEOREM VerdictsStay == TestSpec => ResultsStay
<1>1. JobsInv /\ [TestNext]_allVars =>
        [\A r \in Tests :
            /\ entry[r] \in Settled => entry'[r] \in {entry[r], "gone"}
            /\ entry[r] = "gone" /\ task[r] # "none" => entry'[r] = "gone"]_allVars
      BY ResultStep
<1> QED BY <1>1, JobsHold, PTL DEF TestSpec, ResultsStay
-----------------------------------------------------------------------------
(***************************************************************************)
(* The pages of the log.                                                   *)
(***************************************************************************)
LogTypeOK == begun \in Nat /\ visible \in SUBSET (1..begun)

WalkTypeOK ==
    /\ walk \in [at : {"idle", "counted", "shown"}, page : Nat, total : Nat,
                 missing : SUBSET Nat, late : Nat]
    /\ walk.missing \subseteq visible

\* The pages that the client has been shown.
PagesSeen == IF walk.at = "counted" THEN walk.page - 1 ELSE walk.page

\* A row that it has not seen has as many newer rows as fill those pages: rows
\* that arrive only push it further down.
MissedAreOlder == \A i \in walk.missing : PagesSeen * PageSize <= NewerThan(i)

CountIsOld == walk.at = "counted" => walk.page > 0 /\ walk.total <= Cardinality(visible)

WalkIInv ==
    /\ LogTypeOK /\ WalkTypeOK /\ MissedAreOlder /\ CountIsOld /\ WalkMisses
    /\ walk.at = "idle" => walk.page = 0
-----------------------------------------------------------------------------
LEMMA Greatest ==
    ASSUME NEW n \in Nat, NEW T \in SUBSET (1..n), T # {}
    PROVE  \E m \in T : \A k \in T : k <= m
<1> DEFINE D == {n - k : k \in T}
<1>0. \A k \in T : n - k \in Nat /\ k \in Nat
      OBVIOUS
<1>1. D \in SUBSET Nat /\ D # {}
      BY <1>0
<1>2. \E d \in D : \A e \in D : ~(<<e, d>> \in OpToRel(<, Nat))
  <2> HIDE DEF D
  <2> QED BY <1>1, NatLessThanWellFounded, WFMin
<1>3. PICK d \in D : \A e \in D : ~(<<e, d>> \in OpToRel(<, Nat))
      BY <1>2
<1>4. PICK m \in T : d = n - m
      OBVIOUS
<1>5. \A k \in T : n - k \in D /\ n - k \in Nat /\ d \in Nat
      BY <1>1
<1>6. \A k \in T : ~(n - k < d)
      BY <1>3, <1>5 DEF OpToRel
<1> QED BY <1>0, <1>4, <1>6

LEMMA RowsFinite ==
    ASSUME LogTypeOK
    PROVE  /\ IsFiniteSet(visible) /\ Cardinality(visible) \in Nat
           /\ \A i : NewerThan(i) \in Nat
<1>1. IsFiniteSet(1..begun)
      BY FS_Interval DEF LogTypeOK
<1>2. IsFiniteSet(visible)
      BY <1>1, FS_Subset DEF LogTypeOK
<1>3. ASSUME NEW i PROVE NewerThan(i) \in Nat
  <2>1. {j \in visible : j > i} \in SUBSET visible
        OBVIOUS
  <2> QED BY <1>2, <2>1, SubsetCount DEF NewerThan
<1> QED BY <1>2, <1>3, FS_CardinalityType

\* Rows only appear.
LEMMA LogStep ==
    ASSUME LogTypeOK, [TestNext]_allVars
    PROVE  LogTypeOK' /\ visible \subseteq visible'
<1>1. NewRow => LogTypeOK' /\ visible \subseteq visible'
      BY DEF NewRow, LogTypeOK
<1>2. LogBegins => LogTypeOK' /\ visible \subseteq visible'
      BY DEF LogBegins, LogTypeOK
<1>3. LogCommits => LogTypeOK' /\ visible \subseteq visible'
      BY DEF LogCommits, LogTypeOK
<1>4. UNCHANGED logVars => LogTypeOK' /\ visible \subseteq visible'
      BY DEF logVars, LogTypeOK
<1>5. ~LogBegins /\ ~LogCommits => NewRow \/ UNCHANGED logVars
      BY DEF TestNext, PoolStep, StartTest, TaskStep, CountBefore, SendTestEmail, Poll, Deadline,
             Age, Status, CountRows, FetchRows, allVars, logVars
<1> QED BY <1>1, <1>2, <1>3, <1>4, <1>5

LEMMA NewerGrows ==
    ASSUME LogTypeOK, LogTypeOK', visible \subseteq visible', NEW i
    PROVE  NewerThan(i) <= NewerThan(i)' /\ NewerThan(i) \in Nat /\ NewerThan(i)' \in Nat
<1>1. IsFiniteSet(1..begun')
      BY FS_Interval DEF LogTypeOK
<1>2. IsFiniteSet(visible')
      BY <1>1, FS_Subset DEF LogTypeOK
<1>3. IsFiniteSet({j \in visible' : j > i})
  <2>1. {j \in visible' : j > i} \in SUBSET visible'
        OBVIOUS
  <2> QED BY <1>2, <2>1, FS_Subset
<1>4. {j \in visible : j > i} \in SUBSET {j \in visible' : j > i}
      OBVIOUS
<1> QED BY <1>3, <1>4, SubsetCount DEF NewerThan

\* The rows a client has not seen and those newer than all of them.
LEMMA MissedAndNewer ==
    ASSUME LogTypeOK, NEW M \in SUBSET visible, NEW n \in Nat,
           \A i \in M : n <= NewerThan(i), M # {}
    PROVE  Cardinality(M) + n <= Cardinality(visible)
<1>1. PICK m \in M : \A k \in M : k <= m
      BY Greatest DEF LogTypeOK
<1> DEFINE N == {j \in visible : j > m}
<1>2. IsFiniteSet(visible) /\ IsFiniteSet(M) /\ IsFiniteSet(N)
      BY RowsFinite, FS_Subset
<1>3. M \cap N = {}
  <2>1. M \subseteq Nat /\ m \in Nat
        BY DEF LogTypeOK
  <2>2. \A j \in M : ~(j > m)
        BY <1>1, <2>1
  <2> QED BY <2>2
<1>4. n <= Cardinality(N)
      BY DEF NewerThan
<1> HIDE DEF N
<1>5. Cardinality(M \cup N) = Cardinality(M) + Cardinality(N) - Cardinality({})
      BY <1>2, <1>3, FS_Union
<1>6. Cardinality({}) = 0
      BY FS_EmptySet
<1>7. M \cup N \in SUBSET visible
      BY DEF N
<1>8. Cardinality(M \cup N) <= Cardinality(visible)
      BY <1>2, <1>7, FS_Subset
<1>9. /\ Cardinality(M) \in Nat /\ Cardinality(N) \in Nat
      /\ Cardinality(visible) \in Nat
      BY <1>2, FS_CardinalityType
<1> QED BY <1>4, <1>5, <1>6, <1>8, <1>9

LEMMA WalkFields ==
    ASSUME WalkTypeOK
    PROVE  /\ walk.page \in Nat /\ walk.total \in Nat /\ walk.late \in Nat
           /\ walk.missing \in SUBSET visible /\ walk.at \in {"idle", "counted", "shown"}
BY DEF WalkTypeOK

\* The walk stands while rows arrive.
LEMMA WalkStands ==
    ASSUME WalkIInv, LogTypeOK', visible \subseteq visible', walk' = walk
    PROVE  WalkIInv'
<1>1. /\ LogTypeOK /\ WalkTypeOK /\ MissedAreOlder /\ CountIsOld /\ WalkMisses
      /\ walk.at = "idle" => walk.page = 0
      BY DEF WalkIInv
<1>2. WalkTypeOK' /\ WalkMisses' /\ PagesSeen' = PagesSeen
      BY <1>1 DEF WalkTypeOK, WalkMisses, PagesSeen
<1>3. MissedAreOlder'
  <2> SUFFICES ASSUME NEW i \in walk.missing
               PROVE  PagesSeen * PageSize <= NewerThan(i)'
      BY <1>2 DEF MissedAreOlder
  <2>1. PagesSeen * PageSize <= NewerThan(i)
        BY <1>1 DEF MissedAreOlder
  <2>2. NewerThan(i) <= NewerThan(i)' /\ NewerThan(i) \in Nat /\ NewerThan(i)' \in Nat
        BY <1>1, NewerGrows
  <2>3. PagesSeen * PageSize \in Int
    <3>1. PagesSeen \in Int /\ PageSize \in Int
          BY <1>1, WalkFields, TestAssumption DEF PagesSeen, TestAssumption
    <3> QED BY <3>1
  <2> QED BY <2>1, <2>2, <2>3
<1>4. CountIsOld'
  <2>1. IsFiniteSet(visible')
    <3>1. IsFiniteSet(1..begun')
          BY FS_Interval DEF LogTypeOK
    <3> QED BY <3>1, FS_Subset DEF LogTypeOK
  <2>2. Cardinality(visible) <= Cardinality(visible') /\ Cardinality(visible) \in Nat
        /\ Cardinality(visible') \in Nat
        BY <2>1, SubsetCount
  <2> QED BY <1>1, <2>2, WalkFields DEF CountIsOld
<1> QED BY <1>1, <1>2, <1>3, <1>4 DEF WalkIInv

LEMMA CountKeeps == ASSUME WalkIInv, CountRows PROVE WalkIInv'
<1>1. /\ LogTypeOK /\ WalkTypeOK /\ MissedAreOlder
      /\ walk.at = "idle" => walk.page = 0
      /\ begun' = begun /\ visible' = visible /\ walk.at \in {"idle", "shown"}
      BY DEF WalkIInv, CountRows, logVars
<1>2. Cardinality(visible) \in Nat /\ visible \subseteq Nat
      BY <1>1, RowsFinite DEF LogTypeOK
<1>3. /\ walk' \in [at : {"idle", "counted", "shown"}, page : Nat, total : Nat,
                    missing : SUBSET Nat, late : Nat]
      /\ walk'.at = "counted" /\ walk'.page = walk.page + 1
      /\ walk'.total = Cardinality(visible)
      /\ walk'.missing = IF walk.at = "idle" THEN visible ELSE walk.missing
  <2> DEFINE rest == IF walk.at = "idle" THEN visible ELSE walk.missing
  <2>1. walk' = [walk EXCEPT !.at = "counted", !.page = @ + 1, !.late = 0,
                             !.total = Cardinality(visible), !.missing = rest]
        BY DEF CountRows, CountForCustomer
  <2>2. rest \in SUBSET Nat
        BY <1>1, <1>2 DEF WalkTypeOK
  <2> HIDE DEF rest
  <2>3. PICK n \in Nat : n = Cardinality(visible)
        BY <1>2
  <2>4. PICK p \in Nat : p = walk.page + 1
        BY <1>1, WalkFields
  <2>5. walk' = [at |-> "counted", page |-> p, total |-> n, missing |-> rest, late |-> 0]
        BY <1>1, <2>1, <2>3, <2>4 DEF WalkTypeOK
  <2>6. /\ walk' \in [at : {"idle", "counted", "shown"}, page : Nat, total : Nat,
                      missing : SUBSET Nat, late : Nat]
        /\ walk'.at = "counted" /\ walk'.page = p /\ walk'.total = n /\ walk'.missing = rest
        BY <2>2, <2>5
  <2> QED BY <2>3, <2>4, <2>6 DEF rest
<1>4. walk.page \in Nat /\ walk.missing \subseteq visible /\ PageSize \in Nat
      BY <1>1, WalkFields, TestAssumption DEF TestAssumption
<1>5. LogTypeOK' /\ WalkTypeOK' /\ WalkMisses' /\ CountIsOld'
      BY <1>1, <1>2, <1>3, <1>4 DEF LogTypeOK, WalkTypeOK, WalkMisses, CountIsOld
<1>6. PagesSeen' = PagesSeen
      BY <1>1, <1>3, <1>4 DEF PagesSeen
<1>7. \A i : NewerThan(i)' = NewerThan(i) /\ NewerThan(i) \in Nat
      BY <1>1, RowsFinite DEF NewerThan
<1>8. MissedAreOlder'
  <2>1. CASE walk.at = "idle"
    <3>1. PagesSeen = 0 /\ 0 * PageSize = 0
          BY <1>1, <1>4, <2>1 DEF PagesSeen
    <3> QED BY <1>6, <1>7, <3>1 DEF MissedAreOlder
  <2>2. CASE walk.at = "shown"
        BY <1>1, <1>3, <1>6, <1>7, <2>2 DEF MissedAreOlder
  <2> QED BY <1>1, <2>1, <2>2
<1> QED BY <1>3, <1>5, <1>8 DEF WalkIInv

\* The page takes away the unseen rows that have too few newer ones, and at the
\* last page those that are left are no more than the rows that came late.
LEMMA FetchKeeps == ASSUME WalkIInv, FetchRows PROVE WalkIInv'
<1>1. /\ LogTypeOK /\ WalkTypeOK /\ MissedAreOlder /\ CountIsOld
      /\ begun' = begun /\ visible' = visible /\ walk.at = "counted"
      BY DEF WalkIInv, FetchRows, logVars
<1>2. /\ Cardinality(visible) \in Nat /\ visible \subseteq Nat
      /\ walk.page \in Nat \ {0} /\ walk.total \in Nat /\ walk.total <= Cardinality(visible)
      /\ walk.missing \subseteq visible /\ PageSize \in Nat
      BY <1>1, RowsFinite, WalkFields, TestAssumption DEF LogTypeOK, CountIsOld, TestAssumption
<1> DEFINE M == walk.missing \ RowsOfPage(walk.page)
<1>3. /\ walk' \in [at : {"idle", "counted", "shown"}, page : Nat, total : Nat,
                    missing : SUBSET Nat, late : Nat]
      /\ walk'.at = "shown" /\ walk'.page = walk.page /\ walk'.total = walk.total
      /\ walk'.missing = M /\ walk'.late = Cardinality(visible) - walk.total
  <2>1. M \in SUBSET Nat /\ Cardinality(visible) - walk.total \in Nat
    <3>1. M \subseteq walk.missing
          OBVIOUS
    <3>2. walk.missing \subseteq Nat
          BY <1>2
    <3>3. Cardinality(visible) - walk.total \in Nat
          BY <1>2
    <3> HIDE DEF M
    <3> QED BY <3>1, <3>2, <3>3
  <2> HIDE DEF M
  <2>2. walk' = [walk EXCEPT !.at = "shown", !.late = Cardinality(visible) - walk.total,
                             !.missing = M]
        BY DEF FetchRows, CountForCustomer, M
  <2> QED BY <1>1, <2>1, <2>2 DEF WalkTypeOK
<1>4. PICK low \in Nat : low = (walk.page - 1) * PageSize
      BY <1>2
<1>5. PICK high \in Nat : high = walk.page * PageSize
      BY <1>2
<1>6. \A i \in M : high <= NewerThan(i)
  <2> TAKE i \in M
  <2>1. low <= NewerThan(i) /\ NewerThan(i) \in Nat /\ i \in visible
        BY <1>1, <1>2, <1>4, RowsFinite DEF MissedAreOlder, PagesSeen
  <2>2. NewerThan(i) \notin low..(high - 1)
        BY <1>4, <1>5, <2>1 DEF RowsOfPage
  <2> QED BY <2>1, <2>2
<1>7. M \in SUBSET visible
      BY <1>2
<1> HIDE DEF M
<1>8. WalkMisses'
  <2> SUFFICES ASSUME high >= walk.total
               PROVE  Cardinality(M) <= Cardinality(visible) - walk.total
      BY <1>3, <1>5 DEF WalkMisses
  <2>1. CASE M = {}
    <3>1. Cardinality(M) = 0
          BY <2>1, FS_EmptySet
    <3> QED BY <1>2, <3>1
  <2>2. CASE M # {}
    <3>1. Cardinality(M) + high <= Cardinality(visible)
          BY <1>1, <1>6, <1>7, <2>2, MissedAndNewer
    <3>2. IsFiniteSet(visible)
          BY <1>1, RowsFinite
    <3>3. Cardinality(M) \in Nat
          BY <1>7, <3>2, SubsetCount
    <3> QED BY <1>2, <3>1, <3>3
  <2> QED BY <2>1, <2>2
<1>9. LogTypeOK' /\ WalkTypeOK' /\ CountIsOld'
      BY <1>1, <1>3, <1>7 DEF LogTypeOK, WalkTypeOK, CountIsOld
<1>10. MissedAreOlder'
  <2>1. \A i : NewerThan(i)' = NewerThan(i)
        BY <1>1 DEF NewerThan
  <2>2. PagesSeen' = walk.page
        BY <1>3 DEF PagesSeen
  <2> QED BY <1>3, <1>5, <1>6, <2>1, <2>2 DEF MissedAreOlder
<1> QED BY <1>3, <1>8, <1>9, <1>10 DEF WalkIInv

LEMMA WalkStep == ASSUME WalkIInv, [TestNext]_allVars PROVE WalkIInv'
<1>1. LogTypeOK' /\ visible \subseteq visible'
      BY LogStep DEF WalkIInv
<1>2. ~CountRows /\ ~FetchRows => walk' = walk
      BY DEF TestNext, PoolStep, StartTest, TaskStep, CountBefore, SendTestEmail, Poll, Deadline,
             Age, Status, LogBegins, LogCommits, allVars
<1> QED BY <1>1, <1>2, WalkStands, CountKeeps, FetchKeeps

\* A client that pages to the end of the log misses at most as many of the rows
\* it began with as became visible between its last two statements.
THEOREM PagesMissOnlyLateRows == TestSpec => []WalkMisses
<1>1. TestInit => WalkIInv
  <2> HAVE TestInit
  <2>1. LogTypeOK
        BY TestAssumption DEF TestInit, LogTypeOK, TestAssumption
  <2>2. walk = NoWalk
        BY DEF TestInit
  <2> QED BY <2>1, <2>2 DEF NoWalk, WalkIInv, WalkTypeOK, MissedAreOlder, CountIsOld, WalkMisses
<1>2. WalkIInv /\ [TestNext]_allVars => WalkIInv'
      BY WalkStep
<1>3. WalkIInv => WalkMisses
      BY DEF WalkIInv
<1> QED BY <1>1, <1>2, <1>3, PTL DEF TestSpec
-----------------------------------------------------------------------------
(***************************************************************************)
(* The store over the pool.                                                *)
(***************************************************************************)

\* A request has its connection from its check to its write.
InFlightHolds == InFlight \subseteq Holders

LEMMA InFlightFit ==
    ASSUME HoldersFit, InFlightHolds
    PROVE  FitIn(Cardinality(Conns))
<1>1. IsFiniteSet(Conns)
      BY PoolAssumption DEF PoolAssumption
<1>2. Cardinality(Conns) \in Nat
      BY <1>1, FS_CardinalityType
<1>3. Cardinality(InFlight) <= Cardinality(Holders) /\ Cardinality(InFlight) \in Nat
      /\ Cardinality(Holders) \in Nat
      BY SubsetCount DEF HoldersFit, InFlightHolds
<1> QED BY <1>2, <1>3 DEF FitIn, HoldersFit

\* However many requests there are, the pool lets the caps be exceeded by less
\* than the number of its connections (ten in main.py).
THEOREM PoolBoundsSlack ==
    TestSpec /\ StoreSpec /\ []InFlightHolds => []Exceeds(Cardinality(Conns))
<1> DEFINE n == Cardinality(Conns)
<1>1. n \in Nat \ {0}
      BY PoolAssumption, FS_CardinalityType, FS_EmptySet DEF PoolAssumption
<1>2. HoldersFit /\ InFlightHolds => FitIn(n)
      BY InFlightFit
<1> HIDE DEF n
<1>3. StoreInit => SlackIInv(n)
      BY <1>1, SlackInitially
<1>4. SlackIInv(n) /\ FitIn(n) /\ FitIn(n)' /\ [StoreNext]_storeVars => SlackIInv(n)'
      BY <1>1, SlackStep
<1>5. SlackIInv(n) => Exceeds(n)
      BY <1>1, SlackImplies
<1>6. TestSpec /\ StoreSpec /\ []InFlightHolds => []Exceeds(n)
      BY <1>2, <1>3, <1>4, <1>5, ConnectionsBoundHolders, PTL DEF StoreSpec
<1> QED BY <1>6 DEF n
=============================================================================
