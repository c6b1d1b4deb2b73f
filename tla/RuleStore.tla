------------------------------ MODULE RuleStore -------------------------------
(***************************************************************************)
(* One customer's rules and AI policies under concurrent dashboard         *)
(* requests.  Every statement commits by itself, and a request checks in   *)
(* one statement what it writes in another: the caps are counted and then  *)
(* inserted, an update validates the row it has read and then updates the  *)
(* columns it was given (COALESCE keeps the others as they are by then).   *)
(* A request that is refused changes nothing and is not a step.            *)
(*                                                                         *)
(* A pattern is plain, or broken: one that no regular expression engine    *)
(* compiles, which is in order for a rule that matches strings.            *)
(***************************************************************************)
EXTENDS Naturals, FiniteSets

CONSTANTS
    Slots,        \* the requests that can be in flight at once: each holds one of
                  \* the pool's connections from its check to its write
    RuleIds,
    MaxRules,     \* MAX_ACTIVE_RULES_PER_CUSTOMER
    MaxPolicies,  \* MAX_POLICIES
    Edits,        \* the arguments of an update: None for a column not given
    None

Patterns == {"plain", "broken"}
MatchTypes == {"string", "regex"}
Rule == [active : BOOLEAN, pattern : Patterns, type : MatchTypes]

ASSUME StoreAssumption ==
    /\ MaxRules \in Nat /\ MaxPolicies \in Nat
    /\ Edits \subseteq [pattern : Patterns \cup {None}, type : MatchTypes \cup {None},
                        active : BOOLEAN \cup {None}]
    /\ None \notin Patterns \cup MatchTypes \cup Rule
    /\ IsFiniteSet(Slots) /\ Slots # {} /\ IsFiniteSet(RuleIds)

VARIABLES
    rules,     \* rules[i]: the row, or None if there has never been one
    policies,  \* the number of the customer's policies
    req,       \* req[r]: a request in flight with its arguments, or Idle
    raced      \* history: rules of which an update changed the column that a
               \* pending one had been validated with

storeVars == <<rules, policies, req, raced>>

Idle == [pc |-> "idle"]

StoreInit ==
    /\ rules = [i \in RuleIds |-> None]
    /\ policies = 0
    /\ req = [r \in Slots |-> Idle]
    /\ raced = {}
-----------------------------------------------------------------------------
Known == {i \in RuleIds : rules[i] # None}
Active == {i \in Known : rules[i].active}

\* assert_valid_regex: only a regex has to compile.
Valid(pattern, type) == type = "regex" => pattern = "plain"

\* The request is answered, with whatever result.
Answer(r) == req' = [req EXCEPT ![r] = Idle]

\* POST /rules: the validation, then count_active_for_customer against the cap.
CreateRuleMutant(r, pattern, type) ==
    /\ req[r] = Idle
    /\ Valid(pattern, type)
    /\ Cardinality(Active) <= MaxRules
    /\ req' = [req EXCEPT ![r] = [pc |-> "insert", pattern |-> pattern, type |-> type]]
    /\ UNCHANGED <<rules, policies, raced>>
CreateRule(r, pattern, type) ==
    /\ req[r] = Idle
    /\ Valid(pattern, type)
    /\ Cardinality(Active) < MaxRules
    /\ req' = [req EXCEPT ![r] = [pc |-> "insert", pattern |-> pattern, type |-> type]]
    /\ UNCHANGED <<rules, policies, raced>>

InsertRule(r) ==
    /\ req[r].pc = "insert"
    /\ \E i \in RuleIds \ Known :
        rules' = [rules EXCEPT ![i] = [active |-> TRUE, pattern |-> req[r].pattern,
                                       type |-> req[r].type]]
    /\ Answer(r)
    /\ UNCHANGED <<policies, raced>>

Given(new, kept) == IF new = None THEN kept ELSE new

\* PUT /rules/{id} with any of the columns, None for one that is not given: the
\* read of the row and the validation of the effective pattern.  Only a
\* reactivation goes on to count.
UpdateRuleMutant(r, i, e) ==
    /\ req[r] = Idle
    /\ i \in Known
    /\ Valid(Given(e.pattern, "plain"), Given(e.type, "string"))
    /\ req' = [req EXCEPT ![r] =
          [pc |-> IF e.active = TRUE /\ ~rules[i].active THEN "recount" ELSE "apply",
           id |-> i, edit |-> e]]
    /\ UNCHANGED <<rules, policies, raced>>
UpdateRule(r, i, e) ==
    /\ req[r] = Idle
    /\ i \in Known
    /\ Valid(Given(e.pattern, rules[i].pattern), Given(e.type, rules[i].type))
    /\ req' = [req EXCEPT ![r] =
          [pc |-> IF e.active = TRUE /\ ~rules[i].active THEN "recount" ELSE "apply",
           id |-> i, edit |-> e]]
    /\ UNCHANGED <<rules, policies, raced>>

CountForUpdate(r) ==
    /\ req[r].pc = "recount"
    /\ IF Cardinality(Active) >= MaxRules
       THEN Answer(r) ELSE req' = [req EXCEPT ![r].pc = "apply"]
    /\ UNCHANGED <<rules, policies, raced>>

\* Updates of the same row that have read it and not yet written it.
Overlapping(r) ==
    {q \in Slots \ {r} : req[q].pc \in {"recount", "apply"} /\ req[q].id = req[r].id}

\* One of two updates takes for granted the column that the other gives.
Crosses(e, other) ==
    \/ other.type = None /\ other.pattern # None /\ e.type # None
    \/ other.pattern = None /\ other.type # None /\ e.pattern # None

\* UPDATE ... SET column = COALESCE(argument, column).
ApplyUpdate(r) ==
    /\ req[r].pc = "apply"
    /\ LET i == req[r].id
           e == req[r].edit IN
       /\ rules' = [rules EXCEPT ![i] = [active |-> Given(e.active, @.active),
                                         pattern |-> Given(e.pattern, @.pattern),
                                         type |-> Given(e.type, @.type)]]
       /\ raced' = IF \E q \in Overlapping(r) : Crosses(e, req[q].edit)
                   THEN raced \cup {i} ELSE raced
    /\ Answer(r)
    /\ UNCHANGED policies

\* DELETE /rules/{id}: one statement, which only deactivates.
SoftDeleteMutant(i) ==
    /\ i \in Active
    /\ rules' = [rules EXCEPT ![i] = None]
    /\ UNCHANGED <<policies, req, raced>>
SoftDelete(i) ==
    /\ i \in Active
    /\ rules' = [rules EXCEPT ![i].active = FALSE]
    /\ UNCHANGED <<policies, req, raced>>
-----------------------------------------------------------------------------
\* POST /ai/policies: the count, and in the next statement the insert.
CountPolicies(r) ==
    /\ req[r] = Idle
    /\ policies < MaxPolicies
    /\ req' = [req EXCEPT ![r] = [pc |-> "policy"]]
    /\ UNCHANGED <<rules, policies, raced>>

InsertPolicy(r) ==
    /\ req[r].pc = "policy"
    /\ policies' = policies + 1
    /\ Answer(r)
    /\ UNCHANGED <<rules, raced>>

\* DELETE /ai/policies/{id} removes the row.
DeletePolicy ==
    /\ policies > 0
    /\ policies' = policies - 1
    /\ UNCHANGED <<rules, req, raced>>

StoreNext ==
    \/ \E r \in Slots :
        \/ \E pattern \in Patterns, type \in MatchTypes : CreateRule(r, pattern, type)
        \/ \E i \in RuleIds, e \in Edits : UpdateRule(r, i, e)
        \/ InsertRule(r) \/ CountForUpdate(r) \/ ApplyUpdate(r)
        \/ CountPolicies(r) \/ InsertPolicy(r)
    \/ \E i \in RuleIds : SoftDelete(i)
    \/ DeletePolicy

StoreSpec == StoreInit /\ [][StoreNext]_storeVars
-----------------------------------------------------------------------------
Creating == [pc : {"insert"}, pattern : Patterns, type : MatchTypes]

Updating == [pc : {"recount", "apply"}, id : RuleIds, edit : Edits]

StoreTypeOK ==
    /\ rules \in [RuleIds -> Rule \cup {None}]
    /\ policies \in Nat
    /\ req \in [Slots -> {Idle, [pc |-> "policy"]} \cup Creating \cup Updating]
    /\ raced \subseteq RuleIds

\* A rule that an update has found is there when it writes: rules are never
\* removed, scan-log rows refer to them.  (The code's last branch, "deleted
\* between ownership check and update", is never taken.)
UpdateFindsItsRow ==
    \A r \in Slots : req[r].pc \in {"recount", "apply"} => req[r].id \in Known

\* Every value has its type, and no update writes into the void.
StoreInv == StoreTypeOK /\ UpdateFindsItsRow

\* The caps are soft: however the requests interleave, also when a rule is
\* deleted under an update that found it active, the count exceeds the cap by
\* less than the number of requests that can be in flight.
CapSlack ==
    /\ Cardinality(Active) < MaxRules + Cardinality(Slots)
    /\ policies < MaxPolicies + Cardinality(Slots)

\* A stored regular expression compiles, however updates of its rule overlap,
\* but for one overlap: an update gave one of pattern and type and was validated
\* with the other as it read it, which a second one then changed.
InvalidOnlyByRace ==
    \A i \in Known \ raced : Valid(rules[i].pattern, rules[i].type)
=============================================================================
