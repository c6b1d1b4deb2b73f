------------------------------ MODULE Domains -------------------------------
(***************************************************************************)
(* A customer's sending domains (backend/services/customers.py and         *)
(* repositories/customers.py): adding one, drawing its TXT token, checking *)
(* the TXT record, removing it.  Every statement is a transaction of its   *)
(* own, and a request awaits between its statements and during the DNS     *)
(* lookup, so the requests of several tabs or customers interleave there.  *)
(***************************************************************************)
EXTENDS Naturals, FiniteSets

CONSTANTS Customers,
          Names,      \* domain names
          Controls,   \* <<customer, name>>: who can publish under the name
          Tokens,     \* values of secrets.token_hex(20); bound: initialisations
          Requests,   \* bound: requests running at once
          None        \* no row, no token

ASSUME DomainsAssumption == /\ Controls \subseteq Customers \X Names
                            /\ None \notin Tokens

VARIABLES row,     \* row[n]: the row of customer_domains for n, or None
          issued,  \* <<customer, name, token>> drawn so far
          dns,     \* dns[n]: the tokens in n's TXT records
          req      \* req[r]: the request's next step, its locals and its answer

vars == <<row, issued, dns, req>>

Rows  == [owner : Customers, verified : BOOLEAN, token : Tokens \cup {None}]
Steps == {"idle", "insert", "settoken", "dns", "mark", "delete"}

Init == /\ row = [n \in Names |-> None]
        /\ issued = {}
        /\ dns = [n \in Names |-> {}]
        /\ req = [r \in Requests |-> [step |-> "idle", c |-> None, n |-> None,
                                      token |-> None, answer |-> "none"]]

\* get_domain_entry finds n for customer c.
Entry(c, n) == row[n] # None /\ row[n].owner = c

Verified(c) == {n \in Names : Entry(c, n) /\ row[n].verified}

\* Request r goes on with a later statement, or is answered.
GoOn(r, step, c, n, t) ==
    req' = [req EXCEPT ![r] = [step |-> step, c |-> c, n |-> n,
                               token |-> t, answer |-> "none"]]
Answer(r, answer) ==
    req' = [req EXCEPT ![r] = [step |-> "idle", c |-> None, n |-> None,
                               token |-> None, answer |-> answer]]

\* add_domain: domain_exists_for_other_customer.
Add(r, c, n) ==
    /\ req[r].step = "idle"
    /\ IF row[n] # None /\ row[n].owner # c /\ row[n].verified
       THEN Answer(r, "conflict")
       ELSE GoOn(r, "insert", c, n, None)
    /\ UNCHANGED <<row, issued, dns>>

\* INSERT ... ON CONFLICT (domain) DO NOTHING.
Insert(r) ==
    LET n == req[r].n
    IN  /\ req[r].step = "insert"
        /\ \/ /\ row[n] = None
              /\ row' = [row EXCEPT ![n] = [owner |-> req[r].c, verified |-> FALSE,
                                            token |-> None]]
              /\ Answer(r, "created")
           \/ /\ row[n] # None
              /\ UNCHANGED row
              /\ Answer(r, "conflict")
        /\ UNCHANGED <<issued, dns>>

\* init_domain_verification_for: a token is drawn unless the entry has one; no
\* entry at all is treated as an entry without a token.
InitVerify(r, c, n) ==
    /\ req[r].step = "idle"
    /\ IF Entry(c, n) /\ (row[n].verified \/ row[n].token # None)
       THEN Answer(r, "token") /\ UNCHANGED issued
       ELSE \E t \in Tokens :
                /\ \A i \in issued : i[3] # t
                /\ issued' = issued \cup {<<c, n, t>>}
                /\ GoOn(r, "settoken", c, n, t)
    /\ UNCHANGED <<row, dns>>

\* set_domain_verification_token, and the token is shown to the customer.
SetToken(r) ==
    LET n == req[r].n
    IN  /\ req[r].step = "settoken"
        /\ row' = IF Entry(req[r].c, n) THEN [row EXCEPT ![n].token = req[r].token]
                  ELSE row
        /\ Answer(r, "token")
        /\ UNCHANGED <<issued, dns>>

\* The customer adds a token they were shown to a zone they control.
Publish(c, n, t) ==
    /\ <<c, n>> \in Controls /\ <<c, n, t>> \in issued
    /\ \A r \in Requests : req[r].step = "settoken" => req[r].token # t
    /\ dns' = [dns EXCEPT ![n] = @ \cup {t}]
    /\ UNCHANGED <<row, issued, req>>

\* check_domain_verification_for: the entry is read, then DNS is asked.
Check(r, c, n) ==
    /\ req[r].step = "idle"
    /\ CASE ~Entry(c, n)          -> Answer(r, "not_found")
         [] Entry(c, n) /\ row[n].verified -> Answer(r, "verified")
         [] Entry(c, n) /\ ~row[n].verified /\ row[n].token = None -> Answer(r, "not_initialized")
         [] OTHER                 -> GoOn(r, "dns", c, n, row[n].token)
    /\ UNCHANGED <<row, issued, dns>>

\* The lookup finds the token, or fails, times out or does not see it yet.
Lookup(r) ==
    /\ req[r].step = "dns"
    /\ \/ /\ req[r].token \in dns[req[r].n]
          /\ GoOn(r, "mark", req[r].c, req[r].n, req[r].token)
       \/ Answer(r, "pending")
    /\ UNCHANGED <<row, issued, dns>>

\* Mutant: the update takes whatever row is there.
MarkMutant(r) ==
    LET n == req[r].n
    IN  /\ req[r].step = "mark"
        /\ row' = IF row[n] # None THEN [row EXCEPT ![n].verified = TRUE] ELSE row
        /\ Answer(r, "verified")
        /\ UNCHANGED <<issued, dns>>

\* mark_domain_verified_by_domain.
Mark(r) ==
    LET n == req[r].n
    IN  /\ req[r].step = "mark"
        /\ row' = IF Entry(req[r].c, n) THEN [row EXCEPT ![n].verified = TRUE] ELSE row
        /\ Answer(r, "verified")
        /\ UNCHANGED <<issued, dns>>

\* remove_domain: list_domains, then the test for the last verified one.
Remove(r, c, n) ==
    /\ req[r].step = "idle"
    /\ IF Cardinality(Verified(c)) <= 1 /\ n \in Verified(c)
       THEN Answer(r, "last_domain")
       ELSE GoOn(r, "delete", c, n, None)
    /\ UNCHANGED <<row, issued, dns>>

\* delete_domain.
Delete(r) ==
    LET n == req[r].n
    IN  /\ req[r].step = "delete"
        /\ \/ /\ Entry(req[r].c, n)
              /\ row' = [row EXCEPT ![n] = None]
              /\ Answer(r, "removed")
           \/ /\ ~Entry(req[r].c, n)
              /\ UNCHANGED row
              /\ Answer(r, "not_found")
        /\ UNCHANGED <<issued, dns>>

\* One step of request r.
Step(r) == \/ \E c \in Customers, n \in Names :
                  Add(r, c, n) \/ InitVerify(r, c, n) \/ Check(r, c, n) \/ Remove(r, c, n)
           \/ Insert(r) \/ SetToken(r) \/ Lookup(r) \/ Mark(r) \/ Delete(r)

Next == \/ \E r \in Requests : Step(r)
        \/ \E c \in Customers, n \in Names, t \in Tokens : Publish(c, n, t)

Spec == Init /\ [][Next]_vars
-----------------------------------------------------------------------------
TypeOK == /\ row \in [Names -> Rows \cup {None}]
          /\ issued \subseteq Customers \X Names \X Tokens
          /\ dns \in [Names -> SUBSET Tokens]
          /\ req \in [Requests -> [step : Steps, c : Customers \cup {None},
                                   n : Names \cup {None}, token : Tokens \cup {None},
                                   answer : {"none", "conflict", "created", "token",
                                             "not_found", "verified", "not_initialized",
                                             "pending", "last_domain", "removed"}]]

\* A domain is verified for a customer only if that customer controls it, also
\* when it changed hands between the DNS answer and the update.
VerifiedMeansControl ==
    \A n \in Names :
        row[n] # None => (row[n].verified => <<row[n].owner, n>> \in Controls)

\* Why: a token belongs to the customer and name it was drawn for, wherever it is
\* kept, and only who controls the name publishes it there.
TokensApart == \A i, j \in issued : i[3] = j[3] => i = j
RowTokens   == \A n \in Names :
                   row[n] # None => (row[n].token # None =>
                       <<row[n].owner, n, row[n].token>> \in issued)
DnsTokens   == \A n \in Names : \A t \in dns[n] :
                   \E c \in Customers : <<c, n>> \in Controls /\ <<c, n, t>> \in issued
Requested   == \A r \in Requests :
    /\ req[r].step # "idle" => req[r].c \in Customers /\ req[r].n \in Names
    /\ req[r].step \in {"settoken", "dns"} => <<req[r].c, req[r].n, req[r].token>> \in issued
    /\ req[r].step = "mark" => <<req[r].c, req[r].n>> \in Controls

ControlInv == TypeOK /\ TokensApart /\ RowTokens /\ DnsTokens /\ Requested /\ VerifiedMeansControl
=============================================================================
