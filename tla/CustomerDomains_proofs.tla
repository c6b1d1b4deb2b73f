------------------------ MODULE CustomerDomains_proofs ------------------------
(***************************************************************************)
(* Proof that a domain is verified only for a customer who controls it,    *)
(* whatever the customers, the names and the number of overlapping         *)
(* requests (Domains); and that this stays so beside the older flow, whose *)
(* verified domains are controlled as well, as is the domain an SMTP       *)
(* session sends for (CustomerDomains).                                    *)
(***************************************************************************)
EXTENDS CustomerDomains, TLAPS

\* The answers of TypeOK.
Answers == {"none", "conflict", "created", "token", "not_found", "verified",
            "not_initialized", "pending", "last_domain", "removed"}

\* What a step does to the requests: r goes on or is answered, the others stay.
LEMMA GoOnEffect ==
    ASSUME TypeOK, NEW r \in Requests, NEW step \in Steps,
           NEW c \in Customers, NEW n \in Names, NEW t \in Tokens \cup {None},
           GoOn(r, step, c, n, t)
    PROVE  /\ req' \in [Requests -> [step : Steps, c : Customers \cup {None},
                                     n : Names \cup {None}, token : Tokens \cup {None},
                                     answer : Answers]]
           /\ req'[r].step = step /\ req'[r].c = c /\ req'[r].n = n /\ req'[r].token = t
           /\ \A q \in Requests : q # r => req'[q] = req[q]
<1> DEFINE new == [step |-> step, c |-> c, n |-> n, token |-> t, answer |-> "none"]
<1>1. new \in [step : Steps, c : Customers \cup {None}, n : Names \cup {None},
               token : Tokens \cup {None}, answer : Answers]
      BY DEF Answers
<1>2. req' = [req EXCEPT ![r] = new]
      BY DEF GoOn
<1>3. new.step = step /\ new.c = c /\ new.n = n /\ new.token = t
      OBVIOUS
<1> HIDE DEF new
<1> QED BY <1>1, <1>2, <1>3 DEF TypeOK, Answers

LEMMA AnswerEffect ==
    ASSUME TypeOK, NEW r \in Requests, NEW answer \in Answers, Answer(r, answer)
    PROVE  /\ req' \in [Requests -> [step : Steps, c : Customers \cup {None},
                                     n : Names \cup {None}, token : Tokens \cup {None},
                                     answer : Answers]]
           /\ req'[r].step = "idle"
           /\ \A q \in Requests : q # r => req'[q] = req[q]
<1> DEFINE new == [step |-> "idle", c |-> None, n |-> None, token |-> None, answer |-> answer]
<1>1. new \in [step : Steps, c : Customers \cup {None}, n : Names \cup {None},
               token : Tokens \cup {None}, answer : Answers]
      BY DEF Steps
<1>2. req' = [req EXCEPT ![r] = new]
      BY DEF Answer
<1>3. new.step = "idle"
      OBVIOUS
<1> HIDE DEF new
<1> QED BY <1>1, <1>2, <1>3 DEF TypeOK, Answers

LEMMA Initially == Init => ControlInv
<1> SUFFICES ASSUME Init PROVE ControlInv
    OBVIOUS
<1>1. TypeOK
      BY DEF Init, TypeOK, Steps
<1>2. TokensApart /\ RowTokens /\ DnsTokens /\ Requested /\ VerifiedMeansControl
      BY DEF Init, TokensApart, RowTokens, DnsTokens, Requested, VerifiedMeansControl
<1> QED BY <1>1, <1>2 DEF ControlInv

\* A request that only reads: it is answered, or goes on with what it has read.
ReadsOnly(r) ==
    /\ UNCHANGED <<row, issued, dns>>
    /\ \/ \E answer \in Answers : Answer(r, answer)
       \/ \E step \in Steps, c \in Customers, n \in Names, t \in Tokens \cup {None} :
             /\ GoOn(r, step, c, n, t)
             /\ step \in {"settoken", "dns"} => <<c, n, t>> \in issued
             /\ step = "mark" => <<c, n>> \in Controls

LEMMA ReadsKeepInv == ASSUME ControlInv, NEW r \in Requests, ReadsOnly(r) PROVE ControlInv'
<1>1. TypeOK /\ Requested
      BY DEF ControlInv
<1>2. UNCHANGED <<row, issued, dns>>
      BY DEF ReadsOnly
<1>3. TokensApart' /\ RowTokens' /\ DnsTokens' /\ VerifiedMeansControl'
      BY <1>2 DEF ControlInv, TokensApart, RowTokens, DnsTokens, VerifiedMeansControl
<1>4. TypeOK' /\ Requested'
  <2>1. ASSUME NEW answer \in Answers, Answer(r, answer) PROVE TypeOK' /\ Requested'
    <3>1. TypeOK'
          BY <1>1, <1>2, <2>1, AnswerEffect DEF TypeOK, Answers
    <3>2. Requested'
          BY <1>1, <1>2, <2>1, AnswerEffect DEF Requested
    <3> QED BY <3>1, <3>2
  <2>2. ASSUME NEW step \in Steps, NEW c \in Customers, NEW n \in Names,
               NEW t \in Tokens \cup {None}, GoOn(r, step, c, n, t),
               step \in {"settoken", "dns"} => <<c, n, t>> \in issued,
               step = "mark" => <<c, n>> \in Controls
        PROVE  TypeOK' /\ Requested'
    <3>1. TypeOK'
          BY <1>1, <1>2, <2>2, GoOnEffect DEF TypeOK, Answers
    <3>2. /\ req'[r].step = step /\ req'[r].c = c /\ req'[r].n = n /\ req'[r].token = t
          /\ \A q \in Requests : q # r => req'[q] = req[q]
          BY <1>1, <2>2, GoOnEffect
    <3>3. Requested'
          BY <1>1, <1>2, <2>2, <3>2 DEF Requested
    <3> QED BY <3>1, <3>3
  <2> QED BY <2>1, <2>2 DEF ReadsOnly
<1> QED BY <1>3, <1>4 DEF ControlInv

LEMMA AddReads == ASSUME NEW r \in Requests, NEW c \in Customers, NEW n \in Names, Add(r, c, n)
                  PROVE  ReadsOnly(r)
BY DEF Add, ReadsOnly, Answers, Steps

LEMMA RemoveReads ==
    ASSUME NEW r \in Requests, NEW c \in Customers, NEW n \in Names, Remove(r, c, n)
    PROVE  ReadsOnly(r)
<1> DEFINE last == Cardinality(Verified(c)) <= 1 /\ n \in Verified(c)
<1>1. /\ UNCHANGED <<row, issued, dns>>
      /\ IF last THEN Answer(r, "last_domain") ELSE GoOn(r, "delete", c, n, None)
      BY DEF Remove
<1> HIDE DEF last
<1> QED BY <1>1 DEF ReadsOnly, Answers, Steps

LEMMA CheckReads ==
    ASSUME ControlInv, NEW r \in Requests, NEW c \in Customers, NEW n \in Names, Check(r, c, n)
    PROVE  ReadsOnly(r)
<1>1. CASE ~Entry(c, n)
      BY <1>1 DEF Check, ReadsOnly, Answers
<1>2. CASE Entry(c, n) /\ row[n].verified
      BY <1>2 DEF Check, ReadsOnly, Answers
<1>3. CASE Entry(c, n) /\ ~row[n].verified /\ row[n].token = None
      BY <1>3 DEF Check, ReadsOnly, Answers
<1>4. CASE Entry(c, n) /\ ~row[n].verified /\ row[n].token # None
  <2>1. GoOn(r, "dns", c, n, row[n].token) /\ UNCHANGED <<row, issued, dns>>
        BY <1>4 DEF Check
  <2>2. row[n].token \in Tokens /\ <<c, n, row[n].token>> \in issued
        BY <1>4 DEF Entry, ControlInv, TypeOK, Rows, RowTokens
  <2> QED BY <2>1, <2>2 DEF ReadsOnly, Steps
<1> QED BY <1>1, <1>2, <1>3, <1>4

\* The token DNS answered with was drawn for this customer, and somebody who
\* controls the name published it: the same customer.
LEMMA LookupReads == ASSUME ControlInv, NEW r \in Requests, Lookup(r) PROVE ReadsOnly(r)
<1> DEFINE c == req[r].c
           n == req[r].n
           t == req[r].token
<1>1. /\ c \in Customers /\ n \in Names /\ t \in Tokens \cup {None} /\ <<c, n, t>> \in issued
      BY DEF ControlInv, Requested, Lookup, TypeOK
<1>2. CASE Answer(r, "pending")
      BY <1>2 DEF Lookup, ReadsOnly, Answers
<1>3. CASE t \in dns[n] /\ GoOn(r, "mark", c, n, t)
  <2>1. PICK o \in Customers : <<o, n>> \in Controls /\ <<o, n, t>> \in issued
        BY <1>1, <1>3 DEF ControlInv, DnsTokens
  <2>2. <<o, n, t>> = <<c, n, t>>
        BY <1>1, <2>1 DEF ControlInv, TokensApart
  <2>3. <<c, n>> \in Controls
        BY <2>1, <2>2
  <2> QED BY <1>1, <1>3, <2>3 DEF Lookup, ReadsOnly, Steps
<1> QED BY <1>2, <1>3 DEF Lookup

\* A draw: the new token belongs to nobody else.
LEMMA InitVerifyKeepsInv ==
    ASSUME ControlInv, NEW r \in Requests, NEW c \in Customers, NEW n \in Names,
           InitVerify(r, c, n)
    PROVE  ControlInv'
<1>1. TypeOK /\ Requested /\ TokensApart /\ RowTokens /\ DnsTokens /\ VerifiedMeansControl
      BY DEF ControlInv
<1>2. row' = row /\ dns' = dns
      BY DEF InitVerify
<1>3. CASE issued' = issued /\ Answer(r, "token")
  <2>1. ReadsOnly(r)
        BY <1>2, <1>3 DEF ReadsOnly, Answers
  <2> QED BY <2>1, ReadsKeepInv
<1>4. ASSUME NEW t \in Tokens, \A i \in issued : i[3] # t,
             issued' = issued \cup {<<c, n, t>>}, GoOn(r, "settoken", c, n, t)
      PROVE  ControlInv'
  <2>1. "settoken" \in Steps
        BY DEF Steps
  <2>2. /\ req' \in [Requests -> [step : Steps, c : Customers \cup {None},
                                  n : Names \cup {None}, token : Tokens \cup {None},
                                  answer : Answers]]
        /\ req'[r].step = "settoken" /\ req'[r].c = c /\ req'[r].n = n /\ req'[r].token = t
        /\ \A q \in Requests : q # r => req'[q] = req[q]
        BY <1>1, <1>4, <2>1, GoOnEffect
  <2>3. TypeOK'
        BY <1>1, <1>2, <1>4, <2>2 DEF TypeOK, Answers
  <2>4. TokensApart'
        BY <1>1, <1>4 DEF TokensApart
  <2>5. RowTokens' /\ DnsTokens' /\ VerifiedMeansControl'
        BY <1>1, <1>2, <1>4 DEF RowTokens, DnsTokens, VerifiedMeansControl
  <2>6. Requested'
        BY <1>1, <1>4, <2>2 DEF Requested
  <2> QED BY <2>3, <2>4, <2>5, <2>6 DEF ControlInv
<1> QED BY <1>3, <1>4 DEF InitVerify

\* A statement that replaces, changes or deletes one row, after which the request
\* is answered.
LEMMA WriteKeepsInv ==
    ASSUME ControlInv, NEW r \in Requests, NEW answer \in Answers, Answer(r, answer),
           UNCHANGED <<issued, dns>>, row' \in [Names -> Rows \cup {None}],
           \A n \in Names :
              row'[n] # None /\ row'[n] # row[n] =>
                 /\ row'[n].token # None => <<row'[n].owner, n, row'[n].token>> \in issued
                 /\ row'[n].verified => <<row'[n].owner, n>> \in Controls
    PROVE  ControlInv'
<1>1. TypeOK /\ Requested
      BY DEF ControlInv
<1>2. TypeOK'
      BY <1>1, AnswerEffect DEF TypeOK, Answers
<1>3. Requested'
      BY <1>1, AnswerEffect DEF Requested
<1>4. TokensApart' /\ DnsTokens'
      BY DEF ControlInv, TokensApart, DnsTokens
<1>5. RowTokens'
      BY DEF ControlInv, RowTokens
<1>6. VerifiedMeansControl'
      BY DEF ControlInv, VerifiedMeansControl
<1> QED BY <1>2, <1>3, <1>4, <1>5, <1>6 DEF ControlInv

LEMMA InsertKeepsInv == ASSUME ControlInv, NEW r \in Requests, Insert(r) PROVE ControlInv'
<1> DEFINE c == req[r].c
           n == req[r].n
           new == [owner |-> c, verified |-> FALSE, token |-> None]
<1>1. c \in Customers /\ n \in Names /\ row \in [Names -> Rows \cup {None}]
      BY DEF ControlInv, Requested, Insert, TypeOK
<1>2. new \in Rows /\ new.token = None /\ new.verified = FALSE
      BY <1>1 DEF Rows
<1>3. CASE row' = [row EXCEPT ![n] = new] /\ Answer(r, "created")
  <2> HIDE DEF new
  <2>1. row' \in [Names -> Rows \cup {None}]
        BY <1>1, <1>2, <1>3
  <2>2. \A m \in Names : row'[m] # row[m] => row'[m] = new
        BY <1>1, <1>3
  <2> QED BY <1>2, <1>3, <2>1, <2>2, WriteKeepsInv DEF Insert, Answers
<1>4. CASE row' = row /\ Answer(r, "conflict")
      BY <1>1, <1>4, WriteKeepsInv DEF Insert, Answers
<1> QED BY <1>3, <1>4 DEF Insert

LEMMA SetTokenKeepsInv == ASSUME ControlInv, NEW r \in Requests, SetToken(r) PROVE ControlInv'
<1> DEFINE c == req[r].c
           n == req[r].n
           t == req[r].token
<1>1. /\ c \in Customers /\ n \in Names /\ <<c, n, t>> \in issued
      /\ row \in [Names -> Rows \cup {None}] /\ t \in Tokens \cup {None}
      BY DEF ControlInv, Requested, SetToken, TypeOK
<1>2. CASE Entry(c, n) /\ row' = [row EXCEPT ![n].token = t]
  <2>1. row[n] \in Rows
        BY <1>1, <1>2 DEF Entry
  <2>2. /\ row' \in [Names -> Rows \cup {None}]
        /\ row'[n].token = t /\ row'[n].owner = c /\ row'[n].verified = row[n].verified
        /\ \A m \in Names : row'[m] # row[m] => m = n
        BY <1>1, <1>2, <2>1 DEF Entry, Rows
  <2>3. row[n].verified => <<c, n>> \in Controls
        BY <1>1, <1>2 DEF Entry, ControlInv, VerifiedMeansControl
  <2> QED BY <1>1, <2>2, <2>3, WriteKeepsInv DEF SetToken, Answers
<1>3. CASE row' = row
      BY <1>1, <1>3, WriteKeepsInv DEF SetToken, Answers
<1> QED BY <1>2, <1>3 DEF SetToken

\* The update names its customer: it cannot verify a row of another one.
LEMMA MarkKeepsInv == ASSUME ControlInv, NEW r \in Requests, Mark(r) PROVE ControlInv'
<1> DEFINE c == req[r].c
           n == req[r].n
<1>1. /\ c \in Customers /\ n \in Names /\ <<c, n>> \in Controls
      /\ row \in [Names -> Rows \cup {None}]
      BY DEF ControlInv, Requested, Mark, TypeOK
<1>2. CASE Entry(c, n) /\ row' = [row EXCEPT ![n].verified = TRUE]
  <2>1. row[n] \in Rows
        BY <1>1, <1>2 DEF Entry
  <2>2. /\ row' \in [Names -> Rows \cup {None}]
        /\ row'[n].token = row[n].token /\ row'[n].owner = c
        /\ \A m \in Names : row'[m] # row[m] => m = n
        BY <1>1, <1>2, <2>1 DEF Entry, Rows
  <2>3. row[n].token # None => <<c, n, row[n].token>> \in issued
        BY <1>1, <1>2 DEF Entry, ControlInv, RowTokens
  <2> QED BY <1>1, <2>2, <2>3, WriteKeepsInv DEF Mark, Answers
<1>3. CASE row' = row
      BY <1>1, <1>3, WriteKeepsInv DEF Mark, Answers
<1> QED BY <1>2, <1>3 DEF Mark

LEMMA DeleteKeepsInv == ASSUME ControlInv, NEW r \in Requests, Delete(r) PROVE ControlInv'
<1> DEFINE n == req[r].n
<1>1. row \in [Names -> Rows \cup {None}]
      BY DEF ControlInv, TypeOK
<1>2. CASE row' = [row EXCEPT ![n] = None] /\ Answer(r, "removed")
  <2>1. row' \in [Names -> Rows \cup {None}] /\ \A m \in Names : row'[m] # row[m] => row'[m] = None
        BY <1>1, <1>2
  <2> QED BY <1>2, <2>1, WriteKeepsInv DEF Delete, Answers
<1>3. CASE row' = row /\ Answer(r, "not_found")
      BY <1>1, <1>3, WriteKeepsInv DEF Delete, Answers
<1> QED BY <1>2, <1>3 DEF Delete

LEMMA PublishKeepsInv ==
    ASSUME ControlInv, NEW c \in Customers, NEW n \in Names, NEW t \in Tokens, Publish(c, n, t)
    PROVE  ControlInv'
<1>1. /\ <<c, n>> \in Controls /\ <<c, n, t>> \in issued
      /\ row' = row /\ issued' = issued /\ req' = req /\ dns \in [Names -> SUBSET Tokens]
      BY DEF Publish, ControlInv, TypeOK
<1>2. /\ dns' \in [Names -> SUBSET Tokens]
      /\ \A m \in Names : \A s \in dns'[m] : s \in dns[m] \/ (m = n /\ s = t)
      BY <1>1 DEF Publish
<1>3. TypeOK'
      BY <1>1, <1>2 DEF ControlInv, TypeOK
<1>4. DnsTokens'
      BY <1>1, <1>2 DEF ControlInv, DnsTokens
<1>5. TokensApart' /\ RowTokens' /\ Requested' /\ VerifiedMeansControl'
      BY <1>1 DEF ControlInv, TokensApart, RowTokens, Requested, VerifiedMeansControl
<1> QED BY <1>3, <1>4, <1>5 DEF ControlInv

\* Every step of every request and every publication.
LEMMA ControlStep == ASSUME ControlInv, [Next]_vars PROVE ControlInv'
<1>1. CASE UNCHANGED vars
      BY <1>1 DEF vars, ControlInv, TypeOK, TokensApart, RowTokens, DnsTokens, Requested,
                  VerifiedMeansControl
<1>2. ASSUME NEW r \in Requests, NEW c \in Customers, NEW n \in Names,
             Add(r, c, n) \/ InitVerify(r, c, n) \/ Check(r, c, n) \/ Remove(r, c, n)
      PROVE  ControlInv'
      BY <1>2, AddReads, CheckReads, RemoveReads, ReadsKeepInv, InitVerifyKeepsInv
<1>3. ASSUME NEW r \in Requests, Insert(r) \/ SetToken(r) \/ Lookup(r) \/ Mark(r) \/ Delete(r)
      PROVE  ControlInv'
      BY <1>3, InsertKeepsInv, SetTokenKeepsInv, LookupReads, ReadsKeepInv, MarkKeepsInv,
         DeleteKeepsInv
<1> QED BY <1>1, <1>2, <1>3, PublishKeepsInv DEF Next, Step

\* A token stays with the customer and the name it was drawn for, in the table, in
\* DNS and in every running request.
THEOREM ControlHolds == Spec => []ControlInv
<1>1. ControlInv /\ [Next]_vars => ControlInv'
    BY ControlStep
<1> QED BY Initially, <1>1, PTL DEF Spec

\* Whatever the customers do at once, a domain is verified only for one who can
\* publish a TXT record under it.
THEOREM VerifiedMeansControlHolds == Spec => []VerifiedMeansControl
BY ControlHolds, PTL DEF ControlInv
-----------------------------------------------------------------------------
(***************************************************************************)
(* CustomerDomains.                                                        *)
(***************************************************************************)
TabType == [step : {"idle", "settoken", "dns", "mark"}, c : Customers \cup {None},
            token : Tokens \cup {None}]

\* The older flow keeps a token with its customer too, and goes on to mark only
\* for one who controls the name.
PrimaryInv ==
    /\ primaryToken \in [Customers -> Tokens \cup {None}]
    /\ \A c \in Customers : primaryToken[c] # None => <<c, Primary[c], primaryToken[c]>> \in issued
    /\ tab \in [Tabs -> TabType]
    /\ \A q \in Tabs :
        /\ tab[q].step # "idle" => tab[q].c \in Customers
        /\ tab[q].step \in {"settoken", "dns"} =>
              tab[q].token \in Tokens /\ <<tab[q].c, Primary[tab[q].c], tab[q].token>> \in issued
        /\ tab[q].step = "mark" => <<tab[q].c, Primary[tab[q].c]>> \in Controls
    /\ primaryVerified \subseteq Customers
    /\ PrimaryMeansControl

CustomerInv == ControlInv /\ PrimaryInv /\ SessionMeansControl

LEMMA CustomerInitially == CustomerInit => CustomerInv
<1> SUFFICES ASSUME CustomerInit PROVE CustomerInv
    OBVIOUS
<1>1. ControlInv
      BY Initially DEF CustomerInit
<1>2. Closed \in TabType /\ Closed.step = "idle"
      BY DEF Closed, TabType
<1>3. PrimaryInv
      BY <1>2 DEF CustomerInit, PrimaryInv, PrimaryMeansControl
<1>4. SessionMeansControl
      BY DEF CustomerInit, NoSession, SessionMeansControl
<1> QED BY <1>1, <1>3, <1>4 DEF CustomerInv

\* Tokens once drawn stay drawn.
LEMMA IssuedGrows == ASSUME [Next]_vars PROVE issued \subseteq issued'
<1>1. ASSUME NEW r \in Requests, NEW c \in Customers, NEW n \in Names,
             Add(r, c, n) \/ InitVerify(r, c, n) \/ Check(r, c, n) \/ Remove(r, c, n)
      PROVE  issued \subseteq issued'
      BY <1>1 DEF Add, InitVerify, Check, Remove
<1>2. ASSUME NEW r \in Requests, Insert(r) \/ SetToken(r) \/ Lookup(r) \/ Mark(r) \/ Delete(r)
      PROVE  issued \subseteq issued'
      BY <1>2 DEF Insert, SetToken, Lookup, Mark, Delete
<1>3. ASSUME NEW c \in Customers, NEW n \in Names, NEW t \in Tokens, Publish(c, n, t)
      PROVE  issued \subseteq issued'
      BY <1>3 DEF Publish
<1> QED BY <1>1, <1>2, <1>3 DEF Next, Step, vars

\* The newer flow takes nothing from the older one.
LEMMA DomainStepKeeps == ASSUME CustomerInv, DomainStep PROVE CustomerInv'
<1>1. Next
      BY PrimaryAssumption DEF DomainStep, Next, Step
<1>2. ControlInv' /\ issued \subseteq issued'
      BY <1>1, ControlStep, IssuedGrows DEF CustomerInv
<1>3. UNCHANGED <<primaryToken, primaryVerified, tab, session>>
      BY DEF DomainStep, primaryVars
<1>4. PrimaryInv'
      BY <1>2, <1>3 DEF CustomerInv, PrimaryInv, PrimaryMeansControl
<1>5. SessionMeansControl'
      BY <1>3 DEF CustomerInv, SessionMeansControl
<1> QED BY <1>2, <1>4, <1>5 DEF CustomerInv

\* What a request of the older flow does to the tabs.
LEMMA ContinueEffect ==
    ASSUME tab \in [Tabs -> TabType], NEW q \in Tabs, NEW c \in Customers,
           NEW t \in Tokens \cup {None}, NEW step \in {"settoken", "dns", "mark"},
           Continue(q, step, c, t)
    PROVE  /\ tab' \in [Tabs -> TabType]
           /\ tab'[q].step = step /\ tab'[q].c = c /\ tab'[q].token = t
           /\ \A p \in Tabs : p # q => tab'[p] = tab[p]
<1> DEFINE new == [step |-> step, c |-> c, token |-> t]
<1>1. new \in TabType /\ new.step = step /\ new.c = c /\ new.token = t
      BY DEF TabType
<1>2. tab' = [tab EXCEPT ![q] = new]
      BY DEF Continue
<1> HIDE DEF new
<1> QED BY <1>1, <1>2

LEMMA CloseEffect ==
    ASSUME tab \in [Tabs -> TabType], NEW q \in Tabs, Close(q)
    PROVE  /\ tab' \in [Tabs -> TabType] /\ tab'[q].step = "idle"
           /\ \A p \in Tabs : p # q => tab'[p] = tab[p]
<1>1. Closed \in TabType /\ Closed.step = "idle"
      BY DEF Closed, TabType
<1> QED BY <1>1 DEF Close

\* A draw of the older flow is new to the newer one as well.
LEMMA InitPrimaryKeeps ==
    ASSUME CustomerInv, NEW q \in Tabs, NEW c \in Customers, InitPrimary(q, c)
    PROVE  CustomerInv'
<1>1. PICK t \in Tokens : /\ \A i \in issued : i[3] # t
                          /\ issued' = issued \cup {<<c, Primary[c], t>>}
                          /\ Continue(q, "settoken", c, t)
      BY DEF InitPrimary
<1>2. UNCHANGED <<row, dns, req, primaryToken, primaryVerified, session>>
      BY DEF InitPrimary
<1>3. Primary[c] \in Names
      BY PrimaryAssumption
<1>4. ControlInv'
  <2>1. TypeOK'
        BY <1>1, <1>2, <1>3 DEF CustomerInv, ControlInv, TypeOK
  <2>2. TokensApart'
        BY <1>1, <1>3 DEF CustomerInv, ControlInv, TypeOK, TokensApart
  <2>3. RowTokens' /\ DnsTokens' /\ Requested' /\ VerifiedMeansControl'
        BY <1>1, <1>2 DEF CustomerInv, ControlInv, RowTokens, DnsTokens, Requested, VerifiedMeansControl
  <2> QED BY <2>1, <2>2, <2>3 DEF ControlInv
<1>5. PrimaryInv'
  <2>1. /\ tab' \in [Tabs -> TabType]
        /\ tab'[q].step = "settoken" /\ tab'[q].c = c /\ tab'[q].token = t
        /\ \A p \in Tabs : p # q => tab'[p] = tab[p]
        BY <1>1, ContinueEffect DEF CustomerInv, PrimaryInv
  <2> QED BY <1>1, <1>2, <2>1 DEF CustomerInv, PrimaryInv, PrimaryMeansControl
<1>6. SessionMeansControl'
      BY <1>2 DEF CustomerInv, SessionMeansControl
<1> QED BY <1>4, <1>5, <1>6 DEF CustomerInv

\* The steps of the older flow that draw nothing.  A token that DNS answers
\* with was published by who controls the name, and was drawn for this customer.
LEMMA PrimaryKeeps ==
    ASSUME CustomerInv, NEW q \in Tabs,
           \/ \E c \in Customers : CheckPrimary(q, c)
           \/ SetPrimaryToken(q) \/ LookupPrimary(q) \/ MarkPrimary(q)
    PROVE  CustomerInv'
<1>1. UNCHANGED <<row, issued, dns, req, session>>
      BY DEF CheckPrimary, SetPrimaryToken, LookupPrimary, MarkPrimary, vars
<1>2. ControlInv' /\ SessionMeansControl'
      BY <1>1 DEF CustomerInv, ControlInv, TypeOK, TokensApart, RowTokens, DnsTokens, Requested,
                  VerifiedMeansControl, SessionMeansControl
<1>3. ASSUME NEW c \in Customers, CheckPrimary(q, c) PROVE PrimaryInv'
  <2>1. /\ tab' \in [Tabs -> TabType]
        /\ tab'[q].step = "dns" /\ tab'[q].c = c /\ tab'[q].token = primaryToken[c]
        /\ \A p \in Tabs : p # q => tab'[p] = tab[p]
        BY <1>3, ContinueEffect DEF CheckPrimary, CustomerInv, PrimaryInv
  <2>2. UNCHANGED <<primaryToken, primaryVerified>> /\ primaryToken[c] # None
        BY <1>3 DEF CheckPrimary
  <2> QED BY <1>1, <2>1, <2>2 DEF CustomerInv, PrimaryInv, PrimaryMeansControl
<1>4. ASSUME SetPrimaryToken(q) PROVE PrimaryInv'
  <2>1. /\ tab' \in [Tabs -> TabType] /\ tab'[q].step = "idle"
        /\ \A p \in Tabs : p # q => tab'[p] = tab[p]
        BY <1>4, CloseEffect DEF SetPrimaryToken, CustomerInv, PrimaryInv
  <2>2. /\ tab[q].c \in Customers /\ tab[q].token \in Tokens
        /\ <<tab[q].c, Primary[tab[q].c], tab[q].token>> \in issued
        BY <1>4 DEF SetPrimaryToken, CustomerInv, PrimaryInv
  <2>3. primaryToken' = [primaryToken EXCEPT ![tab[q].c] = tab[q].token]
        /\ primaryVerified' = primaryVerified
        BY <1>4 DEF SetPrimaryToken
  <2> QED BY <1>1, <2>1, <2>2, <2>3 DEF CustomerInv, PrimaryInv, PrimaryMeansControl
<1>5. ASSUME LookupPrimary(q) PROVE PrimaryInv'
  <2>1. CASE Close(q)
    <3>1. /\ tab' \in [Tabs -> TabType] /\ tab'[q].step = "idle"
          /\ \A p \in Tabs : p # q => tab'[p] = tab[p]
          BY <2>1, CloseEffect DEF CustomerInv, PrimaryInv
    <3> QED BY <1>1, <1>5, <3>1 DEF LookupPrimary, CustomerInv, PrimaryInv, PrimaryMeansControl
  <2>2. CASE /\ tab[q].token \in dns[Primary[tab[q].c]]
             /\ Continue(q, "mark", tab[q].c, tab[q].token)
    <3> DEFINE c == tab[q].c
               t == tab[q].token
    <3>1. c \in Customers /\ t \in Tokens /\ <<c, Primary[c], t>> \in issued
          BY <1>5 DEF LookupPrimary, CustomerInv, PrimaryInv
    <3>2. PICK o \in Customers : <<o, Primary[c]>> \in Controls /\ <<o, Primary[c], t>> \in issued
          BY <2>2, <3>1, PrimaryAssumption DEF CustomerInv, ControlInv, DnsTokens
    <3>3. <<o, Primary[c], t>> = <<c, Primary[c], t>>
          BY <3>1, <3>2 DEF CustomerInv, ControlInv, TokensApart
    <3>4. <<c, Primary[c]>> \in Controls
          BY <3>2, <3>3
    <3>5. /\ tab' \in [Tabs -> TabType]
          /\ tab'[q].step = "mark" /\ tab'[q].c = c /\ tab'[q].token = t
          /\ \A p \in Tabs : p # q => tab'[p] = tab[p]
          BY <2>2, <3>1, ContinueEffect DEF CustomerInv, PrimaryInv
    <3>6. UNCHANGED <<primaryToken, primaryVerified>>
          BY <1>5 DEF LookupPrimary
    <3> HIDE DEF c, t
    <3> QED BY <1>1, <3>1, <3>4, <3>5, <3>6 DEF CustomerInv, PrimaryInv, PrimaryMeansControl
  <2> QED BY <1>5, <2>1, <2>2 DEF LookupPrimary
<1>6. ASSUME MarkPrimary(q) PROVE PrimaryInv'
  <2>1. /\ tab' \in [Tabs -> TabType] /\ tab'[q].step = "idle"
        /\ \A p \in Tabs : p # q => tab'[p] = tab[p]
        BY <1>6, CloseEffect DEF MarkPrimary, CustomerInv, PrimaryInv
  <2>2. tab[q].c \in Customers /\ <<tab[q].c, Primary[tab[q].c]>> \in Controls
        BY <1>6 DEF MarkPrimary, CustomerInv, PrimaryInv
  <2>3. primaryVerified' = primaryVerified \cup {tab[q].c} /\ primaryToken' = primaryToken
        BY <1>6 DEF MarkPrimary
  <2> QED BY <1>1, <2>1, <2>2, <2>3 DEF CustomerInv, PrimaryInv, PrimaryMeansControl
<1>7. PrimaryInv'
      BY <1>3, <1>4, <1>5, <1>6
<1> QED BY <1>2, <1>7 DEF CustomerInv

\* A login takes a domain that is verified at that moment; control is for good,
\* the row need not be.
LEMMA SessionKeeps ==
    ASSUME CustomerInv, (\E c \in Customers : LogIn(c)) \/ Quit
    PROVE  CustomerInv'
<1>1. UNCHANGED <<row, issued, dns, req, primaryToken, primaryVerified, tab>>
      BY DEF LogIn, Quit, vars, primaryVars
<1>2. ControlInv' /\ PrimaryInv'
      BY <1>1 DEF CustomerInv, ControlInv, TypeOK, TokensApart, RowTokens, DnsTokens, Requested,
                  VerifiedMeansControl, PrimaryInv, PrimaryMeansControl
<1>3. ASSUME Quit PROVE SessionMeansControl'
      BY <1>3 DEF Quit, NoSession, SessionMeansControl
<1>4. ASSUME NEW c \in Customers, LogIn(c) PROVE SessionMeansControl'
  <2>1. session'.c = c /\ (session'.n # None => session'.n \in Verified(c))
        BY <1>4 DEF LogIn
  <2>2. \A n \in Verified(c) : <<c, n>> \in Controls
        BY DEF Verified, Entry, CustomerInv, ControlInv, VerifiedMeansControl
  <2> QED BY <2>1, <2>2 DEF SessionMeansControl
<1>5. SessionMeansControl'
      BY <1>3, <1>4
<1> QED BY <1>2, <1>5 DEF CustomerInv

\* Both flows side by side on the same TXT names, and sessions that outlive them.
THEOREM CustomerHolds == CustomerSpec => []CustomerInv
<1>1. CustomerInv /\ [CustomerNext]_customerVars => CustomerInv'
  <2> SUFFICES ASSUME CustomerInv, [CustomerNext]_customerVars PROVE CustomerInv'
      OBVIOUS
  <2>1. ASSUME NEW q \in Tabs, PrimaryStep(q) PROVE CustomerInv'
        BY <2>1, InitPrimaryKeeps, PrimaryKeeps DEF PrimaryStep
  <2>2. CASE UNCHANGED customerVars
        BY <2>2 DEF customerVars, primaryVars, vars, CustomerInv, ControlInv, TypeOK, TokensApart,
                    RowTokens, DnsTokens, Requested, VerifiedMeansControl, PrimaryInv,
                    PrimaryMeansControl, SessionMeansControl
  <2> QED BY <2>1, <2>2, DomainStepKeeps, SessionKeeps DEF CustomerNext
<1> QED BY CustomerInitially, <1>1, PTL DEF CustomerSpec

\* The older flow verifies only who controls the domain the account was
\* registered with, though others publish tokens under the same name.
THEOREM PrimaryHolds == CustomerSpec => []PrimaryMeansControl
BY CustomerHolds, PTL DEF CustomerInv, PrimaryInv

\* An SMTP session sends only for a domain that its customer controls.
THEOREM SessionHolds == CustomerSpec => []SessionMeansControl
BY CustomerHolds, PTL DEF CustomerInv

\* The newer flow's rows stay backed by their customers' tokens beside the older.
THEOREM CustomerControlHolds == CustomerSpec => []ControlInv
BY CustomerHolds, PTL DEF CustomerInv
=============================================================================
