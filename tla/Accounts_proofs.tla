--------------------------- MODULE Accounts_proofs ---------------------------
(***************************************************************************)
(* Accounts for any number of browsers, people, tabs and callbacks: who is *)
(* signed in has granted it in that very browser, an identity and a domain *)
(* have one account, a conflict has a reason, a burnt attempt stays burnt  *)
(* and a customer is welcomed once.                                        *)
(***************************************************************************)
EXTENDS Accounts, TLAPS

\* Person i has granted a login under an attempt that began in browser b.
Own(b, i) == \/ \E g \in spent : g.who = i /\ startedBy[g.state] = b
             \/ <<b, i>> \in popups

\* The cookie a callback carries was started in its browser, which holds the
\* state nowhere but in the cookie that the answer removes.
CookieOk(c) == req[c].cookie # None =>
    /\ startedBy[req[c].cookie] = req[c].at
    /\ \A b \in Browsers, p \in Providers :
          jar[b][p] = req[c].cookie => b = req[c].at /\ p = Prov(c)

\* A callback past its check carries the state of its cookie.
StateOk(c) ==
    /\ req[c].state # None => [state |-> req[c].state, who |-> req[c].who] \in codes
    /\ req[c].pc \in {"check", "exchange"} => req[c].state # None
    /\ req[c].pc = "exchange" => req[c].cookie = req[c].state

\* Past the exchange it stands for a grant, and ends with that person's row.
OwnOk(c) ==
    /\ req[c].pc \in {"identify", "find", "guard", "insert"} \/ req[c].answer = "session" =>
          Own(req[c].at, req[c].who)
    /\ req[c].answer = "session" => req[c].id \in Ids /\ customers[req[c].id].sub = req[c].who

\* A row of its own can only have come after it looked for one.
ReasonOk(c) ==
    /\ req[c].rows <= Len(customers)
    /\ req[c].pc = "guard" \/ req[c].answer = "conflict" =>
          \A n \in RowsWith(req[c].who) : n > req[c].rows

PendingOk(c) == req[c].pc # "answered" => req[c].answer = "none" /\ req[c].isNew = FALSE

CallOk(c) == req[c].pc \in Steps =>
    /\ CookieOk(c) /\ StateOk(c) /\ OwnOk(c) /\ ReasonOk(c) /\ PendingOk(c)
    /\ req[c].late = FALSE

\* A cookie holds a state of its own browser, in one place, and no burnt one.
JarOk ==
    /\ \A s \in burnt : startedBy[s] # None
    /\ \A b \in Browsers, p \in Providers : jar[b][p] # None =>
         /\ startedBy[jar[b][p]] = b /\ jar[b][p] \notin burnt
         /\ \A q \in Providers : jar[b][q] = jar[b][p] => q = p

\* Call c inserted the row of person i and has not sent the welcome yet.
Welcomes(c, i) == \/ req[c].pc = "greet" /\ req[c].who = i
                  \/ req[c].pc \in Steps /\ req[c].isNew = TRUE /\ req[c].who = i

WelcomeOk ==
    /\ \A i \in Identities : mails[i] \in {0, 1} /\ (mails[i] = 1 => RowsWith(i) # {})
    /\ \A c \in Calls, i \in Identities : Welcomes(c, i) => mails[i] = 0 /\ RowsWith(i) # {}
    /\ \A c, d \in Calls, i \in Identities : Welcomes(c, i) /\ Welcomes(d, i) => c = d

SignedIn == \A b \in Browsers : session[b] # None => Own(b, CurrentCustomer(b).sub)

LoginInv ==
    /\ TypeOK /\ OneAccount /\ JarOk /\ WelcomeOk /\ SignedIn
    /\ \A c \in Calls : CallOk(c)
-----------------------------------------------------------------------------
CallType == Request \cup Greeting \cup {New, Done}

LEMMA Kinds ==
    ASSUME TypeOK, NEW c \in Calls
    PROVE  /\ req[c].pc \in Steps <=> req[c] \in Request
           /\ req[c].pc = "greet" => req[c] \in Greeting
           /\ req[c] \in {New, Done} => req[c].pc \in {"new", "done"}
<1>1. req[c] \in Request \/ req[c] \in Greeting \/ req[c] = New \/ req[c] = Done
      BY DEF TypeOK
<1>2. req[c] \in Request => req[c].pc \in Steps
      BY DEF Request
<1>3. req[c] \in Greeting => req[c].pc = "greet"
      BY DEF Greeting
<1>4. (req[c] = New => req[c].pc = "new") /\ (req[c] = Done => req[c].pc = "done")
      BY DEF New, Done
<1> QED BY <1>1, <1>2, <1>3, <1>4 DEF Steps

\* The fields of a request, one by one.
LEMMA Fields ==
    ASSUME NEW x \in Request
    PROVE  /\ x.pc \in Steps /\ x.at \in Browsers /\ x.who \in Identities
           /\ x.state \in States \cup {None} /\ x.cookie \in States \cup {None}
           /\ x.late \in BOOLEAN /\ x.rows \in Nat /\ x.id \in Nat /\ x.isNew \in BOOLEAN
           /\ x.answer \in {"none", "refused", "conflict", "session", "fault"}
BY DEF Request

\* What a request brought with it stays.
Same(c) == /\ req'[c].at = req[c].at /\ req'[c].who = req[c].who
           /\ req'[c].state = req[c].state /\ req'[c].cookie = req[c].cookie
           /\ req'[c].late = req[c].late

Others(c) == req' \in [Calls -> CallType] /\ \A d \in Calls \ {c} : req'[d] = req[d]

LEMMA GoEffect ==
    ASSUME TypeOK, NEW c \in Calls, req[c] \in Request, NEW pc \in Steps, Go(c, pc)
    PROVE  /\ req'[c] \in Request /\ req'[c].pc = pc /\ Same(c) /\ Others(c)
           /\ req'[c].rows = req[c].rows /\ req'[c].id = req[c].id
           /\ req'[c].isNew = req[c].isNew /\ req'[c].answer = req[c].answer
<1> DEFINE new == [req[c] EXCEPT !.pc = pc]
<1>1. new \in Request /\ new.pc = pc
      BY DEF Request
<1>2. /\ new.at = req[c].at /\ new.who = req[c].who /\ new.state = req[c].state
      /\ new.cookie = req[c].cookie /\ new.late = req[c].late /\ new.rows = req[c].rows
      /\ new.id = req[c].id /\ new.isNew = req[c].isNew /\ new.answer = req[c].answer
      BY DEF Request
<1>3. req' = [req EXCEPT ![c] = new]
      BY DEF Go
<1> HIDE DEF new
<1> QED BY <1>1, <1>2, <1>3 DEF TypeOK, CallType, Same, Others

LEMMA EndsEffect ==
    ASSUME TypeOK, NEW c \in Calls, req[c] \in Request,
           NEW answer \in {"refused", "conflict", "session", "fault"}, Ends(c, answer)
    PROVE  /\ req'[c] \in Request /\ req'[c].pc = "answered" /\ Same(c) /\ Others(c)
           /\ req'[c].rows = req[c].rows /\ req'[c].id = req[c].id
           /\ req'[c].isNew = req[c].isNew /\ req'[c].answer = answer
<1> DEFINE new == [req[c] EXCEPT !.pc = "answered", !.answer = answer]
<1>1. new \in Request /\ new.pc = "answered" /\ new.answer = answer
      BY DEF Request, Steps
<1>2. /\ new.at = req[c].at /\ new.who = req[c].who /\ new.state = req[c].state
      /\ new.cookie = req[c].cookie /\ new.late = req[c].late /\ new.rows = req[c].rows
      /\ new.id = req[c].id /\ new.isNew = req[c].isNew
      BY DEF Request
<1>3. req' = [req EXCEPT ![c] = new]
      BY DEF Ends, TypeOK
<1> HIDE DEF new
<1> QED BY <1>1, <1>2, <1>3 DEF TypeOK, CallType, Same, Others

LEMMA LogsInEffect ==
    ASSUME TypeOK, NEW c \in Calls, req[c] \in Request, NEW n \in Nat, NEW isNew \in BOOLEAN,
           LogsIn(c, n, isNew)
    PROVE  /\ req'[c] \in Request /\ req'[c].pc = "answered" /\ Same(c) /\ Others(c)
           /\ req'[c].rows = req[c].rows /\ req'[c].id = n
           /\ req'[c].isNew = isNew /\ req'[c].answer = "session"
<1> DEFINE new == [req[c] EXCEPT !.pc = "answered", !.answer = "session", !.id = n, !.isNew = isNew]
<1>1. new \in Request /\ new.pc = "answered" /\ new.answer = "session"
      BY DEF Request, Steps
<1>2. /\ new.at = req[c].at /\ new.who = req[c].who /\ new.state = req[c].state
      /\ new.cookie = req[c].cookie /\ new.late = req[c].late /\ new.rows = req[c].rows
      /\ new.id = n /\ new.isNew = isNew
      BY DEF Request
<1>3. req' = [req EXCEPT ![c] = new]
      BY DEF LogsIn, TypeOK
<1> HIDE DEF new
<1> QED BY <1>1, <1>2, <1>3 DEF TypeOK, CallType, Same, Others
-----------------------------------------------------------------------------
\* What every step does to the past: rows are appended, grants are kept, and a
\* state has one browser for good.
Grows ==
    /\ Len(customers) <= Len(customers') /\ \A n \in Ids : customers'[n] = customers[n]
    /\ \A s \in States : startedBy[s] # None => startedBy'[s] = startedBy[s]
    /\ spent \subseteq spent' /\ popups \subseteq popups' /\ codes \subseteq codes'

\* Cookies are kept, removed, or replaced by a state that nobody had.
JarMoves == \A b \in Browsers, p \in Providers :
    jar'[b][p] \in {jar[b][p], None} \/ (jar'[b][p] \in States /\ startedBy[jar'[b][p]] = None)

LEMMA OwnGrows ==
    ASSUME TypeOK, Grows, NEW b \in Browsers, NEW i, Own(b, i)
    PROVE  Own(b, i)'
<1>1. CASE \E g \in spent : g.who = i /\ startedBy[g.state] = b
  <2>1. PICK g \in spent : g.who = i /\ startedBy[g.state] = b
        BY <1>1
  <2>2. g.state \in States /\ b # None
        BY <2>1, AccountsAssumption DEF TypeOK, Grant
  <2>3. g \in spent' /\ startedBy'[g.state] = b
        BY <2>1, <2>2 DEF Grows
  <2> QED BY <2>1, <2>3 DEF Own
<1>2. CASE <<b, i>> \in popups
      BY <1>2 DEF Grows, Own
<1> QED BY <1>1, <1>2 DEF Own

\* The calls that a step leaves alone stay in order.
LEMMA Frame ==
    ASSUME TypeOK, Grows, JarMoves, NEW d \in Calls, CallOk(d), req'[d] = req[d],
           Len(customers) \in Nat, Len(customers') \in Nat
    PROVE  CallOk(d)'
<1> SUFFICES ASSUME req[d].pc \in Steps
             PROVE  /\ CookieOk(d)' /\ StateOk(d)' /\ OwnOk(d)' /\ ReasonOk(d)' /\ PendingOk(d)'
                    /\ req'[d].late = FALSE
    BY DEF CallOk
<1>1. req[d] \in Request
      BY Kinds
<1>2. /\ req[d].at \in Browsers /\ req[d].cookie \in States \cup {None}
      /\ req[d].rows \in Nat /\ req[d].at # None
      BY <1>1, Fields, AccountsAssumption
<1>3. CookieOk(d)'
  <2> SUFFICES ASSUME req[d].cookie # None
               PROVE  /\ startedBy'[req[d].cookie] = req[d].at
                      /\ \A b \in Browsers, p \in Providers :
                           jar'[b][p] = req[d].cookie => b = req[d].at /\ p = Prov(d)
      BY DEF CookieOk, Prov
  <2>1. startedBy[req[d].cookie] = req[d].at /\ req[d].cookie \in States
        BY <1>2 DEF CallOk, CookieOk
  <2>2. startedBy'[req[d].cookie] = req[d].at
        BY <1>2, <2>1 DEF Grows
  <2>3. ASSUME NEW b \in Browsers, NEW p \in Providers, jar'[b][p] = req[d].cookie
        PROVE  b = req[d].at /\ p = Prov(d)
    <3>1. jar'[b][p] = jar[b][p]
          BY <1>2, <2>1, <2>3 DEF JarMoves
    <3> QED BY <2>3, <3>1 DEF CallOk, CookieOk
  <2> QED BY <2>2, <2>3
<1>4. StateOk(d)'
      BY DEF CallOk, StateOk, Grows
<1>5. OwnOk(d)'
  <2>1. req[d].pc \in {"identify", "find", "guard", "insert"} \/ req[d].answer = "session" =>
          Own(req[d].at, req[d].who)'
        BY <1>2, OwnGrows DEF CallOk, OwnOk
  <2>2. req[d].answer = "session" => req[d].id \in Ids' /\ customers'[req[d].id].sub = req[d].who
        BY DEF CallOk, OwnOk, Ids, Grows
  <2> QED BY <2>1, <2>2 DEF OwnOk
<1>6. ReasonOk(d)'
  <2>1. req[d].rows <= Len(customers')
        BY <1>2 DEF CallOk, ReasonOk, Grows
  <2>2. ASSUME req[d].pc = "guard" \/ req[d].answer = "conflict",
               NEW n \in Ids', customers'[n].sub = req[d].who
        PROVE  n > req[d].rows
    <3>1. CASE n \in Ids
          BY <2>2, <3>1 DEF CallOk, ReasonOk, RowsWith, Grows
    <3>2. CASE n \notin Ids
          BY <1>2, <2>2, <3>2 DEF CallOk, ReasonOk, Ids
    <3> QED BY <3>1, <3>2
  <2> QED BY <2>1, <2>2 DEF ReasonOk, RowsWith
<1>7. PendingOk(d)' /\ req'[d].late = FALSE
      BY DEF CallOk, PendingOk
<1> QED BY <1>3, <1>4, <1>5, <1>6, <1>7

\* A step of one call that changes neither the table nor a browser.
Quiet == /\ UNCHANGED <<customers, jar, session, startedBy, codes, burnt, mails>>
         /\ spent \subseteq spent' /\ popups \subseteq popups'

LEMMA LenNat == ASSUME TypeOK PROVE Len(customers) \in Nat
BY DEF TypeOK

LEMMA QuietKeeps ==
    ASSUME LoginInv, NEW c \in Calls, Quiet, Others(c), CallOk(c)',
           expired' \subseteq States, spent' \subseteq codes, popups' \subseteq Browsers \X Identities,
           \A i \in Identities : Welcomes(c, i)' => Welcomes(c, i)
    PROVE  LoginInv'
<1>1. Grows /\ JarMoves
      BY LenNat DEF Quiet, Grows, JarMoves, LoginInv
<1>2. TypeOK'
      BY DEF LoginInv, TypeOK, Quiet, Others, CallType, Ids
<1>3. OneAccount' /\ JarOk'
      BY DEF LoginInv, OneAccount, JarOk, Quiet, Ids
<1>4. WelcomeOk'
  <2>1. \A d \in Calls, i \in Identities : Welcomes(d, i)' => Welcomes(d, i)
        BY DEF Others, Welcomes
  <2>2. mails' = mails /\ \A i \in Identities : RowsWith(i)' = RowsWith(i)
        BY DEF Quiet, RowsWith, Ids
  <2> QED BY <2>1, <2>2 DEF LoginInv, WelcomeOk
<1>5. SignedIn'
  <2>1. \A b \in Browsers : session'[b] = session[b] /\ CurrentCustomer(b)' = CurrentCustomer(b)
        BY DEF Quiet, CurrentCustomer
  <2> QED BY <1>1, <2>1, OwnGrows DEF LoginInv, SignedIn
<1>6. \A d \in Calls : CallOk(d)'
      BY <1>1, Frame, LenNat DEF LoginInv, Others, Quiet
<1> QED BY <1>2, <1>3, <1>4, <1>5, <1>6 DEF LoginInv
-----------------------------------------------------------------------------
\* A callback goes on to a later step, or ends.
LEMMA MoveKeeps ==
    ASSUME LoginInv, NEW c \in Calls, req[c] \in Request, Quiet, Others(c), Same(c),
           req'[c] \in Request, req'[c].isNew = FALSE,
           expired' = expired, spent' \subseteq codes, popups' = popups,
           StateOk(c)', OwnOk(c)', ReasonOk(c)', PendingOk(c)'
    PROVE  LoginInv'
<1>1. req[c].pc \in Steps /\ CallOk(c)
      BY Kinds DEF LoginInv
<1>2. CookieOk(c)'
      BY <1>1 DEF CallOk, CookieOk, Same, Quiet, Prov
<1>3. CallOk(c)'
      BY <1>1, <1>2 DEF CallOk, Same
<1>4. req'[c].pc \in Steps
      BY Fields
<1>5. \A i \in Identities : ~Welcomes(c, i)'
      BY <1>4 DEF Welcomes, Steps
<1> QED BY <1>3, <1>5, QuietKeeps DEF LoginInv, TypeOK

LEMMA RefusesKeeps ==
    ASSUME LoginInv, NEW c \in Calls, req[c] \in Request, req[c].pc # "answered", Quiet,
           expired' = expired, spent' \subseteq codes, popups' = popups,
           Ends(c, "refused") \/ Ends(c, "fault")
    PROVE  LoginInv'
<1>1. TypeOK /\ CallOk(c) /\ req[c].pc \in Steps
      BY Kinds DEF LoginInv
<1>2. /\ req'[c] \in Request /\ req'[c].pc = "answered" /\ Same(c) /\ Others(c)
      /\ req'[c].rows = req[c].rows /\ req'[c].isNew = req[c].isNew
      /\ req'[c].answer \in {"refused", "fault"}
      BY <1>1, EndsEffect
<1>3. StateOk(c)' /\ OwnOk(c)' /\ ReasonOk(c)' /\ PendingOk(c)'
      BY <1>1, <1>2 DEF CallOk, StateOk, OwnOk, ReasonOk, PendingOk, Same, Quiet
<1>4. req'[c].isNew = FALSE
      BY <1>1, <1>2 DEF CallOk, PendingOk
<1> QED BY <1>2, <1>3, <1>4, MoveKeeps

LEMMA GoesOnKeeps ==
    ASSUME LoginInv, NEW c \in Calls, req[c] \in Request, req[c].pc # "answered", Quiet,
           expired' = expired, spent' \subseteq codes, popups' = popups,
           NEW pc \in {"exchange", "identify", "find", "insert"}, Go(c, pc),
           pc = "exchange" => req[c].state # None /\ req[c].cookie = req[c].state,
           pc # "exchange" => Own(req[c].at, req[c].who)'
    PROVE  LoginInv'
<1>0. TypeOK /\ CallOk(c) /\ pc \in Steps
      BY DEF LoginInv, Steps
<1>1. req[c].pc \in Steps
      BY <1>0, Kinds
<1>2. /\ req'[c] \in Request /\ req'[c].pc = pc /\ Same(c) /\ Others(c)
      /\ req'[c].rows = req[c].rows /\ req'[c].id = req[c].id
      /\ req'[c].isNew = req[c].isNew /\ req'[c].answer = req[c].answer
      BY <1>0, GoEffect
<1>3. StateOk(c)' /\ ReasonOk(c)' /\ PendingOk(c)'
      BY <1>0, <1>1, <1>2 DEF CallOk, StateOk, ReasonOk, PendingOk, Same, Quiet
<1>4. OwnOk(c)'
  <2>1. req'[c].answer = "none"
        BY <1>0, <1>1, <1>2 DEF CallOk, PendingOk
  <2> QED BY <1>2, <2>1 DEF OwnOk
<1>5. req'[c].isNew = FALSE
      BY <1>0, <1>1, <1>2 DEF CallOk, PendingOk
<1> QED BY <1>2, <1>3, <1>4, <1>5, MoveKeeps

LEMMA CheckKeeps == ASSUME LoginInv, NEW c \in Calls, CheckGoogle(c) \/ CheckMicrosoft(c)
                    PROVE  LoginInv'
<1>1. req[c].pc = "check" /\ CheckState(c) /\ CallOk(c)
      BY DEF CheckGoogle, CheckMicrosoft, LoginInv
<1>2. req[c] \in Request /\ req[c].pc \in Steps
      BY <1>1, Kinds DEF LoginInv, Steps
<1>3. Quiet /\ expired' = expired /\ spent' \subseteq codes /\ popups' = popups
      BY <1>1 DEF CheckState, Quiet, cookies, provider, LoginInv, TypeOK
<1>4. CASE req[c].cookie = req[c].state /\ Go(c, "exchange")
  <2>1. req[c].state # None
        BY <1>1, <1>2 DEF CallOk, StateOk
  <2> QED BY <1>1, <1>2, <1>3, <1>4, <2>1, GoesOnKeeps
<1>5. CASE Ends(c, "refused")
      BY <1>1, <1>2, <1>3, <1>5, RefusesKeeps
<1> QED BY <1>1, <1>4, <1>5 DEF CheckState

LEMMA ExchangeKeeps == ASSUME LoginInv, NEW c \in Calls, ExchangeGoogle(c) \/ ExchangeMicrosoft(c)
                       PROVE  LoginInv'
<1> DEFINE g == [state |-> req[c].state, who |-> req[c].who]
<1>1. req[c].pc = "exchange" /\ Exchange(c) /\ CallOk(c)
      BY DEF ExchangeGoogle, ExchangeMicrosoft, LoginInv
<1>2. req[c] \in Request /\ req[c].pc \in Steps
      BY <1>1, Kinds DEF LoginInv, Steps
<1>3. req[c].state # None /\ g \in codes /\ startedBy[req[c].state] = req[c].at
      BY <1>1, <1>2 DEF CallOk, StateOk, CookieOk
<1>4. Quiet /\ expired' = expired /\ spent' \subseteq codes /\ popups' = popups
      BY <1>1, <1>3 DEF Exchange, Quiet, cookies, LoginInv, TypeOK
<1>5. CASE spent' = spent \cup {g} /\ Go(c, "identify")
  <2>1. g \in spent' /\ g.who = req[c].who /\ startedBy'[g.state] = req[c].at
        BY <1>3, <1>4, <1>5 DEF Quiet
  <2>2. \E h \in spent' : h.who = req[c].who /\ startedBy'[h.state] = req[c].at
        BY <2>1
  <2>3. Own(req[c].at, req[c].who)'
    <3>1. req'[c].at = req[c].at /\ req'[c].who = req[c].who
          BY <1>2, <1>5, GoEffect DEF LoginInv, Same, Steps
    <3> QED BY <2>2, <3>1 DEF Own
  <2> QED BY <1>1, <1>2, <1>4, <1>5, <2>3, GoesOnKeeps
<1>6. CASE Ends(c, "refused") \/ Ends(c, "fault")
      BY <1>1, <1>2, <1>4, <1>6, RefusesKeeps
<1> QED BY <1>1, <1>5, <1>6 DEF Exchange

LEMMA IdentifyKeeps == ASSUME LoginInv, NEW c \in Calls, VerifyGoogle(c) \/ UserInfo(c)
                       PROVE  LoginInv'
<1>1. /\ req[c].pc = "identify" /\ CallOk(c)
      /\ UNCHANGED <<customers, cookies, provider, burnt, popups, mails>>
      BY DEF VerifyGoogle, UserInfo, LoginInv
<1>2. req[c] \in Request /\ req[c].pc \in Steps
      BY <1>1, Kinds DEF LoginInv, Steps
<1>3. Quiet /\ expired' = expired /\ spent' \subseteq codes /\ popups' = popups
      BY <1>1 DEF Quiet, cookies, provider, LoginInv, TypeOK
<1>4. CASE Go(c, "find")
  <2>1. req'[c].at = req[c].at /\ req'[c].who = req[c].who
        BY <1>2, <1>4, GoEffect DEF LoginInv, Same, Steps
  <2>2. Own(req[c].at, req[c].who)
        BY <1>1, <1>2 DEF CallOk, OwnOk
  <2>3. Own(req[c].at, req[c].who)'
        BY <1>1, <2>1, <2>2 DEF Own, provider
  <2> QED BY <1>1, <1>2, <1>3, <1>4, <2>3, GoesOnKeeps
<1>5. CASE Ends(c, "refused") \/ Ends(c, "fault")
      BY <1>1, <1>2, <1>3, <1>5, RefusesKeeps
<1> QED BY <1>4, <1>5 DEF VerifyGoogle, UserInfo

LEMMA FailsKeeps == ASSUME LoginInv, NEW c \in Calls, Fails(c) PROVE LoginInv'
<1>1. /\ req[c].pc \in {"find", "guard", "insert"} /\ Ends(c, "fault")
      /\ UNCHANGED <<customers, cookies, provider, burnt, popups, mails>>
      BY DEF Fails
<1>2. req[c] \in Request
      BY <1>1, Kinds DEF LoginInv, Steps
<1>3. Quiet /\ expired' = expired /\ spent' \subseteq codes /\ popups' = popups
      BY <1>1 DEF Quiet, cookies, provider, LoginInv, TypeOK
<1> QED BY <1>1, <1>2, <1>3, RefusesKeeps

LEMMA FindKeeps == ASSUME LoginInv, NEW c \in Calls, FindBySub(c) PROVE LoginInv'
<1>1. /\ req[c].pc = "find" /\ CallOk(c) /\ TypeOK
      /\ UNCHANGED <<customers, cookies, provider, burnt, popups, mails>>
      BY DEF FindBySub, LoginInv
<1>2. req[c] \in Request /\ req[c].pc \in Steps
      BY <1>1, Kinds DEF Steps
<1>3. Quiet /\ expired' = expired /\ spent' \subseteq codes /\ popups' = popups
      BY <1>1 DEF Quiet, cookies, provider, TypeOK
<1>4. Own(req[c].at, req[c].who) /\ req[c].answer = "none" /\ req[c].isNew = FALSE
      /\ StateOk(c) /\ ReasonOk(c)
      BY <1>1, <1>2 DEF CallOk, OwnOk, PendingOk
<1>5. ASSUME NEW n \in RowsWith(Subject(c)), LogsIn(c, n, FALSE) PROVE LoginInv'
  <2>1. n \in Ids /\ n \in Nat /\ customers[n].sub = req[c].who
        BY <1>1, <1>5, LenNat DEF RowsWith, Ids, Subject
  <2>2. /\ req'[c] \in Request /\ req'[c].pc = "answered" /\ Same(c) /\ Others(c)
        /\ req'[c].rows = req[c].rows /\ req'[c].id = n
        /\ req'[c].isNew = FALSE /\ req'[c].answer = "session"
        BY <1>1, <1>2, <1>5, <2>1, LogsInEffect
  <2>3. Own(req[c].at, req[c].who)'
        BY <1>1, <1>4, <2>2 DEF Own, Same, provider
  <2>4. OwnOk(c)'
        BY <1>3, <2>1, <2>2, <2>3 DEF OwnOk, Quiet, Ids, Same
  <2>5. StateOk(c)' /\ ReasonOk(c)' /\ PendingOk(c)'
        BY <1>3, <1>4, <2>2 DEF StateOk, ReasonOk, PendingOk, Quiet, Same
  <2> QED BY <1>2, <1>3, <2>2, <2>4, <2>5, MoveKeeps
<1>6. CASE /\ RowsWith(Subject(c)) = {}
           /\ req' = [req EXCEPT ![c].pc = "guard", ![c].rows = Len(customers)]
  <2> DEFINE new == [req[c] EXCEPT !.pc = "guard", !.rows = Len(customers)]
  <2>1. new \in Request /\ new.pc = "guard" /\ new.rows = Len(customers)
        BY <1>1, <1>2, LenNat DEF Request, Steps
  <2>2. /\ new.at = req[c].at /\ new.who = req[c].who /\ new.state = req[c].state
        /\ new.cookie = req[c].cookie /\ new.late = req[c].late
        /\ new.id = req[c].id /\ new.isNew = req[c].isNew /\ new.answer = req[c].answer
        BY <1>2 DEF Request
  <2>3. req' = [req EXCEPT ![c] = new]
        BY <1>1, <1>6 DEF TypeOK
  <2> HIDE DEF new
  <2>4. /\ req'[c] \in Request /\ req'[c].pc = "guard" /\ Same(c) /\ Others(c)
        /\ req'[c].rows = Len(customers) /\ req'[c].isNew = FALSE /\ req'[c].answer = "none"
        BY <1>1, <1>4, <2>1, <2>2, <2>3 DEF TypeOK, CallType, Same, Others
  <2>5. Own(req[c].at, req[c].who)'
        BY <1>1, <1>4, <2>4 DEF Own, Same, provider
  <2>6. OwnOk(c)' /\ StateOk(c)' /\ PendingOk(c)'
        BY <1>3, <1>4, <2>4, <2>5 DEF OwnOk, StateOk, PendingOk, Quiet, Same
  <2>7. ReasonOk(c)'
    <3>1. customers' = customers /\ Len(customers) \in Nat /\ req'[c].who = req[c].who
          BY <1>1, <2>4, LenNat DEF Same
    <3>2. RowsWith(req[c].who)' = {}
      <4>1. \A n \in Ids : customers[n].sub # req[c].who
            BY <1>6 DEF RowsWith, Subject
      <4>2. \A n \in Ids' : customers'[n].sub # req'[c].who
            BY <3>1, <4>1 DEF Ids
      <4> QED BY <4>2 DEF RowsWith
    <3>3. req'[c].rows <= Len(customers')
          BY <2>4, <3>1
    <3> QED BY <3>2, <3>3 DEF ReasonOk
  <2> QED BY <1>2, <1>3, <2>4, <2>6, <2>7, MoveKeeps
<1> QED BY <1>5, <1>6 DEF FindBySub

LEMMA GuardKeeps == ASSUME LoginInv, NEW c \in Calls, GuardDomain(c) \/ GuardEmail(c)
                    PROVE  LoginInv'
<1>1. /\ req[c].pc = "guard" /\ CallOk(c) /\ TypeOK
      /\ UNCHANGED <<customers, cookies, provider, burnt, popups, mails>>
      BY DEF GuardDomain, GuardEmail, LoginInv
<1>2. req[c] \in Request /\ req[c].pc \in Steps
      BY <1>1, Kinds DEF Steps
<1>3. Quiet /\ expired' = expired /\ spent' \subseteq codes /\ popups' = popups
      BY <1>1 DEF Quiet, cookies, provider, TypeOK
<1>4. CASE Ends(c, "conflict")
  <2>1. /\ req'[c] \in Request /\ req'[c].pc = "answered" /\ Same(c) /\ Others(c)
        /\ req'[c].rows = req[c].rows /\ req'[c].isNew = req[c].isNew
        /\ req'[c].answer = "conflict"
        BY <1>1, <1>2, <1>4, EndsEffect
  <2>2. StateOk(c)' /\ OwnOk(c)' /\ PendingOk(c)' /\ req'[c].isNew = FALSE
        BY <1>1, <1>2, <1>3, <2>1 DEF CallOk, StateOk, OwnOk, PendingOk, Quiet, Same
  <2>3. ReasonOk(c)'
        BY <1>1, <1>2, <1>3, <2>1 DEF CallOk, ReasonOk, RowsWith, Ids, Quiet, Same
  <2> QED BY <1>2, <1>3, <2>1, <2>2, <2>3, MoveKeeps
<1>5. CASE Go(c, "insert")
  <2>1. req'[c].at = req[c].at /\ req'[c].who = req[c].who
        BY <1>1, <1>2, <1>5, GoEffect DEF Same, Steps
  <2>2. Own(req[c].at, req[c].who)
        BY <1>1, <1>2 DEF CallOk, OwnOk
  <2>3. Own(req[c].at, req[c].who)'
        BY <1>1, <2>1, <2>2 DEF Own, provider
  <2> QED BY <1>1, <1>2, <1>3, <1>5, <2>3, GoesOnKeeps
<1> QED BY <1>4, <1>5 DEF GuardDomain, GuardEmail, Conflicts

\* A call arrives: its cookie is the browser's, and a popup's token was granted there.
LEMMA ArrivesKeeps ==
    ASSUME LoginInv, NEW c \in Calls, req[c] = New, NEW new \in Request,
           req' = [req EXCEPT ![c] = new], Quiet, expired' = expired, spent' = spent,
           popups' \subseteq Browsers \X Identities,
           new.pc # "answered", new.answer = "none", new.isNew = FALSE, new.rows = 0, new.late = FALSE,
           CookieOk(c)', StateOk(c)', OwnOk(c)'
    PROVE  LoginInv'
<1>1. req'[c] = new /\ Others(c) /\ TypeOK
      BY DEF LoginInv, TypeOK, Others, CallType
<1>2. new.pc \in Steps
      BY Fields
<1>3. ReasonOk(c)' /\ PendingOk(c)'
  <2>1. Len(customers') >= 0 /\ \A n \in Ids' : n > 0
        BY <1>1, LenNat DEF Quiet, Ids
  <2> QED BY <1>1, <2>1 DEF ReasonOk, PendingOk, RowsWith
<1>4. CallOk(c)'
      BY <1>1, <1>3 DEF CallOk
<1>5. \A i \in Identities : ~Welcomes(c, i)'
      BY <1>1, <1>2 DEF Welcomes, Steps
<1> QED BY <1>1, <1>4, <1>5, QuietKeeps DEF LoginInv, TypeOK

LEMMA PopupKeeps ==
    ASSUME LoginInv, NEW c \in Calls, NEW b \in Browsers, NEW i \in Identities, Popup(c, b, i)
    PROVE  LoginInv'
<1> DEFINE new == [pc |-> "identify", at |-> b, who |-> i, state |-> None,
                   cookie |-> None, late |-> FALSE,
                   rows |-> 0, id |-> 0, isNew |-> FALSE, answer |-> "none"]
<1>1. /\ req[c] = New /\ req' = [req EXCEPT ![c] = new] /\ popups' = popups \cup {<<b, i>>}
      /\ UNCHANGED <<customers, cookies, provider, burnt, mails>>
      BY DEF Popup
<1>2. new \in Request
      BY DEF Request, Steps
<1>3. /\ new.pc = "identify" /\ new.at = b /\ new.who = i /\ new.state = None /\ new.cookie = None
      /\ new.late = FALSE /\ new.rows = 0 /\ new.isNew = FALSE /\ new.answer = "none"
      OBVIOUS
<1> HIDE DEF new
<1>4. Quiet /\ expired' = expired /\ spent' = spent /\ popups' \subseteq Browsers \X Identities
      BY <1>1 DEF Quiet, cookies, provider, LoginInv, TypeOK
<1>5. req'[c] = new
      BY <1>1 DEF LoginInv, TypeOK
<1>6. CookieOk(c)' /\ StateOk(c)'
      BY <1>3, <1>5 DEF CookieOk, StateOk
<1>7. OwnOk(c)'
      BY <1>1, <1>3, <1>5 DEF OwnOk, Own
<1> QED BY <1>1, <1>2, <1>3, <1>4, <1>6, <1>7, ArrivesKeeps

LEMMA CallbackKeeps ==
    ASSUME LoginInv, NEW c \in Calls, NEW b \in Browsers, NEW g \in codes, Callback(c, b, g)
    PROVE  LoginInv'
<1> DEFINE p == ProviderOf[g.who]
           new == [pc |-> "check", at |-> b, who |-> g.who, state |-> g.state,
                   cookie |-> jar[b][p], late |-> jar[b][p] \in burnt,
                   rows |-> 0, id |-> 0, isNew |-> FALSE, answer |-> "none"]
<1>1. /\ req[c] = New /\ req' = [req EXCEPT ![c] = new]
      /\ UNCHANGED <<customers, cookies, provider, burnt, popups, mails>>
      BY DEF Callback
<1>2. g.who \in Identities /\ g.state \in States /\ p \in Providers
      /\ g = [state |-> g.state, who |-> g.who] /\ jar[b][p] \in States \cup {None}
      BY AccountsAssumption DEF LoginInv, TypeOK, Grant
<1>3. new \in Request
      BY <1>2 DEF Request, Steps
<1>4. (jar[b][p] \in burnt) = FALSE
      BY <1>2, AccountsAssumption DEF LoginInv, JarOk, TypeOK
<1>5. /\ new.pc = "check" /\ new.at = b /\ new.who = g.who /\ new.state = g.state
      /\ new.cookie = jar[b][p] /\ new.late = FALSE /\ new.rows = 0 /\ new.isNew = FALSE
      /\ new.answer = "none"
      BY <1>4
<1> HIDE DEF new
<1>6. Quiet /\ expired' = expired /\ spent' = spent /\ popups' \subseteq Browsers \X Identities
      BY <1>1 DEF Quiet, cookies, provider, LoginInv, TypeOK
<1>7. req'[c] = new
      BY <1>1 DEF LoginInv, TypeOK
<1>8. CookieOk(c)'
  <2> SUFFICES ASSUME jar[b][p] # None
               PROVE  /\ startedBy[jar[b][p]] = b
                      /\ \A a \in Browsers, q \in Providers : jar[a][q] = jar[b][p] => a = b /\ q = p
      BY <1>5, <1>6, <1>7 DEF CookieOk, Quiet, Prov
  <2>1. startedBy[jar[b][p]] = b
        BY <1>2 DEF LoginInv, JarOk
  <2>2. ASSUME NEW a \in Browsers, NEW q \in Providers, jar[a][q] = jar[b][p]
        PROVE  a = b /\ q = p
    <3>1. startedBy[jar[a][q]] = a
          BY <2>2 DEF LoginInv, JarOk
    <3>2. a = b
          BY <2>1, <2>2, <3>1
    <3> QED BY <1>2, <2>2, <3>2 DEF LoginInv, JarOk
  <2> QED BY <2>1, <2>2
<1>9. StateOk(c)'
      BY <1>2, <1>5, <1>6, <1>7, AccountsAssumption DEF StateOk, Quiet
<1>10. OwnOk(c)'
      BY <1>5, <1>7 DEF OwnOk
<1> QED BY <1>1, <1>3, <1>5, <1>6, <1>8, <1>9, <1>10, ArrivesKeeps

\* The insert: the unique columns keep the table in order, and nobody has
\* welcomed the new customer yet.
LEMMA CreateKeeps ==
    ASSUME LoginInv, NEW c \in Calls, req[c].pc = "insert", Unique(Subject(c)),
           NEW row \in Row, row.sub = Subject(c), row.domain = DomainOf[Subject(c)],
           customers' = Append(customers, row), LogsIn(c, Len(customers) + 1, TRUE),
           UNCHANGED <<cookies, provider, burnt, popups, mails>>
    PROVE  LoginInv'
<1> DEFINE new == Len(customers) + 1
<1>1. TypeOK /\ CallOk(c) /\ Len(customers) \in Nat /\ customers \in Seq(Row) /\ new \in Nat
      /\ new = Len(customers) + 1
      BY LenNat DEF LoginInv, TypeOK
<1> HIDE DEF new
<1>2. req[c] \in Request /\ req[c].pc \in Steps /\ Subject(c) \in Identities
      BY <1>1, Kinds, Fields DEF Steps, Subject
<1>3. /\ req'[c] \in Request /\ req'[c].pc = "answered" /\ Same(c) /\ Others(c)
      /\ req'[c].rows = req[c].rows /\ req'[c].id = new
      /\ req'[c].isNew = TRUE /\ req'[c].answer = "session"
      BY <1>1, <1>2, LogsInEffect
<1>4. /\ Len(customers') = new /\ customers'[new] = row
      /\ \A n \in Ids : customers'[n] = customers[n]
      /\ Ids' = Ids \cup {new} /\ new \notin Ids /\ customers' \in Seq(Row)
      BY <1>1 DEF Ids
<1>5. /\ UNCHANGED <<jar, session, startedBy, codes, spent, expired, burnt, popups, mails>>
      BY DEF cookies, provider
<1>6. Grows /\ JarMoves
  <2>1. Len(customers) <= Len(customers')
        BY <1>1, <1>4
  <2>2. spent \subseteq spent' /\ popups \subseteq popups' /\ codes \subseteq codes'
        BY <1>5
  <2> QED BY <1>4, <1>5, <2>1, <2>2 DEF Grows, JarMoves
<1>7. TypeOK'
      BY <1>1, <1>3, <1>4, <1>5 DEF TypeOK, Others, CallType
<1>8. OneAccount'
  <2>1. \A n \in Ids : customers'[n].sub # row.sub /\ customers'[n].domain # row.domain
        BY <1>4 DEF Unique
  <2>2. \A m, n \in Ids : m # n => /\ customers[m].sub # customers[n].sub
                                  /\ customers[m].domain # customers[n].domain
        BY DEF LoginInv, OneAccount
  <2>3. ASSUME NEW m \in Ids', NEW n \in Ids', m # n
        PROVE  customers'[m].sub # customers'[n].sub /\ customers'[m].domain # customers'[n].domain
    <3>1. CASE m \in Ids /\ n \in Ids
          BY <1>4, <2>2, <2>3, <3>1
    <3>2. CASE m = new
          BY <1>4, <2>1, <2>3, <3>2
    <3>3. CASE n = new
          BY <1>4, <2>1, <2>3, <3>3
    <3> QED BY <1>4, <2>3, <3>1, <3>2, <3>3
  <2> QED BY <2>3 DEF OneAccount
<1>9. JarOk'
      BY <1>5 DEF LoginInv, JarOk
<1>10. SignedIn'
  <2>1. ASSUME NEW b \in Browsers, session'[b] # None
        PROVE  Own(b, CurrentCustomer(b).sub)'
    <3>1. session[b] \in Ids /\ session'[b] = session[b]
          BY <1>1, <1>5, <2>1 DEF TypeOK
    <3>2. CurrentCustomer(b)' = CurrentCustomer(b)
          BY <1>4, <3>1 DEF CurrentCustomer
    <3>3. Own(b, CurrentCustomer(b).sub)
          BY <2>1, <3>1 DEF LoginInv, SignedIn
    <3> QED BY <1>5, <3>2, <3>3 DEF Own
  <2> QED BY <2>1 DEF SignedIn
<1>11. ASSUME NEW i \in Identities PROVE RowsWith(i) # {} => RowsWith(i)' # {}
      BY <1>4 DEF RowsWith
<1>12. RowsWith(Subject(c)) = {}
      BY DEF Unique, RowsWith
<1>13. ASSUME NEW d \in Calls, NEW i \in Identities, Welcomes(d, i)'
       PROVE  IF d = c THEN i = Subject(c) ELSE Welcomes(d, i)
  <2>1. CASE d = c
        BY <1>3, <1>13, <2>1 DEF Welcomes, Same, Subject, Steps
  <2>2. CASE d # c
        BY <1>3, <1>13, <2>2 DEF Welcomes, Others
  <2> QED BY <2>1, <2>2
<1>14. \A d \in Calls : ~Welcomes(d, Subject(c))
      BY <1>2, <1>12 DEF LoginInv, WelcomeOk
<1>15. mails[Subject(c)] = 0
      BY <1>2, <1>12 DEF LoginInv, WelcomeOk
<1>16. WelcomeOk'
  <2>1. \A i \in Identities : mails'[i] \in {0, 1} /\ (mails'[i] = 1 => RowsWith(i)' # {})
        BY <1>5, <1>11 DEF LoginInv, WelcomeOk
  <2>2. ASSUME NEW d \in Calls, NEW i \in Identities, Welcomes(d, i)'
        PROVE  mails'[i] = 0 /\ RowsWith(i)' # {}
    <3>1. CASE d = c
      <4>1. i = row.sub
            BY <1>13, <2>2, <3>1
      <4>2. new \in {n \in Ids' : customers'[n].sub = i}
            BY <1>4, <4>1
      <4> QED BY <1>5, <1>15, <4>1, <4>2 DEF RowsWith
    <3>2. CASE d # c
      <4>1. Welcomes(d, i)
            BY <1>13, <2>2, <3>2
      <4> QED BY <1>5, <1>11, <4>1 DEF LoginInv, WelcomeOk
    <3> QED BY <3>1, <3>2
  <2>3. ASSUME NEW d \in Calls, NEW e \in Calls, NEW i \in Identities,
               Welcomes(d, i)', Welcomes(e, i)'
        PROVE  d = e
        BY <1>2, <1>13, <1>14, <2>3 DEF LoginInv, WelcomeOk
  <2> QED BY <2>1, <2>2, <2>3 DEF WelcomeOk
<1>17. CallOk(c)'
  <2>1. CookieOk(c)' /\ StateOk(c)' /\ PendingOk(c)'
        BY <1>1, <1>2, <1>3, <1>5 DEF CallOk, CookieOk, StateOk, PendingOk, Same, Prov
  <2>2. OwnOk(c)'
    <3>1. Own(req[c].at, req[c].who)
          BY <1>1, <1>2 DEF CallOk, OwnOk
    <3>2. Own(req[c].at, req[c].who)'
          BY <1>3, <1>5, <3>1 DEF Own, Same
    <3> QED BY <1>3, <1>4, <3>2 DEF OwnOk, Same, Subject
  <2>3. ReasonOk(c)'
    <3>1. req[c].rows \in Nat /\ req[c].rows <= Len(customers)
          BY <1>1, <1>2, Fields DEF CallOk, ReasonOk
    <3> QED BY <1>1, <1>3, <1>4, <3>1 DEF ReasonOk
  <2> QED BY <1>1, <1>2, <1>3, <2>1, <2>2, <2>3 DEF CallOk, Same
<1>18. \A d \in Calls : CallOk(d)'
      BY <1>1, <1>6, <1>3, <1>4, <1>17, Frame DEF LoginInv, Others
<1> QED BY <1>7, <1>8, <1>9, <1>10, <1>16, <1>18 DEF LoginInv

LEMMA InsertKeeps == ASSUME LoginInv, NEW c \in Calls, InsertGoogle(c) \/ InsertMicrosoft(c)
                     PROVE  LoginInv'
<1>1. /\ req[c].pc = "insert" /\ Create(c)
      /\ UNCHANGED <<cookies, provider, burnt, popups, mails>>
      BY DEF InsertGoogle, InsertMicrosoft
<1>2. req[c] \in Request /\ Subject(c) \in Identities
      BY <1>1, Kinds, Fields DEF Steps, LoginInv, Subject
<1>3. CASE Unique(Subject(c))
  <2> DEFINE row == [sub |-> Subject(c), domain |-> DomainOf[Subject(c)],
                     email |-> EmailOf[Subject(c)]]
  <2>1. customers' = Append(customers, row) /\ LogsIn(c, Len(customers) + 1, TRUE)
        BY <1>1, <1>3 DEF Create
  <2>2. row \in Row /\ row.sub = Subject(c) /\ row.domain = DomainOf[Subject(c)]
        BY <1>2 DEF Row
  <2> HIDE DEF row
  <2> QED BY <1>1, <1>3, <2>1, <2>2, CreateKeeps
<1>4. CASE ~Unique(Subject(c))
  <2>1. Ends(c, "fault") /\ UNCHANGED customers
        BY <1>1, <1>4 DEF Create
  <2>2. Quiet /\ expired' = expired /\ spent' \subseteq codes /\ popups' = popups
        BY <1>1, <2>1 DEF Quiet, cookies, provider, LoginInv, TypeOK
  <2> QED BY <1>1, <1>2, <2>1, <2>2, RefusesKeeps
<1> QED BY <1>3, <1>4
-----------------------------------------------------------------------------
\* Steps that touch neither the table nor a call in progress: what is left to
\* show is what they do to the cookies.
LEMMA CookiesKeep ==
    ASSUME LoginInv, UNCHANGED <<customers, mails>>, Grows, JarMoves, TypeOK', JarOk',
           \A d \in Calls : req'[d] = req[d] \/ req'[d].pc \in {"greet", "done", "new"},
           \A d \in Calls, i \in Identities : Welcomes(d, i)' => Welcomes(d, i),
           \A b \in Browsers : \/ session'[b] \in {session[b], None}
                               \/ Own(b, customers[session'[b]].sub)
    PROVE  LoginInv'
<1>1. TypeOK /\ Ids' = Ids /\ \A i \in Identities : RowsWith(i)' = RowsWith(i)
      BY DEF LoginInv, Ids, RowsWith
<1>2. OneAccount' /\ WelcomeOk'
      BY <1>1 DEF LoginInv, OneAccount, WelcomeOk
<1>3. SignedIn'
  <2>1. ASSUME NEW b \in Browsers, session'[b] # None
        PROVE  Own(b, CurrentCustomer(b).sub)'
    <3>1. Own(b, customers[session'[b]].sub)
          BY <2>1 DEF LoginInv, SignedIn, CurrentCustomer
    <3>2. \A i : Own(b, i) => Own(b, i)'
          BY <1>1, OwnGrows
    <3>3. CurrentCustomer(b)' = customers[session'[b]]
          BY DEF CurrentCustomer
    <3> QED BY <3>1, <3>2, <3>3 DEF Own
  <2> QED BY <2>1 DEF SignedIn
<1>4. ASSUME NEW d \in Calls PROVE CallOk(d)'
  <2>1. CASE req'[d] = req[d]
        BY <1>1, <2>1, Frame, LenNat DEF LoginInv
  <2>2. CASE req'[d].pc \in {"greet", "done", "new"}
        BY <2>2 DEF CallOk, Steps
  <2> QED BY <2>1, <2>2
<1> QED BY <1>2, <1>3, <1>4 DEF LoginInv

LEMMA LandKeeps == ASSUME LoginInv, NEW c \in Calls, Land(c) PROVE LoginInv'
<1>1. /\ req[c].pc = "answered" /\ CallOk(c) /\ TypeOK
      /\ req' = [req EXCEPT ![c] = IF req[c].isNew THEN [pc |-> "greet", who |-> Subject(c)] ELSE Done]
      /\ UNCHANGED <<customers, provider, popups, mails>>
      BY DEF Land, LoginInv
<1>2. req[c] \in Request /\ req[c].pc \in Steps
      BY <1>1, Kinds DEF Steps
<1>3. /\ req[c].at \in Browsers /\ req[c].who \in Identities /\ Prov(c) \in Providers
      /\ req[c].cookie \in States \cup {None} /\ req[c].isNew \in BOOLEAN
      BY <1>2, Fields, AccountsAssumption DEF Prov
<1>4. /\ req'[c] = IF req[c].isNew THEN [pc |-> "greet", who |-> Subject(c)] ELSE Done
      /\ \A d \in Calls \ {c} : req'[d] = req[d]
      BY <1>1 DEF TypeOK
<1>5. /\ req' \in [Calls -> CallType] /\ req'[c].pc \in {"greet", "done"}
      /\ req'[c].pc = "greet" => req[c].isNew = TRUE /\ req'[c].who = req[c].who
  <2>1. CASE req[c].isNew = TRUE
    <3>1. req'[c] = [pc |-> "greet", who |-> Subject(c)]
          BY <1>4, <2>1
    <3>2. req'[c] \in CallType /\ req'[c].pc = "greet" /\ req'[c].who = req[c].who
          BY <1>3, <3>1 DEF CallType, Greeting, Subject
    <3> QED BY <1>1, <2>1, <3>2 DEF TypeOK, CallType
  <2>2. CASE req[c].isNew = FALSE
    <3>1. req'[c] = Done /\ req'[c].pc = "done"
          BY <1>4, <2>2 DEF Done
    <3> QED BY <1>1, <3>1 DEF TypeOK, CallType
  <2> QED BY <1>3, <2>1, <2>2
<1>6. ASSUME NEW d \in Calls, NEW i \in Identities, Welcomes(d, i)' PROVE Welcomes(d, i)
  <2>1. CASE d = c
        BY <1>2, <1>5, <1>6, <2>1 DEF Welcomes, Steps
  <2>2. CASE d # c
        BY <1>4, <1>6, <2>2 DEF Welcomes
  <2> QED BY <2>1, <2>2
<1>7. \A d \in Calls : req'[d] = req[d] \/ req'[d].pc \in {"greet", "done", "new"}
      BY <1>4, <1>5
<1>8. UNCHANGED <<startedBy, codes, spent, expired, customers, popups, mails>> /\ Grows
      BY <1>1, LenNat DEF provider, Grows
<1>9. CASE UNCHANGED <<cookies, burnt>>
  <2>1. TypeOK' /\ JarOk' /\ JarMoves
        BY <1>1, <1>5, <1>8, <1>9 DEF LoginInv, TypeOK, JarOk, JarMoves, cookies, CallType, Ids
  <2>2. session' = session
        BY <1>9 DEF cookies
  <2> QED BY <1>6, <1>7, <1>8, <2>1, <2>2, CookiesKeep
<1>10. CASE /\ jar' = BurnCookie(c)
            /\ session' = IF req[c].answer = "session"
                          THEN [session EXCEPT ![req[c].at] = req[c].id] ELSE session
            /\ burnt' = IF Redirects(c) THEN burnt \cup ({req[c].cookie} \ {None}) ELSE burnt
  <2>1. /\ jar' \in [Browsers -> [Providers -> States \cup {None}]] /\ burnt' \subseteq States
        /\ \A b \in Browsers, p \in Providers : jar'[b][p] \in {jar[b][p], None}
        BY <1>1, <1>3, <1>10 DEF TypeOK, BurnCookie
  <2>2. Redirects(c) => jar'[req[c].at][Prov(c)] = None
        BY <1>1, <1>3, <1>10 DEF TypeOK, BurnCookie
  <2>3. req[c].answer = "session" => req[c].id \in Ids /\ Own(req[c].at, customers[req[c].id].sub)
        BY <1>1, <1>2 DEF CallOk, OwnOk
  <2>4. ASSUME NEW b \in Browsers
        PROVE  /\ session'[b] \in Ids \cup {None}
               /\ session'[b] \in {session[b], None} \/ Own(b, customers[session'[b]].sub)
        BY <1>1, <1>3, <1>10, <2>3 DEF TypeOK
  <2>5. session' \in [Browsers -> Ids \cup {None}]
        BY <1>1, <1>3, <1>10, <2>3 DEF TypeOK
  <2>6. TypeOK'
        BY <1>1, <1>5, <1>8, <2>1, <2>5 DEF TypeOK, CallType, Ids
  <2>7. JarOk'
    <3>1. ASSUME NEW s \in burnt' PROVE startedBy'[s] # None
      <4>1. CASE s \in burnt
            BY <1>8, <4>1 DEF LoginInv, JarOk
      <4>2. CASE s = req[c].cookie /\ req[c].cookie # None
            BY <1>1, <1>2, <1>3, <1>8, <4>2, AccountsAssumption DEF CallOk, CookieOk
      <4> QED BY <1>10, <3>1, <4>1, <4>2
    <3>2. ASSUME NEW b \in Browsers, NEW p \in Providers, jar'[b][p] # None
          PROVE  /\ startedBy'[jar'[b][p]] = b /\ jar'[b][p] \notin burnt'
                 /\ \A q \in Providers : jar'[b][q] = jar'[b][p] => q = p
      <4>1. jar'[b][p] = jar[b][p]
            BY <2>1, <3>2
      <4>2. startedBy[jar[b][p]] = b /\ jar[b][p] \notin burnt
            BY <3>2, <4>1 DEF LoginInv, JarOk
      <4>3. \A q \in Providers : jar'[b][q] = jar'[b][p] => q = p
            BY <2>1, <3>2, <4>1 DEF LoginInv, JarOk
      <4>4. ASSUME Redirects(c), jar[b][p] = req[c].cookie PROVE FALSE
            BY <1>1, <1>2, <2>2, <3>2, <4>1, <4>4 DEF CallOk, CookieOk
      <4>5. jar'[b][p] \notin burnt'
            BY <1>10, <4>1, <4>2, <4>4
      <4> QED BY <1>8, <4>1, <4>2, <4>3, <4>5
    <3> QED BY <3>1, <3>2 DEF JarOk
  <2>8. JarMoves
        BY <2>1 DEF JarMoves
  <2> QED BY <1>6, <1>7, <1>8, <2>4, <2>6, <2>7, <2>8, CookiesKeep
<1> QED BY <1>9, <1>10 DEF Land

LEMMA StartKeeps == ASSUME LoginInv, NEW b \in Browsers, NEW p \in Providers, Start(b, p)
                    PROVE  LoginInv'
<1>1. PICK s \in States :
        /\ NewState(s)
        /\ startedBy' = [startedBy EXCEPT ![s] = b]
        /\ jar' = [jar EXCEPT ![b][p] = s]
        /\ UNCHANGED <<customers, session, req, expired, codes, spent, burnt, popups, mails>>
      BY DEF Start
<1>2. TypeOK /\ startedBy[s] = None /\ b # None /\ s # None
      BY <1>1, AccountsAssumption DEF LoginInv, NewState
<1>3. /\ startedBy'[s] = b /\ \A t \in States \ {s} : startedBy'[t] = startedBy[t]
      /\ startedBy' \in [States -> Browsers \cup {None}]
      BY <1>1, <1>2 DEF TypeOK
<1>4. /\ jar'[b][p] = s /\ jar' \in [Browsers -> [Providers -> States \cup {None}]]
      /\ \A a \in Browsers, q \in Providers : (a = b /\ q = p) \/ jar'[a][q] = jar[a][q]
      BY <1>1, <1>2 DEF TypeOK
<1>5. Grows /\ JarMoves
  <2>1. Grows
        BY <1>1, <1>2, <1>3, LenNat DEF Grows
  <2>2. JarMoves
        BY <1>2, <1>4 DEF JarMoves
  <2> QED BY <2>1, <2>2
<1>6. TypeOK'
      BY <1>1, <1>2, <1>3, <1>4 DEF TypeOK, Ids
<1>7. JarOk'
  <2>1. ASSUME NEW t \in burnt' PROVE startedBy'[t] # None
        BY <1>1, <1>2, <1>3, <2>1 DEF LoginInv, JarOk, TypeOK
  <2>2. ASSUME NEW a \in Browsers, NEW q \in Providers, jar[a][q] = s PROVE FALSE
        BY <1>2, <2>2, AccountsAssumption DEF LoginInv, JarOk
  <2>3. ASSUME NEW a \in Browsers, NEW q \in Providers, jar'[a][q] # None
        PROVE  /\ startedBy'[jar'[a][q]] = a /\ jar'[a][q] \notin burnt'
               /\ \A r \in Providers : jar'[a][r] = jar'[a][q] => r = q
    <3>1. CASE a = b /\ q = p
      <4>1. jar'[a][q] = s /\ startedBy'[s] = a
            BY <1>3, <1>4, <3>1
      <4>2. s \notin burnt'
            BY <1>1, <1>2 DEF LoginInv, JarOk
      <4>3. \A r \in Providers : jar'[a][r] = s => r = q
            BY <1>4, <2>2, <3>1
      <4> QED BY <4>1, <4>2, <4>3
    <3>2. CASE ~(a = b /\ q = p)
      <4>1. jar'[a][q] = jar[a][q] /\ jar[a][q] \in States \ {s}
            BY <1>2, <1>4, <2>2, <2>3, <3>2 DEF TypeOK
      <4>2. startedBy[jar[a][q]] = a /\ jar[a][q] \notin burnt
            BY <2>3, <4>1 DEF LoginInv, JarOk
      <4>3. \A r \in Providers : jar'[a][r] = jar'[a][q] => r = q
            BY <1>4, <2>3, <4>1 DEF LoginInv, JarOk
      <4> QED BY <1>1, <1>3, <4>1, <4>2, <4>3
    <3> QED BY <3>1, <3>2
  <2> QED BY <2>1, <2>3 DEF JarOk
<1>8. \A d \in Calls, i \in Identities : Welcomes(d, i)' => Welcomes(d, i)
      BY <1>1 DEF Welcomes
<1> QED BY <1>1, <1>5, <1>6, <1>7, <1>8, CookiesKeep

LEMMA CancelKeeps == ASSUME LoginInv, NEW b \in Browsers, NEW p \in Providers, Cancel(b, p)
                     PROVE  LoginInv'
<1>1. /\ jar[b][p] # None /\ burnt' = burnt \cup {jar[b][p]}
      /\ jar' = [jar EXCEPT ![b][p] = None]
      /\ UNCHANGED <<customers, session, req, provider, popups, mails>>
      BY DEF Cancel
<1>2. TypeOK /\ jar[b][p] \in States /\ startedBy[jar[b][p]] = b /\ b # None
      BY <1>1, AccountsAssumption DEF LoginInv, TypeOK, JarOk
<1>3. /\ jar'[b][p] = None /\ jar' \in [Browsers -> [Providers -> States \cup {None}]]
      /\ \A a \in Browsers, q \in Providers : (a = b /\ q = p) \/ jar'[a][q] = jar[a][q]
      BY <1>1, <1>2 DEF TypeOK
<1>4. UNCHANGED <<codes, spent, expired, startedBy>>
      BY <1>1 DEF provider
<1>5. Grows /\ JarMoves
      BY <1>1, <1>2, <1>3, <1>4, LenNat DEF Grows, JarMoves
<1>6. TypeOK'
      BY <1>1, <1>2, <1>3, <1>4 DEF TypeOK, Ids
<1>7. JarOk'
  <2>1. ASSUME NEW t \in burnt' PROVE startedBy'[t] # None
        BY <1>1, <1>2, <1>4, <2>1 DEF LoginInv, JarOk
  <2>2. ASSUME NEW a \in Browsers, NEW q \in Providers, jar'[a][q] # None
        PROVE  /\ startedBy'[jar'[a][q]] = a /\ jar'[a][q] \notin burnt'
               /\ \A r \in Providers : jar'[a][r] = jar'[a][q] => r = q
    <3>1. jar'[a][q] = jar[a][q] /\ ~(a = b /\ q = p)
          BY <1>3, <2>2
    <3>2. startedBy[jar[a][q]] = a /\ jar[a][q] \notin burnt
          BY <2>2, <3>1 DEF LoginInv, JarOk
    <3>3. jar[a][q] # jar[b][p]
          BY <1>1, <1>2, <3>1, <3>2 DEF LoginInv, JarOk
    <3>4. \A r \in Providers : jar'[a][r] = jar'[a][q] => r = q
          BY <1>3, <2>2, <3>1 DEF LoginInv, JarOk
    <3> QED BY <1>1, <1>4, <3>1, <3>2, <3>3, <3>4
  <2> QED BY <2>1, <2>2 DEF JarOk
<1>8. \A d \in Calls, i \in Identities : Welcomes(d, i)' => Welcomes(d, i)
      BY <1>1 DEF Welcomes
<1> QED BY <1>1, <1>5, <1>6, <1>7, <1>8, CookiesKeep

LEMMA LogoutKeeps == ASSUME LoginInv, NEW b \in Browsers, Logout(b) PROVE LoginInv'
<1>1. /\ session' = [session EXCEPT ![b] = None]
      /\ UNCHANGED <<customers, jar, req, startedBy, codes, spent, expired, burnt, popups, mails>>
      BY DEF Logout, provider
<1>2. TypeOK' /\ JarOk' /\ Grows /\ JarMoves
      BY <1>1, LenNat DEF LoginInv, TypeOK, JarOk, Grows, JarMoves, Ids
<1>3. \A d \in Calls, i \in Identities : Welcomes(d, i)' => Welcomes(d, i)
      BY <1>1 DEF Welcomes
<1>4. \A a \in Browsers : session'[a] \in {session[a], None}
      BY <1>1 DEF LoginInv, TypeOK
<1> QED BY <1>1, <1>2, <1>3, <1>4, CookiesKeep

LEMMA RestartKeeps == ASSUME LoginInv, Restart PROVE LoginInv'
<1>1. /\ req' = [c \in Calls |-> IF req[c] = New THEN New ELSE Done]
      /\ UNCHANGED <<customers, jar, session, startedBy, codes, spent, expired, burnt, popups, mails>>
      BY DEF Restart, cookies, provider
<1>2. \A d \in Calls : req'[d] \in {New, Done} /\ req'[d].pc \in {"new", "done"}
      BY <1>1 DEF New, Done
<1>3. req' \in [Calls -> CallType]
      BY <1>1 DEF CallType
<1>4. TypeOK' /\ JarOk' /\ Grows /\ JarMoves
      BY <1>1, <1>3, LenNat DEF LoginInv, TypeOK, JarOk, Grows, JarMoves, Ids, CallType
<1>5. \A d \in Calls, i \in Identities : ~Welcomes(d, i)'
      BY <1>2 DEF Welcomes, Steps
<1> QED BY <1>1, <1>2, <1>4, <1>5, CookiesKeep

\* The provider grants, or time passes.
LEMMA OutsideKeeps ==
    ASSUME LoginInv, NEW s \in States, Expire(s) \/ \E i \in Identities : Consent(s, i)
    PROVE  LoginInv'
<1>1. /\ UNCHANGED <<customers, jar, session, req, startedBy, spent, burnt, popups, mails>>
      /\ codes \subseteq codes' /\ codes' \subseteq Grant /\ expired' \subseteq States
  <2>1. CASE Expire(s)
        BY <2>1 DEF Expire, cookies, LoginInv, TypeOK
  <2>2. CASE \E i \in Identities : Consent(s, i)
        BY <2>2 DEF Consent, cookies, LoginInv, TypeOK, Grant
  <2> QED BY <2>1, <2>2
<1>2. TypeOK' /\ JarOk' /\ Grows /\ JarMoves
      BY <1>1, LenNat DEF LoginInv, TypeOK, JarOk, Grows, JarMoves, Ids
<1>3. \A d \in Calls, i \in Identities : Welcomes(d, i)' => Welcomes(d, i)
      BY <1>1 DEF Welcomes
<1> QED BY <1>1, <1>2, <1>3, CookiesKeep

\* The mail is sent at most once, for no other call will.
LEMMA WelcomeKeeps == ASSUME LoginInv, NEW c \in Calls, SendWelcome(c) PROVE LoginInv'
<1>1. /\ req[c].pc = "greet" /\ req' = [req EXCEPT ![c] = Done] /\ TypeOK
      /\ UNCHANGED <<customers, jar, session, startedBy, codes, spent, expired, burnt, popups>>
      BY DEF SendWelcome, cookies, provider, LoginInv
<1>2. PICK sent \in {0, 1} : mails' = [mails EXCEPT ![Subject(c)] = @ + sent]
      BY DEF SendWelcome
<1>3. Subject(c) \in Identities /\ Welcomes(c, Subject(c))
      BY <1>1, Kinds DEF Greeting, Subject, Welcomes
<1>4. mails[Subject(c)] = 0 /\ RowsWith(Subject(c)) # {}
      BY <1>3 DEF LoginInv, WelcomeOk
<1>5. /\ req'[c] = Done /\ req'[c].pc = "done" /\ \A d \in Calls \ {c} : req'[d] = req[d]
      /\ req' \in [Calls -> CallType]
      BY <1>1 DEF TypeOK, CallType, Done
<1>6. /\ \A i \in Identities \ {Subject(c)} : mails'[i] = mails[i]
      /\ mails'[Subject(c)] \in {0, 1} /\ mails' \in [Identities -> Nat]
      BY <1>1, <1>2, <1>3, <1>4 DEF TypeOK
<1>7. TypeOK' /\ JarOk' /\ OneAccount' /\ Grows /\ JarMoves
  <2>1. TypeOK'
        BY <1>1, <1>5, <1>6 DEF TypeOK, CallType, Ids
  <2>2. JarOk' /\ OneAccount'
        BY <1>1 DEF LoginInv, JarOk, OneAccount, Ids
  <2>3. Grows /\ JarMoves
        BY <1>1, LenNat DEF Grows, JarMoves
  <2> QED BY <2>1, <2>2, <2>3
<1>8. \A i \in Identities : RowsWith(i)' = RowsWith(i)
      BY <1>1 DEF RowsWith, Ids
<1>9. ASSUME NEW d \in Calls, NEW i \in Identities, Welcomes(d, i)'
      PROVE  Welcomes(d, i) /\ i # Subject(c)
  <2>1. d # c
        BY <1>5, <1>9 DEF Welcomes, Steps
  <2>2. Welcomes(d, i)
        BY <1>5, <1>9, <2>1 DEF Welcomes
  <2> QED BY <1>3, <2>1, <2>2 DEF LoginInv, WelcomeOk
<1>10. WelcomeOk'
  <2>1. \A i \in Identities : mails'[i] \in {0, 1} /\ (mails'[i] = 1 => RowsWith(i)' # {})
        BY <1>3, <1>4, <1>6, <1>8 DEF LoginInv, WelcomeOk
  <2>2. \A d \in Calls, i \in Identities : Welcomes(d, i)' => mails'[i] = 0 /\ RowsWith(i)' # {}
        BY <1>6, <1>8, <1>9 DEF LoginInv, WelcomeOk
  <2>3. \A d, e \in Calls, i \in Identities : Welcomes(d, i)' /\ Welcomes(e, i)' => d = e
        BY <1>9 DEF LoginInv, WelcomeOk
  <2> QED BY <2>1, <2>2, <2>3 DEF WelcomeOk
<1>11. SignedIn'
  <2>1. \A b \in Browsers : session'[b] = session[b] /\ CurrentCustomer(b)' = CurrentCustomer(b)
        BY <1>1 DEF CurrentCustomer
  <2> QED BY <1>1, <2>1 DEF LoginInv, SignedIn, Own
<1>12. ASSUME NEW d \in Calls PROVE CallOk(d)'
  <2>1. CASE d = c
        BY <1>5, <2>1 DEF CallOk, Steps
  <2>2. CASE d # c
        BY <1>1, <1>5, <1>7, <2>2, Frame, LenNat DEF LoginInv
  <2> QED BY <2>1, <2>2
<1> QED BY <1>7, <1>10, <1>11, <1>12 DEF LoginInv
-----------------------------------------------------------------------------
LEMMA LoginInit == Init => LoginInv
<1> SUFFICES ASSUME Init PROVE LoginInv
    OBVIOUS
<1>1. \A c \in Calls : req[c] = New /\ req[c].pc = "new"
      BY DEF Init, New
<1>2. Len(customers) = 0 /\ Ids = {}
      BY DEF Init, Ids
<1>3. TypeOK
  <2>1. customers \in Seq(Row)
        BY DEF Init
  <2> QED BY <1>1, <2>1 DEF Init, TypeOK, Grant
<1>4. OneAccount /\ JarOk /\ SignedIn
      BY <1>2 DEF Init, OneAccount, JarOk, SignedIn
<1>5. WelcomeOk /\ \A c \in Calls : CallOk(c)
      BY <1>1 DEF Init, WelcomeOk, Welcomes, CallOk, Steps
<1> QED BY <1>3, <1>4, <1>5 DEF LoginInv

LEMMA HandlerKeeps == ASSUME LoginInv, NEW c \in Calls, Handler(c) PROVE LoginInv'
BY CheckKeeps, ExchangeKeeps, IdentifyKeeps, FindKeeps, GuardKeeps, InsertKeeps, FailsKeeps,
   LandKeeps, WelcomeKeeps DEF Handler

LEMMA LoginStep == LoginInv /\ [Next]_vars => LoginInv'
<1> SUFFICES ASSUME LoginInv, [Next]_vars PROVE LoginInv'
    OBVIOUS
<1>1. CASE \E b \in Browsers : StartGoogle(b) \/ StartMicrosoft(b)
      BY <1>1, StartKeeps DEF StartGoogle, StartMicrosoft, Providers
<1>2. CASE \E b \in Browsers : Logout(b)
      BY <1>2, LogoutKeeps
<1>3. CASE \E b \in Browsers, p \in Providers : Cancel(b, p)
      BY <1>3, CancelKeeps
<1>4. CASE (\E s \in States, i \in Identities : Consent(s, i)) \/ \E s \in States : Expire(s)
      BY <1>4, OutsideKeeps
<1>5. CASE \E c \in Calls, b \in Browsers, g \in codes : Callback(c, b, g)
      BY <1>5, CallbackKeeps
<1>6. CASE \E c \in Calls, b \in Browsers, i \in Identities : Popup(c, b, i)
      BY <1>6, PopupKeeps
<1>7. CASE \E c \in Calls : Handler(c)
      BY <1>7, HandlerKeeps
<1>8. CASE Restart
      BY <1>8, RestartKeeps
<1>9. CASE UNCHANGED vars
  <2>1. /\ customers' = customers /\ jar' = jar /\ session' = session /\ req' = req
        /\ startedBy' = startedBy /\ expired' = expired /\ codes' = codes /\ spent' = spent
        /\ burnt' = burnt /\ popups' = popups /\ mails' = mails
        BY <1>9 DEF vars
  <2>2. TypeOK' /\ JarOk' /\ Grows /\ JarMoves
        BY <2>1, LenNat DEF LoginInv, TypeOK, JarOk, Grows, JarMoves, Ids
  <2>3. \A d \in Calls, i \in Identities : Welcomes(d, i)' => Welcomes(d, i)
        BY <2>1 DEF Welcomes
  <2> QED BY <2>1, <2>2, <2>3, CookiesKeep
<1> QED BY <1>1, <1>2, <1>3, <1>4, <1>5, <1>6, <1>7, <1>8, <1>9 DEF Next

\* The inductive invariant: what a call carries and what a cookie holds belong
\* to one attempt of one browser (auth.py, the callbacks and _complete_login).
THEOREM LoginHolds == Spec => []LoginInv
<1> QED BY LoginInit, LoginStep, PTL DEF Spec

\* Whatever first logins race, an identity and a domain have one account: the
\* unique columns decide where the reads before the insert do not exclude one
\* another (AuthService.login_with_google_claims, login_with_microsoft_claims).
THEOREM AccountsHold == Spec => []AccountsInv
<1>1. LoginInv => AccountsInv
      BY DEF LoginInv, AccountsInv
<1> QED BY <1>1, LoginHolds, PTL

\* No order of tabs, reloads, callbacks opened elsewhere and late answers signs
\* a browser in to an account that was not granted in it (the state cookie).
THEOREM SessionHolds == Spec => []SessionIsOwn
<1>1. LoginInv => SessionIsOwn
      BY DEF LoginInv, SignedIn, Own, SessionIsOwn
<1> QED BY <1>1, LoginHolds, PTL

\* A person with an account is told "already registered" only when the account
\* appeared behind the back of this request (the guards of AuthService).
THEOREM ConflictHolds == Spec => []ConflictHasReason
<1>1. ASSUME LoginInv PROVE ConflictHasReason
      BY <1>1 DEF LoginInv, CallOk, ReasonOk, ConflictHasReason, Steps, Subject
<1> QED BY <1>1, LoginHolds, PTL

\* A callback that carries the cookie of a finished attempt does not exist: the
\* answer that removed the cookie removed it for good (auth_google_callback).
THEOREM BurntHolds == Spec => []BurntStaysBurnt
<1>1. ASSUME LoginInv PROVE BurntStaysBurnt
      BY <1>1, Kinds DEF LoginInv, CallOk, BurntStaysBurnt
<1> QED BY <1>1, LoginHolds, PTL

\* A customer is welcomed once at most, and only if it has its row (_complete_login).
THEOREM WelcomedHolds == Spec => []WelcomedOnce
<1>1. ASSUME LoginInv PROVE WelcomedOnce
      BY <1>1 DEF LoginInv, WelcomeOk, WelcomedOnce
<1> QED BY <1>1, LoginHolds, PTL
=============================================================================
