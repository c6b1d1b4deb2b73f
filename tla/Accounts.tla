------------------------------- MODULE Accounts -------------------------------
(***************************************************************************)
(* Signing in: the server-side OAuth redirect flows for Google and         *)
(* Microsoft, the deprecated popup flow, the customer row that a first     *)
(* login inserts, the session cookie and the welcome mail.                 *)
(*                                                                         *)
(* A browser keeps one signed state cookie per provider, so a second tab   *)
(* overwrites the first one's, and a session cookie.  A callback is a      *)
(* request that carries the cookie the browser had when it sent it; its    *)
(* handler waits at the code exchange, the identity call and each          *)
(* database statement, and what its answer does to the cookies happens     *)
(* when the answer arrives.  Identities are the people a provider knows:   *)
(* the subject identifier stands for the person, with one mail address     *)
(* and one domain.                                                         *)
(***************************************************************************)
EXTENDS Naturals, Sequences, FiniteSets

CONSTANTS
    Browsers, Identities, Calls,
    States,      \* the state nonces that new_state can draw, each once
    ProviderOf, EmailOf, DomainOf,
    None

Providers == {"google", "microsoft"}

ASSUME AccountsAssumption ==
    /\ ProviderOf \in [Identities -> Providers]
    /\ \A i, j \in Identities : EmailOf[i] = EmailOf[j] => DomainOf[i] = DomainOf[j]
    /\ None \notin Browsers \cup Identities \cup States

VARIABLES
    customers,  \* the table: a sequence of rows, the index is the customer's id
    jar,        \* jar[b][p]: the state in browser b's cookie for provider p
    session,    \* session[b]: the customer id in b's session cookie
    req,        \* req[c]: a login request and the locals of its handler
    startedBy,  \* startedBy[s]: the browser that /start drew s for
    expired,    \* states older than STATE_TTL_SECONDS
    codes,      \* codes[s]: who has granted at the provider under state s
    spent,      \* codes the provider has redeemed
    burnt,      \* history: states carried by callbacks whose redirect arrived
    popups,     \* history: who obtained a popup token in which browser
    mails       \* mails[i]: welcome mails sent to identity i

vars == <<customers, jar, session, req, startedBy, expired, codes, spent, burnt, popups, mails>>
cookies == <<jar, session>>
provider == <<codes, spent, expired, startedBy>>

Grant == [state : States, who : Identities]

New == [pc |-> "new"]
Done == [pc |-> "done"]

Init ==
    /\ customers = <<>>
    /\ jar = [b \in Browsers |-> [p \in Providers |-> None]]
    /\ session = [b \in Browsers |-> None]
    /\ req = [c \in Calls |-> New]
    /\ startedBy = [s \in States |-> None]
    /\ expired = {} /\ codes = {} /\ spent = {} /\ burnt = {} /\ popups = {}
    /\ mails = [i \in Identities |-> 0]
-----------------------------------------------------------------------------
Go(c, pc) == req' = [req EXCEPT ![c].pc = pc]

\* The handler is done and its answer travels: refused, conflict, session, or
\* fault, an exception that nobody catches.
Ends(c, answer) == req' = [req EXCEPT ![c].pc = "answered", ![c].answer = answer]

\* A fresh state, which no earlier attempt has had.
NewState(s) == startedBy[s] = None

\* /start answers with a redirect to the provider and the sealed state, in
\* place of the cookie of an attempt in another tab.
Start(b, p) ==
    \E s \in States :
        /\ NewState(s)
        /\ startedBy' = [startedBy EXCEPT ![s] = b]
        /\ jar' = [jar EXCEPT ![b][p] = s]
        /\ UNCHANGED <<customers, session, req, expired, codes, spent, burnt, popups, mails>>

StartGoogle(b) == Start(b, "google")
StartMicrosoft(b) == Start(b, "microsoft")

\* Somebody signs in at the provider under a state: it issues a code.
Consent(s, i) ==
    /\ startedBy[s] # None
    /\ codes' = codes \cup {[state |-> s, who |-> i]}
    /\ codes' # codes
    /\ UNCHANGED <<customers, cookies, req, startedBy, expired, spent, burnt, popups, mails>>

Expire(s) ==
    /\ startedBy[s] # None /\ s \notin expired
    /\ expired' = expired \cup {s}
    /\ UNCHANGED <<customers, cookies, req, startedBy, codes, spent, burnt, popups, mails>>
-----------------------------------------------------------------------------
(***************************************************************************)
(* The callback.                                                           *)
(***************************************************************************)
\* A browser opens the redirect URL; the tab may reload it or open it elsewhere.
Callback(c, b, g) ==
    LET p == ProviderOf[g.who] IN
    /\ req[c] = New
    /\ req' = [req EXCEPT ![c] = [pc |-> "check", at |-> b, who |-> g.who, state |-> g.state,
                                  cookie |-> jar[b][p], late |-> jar[b][p] \in burnt,
                                  rows |-> 0, id |-> 0, isNew |-> FALSE, answer |-> "none"]]
    /\ UNCHANGED <<customers, cookies, provider, burnt, popups, mails>>

\* The user cancels: the provider redirects with an error and no code.
Cancel(b, p) ==
    /\ jar[b][p] # None
    /\ burnt' = burnt \cup {jar[b][p]}
    /\ jar' = [jar EXCEPT ![b][p] = None]
    /\ UNCHANGED <<customers, session, req, provider, popups, mails>>

Unsealed(c) == req[c].cookie # None /\ req[c].cookie \notin expired

Prov(c) == ProviderOf[req[c].who]

CheckState(c) ==
    /\ IF Unsealed(c) /\ req[c].cookie = req[c].state
       THEN Go(c, "exchange") ELSE Ends(c, "refused")
    /\ UNCHANGED <<customers, cookies, provider, burnt, popups, mails>>

CheckGoogleMutant(c) ==
    /\ req[c].pc = "check" /\ Prov(c) = "google"
    /\ IF Unsealed(c) THEN Go(c, "exchange") ELSE Ends(c, "refused")
    /\ UNCHANGED <<customers, cookies, provider, burnt, popups, mails>>
CheckGoogle(c) == req[c].pc = "check" /\ Prov(c) = "google" /\ CheckState(c)
CheckMicrosoft(c) == req[c].pc = "check" /\ Prov(c) = "microsoft" /\ CheckState(c)

\* The provider redeems a code once; the call may also fail before or after, and
\* a body that is not JSON is not caught.
Exchange(c) ==
    LET g == [state |-> req[c].state, who |-> req[c].who] IN
    /\ \/ /\ g \notin spent
          /\ spent' = spent \cup {g}
          /\ Go(c, "identify")
       \/ /\ spent' \in {spent, spent \cup {g}}
          /\ Ends(c, "refused") \/ Ends(c, "fault")
    /\ UNCHANGED <<customers, cookies, startedBy, expired, codes, burnt, popups, mails>>

ExchangeGoogle(c) == req[c].pc = "exchange" /\ Prov(c) = "google" /\ Exchange(c)
ExchangeMicrosoft(c) == req[c].pc = "exchange" /\ Prov(c) = "microsoft" /\ Exchange(c)

\* Google's tokeninfo: a refused token ends in a redirect, but a transport
\* error of this call is not caught.
VerifyGoogle(c) ==
    /\ req[c].pc = "identify" /\ Prov(c) = "google"
    /\ Go(c, "find") \/ Ends(c, "refused") \/ Ends(c, "fault")
    /\ UNCHANGED <<customers, cookies, provider, burnt, popups, mails>>

\* Microsoft's userinfo: every failure ends in a redirect, but for a body that
\* is not JSON.
UserInfo(c) ==
    /\ req[c].pc = "identify" /\ Prov(c) = "microsoft"
    /\ Go(c, "find") \/ Ends(c, "refused") \/ Ends(c, "fault")
    /\ UNCHANGED <<customers, cookies, provider, burnt, popups, mails>>

\* The deprecated POST: the browser has the token already, there is no state.
Popup(c, b, i) ==
    /\ req[c] = New /\ ProviderOf[i] = "google"
    /\ popups' = popups \cup {<<b, i>>}
    /\ req' = [req EXCEPT ![c] = [pc |-> "identify", at |-> b, who |-> i, state |-> None,
                                  cookie |-> None, late |-> FALSE,
                                  rows |-> 0, id |-> 0, isNew |-> FALSE, answer |-> "none"]]
    /\ UNCHANGED <<customers, cookies, provider, burnt, mails>>
-----------------------------------------------------------------------------
(***************************************************************************)
(* AuthService: two reads, a hash in a thread, an insert.                  *)
(***************************************************************************)
Ids == 1..Len(customers)
Subject(c) == req[c].who
RowsWith(sub) == {n \in Ids : customers[n].sub = sub}

\* _complete_login: the cookies are for the row found or inserted.
LogsIn(c, n, new) ==
    req' = [req EXCEPT ![c].pc = "answered", ![c].answer = "session",
                       ![c].id = n, ![c].isNew = new]

FindBySubMutant(c) ==
    /\ req[c].pc = "find"
    /\ req' = [req EXCEPT ![c].pc = "guard", ![c].rows = Len(customers)]
    /\ UNCHANGED <<customers, cookies, provider, burnt, popups, mails>>
FindBySub(c) ==
    /\ req[c].pc = "find"
    /\ \/ \E n \in RowsWith(Subject(c)) : LogsIn(c, n, FALSE)
       \/ /\ RowsWith(Subject(c)) = {}
          /\ req' = [req EXCEPT ![c].pc = "guard", ![c].rows = Len(customers)]
    /\ UNCHANGED <<customers, cookies, provider, burnt, popups, mails>>

\* ConflictError: a 409, or a redirect in the redirect flows.
Conflicts(c) == Ends(c, "conflict")

\* A Google login is refused when its domain is taken, a Microsoft login when
\* its address is; who took it is not looked at.
GuardDomain(c) ==
    /\ req[c].pc = "guard" /\ Prov(c) = "google"
    /\ IF \E n \in Ids : customers[n].domain = DomainOf[Subject(c)]
       THEN Conflicts(c) ELSE Go(c, "insert")
    /\ UNCHANGED <<customers, cookies, provider, burnt, popups, mails>>

GuardEmail(c) ==
    /\ req[c].pc = "guard" /\ Prov(c) = "microsoft"
    /\ IF \E n \in Ids : customers[n].email = EmailOf[Subject(c)]
       THEN Conflicts(c) ELSE Go(c, "insert")
    /\ UNCHANGED <<customers, cookies, provider, burnt, popups, mails>>

\* The unique columns of the table: domain, google_sub, microsoft_sub.
UniqueMutant(i) == RowsWith(i) = {}
Unique(i) == \A n \in Ids : customers[n].sub # i /\ customers[n].domain # DomainOf[i]

\* The insert; a violation of a unique column is an exception nobody catches.
Create(c) ==
    IF Unique(Subject(c))
    THEN /\ customers' = Append(customers, [sub |-> Subject(c), domain |-> DomainOf[Subject(c)],
                                            email |-> EmailOf[Subject(c)]])
         /\ LogsIn(c, Len(customers) + 1, TRUE)
    ELSE Ends(c, "fault") /\ UNCHANGED customers

InsertGoogle(c) ==
    /\ req[c].pc = "insert" /\ Prov(c) = "google" /\ Create(c)
    /\ UNCHANGED <<cookies, provider, burnt, popups, mails>>

InsertMicrosoft(c) ==
    /\ req[c].pc = "insert" /\ Prov(c) = "microsoft" /\ Create(c)
    /\ UNCHANGED <<cookies, provider, burnt, popups, mails>>

\* A statement fails.
Fails(c) ==
    /\ req[c].pc \in {"find", "guard", "insert"} /\ Ends(c, "fault")
    /\ UNCHANGED <<customers, cookies, provider, burnt, popups, mails>>
-----------------------------------------------------------------------------
(***************************************************************************)
(* The answer, and what runs after it.                                     *)
(***************************************************************************)
\* A callback answers everything but a fault with a redirect.
Redirects(c) == req[c].state # None /\ req[c].answer # "fault"

BurnCookieMutant(c) ==
    IF req[c].answer = "session" THEN [jar EXCEPT ![req[c].at][Prov(c)] = None] ELSE jar
BurnCookie(c) ==
    IF Redirects(c) THEN [jar EXCEPT ![req[c].at][Prov(c)] = None] ELSE jar

\* The cookies change in the browser, unless the tab is gone.  The background
\* task of a first login follows the answer either way.
Land(c) ==
    /\ req[c].pc = "answered"
    /\ req' = [req EXCEPT ![c] = IF req[c].isNew THEN [pc |-> "greet", who |-> Subject(c)] ELSE Done]
    /\ \/ /\ jar' = BurnCookie(c)
          /\ session' = IF req[c].answer = "session"
                        THEN [session EXCEPT ![req[c].at] = req[c].id] ELSE session
          /\ burnt' = IF Redirects(c) THEN burnt \cup ({req[c].cookie} \ {None}) ELSE burnt
       \/ UNCHANGED <<cookies, burnt>>
    /\ UNCHANGED <<customers, provider, popups, mails>>

\* The welcome mail goes out, or its error is logged and swallowed.
SendWelcomeMutant(c) ==
    /\ req[c].pc = "greet"
    /\ req' = [req EXCEPT ![c] = Done] \/ UNCHANGED req
    /\ \E sent \in {0, 1} : mails' = [mails EXCEPT ![Subject(c)] = @ + sent]
    /\ UNCHANGED <<customers, cookies, provider, burnt, popups>>
SendWelcome(c) ==
    /\ req[c].pc = "greet" /\ req' = [req EXCEPT ![c] = Done]
    /\ \E sent \in {0, 1} : mails' = [mails EXCEPT ![Subject(c)] = @ + sent]
    /\ UNCHANGED <<customers, cookies, provider, burnt, popups>>

Logout(b) ==
    /\ session[b] # None
    /\ session' = [session EXCEPT ![b] = None]
    /\ UNCHANGED <<customers, jar, req, provider, burnt, popups, mails>>

\* The backend restarts: handlers and background tasks are gone, browsers keep
\* their cookies, which the secret in the environment still verifies.
Restart ==
    /\ \E c \in Calls : req[c] \notin {New, Done}
    /\ req' = [c \in Calls |-> IF req[c] = New THEN New ELSE Done]
    /\ UNCHANGED <<customers, cookies, provider, burnt, popups, mails>>

Handler(c) ==
    \/ CheckGoogle(c) \/ CheckMicrosoft(c) \/ ExchangeGoogle(c) \/ ExchangeMicrosoft(c)
    \/ VerifyGoogle(c) \/ UserInfo(c) \/ FindBySub(c) \/ GuardDomain(c) \/ GuardEmail(c)
    \/ InsertGoogle(c) \/ InsertMicrosoft(c) \/ Fails(c) \/ Land(c) \/ SendWelcome(c)

Next ==
    \/ \E b \in Browsers : StartGoogle(b) \/ StartMicrosoft(b) \/ Logout(b)
    \/ \E b \in Browsers, p \in Providers : Cancel(b, p)
    \/ \E s \in States, i \in Identities : Consent(s, i)
    \/ \E s \in States : Expire(s)
    \/ \E c \in Calls, b \in Browsers, g \in codes : Callback(c, b, g)
    \/ \E c \in Calls, b \in Browsers, i \in Identities : Popup(c, b, i)
    \/ \E c \in Calls : Handler(c)
    \/ Restart

Spec == Init /\ [][Next]_vars
-----------------------------------------------------------------------------
\* The row that get_current_customer returns for a request of browser b.
CurrentCustomer(b) == customers[session[b]]

Row == [sub : Identities, domain : {DomainOf[i] : i \in Identities},
        email : {EmailOf[i] : i \in Identities}]

Steps == {"check", "exchange", "identify", "find", "guard", "insert", "answered"}
Greeting == [pc : {"greet"}, who : Identities]

Request == [pc : Steps, at : Browsers, who : Identities, state : States \cup {None},
            cookie : States \cup {None}, late : BOOLEAN, rows : Nat, id : Nat,
            isNew : BOOLEAN, answer : {"none", "refused", "conflict", "session", "fault"}]

TypeOK ==
    /\ customers \in Seq(Row)
    /\ jar \in [Browsers -> [Providers -> States \cup {None}]]
    /\ session \in [Browsers -> Ids \cup {None}]
    /\ req \in [Calls -> Request \cup Greeting \cup {New, Done}]
    /\ startedBy \in [States -> Browsers \cup {None}]
    /\ expired \subseteq States /\ burnt \subseteq States
    /\ codes \subseteq Grant /\ spent \subseteq codes
    /\ popups \subseteq Browsers \X Identities
    /\ mails \in [Identities -> Nat]

\* Whoever a browser is signed in as has granted it: at the provider, under a
\* state that /start drew for this very browser, or in its popup.  No order of
\* tabs, reloads, callbacks opened elsewhere and late answers signs a browser
\* in to an account through an attempt that began in another one.
SessionIsOwn ==
    \A b \in Browsers : session[b] # None =>
        LET who == CurrentCustomer(b).sub IN
        \/ \E g \in spent : g.who = who /\ startedBy[g.state] = b
        \/ <<b, who>> \in popups

\* One row per identity and per domain, whatever first logins race.
OneAccount ==
    \A m, n \in Ids : m # n => /\ customers[m].sub # customers[n].sub
                              /\ customers[m].domain # customers[n].domain

\* The reads before the insert do not exclude one another, but the unique columns
\* do, and every value has its type.
AccountsInv == TypeOK /\ OneAccount

\* "Already registered" is said to an identity that has its own account only
\* if that account appeared after this request had looked for it.
ConflictHasReason ==
    \A c \in Calls : (req[c].pc = "answered" /\ req[c].answer = "conflict") =>
        \A n \in RowsWith(Subject(c)) : n > req[c].rows

\* Once a redirect for an attempt has arrived, a callback sent with that
\* attempt's cookie gets no further: a burnt attempt cannot be completed.
BurntStaysBurnt == \A c \in Calls : req[c] \in Request => ~req[c].late

\* A customer is welcomed once at most.
WelcomedOnce ==
    \A i \in Identities : mails[i] <= 1 /\ (mails[i] = 1 => RowsWith(i) # {})
=============================================================================
