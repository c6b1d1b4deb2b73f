--------------------------- MODULE CustomerDomains ---------------------------
(***************************************************************************)
(* What surrounds the domains of module Domains:                           *)
(*                                                                         *)
(*  - the older flow for the one domain an account was registered with     *)
(*    (customers.domain, with a token and a verified flag of its own;      *)
(*    routers/customers.py /verify-domain): its TXT record has the same    *)
(*    name as that of the newer flow;                                      *)
(*  - the SMTP session: a login reads the customer's verified domains, and *)
(*    the gateway keeps the first for as long as the session lasts.        *)
(***************************************************************************)
EXTENDS Domains

CONSTANTS
    Primary,  \* Primary[c]: customers.domain, each with one customer
    Managed,  \* bound: the names that customers add
    Tabs      \* bound: requests of the older flow running at once

ASSUME PrimaryAssumption ==
    /\ Primary \in [Customers -> Names] /\ Managed \subseteq Names
    /\ \A c, d \in Customers : Primary[c] = Primary[d] => c = d

VARIABLES
    primaryToken,     \* customers.domain_verification_token
    primaryVerified,  \* the customers with customers.domain_verified
    tab,              \* tab[q]: the older flow's request q, or Closed
    session           \* the SMTP session's customer and domain, or NoSession

primaryVars == <<primaryToken, primaryVerified, tab>>
customerVars == <<vars, primaryVars, session>>

Closed == [step |-> "idle", c |-> None, token |-> None]
NoSession == [c |-> None, n |-> None]

CustomerInit ==
    /\ Init
    /\ primaryToken = [c \in Customers |-> None] /\ primaryVerified = {}
    /\ tab = [q \in Tabs |-> Closed]
    /\ session = NoSession
-----------------------------------------------------------------------------
Continue(q, step, c, t) == tab' = [tab EXCEPT ![q] = [step |-> step, c |-> c, token |-> t]]
Close(q) == tab' = [tab EXCEPT ![q] = Closed]

\* init_domain_verification: a new token, whether or not there is one.
InitPrimary(q, c) ==
    /\ tab[q] = Closed /\ c \notin primaryVerified
    /\ \E t \in Tokens :
        /\ \A i \in issued : i[3] # t
        /\ issued' = issued \cup {<<c, Primary[c], t>>}
        /\ Continue(q, "settoken", c, t)
    /\ UNCHANGED <<row, dns, req, primaryToken, primaryVerified, session>>

\* set_verification_token, and the token is shown.
SetPrimaryToken(q) ==
    /\ tab[q].step = "settoken"
    /\ primaryToken' = [primaryToken EXCEPT ![tab[q].c] = tab[q].token]
    /\ Close(q)
    /\ UNCHANGED <<vars, primaryVerified, session>>

\* check_domain_verification, up to the DNS lookup.
CheckPrimary(q, c) ==
    /\ tab[q] = Closed /\ c \notin primaryVerified
    /\ primaryToken[c] # None
    /\ Continue(q, "dns", c, primaryToken[c])
    /\ UNCHANGED <<vars, primaryToken, primaryVerified, session>>

\* The lookup finds the token, or fails, times out or does not see it yet.
LookupPrimaryMutant(q) ==
    /\ tab[q].step = "dns"
    /\ \/ dns[Primary[tab[q].c]] # {} /\ Continue(q, "mark", tab[q].c, tab[q].token)
       \/ Close(q)
    /\ UNCHANGED <<vars, primaryToken, primaryVerified, session>>
LookupPrimary(q) ==
    /\ tab[q].step = "dns"
    /\ \/ /\ tab[q].token \in dns[Primary[tab[q].c]]
          /\ Continue(q, "mark", tab[q].c, tab[q].token)
       \/ Close(q)
    /\ UNCHANGED <<vars, primaryToken, primaryVerified, session>>

\* mark_domain_verified.
MarkPrimary(q) ==
    /\ tab[q].step = "mark"
    /\ primaryVerified' = primaryVerified \cup {tab[q].c}
    /\ Close(q)
    /\ UNCHANGED <<vars, primaryToken, session>>

PrimaryStep(q) ==
    \/ \E c \in Customers : InitPrimary(q, c) \/ CheckPrimary(q, c)
    \/ SetPrimaryToken(q) \/ LookupPrimary(q) \/ MarkPrimary(q)
-----------------------------------------------------------------------------
\* /internal/smtp-auth for a right password: the oldest verified domain, if
\* there is one; the gateway keeps it in the session.
LogInMutant(c) ==
    /\ session = NoSession
    /\ session' \in [c : {c}, n : {n \in Names : Entry(c, n)} \cup {None}]
    /\ UNCHANGED <<vars, primaryVars>>
LogIn(c) ==
    /\ session = NoSession
    /\ session' \in [c : {c}, n : IF Verified(c) = {} THEN {None} ELSE Verified(c)]
    /\ UNCHANGED <<vars, primaryVars>>

\* The client disconnects.
Quit ==
    /\ session # NoSession /\ session' = NoSession
    /\ UNCHANGED <<vars, primaryVars>>

\* A step of the newer flow; a token is published once it was shown.
DomainStep ==
    /\ \/ \E r \in Requests :
            \/ \E c \in Customers, n \in Managed :
                Add(r, c, n) \/ InitVerify(r, c, n) \/ Check(r, c, n) \/ Remove(r, c, n)
            \/ Insert(r) \/ SetToken(r) \/ Lookup(r) \/ Mark(r) \/ Delete(r)
       \/ \E c \in Customers, n \in Names, t \in Tokens :
            /\ \A q \in Tabs : tab[q].step = "settoken" => tab[q].token # t
            /\ Publish(c, n, t)
    /\ UNCHANGED <<primaryVars, session>>

CustomerNext ==
    \/ DomainStep
    \/ \E q \in Tabs : PrimaryStep(q)
    \/ \E c \in Customers : LogIn(c)
    \/ Quit

CustomerSpec == CustomerInit /\ [][CustomerNext]_customerVars
-----------------------------------------------------------------------------
\* The domain an account was registered with counts as verified only for a
\* customer that controls it, though others publish tokens under the same name.
PrimaryMeansControl == \A c \in primaryVerified : <<c, Primary[c]>> \in Controls

\* The domain an open session sends for is one its customer controls, also after
\* the domain was removed or went to another customer meanwhile.
SessionMeansControl == session.n # None => <<session.c, session.n>> \in Controls
=============================================================================
