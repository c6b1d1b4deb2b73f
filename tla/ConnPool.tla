------------------------------ MODULE ConnPool -------------------------------
(***************************************************************************)
(* The backend's requests and the asyncpg pool they share (main.py creates *)
(* it with max_size 10; acquire waits without a limit).  A request holds   *)
(* connections by the shape of its handler:                                *)
(*                                                                         *)
(*   scoped  get_conn's connection, from before the handler to its end     *)
(*   serial  one connection, returned, and then another (get_rules,        *)
(*           smtp_auth, the admin guard and the handler behind it)         *)
(*   nested  get_conn's connection and, while holding it, a second one     *)
(*           from the pool (every route of ai_policies.py, whose           *)
(*           get_current_customer depends on get_conn; admin performance)  *)
(*   health  one connection, waited for at most a second                   *)
(***************************************************************************)
EXTENDS FiniteSets

CONSTANTS Requests, ShapeOf, Conns

Shapes == {"scoped", "serial", "nested", "health"}

ASSUME PoolAssumption ==
    ShapeOf \in [Requests -> Shapes] /\ IsFiniteSet(Conns) /\ Conns # {}

VARIABLES
    pc,     \* pc[r]: where request r's handler is
    holds,  \* holds[r]: the connections it has acquired
    idle    \* the connections in the pool

vars == <<pc, holds, idle>>

Init ==
    /\ pc = [r \in Requests |-> "new"]
    /\ holds = [r \in Requests |-> {}]
    /\ idle = Conns

Shape(r) == ShapeOf[r]
-----------------------------------------------------------------------------
Go(r, s) == pc' = [pc EXCEPT ![r] = s]

\* The request reaches its first pool.acquire().
Arrive(r) ==
    /\ pc[r] = "new" /\ Go(r, "first")
    /\ UNCHANGED <<holds, idle>>

\* pool.acquire() returns.
Acquire(r, next) ==
    /\ Go(r, next)
    /\ \E c \in idle : /\ holds' = [holds EXCEPT ![r] = @ \cup {c}]
                       /\ idle' = idle \ {c}

First(r) == pc[r] = "first" /\ Acquire(r, "one")

\* A nested handler asks for its second connection with the first in hand.
AskMore(r) ==
    /\ pc[r] = "one" /\ Shape(r) = "nested" /\ Go(r, "more")
    /\ UNCHANGED <<holds, idle>>

\* A serial handler returns its first connection before it asks again.
HandBackMutant(r) ==
    /\ pc[r] = "one" /\ Shape(r) = "serial" /\ Go(r, "more")
    /\ UNCHANGED <<holds, idle>>
HandBack(r) ==
    /\ pc[r] = "one" /\ Shape(r) = "serial" /\ Go(r, "more")
    /\ idle' = idle \cup holds[r]
    /\ holds' = [holds EXCEPT ![r] = {}]

More(r) == pc[r] = "more" /\ Acquire(r, "two")

\* The handler returns or raises: every async with gives its connection back.
\* A scoped or health handler ends on its first connection; any may fail there.
ReturnMutant(r) ==
    /\ pc[r] \in {"one", "two"} /\ Go(r, "done")
    /\ UNCHANGED <<holds, idle>>
Return(r) ==
    /\ pc[r] \in {"one", "two"} /\ Go(r, "done")
    /\ idle' = idle \cup holds[r]
    /\ holds' = [holds EXCEPT ![r] = {}]

\* The readiness probe stops waiting after a second and answers 503.
GiveUp(r) ==
    /\ pc[r] = "first" /\ Shape(r) = "health" /\ Go(r, "done")
    /\ UNCHANGED <<holds, idle>>

Step(r) == First(r) \/ AskMore(r) \/ HandBack(r) \/ More(r) \/ Return(r) \/ GiveUp(r)

Next == \E r \in Requests : Arrive(r) \/ Step(r)

Spec == Init /\ [][Next]_vars

\* The event loop runs what can run, and every query returns or fails.
FairSpec == Spec /\ \A r \in Requests : WF_vars(Step(r))
-----------------------------------------------------------------------------
\* A connection is in the pool or with exactly one request, and an answered
\* request has none: none leaks, and no two handlers speak on one.
OneHolder ==
    /\ \A c \in Conns : c \in idle \/ \E r \in Requests : c \in holds[r]
    /\ \A r \in Requests : /\ holds[r] \subseteq Conns \ idle
                           /\ pc[r] = "done" => holds[r] = {}
    /\ \A r, s \in Requests : r # s => holds[r] \cap holds[s] = {}

\* Every request that starts is answered: the requests never exhaust the pool
\* among themselves for good.  (A request is answered once, so that none being
\* under way again and again says that each is.)
EveryRequestAnswered == []<>(\A r \in Requests : pc[r] \in {"new", "done"})
=============================================================================
