---------------------------- MODULE RelayPromise ----------------------------
(***************************************************************************)
(* What the SMTP gateway promises about one DATA transaction, without      *)
(* saying how: a transaction is opened by a submission, its message is     *)
(* handed to the outbound relay at most once, and it is closed by exactly  *)
(* one answer.                                                             *)
(*                                                                         *)
(*   accepted   250: the message was handed over (or is a connection test) *)
(*   rejected   a refusal given before the relay was ever involved         *)
(*   deferred   451: the relay reported a failure, which may still hide a  *)
(*              delivery                                                   *)
(*   lost       no answer reached the client (disconnect or crash)         *)
(*                                                                         *)
(* A lost transaction may still be handed over, by a relay call that was   *)
(* running when its handler was cancelled.  No other closed one may.       *)
(***************************************************************************)
CONSTANT Txns,     \* transactions: one submission of one message each
         Exempt    \* those that may carry a connection test

VARIABLES answer,  \* answer[t]: how transaction t stands
          handed   \* the transactions whose message reached the relay

promiseVars == <<answer, handed>>

Answers == {"unsent", "open", "accepted", "rejected", "deferred", "lost"}

PromiseTypeOK == /\ answer \in [Txns -> Answers]
                 /\ handed \subseteq Txns

PromiseInit == /\ answer = [t \in Txns |-> "unsent"]
               /\ handed = {}

Open(t) == /\ answer[t] = "unsent"
           /\ answer' = [answer EXCEPT ![t] = "open"]
           /\ UNCHANGED handed

HandOver(t) == /\ answer[t] \in {"open", "lost"}
               /\ t \notin handed
               /\ handed' = handed \cup {t}
               /\ UNCHANGED answer

Accept(t) == /\ answer[t] = "open"
             /\ t \in handed \cup Exempt
             /\ answer' = [answer EXCEPT ![t] = "accepted"]
             /\ UNCHANGED handed

Reject(t) == /\ answer[t] = "open"
             /\ t \notin handed
             /\ answer' = [answer EXCEPT ![t] = "rejected"]
             /\ UNCHANGED handed

Defer(t) == /\ answer[t] = "open"
            /\ answer' = [answer EXCEPT ![t] = "deferred"]
            /\ UNCHANGED handed

\* A disconnect loses one transaction, a crash every open one.
Lose(ts) == /\ ts # {}
            /\ \A t \in ts : answer[t] = "open"
            /\ answer' = [t \in Txns |-> IF t \in ts THEN "lost" ELSE answer[t]]
            /\ UNCHANGED handed

PromiseNext == \/ \E t \in Txns : \/ Open(t) \/ HandOver(t) \/ Accept(t)
                                  \/ Reject(t) \/ Defer(t)
               \/ \E ts \in SUBSET Txns : Lose(ts)

PromiseSpec == PromiseInit /\ [][PromiseNext]_promiseVars
=============================================================================
