------------------------ MODULE AdminPanel_proofs ---------------------------
(***************************************************************************)
(* Proof that the webhook's token cache accepts each token once, whatever  *)
(* the tolerance, the size of the cache and the order of the deliveries,   *)
(* as long as neither an overflow nor a restart drops the token; and that  *)
(* the admin panel beside it keeps its cap and audits what it answers.     *)
(***************************************************************************)
EXTENDS AdminPanel, SequenceTheorems, TLAPS

\* Entry i was recorded while token k was not yet too old.
Guards(s, i, k) == s[i][1] = k /\ s[i][2] >= Stamp[k] - Tolerance

\* Recording an entry at the end of a cache that may have lost its head.
LEMMA TailIsSeq == ASSUME NEW S, NEW s \in Seq(S), Len(s) > 0
                   PROVE  /\ Tail(s) \in Seq(S) /\ Len(Tail(s)) = Len(s) - 1
                          /\ \A i \in 2..Len(s) : i - 1 \in 1..Len(Tail(s)) /\ Tail(s)[i - 1] = s[i]
OBVIOUS

LEMMA AppendKeeps == ASSUME NEW S, NEW s \in Seq(S), NEW x \in S
                     PROVE  /\ Append(s, x) \in Seq(S)
                            /\ Len(Append(s, x)) = Len(s) + 1
                            /\ Len(Append(s, x)) \in 1..Len(Append(s, x))
                            /\ Append(s, x)[Len(Append(s, x))] = x
                            /\ \A i \in 1..Len(s) : /\ i \in 1..Len(Append(s, x))
                                                   /\ Append(s, x)[i] = s[i]
OBVIOUS

\* What is left of a sequence keeps its order.
LEMMA SuffixAt ==
    ASSUME NEW S, NEW s \in Seq(S), NEW n \in 0..Len(s), NEW i \in 1..Len(s), i > n
    PROVE  /\ i - n \in 1..Len(SubSeq(s, n + 1, Len(s)))
           /\ SubSeq(s, n + 1, Len(s))[i - n] = s[i]
<1>1. Len(s) \in Nat /\ n \in Nat /\ i \in Nat /\ n < Len(s)
      OBVIOUS
<1>2. /\ Len(SubSeq(s, n + 1, Len(s))) = IF n + 1 <= Len(s) THEN Len(s) - (n + 1) + 1 ELSE 0
      /\ \A k \in 1..(Len(s) - (n + 1) + 1) :
             SubSeq(s, n + 1, Len(s))[k] = s[(n + 1) + k - 1]
  <2>1. n + 1 \in Int /\ Len(s) \in Int /\ \A k \in (n + 1)..Len(s) : s[k] \in S
        BY <1>1
  <2> QED BY <2>1, SubSeqProperties
<1>3. /\ i - n \in 1..(Len(s) - (n + 1) + 1) /\ (n + 1) + (i - n) - 1 = i
      /\ n + 1 <= Len(s) /\ Len(s) - (n + 1) + 1 = Len(s) - n
      BY <1>1
<1>4. Len(SubSeq(s, n + 1, Len(s))) = Len(s) - (n + 1) + 1
      BY <1>2, <1>3
<1> QED BY <1>2, <1>3, <1>4, Zenon

LEMMA Initially == Init => WebhookInv
BY DEF Init, WebhookInv, TypeOK, SingleUse, CachedWhileFresh

\* What a delivery does to the cache: an entry that guards a token stays, or the
\* token is too old by now, or it was forgotten.
LEMMA DeliverKeepsGuards ==
    ASSUME TypeOK, NEW k \in Tokens, Deliver(k), NEW j \in Tokens \ forgot',
           NEW i \in 1..Len(seen), Guards(seen, i, j)
    PROVE  \/ \E m \in 1..Len(seen') : Guards(seen', m, j)
           \/ clock > Stamp[j] + Tolerance
<1>1. /\ clock \in Nat /\ Tolerance \in Nat /\ Stamp[j] \in Nat /\ CacheMax \in Nat \ {0}
      /\ seen \in Seq(Tokens \X Nat)
      BY WebhookAssumption DEF WebhookAssumption, TypeOK
<1>2. PICK n \in 0..Len(seen) :
        /\ Evicts(n)
        /\ LET live == SubSeq(seen, n + 1, Len(seen))
           IN  seen' = live \/ Record(k, live)
      BY DEF Deliver
<1> DEFINE live == SubSeq(seen, n + 1, Len(seen))
<1>3. CASE i <= n
  <2>1. seen[i][2] < clock - 2 * Tolerance
        BY <1>2, <1>3 DEF Evicts, Expired
  <2>2. seen[i] \in Tokens \X Nat
        BY <1>1
  <2> QED BY <1>1, <2>1, <2>2 DEF Guards
<1>4. CASE i > n
  <2>1. /\ live \in Seq(Tokens \X Nat)
        /\ i - n \in 1..Len(live) /\ live[i - n] = seen[i]
        BY <1>1, <1>2, <1>4, SuffixAt
  <2>2. Guards(live, i - n, j)
        BY <2>1 DEF Guards
  <2>3. CASE seen' = live
        BY <2>1, <2>2, <2>3
  <2>0. <<k, clock>> \in Tokens \X Nat
        BY <1>1
  <2> HIDE DEF live
  <2>4. CASE Record(k, live) /\ ~(Len(live) >= CacheMax)
    <3>1. seen' = Append(live, <<k, clock>>)
          BY <2>4 DEF Record
    <3>2. i - n \in 1..Len(seen') /\ seen'[i - n] = live[i - n]
          BY <2>0, <2>1, <3>1, AppendKeeps
    <3> QED BY <2>2, <3>2 DEF Guards
  <2>5. CASE Record(k, live) /\ Len(live) >= CacheMax
    <3>1. seen' = Append(Tail(live), <<k, clock>>) /\ live[1][1] # j
          BY <1>1, <2>1, <2>5 DEF Record
    <3>2. i - n # 1
          BY <2>2, <3>1 DEF Guards
    <3>3. Len(live) > 0 /\ i - n \in 2..Len(live)
          BY <1>1, <2>1, <2>5, <3>2
    <3>4. /\ Tail(live) \in Seq(Tokens \X Nat)
          /\ i - n - 1 \in 1..Len(Tail(live)) /\ Tail(live)[i - n - 1] = live[i - n]
          BY <2>1, <3>3, TailIsSeq
    <3>5. i - n - 1 \in 1..Len(seen') /\ seen'[i - n - 1] = live[i - n]
          BY <2>0, <3>1, <3>4, AppendKeeps
    <3> QED BY <2>2, <3>5 DEF Guards
  <2>6. seen' = live \/ Record(k, live)
        BY <1>2 DEF live
  <2> QED BY <2>3, <2>4, <2>5, <2>6
<1> QED BY <1>1, <1>2, <1>3, <1>4

LEMMA DeliverKeepsType == ASSUME TypeOK, NEW k \in Tokens, Deliver(k) PROVE TypeOK'
<1>1. /\ clock \in Nat /\ seen \in Seq(Tokens \X Nat) /\ CacheMax \in Nat \ {0}
      BY WebhookAssumption DEF WebhookAssumption, TypeOK
<1>2. PICK n \in 0..Len(seen) :
        LET live == SubSeq(seen, n + 1, Len(seen))
        IN  \/ seen' = live /\ UNCHANGED <<accepted, repeated, writing, forgot>>
            \/ Record(k, live) /\ (Accepts(k) \/ UNCHANGED <<accepted, repeated, writing>>)
      BY DEF Deliver
<1> DEFINE live == SubSeq(seen, n + 1, Len(seen))
<1>3. live \in Seq(Tokens \X Nat)
      BY <1>1, <1>2
<1>4. <<k, clock>> \in Tokens \X Nat
      BY <1>1
<1>5. ASSUME Len(live) >= CacheMax PROVE Tail(live) \in Seq(Tokens \X Nat)
  <2> HIDE DEF live
  <2>1. Len(live) \in Nat
        BY <1>3
  <2>2. Len(live) > 0
        BY <1>1, <1>5, <2>1
  <2> QED BY <1>3, <2>2, TailIsSeq
<1>6. seen' \in Seq(Tokens \X Nat)
  <2>1. CASE seen' = live
        BY <1>3, <2>1
  <2>2. CASE Record(k, live) /\ Len(live) >= CacheMax
    <3>1. seen' = Append(Tail(live), <<k, clock>>)
          BY <2>2 DEF Record
    <3> QED BY <1>4, <1>5, <2>2, <3>1
  <2>3. CASE Record(k, live) /\ ~(Len(live) >= CacheMax)
    <3>1. seen' = Append(live, <<k, clock>>)
          BY <2>3 DEF Record
    <3> QED BY <1>3, <1>4, <3>1
  <2> QED BY <1>2, <2>1, <2>2, <2>3
<1>7. forgot' \subseteq Tokens
      BY <1>2 DEF Record, TypeOK
<1>8. accepted' \subseteq Tokens /\ repeated' \subseteq Tokens /\ writing' \subseteq Tokens
      BY <1>2 DEF Record, Accepts, TypeOK
<1>9. clock' = clock /\ rows' = rows
      BY DEF Deliver
<1> QED BY <1>6, <1>7, <1>8, <1>9 DEF TypeOK

\* A delivery: a token accepted before is still in the cache, so the same token
\* is accepted again only once it was forgotten.
LEMMA DeliverKeepsInv == ASSUME WebhookInv, NEW k \in Tokens, Deliver(k) PROVE WebhookInv'
<1>1. /\ TypeOK /\ SingleUse /\ CachedWhileFresh
      BY DEF WebhookInv
<1>2. /\ clock \in Nat /\ Tolerance \in Nat /\ Stamp[k] \in Nat /\ CacheMax \in Nat \ {0}
      /\ seen \in Seq(Tokens \X Nat) /\ accepted \subseteq Tokens
      BY <1>1, WebhookAssumption DEF WebhookAssumption, TypeOK
<1>3. PICK n \in 0..Len(seen) :
        /\ Evicts(n)
        /\ LET live == SubSeq(seen, n + 1, Len(seen))
           IN  \/ UNCHANGED <<accepted, repeated, forgot>>
               \/ /\ ~Cached(live, k)
                  /\ Record(k, live)
                  /\ Accepts(k) \/ UNCHANGED <<accepted, repeated>>
      BY DEF Deliver
<1> DEFINE live == SubSeq(seen, n + 1, Len(seen))
<1>4. forgot \subseteq forgot' /\ clock' = clock /\ Fresh(k)
      BY <1>3 DEF Record, Deliver
<1>5. TypeOK'
      BY <1>1, DeliverKeepsType
<1>6. ASSUME k \in accepted \ forgot, ~Cached(live, k) PROVE FALSE
  <2>0. ~(clock > Stamp[k] + Tolerance)
        BY <1>2, <1>4 DEF Fresh
  <2>1. PICK i \in 1..Len(seen) : Guards(seen, i, k)
        BY <1>1, <1>6, <2>0 DEF CachedWhileFresh, Guards
  <2>2. seen[i] \in Tokens \X Nat
        BY <1>2
  <2>3. CASE i <= n
    <3>1. seen[i][2] < clock - 2 * Tolerance
          BY <1>3, <2>3 DEF Evicts, Expired
    <3> QED BY <1>2, <1>4, <2>1, <2>2, <3>1 DEF Guards, Fresh
  <2>4. CASE i > n
    <3>1. i - n \in 1..Len(live) /\ live[i - n] = seen[i]
          BY <1>2, <2>4, SuffixAt
    <3> QED BY <1>6, <2>1, <3>1 DEF Cached, Guards
  <2> QED BY <1>2, <1>3, <2>3, <2>4
<1>7. SingleUse'
  <2>1. CASE repeated' = repeated
        BY <1>1, <1>4, <2>1 DEF SingleUse
  <2>2. CASE Accepts(k) /\ ~Cached(live, k)
        BY <1>1, <1>4, <1>6, <2>2 DEF SingleUse, Accepts
  <2> QED BY <1>3, <2>1, <2>2
<1>8. ASSUME NEW j \in accepted' \ forgot'
      PROVE  \/ \E m \in 1..Len(seen') : Guards(seen', m, j)
             \/ clock > Stamp[j] + Tolerance
  <2>1. CASE j \in accepted
    <3>1. CASE \E i \in 1..Len(seen) : Guards(seen, i, j)
          BY <1>1, <1>2, <1>8, <2>1, <3>1, DeliverKeepsGuards
    <3>2. CASE clock > Stamp[j] + Tolerance
          BY <3>2
    <3> QED BY <1>1, <1>4, <1>8, <2>1, <3>1, <3>2 DEF CachedWhileFresh, Guards
  <2>2. CASE j \notin accepted
    <3>1. j = k /\ Record(k, live)
          BY <1>3, <1>8, <2>2 DEF Accepts
    <3> DEFINE kept == IF Len(live) >= CacheMax THEN Tail(live) ELSE live
    <3>2. seen' = Append(kept, <<k, clock>>)
          BY <3>1 DEF Record
    <3>3. live \in Seq(Tokens \X Nat)
          BY <1>2, <1>3
    <3>4. kept \in Seq(Tokens \X Nat)
      <4> HIDE DEF live
      <4>1. Len(live) >= CacheMax => Len(live) > 0
            BY <1>2, <3>3
      <4> QED BY <3>3, <4>1, TailIsSeq
    <3>5. Len(seen') \in 1..Len(seen') /\ seen'[Len(seen')] = <<k, clock>>
      <4> HIDE DEF kept
      <4>1. <<k, clock>> \in Tokens \X Nat
            BY <1>2
      <4> QED BY <3>2, <3>4, <4>1, AppendKeeps
    <3>6. clock >= Stamp[k] - Tolerance
          BY <1>2, <1>4 DEF Fresh
    <3>7. Guards(seen', Len(seen'), k)
          BY <3>5, <3>6 DEF Guards
    <3> QED BY <3>1, <3>5, <3>7
  <2> QED BY <2>1, <2>2
<1>9. CachedWhileFresh'
      BY <1>4, <1>8 DEF CachedWhileFresh, Guards
<1> QED BY <1>5, <1>7, <1>9 DEF WebhookInv

\* A restart forgets every token it drops.
LEMMA RestartKeepsInv == ASSUME WebhookInv, Restart PROVE WebhookInv'
<1>1. TypeOK'
      BY DEF WebhookInv, Restart, TypeOK
<1>2. SingleUse'
      BY DEF WebhookInv, Restart, SingleUse
<1>3. CachedWhileFresh'
      BY DEF WebhookInv, Restart, CachedWhileFresh, Cached, TypeOK
<1> QED BY <1>1, <1>2, <1>3 DEF WebhookInv

\* The writes, the admin and the clock leave the cache alone.
LEMMA OthersKeepInv ==
    ASSUME WebhookInv,
           \/ \E k \in Tokens : Upsert(k)
           \/ \E e \in Emails : AdminRemove(e)
           \/ Tick \/ UNCHANGED vars
    PROVE  WebhookInv'
<1>1. /\ seen' = seen /\ accepted' = accepted /\ repeated' = repeated /\ forgot' = forgot
      /\ clock' = clock \/ clock' = clock + 1
      BY DEF Upsert, AdminRemove, Tick, vars
<1>2. clock \in Nat /\ \A k \in accepted : Stamp[k] \in Nat /\ Tolerance \in Nat
      BY WebhookAssumption DEF WebhookAssumption, WebhookInv, TypeOK
<1>3. writing' \subseteq Tokens
      BY DEF Upsert, AdminRemove, Tick, vars, WebhookInv, TypeOK
<1>4. rows' \subseteq (Customers \cup {NoCustomer}) \X Emails
  <2>1. \A k \in Tokens : <<Tag[k], Email[k]>> \in (Customers \cup {NoCustomer}) \X Emails
        BY WebhookAssumption DEF WebhookAssumption
  <2> QED BY <2>1 DEF Upsert, AdminRemove, Tick, vars, WebhookInv, TypeOK
<1>5. TypeOK' /\ SingleUse'
      BY <1>1, <1>2, <1>3, <1>4 DEF WebhookInv, TypeOK, SingleUse
<1>6. CachedWhileFresh'
      BY <1>1, <1>2 DEF WebhookInv, CachedWhileFresh
<1> QED BY <1>5, <1>6 DEF WebhookInv

LEMMA WebhookStep == WebhookInv /\ [Next]_vars => WebhookInv'
BY DeliverKeepsInv, RestartKeepsInv, OthersKeepInv DEF Next

\* Each webhook token is accepted once, however often it is delivered, for as
\* long as the cache has not lost it.
THEOREM WebhookHolds == Spec => []WebhookInv
<1> QED BY Initially, WebhookStep, PTL DEF Spec
-----------------------------------------------------------------------------
(***************************************************************************)
(* The panel.                                                              *)
(***************************************************************************)
\* The counter of the running minute is never behind the calls it let pass; the
\* minutes to come have no row.
CounterOk ==
    /\ minute \in 0..MaxMinute
    /\ hits \in [Ips -> [0..MaxMinute -> Nat]]
    /\ passed \in [Ips -> Nat]
    /\ \A i \in Ips : passed[i] <= hits[i][minute] /\ passed[i] <= Limit

\* What a call carries from one of its steps to the next.
CallOk ==
    /\ call.pc \in {"idle", "limit", "refuse", "remove", "audit", "answered"}
    /\ call.pc = "limit" => call.ip \in Ips
    /\ call.pc \in {"limit", "remove"} => call.email \in Emails
    /\ call.pc = "refuse" => call.code \in {401, 403, 429}
    /\ call.pc = "audit" => call.code = IF call.removed THEN 200 ELSE 404
    /\ AnswersAreAudited

PanelInv == WebhookInv /\ CounterOk /\ CallOk

LEMMA PanelInitially == PanelInit => PanelInv
<1> SUFFICES ASSUME PanelInit PROVE PanelInv
    OBVIOUS
<1>1. WebhookInv
      BY Initially DEF PanelInit
<1>2. CounterOk
      BY AdminAssumption DEF PanelInit, CounterOk
<1>3. CallOk
      BY DEF PanelInit, NoCall, CallOk, AnswersAreAudited
<1> QED BY <1>1, <1>2, <1>3 DEF PanelInv

LEMMA SecretKeeps == ASSUME CheckSecret, call.email \in Emails PROVE CallOk'
<1>1. CASE call.secret
      BY <1>1 DEF CheckSecret, CallOk, AnswersAreAudited
<1>2. CASE ~call.secret
      BY <1>2 DEF CheckSecret, Refused, CallOk, AnswersAreAudited
<1> QED BY <1>1, <1>2

\* The purge removes minutes before the current one only.
LEMMA PurgeKeeps ==
    ASSUME CounterOk, NEW h \in [Ips -> [0..MaxMinute -> Nat]]
    PROVE  /\ Purged(h) \in [Ips -> [0..MaxMinute -> Nat]]
           /\ \A i \in Ips : Purged(h)[i][minute] = h[i][minute]
<1>1. /\ minute \in 0..MaxMinute /\ minute \in Nat /\ ~(minute + KeepMinutes <= minute)
      BY AdminAssumption DEF CounterOk
<1>2. Purged(h) \in [Ips -> [0..MaxMinute -> Nat]]
      BY DEF Purged
<1>3. \A i \in Ips : Purged(h)[i][minute] = h[i][minute]
      BY <1>1 DEF Purged
<1> QED BY <1>2, <1>3

\* One more hit in the running minute.
LEMMA CountedKeeps ==
    ASSUME CounterOk, NEW i \in Ips
    PROVE  LET counted == [hits EXCEPT ![i][minute] = @ + 1] IN
           /\ counted \in [Ips -> [0..MaxMinute -> Nat]]
           /\ counted[i][minute] = hits[i][minute] + 1
           /\ \A j \in Ips \ {i} : counted[j][minute] = hits[j][minute]
<1> DEFINE row == [hits[i] EXCEPT ![minute] = hits[i][minute] + 1]
           counted == [hits EXCEPT ![i] = row]
<1>0. minute \in 0..MaxMinute /\ hits \in [Ips -> [0..MaxMinute -> Nat]]
      BY DEF CounterOk
<1>1. hits[i] \in [0..MaxMinute -> Nat] /\ hits[i][minute] + 1 \in Nat
  <2>1. hits[i] \in [0..MaxMinute -> Nat]
        BY <1>0
  <2>2. hits[i][minute] \in Nat
        BY <1>0, <2>1
  <2> QED BY <2>1, <2>2
<1>2. row \in [0..MaxMinute -> Nat] /\ row[minute] = hits[i][minute] + 1
      BY <1>0, <1>1
<1> HIDE DEF row
<1>3. /\ counted \in [Ips -> [0..MaxMinute -> Nat]] /\ counted[i] = row
      /\ \A j \in Ips \ {i} : counted[j] = hits[j]
      BY <1>0, <1>2
<1>4. counted = [hits EXCEPT ![i][minute] = @ + 1]
      BY DEF row
<1> HIDE DEF counted
<1>5. counted[i][minute] = hits[i][minute] + 1
      BY <1>2, <1>3
<1> QED BY <1>3, <1>4, <1>5

LEMMA HitKeeps == ASSUME PanelInv, Hit PROVE CounterOk' /\ CallOk'
<1> DEFINE counted == [hits EXCEPT ![call.ip][minute] = @ + 1]
<1>1. /\ call.ip \in Ips /\ call.email \in Emails /\ CounterOk /\ minute' = minute
      /\ hits' \in {counted, Purged(counted)}
      /\ IF counted[call.ip][minute] <= Limit
         THEN CheckSecret /\ passed' = [passed EXCEPT ![call.ip] = @ + 1]
         ELSE call' = Refused(429) /\ UNCHANGED passed
      BY DEF PanelInv, CallOk, Hit
<1>2. /\ counted \in [Ips -> [0..MaxMinute -> Nat]]
      /\ counted[call.ip][minute] = hits[call.ip][minute] + 1
      /\ \A j \in Ips \ {call.ip} : counted[j][minute] = hits[j][minute]
      BY <1>1, CountedKeeps
<1> HIDE DEF counted
<1>3. /\ hits' \in [Ips -> [0..MaxMinute -> Nat]]
      /\ \A j \in Ips : hits'[j][minute] = counted[j][minute]
      BY <1>1, <1>2, PurgeKeeps
<1>4. /\ minute \in 0..MaxMinute /\ passed \in [Ips -> Nat] /\ Limit \in Nat
      /\ \A i \in Ips : /\ passed[i] \in Nat /\ hits[i][minute] \in Nat
                        /\ passed[i] <= hits[i][minute] /\ passed[i] <= Limit
      BY <1>1, AdminAssumption DEF CounterOk
<1>5. CASE counted[call.ip][minute] <= Limit
  <2>1. /\ passed' \in [Ips -> Nat] /\ passed'[call.ip] = passed[call.ip] + 1
        /\ \A j \in Ips \ {call.ip} : passed'[j] = passed[j]
        BY <1>1, <1>4, <1>5
  <2>2. passed'[call.ip] <= hits'[call.ip][minute] /\ passed'[call.ip] <= Limit
        BY <1>1, <1>2, <1>3, <1>4, <1>5, <2>1
  <2>3. \A j \in Ips \ {call.ip} : passed'[j] <= hits'[j][minute] /\ passed'[j] <= Limit
        BY <1>2, <1>3, <1>4, <2>1
  <2>4. CounterOk'
        BY <1>1, <1>3, <1>4, <2>1, <2>2, <2>3 DEF CounterOk
  <2> QED BY <1>1, <1>5, <2>4, SecretKeeps
<1>6. CASE ~(counted[call.ip][minute] <= Limit)
  <2>1. passed' = passed /\ call' = Refused(429)
        BY <1>1, <1>6
  <2>2. \A j \in Ips : passed'[j] <= hits'[j][minute] /\ passed'[j] <= Limit
        BY <1>1, <1>2, <1>3, <1>4, <2>1
  <2>3. CounterOk'
        BY <1>1, <1>3, <1>4, <2>1, <2>2 DEF CounterOk
  <2>4. CallOk'
        BY <2>1 DEF Refused, CallOk, AnswersAreAudited
  <2> QED BY <2>3, <2>4
<1> QED BY <1>5, <1>6

LEMMA HitFailsKeeps == ASSUME PanelInv, HitFails PROVE CounterOk' /\ CallOk'
<1> DEFINE counted == [hits EXCEPT ![call.ip][minute] = @ + 1]
<1>1. /\ call.ip \in Ips /\ call.email \in Emails /\ CounterOk
      /\ minute' = minute /\ passed' = passed
      /\ hits' \in {hits, counted} /\ CheckSecret
      BY DEF PanelInv, CallOk, HitFails
<1>2. /\ counted \in [Ips -> [0..MaxMinute -> Nat]]
      /\ counted[call.ip][minute] = hits[call.ip][minute] + 1
      /\ \A j \in Ips \ {call.ip} : counted[j][minute] = hits[j][minute]
      BY <1>1, CountedKeeps
<1> HIDE DEF counted
<1>3. \A i \in Ips : hits[i][minute] \in Nat /\ passed[i] \in Nat
      BY <1>1 DEF CounterOk
<1>4. ASSUME NEW i \in Ips PROVE passed[i] <= counted[i][minute]
  <2>1. passed[i] <= hits[i][minute] /\ hits[i][minute] \in Nat /\ passed[i] \in Nat
        BY <1>1, <1>3 DEF CounterOk
  <2>2. counted[i][minute] \in {hits[i][minute], hits[i][minute] + 1}
        BY <1>2
  <2> QED BY <2>1, <2>2
<1>5. CounterOk'
      BY <1>1, <1>2, <1>4 DEF CounterOk
<1> QED BY <1>1, <1>5, SecretKeeps

\* The other steps of a call leave the counter alone.
LEMMA CallKeeps ==
    ASSUME PanelInv,
           \/ \E ip \in Ips, secret \in BOOLEAN, e \in Emails : Call(ip, secret, e)
           \/ Refuse \/ Remove \/ RemoveFails \/ Audit
    PROVE  CounterOk' /\ CallOk'
<1>1. UNCHANGED <<minute, hits, passed>>
      BY DEF Call, Refuse, Remove, RemoveFails, Audit, limitVars
<1>2. CounterOk'
      BY <1>1 DEF PanelInv, CounterOk
<1>3. ASSUME NEW ip \in Ips, NEW secret \in BOOLEAN, NEW e \in Emails, Call(ip, secret, e)
      PROVE  CallOk'
      BY <1>3 DEF Call, Refused, CallOk, AnswersAreAudited
<1>4. ASSUME Refuse PROVE CallOk'
      BY <1>4 DEF Refuse, Answered, PanelInv, CallOk, AnswersAreAudited
<1>5. ASSUME Remove PROVE CallOk'
      BY <1>5 DEF Remove, CallOk, AnswersAreAudited
<1>6. ASSUME RemoveFails PROVE CallOk'
      BY <1>6 DEF RemoveFails, Answered, CallOk, AnswersAreAudited
<1>7. ASSUME Audit PROVE CallOk'
      BY <1>7 DEF Audit, Answered, PanelInv, CallOk, AnswersAreAudited
<1> QED BY <1>2, <1>3, <1>4, <1>5, <1>6, <1>7

\* A new minute starts to count at nothing; the webhook's side does not count.
LEMMA OutsideKeeps ==
    ASSUME PanelInv, NextMinute \/ WebhookMoves \/ UNCHANGED panelVars
    PROVE  CounterOk' /\ CallOk'
<1>1. CallOk'
  <2>1. call' = call \/ call' = NoCall
        BY DEF NextMinute, WebhookMoves, panelVars
  <2> QED BY <2>1 DEF PanelInv, CallOk, AnswersAreAudited, NoCall
<1>2. CASE NextMinute
  <2>1. /\ hits' = hits /\ minute' = minute + 1 /\ minute' \in 0..MaxMinute
        /\ passed' \in [Ips -> Nat] /\ \A i \in Ips : passed'[i] = 0
        BY <1>2, AdminAssumption DEF NextMinute, PanelInv, CounterOk
  <2>2. \A i \in Ips : hits[i][minute'] \in Nat
        BY <2>1 DEF PanelInv, CounterOk
  <2>3. \A i \in Ips : passed'[i] <= hits[i][minute'] /\ passed'[i] <= Limit
        BY <2>1, <2>2, AdminAssumption
  <2> QED BY <1>1, <2>1, <2>3 DEF PanelInv, CounterOk
<1>3. CASE UNCHANGED <<minute, hits, passed>>
      BY <1>1, <1>3 DEF PanelInv, CounterOk
<1>4. WebhookMoves \/ UNCHANGED panelVars => UNCHANGED <<minute, hits, passed>>
      BY DEF WebhookMoves, panelVars, limitVars
<1> QED BY <1>2, <1>3, <1>4

\* For the webhook a step of the panel is a removal by the admin, or nothing.
LEMMA PanelRefines == ASSUME CallOk, [PanelNext]_panelVars PROVE [Next]_vars
<1>1. CASE Remove \/ (RemoveFails /\ ~UNCHANGED webVars)
  <2>1. call.email \in Emails /\ AdminRemove(call.email)
        BY <1>1 DEF Remove, RemoveFails, CallOk
  <2> QED BY <2>1 DEF Next
<1>2. CASE WebhookMoves
      BY <1>2 DEF WebhookMoves, Next
<1>3. CASE UNCHANGED webVars
      BY <1>3 DEF webVars, vars
<1> QED BY <1>1, <1>2, <1>3 DEF PanelNext, Call, Hit, HitFails, Refuse, RemoveFails, Audit,
                                NextMinute, panelVars

LEMMA PanelStep == PanelInv /\ [PanelNext]_panelVars => PanelInv'
<1> SUFFICES ASSUME PanelInv, [PanelNext]_panelVars PROVE PanelInv'
    OBVIOUS
<1>1. WebhookInv'
      BY PanelRefines, WebhookStep DEF PanelInv
<1>2. CounterOk' /\ CallOk'
      BY HitKeeps, HitFailsKeeps, CallKeeps, OutsideKeeps DEF PanelNext
<1> QED BY <1>1, <1>2 DEF PanelInv

\* The inductive invariant of panel and webhook together (_require_admin and
\* remove_suppression over the validator's cache).
THEOREM PanelHolds == PanelSpec => []PanelInv
<1> QED BY PanelInitially, PanelStep, PTL DEF PanelSpec

\* Whatever an operator removes meanwhile, a webhook token is accepted once
\* (mailgun_validator's cache beside the admin panel).
THEOREM PanelWebhookHolds == PanelSpec => []WebhookInv
<1>1. PanelInv => WebhookInv
      BY DEF PanelInv
<1> QED BY <1>1, PanelHolds, PTL

\* At most Limit calls pass the counter of AdminRateLimitRepository in a minute,
\* whatever its purge removes.
THEOREM CounterHolds == PanelSpec => []CounterCap
<1>1. PanelInv => CounterCap
      BY DEF PanelInv, CounterOk, CounterCap
<1> QED BY <1>1, PanelHolds, PTL

\* remove_suppression answers 200 or 404 only when it has audited, and 200 says
\* that rows were removed.
THEOREM AnswersHold == PanelSpec => []AnswersAreAudited
<1>1. PanelInv => AnswersAreAudited
      BY DEF PanelInv, CallOk
<1> QED BY <1>1, PanelHolds, PTL
=============================================================================
