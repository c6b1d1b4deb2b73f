--------------------------- MODULE MCSmtpGateway ----------------------------
(***************************************************************************)
(* Instances of SmtpGateway for TLC.  Customer c1 owns d1 and has one      *)
(* normal rule and one exception.                                          *)
(***************************************************************************)
EXTENDS SmtpGateway, TLC

CONSTANTS c1, d1, nodom, nocust, a1, a2, block, allow, mail, probe

MCCustomerOf == (d1 :> c1) @@ (nodom :> nocust)
MCOwner      == (block :> c1) @@ (allow :> c1)

\* An ordinary message to two recipients; it matches the normal rule.
Mail == [domain |-> d1, nullSender |-> FALSE, test |-> FALSE, token |-> nocust,
         rcpts |-> <<a1, a2>>, rules |-> {block, allow}]

\* The probe the backend sends when a tenant tests the connection.
Probe == [Mail EXCEPT !.test = TRUE, !.token = c1, !.rules = {}, !.rcpts = <<a1>>]

OneMail      == mail :> Mail
MailAndProbe == (mail :> Mail) @@ (probe :> Probe)

Login == [port |-> 587, cust |-> c1, bound |-> d1, admin |-> FALSE,
          spf |-> "none", ptr |-> FALSE, cidr |-> FALSE]
Peer  == [port |-> 25, cust |-> nocust, bound |-> nodom, admin |-> FALSE,
          spf |-> "softfail", ptr |-> FALSE, cidr |-> FALSE]
Stranger == [Peer EXCEPT !.spf = "none"]

OnlyLogin   == {Login}
PeerSessions == {Peer, Stranger}
None        == {}
=============================================================================
