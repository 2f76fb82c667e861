------------------------------- MODULE Account -------------------------------
(***************************************************************************)
(* The account at the upstream proxy: what internal/service/config.go      *)
(* makes of an address with embedded credentials and of the separate       *)
(* fields, when a configuration is loaded or changed, used, and shown.     *)
(*                                                                         *)
(* A configuration is [on, addr, auth, user, pass]; an address is          *)
(* [host, creds, fault], with creds <<user, pass>> or NoCreds, host ""     *)
(* when it is empty, and the part that makes parsing it fail, "none" when  *)
(* it parses.  "" is an empty user or password.                            *)
(***************************************************************************)

CONSTANTS Texts,     \* users and passwords
          Upstreams  \* hosts of addresses

ASSUME TextsAssumption == "" \in Texts

VARIABLE account     \* the configuration, as a file or a patch leaves it

NoCreds == <<>>
Direct  == [host |-> "", creds |-> NoCreds, fault |-> "none"]
Readable(addr) == addr.fault = "none"

(* splitUpstreamUserinfo: only an address that parses can be split.        *)
Embedded(addr) == addr.host # "" /\ Readable(addr) /\ addr.creds # NoCreds

Given(user, pass) == user # "" \/ pass # ""

(* Mutant of Migrated: the fields are always replaced.                     *)
MigratedAlways(c) ==
  IF ~Embedded(c.addr) THEN c
  ELSE [c EXCEPT !.addr.creds = NoCreds, !.auth = TRUE, !.user = c.addr.creds[1], !.pass = c.addr.creds[2]]

(* Credentials of an old address move to the fields, if these are empty.   *)
Migrated(c) ==
  IF ~Embedded(c.addr) THEN c
  ELSE IF ~Given(c.user, c.pass) /\ Given(c.addr.creds[1], c.addr.creds[2])
  THEN [c EXCEPT !.addr.creds = NoCreds, !.auth = TRUE, !.user = c.addr.creds[1], !.pass = c.addr.creds[2]]
  ELSE [c EXCEPT !.addr.creds = NoCreds]

(* normalizeUpstreamConfig.                                                *)
Normalize(c) == LET m == Migrated(c) IN IF m.auth THEN m ELSE [m EXCEPT !.pass = ""]

(* EffectiveUpstream: an address that does not parse is handed on for the  *)
(* engine to refuse.                                                       *)
Effective(c) ==
  IF ~c.on THEN Direct
  ELSE IF c.addr.host = "" \/ ~Readable(c.addr) THEN c.addr
  ELSE IF c.auth /\ Given(c.user, c.pass) THEN [c.addr EXCEPT !.creds = <<c.user, c.pass>>]
  ELSE [c.addr EXCEPT !.creds = NoCreds]

(* stripUpstreamUserinfo, which cuts credentials out of an address that    *)
(* does not parse as well (dropUserinfo).                                  *)
ShownAddr(addr) == [addr EXCEPT !.creds = NoCreds, !.fault = IF @ = "creds" THEN "none" ELSE @]

(* PublicConfig, as far as it tells of the account.                        *)
View(c) == [addr |-> ShownAddr(c.addr), auth |-> c.auth, user |-> c.user, passSet |-> c.pass # ""]

-----------------------------------------------------------------------------
(* What a user may write: a part of an address that fails to parse is in   *)
(* its host or in its credentials, which it then has.                      *)
Addresses == {a \in [host : Upstreams, creds : {NoCreds} \cup (Texts \X Texts), fault : {"none", "host", "creds"}] :
                /\ a.host = "" => a.creds = NoCreds /\ a.fault = "none"
                /\ a.fault = "creds" => a.creds # NoCreds}
Accounts  == [on : BOOLEAN, addr : Addresses, auth : BOOLEAN, user : Texts, pass : Texts]

(* load: whatever the file says.                                           *)
AccountInit == account \in Accounts

(* update: one field of the patch, then the rest of the call.              *)
Reconfigure ==
  LET n == Normalize(account) IN
  \/ account' = [n EXCEPT !.on = ~@]
  \/ account' = [n EXCEPT !.auth = ~@]
  \/ \E t \in Texts : account' \in {[n EXCEPT !.user = t], [n EXCEPT !.pass = t]}
  \/ \E a \in Addresses : account' = [n EXCEPT !.addr = a]

AccountSpec == AccountInit /\ [][Reconfigure]_account

-----------------------------------------------------------------------------
(* What a user interface does with the view: it sends all of it back.      *)
Returned(n) == LET v == View(n) IN Normalize([n EXCEPT !.addr = v.addr, !.auth = v.auth, !.user = v.user])

(* After a configuration was loaded or changed, an address that parses has *)
(* no credentials in it, and a password is stored only with authentication *)
(* on; the account an old address carried is the one in use, unless one    *)
(* was set; the upstream gets the account that is set, and none otherwise; *)
(* and a view shows no credentials and, sent back, makes up no account and *)
(* changes nothing of an address that works (config.go:192, 217, 248).     *)
AccountKept ==
  LET n == Normalize(account)  e == Effective(n) IN
  /\ Normalize(n) = n
  /\ Readable(n.addr) => n.addr.creds = NoCreds
  /\ n.auth \/ n.pass = ""
  /\ n.on /\ n.addr.host # "" /\ Readable(n.addr) =>
       /\ e.creds = IF n.auth /\ Given(n.user, n.pass) THEN <<n.user, n.pass>> ELSE NoCreds
       /\ Embedded(account.addr) /\ ~Given(account.user, account.pass) /\ Given(account.addr.creds[1], account.addr.creds[2])
            => e.creds = account.addr.creds
  /\ Given(account.user, account.pass) => n.user = account.user
  /\ View(n).addr.creds = NoCreds
  /\ Returned(n).user = n.user /\ Returned(n).auth = n.auth /\ Returned(n).pass = n.pass
  /\ Readable(n.addr) => Effective(Returned(n)) = e
=============================================================================
