----------------------------- MODULE ServerCerts -----------------------------
(***************************************************************************)
(* Imported server certificates: serverCertStore of                        *)
(* internal/service/servercert.go, the calls of service.go that change it  *)
(* and hand its list to the engine, and the lookup of a handshake in       *)
(* capture/processors/http/servercert.go.                                  *)
(*                                                                         *)
(* A certificate covers some hosts by name and some only by a wildcard; it *)
(* may have expired.  Its fingerprint is its identity.                     *)
(***************************************************************************)
EXTENDS Naturals, Sequences, FiniteSets, SequencesExt, Selection

CONSTANTS
  CertIds,      \* certificates a user may import
  Hosts,
  Exact(_),     \* the hosts a certificate names
  Wild(_),      \* the hosts it covers by wildcard
  Valid(_),     \* whether it is within its period
  CertCalls,    \* calls of ImportServerCert and DeleteServerCert
  MaxCrashes

NoCert == "none"

ASSUME CertsAssumption ==
  /\ MaxCrashes \in Nat /\ NoCert \notin CertIds
  /\ \A c \in CertIds : Exact(c) \cup Wild(c) \in SUBSET Hosts /\ Exact(c) \cup Wild(c) # {} /\ Valid(c) \in BOOLEAN

VARIABLES
  certItems,   \* serverCertStore.items
  certFile,    \* servercerts.json, renamed into place as a whole
  certCall,    \* [CertCalls -> step, list read, whether no other call ran meanwhile]
  offered,     \* importedServerCertsPtr: what handshakes choose from
  settled,     \* the last list was handed over by a call that ran alone
  crashes

certVars == <<certItems, certFile, certCall, offered, settled, crashes>>

CertsInit ==
  /\ certItems = <<>> /\ certFile = <<>> /\ offered = <<>>
  /\ certCall = [c \in CertCalls |-> [pc |-> "idle", list |-> <<>>, alone |-> TRUE]]
  /\ settled = TRUE /\ crashes = 0

SameHosts(c, d) == Exact(c) = Exact(d) /\ Wild(c) = Wild(d)

(* importCert drops the certificates for the same hosts.                   *)
Kept(items, c) == Only(items, {d \in CertIds : ~SameHosts(c, d)})

UnderWay(c) == certCall[c].pc \in {"reading", "handing"}

(* A call goes on to hand the list over; overlapping calls are not alone.  *)
Proceed(k) ==
  certCall' = [c \in CertCalls |->
    IF c = k THEN [pc |-> "reading", list |-> <<>>, alone |-> ~\E d \in CertCalls : UnderWay(d)]
    ELSE IF UnderWay(c) THEN [certCall[c] EXCEPT !.alone = FALSE] ELSE certCall[c]]

(* Mutant of Undone: memory keeps what the file does not have.             *)
UndoneNot(old, new) == new

(* A failed save leaves the file and rolls the list back.                  *)
Undone(old, new) == old

Import(k) ==
  /\ certCall[k].pc = "idle"
  /\ \E c \in CertIds :
       LET new == Append(Kept(certItems, c), c) IN
       \/ /\ certItems' = new /\ certFile' = new
          /\ Proceed(k)
       \/ /\ certItems' = Undone(certItems, new)
          /\ certCall' = [certCall EXCEPT ![k].pc = "done"]
          /\ UNCHANGED certFile
  /\ UNCHANGED <<offered, settled, crashes>>

(* A deletion is kept even if it cannot be saved, and hands over the list  *)
(* also when there was nothing to delete.                                  *)
DeleteCert(k) ==
  /\ certCall[k].pc = "idle"
  /\ \E c \in CertIds :
       /\ certItems' = Only(certItems, CertIds \ {c})
       /\ \/ certFile' = IF Contains(certItems, c) THEN certItems' ELSE certFile
          \/ UNCHANGED certFile
  /\ Proceed(k)
  /\ UNCHANGED <<offered, settled, crashes>>

(* applyServerCerts: certList, then SetImportedServerCerts.                *)
ReadList(k) ==
  /\ certCall[k].pc = "reading"
  /\ certCall' = [certCall EXCEPT ![k].pc = "handing", ![k].list = certItems]
  /\ UNCHANGED <<certItems, certFile, offered, settled, crashes>>

HandOver(k) ==
  /\ certCall[k].pc = "handing"
  /\ offered' = certCall[k].list
  /\ settled' = certCall[k].alone
  /\ certCall' = [certCall EXCEPT ![k].pc = "done"]
  /\ UNCHANGED <<certItems, certFile, crashes>>

(* The next run loads the file and hands it over before it listens.        *)
Reload ==
  /\ crashes < MaxCrashes
  /\ crashes' = crashes + 1
  /\ certItems' = certFile /\ offered' = certFile /\ settled' = TRUE
  /\ certCall' = [c \in CertCalls |-> [pc |-> "idle", list |-> <<>>, alone |-> TRUE]]
  /\ UNCHANGED certFile

CertsNext ==
  \/ \E k \in CertCalls : Import(k) \/ DeleteCert(k) \/ ReadList(k) \/ HandOver(k)
  \/ Reload

CertsSpec == CertsInit /\ [][CertsNext]_certVars

-----------------------------------------------------------------------------
(* importedServerCertFor: the first valid one that names the host, then    *)
(* the first valid one that covers it; NoCert leaves it to the CA.         *)
CertFor(list, host) ==
  LET exactly == Only(list, {c \in CertIds : host \in Exact(c) /\ Valid(c)})
      covered == Only(list, {c \in CertIds : host \in Wild(c) /\ Valid(c)})
  IN IF exactly # <<>> THEN Head(exactly) ELSE IF covered # <<>> THEN Head(covered) ELSE NoCert

(* What was imported is not lost: the file has every certificate in use,   *)
(* also after a crash; no two certificates are for the same hosts; and     *)
(* when no call is under way, handshakes choose from the stored list -     *)
(* unless the last calls overlapped, which nothing serialises - the        *)
(* certificate that fits best and has not expired (servercert.go:72,       *)
(* service.go:532, http/servercert.go:78).                                 *)
CertsAgree ==
  /\ ToSet(certItems) \subseteq ToSet(certFile)
  /\ \A i, j \in DOMAIN certItems : i # j => ~SameHosts(certItems[i], certItems[j])
  /\ settled /\ ~(\E c \in CertCalls : UnderWay(c)) => offered = certItems
  /\ \A h \in Hosts : LET c == CertFor(offered, h)
                          fit == {d \in ToSet(offered) : Valid(d) /\ h \in Exact(d) \cup Wild(d)} IN
       /\ c = NoCert <=> fit = {}
       /\ c # NoCert => c \in fit /\ (h \in Exact(c) \/ \A d \in fit : h \notin Exact(d))
=============================================================================
