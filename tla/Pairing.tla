------------------------------ MODULE Pairing ------------------------------
(* The host's pairing server: offers shown as a QR code or a six-digit code, *)
(* the operator's approval, the credentials of paired devices, their          *)
(* revocation, and what of it survives a crash. Every operation holds one     *)
(* mutex; an operation that writes to the credential store and to the device  *)
(* file is a job of several steps, because the process may die between two    *)
(* writes. A token is named by the key it is stored under.                    *)
EXTENDS Naturals, FiniteSets

CONSTANTS Devices,    \* device identities
          Names,      \* device names a viewer may announce
          NoName,     \* the empty name
          Views,      \* host windows that show an offer
          Legacy,     \* devices whose file still holds the token inline
          MaxOffers,  \* offers begun
          MaxCreds,   \* credentials minted
          MaxFaults,  \* failed calls of the store or the file
          MaxCrashes, \* ends of the host process
          MaxConns    \* connections that hold an authorization

Offers == 1 .. MaxOffers
Creds == (1 .. MaxCreds) \cup Devices      \* legacy metadata uses the device ID as the key
Request == [device : Devices, name : Names, stale : BOOLEAN]
Completed == [device : Devices, cred : Creds]
Paired == [device : Devices, name : Names, cred : Creds, token : BOOLEAN]
Stored == [device : Devices, name : Names, cred : Creds, inline : BOOLEAN]
None == [kind |-> "none"]

VARIABLES
  host,       \* the server's memory: a record, lost with the process
  svc,        \* session::PairingService: the state of each offer
  job,        \* the operation that holds the lock between two writes
  file,       \* paired_devices.json
  keychain,   \* keys whose token is in the credential store
  auths,      \* authorizations that open connections have cached
  past        \* what has happened: tokens handed out, offers closed, credentials revoked

vars == <<host, svc, job, file, keychain, auths, past>>

Blank == [up |-> FALSE, shutting |-> FALSE, live |-> {}, owner |-> <<>>,
          fails |-> [o \in Offers |-> 0], pending |-> <<>>, completed |-> <<>>,
          rejected |-> {}, paired |-> {}, gen |-> 0, gens |-> <<>>, leases |-> {}]

NoOffers == [o \in Offers |-> "none"]

Drop(f, S) == [x \in DOMAIN f \ S |-> f[x]]
Put(f, x, v) == [y \in DOMAIN f \cup {x} |-> IF y = x THEN v ELSE f[y]]
Free == host.up /\ job = None

(***************************************************************************)
(* Offers.                                                                 *)
(***************************************************************************)
Cancel(S) == [o \in Offers |-> IF o \in S THEN "gone" ELSE svc[o]]

ClearedBy(h) == [h EXCEPT !.live = {}, !.fails = [o \in Offers |-> 0], !.pending = <<>>,
                          !.completed = <<>>, !.rejected = {}]
Superseded(h) == ClearedBy(h)

Begin(view) ==
  /\ Free
  /\ past.begun < MaxOffers
  /\ LET o == past.begun + 1
     IN /\ svc' = [Cancel(host.live) EXCEPT ![o] = "open"]
        /\ host' = [Superseded(host) EXCEPT !.live = {o}, !.owner = <<o, view>>]
        /\ past' = [past EXCEPT !.begun = o, !.closed = @ \cup host.live]
  /\ UNCHANGED <<job, file, keychain, auths>>

\* cancel_owned_offer: one panel's offer and everything recorded about it
CancelOwned(o) ==
  /\ svc' = Cancel({o})
  /\ host' = [host EXCEPT !.live = @ \ {o}, !.fails[o] = 0, !.pending = Drop(@, {o}),
                          !.completed = Drop(@, {o}), !.rejected = @ \ {o}, !.owner = <<>>]
  /\ past' = [past EXCEPT !.closed = @ \cup {o}]
  /\ UNCHANGED <<job, file, keychain, auths>>

CancelForView(o, view) == Free /\ host.owner = <<o, view>> /\ CancelOwned(o)

CancelViewOffers(view) ==
  /\ Free
  /\ host.owner # <<>>
  /\ host.owner[2] = view
  /\ CancelOwned(host.owner[1])

CancelActive ==
  /\ Free
  /\ svc' = Cancel(host.live)
  /\ host' = [ClearedBy(host) EXCEPT !.owner = <<>>]
  /\ past' = [past EXCEPT !.closed = @ \cup host.live]
  /\ UNCHANGED <<job, file, keychain, auths>>

\* two minutes pass; "late" keeps the entry but no approval is possible any more
Expire(o) ==
  /\ svc[o] = "open"
  /\ svc' = [svc EXCEPT ![o] = "late"]
  /\ UNCHANGED <<host, job, file, keychain, auths, past>>

\* another minute passes over a waiting request
GrowStale(o) ==
  /\ svc[o] # "open"
  /\ o \in DOMAIN host.pending
  /\ host' = [host EXCEPT !.pending[o].stale = TRUE]
  /\ UNCHANGED <<svc, job, file, keychain, auths, past>>

Burns == 3
\* record_pair_failure over a set of offers: the third failure cancels the offer
BurntOf(S) == {o \in S : host.fails[o] + 1 >= Burns}
\* a slip: the burnt offer stays in the service
BurnsLiveOnly(S) == svc
Burnt(S) == Cancel(BurntOf(S))

Fail(S) ==
  /\ svc' = Burnt(S)
  /\ host' = [host EXCEPT !.live = @ \ BurntOf(S),
                          !.fails = [o \in Offers |-> IF o \in BurntOf(S) THEN 0
                                                      ELSE IF o \in S THEN @[o] + 1 ELSE @[o]]]
  /\ past' = [past EXCEPT !.closed = @ \cup BurntOf(S)]
  /\ UNCHANGED <<job, file, keychain, auths>>

(***************************************************************************)
(* Completing a pairing: mint, store the token, write the file, commit.    *)
(***************************************************************************)
\* the offer is used up by the approval, before anything can fail
StartPairing(o, h, d, n, screen) ==
  /\ svc' = [svc EXCEPT ![o] = "used"]
  /\ h.shutting \/ past.minted < MaxCreds
  /\ IF h.shutting
     THEN host' = h /\ UNCHANGED <<job, past>>
     ELSE /\ host' = [h EXCEPT !.fails[o] = 0]
          /\ job' = [kind |-> "pair", at |-> "store", offer |-> o, device |-> d, name |-> n,
                     cred |-> past.minted + 1, screen |-> screen]
          /\ past' = [past EXCEPT !.minted = @ + 1]
  /\ UNCHANGED <<file, keychain, auths>>

\* pair with a code: the offer must be live, the secret and the code right
Pair(o, d, n, right) ==
  /\ Free
  /\ o \in host.live
  /\ IF right /\ svc[o] = "open" THEN StartPairing(o, host, d, n, FALSE) ELSE Fail({o})

\* pair_by_code: a code that matches no offer counts against every live one
PairByCode(d, n, right) ==
  /\ Free
  /\ IF right /\ \E o \in Offers : svc[o] = "open"
     THEN \E o \in Offers : /\ svc[o] = "open"
                            /\ o \in host.live
                            /\ StartPairing(o, host, d, n, FALSE)
     ELSE host.live # {} /\ Fail(host.live)

\* pair_awaiting_approval: a scanned secret only registers a request
AwaitApproval(o, d, n, right) ==
  /\ Free
  /\ o \notin host.rejected
  /\ IF o \in DOMAIN host.completed
     THEN /\ right /\ host.completed[o].device = d
          /\ past' = [past EXCEPT !.held = @ \cup {<<d, host.completed[o].cred>>}]
          /\ UNCHANGED <<host, svc, job, file, keychain, auths>>
     ELSE /\ o \in host.live
          /\ svc[o] \in {"open", "late"}
          /\ IF right
             THEN /\ host' = [host EXCEPT !.pending =
                                Put(@, o, [device |-> d, name |-> n, stale |-> FALSE])]
                  /\ UNCHANGED <<svc, job, file, keychain, auths, past>>
             ELSE Fail({o})

Pruned(h) == [h EXCEPT !.pending = Drop(@, {o \in DOMAIN @ : @[o].stale})]

\* approve_pending: the operator allows the request that waits on this offer
ApprovePending(o) ==
  LET h == Pruned(host)
      rest == [h EXCEPT !.pending = Drop(@, {o})]
  IN /\ Free
     /\ o \in DOMAIN host.pending
     /\ IF o \in DOMAIN h.pending /\ svc[o] = "open"
        THEN StartPairing(o, rest, h.pending[o].device, h.pending[o].name, TRUE)
        ELSE host' = rest /\ UNCHANGED <<svc, job, file, keychain, auths, past>>

ListPending ==
  /\ Free
  /\ \E o \in DOMAIN host.pending : host.pending[o].stale
  /\ host' = Pruned(host)
  /\ UNCHANGED <<svc, job, file, keychain, auths, past>>

RejectPending(o) ==
  /\ Free
  /\ o \in DOMAIN host.pending
  /\ svc' = Cancel({o})
  /\ host' = [host EXCEPT !.pending = Drop(@, {o}), !.live = @ \ {o}, !.rejected = @ \cup {o}]
  /\ past' = [past EXCEPT !.closed = @ \cup {o}]
  /\ UNCHANGED <<job, file, keychain, auths>>

\* what the device file will list: the new credential replaces every record of
\* the same device and of the same non-empty name
Replaced(r, d, n) == r.device = d \/ (n # NoName /\ r.name = n)
NewPaired == {r \in host.paired : ~Replaced(r, job.device, job.name)}
             \cup {[device |-> job.device, name |-> job.name, cred |-> job.cred, token |-> TRUE]}
Retired == {r.cred : r \in host.paired} \ {r.cred : r \in NewPaired}

\* token_hex is never serialised, whatever the record in memory holds
Written(S) == {[device |-> r.device, name |-> r.name, cred |-> r.cred, inline |-> FALSE] : r \in S}

Fault == past.faults < MaxFaults /\ past' = [past EXCEPT !.faults = @ + 1]

\* a slip: the credential in force is deleted before the new file is written
EarlyDelete ==
  /\ job.kind = "pair" /\ job.at = "store"
  /\ UNCHANGED <<host, svc, file, auths>>
  /\ \/ /\ keychain' = (keychain \ Retired) \cup {job.cred}
        /\ job' = [job EXCEPT !.at = "write"]
        /\ UNCHANGED past
     \/ Fault /\ job' = None /\ UNCHANGED keychain
StoreToken ==
  /\ job.kind = "pair" /\ job.at = "store"
  /\ UNCHANGED <<host, svc, file, auths>>
  /\ \/ /\ keychain' = keychain \cup {job.cred}
        /\ job' = [job EXCEPT !.at = "write"]
        /\ UNCHANGED past
     \/ Fault /\ job' = None /\ UNCHANGED keychain

\* a failed write takes the new credential back and leaves the old pair of
\* metadata and credential in force
WritePaired ==
  /\ job.kind = "pair" /\ job.at = "write"
  /\ UNCHANGED <<host, svc, auths>>
  /\ \/ /\ file' = Written(NewPaired)
        /\ job' = [job EXCEPT !.at = "commit"]
        /\ UNCHANGED <<keychain, past>>
     \/ /\ Fault /\ job' = None /\ UNCHANGED file
        /\ keychain' = keychain \ {job.cred}

Generation == host.gen + 1
\* a slip: the authorizations of a device keep their generation
SameGeneration == IF job.device \in DOMAIN host.gens THEN host.gens[job.device] ELSE 0
NewGeneration == Generation

CommitPaired ==
  /\ job.kind = "pair" /\ job.at = "commit"
  /\ keychain' = keychain \ Retired
  /\ host' = [host EXCEPT
        !.paired = NewPaired,
        !.leases = @ \ Retired,
        !.gen = Generation,
        !.gens = Put(Drop(@, Devices \ {r.device : r \in NewPaired}), job.device, NewGeneration),
        !.live = @ \ {job.offer},
        !.completed = IF job.screen
                      THEN Put(@, job.offer, [device |-> job.device, cred |-> job.cred]) ELSE @]
  /\ past' = [past EXCEPT !.issued = @ \cup {job.offer},
                          !.held = IF job.screen THEN @ ELSE @ \cup {<<job.device, job.cred>>}]
  /\ job' = None
  /\ UNCHANGED <<svc, file, auths>>

(***************************************************************************)
(* Revocation: denied in memory first, then the tokens, then the file.     *)
(***************************************************************************)
PickupWithout(S) == [o \in {x \in DOMAIN host.completed : host.completed[x].device \notin S}
                       |-> host.completed[o]]

Revoke(S) ==
  LET gone == {r \in host.paired : r.device \in S}
      creds == {r.cred : r \in gone}
  IN /\ Free
     /\ ~host.shutting
     /\ host' = [host EXCEPT
           !.pending = Drop(@, {o \in DOMAIN @ : @[o].device \in S}),
           !.completed = PickupWithout(S),
           !.paired = @ \ gone,
           !.gens = Drop(@, {r.device : r \in gone}),
           !.leases = @ \ creds]
     /\ host' # host
     /\ job' = IF gone = {} THEN None ELSE [kind |-> "revoke", at |-> "delete", creds |-> creds]
     /\ past' = [past EXCEPT !.condemned = @ \cup creds]
     /\ UNCHANGED <<svc, file, keychain, auths>>

\* the store's delete reports nothing, failed or not
DeleteTokens ==
  /\ job.kind = "revoke" /\ job.at = "delete"
  /\ job' = [job EXCEPT !.at = "write"]
  /\ \/ keychain' = keychain \ job.creds /\ UNCHANGED past
     \/ Fault /\ UNCHANGED keychain
  /\ UNCHANGED <<host, svc, file, auths>>

WriteRevoked ==
  /\ job.kind = "revoke" /\ job.at = "write"
  /\ job' = None
  /\ \/ /\ file' = Written(host.paired)
        /\ past' = [past EXCEPT !.revoked = @ \cup job.creds]
     \/ /\ past.faults < MaxFaults
        /\ past' = [past EXCEPT !.faults = @ + 1, !.revoked = @ \cup job.creds]
        /\ UNCHANGED file
  /\ UNCHANGED <<host, svc, keychain, auths>>

(***************************************************************************)
(* Authentication, and the operations of a paired device.                  *)
(***************************************************************************)
Authenticates(c) == host.up /\ ~host.shutting /\ \E r \in host.paired : r.cred = c /\ r.token

\* with_authorization: the cached incarnation must still be the device's own
Current(a) == /\ host.up /\ ~host.shutting
              /\ a.device \in DOMAIN host.gens
              /\ host.gens[a.device] = a.gen
              /\ \E r \in host.paired : r.device = a.device

Connect(d, c) ==
  /\ Free
  /\ <<d, c>> \in past.held
  /\ Authenticates(c)
  /\ Cardinality(auths) < MaxConns
  /\ \E r \in host.paired :
       /\ r.cred = c /\ r.token
       /\ auths' = auths \cup {[device |-> r.device, gen |-> host.gens[r.device], cred |-> c]}
  /\ UNCHANGED <<host, svc, job, file, keychain, past>>

Disconnect(a) == auths' = auths \ {a} /\ UNCHANGED <<host, svc, job, file, keychain, past>>

\* authorised access to a source takes a lease of the credential's grant
Lease(a) ==
  /\ Free
  /\ Current(a)
  /\ host' = [host EXCEPT !.leases = @ \cup {a.cred}]
  /\ UNCHANGED <<svc, job, file, keychain, auths, past>>

\* fence_source_access: from here on nothing authenticates
Fence ==
  /\ Free
  /\ host' = [host EXCEPT !.shutting = TRUE, !.leases = {}]
  /\ host' # host
  /\ UNCHANGED <<svc, job, file, keychain, auths, past>>

(***************************************************************************)
(* The process ends, at any step, and starts again.                        *)
(***************************************************************************)
Crash ==
  /\ host.up
  /\ past.crashes < MaxCrashes
  /\ host' = Blank
  /\ svc' = NoOffers
  /\ job' = None
  /\ auths' = {}
  /\ past' = [past EXCEPT !.crashes = @ + 1, !.closed = 1 .. past.begun]
  /\ UNCHANGED <<file, keychain>>

\* PairingServer::new: inline tokens move to the store (the store may refuse
\* some of them), the others are read from it (and may not be readable)
Boot ==
  /\ ~host.up
  /\ \E locked \in SUBSET {r.device : r \in file} :
       LET migrated == {r \in file : r.inline /\ r.device \notin locked}
       IN /\ IF locked = {} THEN UNCHANGED past ELSE Fault
          /\ keychain' = keychain \cup {r.cred : r \in migrated}
          /\ file' \in IF migrated = {} THEN {file} ELSE {file, Written(file)}
          /\ host' = [Blank EXCEPT
                !.up = TRUE,
                !.paired = {[device |-> r.device, name |-> r.name, cred |-> r.cred,
                             token |-> r.inline \/ (r.cred \in keychain /\ r.device \notin locked)]
                             : r \in file},
                !.gens = [d \in {r.device : r \in file} |-> 0]]
  /\ UNCHANGED <<svc, job, auths>>

Init ==
  /\ host = Blank
  /\ svc = NoOffers
  /\ job = None
  /\ file = {[device |-> d, name |-> NoName, cred |-> d, inline |-> TRUE] : d \in Legacy}
  /\ keychain = {}
  /\ auths = {}
  /\ past = [begun |-> 0, minted |-> 0, faults |-> 0, crashes |-> 0, closed |-> {}, issued |-> {},
             held |-> {<<d, d>> : d \in Legacy}, condemned |-> {}, revoked |-> {}]

Next ==
  \/ \E v \in Views : Begin(v) \/ CancelViewOffers(v)
  \/ \E o \in Offers, v \in Views : CancelForView(o, v)
  \/ CancelActive \/ ListPending \/ Fence \/ Crash \/ Boot
  \/ \E o \in Offers : Expire(o) \/ GrowStale(o) \/ ApprovePending(o) \/ RejectPending(o)
  \/ \E o \in Offers, d \in Devices, n \in Names, right \in BOOLEAN :
       Pair(o, d, n, right) \/ AwaitApproval(o, d, n, right)
  \/ \E d \in Devices, n \in Names, right \in BOOLEAN : PairByCode(d, n, right)
  \/ StoreToken \/ WritePaired \/ CommitPaired \/ DeleteTokens \/ WriteRevoked
  \/ \E S \in {Devices} \cup {{d} : d \in Devices} : Revoke(S)
  \/ \E d \in Devices, c \in Creds : Connect(d, c)
  \/ \E a \in auths : Disconnect(a) \/ Lease(a)

Spec == Init /\ [][Next]_vars

(***************************************************************************)
(* Properties.                                                             *)
(***************************************************************************)
\* The types of the server's memory, of what is stored and of the caches.
TypeOK ==
  /\ host.live \subseteq Offers /\ host.rejected \subseteq Offers
  /\ host.fails \in [Offers -> 0 .. Burns - 1]
  /\ DOMAIN host.pending \subseteq Offers
  /\ \A o \in DOMAIN host.pending : host.pending[o] \in Request
  /\ \A o \in DOMAIN host.completed : host.completed[o] \in Completed
  /\ host.paired \subseteq Paired /\ file \subseteq Stored
  /\ svc \in [Offers -> {"none", "open", "late", "used", "gone"}]
  /\ keychain \subseteq Creds /\ host.leases \subseteq Creds

\* A crash between any two writes of a pairing, and any single failed write,
\* leaves every device of the file with a credential that can be loaded, unless
\* its revocation had begun (complete_pairing never overwrites the committed
\* credential; a migration that fails destroys nothing).
CommittedCredentialsLoad ==
  \A r \in file : r.inline \/ r.cred \in keychain \/ r.cred \in past.condemned

\* A revocation that has returned holds across restarts, even when one of its two
\* writes failed: the token or the record is gone.
RevocationHolds == \A c \in past.revoked : ~Authenticates(c)

\* A token that a poll can still pick up belongs to a device that is paired with
\* exactly that credential: neither a newer pairing nor a revocation leaves one behind.
PickupIsCurrent ==
  \A o \in DOMAIN host.completed :
    \E r \in host.paired : r.device = host.completed[o].device /\ r.cred = host.completed[o].cred

\* An authorization cached by a connection is accepted only while its device is
\* paired with the very credential it was made from, however often the device was
\* revoked and paired again meanwhile.
AuthorizationIsIncarnation ==
  \A a \in auths : Current(a) => \E r \in host.paired : r.device = a.device /\ r.cred = a.cred

\* Every paired device has a generation (the lookup of authenticate cannot panic),
\* no two records share a device or a non-empty name, and a grant is leased only to
\* a credential that is paired.
PairedIsConsistent ==
  /\ \A r \in host.paired : r.device \in DOMAIN host.gens
  /\ \A r, q \in host.paired : r.device = q.device => r = q
  /\ host.leases \subseteq {r.cred : r \in host.paired}

\* Crashes and failed writes leave every stored device its credential, revocations
\* hold, tokens and authorizations are of the current incarnation.
PairingsAreDurable ==
  /\ CommittedCredentialsLoad
  /\ RevocationHolds
  /\ PickupIsCurrent
  /\ AuthorizationIsIncarnation
  /\ PairedIsConsistent

\* An offer the operator closed, replaced, rejected or saw burnt by three wrong
\* attempts completes no pairing afterwards.
ClosedOffersPairNobody ==
  [][\A o \in past'.issued \ past.issued : o \notin past.closed]_vars
=============================================================================
