------------------------------------ MODULE MCHostServices -------------------------------------
(* Services of the host that share no state with one another, side by side: a behaviour       *)
(* exercises one of them and leaves the others as they start.                                 *)
EXTENDS Naturals, Sequences, FiniteSets, TLC

CONSTANTS Devices, Names, NoName, Views, Legacy, MaxOffers, MaxCreds, MaxCrashes, MaxConns,
          KmDevices, Conns, MaxGen, MaxSessions, MaxStarts, MaxStops, MaxConsents, Credentials,
          Tokens, Size, Chunk, MaxIncoming, MaxOutgoing, MaxRestarts, Starts, MaxToggles,
          MaxCurtainFaults

VARIABLES part,
  host, svc, job, file, keychain, auths, past,   \* Pairing
  gens, made, approvals, active, starts, tasks, stops, kmPast,   \* KmPeers
  caps, machine, running, emitted,   \* KmMachine
  paired, revoking, revoked, incoming, outgoing, idle, disk, files, sender, leftover, next,
  fileFaults, hostRestarts,   \* FileTransfer
  enabled, drawn, drawings, last, start, excludes, remaking, restarts, awaited, unmade, toggles,
  failures, crossed   \* PrivacyCurtain

P == INSTANCE Pairing WITH MaxFaults <- 1
K == INSTANCE KmPeers WITH past <- kmPast, Devices <- KmDevices
M == INSTANCE KmMachine
F == INSTANCE FileTransfer WITH faults <- fileFaults, restarts <- hostRestarts, MaxFaults <- 2
C == INSTANCE PrivacyCurtain

pairingVars == <<host, svc, job, file, keychain, auths, past>>
peersVars == <<gens, made, approvals, active, starts, tasks, stops, kmPast>>
kmVars == <<caps, machine, running, emitted>>
filesVars == <<paired, revoking, revoked, incoming, outgoing, idle, disk, files, sender,
    leftover, next, fileFaults, hostRestarts>>
curtainVars == <<enabled, drawn, drawings, last, start, excludes, remaking, restarts, awaited,
    unmade, toggles, failures, crossed>>
vars == <<part, pairingVars, peersVars, kmVars, filesVars, curtainVars>>

Parts == {"pairing", "peers", "km", "files", "curtain"}
\* The choices of a component's initial state are made only where it is exercised.
Init ==
  /\ part \in Parts
  /\ P!Init
  /\ K!Init
  /\ M!Init
  /\ part = "km" \/ caps = {}
  /\ F!Init
  /\ C!Init
  /\ part = "curtain" \/ ~enabled

PairingStep == part = "pairing" /\ P!Next /\ UNCHANGED <<part, peersVars, kmVars, filesVars,
    curtainVars>>
PeersStep == part = "peers" /\ K!Next /\ UNCHANGED <<part, pairingVars, kmVars, filesVars,
    curtainVars>>
KmStep == part = "km" /\ M!Next /\ UNCHANGED <<part, pairingVars, peersVars, filesVars,
    curtainVars>>
FilesStep == part = "files" /\ F!Next /\ UNCHANGED <<part, pairingVars, peersVars, kmVars,
    curtainVars>>
CurtainStep == part = "curtain" /\ C!CurtainNext /\ UNCHANGED <<part, pairingVars, peersVars,
    kmVars, filesVars>>
Next == PairingStep \/ PeersStep \/ KmStep \/ FilesStep \/ CurtainStep

Spec == Init /\ [][Next]_vars

------------------------------------------------------------------------------------------------
\* Crashes and failed writes leave every stored device its credential, revocations hold, tokens
\* and authorizations are of the current incarnation: see Pairing.
PairingsAreDurable == P!PairingsAreDurable
\* A withdrawn direction and a revoked pairing hold no session, late stops spare others, and the
\* slot has an owner: see KmPeers.
StopsReachTheirSession == K!StopsReachTheirSession
\* Only a consented and capable direction is active, effects follow the state, and input is
\* released before local input returns: see KmMachine.
SharingIsConsented == M!SharingIsConsented
\* Uploads are nobody else's to take, staging files are those of the table, final files are
\* whole, and a revoked device holds none: see FileTransfer.
TransfersAreAccounted == F!TransfersAreAccounted
\* No stream shows the curtain unless another caller drew it meanwhile: see PrivacyCurtain.
CurtainIsNotStreamedApart == C!CurtainIsNotStreamedApart
\* What no step of a component may do: see the modules named above.
EachStep ==
  /\ P!ClosedOffersPairNobody
  /\ K!ConsentIsPerPairing
  /\ M!ExclusiveOwner

Symmetry == Permutations(Devices)
================================================================================================
