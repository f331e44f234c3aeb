# Leftcar, verified: a TLA+ companion to the code

Leftcar shows the displays of a desktop host (macOS or Windows) in windows of an
Android viewer and carries the viewer's keyboard and pointer back. This directory
holds TLA+ modules translated from its source, the TLC configurations that check
them on small instances, and theorems about them checked by TLAPS. `PROJECT.json`
ties every definition to the lines it models, every property to the run that checks
it and to a mutation of the code that breaks it. Paths below are relative to `src/`.

1. [The system](#1-the-system)
2. [Modules and the code](#2-modules-and-the-code)
3. [Runs, bounds, fairness](#3-runs-bounds-fairness)
4. [Disagreements between code and documentation](#4-disagreements-between-code-and-documentation)
5. [Proofs](#5-proofs)
6. [What is not modelled, and the plan](#6-what-is-not-modelled-and-the-plan)

## 1. The system

### Components, their state and their operations

| component | source | state | modules |
|---|---|---|---|
| input plane, viewer end | `native/android-viewer/src/input_protocol.rs`, `renderer/single_session/` | reliable queue, one pending event, sequences, newest pointer | InputWire, InputScheduler, InputPlane |
| input plane, macOS host end | `native/macos-capture-shim/Sources/Transport/*Input*`, `Capture/*Controls*`, `*Lifecycle*`, `*Setup*` | last sequences, inputEnabled, language transition, pressed keys and buttons | InputReceiver, InputPlane |
| Windows host input | `apps/host-desktop/src-tauri/src/windows_backend/`, `input_gate.rs` | gate, the injector's pressed sets, threads | WindowsInput |
| source grants | `source_grants.rs`, `control.rs`, `pairing.rs` | journal and its file, leases, registered sessions | SourceGrants |
| session control | `control.rs`, `session_lifecycle.rs`, `session_maintenance.rs` | live sessions, endpoint entries, captures, input policy | SessionControl |
| privacy curtain | `control.rs`, `lib.rs` | the windows drawn, what each capture leaves out | PrivacyCurtain |
| pairing | `pairing.rs`, `crates/session` | offers, paired devices, their file, the key store, cached authorizations | Pairing |
| keyboard and mouse sharing (KM) | `crates/domain/src/km.rs`, host `km.rs`, `Km/*.swift`, viewer `km/` | owner of the input, consents, the one armed session | KmStates, KmMachine, KmPeers, KmDuplex |
| media sealing | `media_crypto.rs`, `MediaSealer.swift`, `prepared_udp.rs` | counter, replay window, challenges, early media | MediaSealing |
| host encoder | `Encoder/*.swift`, `Transport/*.swift` | submissions, jobs, network queue, recovery, watchdog | HostEncoder |
| split stream | `Split/*.swift`, `DualEncoderPipeline.swift` | flow leases, pairs, barrier, soft expiries | SplitPipeline |
| viewer media path | `crates/media-model`, `media_datagram.rs`, `renderer/` | partial frames, sequencer, retransmission, decoder | FrameAssembly, FrameSequencer, MediaReceiver |
| file transfer | `file_transfer.rs`, viewer upload loop | table, staging files, credentials | FileTransfer |
| viewer's control session | `apps/viewer-expo/src` session, control, store | sockets, requests, the selected host | ViewerSession |

### How they interact

A viewer pairs with a host (Pairing) and asks its control server (ViewerSession on one
side, SessionControl on the other), over the secure channel, for a display. The control
server asks the grant store for a *lease* (SourceGrants), draws the curtain if it is
wanted (PrivacyCurtain), starts a capture (HostEncoder or SplitPipeline) and registers the
session. The session proves the viewer's UDP endpoint reachable with a challenge
(MediaSealing, InputPlane), sends media (MediaReceiver takes it) and receives input on the
same socket (InputPlane on macOS, WindowsInput on Windows). Operators act from other
threads: they toggle input, change grants, stop sessions, revoke devices and shut the host
down. Independently of the streams a host may share its keyboard and mouse with a tablet
over a connection of its own (KmPeers decides who may, KmDuplex runs the session).

A lease is the common thread on the host: every operation on a session (a sent datagram,
an injected event, a toggle) *enters* it, and whoever withdraws access *invalidates* it and
waits until it is idle.

### What is hard

* **Interleavings.** The macOS input handler runs on `inputQueue`, the language switch on the
  main queue, toggles and stops on the callers' threads; they meet at `inputLock` only. On
  Windows the input thread, the toggle and the retirement meet at the gate, the injector's
  mutex and the lease, one after the other, never under one lock. The control server's
  tasks release every lock while a backend or a transport works. No lock is held across
  the steps of a KM session's start, its task and the calls that stop it.
* **An unreliable network.** UDP loses and reorders; retries race late acknowledgements;
  giving up must not leave a key down; a lost reference picture must not be followed by
  what depends on it.
* **Durability.** The grant journal may fail to be written before or after its rename; a
  pairing writes to the key store and to a file; the process may end between any two writes.
* **Waiting.** Revocation and shutdown wait, without timeouts, for operations in flight; a
  KM direction waits for the other end; recoveries wait for a keyframe.
* **Unlocked reads.** Several operations decide on state they read before taking the lock
  under which they act.

`hazards` in `PROJECT.json` lists these one by one at their lines, with the properties
that cover them.

### What makes each component correct

* Input plane: events are executed in order, each at most once, skipped only across a
  ReleaseAll; acknowledgements tell the truth; no key stays down that nobody holds;
  nothing is injected without consent; the pointer never goes back.
* Windows input: a session that ended holds nothing down; a revocation that returned is
  final; the viewer's lock badge ends up telling the truth.
* Source grants: a lease that admits work is granted now; a removal that returned has cut
  everything; what was reported as stored survives restarts; a clean journal means a quiet
  stop; operations return.
* Session control: an endpoint has one session and the transport of that session's owner; no
  capture runs for nobody; a superseded session is never brought back; input is where the
  host says it is.
* Curtain: no stream shows the windows that are to hide the screen from the room.
* Pairing: a crash or a failed write loses no committed credential; a revocation holds; what
  connections cached is of the current pairing; a closed offer pairs nobody.
* KM: one owner of the input; only a consented and capable direction runs; leaving releases
  before it restores; whoever withdraws consent stops the session; both ends end up safe.
* Media: no datagram is opened twice; an encode slot is given back once; nothing from before
  a recovery boundary is queued; the decoder is fed an unbroken chain; whoever waits for a
  keyframe gets one.
* File transfer: an upload is nobody else's to take; no staging file is left without an entry;
  a final file is whole; a revoked device holds none.
* Viewer session: a request runs at the host it was meant for, once unless it only reads, and
  gets its own answer; a superseded attempt never becomes the session.

## 2. Modules and the code

```
InputWire <- InputScheduler --.
         <- InputReceiver  ----+-> InputPlane  (refines InputDelivery)  MCInputPlane
WindowsInput                                                            MCWindowsInput
SourceGrants                                                            MCSourceGrants
SessionControl                                                          MCSessionControl
KmStates <- KmMachine (refines KmOwner)
         <- KmDuplex  (refines KmOwner)                                 MCKmDuplex
Pairing, KmPeers, KmMachine, FileTransfer, PrivacyCurtain  side by side MCHostServices
MediaSealing, ViewerSession, KmDuplex                      side by side MCBothEnds
FrameAssembly, FrameSequencer <- MediaReceiver (refines FrameFeed)
HostEncoder, MediaReceiver, SplitPipeline                  side by side MCMediaPath
PrivacyCurtain, HostEncoder, MediaReceiver, ViewerSession  side by side MCRecoveries
SplitPipeline                                                           MCSplitPipeline
```

**Input.** `InputWire` has the events and datagrams of `input_protocol.rs`; payloads are
abstracted to the key an event presses or lifts, and an event carries the span of producer
calls it stands for (merged scrolls stand for several). `InputScheduler` is the viewer's
queue: pushing, merging, a full queue, the branches of `next_ready` in their order, the
acknowledgement, the reset. `InputReceiver` is the host session on macOS: every datagram is
handled in two steps, `Begin`, the snapshot under `inputLock`, and one of the `Finish…`
actions; between the two the operator's toggle, the main queue's language switch and the
beginning of a stop may run. `InputPlane` joins them with a network, the reachability
challenge, the user and the operator. A datagram in flight is one element of a set that goes
away when it is opened, because the replay window opens a sealed datagram at most once
(`MediaSealing` shows that). `InputDelivery` is the abstract promise: submit, resynchronise,
execute the next call.

**WindowsInput.** A step is what happens under one mutex or around one atomic: the input
thread goes through `admitted` (inside the lease), `applying` (the gate was open), `applied`,
`replying`; the toggle through `enabling`/`disabling`, `releasing` and, when a release
failed, `fencing`; `retire` through `stopping`, `gated`, `joining`, `joined`, `dropped`.
`remembered` is what the injector thinks is down, `down` what Windows holds down.

**SourceGrants.** The pairing lock makes an operation of the store one step, its write
included. `durable_replace` fails before or after its rename, so `disk` is the *set* of
journals the next start may read. The operator's update is four steps: look, update under the
lock, stop sessions, wait for the revoked leases.

**SessionControl.** Requests (starts, reconfigurations) and calls (stops, forced stops, sweeps,
revocations, input decisions) are tasks with a program counter that names the place between
two locks of the code; a task's record holds what it read. `entry` is `Starts` of
`session_lifecycle.rs`, `phys` the transport really set up at an endpoint, `live` the session
table, `native` the captures, `nativeIn` those taking input, `fenced` the sessions whose lease is
invalid. Handle 2r is the capture request r starts, 2r−1 the one its rollback restores.

A displacement takes the input of the other captures one by one; when the backend refuses, the
error is dropped, as in the code, and `past` keeps that the capture's input was `retained`.

**PrivacyCurtain.** Every caller of `refresh_curtain` in `control.rs`; a capture leaves out the
windows that exist when it starts. When the curtain is turned on, `restarts` are the sessions that
`restart_sessions_for_curtain` has still to make again, one after the other, and `awaited` is the
one whose reconfiguration it waits for; `remaking` says how far a session's reconfiguration is, a
viewer's own or this one. A restart may be refused (another reconfiguration is under way), fail
before it has stopped the old capture, or end in a tombstone; the error is dropped, and `unmade`
keeps the sessions that went on with their old capture. `crossed` marks starts during whose first
frame another caller redrew or removed the curtain (section 4).

**Pairing.** Offers, the operator's approval, credentials and their revocation. Every
operation holds one mutex; one that writes is a *job* of several steps, because the process
may die between two writes, and each write may fail. A token is named by the key it is stored
under. `past` records what was handed out, closed and revoked.

**KM.** `KmStates` is the pure state machine of `crates/domain/src/km.rs`: each event gives a
machine and its effects in order. `KmMachine` runs them under every event in any order and
switches the subsystems that the effects name. `KmPeers` is `KmManager` of the host: starts,
the session's own task and the calls that stop it, in steps between which no lock is held.
`KmDuplex` is one armed session at both ends: the host's session, the Mac's event tap and
injector, the ordered connection, and the tablet's runtime with its helper; the host's states
are those of `KmStates`. `KmOwner` is the abstract promise: the input changes direction only by
way of the local screens.

**Media.** `MediaSealing` has the sealer's counter, the challenges, the bitmap of the replay
window (words of `WordBits` bits) and what becomes of early media. `HostEncoder` is the single
encoder from the capture callback to the socket; a handler is a step, and what it leaves to another
queue is one of its own. `SplitPipeline` is the split stream on the host. `FrameAssembly` and
`FrameSequencer` are the reassembler, the FEC groups, the sequencer and the requester of
retransmissions; `MediaReceiver` is the renderer's loop around them, with a host that answers.
`FrameFeed` is the abstract promise to the decoder. `Sublists` has what a filter leaves of a queue.

**FileTransfer** is the host's table with its staging files and the viewer's upload loop,
whose calls may come late. **ViewerSession** is the application's one control client: a step
is what happens between two `await`s. A host that has dropped the credential refuses one request,
closes its end and reads nothing behind it.

**Side by side.** The four modules `MCHostServices`, `MCBothEnds`, `MCMediaPath` and
`MCRecoveries` put components that share no state with one another into one instance: the
variable `part` says which of them a behaviour exercises, the others keep their initial state.
A property such as `PairingsAreDurable` is the conjunction of the component's invariants, each
of which has a name and a comment in the component's module; `EachStep` joins the action
properties of the parts, and `EachSettles` their liveness properties, each with what that
part calls unsettled. Variables are renamed where two components use one name.

Operators introduced by *a slip* in a comment are not part of the specifications: each is the
mutated form of the definition after it, and replacing the definition by it makes one of the
properties fail.

## 3. Runs, bounds, fairness

Every bound is a constant named `Max…` (or a length of a queue) and appears in a guard. The
bounds let behaviours end, so deadlock is not checked; that somebody waits for ever is a
liveness property instead.

| run | checks | what it shows |
|---|---|---|
| `input_retries` | `TypeOK`, `AckedIsExecuted`, `DeliveryInOrder`, `ReleaseSparesNewerInput` | three key events, two faults, one focus loss: order, at most once, honest acknowledgements, and an old ReleaseAll never lets go of newer keys |
| `input_consent` | `HeldOnlyUnderConsent`, `PointerNeverGoesBack` | text, language and keys with two pointer positions while the operator toggles and stops at any point of a handler |
| `input_settles` | `NoStuckKey` | with fairness, after the user and the network settle the queue drains and no key stays down |
| `windows_retire` | `TypeOK`, `RetirementReleases`, `DrainedMeansQuiet`, `BadgeSettles` | two events against two toggles, a loss, a refused release, a retirement and a revocation anywhere |
| `grants_leases` | `TypeOK`, `LeasesFollowGrants`, `RemovalDrains`, `CleanOnlyWhenQuiet`, `DecisionsSurvive`, `OperationsReturn` | a session against two operators, a failed write, a shutdown, a crash and a restart |
| `session_control` | `SessionsAreWhole`, `InputIsAccounted`, `RevokedStreamsNothing`, `NoRevival` | starts, reconfigurations, stops, sweeps, revocations and input decisions that overlap on two endpoints, with failing backends and transports |
| `km_fails_closed` | `FailsClosed` | sharing ends in every way at every point: both ends get their own input back |
| `host_services` | `PairingsAreDurable`, `StopsReachTheirSession`, `SharingIsConsented`, `TransfersAreAccounted`, `CurtainIsNotStreamedApart`, `EachStep` | pairing, KM sessions, the KM machine, file transfers and the curtain, each by itself |
| `both_ends` | `DatagramsOpenOnce`, `RequestsKeepTheirHost`, `NoInputIsStranded`, `EachStep` | sealed datagrams, the viewer's control session and a KM session at both ends |
| `media_path` | `SlotsAndBoundariesHold`, `PendingIsBounded`, `PairsFollowTheirReference`, `FeedSpec`, `ReservedOnce` | the encoder, the viewer's media path and the split stream without timing assumptions |
| `recoveries` | `EachSettles` | under fairness, the picture, the requested keyframe, the curtain and the control session come to rest after a fault |
| `split_references` | `UnsentReferenceInvalidates` (violated) | section 4 |

**Why the bounds suffice.**
*Input:* a queue of one or two and two attempts make overflow and give-up happen within three
events; two faults are a loss and an early retry together, the smallest case in which a
give-up races a late datagram; `MaxSeq` leaves room for a ReleaseAll after the events, and in
`input_settles` for all that can be given up. One key is enough because the protocol never
looks at which key it carries. *Windows:* two events let a press be followed by a press or a
release of the other kind; a second toggle re-enables input behind a stale flag. *Grants:*
one device because the store never relates two; two sources so that an update may remove one
and add the other; two operators so that they overlap; three changes because a removal racing
an addition needs a grant first. *Sessions:* two endpoints for displacement, three requests
for a start, its replacement and a third party, two calls to overlap with one another;
`Budgets` chooses which calls and faults a behaviour may use, so that each mix is explored
whole without the product of all. *Pairing:* two devices with two names (one empty) so that a
pairing replaces by device and by name; two offers and two credentials for a second pairing of
the same device; one crash and one failed write at any point. *KmPeers:* a device paired
twice, two sessions, two stops in flight. *Files:* two tokens and two devices, a file of three
units in chunks of two so that the last is short; two faults so that a failed removal is
followed by a failure of the sweep. *Curtain:* two starts, so that one overlaps
the other's registration and restart; two toggles (one in `recoveries`), one failure. *Sealing:*
words of two bits and two words give a window of four minus one, a counter that starts within
or beyond it. *KmDuplex:* four epochs are a direction taken and returned at both ends, in
`km_fails_closed` two suffice for one way in and out. *Media:* two data fragments and a parity,
tables of two entries, numbers 16 apart, so that they wrap and eviction happens within four
units; the code's caches are larger, the model's scaled down. *Encoder:* a limit of two slots,
one failure. *Split:* two pairs in flight, three captures; two expiries and a failure,
or a request of the viewer with one of these; `SoftExpiries` is 2 in
the code and 1 in the instance. The proofs of section 5 remove these bounds where they exist.

**Fairness.** Weak fairness of the threads, of the timers, and of the delivery of a datagram
that is not lost (losses are bounded, so retries get through). In `InputPlane`: the worker
wakes up on its own, `inputQueue` and the main queue run what is queued on them,
`connectSocket` polls. In `WindowsInput`: the input thread, the toggle and the retirement go
on, and the viewer sends a heartbeat a second. In `SourceGrants`: the operators' threads run,
and an operation of the capture backend comes to an end (`Leave`); that `OperationsReturn`
holds although sessions may enter their leases again and again is due to the invalidation that
comes before the wait. In `KmDuplex`: the tasks of both ends, the watchdogs, and the discovery
of a closed connection. In `PrivacyCurtain`: the poll. In `HostEncoder`: the queues, the timers
and a viewer that asks again; strong fairness only where a condition comes and goes (the gate
that spaces keyframe requests, the age of the last request). The recovery of the encoder is
checked under `Prompt`, the assumption that an output callback comes before the watchdog's
age; without it a slow encoder may be reset for ever, which the code accepts. In
`MediaReceiver`: the host sends, a datagram is taken when the socket is read often enough, the
ticks go on. In `ViewerSession`: attempts end (the connection has a timeout; the look-up of the credential
reads the device's own secure store, `pairing.ts:265-298`, and is assumed to answer), a request
times out, a closed socket says so.
Nothing is assumed of users, operators, stops or crashes.

**Refinements.** `DeliveryInOrder` is `InputDelivery!Spec` under a mapping of `pushed`, `done`
and `resynced`; `ExclusiveOwner` is `KmOwner!Spec` for the machine and again for the session
at both ends; `FeedSpec` is `FrameFeed!Spec` for what the receiver feeds the decoder.


## 4. Disagreements between code and documentation

One is kept as a run that TLC refutes; its trace is the argument, and `findings` in
`PROJECT.json` has the quotation. `SplitRecoveryPolicy.swift` says that a soft expiry
invalidates the reference chain and asks for keyframes. When only the left half of a
pair expires, the pair is closed with its *finished* right half unsent, and the keyframe is
asked of the left encoder alone (`DualEncoderPipeline.swift:436`): the right encoder's next
picture depends on one the viewer never gets. Run `split_references`.

The others were met while modelling; each model behaves as the code does, and the
properties are stated so that they say where the code keeps its promise.

| where | what happens |
|---|---|
| `worker.rs:848` | a challenge opened once the session is live, a late or a repeated one, resets the viewer's scheduler: a queued key-up is lost and the sequence restarts below the host's. `NoStuckKey` is checked with one challenge, and the proofs of order count the sequence spaces (section 5) |
| `Controls.swift:181` | `stop()` cancels the language transition before it waits for the handler, which may start another |
| `Lifecycle.swift:33` | the release of a stopped session is queued with a weak reference and may find the session gone |
| `windows_backend/mod.rs:616` | a toggle between the look at the gate and the injector's lock leaves a key down while input is off, until the retirement |
| `input.rs:60` | `release_all` knows no up for back and forward buttons and forgets what is left; `RetirementReleases` holds without side buttons |
| `source_grants.rs:243` | `update` revokes every lease of the device, also when a source is only added |
| `control.rs:1154` | the sources granted before are read outside the lock: a removal that overlaps another operation leaves the session registered, with its lease revoked |
| `domain/km.rs:556` | the comment says that revoking both directions always disarms; the code disarms when one event names both, and stays armed without any consent when two events withdraw one each |
| `KmRuntime` | an edge crossing that the host does not answer leaves `edgePending` set |
| `pairing.rs:258` | the migration of an inline token that the key store refuses writes the file without it: `token_hex` is not serialised |
| `control.rs:3416` | a new session's default unlock works outside the lock of the operator's decisions: a denial made while the backend unlocks may be overwritten |
| `control.rs:3462` | a start that displaces another session's input drops the backend's error: the host reports the session as locked while its capture may still take input (the comment at `control.rs:2380` knows of it); `InputIsAccounted` leaves out the captures whose disabling failed |
| `control.rs:751` | the restart that a curtain turned on asks of each live session drops its error: one refused because a reconfiguration is under way (`control.rs:1700`), or failed before the old capture was stopped, leaves the session streaming the curtain it does not leave out; `CurtainIsNotStreamedApart` leaves out these sessions |
| `control.rs:2241` | the curtain's poll during the first frame of a start may redraw the windows that the start has left out of its capture |
| `CaptureSession+Recovery.swift:106` | a keyframe request on an idle screen leaves the retained frame alone when it finds a capture pending; if that capture is then dropped, nothing submits the keyframe until the next request |
| `session.ts:270` | a client closed while the stored credential is read becomes the session, dead |
| `DualEncoderPipeline.swift:41-42` | the comment says that no transport recovery is caused; a solo tile sent by the diagnostic `dropRightForTest` causes one (`NetworkQueue.swift:215`) |

## 5. Proofs

Every leaf is checked by Z3, Zenon or the temporal backend. The theorems hold for every value
of the constants under the assumptions named below; the assumptions are that bounds are
natural numbers, keys are not buttons, and what the individual theorems name. Each
component's proofs are a module of their own that extends the component's; `SessionBooks_proofs`
goes on where `SessionControl_proofs` ends. The components that run side by side are proved
about side by side: the services of the host in `HostServices_proofs`, which extends
`MCHostServices`, the two ends of a connection in `BothEnds_proofs`, those of the media path in
`MediaPath_proofs`.

| theorem | property | in words |
|---|---|---|
| `WindowsInput_proofs!TypeCorrect` | `TypeOK` | |
| `WindowsInput_proofs!RevocationIsFinal` | `DrainedMeansQuiet` | no press after a drained revocation |
| `WindowsInput_proofs!RetirementLetsGo` | `RetirementReleases` | a retired session holds nothing down |
| `SourceGrants_proofs!TypeCorrect` | `TypeOK` | |
| `SourceGrants_proofs!LeasesAreGranted` | `LeasesFollowGrants` | a valid lease is granted now |
| `SourceGrants_proofs!RemovalsDrain` | `RemovalDrains` | a removal returns after the last operation |
| `SourceGrants_proofs!CleanMeansQuiet` | `CleanOnlyWhenQuiet` | a clean journal means a quiet stop |
| `SourceGrants_proofs!DecisionsAreDurable` | `DecisionsSurvive` | what was reported stored survives |
| `InputPlane_proofs!TypeCorrect` | `TypeOK` | |
| `InputPlane_proofs!HeldUnderConsent` | `HeldOnlyUnderConsent` | no key is down without consent, or its release is queued |
| `InputPlane_proofs!AcksAreTrue` | `AckedIsExecuted` | acknowledged is executed |
| `InputPlane_proofs!PointerNeverReturns` | `PointerNeverGoesBack` | |
| `InputPlane_proofs!ReleasesAreInOrder` | `ReleaseSparesNewerInput` | a late ReleaseAll lets go of no newer key |
| `InputPlane_proofs!DeliveredInOrder` | `DeliveryInOrder` | the plane implements `InputDelivery` |
| `InputPlane_proofs!ChallengedOnce` | | the last four without their hypothesis, for one challenge |
| `SessionControl_proofs!NothingIsRevived` | `NoRevival` | a superseded session is never published again |
| `SessionControl_proofs!NoCaptureIsOrphaned` | | at rest, a capture is some live session's |
| `SessionControl_proofs!RevocationStopsEverything` | `RevokedStreamsNothing` | nothing streams after a revocation |
| `SessionBooks_proofs!InputStaysAccounted` | `InputIsAccounted` | at rest, input is taken for an unlocked session, and for one only |
| `SessionBooks_proofs!SessionsStayWhole` | `SessionsAreWhole` | one session per endpoint, its transport kept, nothing left behind |
| `HostServices_proofs!SharingCorrect` | | what runs is warranted, an exit releases before it restores |
| `HostServices_proofs!OwnershipIsExclusive` | | the machine implements `KmOwner` |
| `HostServices_proofs!StopsReach` | | a stop, a withdrawal and a revocation reach their session |
| `HostServices_proofs!ConsentsArePerPairing` | | a session connects under the consent of its own pairing |
| `HostServices_proofs!Sharing`, `Stopping` | `SharingIsConsented`, `StopsReachTheirSession` | the theorems of KmMachine and KmPeers, of the whole host |
| `HostServices_proofs!Curtain` | `CurtainIsNotStreamedApart` | no stream shows the curtain |
| `HostServices_proofs!Transfers` | `TransfersAreAccounted` | uploads, staging files and table agree |
| `HostServices_proofs!Durable` | `PairingsAreDurable` | credentials survive, revocations hold |
| `HostServices_proofs!StepsAreAllowed` | `EachStep` | both action properties and the refinement of `KmOwner` |
| `BothEnds_proofs!RequestsStayWithTheirHost` | `RequestsKeepTheirHost` | a request runs at its host, its answer is its own |
| `BothEnds_proofs!TheSelectionPrevails` | `SelectionPrevails` | an older selection touches no newer connection |
| `BothEnds_proofs!DatagramsAreOpenedOnce` | `DatagramsOpenOnce` | the bitmap is the set of accepted counters |
| `MediaPath_proofs!SlotsAreConserved` | `SlotsAndBoundariesHold` | no encode slot is lost or given back twice |
| `MediaPath_proofs!PendingStaysBounded` | `PendingIsBounded` | the sequencer is no playback queue |
| `MediaPath_proofs!DecoderIsFedInOrder` | `FeedSpec` | the receiver implements `FrameFeed` |

**WindowsInput.** `DrainedInv` says that a drained lease is revoked and has nothing in
flight, neither the thread nor the toggle; it is needed because a step that presses a key is
enabled by where the thread is, not by the lease. `RetirementLetsGo` assumes
`SideButtons = {}` (section 4). Its invariant `ReleaseInv` says that as long as no SendInput
failed, what is down is remembered and nothing is down once the thread, whose last act is a
release, is done; and that a retirement that joined it has waited for that.

**SourceGrants.** `LeaseInv`: a valid lease is *listed*, a listed lease is granted, and one with
work in flight is listed, fenced or awaited by a thread. `listed` makes it inductive: an
update revokes exactly the listed leases of its device. `QuietInv` follows the shutdown from
place to place: until its end every journal the disk may hold is dirty, from `draining` the
store is closed, from `retired` no session is left. `DecisionsSurvive` is inductive with the types.

**InputPlane.** `ConsentInv` is about the handler between its two steps: if it saw input
enabled, input is enabled or a release waits behind it. The order of delivery rests on
`DeliveryInv`: there *is* a sequence of events the viewer has sent (`IsLog`: consecutive
numbers, spans of calls that follow one another), the queue is its end (`IsQueue`), what is in
flight is of it (`InFlight`), and what the host has executed is a beginning of it, up to a
release (`Executed`). The sequence is not a variable: a step takes the witness of the state
before to one of the state after. A second opened challenge restarts the viewer's sequence
space and not the host's (section 4), so the theorems about numbers assume that it has opened
at most one (`[](space <= 1)`), and `ChallengedOnce` shows that this holds when one challenge is
sent. `HeldUnderConsent` needs no such assumption.

**KmMachine, KmPeers.** `IInv` relates the machine to the subsystems (`Carried`, `Warranted`) and
the effects just emitted to the state (`Sound`). In `KmPeers` a session is known by its number,
given out once (`SessionsAreNumbered`), so a stop under way for the session of the slot
`Reaches` it; `WithdrawalReaches` and `RevocationReaches` say that after a withdrawal or a
revocation such a stop is under way for whatever session is left. A device has paired once
(`MaxGen >= 1`).

**SessionControl.** `TypeInv` gives each kind of task the shape its record has at each place,
since a stop reads other fields than a start. `GuardInv` says who holds which lock and endpoint,
`BornInv` that a handle is made once, by the task it belongs to, `KnowInv` that what a task
read is still so at the places where the code relies on it, `StoppedInv` what a stop has
achieved at each of its places, `RevokedInv` that a revocation leaves no session in the table. `AccountInv` is
the account of captures: each is in the table, or some task is at a place from which
it will be put there or stopped, or its stop has failed. The books of the endpoints take four
more, in `SessionBooks_proofs`. `LeaseInv`: the setup lease of an endpoint has exactly one holder, told by its place
(`Leases`), and the books name the owner of what is set up. `ClaimInv`: a request at work is not
newer than the newest claim of its endpoint, and while a start has taken an endpoint's sessions
out only a later request registers another; this is what makes `OneSessionPerEndpoint`
inductive. `OwnerInv`: owners are unique, nobody speaks of an owner that is not published, no
task is about to take a usable session's transport down (`Doomed`), and what a request has
`Prepared` is its own as long as it is the newest. `LeftInv`: a registration has a session or a
task that `Cleans` after it, an owned transport has one of these, a deferred cleanup, or the
request that `WillClean` it, and an entry nobody needs is forgotten (`Tidy`). With nobody at work
only sessions are left of these. `InputIsAccounted` rests on `ToldInv`: if a capture takes input,
its session's record says so, a decision on it has begun, a displacement failed to take it, its
device is no longer paired, or some task `Tells` the capture next; and on `WinInv`: of two sessions that have input by default
(`Wins`: not granted, not carried over, not ended) one is about to displace the other. `HandleInv`
(a capture is one session's), `EndInv`, `FeedInv` and `SpareInv` make the two inductive. All rest on
`MaxRequests`, `MaxCalls` in `Nat` and hold for any number of overlapping tasks.

**HostServices.** The whole's behaviour, seen through the variables of one service, is a
behaviour of that service, so the theorems of its proof module carry over (`MachineRuns`,
`PeersRun`), and what is inductive in the service is so in the whole. *The curtain*:
`RemembersDrawn` (the host remembers the windows it drew), `StartsArePrepared` (a start left out
the windows there are, or another caller has moved them since), `LiveIsCurtained` (so does a
session, or its restart is still to come, awaited, or was refused). `FilesInv`: an entry is its viewer's and has the bytes the viewer
was told of, a staging file has an entry or waits for the sweep, and a call that comes late
finds nothing that is not its own. `ServerInv` is the pairing server: the shape of a job at each
of its places, at most one open offer, one credential per device, the generations and what
connections cached, and, because the process may end between any two writes, that at *every*
place of a job what a start would load keeps each committed credential and no revoked one.
Two assumptions say what the theorem is not about: a single failed write (`MaxFaults <- 1` in
the instance; with two, a revocation may lose both of its writes) and no file with inline
tokens (`Legacy = {}`), whose migration is one of the disagreements of section 4.

**BothEnds.** *The session* is proved for any finite set of requests, any number of sockets,
hosts, selections and retries. `SocketsInv` is about what is on the sockets: no request twice on
one, the answers and the requests under way in the order of those that wait, so that the
oldest is the one answered (`MatchInv`), and of every request how often it was run and is still under
way (`RunInv`). `AttemptsInv` says whom an attempt to connect belongs to. The first attempt at this
proof found the model wrong: a host that refuses a request answers and *closes*
(`control.rs:4308-4336`, tested at `control.rs:6143`), so that what waits behind it never runs; the
model had let it run. The socket's field `shut` is the correction. *The sealing* is proved for
windows of any size. `Exact` relates the bitmap to the set of counters accepted; that shifting the words in place moves every
bit is an invariant of the loop (`Done`). `SealingConstants` says that the counters a sealer
starts from are further apart than it counts (`StartsAreApart`): the code draws 62 random
bits for each start (`secure-channel/src/lib.rs:397-407`), so that they meet only by chance.

**MediaPath.** *The encoder* (`EncoderConstants`: the limits are positive, the restarts, faults
and the pack are any numbers). `Sound`: the slots taken are as many as the submissions of the ledger and the
one being handled, a recovery boundary that is awaited has nothing but keyframes in the network
queue, and a registered retry has a timer. A submission is a record of the ledger that is removed when it is
answered; that it is removed once is what the lemmas about `Sublists` are for. *The receiver* (`ReceiverConstants`: at least one shard, at least two numbers for access
units, bounds that are positive where the code's are). `Link` is about what is on the way. `Assembled` and `Sequenced`: nothing complete stays
in the reassembler, the sequencer's units have different numbers, at most `MaxReorder` before an
epoch and `2 * MaxReorder - 1` in it. `Chained`: a decoder that is fed deltas has been fed, and the number the loop
keeps (`last`) is that of the unit it was fed last. It has to hold between any two datagrams
of a batch, not only between two batches, so the proof carries it through the folds that work a
batch off (`FoldStays`). That the provers have no induction is made up for by the least number:
the smallest prefix of a sequence for which a fold were undefined, or would leave the invariant,
has a predecessor (`FoldExists`, `FoldStays`). `SelectSeq` has no definition the provers can expand, so the
modules use `Sublists!Selected`, which TLC agrees is the same. Here too the proof found a slip
of the model: two arms of a `CASE` overlapped in `Present`, and a frame that is not fed could have
been treated as one the decoder had accepted.

**Only model-checked.**

* `NoInputIsStranded` and the half of `MCBothEnds!EachStep` that is about KmDuplex.
* `PairsFollowTheirReference` of SplitPipeline and `ReservedOnce` of MediaReceiver: the latter compares
  the two ends of a step that works a whole batch off, in which a small space of numbers may wrap
  around.
* Liveness: `NoStuckKey`, `BadgeSettles`, `OperationsReturn`, `FailsClosed`, `EachSettles`. The
  prover has no rules for fairness and ENABLED.

## 6. What is not modelled, and the plan

**Left out of the modelled components.** The bytes of datagrams and their validation, CGEvent
and SendInput themselves (their effect is the set of keys held down), the wrap of 32-bit
sequences. In SourceGrants the revocation of a whole device with its pairing generations (it is
in Pairing), failures of `list_displays`, the retry of `pending_retirements`. In the viewer's media
path the stale resync, which is dead code, one of four triggers of the render health's rebuild
and its termination after 12 s; a decoder that cannot be created. The host in
`MediaReceiver` is abstract: once asked, its next unit is a keyframe with its configuration. In
`HostEncoder` and `SplitPipeline` an encoder calls back once for each submission, in order, which is
VideoToolbox's contract; the split stream's stop, its diagnostic modes and a failing setup are
left out, and so is the suppression of frames during a resize. In ViewerSession the catalogue's probe, which bypasses the FIFO.
In PrivacyCurtain two
calls that both turn the curtain on do not overlap: it is turned on again when the restarts of an
earlier call are through. In `FrameSequencer` the cap on a request
(`MAX_NACK_REQUEST_TOTAL`, 40 fragments), which no unit of the instance reaches: `Reserve`,
`FollowUp` and `Arm` ask whatever is missing. In `MediaReceiver` a flush that fails during a resync and
drops the decoder (`decoder.rs:34-41`); `Observe` asks for one rebuild where `health.rs:93-99` tries
up to four times; `DiscardHidden` also throws away the challenges that the suspended loop would
answer (`worker.rs:363-383`), so that a viewer in the background loses more than the code does;
`SendUnit` is any host that keeps the contract above. In
`HostEncoder` a configuration write that fails and an access unit that cannot be prepared
(`CaptureSession+UdpPacket.swift:187-193, 300-344`); handlers that take several locks in turn
(`AdaptiveQuality.swift:71-88`, `EncodeSubmission.swift:336-350`) are one step. In `SplitPipeline` the
release of a lease and the recovery behind it (`NetworkQueue.swift:213-217`) are one step.
In MediaSealing a sealer restarted with a lower counter is heard only after its challenge.

**Not modelled at all.** The viewer's split renderer; the early core crates (`host-core`,
`viewer-core`); the adaptive quality; USB (`aoap*`, `usb-mux`); the virtual display; UPnP; the
ownership of system audio and the cursor's stream; the Windows media senders and their pacing;
the arithmetic of the FEC code; clipboard, settings and audit; the handshake of the secure
channel; the JNI layer; user interfaces, generated contracts, keymaps, vendored code, tools.
`components` in `PROJECT.json` gives each its reason.

**Plan.**

1. *Proofs*: the flow leases of SplitPipeline; a form of `ReservedOnce` that speaks of one datagram
   instead of a batch.
2. *SplitViewer*: the recovery gate, the dispatch ledger and the pairing of presentations, to be
   composed with SplitPipeline.
3. *AudioOwnership* and *CoreRegistries*; the Windows senders' pacing.
