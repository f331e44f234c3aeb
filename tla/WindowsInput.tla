---------------------------- MODULE WindowsInput ----------------------------
(***************************************************************************)
(* Remote input in a Windows host session: the input gate                  *)
(* (input_gate.rs), the injector (windows_backend/input.rs), the thread    *)
(* that reads the viewer's datagrams, the operator's toggle and the        *)
(* retirement of the session (windows_backend/mod.rs), the source lease    *)
(* that revocation invalidates and drains (source_grants.rs), and the      *)
(* viewer's lock badge.                                                    *)
(*                                                                         *)
(* A step is what happens under one mutex or around one atomic, so the     *)
(* thread, the operator, the retirement and the revocation interleave      *)
(* between the gate, the lease, the injector and the socket.  Which events *)
(* the sequencer admits is modelled in InputReceiver.                      *)
(***************************************************************************)
EXTENDS Naturals

CONSTANTS
    Keys,         \* keys that can be held
    Buttons,      \* pointer buttons that can be held
    SideButtons,  \* those of them that are back or forward (masks 8, 16)
    MaxEvents,    \* bound: events the thread takes up
    MaxToggles,   \* bound: set_input_enabled calls
    MaxLosses,    \* bound: datagrams lost on the way to the viewer
    MaxFailures   \* bound: SendInput calls that fail

ASSUME WindowsInputAssumption ==
    /\ Keys \cap Buttons = {} /\ SideButtons \subseteq Buttons
    /\ {MaxEvents, MaxToggles, MaxLosses, MaxFailures} \subseteq Nat

Held == Keys \cup Buttons

Event == [op : {"down", "up"}, on : Held] \cup [op : {"release", "text"}]

VARIABLES
    enabled,      \* GateState.enabled
    retired,      \* GateState.retired
    stop,         \* WindowsSession.stop
    revoked,      \* LeaseState.revoked
    drained,      \* wait_idle returned to whoever revoked
    thread,       \* where the input thread is
    event,        \* the event it is working on
    answer,       \* the flag it read for its acknowledgement
    operator,     \* where set_input_enabled is
    retirement,   \* where retire is
    remembered,   \* pressed_keys and pressed_buttons
    down,         \* what Windows holds down because of this session
    wire,         \* flags (LCS1, LCA1) on their way to the viewer
    badge,        \* the flag the viewer shows
    events, toggles, losses, failures   \* budgets spent

gateVars == <<enabled, retired>>
leaseVars == <<revoked, drained>>
threadVars == <<thread, event, answer>>
injectorVars == <<remembered, down, failures>>
budgets == <<events, toggles, losses>>
vars == <<gateVars, stop, leaseVars, threadVars, operator, retirement,
          injectorVars, wire, badge, budgets>>

ThreadPlaces == {"reading", "expiring", "admitted", "applying", "applied",
                 "replying", "leaving", "gated", "done"}

Init ==
    /\ enabled = FALSE /\ retired = FALSE /\ stop = FALSE
    /\ revoked = FALSE /\ drained = FALSE
    /\ thread = "reading" /\ event = [op |-> "release"] /\ answer = FALSE
    /\ operator = "idle" /\ retirement = "live"
    /\ remembered = {} /\ down = {} /\ failures = 0
    /\ wire = {FALSE} /\ badge = FALSE
    /\ events = 0 /\ toggles = 0 /\ losses = 0

-----------------------------------------------------------------------------
(* SourceLease: the operations in flight are the places that hold one.     *)

InFlight == \/ thread \in {"admitted", "applying", "applied", "replying"}
            \/ operator \in {"enabling", "disabling", "releasing"}

(* Every datagram enters the lease (media_sender.rs, send). *)
Send(flag) == wire' = IF revoked THEN wire ELSE wire \cup {flag}

(* InputGate::publish_locked. *)
Publish(flag) == IF retired THEN UNCHANGED wire ELSE Send(flag)

(* A plausible slip: the buttons are forgotten and not lifted. *)
ReleaseKeysOnly ==
    /\ remembered \cap SideButtons = {}
    /\ down' = down \ (remembered \cap Keys)
    /\ remembered' = {}
    /\ UNCHANGED failures

(* InputInjector::release_all drains each set before it sends the ups.     *)
ReleaseSucceeds ==
    /\ remembered \cap SideButtons = {}
    /\ down' = down \ remembered
    /\ remembered' = {}
    /\ UNCHANGED failures

(* button_flag knows no up for a side button, so the loop over the buttons *)
(* ends, in HashSet order, at the first one; an up that Windows refuses    *)
(* ends it too.  What is left down is forgotten.                           *)
ReleaseFails ==
    LET keys == remembered \cap Keys
        plain == remembered \cap (Buttons \ SideButtons)
    IN  \/ /\ remembered \cap SideButtons # {}
           /\ \E up \in SUBSET plain : down' = down \ (keys \cup up)
           /\ remembered' = {}
           /\ UNCHANGED failures
        \/ /\ failures < MaxFailures
           /\ failures' = failures + 1
           /\ \/ \E up \in SUBSET keys :
                    /\ up # keys
                    /\ down' = down \ up
                    /\ remembered' = remembered \ keys
              \/ \E up \in SUBSET plain :
                    /\ up # plain
                    /\ down' = down \ (keys \cup up)
                    /\ remembered' = {}

ReleaseAll == ReleaseSucceeds \/ ReleaseFails

(* InputInjector::apply. *)
Inject(ev) ==
    \/ ev.op = "release" /\ ReleaseAll
    \/ ev.op = "text" /\ UNCHANGED injectorVars
    \/ /\ ev.op = "down"
       /\ down' = down \cup {ev.on}
       /\ remembered' = remembered \cup {ev.on}
       /\ UNCHANGED failures
    \/ /\ ev.op = "up"
       /\ down' = down \ {ev.on}
       /\ remembered' = remembered \ {ev.on}
       /\ UNCHANGED failures
    \/ /\ ev.op \in {"down", "up"} /\ failures < MaxFailures
       /\ failures' = failures + 1
       /\ UNCHANGED <<remembered, down>>

-----------------------------------------------------------------------------
(* The input thread: run_udp_input, run_frames.                            *)

Reading == thread = "reading" /\ ~stop

(* A plausible slip: the event is taken up without entering the lease. *)
TakeUpUnleased(ev) ==
    /\ Reading
    /\ events < MaxEvents
    /\ events' = events + 1
    /\ thread' = "admitted" /\ event' = ev /\ UNCHANGED stop
    /\ UNCHANGED <<gateVars, leaseVars, answer, operator, retirement,
                   injectorVars, wire, badge, toggles, losses>>

(* process_authenticated_message: an event the sequencer admits, or the    *)
(* end of the session when the lease was revoked.                          *)
TakeUp(ev) ==
    /\ Reading
    /\ events < MaxEvents
    /\ events' = events + 1
    /\ IF revoked THEN stop' = TRUE /\ UNCHANGED <<thread, event>>
       ELSE thread' = "admitted" /\ event' = ev /\ UNCHANGED stop
    /\ UNCHANGED <<gateVars, leaseVars, answer, operator, retirement,
                   injectorVars, wire, badge, toggles, losses>>

(* A plausible slip: a heartbeat refreshes the liveness clock only. *)
HeartbeatSilent ==
    /\ Reading
    /\ IF revoked THEN stop' = TRUE ELSE UNCHANGED stop
    /\ UNCHANGED <<gateVars, leaseVars, threadVars, operator, retirement,
                   injectorVars, wire, badge, budgets>>

(* LCK1 and IDR ask for the flag again. *)
Heartbeat ==
    /\ Reading
    /\ IF revoked THEN stop' = TRUE /\ UNCHANGED wire
       ELSE Publish(enabled) /\ UNCHANGED stop
    /\ UNCHANGED <<gateVars, leaseVars, threadVars, operator, retirement,
                   injectorVars, badge, budgets>>

(* BYE, a socket error, or the end of the capture thread. *)
Halt ==
    /\ ~stop
    /\ stop' = TRUE
    /\ UNCHANGED <<gateVars, leaseVars, threadVars, operator, retirement,
                   injectorVars, wire, badge, budgets>>

(* check_viewer_health: no authenticated datagram for 15 s. *)
Expire ==
    /\ Reading
    /\ stop' = TRUE
    /\ thread' = "expiring"
    /\ UNCHANGED <<gateVars, leaseVars, event, answer, operator, retirement,
                   injectorVars, wire, badge, budgets>>

ReleaseExpired ==
    /\ thread = "expiring"
    /\ ReleaseAll
    /\ thread' = "reading"
    /\ UNCHANGED <<gateVars, stop, leaseVars, event, answer, operator,
                   retirement, wire, badge, budgets>>

CheckGate ==
    /\ thread = "admitted"
    /\ thread' = IF enabled THEN "applying" ELSE "applied"
    /\ UNCHANGED <<gateVars, stop, leaseVars, event, answer, operator,
                   retirement, injectorVars, wire, badge, budgets>>

Apply ==
    /\ thread = "applying"
    /\ Inject(event)
    /\ thread' = "applied"
    /\ UNCHANGED <<gateVars, stop, leaseVars, event, answer, operator,
                   retirement, wire, badge, budgets>>

ReadFlag ==
    /\ thread = "applied"
    /\ answer' = enabled
    /\ thread' = "replying"
    /\ UNCHANGED <<gateVars, stop, leaseVars, event, operator, retirement,
                   injectorVars, wire, badge, budgets>>

Reply ==
    /\ thread = "replying"
    /\ Send(answer)
    /\ thread' = "reading"
    /\ UNCHANGED <<gateVars, stop, leaseVars, event, answer, operator,
                   retirement, injectorVars, badge, budgets>>

Leave ==
    /\ thread = "reading" /\ stop
    /\ thread' = "leaving"
    /\ UNCHANGED <<gateVars, stop, leaseVars, event, answer, operator,
                   retirement, injectorVars, wire, badge, budgets>>

LeaveGate ==
    /\ thread = "leaving"
    /\ enabled' = FALSE /\ retired' = TRUE
    /\ thread' = "gated"
    /\ UNCHANGED <<stop, leaseVars, event, answer, operator, retirement,
                   injectorVars, wire, badge, budgets>>

LeaveReleased ==
    /\ thread = "gated"
    /\ ReleaseAll
    /\ thread' = "done"
    /\ UNCHANGED <<gateVars, stop, leaseVars, event, answer, operator,
                   retirement, wire, badge, budgets>>

-----------------------------------------------------------------------------
(* The operator: set_session_input (control.rs) and set_input_enabled.     *)
(* input_changes admits one at a time, under the lease; it may have found  *)
(* the session before retire removed it.                                   *)

BeginToggle(b) ==
    /\ operator = "idle" /\ retirement = "live" /\ ~revoked
    /\ toggles < MaxToggles
    /\ toggles' = toggles + 1
    /\ operator' = IF b THEN "enabling" ELSE "disabling"
    /\ UNCHANGED <<gateVars, stop, leaseVars, threadVars, retirement,
                   injectorVars, wire, badge, events, losses>>

(* A plausible slip: a toggle that comes late reopens a retired gate. *)
SetGateRegardless(b) ==
    /\ enabled' = b
    /\ Publish(b)
    /\ UNCHANGED retired

(* InputGate::set_enabled. *)
SetGate(b) ==
    /\ enabled' = IF retired THEN enabled ELSE b
    /\ Publish(b)
    /\ UNCHANGED retired

Enable ==
    /\ operator = "enabling"
    /\ SetGate(TRUE)
    /\ operator' = "idle"
    /\ UNCHANGED <<stop, leaseVars, threadVars, retirement, injectorVars,
                   badge, budgets>>

Disable ==
    /\ operator = "disabling"
    /\ SetGate(FALSE)
    /\ operator' = "releasing"
    /\ UNCHANGED <<stop, leaseVars, threadVars, retirement, injectorVars,
                   badge, budgets>>

ReleaseDisabled ==
    /\ operator = "releasing"
    /\ \/ ReleaseSucceeds /\ operator' = "idle"
       \/ ReleaseFails /\ operator' = "fencing"
    /\ UNCHANGED <<gateVars, stop, leaseVars, threadVars, retirement, wire,
                   badge, budgets>>

(* A denial that failed ends the session's access and the session. *)
FenceSession ==
    /\ operator = "fencing"
    /\ operator' = "idle"
    /\ revoked' = TRUE
    /\ IF retirement = "live" THEN retirement' = "stopping" /\ stop' = TRUE
       ELSE UNCHANGED <<retirement, stop>>
    /\ UNCHANGED <<gateVars, drained, threadVars, injectorVars, wire, badge,
                   budgets>>

-----------------------------------------------------------------------------
(* retire: the session leaves the map, its gate closes, what it holds is   *)
(* let go, and its threads are joined.                                     *)

BeginRetire ==
    /\ retirement = "live"
    /\ retirement' = "stopping"
    /\ stop' = TRUE
    /\ UNCHANGED <<gateVars, leaseVars, threadVars, operator, injectorVars,
                   wire, badge, budgets>>

RetireGate ==
    /\ retirement = "stopping"
    /\ enabled' = FALSE /\ retired' = TRUE
    /\ retirement' = "gated"
    /\ UNCHANGED <<stop, leaseVars, threadVars, operator, injectorVars, wire,
                   badge, budgets>>

ReleaseRetired ==
    /\ retirement = "gated"
    /\ ReleaseAll
    /\ retirement' = "joining"
    /\ UNCHANGED <<gateVars, stop, leaseVars, threadVars, operator, wire,
                   badge, budgets>>

Join ==
    /\ retirement = "joining" /\ thread = "done"
    /\ retirement' = "joined"
    /\ UNCHANGED <<gateVars, stop, leaseVars, threadVars, operator,
                   injectorVars, wire, badge, budgets>>

(* The last reference to the session goes when neither retire nor the      *)
(* operator's call holds one, and the injector releases in its drop.       *)
DropInjector ==
    /\ retirement = "joined" /\ ~InFlight
    /\ ReleaseAll
    /\ retirement' = "dropped"
    /\ UNCHANGED <<gateVars, stop, leaseVars, threadVars, operator, wire,
                   badge, budgets>>

(* Revocation (control.rs): invalidate the lease, then wait_idle. *)
Revoke ==
    /\ ~revoked
    /\ revoked' = TRUE
    /\ UNCHANGED <<gateVars, stop, drained, threadVars, operator, retirement,
                   injectorVars, wire, badge, budgets>>

WaitIdle ==
    /\ revoked /\ ~drained /\ ~InFlight
    /\ drained' = TRUE
    /\ UNCHANGED <<gateVars, stop, revoked, threadVars, operator, retirement,
                   injectorVars, wire, badge, budgets>>

-----------------------------------------------------------------------------
(* The way to the viewer. *)

Deliver(flag) ==
    /\ flag \in wire
    /\ wire' = wire \ {flag}
    /\ badge' = flag
    /\ UNCHANGED <<gateVars, stop, leaseVars, threadVars, operator,
                   retirement, injectorVars, budgets>>

Lose ==
    /\ losses < MaxLosses
    /\ losses' = losses + 1
    /\ \E flag \in wire : wire' = wire \ {flag}
    /\ UNCHANGED <<gateVars, stop, leaseVars, threadVars, operator,
                   retirement, injectorVars, badge, events, toggles>>

ThreadWork ==
    \/ ReleaseExpired \/ CheckGate \/ Apply \/ ReadFlag \/ Reply
    \/ Leave \/ LeaveGate \/ LeaveReleased

OperatorWork == Enable \/ Disable \/ ReleaseDisabled \/ FenceSession

RetireWork == RetireGate \/ ReleaseRetired \/ Join \/ DropInjector

Next ==
    \/ \E ev \in Event : TakeUp(ev)
    \/ Heartbeat \/ Halt \/ Expire \/ ThreadWork
    \/ \E b \in BOOLEAN : BeginToggle(b) \/ Deliver(b)
    \/ OperatorWork
    \/ BeginRetire \/ RetireWork
    \/ Revoke \/ WaitIdle
    \/ Lose

Spec == Init /\ [][Next]_vars

(* The threads run, the viewer keeps sending a heartbeat a second, and a   *)
(* datagram that is not lost arrives.                                      *)
Fairness ==
    /\ WF_vars(ThreadWork) /\ WF_vars(OperatorWork) /\ WF_vars(RetireWork)
    /\ WF_vars(Heartbeat)
    /\ \A b \in BOOLEAN : WF_vars(Deliver(b))

FairSpec == Spec /\ Fairness

-----------------------------------------------------------------------------
(* Every variable stays in its domain and a retired gate stays closed:     *)
(* "no delayed old heartbeat/toggle can unlock" it (input_gate.rs).        *)
TypeOK ==
    /\ {enabled, retired, stop, revoked, drained, answer, badge}
          \subseteq BOOLEAN
    /\ retired => ~enabled
    /\ thread \in ThreadPlaces /\ event \in Event
    /\ operator \in {"idle", "enabling", "disabling", "releasing", "fencing"}
    /\ retirement \in {"live", "stopping", "gated", "joining", "joined",
                      "dropped"}
    /\ remembered \subseteq Held /\ down \subseteq Held
    /\ wire \subseteq BOOLEAN
    /\ {events, toggles, losses, failures} \subseteq Nat

(* The session is retired and dropped: whatever its thread and the operator*)
(* were doing, nothing this session pressed is still down, as long as      *)
(* Windows accepts the ups.                                                *)
RetirementReleases == retirement = "dropped" /\ failures = 0 => down = {}

(* After a revocation drained the lease no event of the viewer has any     *)
(* effect on the host: keys only go up.                                    *)
DrainedMeansQuiet ==
    [][drained => down' \subseteq down /\ ~(enabled' /\ ~enabled)]_vars

(* The badge ends up telling the truth although its packets are lost, are  *)
(* reordered, or carry a flag that was read before a toggle.               *)
BadgeSettles == <>[](stop \/ revoked \/ badge = enabled)

=============================================================================
