------------------------------- MODULE KmStates -------------------------------
(***************************************************************************)
(* The state machine of keyboard and mouse sharing (crates/domain/src/     *)
(* km.rs): what each event does to the machine and which effects it emits, *)
(* in order.  A machine is a record, an event an operator that returns the *)
(* machine it leads to and its effects.  KmMachine runs the events one     *)
(* after the other, KmDuplex embeds the machine in the session of a host.  *)
(***************************************************************************)
EXTENDS Naturals, Sequences

Directions == {"macToAndroid", "androidToMac"}

States == {"off", "armed"} \cup Directions

(* Checked before the machine is armed, all false by default. *)
Capabilities == {"macToAndroid", "androidToMac", "cursorInjection",
                 "observeAndPass", "mouseCapture", "virtualCursor"}

Triggers == {"toggle", "virtualCursor", "motionObservation"}

Machine == [state : States, consent : SUBSET Directions, observing : BOOLEAN]

New == [state |-> "off", consent |-> {}, observing |-> FALSE]

(* What the effects switch on and off. *)
Subsystems == {"edgeWatch", "watchdog", "suppression", "keyFilter",
               "mouseObservation", "mouseCapture"}

Start(s) == <<"start", s>>
Stop(s) == <<"stop", s>>
ReleaseAll == <<"releaseAll", "input">>
RestoreLocal == <<"restore", "localInput">>
MoveCursor == <<"move", "cursor">>
Broadcast == <<"broadcast", "state">>
Rejected(why) == <<"rejected", why>>

Effects == {Start(s) : s \in Subsystems} \cup {Stop(s) : s \in Subsystems}
             \cup {ReleaseAll, RestoreLocal, MoveCursor, Broadcast}
             \cup {Rejected(why) : why \in
                     {"bidirectionalConsent", "preflight", "consent", "capability",
                      "source", "conflict", "notArmed"}}

Only(m, es) == [to |-> m, effects |-> es]

When(b, es) == IF b THEN es ELSE <<>>

(* Leaving off takes consent to both directions, granted with the request. *)
Arm(m, caps, c) ==
    IF m.state # "off" THEN Only(m, <<>>)
    ELSE IF c # Directions THEN Only(m, <<Rejected("bidirectionalConsent")>>)
    ELSE IF ~({"macToAndroid", "androidToMac", "cursorInjection", "mouseCapture"}
                \subseteq caps)
    THEN Only(m, <<Rejected("preflight")>>)
    ELSE LET observes == "observeAndPass" \in caps
         IN  Only([state |-> "armed", consent |-> c,
                   observing |-> m.observing \/ observes],
                  <<Start("edgeWatch"), Start("watchdog")>>
                    \o When(observes, <<Start("mouseObservation")>>)
                    \o <<Broadcast>>)

StopsOf(direction) ==
    CASE direction = "macToAndroid" -> <<Stop("suppression")>>
      [] direction = "androidToMac" -> <<Stop("keyFilter"), Stop("mouseCapture")>>
      [] OTHER -> <<>>

(* Slip: local input is restored before its interception stops. *)
EarlyReturnToLocal(m) ==
    IF m.state \notin Directions THEN Only(m, <<>>)
    ELSE Only([m EXCEPT !.state = "armed"],
              <<ReleaseAll, RestoreLocal>> \o StopsOf(m.state) \o <<Broadcast>>)

(* The physical source returns to its screen; consent is kept. *)
ReturnToLocal(m) ==
    IF m.state \notin Directions THEN Only(m, <<>>)
    ELSE Only([m EXCEPT !.state = "armed"],
              <<ReleaseAll>> \o StopsOf(m.state) \o <<RestoreLocal, Broadcast>>)

(* Disarm, escape, disconnection, a lock, sleep, stop-all, the watchdog    *)
(* and an arrangement that no longer holds.                                *)
ExitToOff(m) ==
    IF m.state = "off" THEN Only(m, <<>>)
    ELSE Only([m EXCEPT !.state = "off", !.observing = FALSE],
              <<ReleaseAll>> \o StopsOf(m.state)
                \o When(m.observing, <<Stop("mouseObservation")>>)
                \o <<Stop("edgeWatch"), Stop("watchdog"), RestoreLocal, Broadcast>>)

Grant(m, ds) == Only([m EXCEPT !.consent = @ \cup ds], <<>>)

RevokeConsent(m, ds) ==
    LET less == [m EXCEPT !.consent = @ \ ds]
    IN  CASE m.state = "off" -> Only(less, <<>>)
          [] m.state = "armed" -> IF ds = Directions THEN ExitToOff(less)
                                                     ELSE Only(less, <<>>)
          [] OTHER -> IF m.state \in less.consent THEN Only(less, <<>>)
                                                  ELSE ExitToOff(less)

Refuse(m, why) ==
    Only(m, IF m.state \in Directions THEN <<Rejected("conflict"), Broadcast>>
                                      ELSE <<Rejected(why)>>)

(* The pointer of the Mac crossed the shared edge. *)
EnterMacToAndroid(m, caps) ==
    CASE m.state # "armed" -> Refuse(m, "notArmed")
      [] m.state = "armed" /\ "macToAndroid" \notin m.consent -> Refuse(m, "consent")
      [] m.state = "armed" /\ "macToAndroid" \in m.consent
           /\ ~({"macToAndroid", "cursorInjection"} \subseteq caps) ->
           Refuse(m, "capability")
      [] OTHER -> Only([m EXCEPT !.state = "macToAndroid"],
                       <<Start("suppression"), MoveCursor, Broadcast>>)

Supports(m, caps, source) ==
    CASE source = "toggle" -> TRUE
      [] source = "virtualCursor" -> {"virtualCursor", "observeAndPass"} \subseteq caps
      [] source = "motionObservation" -> "observeAndPass" \in caps /\ m.observing

EnterAndroidToMac(m, caps, source) ==
    CASE m.state # "armed" -> Refuse(m, "notArmed")
      [] m.state = "armed" /\ "androidToMac" \notin m.consent -> Refuse(m, "consent")
      [] m.state = "armed" /\ "androidToMac" \in m.consent
           /\ ~({"androidToMac", "mouseCapture"} \subseteq caps) ->
           Refuse(m, "capability")
      [] m.state = "armed" /\ "androidToMac" \in m.consent
           /\ {"androidToMac", "mouseCapture"} \subseteq caps
           /\ ~Supports(m, caps, source) -> Refuse(m, "source")
      [] OTHER -> Only([m EXCEPT !.state = "androidToMac"],
                       <<Start("keyFilter"), Start("mouseCapture"), Broadcast>>)
=============================================================================
