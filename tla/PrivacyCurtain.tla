--------------------------- MODULE PrivacyCurtain ---------------------------
(* The black windows over the host's screens while a viewer watches. The     *)
(* windows a capture leaves out of the stream are those that exist when it   *)
(* starts, so a curtain drawn later is itself streamed, until the session's  *)
(* capture is made again. refresh_curtain runs from every start, stop,       *)
(* settings change and status poll.                                          *)
EXTENDS Naturals, FiniteSets

CONSTANTS Starts,        \* startStream calls, each for a session of its own
          MaxToggles, MaxCurtainFaults

NoCapture == 0
VARIABLES
  enabled,   \* settings.privacy_curtain
  drawn,     \* which drawing of the windows is on the screens, 0: none
  drawings,  \* drawings so far
  last,      \* curtain_state: what was applied last
  start,     \* the starts: idle, prepared, capturing, live, tombstone, ended
  excludes,  \* the drawing a session's capture leaves out
  remaking,  \* reconfiguring: none, begun, or the capture made again
  restarts,  \* sessions restart_sessions_for_curtain has still to restart
  awaited,   \* the session whose restart it awaits
  unmade,    \* sessions whose restart was refused, or failed while the old capture ran
  toggles, failures,
  crossed    \* starts during whose first frame another caller redrew or removed the curtain

vars == <<enabled, drawn, drawings, last, start, excludes, remaking, restarts, awaited, unmade,
          toggles, failures, crossed>>
remakes == <<excludes, remaking, awaited, unmade>>

\* the map of the sessions has tombstones too
Streaming == {s \in Starts : start[s] = "live"}
Live == {s \in Starts : start[s] \in {"live", "tombstone"}}

Init ==
  /\ enabled \in BOOLEAN
  /\ drawn = 0 /\ drawings = 0 /\ last = FALSE
  /\ start = [s \in Starts |-> "idle"]
  /\ excludes = [s \in Starts |-> NoCapture]
  /\ remaking = [s \in Starts |-> "none"]
  /\ restarts = {} /\ awaited = {} /\ unmade = {}
  /\ toggles = 0 /\ failures = 0 /\ crossed = {}

\* refresh_curtain_windows: closes the windows, or makes those that are missing
Applied(show) ==
  /\ drawings' = IF show /\ drawn = 0 THEN drawings + 1 ELSE drawings
  /\ drawn' = IF ~show THEN 0 ELSE IF drawn = 0 THEN drawings + 1 ELSE drawn

\* refresh_curtain_with: only changes are applied, only what was applied is remembered
\* a slip: the state is remembered before the windows were made
RemembersEarly(desired) == desired
Remembers(desired) == last
RefreshFor(pending, setting, sessions) ==
  LET desired == setting /\ (pending \/ sessions # {}) IN
  \/ desired = last /\ UNCHANGED <<drawn, drawings, last, failures>>
  \/ desired # last /\ Applied(desired) /\ last' = desired /\ UNCHANGED failures
  \/ /\ desired # last /\ failures < MaxCurtainFaults
     /\ failures' = failures + 1
     /\ last' = Remembers(desired)
     /\ UNCHANGED <<drawn, drawings>>

\* starts that have prepared and not registered, whose curtain this step moves
Crossed(except) ==
  crossed' = IF drawn' = drawn THEN crossed
             ELSE crossed \cup {s \in Starts \ except : start[s] \in {"prepared", "capturing"}}

Pending == TRUE
PrepareStart(s) ==
  /\ start[s] = "idle"
  /\ start' = [start EXCEPT ![s] = "prepared"]
  /\ RefreshFor(Pending, enabled, Live)
  /\ Crossed({s})
  /\ UNCHANGED <<enabled, remakes, restarts, toggles>>

\* backend.start builds the filter, at each of the viewer's addresses anew
BackendStart(s) ==
  /\ start[s] \in {"prepared", "capturing"}
  /\ start' = [start EXCEPT ![s] = "capturing"]
  /\ excludes' = [excludes EXCEPT ![s] = drawn]
  /\ UNCHANGED <<enabled, drawn, drawings, last, remaking, restarts, awaited, unmade, toggles,
                 failures, crossed>>

RegisterStart(s) ==
  /\ start[s] = "capturing"
  /\ start' = [start EXCEPT ![s] = "live"]
  /\ RefreshFor(FALSE, enabled, Live \cup {s})
  /\ Crossed({s})
  /\ UNCHANGED <<enabled, remakes, restarts, toggles>>

\* a start that fails, a stream that stops or a tombstone that is swept takes the curtain along
EndStart(s) ==
  /\ start[s] \in {"prepared", "capturing", "live", "tombstone"}
  /\ start' = [start EXCEPT ![s] = "ended"]
  /\ RefreshFor(FALSE, enabled, Live \ {s})
  /\ Crossed({s})
  /\ UNCHANGED <<enabled, remakes, restarts, toggles>>

\* stopStream whose capture could not be stopped returns before the refresh; so does a start
\* that was superseded, and one that takes its viewer's session out
EndUnrefreshed(s) ==
  /\ \/ start[s] = "live" /\ failures < MaxCurtainFaults /\ failures' = failures + 1
     \/ start[s] = "prepared" /\ UNCHANGED failures
     \/ s \in Live /\ (\E t \in Starts : start[t] = "prepared") /\ UNCHANGED failures
  /\ start' = [start EXCEPT ![s] = "ended"]
  /\ UNCHANGED <<enabled, drawn, drawings, last, remakes, restarts, toggles, crossed>>

\* force_stop_session leaves a tombstone
ForceStop(s) ==
  /\ s \in Streaming
  /\ start' = [start EXCEPT ![s] = "tombstone"]
  /\ UNCHANGED <<enabled, drawn, drawings, last, remakes, restarts, toggles, failures, crossed>>

\* the 500 ms maintenance tick and every status request
Poll ==
  /\ RefreshFor(FALSE, enabled, Live)
  /\ Crossed({})
  /\ UNCHANGED <<enabled, start, remakes, restarts, toggles>>

\* set_privacy_curtain; turned on again only when an earlier call has restarted its sessions
Toggle ==
  /\ toggles < MaxToggles /\ (enabled \/ restarts \cup awaited = {})
  /\ toggles' = toggles + 1
  /\ enabled' = ~enabled
  /\ RefreshFor(FALSE, ~enabled, Live)
  /\ restarts' = IF ~enabled THEN Streaming ELSE restarts
  /\ crossed' = crossed \cup {s \in Starts : start[s] \in {"prepared", "capturing"}}
  /\ UNCHANGED <<start, remakes>>

\* restart_sessions_for_curtain, one session after the other: a capture that cannot leave windows
\* out is stopped, the others are reconfigured unless they are already, and nobody hears of an error
RestartSession(s) ==
  /\ s \in restarts /\ awaited = {}
  /\ restarts' = restarts \ {s}
  /\ \/ /\ s \in Streaming
        /\ start' = [start EXCEPT ![s] = "tombstone"]
        /\ UNCHANGED <<remaking, awaited, unmade>>
     \/ /\ s \in Streaming /\ remaking[s] = "none"
        /\ remaking' = [remaking EXCEPT ![s] = "begun"]
        /\ awaited' = {s}
        /\ UNCHANGED <<start, unmade>>
     \/ /\ s \in Streaming /\ remaking[s] # "none"
        /\ unmade' = unmade \cup {s}
        /\ UNCHANGED <<start, remaking, awaited>>
     \/ s \notin Streaming /\ UNCHANGED <<start, remaking, awaited, unmade>>
  /\ UNCHANGED <<enabled, drawn, drawings, last, excludes, toggles, failures, crossed>>

\* reconfigure_stream, of a viewer
Reconfigure(s) ==
  /\ s \in Streaming /\ remaking[s] = "none"
  /\ remaking' = [remaking EXCEPT ![s] = "begun"]
  /\ UNCHANGED <<enabled, drawn, drawings, last, start, excludes, restarts, awaited, unmade, toggles,
                 failures, crossed>>

\* a slip: sessions keep the filter they started with
KeepsFilter(s) == excludes[s]
NewFilter(s) == drawn
\* backend.start of the replacement, and of the previous stream when that fails
Remake(s) ==
  /\ s \in Streaming /\ remaking[s] # "none"
  /\ remaking' = [remaking EXCEPT ![s] = "made"]
  /\ excludes' = [excludes EXCEPT ![s] = NewFilter(s)]
  /\ unmade' = unmade \ {s}
  /\ UNCHANGED <<enabled, drawn, drawings, last, start, restarts, awaited, toggles, failures, crossed>>

\* it is over: the capture was made again, there was an error before, or nothing could be restored
RemakeEnds(s) ==
  /\ remaking[s] # "none"
  /\ remaking' = [remaking EXCEPT ![s] = "none"]
  /\ awaited' = awaited \ {s}
  /\ \/ /\ unmade' = IF s \in awaited /\ remaking[s] = "begun" THEN unmade \cup {s} ELSE unmade
        /\ UNCHANGED start
     \/ /\ s \in Streaming
        /\ start' = [start EXCEPT ![s] = "tombstone"]
        /\ UNCHANGED unmade
  /\ UNCHANGED <<enabled, drawn, drawings, last, excludes, restarts, toggles, failures, crossed>>

CurtainNext ==
  \/ \E s \in Starts : \/ PrepareStart(s) \/ BackendStart(s) \/ RegisterStart(s) \/ EndStart(s)
                       \/ EndUnrefreshed(s) \/ ForceStop(s) \/ RestartSession(s)
                       \/ Reconfigure(s) \/ Remake(s) \/ RemakeEnds(s)
  \/ Poll \/ Toggle

Spec == Init /\ [][CurtainNext]_vars /\ WF_vars(Poll)

\* State types of the module.
CurtainTypeOK ==
  /\ {enabled, last} \subseteq BOOLEAN
  /\ start \in [Starts -> {"idle", "prepared", "capturing", "live", "tombstone", "ended"}]
  /\ remaking \in [Starts -> {"none", "begun", "made"}]
  /\ {drawn, drawings} \subseteq Nat /\ drawn <= drawings
  /\ \A s \in Starts : excludes[s] <= drawings
  /\ UNION {restarts, awaited, unmade, crossed} \subseteq Starts

\* No stream shows the curtain: the drawing on the screens is one its capture leaves out
\* (control.rs:3273, 709). Left out are starts during whose first frame another caller moved the
\* curtain, sessions still to be restarted, those whose restart ended without a new capture
\* (control.rs:751), and windows that could not be made.
Exempt == restarts \cup awaited \cup unmade \cup crossed
CurtainIsNotStreamedApart ==
  \A s \in Streaming \ Exempt : drawn # 0 /\ failures = 0 => excludes[s] = drawn

\* The curtain is not drawn exactly while somebody watches, although no start is under way
\* that drew it early.
Unsettled ==
  /\ ~(drawn # 0 <=> (enabled /\ Live # {}))
  /\ ~\E s \in Starts : start[s] \in {"prepared", "capturing"}
\* Whatever failed before, that does not last (control.rs:700).
CurtainSettles == Unsettled ~> ~Unsettled
=============================================================================
