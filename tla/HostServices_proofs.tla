------------------------ MODULE HostServices_proofs -------------------------
(*****************************************************************************)
(* Theorems about the services of the host that run side by side in          *)
(* MCHostServices.  A behaviour of the host, seen through the variables of   *)
(* one service, is a behaviour of that service.                              *)
(*                                                                           *)
(* The machine of the sharing: the lemmas say what a sequence of effects     *)
(* leaves running; each way the machine has of leaving a state is sound by   *)
(* itself.  The manager of its sessions: a session is known by its number,   *)
(* which is given out once, so whoever holds a number (a start, a task, a    *)
(* stop) means the same session, and a stop that is under way for the        *)
(* session of the slot reaches it.  The file transfers: FilesInv says that   *)
(* the table, the staging files and the viewers agree.  The pairing server:  *)
(* ServerInv says that the memory, the key store and the device file agree   *)
(* at every point of a job that may fail or be cut off by the end of the     *)
(* process.                                                                  *)
(*****************************************************************************)
EXTENDS MCHostServices, SequenceTheorems, TLAPS

(* What a sequence of effects carries is what its parts carry. *)
LEMMA CarriedConcat ==
    ASSUME NEW on, NEW es \in Seq(M!Effects), NEW fs \in Seq(M!Effects)
    PROVE  M!Carried(on, es \o fs) = M!Carried(M!Carried(on, es), fs)
<1> DEFINE gs == es \o fs
           m == Len(es)
           n == Len(fs)
<1>1. m \in Nat /\ n \in Nat /\ Len(gs) = m + n
      BY ConcatProperties, LenProperties
<1>2. \A i \in 1..m : i \in 1..m + n /\ gs[i] = es[i]
      BY <1>1, ConcatProperties
<1>3. \A i \in 1..n : m + i \in 1..m + n /\ gs[m + i] = fs[i]
  <2> TAKE i \in 1..n
  <2>1. m + i \in 1..m + n /\ m + i > m /\ (m + i) - m = i
        BY <1>1
  <2> QED BY <1>1, <2>1, ConcatProperties
<1>4. \A i \in 1..m + n : i \in 1..m \/ \E k \in 1..n : i = m + k
  <2> TAKE i \in 1..m + n
  <2> SUFFICES ASSUME i \notin 1..m PROVE \E k \in 1..n : i = m + k
      OBVIOUS
  <2>1. i - m \in 1..n /\ i = m + (i - m)
        BY <1>1
  <2> QED BY <2>1
<1> SUFFICES ASSUME NEW s \in M!Subsystems
             PROVE  s \in M!Carried(on, gs) <=> s \in M!Carried(M!Carried(on, es), fs)
    BY DEF M!Carried
<1> HIDE DEF gs, m, n
<1>5. (\A i \in 1..m + n : gs[i] # M!Stop(s))
        <=> /\ \A i \in 1..m : es[i] # M!Stop(s)
            /\ \A i \in 1..n : fs[i] # M!Stop(s)
      BY <1>2, <1>3, <1>4
<1>6. ASSUME NEW i \in 1..m
      PROVE  M!Lasts(gs, s, i) <=> M!Lasts(es, s, i) /\ \A j \in 1..n : fs[j] # M!Stop(s)
  <2>1. ASSUME M!Lasts(gs, s, i), NEW j \in 1..n PROVE fs[j] # M!Stop(s)
    <3>1. m + j > i
          BY <1>1
    <3> QED BY <2>1, <3>1, <1>1, <1>3 DEF M!Lasts
  <2>2. ASSUME M!Lasts(gs, s, i) PROVE M!Lasts(es, s, i)
    <3>1. \A j \in 1..m : j > i => es[j] # M!Stop(s)
          BY <2>2, <1>1, <1>2 DEF M!Lasts
    <3> QED BY <2>2, <3>1, <1>1, <1>2 DEF M!Lasts, m
  <2>3. ASSUME M!Lasts(es, s, i), \A j \in 1..n : fs[j] # M!Stop(s), NEW j \in 1..m + n, j > i
        PROVE  gs[j] # M!Stop(s)
    <3>1. CASE j \in 1..m
          BY <2>3, <3>1, <1>2 DEF M!Lasts, m
    <3>2. CASE \E k \in 1..n : j = m + k
          BY <2>3, <3>2, <1>3
    <3> QED BY <3>1, <3>2, <1>4
  <2>4. gs[i] = es[i]
        BY <1>2
  <2> QED BY <2>1, <2>2, <2>3, <2>4, <1>1 DEF M!Lasts
<1>7. ASSUME NEW i \in 1..n
      PROVE  M!Lasts(gs, s, m + i) <=> M!Lasts(fs, s, i)
  <2>1. ASSUME M!Lasts(gs, s, m + i), NEW j \in 1..n, j > i PROVE fs[j] # M!Stop(s)
    <3>1. m + j > m + i /\ m + j \in 1..m + n /\ gs[m + j] = fs[j]
          BY <1>1, <1>3, <2>1
    <3> QED BY <2>1, <3>1, <1>1 DEF M!Lasts
  <2>2. ASSUME M!Lasts(fs, s, i), NEW j \in 1..m + n, j > m + i PROVE gs[j] # M!Stop(s)
    <3>1. j \notin 1..m
          BY <1>1, <2>2
    <3>2. PICK k \in 1..n : j = m + k
          BY <1>4, <3>1
    <3>3. k > i
          BY <1>1, <2>2, <3>2
    <3> QED BY <2>2, <3>2, <3>3, <1>3 DEF M!Lasts, n
  <2>3. gs[m + i] = fs[i]
        BY <1>3
  <2> QED BY <2>1, <2>2, <2>3, <1>1 DEF M!Lasts, n
<1>8. (\E i \in 1..m + n : M!Lasts(gs, s, i))
        <=> \/ \E i \in 1..m : M!Lasts(gs, s, i)
            \/ \E i \in 1..n : M!Lasts(gs, s, m + i)
      BY <1>2, <1>3, <1>4
<1>9. s \in M!Carried(on, gs) <=> \/ \E i \in 1..m + n : M!Lasts(gs, s, i)
                                  \/ s \in on /\ \A i \in 1..m + n : gs[i] # M!Stop(s)
      BY <1>1 DEF M!Carried
<1>10. s \in M!Carried(on, es) <=> \/ \E i \in 1..m : M!Lasts(es, s, i)
                                   \/ s \in on /\ \A i \in 1..m : es[i] # M!Stop(s)
      BY DEF M!Carried, m
<1>11. s \in M!Carried(M!Carried(on, es), fs)
         <=> \/ \E i \in 1..n : M!Lasts(fs, s, i)
             \/ s \in M!Carried(on, es) /\ \A i \in 1..n : fs[i] # M!Stop(s)
      BY DEF M!Carried, n
<1> QED BY <1>5, <1>6, <1>7, <1>8, <1>9, <1>10, <1>11

-----------------------------------------------------------------------------
(* Without effects, what runs stays. *)
LEMMA NoEffects ==
    ASSUME NEW on
    PROVE  <<>> \in Seq(M!Effects) /\ M!Carried(on, <<>>) = on \cap M!Subsystems
  BY DEF M!Carried, M!Lasts

(* A single effect. *)
LEMMA StopAlone ==
    ASSUME NEW on, NEW s \in M!Subsystems
    PROVE  /\ <<M!Stop(s)>> \in Seq(M!Effects)
           /\ M!Carried(on, <<M!Stop(s)>>) = (on \cap M!Subsystems) \ {s}
<1>1. <<M!Stop(s)>> \in Seq(M!Effects)
      BY DEF M!Effects, M!Stop
<1>2. 1..Len(<<M!Stop(s)>>) = {1} /\ <<M!Stop(s)>>[1] = M!Stop(s)
      OBVIOUS
<1>3. ASSUME NEW t \in M!Subsystems
      PROVE  M!Stop(s) # M!Start(t) /\ (M!Stop(s) = M!Stop(t) <=> s = t)
      BY DEF M!Stop, M!Start
<1> QED BY <1>1, <1>2, <1>3 DEF M!Carried, M!Lasts

(* A single start. *)
LEMMA StartAlone ==
    ASSUME NEW on, NEW s \in M!Subsystems
    PROVE  /\ <<M!Start(s)>> \in Seq(M!Effects)
           /\ M!Carried(on, <<M!Start(s)>>) = (on \cap M!Subsystems) \cup {s}
<1>1. <<M!Start(s)>> \in Seq(M!Effects)
      BY DEF M!Effects, M!Start
<1>2. 1..Len(<<M!Start(s)>>) = {1} /\ <<M!Start(s)>>[1] = M!Start(s)
      OBVIOUS
<1>3. ASSUME NEW t \in M!Subsystems
      PROVE  M!Start(s) # M!Stop(t) /\ (M!Start(s) = M!Start(t) <=> s = t)
      BY DEF M!Stop, M!Start
<1> QED BY <1>1, <1>2, <1>3 DEF M!Carried, M!Lasts

(***************************************************************************)
(* What a sequence of effects may hold besides: nothing restores local     *)
(* input, or whatever restores it is followed by no stop.                  *)
(***************************************************************************)
Silent(es) == \A i \in 1..Len(es) : es[i] # M!RestoreLocal

Ordered(es) ==
    \A i \in 1..Len(es) :
        es[i] = M!RestoreLocal => \A j \in i..Len(es) : es[j][1] # "stop"

(* Effects that restore nothing may come before any others. *)
LEMMA OrderedConcat ==
    ASSUME NEW es \in Seq(M!Effects), NEW fs \in Seq(M!Effects), Silent(es)
    PROVE  /\ es \o fs \in Seq(M!Effects)
           /\ Silent(fs) => Silent(es \o fs)
           /\ Ordered(fs) => Ordered(es \o fs)
           /\ Len(es) > 0 => Len(es \o fs) > 0 /\ (es \o fs)[1] = es[1]
<1> DEFINE gs == es \o fs
           m == Len(es)
           n == Len(fs)
<1>1. m \in Nat /\ n \in Nat /\ gs \in Seq(M!Effects) /\ Len(gs) = m + n
      BY ConcatProperties, LenProperties
<1>2. \A i \in 1..m : gs[i] = es[i]
      BY <1>1, ConcatProperties
<1>3. \A i \in 1..m + n : i \notin 1..m => i - m \in 1..n /\ gs[i] = fs[i - m]
      BY <1>1, ConcatProperties
<1> HIDE DEF gs
<1>4. ASSUME NEW i \in 1..m + n, gs[i] = M!RestoreLocal
      PROVE  i - m \in 1..n /\ gs[i] = fs[i - m]
      BY <1>1, <1>2, <1>3, <1>4 DEF Silent
<1>5. Silent(fs) => Silent(gs)
      BY <1>1, <1>4 DEF Silent
<1>6. ASSUME Ordered(fs), NEW i \in 1..m + n, gs[i] = M!RestoreLocal, NEW j \in i..m + n
      PROVE  gs[j][1] # "stop"
  <2>1. i - m \in 1..n /\ fs[i - m] = M!RestoreLocal
        BY <1>4, <1>6
  <2>2. j \in 1..m + n /\ j \notin 1..m /\ j - m \in (i - m)..n
        BY <1>1, <2>1
  <2>3. gs[j] = fs[j - m]
        BY <1>3, <2>2
  <2> QED BY <1>6, <2>1, <2>2, <2>3 DEF Ordered
<1>7. m > 0 => m + n > 0 /\ gs[1] = es[1]
      BY <1>1, <1>2
<1> QED BY <1>1, <1>5, <1>6, <1>7 DEF Ordered, gs

(* Leaving a state stops what it intercepts. *)
LEMMA StopsOfEffects ==
    ASSUME NEW on, NEW d \in M!States
    PROVE  /\ M!StopsOf(d) \in Seq(M!Effects) /\ Silent(M!StopsOf(d))
           /\ M!Carried(on, M!StopsOf(d)) = (on \cap M!Subsystems) \ M!Intercepts(d)
<1> DEFINE two == <<M!Stop("keyFilter"), M!Stop("mouseCapture")>>
<1>1. /\ two \in Seq(M!Effects) /\ Silent(two)
      /\ M!Carried(on, two) = (on \cap M!Subsystems) \ {"keyFilter", "mouseCapture"}
  <2>1. two \in Seq(M!Effects)
        BY DEF M!Effects, M!Subsystems, M!Stop
  <2>2. 1..Len(two) = {1, 2} /\ two[1] = M!Stop("keyFilter") /\ two[2] = M!Stop("mouseCapture")
        OBVIOUS
  <2>3. ASSUME NEW t
        PROVE  /\ M!Stop("keyFilter") # M!Start(t) /\ (M!Stop("keyFilter") = M!Stop(t) <=> t = "keyFilter")
               /\ M!Stop("mouseCapture") # M!Start(t)
               /\ (M!Stop("mouseCapture") = M!Stop(t) <=> t = "mouseCapture")
        BY DEF M!Stop, M!Start
  <2>4. M!Stop("keyFilter") # M!RestoreLocal /\ M!Stop("mouseCapture") # M!RestoreLocal
        BY DEF M!Stop, M!RestoreLocal
  <2> QED BY <2>1, <2>2, <2>3, <2>4 DEF M!Carried, M!Lasts, Silent
<1>2. Silent(<<M!Stop("suppression")>>)
      BY DEF Silent, M!Stop, M!RestoreLocal
<1>3. Silent(<<>>)
      BY DEF Silent
<1>4. CASE d = "macToAndroid"
      BY <1>2, <1>4, StopAlone DEF M!StopsOf, M!Intercepts, M!Subsystems
<1>5. CASE d = "androidToMac"
      BY <1>1, <1>5 DEF M!StopsOf, M!Intercepts
<1>6. CASE d \notin M!Directions
      BY <1>3, <1>6, NoEffects DEF M!StopsOf, M!Intercepts, M!States, M!Directions
<1> QED BY <1>4, <1>5, <1>6 DEF M!States, M!Directions

(* The effects that every exit to off ends with. *)
LEMMA OffEffects ==
    ASSUME NEW on
    PROVE  LET es == <<M!Stop("edgeWatch"), M!Stop("watchdog"), M!RestoreLocal, M!Broadcast>>
           IN  /\ es \in Seq(M!Effects) /\ Ordered(es)
               /\ M!Carried(on, es) = (on \cap M!Subsystems) \ {"edgeWatch", "watchdog"}
<1> DEFINE es == <<M!Stop("edgeWatch"), M!Stop("watchdog"), M!RestoreLocal, M!Broadcast>>
<1>1. es \in Seq(M!Effects)
      BY DEF M!Effects, M!Subsystems, M!Stop
<1>2. /\ Len(es) = 4 /\ 1..Len(es) = {1, 2, 3, 4}
      /\ es[1] = M!Stop("edgeWatch") /\ es[2] = M!Stop("watchdog")
      /\ es[3] = M!RestoreLocal /\ es[4] = M!Broadcast
      OBVIOUS
<1>3. ASSUME NEW t
      PROVE  /\ M!Stop("edgeWatch") # M!Start(t) /\ (M!Stop("edgeWatch") = M!Stop(t) <=> t = "edgeWatch")
             /\ M!Stop("watchdog") # M!Start(t) /\ (M!Stop("watchdog") = M!Stop(t) <=> t = "watchdog")
             /\ M!RestoreLocal # M!Start(t) /\ M!RestoreLocal # M!Stop(t)
             /\ M!Broadcast # M!Start(t) /\ M!Broadcast # M!Stop(t)
      BY DEF M!Stop, M!Start, M!RestoreLocal, M!Broadcast
<1>4. /\ M!RestoreLocal[1] # "stop" /\ M!Broadcast[1] # "stop" /\ M!Broadcast # M!RestoreLocal
      BY DEF M!RestoreLocal, M!Broadcast
<1> HIDE DEF es
<1>5. Ordered(es)
  <2> SUFFICES ASSUME NEW i \in 1..4, es[i] = M!RestoreLocal, NEW j \in i..4
               PROVE  es[j][1] # "stop"
      BY <1>2 DEF Ordered
  <2>1. i \in {3, 4}
        BY <1>2, <1>3
  <2>2. j \in {3, 4}
        BY <2>1
  <2> QED BY <2>2, <1>2, <1>4
<1>6. M!Carried(on, es) = (on \cap M!Subsystems) \ {"edgeWatch", "watchdog"}
      BY <1>2, <1>3 DEF M!Carried, M!Lasts
<1> QED BY <1>1, <1>5, <1>6 DEF es

(* The effects a return to the local screen ends with. *)
LEMMA LocalEffects ==
    ASSUME NEW on
    PROVE  LET es == <<M!RestoreLocal, M!Broadcast>>
           IN  /\ es \in Seq(M!Effects) /\ Ordered(es)
               /\ M!Carried(on, es) = on \cap M!Subsystems
<1> DEFINE es == <<M!RestoreLocal, M!Broadcast>>
<1>1. es \in Seq(M!Effects)
      BY DEF M!Effects
<1>2. 1..Len(es) = {1, 2} /\ es[1] = M!RestoreLocal /\ es[2] = M!Broadcast
      OBVIOUS
<1>3. ASSUME NEW t
      PROVE  /\ M!RestoreLocal # M!Start(t) /\ M!RestoreLocal # M!Stop(t)
             /\ M!Broadcast # M!Start(t) /\ M!Broadcast # M!Stop(t)
      BY DEF M!Stop, M!Start, M!RestoreLocal, M!Broadcast
<1>4. /\ M!RestoreLocal[1] # "stop" /\ M!Broadcast[1] # "stop"
      BY DEF M!RestoreLocal, M!Broadcast
<1>5. Ordered(es)
      BY <1>2, <1>4 DEF Ordered
<1>6. M!Carried(on, es) = on \cap M!Subsystems
      BY <1>2, <1>3 DEF M!Carried, M!Lasts
<1> QED BY <1>1, <1>5, <1>6

-----------------------------------------------------------------------------
(***************************************************************************)
(* What an event makes of a machine whose subsystems are the ones its      *)
(* state warrants.                                                         *)
(***************************************************************************)
Authorised(m, cs) ==
    m.state \in M!Directions => m.state \in m.consent /\ m.state \in cs

Sound(m, cs, r) ==
    /\ r.to \in M!Machine
    /\ Authorised(m, cs) => Authorised(r.to, cs)
    /\ r.to.state # m.state => m.state \notin M!Directions \/ r.to.state \notin M!Directions
    /\ r.effects \in Seq(M!Effects)
    /\ M!Carried(M!Warranted(m), r.effects) = M!Warranted(r.to)
    /\ \/ Silent(r.effects)
       \/ /\ Ordered(r.effects)
          /\ Len(r.effects) > 0 /\ r.effects[1] = M!ReleaseAll
          /\ r.to.state \notin M!Directions

(* What a state intercepts, and what is warranted in it. *)
LEMMA WarrantedIsOn ==
    ASSUME NEW m \in M!Machine
    PROVE  /\ M!Warranted(m) \subseteq M!Subsystems
           /\ M!Intercepts(m.state) \subseteq {"suppression", "keyFilter", "mouseCapture"}
           /\ m.state \notin M!Directions => M!Intercepts(m.state) = {}
           /\ m.state = "macToAndroid" => M!Intercepts(m.state) = {"suppression"}
           /\ m.state = "androidToMac" =>
                 M!Intercepts(m.state) = {"keyFilter", "mouseCapture"}
<1>1. CASE m.state = "macToAndroid"
  <2>1. M!Intercepts(m.state) = {"suppression"}
        BY <1>1 DEF M!Intercepts
  <2> QED BY <1>1, <2>1 DEF M!Warranted, M!Subsystems, M!Directions
<1>2. CASE m.state = "androidToMac"
  <2>1. M!Intercepts(m.state) = {"keyFilter", "mouseCapture"}
        BY <1>2 DEF M!Intercepts
  <2> QED BY <1>2, <2>1 DEF M!Warranted, M!Subsystems, M!Directions
<1>3. CASE m.state \notin M!Directions
  <2>1. M!Intercepts(m.state) = {}
        BY <1>3 DEF M!Intercepts, M!Directions
  <2> QED BY <1>3, <2>1 DEF M!Warranted, M!Subsystems, M!Directions
<1> QED BY <1>1, <1>2, <1>3 DEF M!Directions

(* An effect that neither starts nor stops nor restores anything. *)
LEMMA OtherAlone ==
    ASSUME NEW on, NEW e \in M!Effects, e[1] \notin {"start", "stop", "restore"}
    PROVE  /\ <<e>> \in Seq(M!Effects) /\ Silent(<<e>>)
           /\ Len(<<e>>) > 0 /\ <<e>>[1] = e
           /\ M!Carried(on, <<e>>) = on \cap M!Subsystems
<1>1. /\ <<e>> \in Seq(M!Effects) /\ 1..Len(<<e>>) = {1} /\ <<e>>[1] = e
      OBVIOUS
<1>2. \A t : e # M!Start(t) /\ e # M!Stop(t) /\ e # M!RestoreLocal
      BY DEF M!Start, M!Stop, M!RestoreLocal
<1> QED BY <1>1, <1>2 DEF M!Carried, M!Lasts, Silent

(* The effects the machine emits, and which of them stop or restore. *)
LEMMA EffectKinds ==
    /\ {M!ReleaseAll, M!Broadcast, M!RestoreLocal, M!MoveCursor} \subseteq M!Effects
    /\ \A s \in M!Subsystems : M!Start(s) \in M!Effects /\ M!Stop(s) \in M!Effects
    /\ M!ReleaseAll[1] \notin {"start", "stop", "restore"}
    /\ M!Broadcast[1] \notin {"start", "stop", "restore"}
    /\ M!MoveCursor[1] \notin {"start", "stop", "restore"}
    /\ \A s : M!Start(s)[1] \notin {"stop", "restore"} /\ M!Stop(s) # M!RestoreLocal
    /\ \A s : M!Start(s) # M!RestoreLocal
  BY DEF M!Effects, M!ReleaseAll, M!Broadcast, M!RestoreLocal, M!MoveCursor, M!Start, M!Stop

(* An event that changes nothing but the consents. *)
LEMMA QuietSound ==
    ASSUME NEW m \in M!Machine, NEW cs \in SUBSET M!Capabilities,
           NEW n \in M!Machine, n.state = m.state, n.observing = m.observing,
           Authorised(m, cs) => Authorised(n, cs)
    PROVE  Sound(m, cs, M!Only(n, <<>>))
<1>1. /\ <<>> \in Seq(M!Effects) /\ M!Carried(M!Warranted(m), <<>>) = M!Warranted(m)
      BY NoEffects, WarrantedIsOn
<1>2. M!Warranted(m) = M!Warranted(n)
      BY DEF M!Warranted
<1>3. Silent(<<>>)
      BY DEF Silent
<1> QED BY <1>1, <1>2, <1>3 DEF Sound, M!Only

(* The direction of a machine stops before anything else does. *)
LEMMA ReleaseThenStops ==
    ASSUME NEW on, NEW d \in M!States
    PROVE  /\ <<M!ReleaseAll>> \o M!StopsOf(d) \in Seq(M!Effects)
           /\ Silent(<<M!ReleaseAll>> \o M!StopsOf(d))
           /\ Len(<<M!ReleaseAll>> \o M!StopsOf(d)) > 0
           /\ (<<M!ReleaseAll>> \o M!StopsOf(d))[1] = M!ReleaseAll
           /\ M!Carried(on, <<M!ReleaseAll>> \o M!StopsOf(d)) =
                   (on \cap M!Subsystems) \ M!Intercepts(d)
<1>1. /\ <<M!ReleaseAll>> \in Seq(M!Effects) /\ Silent(<<M!ReleaseAll>>)
      /\ Len(<<M!ReleaseAll>>) > 0 /\ <<M!ReleaseAll>>[1] = M!ReleaseAll
      /\ M!Carried(on, <<M!ReleaseAll>>) = on \cap M!Subsystems
      BY EffectKinds, OtherAlone
<1>2. /\ M!StopsOf(d) \in Seq(M!Effects) /\ Silent(M!StopsOf(d))
      /\ M!Carried(on \cap M!Subsystems, M!StopsOf(d)) = (on \cap M!Subsystems) \ M!Intercepts(d)
  <2>1. (on \cap M!Subsystems) \cap M!Subsystems = on \cap M!Subsystems
        OBVIOUS
  <2> QED BY <2>1, StopsOfEffects
<1>3. M!Carried(on, <<M!ReleaseAll>> \o M!StopsOf(d))
          = M!Carried(M!Carried(on, <<M!ReleaseAll>>), M!StopsOf(d))
  <2>1. <<M!ReleaseAll>> \in Seq(M!Effects) /\ M!StopsOf(d) \in Seq(M!Effects)
        BY <1>1, <1>2
  <2> QED BY <2>1, CarriedConcat
<1> HIDE DEF M!StopsOf
<1> QED BY <1>1, <1>2, <1>3, OrderedConcat

(* Every exit to off: whatever the state was, nothing is left on. *)
LEMMA ExitSound ==
    ASSUME NEW m \in M!Machine, NEW cs \in SUBSET M!Capabilities
    PROVE  Sound(m, cs, M!ExitToOff(m))
<1>1. CASE m.state = "off"
      BY <1>1, QuietSound DEF M!ExitToOff
<1>2. CASE m.state # "off"
  <2> DEFINE watched == M!When(m.observing, <<M!Stop("mouseObservation")>>)
             first == <<M!ReleaseAll>> \o M!StopsOf(m.state)
             ending == <<M!Stop("edgeWatch"), M!Stop("watchdog"), M!RestoreLocal, M!Broadcast>>
             on == M!Warranted(m)
             to == [m EXCEPT !.state = "off", !.observing = FALSE]
  <2>0. m.state \in M!States /\ m.observing \in BOOLEAN
        BY DEF M!Machine
  <2>1. /\ first \in Seq(M!Effects) /\ Silent(first)
        /\ Len(first) > 0 /\ first[1] = M!ReleaseAll
        /\ M!Carried(on, first) = on \ M!Intercepts(m.state)
        BY <2>0, ReleaseThenStops, WarrantedIsOn
  <2>2. /\ watched \in Seq(M!Effects) /\ Silent(watched)
        /\ \A o : M!Carried(o, watched) =
               (o \cap M!Subsystems) \ (IF m.observing THEN {"mouseObservation"} ELSE {})
    <3>1. CASE m.observing
      <4>1. Silent(<<M!Stop("mouseObservation")>>)
            BY DEF Silent, M!Stop, M!RestoreLocal
      <4> QED BY <3>1, <4>1, StopAlone DEF M!When, M!Subsystems
    <3>2. CASE ~m.observing
      <4>1. Silent(<<>>)
            BY DEF Silent
      <4> QED BY <3>2, <4>1, NoEffects DEF M!When
    <3> QED BY <3>1, <3>2
  <2>3. /\ ending \in Seq(M!Effects) /\ Ordered(ending)
        /\ \A o : M!Carried(o, ending) = (o \cap M!Subsystems) \ {"edgeWatch", "watchdog"}
        BY OffEffects
  <2> HIDE DEF watched, first, ending
  <2>4. /\ first \o watched \in Seq(M!Effects) /\ Silent(first \o watched)
        /\ Len(first \o watched) > 0 /\ (first \o watched)[1] = M!ReleaseAll
        BY <2>1, <2>2, OrderedConcat
  <2>5. /\ (first \o watched) \o ending \in Seq(M!Effects)
        /\ Ordered((first \o watched) \o ending)
        /\ Len((first \o watched) \o ending) > 0
        /\ ((first \o watched) \o ending)[1] = M!ReleaseAll
        BY <2>3, <2>4, OrderedConcat
  <2>6. M!Carried(on, (first \o watched) \o ending) = {}
    <3>1. M!Carried(on, (first \o watched) \o ending)
              = M!Carried(M!Carried(M!Carried(on, first), watched), ending)
      <4>1. /\ first \in Seq(M!Effects) /\ watched \in Seq(M!Effects)
            /\ first \o watched \in Seq(M!Effects) /\ ending \in Seq(M!Effects)
            BY <2>1, <2>2, <2>3, <2>4
      <4>2. M!Carried(on, (first \o watched) \o ending)
                = M!Carried(M!Carried(on, first \o watched), ending)
            BY <4>1, CarriedConcat
      <4>3. M!Carried(on, first \o watched) = M!Carried(M!Carried(on, first), watched)
            BY <4>1, CarriedConcat
      <4> QED BY <4>2, <4>3
    <3> QED BY <1>2, <3>1, <2>1, <2>2, <2>3 DEF M!Warranted
  <2>7. to \in M!Machine /\ to.state = "off" /\ to.observing = FALSE
        BY DEF M!Machine, M!States
  <2>8. M!Warranted(to) = {}
        BY <2>7, WarrantedIsOn DEF M!Warranted, M!Directions
  <2>9. M!ExitToOff(m) = M!Only(to, (first \o watched) \o ending)
        BY <1>2 DEF M!ExitToOff, first, watched, ending
  <2> HIDE DEF to, on
  <2>10. Sound(m, cs, M!Only(to, (first \o watched) \o ending))
        BY <2>5, <2>6, <2>7, <2>8 DEF Sound, M!Only, Authorised, M!Directions, on
  <2> QED BY <2>9, <2>10
<1> QED BY <1>1, <1>2

(* The return to the local screen keeps the watches. *)
LEMMA ReturnSound ==
    ASSUME NEW m \in M!Machine, NEW cs \in SUBSET M!Capabilities
    PROVE  Sound(m, cs, M!ReturnToLocal(m))
<1>1. CASE m.state \notin M!Directions
      BY <1>1, QuietSound DEF M!ReturnToLocal
<1>2. CASE m.state \in M!Directions
  <2> DEFINE first == <<M!ReleaseAll>> \o M!StopsOf(m.state)
             ending == <<M!RestoreLocal, M!Broadcast>>
             on == M!Warranted(m)
             to == [m EXCEPT !.state = "armed"]
  <2>0. m.state \in M!States /\ m.state # "off"
        BY <1>2 DEF M!Machine, M!Directions
  <2>1. /\ first \in Seq(M!Effects) /\ Silent(first)
        /\ Len(first) > 0 /\ first[1] = M!ReleaseAll
        /\ M!Carried(on, first) = on \ M!Intercepts(m.state)
        BY <2>0, ReleaseThenStops, WarrantedIsOn
  <2>2. /\ ending \in Seq(M!Effects) /\ Ordered(ending)
        /\ \A o : M!Carried(o, ending) = o \cap M!Subsystems
        BY LocalEffects
  <2> HIDE DEF first, ending
  <2>3. /\ first \o ending \in Seq(M!Effects) /\ Ordered(first \o ending)
        /\ Len(first \o ending) > 0 /\ (first \o ending)[1] = M!ReleaseAll
        BY <2>1, <2>2, OrderedConcat
  <2>4. M!Carried(on, first \o ending) = on \ M!Intercepts(m.state)
        BY <2>1, <2>2, CarriedConcat, WarrantedIsOn
  <2>5. /\ to \in M!Machine /\ to.state = "armed" /\ to.observing = m.observing
        BY DEF M!Machine, M!States
  <2>6. M!Warranted(to) = on \ M!Intercepts(m.state)
    <3>1. M!Intercepts(to.state) = {}
          BY <2>5, WarrantedIsOn DEF M!Directions
    <3> QED BY <2>0, <2>5, <3>1, WarrantedIsOn DEF M!Warranted
  <2>7. M!ReturnToLocal(m) = M!Only(to, first \o ending)
        BY <1>2 DEF M!ReturnToLocal, first, ending
  <2> HIDE DEF to, on
  <2>8. Sound(m, cs, M!Only(to, first \o ending))
        BY <2>3, <2>4, <2>5, <2>6 DEF Sound, M!Only, Authorised, M!Directions, on
  <2> QED BY <2>7, <2>8
<1> QED BY <1>1, <1>2

(* A sequence that only starts subsystems and tells of it. *)
LEMMA ArmEffects ==
    ASSUME NEW on
    PROVE  LET es == <<M!Start("edgeWatch"), M!Start("watchdog")>>
           IN  /\ es \in Seq(M!Effects) /\ Silent(es)
               /\ M!Carried(on, es) = (on \cap M!Subsystems) \cup {"edgeWatch", "watchdog"}
<1> DEFINE es == <<M!Start("edgeWatch"), M!Start("watchdog")>>
<1>1. es \in Seq(M!Effects)
      BY EffectKinds DEF M!Subsystems
<1>2. 1..Len(es) = {1, 2} /\ es[1] = M!Start("edgeWatch") /\ es[2] = M!Start("watchdog")
      OBVIOUS
<1>3. ASSUME NEW t
      PROVE  /\ M!Start("edgeWatch") # M!Stop(t) /\ (M!Start("edgeWatch") = M!Start(t) <=> t = "edgeWatch")
             /\ M!Start("watchdog") # M!Stop(t) /\ (M!Start("watchdog") = M!Start(t) <=> t = "watchdog")
      BY DEF M!Stop, M!Start
<1> HIDE DEF es
<1>4. Silent(es)
      BY <1>2, EffectKinds DEF Silent
<1>5. M!Carried(on, es) = (on \cap M!Subsystems) \cup {"edgeWatch", "watchdog"}
      BY <1>2, <1>3 DEF M!Carried, M!Lasts, M!Subsystems
<1> QED BY <1>1, <1>4, <1>5 DEF es

(* What is emitted when the input takes a direction. *)
LEMMA CrossEffects ==
    ASSUME NEW on
    PROVE  LET es == <<M!Start("suppression"), M!MoveCursor, M!Broadcast>>
               fs == <<M!Start("keyFilter"), M!Start("mouseCapture"), M!Broadcast>>
           IN  /\ es \in Seq(M!Effects) /\ Silent(es)
               /\ M!Carried(on, es) = (on \cap M!Subsystems) \cup {"suppression"}
               /\ fs \in Seq(M!Effects) /\ Silent(fs)
               /\ M!Carried(on, fs) = (on \cap M!Subsystems) \cup {"keyFilter", "mouseCapture"}
<1> DEFINE es == <<M!Start("suppression"), M!MoveCursor, M!Broadcast>>
           fs == <<M!Start("keyFilter"), M!Start("mouseCapture"), M!Broadcast>>
<1>1. es \in Seq(M!Effects) /\ fs \in Seq(M!Effects)
      BY EffectKinds DEF M!Subsystems
<1>2. /\ 1..Len(es) = {1, 2, 3} /\ es[1] = M!Start("suppression")
      /\ es[2] = M!MoveCursor /\ es[3] = M!Broadcast
      /\ 1..Len(fs) = {1, 2, 3} /\ fs[1] = M!Start("keyFilter")
      /\ fs[2] = M!Start("mouseCapture") /\ fs[3] = M!Broadcast
      OBVIOUS
<1>3. ASSUME NEW t
      PROVE  /\ \A s \in {"suppression", "keyFilter", "mouseCapture"} :
                    M!Start(s) # M!Stop(t) /\ (M!Start(s) = M!Start(t) <=> t = s)
             /\ M!MoveCursor # M!Start(t) /\ M!MoveCursor # M!Stop(t)
             /\ M!Broadcast # M!Start(t) /\ M!Broadcast # M!Stop(t)
      BY DEF M!Stop, M!Start, M!MoveCursor, M!Broadcast
<1>4. M!Broadcast # M!RestoreLocal /\ M!MoveCursor # M!RestoreLocal
      BY DEF M!Broadcast, M!MoveCursor, M!RestoreLocal
<1> HIDE DEF es, fs
<1>5. Silent(es) /\ Silent(fs)
      BY <1>2, <1>4, EffectKinds DEF Silent
<1>6. M!Carried(on, es) = (on \cap M!Subsystems) \cup {"suppression"}
      BY <1>2, <1>3 DEF M!Carried, M!Lasts, M!Subsystems
<1>7. M!Carried(on, fs) = (on \cap M!Subsystems) \cup {"keyFilter", "mouseCapture"}
      BY <1>2, <1>3 DEF M!Carried, M!Lasts, M!Subsystems
<1> QED BY <1>1, <1>5, <1>6, <1>7 DEF es, fs

(* A refusal is answered, and the state broadcast if a direction is taken. *)
LEMMA RefuseSound ==
    ASSUME NEW m \in M!Machine, NEW cs \in SUBSET M!Capabilities,
           NEW why, M!Rejected(why) \in M!Effects
    PROVE  /\ Sound(m, cs, M!Refuse(m, why))
           /\ Sound(m, cs, M!Only(m, <<M!Rejected(why)>>))
<1> DEFINE one == <<M!Rejected(why)>>
           two == <<M!Rejected("conflict"), M!Broadcast>>
           on == M!Warranted(m)
<1>1. M!Rejected(why)[1] \notin {"start", "stop", "restore"}
      BY DEF M!Rejected
<1>2. one \in Seq(M!Effects) /\ Silent(one) /\ M!Carried(on, one) = on
      BY <1>1, OtherAlone, WarrantedIsOn
<1>3. two \in Seq(M!Effects) /\ Silent(two) /\ M!Carried(on, two) = on
  <2>1. two \in Seq(M!Effects)
        BY DEF M!Effects
  <2>2. 1..Len(two) = {1, 2} /\ two[1] = M!Rejected("conflict") /\ two[2] = M!Broadcast
        OBVIOUS
  <2>3. \A t : /\ M!Rejected("conflict") # M!Start(t) /\ M!Rejected("conflict") # M!Stop(t)
               /\ M!Broadcast # M!Start(t) /\ M!Broadcast # M!Stop(t)
        BY DEF M!Rejected, M!Broadcast, M!Start, M!Stop
  <2>4. M!Rejected("conflict") # M!RestoreLocal /\ M!Broadcast # M!RestoreLocal
        BY DEF M!Rejected, M!Broadcast, M!RestoreLocal
  <2> QED BY <2>1, <2>2, <2>3, <2>4, WarrantedIsOn DEF M!Carried, M!Lasts, Silent
<1> HIDE DEF one, two, on
<1>4. Sound(m, cs, M!Only(m, one)) /\ Sound(m, cs, M!Only(m, two))
      BY <1>2, <1>3 DEF Sound, M!Only, on
<1>5. M!Refuse(m, why) \in {M!Only(m, one), M!Only(m, two)}
      BY DEF M!Refuse, one, two
<1> QED BY <1>4, <1>5 DEF one

(* A rejection is an effect. *)
LEMMA RejectionsAreEffects ==
    /\ M!Rejected("bidirectionalConsent") \in M!Effects /\ M!Rejected("preflight") \in M!Effects
    /\ M!Rejected("consent") \in M!Effects /\ M!Rejected("capability") \in M!Effects
    /\ M!Rejected("source") \in M!Effects /\ M!Rejected("notArmed") \in M!Effects
  BY DEF M!Effects

(* Arming is sound. *)
LEMMA ArmSound ==
    ASSUME NEW m \in M!Machine, NEW cs \in SUBSET M!Capabilities,
           NEW c \in SUBSET M!Directions
    PROVE  Sound(m, cs, M!Arm(m, cs, c))
<1> DEFINE needs == {"macToAndroid", "androidToMac", "cursorInjection", "mouseCapture"}
<1>1. CASE m.state # "off"
      BY <1>1, QuietSound DEF M!Arm
<1>2. CASE m.state = "off" /\ ~(c = M!Directions /\ needs \subseteq cs)
      BY <1>2, RefuseSound, RejectionsAreEffects DEF M!Arm
<1>3. CASE m.state = "off" /\ c = M!Directions /\ needs \subseteq cs
  <2> DEFINE observes == "observeAndPass" \in cs
             first == <<M!Start("edgeWatch"), M!Start("watchdog")>>
             watched == M!When(observes, <<M!Start("mouseObservation")>>)
             ending == <<M!Broadcast>>
             on == M!Warranted(m)
             to == [state |-> "armed", consent |-> c, observing |-> m.observing \/ observes]
  <2>1. /\ first \in Seq(M!Effects) /\ Silent(first)
        /\ M!Carried(on, first) = on \cup {"edgeWatch", "watchdog"}
        BY ArmEffects, WarrantedIsOn
  <2>2. /\ watched \in Seq(M!Effects) /\ Silent(watched)
        /\ \A o : M!Carried(o, watched) =
               (o \cap M!Subsystems) \cup (IF observes THEN {"mouseObservation"} ELSE {})
    <3>1. CASE observes
      <4>1. Silent(<<M!Start("mouseObservation")>>)
            BY EffectKinds DEF Silent
      <4> QED BY <3>1, <4>1, StartAlone DEF M!When, M!Subsystems
    <3>2. CASE ~observes
      <4>1. Silent(<<>>)
            BY DEF Silent
      <4> QED BY <3>2, <4>1, NoEffects DEF M!When
    <3> QED BY <3>1, <3>2
  <2>3. /\ ending \in Seq(M!Effects) /\ Silent(ending)
        /\ \A o : M!Carried(o, ending) = o \cap M!Subsystems
        BY EffectKinds, OtherAlone
  <2> HIDE DEF watched, first, ending
  <2>4. first \o watched \in Seq(M!Effects) /\ Silent(first \o watched)
        BY <2>1, <2>2, OrderedConcat
  <2>5. (first \o watched) \o ending \in Seq(M!Effects) /\ Silent((first \o watched) \o ending)
        BY <2>3, <2>4, OrderedConcat
  <2>6. M!Carried(on, (first \o watched) \o ending)
            = on \cup {"edgeWatch", "watchdog"}
                \cup (IF observes THEN {"mouseObservation"} ELSE {})
    <3>1. /\ first \in Seq(M!Effects) /\ watched \in Seq(M!Effects)
          /\ first \o watched \in Seq(M!Effects) /\ ending \in Seq(M!Effects)
          BY <2>1, <2>2, <2>3, <2>4
    <3>2. M!Carried(on, (first \o watched) \o ending)
              = M!Carried(M!Carried(on, first \o watched), ending)
          BY <3>1, CarriedConcat
    <3>3. M!Carried(on, first \o watched) = M!Carried(M!Carried(on, first), watched)
          BY <3>1, CarriedConcat
    <3> QED BY <3>2, <3>3, <2>1, <2>2, <2>3, WarrantedIsOn DEF M!Subsystems
  <2>7. /\ to \in M!Machine /\ to.state = "armed"
        /\ to.observing <=> m.observing \/ observes
        BY DEF M!Machine, M!States
  <2>8. M!Warranted(to) = on \cup {"edgeWatch", "watchdog"}
                             \cup (IF observes THEN {"mouseObservation"} ELSE {})
    <3>1. M!Intercepts(to.state) = {} /\ M!Intercepts(m.state) = {}
          BY <1>3, <2>7, WarrantedIsOn DEF M!Directions
    <3> QED BY <1>3, <2>7, <3>1 DEF M!Warranted
  <2>9. M!Arm(m, cs, c) = M!Only(to, (first \o watched) \o ending)
        BY <1>3 DEF M!Arm, first, watched, ending
  <2> HIDE DEF to, on
  <2>10. Sound(m, cs, M!Only(to, (first \o watched) \o ending))
        BY <2>5, <2>6, <2>7, <2>8 DEF Sound, M!Only, Authorised, M!Directions, on
  <2> QED BY <2>9, <2>10
<1> QED BY <1>1, <1>2, <1>3

(* The machine an edge crossing or a trigger leads to. *)
LEMMA CrossSound ==
    ASSUME NEW m \in M!Machine, NEW cs \in SUBSET M!Capabilities, m.state = "armed"
    PROVE  /\ "macToAndroid" \in m.consent /\ "macToAndroid" \in cs =>
                 Sound(m, cs, M!Only([m EXCEPT !.state = "macToAndroid"],
                                     <<M!Start("suppression"), M!MoveCursor, M!Broadcast>>))
           /\ "androidToMac" \in m.consent /\ "androidToMac" \in cs =>
                 Sound(m, cs, M!Only([m EXCEPT !.state = "androidToMac"],
                                     <<M!Start("keyFilter"), M!Start("mouseCapture"), M!Broadcast>>))
<1> DEFINE es == <<M!Start("suppression"), M!MoveCursor, M!Broadcast>>
           fs == <<M!Start("keyFilter"), M!Start("mouseCapture"), M!Broadcast>>
           out == [m EXCEPT !.state = "macToAndroid"]
           in == [m EXCEPT !.state = "androidToMac"]
<1>1. /\ out \in M!Machine /\ out.state = "macToAndroid"
      /\ out.observing = m.observing /\ out.consent = m.consent
      /\ in \in M!Machine /\ in.state = "androidToMac"
      /\ in.observing = m.observing /\ in.consent = m.consent
      BY DEF M!Machine, M!States, M!Directions
<1>2. /\ es \in Seq(M!Effects) /\ Silent(es)
      /\ M!Carried(M!Warranted(m), es) = M!Warranted(m) \cup {"suppression"}
      /\ fs \in Seq(M!Effects) /\ Silent(fs)
      /\ M!Carried(M!Warranted(m), fs) = M!Warranted(m) \cup {"keyFilter", "mouseCapture"}
      BY CrossEffects, WarrantedIsOn
<1> HIDE DEF es, fs, out, in
<1>3. M!Intercepts(m.state) = {}
      BY WarrantedIsOn DEF M!Directions
<1>4. M!Warranted(out) = M!Warranted(m) \cup {"suppression"}
  <2>1. M!Intercepts(out.state) = {"suppression"}
        BY <1>1, WarrantedIsOn
  <2> QED BY <1>1, <1>3, <2>1 DEF M!Warranted
<1>5. M!Warranted(in) = M!Warranted(m) \cup {"keyFilter", "mouseCapture"}
  <2>1. M!Intercepts(in.state) = {"keyFilter", "mouseCapture"}
        BY <1>1, WarrantedIsOn
  <2> QED BY <1>1, <1>3, <2>1 DEF M!Warranted
<1>6. "macToAndroid" \in m.consent /\ "macToAndroid" \in cs => Sound(m, cs, M!Only(out, es))
      BY <1>1, <1>2, <1>4 DEF Sound, M!Only, Authorised, M!Directions
<1>7. "androidToMac" \in m.consent /\ "androidToMac" \in cs => Sound(m, cs, M!Only(in, fs))
      BY <1>1, <1>2, <1>5 DEF Sound, M!Only, Authorised, M!Directions
<1> QED BY <1>6, <1>7 DEF es, fs, out, in

(* Entering a direction is sound. *)
LEMMA EnterSound ==
    ASSUME NEW m \in M!Machine, NEW cs \in SUBSET M!Capabilities, NEW source \in M!Triggers
    PROVE  /\ Sound(m, cs, M!EnterMacToAndroid(m, cs))
           /\ Sound(m, cs, M!EnterAndroidToMac(m, cs, source))
<1> DEFINE out == M!Only([m EXCEPT !.state = "macToAndroid"],
                         <<M!Start("suppression"), M!MoveCursor, M!Broadcast>>)
           in == M!Only([m EXCEPT !.state = "androidToMac"],
                        <<M!Start("keyFilter"), M!Start("mouseCapture"), M!Broadcast>>)
<1>1. \/ M!EnterMacToAndroid(m, cs) \in
             {M!Refuse(m, "notArmed"), M!Refuse(m, "consent"), M!Refuse(m, "capability")}
      \/ /\ m.state = "armed" /\ "macToAndroid" \in m.consent /\ "macToAndroid" \in cs
         /\ M!EnterMacToAndroid(m, cs) = out
  <2>1. CASE m.state # "armed"
        BY <2>1 DEF M!EnterMacToAndroid
  <2>2. CASE m.state = "armed" /\ "macToAndroid" \notin m.consent
        BY <2>2 DEF M!EnterMacToAndroid
  <2>3. CASE /\ m.state = "armed" /\ "macToAndroid" \in m.consent
             /\ ~({"macToAndroid", "cursorInjection"} \subseteq cs)
        BY <2>3 DEF M!EnterMacToAndroid
  <2>4. CASE /\ m.state = "armed" /\ "macToAndroid" \in m.consent
             /\ {"macToAndroid", "cursorInjection"} \subseteq cs
        BY <2>4 DEF M!EnterMacToAndroid
  <2> QED BY <2>1, <2>2, <2>3, <2>4
<1>2. \/ M!EnterAndroidToMac(m, cs, source) \in
             {M!Refuse(m, "notArmed"), M!Refuse(m, "consent"), M!Refuse(m, "capability"),
              M!Refuse(m, "source")}
      \/ /\ m.state = "armed" /\ "androidToMac" \in m.consent /\ "androidToMac" \in cs
         /\ M!EnterAndroidToMac(m, cs, source) = in
  <2>1. CASE m.state # "armed"
        BY <2>1 DEF M!EnterAndroidToMac
  <2>2. CASE m.state = "armed" /\ "androidToMac" \notin m.consent
        BY <2>2 DEF M!EnterAndroidToMac
  <2>3. CASE /\ m.state = "armed" /\ "androidToMac" \in m.consent
             /\ ~({"androidToMac", "mouseCapture"} \subseteq cs)
        BY <2>3 DEF M!EnterAndroidToMac
  <2>4. CASE /\ m.state = "armed" /\ "androidToMac" \in m.consent
             /\ {"androidToMac", "mouseCapture"} \subseteq cs
             /\ ~M!Supports(m, cs, source)
        BY <2>4 DEF M!EnterAndroidToMac
  <2>5. CASE /\ m.state = "armed" /\ "androidToMac" \in m.consent
             /\ {"androidToMac", "mouseCapture"} \subseteq cs
             /\ M!Supports(m, cs, source)
        BY <2>5 DEF M!EnterAndroidToMac
  <2> QED BY <2>1, <2>2, <2>3, <2>4, <2>5
<1> HIDE DEF out, in
<1>3. m.state = "armed" /\ "macToAndroid" \in m.consent /\ "macToAndroid" \in cs
        => Sound(m, cs, out)
      BY CrossSound DEF out
<1>4. m.state = "armed" /\ "androidToMac" \in m.consent /\ "androidToMac" \in cs
        => Sound(m, cs, in)
      BY CrossSound DEF in
<1>5. \A why \in {"notArmed", "consent", "capability", "source"} : Sound(m, cs, M!Refuse(m, why))
      BY RefuseSound, RejectionsAreEffects
<1> QED BY <1>1, <1>2, <1>3, <1>4, <1>5

(* Consent grows without a step of the machine, and shrinks with an exit   *)
(* wherever the machine needs what is withdrawn.                           *)
LEMMA ConsentSound ==
    ASSUME NEW m \in M!Machine, NEW cs \in SUBSET M!Capabilities,
           NEW ds \in SUBSET M!Directions
    PROVE  /\ Sound(m, cs, M!Grant(m, ds))
           /\ Sound(m, cs, M!RevokeConsent(m, ds))
<1> DEFINE more == [m EXCEPT !.consent = @ \cup ds]
           less == [m EXCEPT !.consent = @ \ ds]
<1>1. /\ more \in M!Machine /\ more.state = m.state /\ more.observing = m.observing
      /\ more.consent = m.consent \cup ds
      /\ less \in M!Machine /\ less.state = m.state /\ less.observing = m.observing
      BY DEF M!Machine
<1>2. Sound(m, cs, M!Only(more, <<>>))
  <2>1. Authorised(m, cs) => Authorised(more, cs)
        BY <1>1 DEF Authorised
  <2> HIDE DEF more
  <2> QED BY <1>1, <2>1, QuietSound
<1>3. (Authorised(m, cs) => Authorised(less, cs)) => Sound(m, cs, M!Only(less, <<>>))
  <2> HIDE DEF less
  <2> QED BY <1>1, QuietSound
<1>4. Sound(m, cs, M!ExitToOff(less))
  <2> HIDE DEF less
  <2>1. Sound(less, cs, M!ExitToOff(less))
        BY <1>1, ExitSound
  <2>2. M!Warranted(less) = M!Warranted(m)
        BY <1>1 DEF M!Warranted
  <2>3. M!ExitToOff(less).to.state \notin M!Directions \/ less.state \notin M!Directions
        BY <1>1, <2>1
           DEF Sound, M!ExitToOff, M!Only, M!Directions
  <2> QED BY <1>1, <2>1, <2>2, <2>3 DEF Sound, Authorised
<1>5. \/ M!RevokeConsent(m, ds) = M!ExitToOff(less)
      \/ M!RevokeConsent(m, ds) = M!Only(less, <<>>)
              /\ (m.state \in M!Directions => m.state \in less.consent)
  <2>1. CASE m.state = "off"
        BY <2>1 DEF M!RevokeConsent, M!Directions
  <2>2. CASE m.state = "armed"
        BY <2>2 DEF M!RevokeConsent, M!Directions
  <2>3. CASE m.state \notin {"off", "armed"}
        BY <2>3 DEF M!RevokeConsent
  <2> QED BY <2>1, <2>2, <2>3
<1>6. M!Grant(m, ds) = M!Only(more, <<>>)
      BY DEF M!Grant
<1> HIDE DEF more, less
<1>7. CASE M!RevokeConsent(m, ds) = M!ExitToOff(less)
      BY <1>2, <1>4, <1>6, <1>7
<1>8. CASE /\ M!RevokeConsent(m, ds) = M!Only(less, <<>>)
           /\ m.state \in M!Directions => m.state \in less.consent
  <2>1. Authorised(m, cs) => Authorised(less, cs)
        BY <1>1, <1>8 DEF Authorised
  <2> QED BY <1>2, <1>3, <1>6, <1>8, <2>1
<1> QED BY <1>5, <1>7, <1>8

-----------------------------------------------------------------------------
(***************************************************************************)
(* The invariant: the subsystems that are on are the ones the state        *)
(* warrants, and the effects of the last event are in order.               *)
(***************************************************************************)
MachineInv ==
          /\ caps \subseteq M!Capabilities
          /\ machine \in M!Machine
          /\ emitted \in Seq(M!Effects)
          /\ M!RunningFollowsState
          /\ M!ActiveIsAuthorised
          /\ M!ReleasedBeforeRestored

(* The invariant holds at the start, ... *)
LEMMA MachineInit == M!Init => MachineInv
<1> SUFFICES ASSUME M!Init PROVE MachineInv
    OBVIOUS
<1>1. /\ machine \in M!Machine /\ machine.state = "off"
      /\ machine.observing = FALSE /\ emitted \in Seq(M!Effects)
      BY DEF M!Init, M!New, M!Machine, M!States
<1>2. M!Warranted(machine) = {}
      BY <1>1, WarrantedIsOn DEF M!Warranted, M!Directions
<1>3. machine.state \notin M!Directions
      BY <1>1 DEF M!Directions
<1> QED BY <1>1, <1>2, <1>3
        DEF MachineInv, M!Init, M!RunningFollowsState, M!ActiveIsAuthorised, M!ReleasedBeforeRestored

(* Every event of a machine that keeps the invariant is a sound one. *)
LEMMA NextIsSound ==
    ASSUME MachineInv, M!Next
    PROVE  \E r : M!On(r) /\ Sound(machine, caps, r)
<1>0. machine \in M!Machine /\ caps \in SUBSET M!Capabilities
      BY DEF MachineInv
<1> HIDE DEF M!Machine, Sound, M!On
<1>1. CASE M!ArmRequested
      BY <1>0, <1>1, ArmSound DEF M!ArmRequested
<1>2. CASE M!Returned
      BY <1>0, <1>2, ReturnSound DEF M!Returned
<1>3. CASE M!FailedClosed
      BY <1>0, <1>3, ExitSound DEF M!FailedClosed
<1>4. CASE M!ConsentGranted
      BY <1>0, <1>4, ConsentSound DEF M!ConsentGranted
<1>5. CASE M!ConsentRevoked
      BY <1>0, <1>5, ConsentSound DEF M!ConsentRevoked
<1>6. CASE M!PointerCrossed
  <2>1. "toggle" \in M!Triggers
        BY DEF M!Triggers
  <2> QED BY <1>0, <1>6, <2>1, EnterSound DEF M!PointerCrossed
<1>7. CASE M!Triggered
      BY <1>0, <1>7, EnterSound DEF M!Triggered
<1>8. CASE M!Reconnected
      BY <1>0, <1>8, QuietSound DEF M!Reconnected
<1> QED BY <1>1, <1>2, <1>3, <1>4, <1>5, <1>6, <1>7, <1>8 DEF M!Next

(* A sound event keeps the invariant. *)
LEMMA SoundKeeps ==
    ASSUME MachineInv, NEW r, M!On(r), Sound(machine, caps, r)
    PROVE  MachineInv'
<1>1. /\ machine' = r.to /\ emitted' = r.effects /\ caps' = caps
      /\ running' = M!Carried(running, r.effects)
      BY DEF M!On
<1>2. /\ caps' \subseteq M!Capabilities /\ machine' \in M!Machine
      /\ emitted' \in Seq(M!Effects)
      BY <1>1 DEF MachineInv, Sound
<1>3. running' = M!Warranted(machine')
      BY <1>1 DEF MachineInv, M!RunningFollowsState, Sound
<1>4. M!ActiveIsAuthorised'
      BY <1>1 DEF MachineInv, M!ActiveIsAuthorised, Sound, Authorised
<1>5. M!ReleasedBeforeRestored'
  <2>1. CASE Silent(r.effects)
        BY <1>1, <2>1 DEF Silent, M!ReleasedBeforeRestored
  <2>2. CASE /\ Ordered(r.effects) /\ Len(r.effects) > 0
             /\ r.effects[1] = M!ReleaseAll /\ r.to.state \notin M!Directions
    <3>1. running' \cap {"suppression", "keyFilter", "mouseCapture"} = {}
      <4>1. M!Intercepts(machine'.state) = {}
            BY <1>1, <1>2, <2>2, WarrantedIsOn
      <4> QED BY <1>3, <4>1 DEF M!Warranted
    <3> QED BY <1>1, <2>2, <3>1 DEF Ordered, M!ReleasedBeforeRestored
  <2> QED BY <2>1, <2>2 DEF Sound
<1> QED BY <1>2, <1>3, <1>4, <1>5 DEF MachineInv, M!RunningFollowsState

(* ... every step keeps it, ... *)
LEMMA MachineStep == MachineInv /\ [M!Next]_(M!vars) => MachineInv'
<1> SUFFICES ASSUME MachineInv, [M!Next]_(M!vars) PROVE MachineInv'
    OBVIOUS
<1>1. CASE M!Next
      BY <1>1, NextIsSound, SoundKeeps
<1>2. CASE UNCHANGED M!vars
      BY <1>2 DEF M!vars, MachineInv, M!RunningFollowsState, M!ActiveIsAuthorised,
                  M!ReleasedBeforeRestored
<1> QED BY <1>1, <1>2

(* ... and it says what the runs check. *)
LEMMA MachineImplies == MachineInv => M!TypeOK /\ M!SharingIsConsented
<1> SUFFICES ASSUME MachineInv PROVE M!TypeOK /\ M!SharingIsConsented
    OBVIOUS
<1>1. running \subseteq M!Subsystems
      BY WarrantedIsOn DEF MachineInv, M!RunningFollowsState
<1>2. \A i \in 1..Len(emitted) : emitted[i] \in M!Effects
      BY DEF MachineInv
<1> QED BY <1>1, <1>2 DEF MachineInv, M!TypeOK, M!SharingIsConsented

(* The machine, its subsystems and its effects keep their types whatever   *)
(* the events.                                                             *)
THEOREM MachineTypes == M!Spec => []M!TypeOK
  BY MachineInit, MachineStep, MachineImplies, PTL DEF M!Spec

(* Whatever the capabilities, the events and their order: the subsystems   *)
(* that are on are the ones the state warrants, input goes in a direction  *)
(* under its consent and its capability, and an exit releases first and    *)
(* restores last.                                                          *)
THEOREM SharingCorrect == M!Spec => []M!SharingIsConsented
  BY MachineInit, MachineStep, MachineImplies, PTL DEF M!Spec

-----------------------------------------------------------------------------
(* An event moves ownership as KmOwner allows: a direction is taken from   *)
(* the local screens and given back to them.                               *)
LEMMA OwnerStep == MachineInv /\ [M!Next]_(M!vars) => [M!Owner!Next]_(M!Holder)
<1> SUFFICES ASSUME MachineInv, [M!Next]_(M!vars), M!Holder' # M!Holder
             PROVE  M!Owner!Next
    OBVIOUS
<1>1. PICK r : M!On(r) /\ Sound(machine, caps, r)
  <2>1. M!Next
        BY DEF M!vars, M!Holder
  <2> QED BY <2>1, NextIsSound
<1>2. machine' = r.to /\ machine'.state # machine.state
      BY <1>1 DEF M!On, M!Holder
<1>3. machine.state \notin M!Directions \/ machine'.state \notin M!Directions
      BY <1>1, <1>2 DEF Sound
<1>4. CASE machine.state \in M!Directions
  <2>1. M!Holder # "local" /\ M!Holder' = "local"
        BY <1>3, <1>4 DEF M!Holder, M!Directions
  <2> QED BY <2>1 DEF M!Owner!Next, M!Owner!GiveBack
<1>5. CASE machine.state \notin M!Directions
  <2>1. M!Holder = "local" /\ M!Holder' \in M!Owner!Owners \ {"local"}
        BY <1>5 DEF M!Holder, M!Directions, M!Owner!Owners
  <2> QED BY <2>1 DEF M!Owner!Next, M!Owner!Take
<1> QED BY <1>4, <1>5

(* The machine implements exclusive ownership of the physical input: every *)
(* event is a step of KmOwner or leaves the owner as it is.                *)
THEOREM OwnershipIsExclusive == M!Spec => M!ExclusiveOwner
<1>1. M!Init => M!Owner!Init
      BY DEF M!Init, M!New, M!Owner!Init, M!Holder, M!Directions
<1> QED BY <1>1, MachineInit, MachineStep, OwnerStep, PTL DEF M!Spec, M!ExclusiveOwner, M!Owner!Spec

-----------------------------------------------------------------------------
Starting == [id : Nat \ {0}, peer : K!Peers, conn : Conns, at : {"bind", "slot"}]
Task == [id : Nat, peer : K!Peers, at : {"accept", "proved", "loop"}]
Active == [id : Nat \ {0}, peer : K!Peers, conn : Conns, connected : BOOLEAN]
StopOps ==
     {op \in [peer : K!Peers \cup {<<>>}, id : Nat, expire : BOOLEAN,
              at : {"read", "stop", "expire", "both", "partial", "stopall", "clear", "closed"}] :
        op.at \notin {"stopall", "clear"} => op.peer \in K!Peers}
KmPast == [created : Nat, consents : Nat, stopped : SUBSET (K!Peers \X (K!Peers \cup {<<>>})),
           approved : SUBSET K!Peers, revoked : SUBSET K!Peers]

(* MaxGen bounds how often a device pairs again; it has paired once. *)
PeersTypeInv ==
       /\ MaxGen \in Nat \ {0}
       /\ gens \in [KmDevices -> Nat] /\ made \in [KmDevices -> Nat]
       /\ \A d \in KmDevices : gens[d] <= made[d] /\ made[d] <= MaxGen /\ 1 <= made[d]
       /\ DOMAIN approvals \subseteq K!Peers
       /\ \A p \in DOMAIN approvals : approvals[p] \in K!Consents
       /\ active \in Active \cup {K!None}
       /\ starts \subseteq Starting /\ tasks \subseteq Task /\ stops \subseteq StopOps
       /\ kmPast \in KmPast
       /\ \A p \in DOMAIN approvals : approvals[p] = "both" => p \in kmPast.approved

(* A number is given out once, and whoever holds it means the same peer.   *)
Created == kmPast.created

SessionsAreNumbered ==
  /\ \A s \in starts : s.id \in 1..Created
  /\ \A t \in tasks : t.id \in 1..Created
  /\ active # K!None => active.id \in 1..Created
  /\ \A op \in stops : op.id \in 0..Created
  /\ \A s, r \in starts : s.id = r.id => s = r
  /\ \A s \in starts, t \in tasks : s.id # t.id
  /\ \A s \in starts : /\ s.at = "bind" => active = K!None \/ active.id # s.id
                       /\ \A op \in stops : op.id = s.id => op.peer = s.peer
                       /\ active # K!None /\ active.id = s.id
                            => active.peer = s.peer /\ ~active.connected
  /\ \A t \in tasks : active # K!None /\ active.id = t.id => active.peer = t.peer
  /\ \A op \in stops : active # K!None /\ op.id = active.id => op.peer = active.peer

(* A stop that is under way for the session of the slot. *)
Reaches(op) ==
  /\ op.peer = active.peer
  /\ op.at = "read" \/ (op.at = "stop" /\ op.id = active.id)

WithdrawalReaches ==
  active # K!None /\ active.connected /\ active.peer \in DOMAIN approvals
    /\ approvals[active.peer] # "both"
    => \E op \in stops : Reaches(op)

(* A pairing that was revoked is not the current one, and its session, once *)
(* its task runs, is being stopped.                                         *)
RevocationReaches ==
  /\ \A p \in kmPast.revoked : p[2] <= made[p[1]] /\ ~K!Authorized(p)
  /\ active # K!None /\ active.peer \in kmPast.revoked /\ (\E t \in tasks : t.id = active.id)
       => \E op \in stops : Reaches(op)

PeersInv ==
  /\ SessionsAreNumbered
  /\ WithdrawalReaches
  /\ RevocationReaches
  /\ K!StopsSpareOthers
  /\ K!SlotIsOwned

-----------------------------------------------------------------------------
(* Lemmas about the operators of the manager.                              *)

Kept == UNCHANGED <<gens, made, approvals, active, kmPast>>

(* A stop by number frees the slot of that session, and of no other.       *)
LEMMA StopsByNumber ==
  ASSUME PeersTypeInv, NEW id \in Nat, NEW expire \in BOOLEAN,
         NEW target \in K!Peers \cup {<<>>}, K!StopSession(id, expire, target)
  PROVE  /\ active' = active \/ active' = K!None
         /\ active # K!None /\ active.id = id => active' = K!None
         /\ active # K!None /\ active.id # id => active' = active
         /\ DOMAIN approvals' \subseteq DOMAIN approvals
         /\ \A p \in DOMAIN approvals' : approvals'[p] = approvals[p]
         /\ kmPast' \in KmPast
         /\ kmPast'.created = kmPast.created /\ kmPast'.revoked = kmPast.revoked
         /\ kmPast'.approved = kmPast.approved /\ kmPast'.consents = kmPast.consents
         /\ \/ kmPast'.stopped = kmPast.stopped
            \/ /\ active # K!None /\ active.id = id
               /\ kmPast'.stopped = kmPast.stopped \cup {<<active.peer, target>>}
<1>1. CASE K!Stoppable(id)
  <2>1. /\ active # K!None /\ active.id = id /\ active' = K!None
        /\ approvals' = IF expire THEN K!Without(active.peer) ELSE approvals
        /\ kmPast' = [kmPast EXCEPT !.stopped = @ \cup {<<active.peer, target>>}]
        BY <1>1 DEF K!StopSession, K!Stoppable, K!Hits
  <2>2. active \in Active
        BY <2>1 DEF PeersTypeInv
  <2>3. <<active.peer, target>> \in K!Peers \X (K!Peers \cup {<<>>})
        BY <2>2 DEF Active
  <2>4. /\ DOMAIN approvals' \subseteq DOMAIN approvals
        /\ \A p \in DOMAIN approvals' : approvals'[p] = approvals[p]
        BY <2>1 DEF K!Without
  <2>5. kmPast \in KmPast
        BY DEF PeersTypeInv
  <2>6. /\ kmPast' \in KmPast
        /\ kmPast'.created = kmPast.created /\ kmPast'.revoked = kmPast.revoked
        /\ kmPast'.approved = kmPast.approved /\ kmPast'.consents = kmPast.consents
        /\ kmPast'.stopped = kmPast.stopped \cup {<<active.peer, target>>}
        BY <2>1, <2>3, <2>5 DEF KmPast
  <2> QED BY <2>1, <2>4, <2>6
<1>2. CASE ~K!Stoppable(id)
      BY <1>2 DEF K!StopSession, K!Stoppable, K!Hits, PeersTypeInv
<1> QED BY <1>1, <1>2

(* A task that ends stops its own session. *)
LEMMA TaskEndings ==
  ASSUME NEW t \in tasks,
         K!TaskProves(t) \/ K!TaskConnects(t) \/ K!TaskTicks(t) \/ K!TaskFails(t)
  PROVE  \/ K!TaskEnds(t)
         \/ /\ tasks' = (tasks \ {t}) \cup {[t EXCEPT !.at = "proved"]}
            /\ UNCHANGED <<gens, made, approvals, active, starts, stops, kmPast>>
         \/ /\ active # K!None /\ active.id = t.id /\ K!Approved(t.peer)
            /\ active' = [active EXCEPT !.connected = TRUE]
            /\ tasks' = (tasks \ {t}) \cup {[t EXCEPT !.at = "loop"]}
            /\ UNCHANGED <<gens, made, approvals, starts, stops, kmPast>>
  BY DEF K!TaskProves, K!TaskConnects, K!TaskTicks, K!TaskFails, K!Move, K!Stoppable, K!Hits, K!StillApproved

(* A call that has only just come in. *)
Comes(op) ==
  /\ stops' = stops \cup {op}
  /\ UNCHANGED <<approvals, active, starts, tasks>>

(* The host starts in a state of the types. *)
LEMMA PeersTypeInit == ASSUME MaxGen \in Nat \ {0} PROVE K!Init => PeersTypeInv
<1> SUFFICES ASSUME K!Init PROVE PeersTypeInv
    OBVIOUS
<1>1. DOMAIN approvals = {}
      BY DEF K!Init
<1>2. kmPast \in KmPast
      BY DEF K!Init, KmPast
<1> QED BY <1>1, <1>2 DEF K!Init, PeersTypeInv

(* Every step of the host keeps the types. *)
LEMMA PeersTypeStep == PeersTypeInv /\ [K!Next]_(K!vars) => PeersTypeInv'
<1> SUFFICES ASSUME PeersTypeInv, [K!Next]_(K!vars) PROVE PeersTypeInv'
    OBVIOUS
<1>t. /\ MaxGen \in Nat \ {0}
      /\ gens \in [KmDevices -> Nat] /\ made \in [KmDevices -> Nat] /\ kmPast \in KmPast
      /\ active \in Active \cup {K!None}
      /\ starts \subseteq Starting /\ tasks \subseteq Task /\ stops \subseteq StopOps
      BY DEF PeersTypeInv
<1>g. \A d \in KmDevices : gens[d] # 0 => <<d, gens[d]>> \in K!Peers
      BY DEF PeersTypeInv, K!Peers
<1>r. ASSUME NEW id \in Nat, NEW expire \in BOOLEAN, NEW target \in K!Peers \cup {<<>>},
             K!StopSession(id, expire, target), starts' \subseteq Starting,
             tasks' \subseteq Task, stops' \subseteq StopOps, UNCHANGED <<gens, made>>
      PROVE  PeersTypeInv'
  <2>1. /\ active' = active \/ active' = K!None
        /\ DOMAIN approvals' \subseteq DOMAIN approvals
        /\ \A p \in DOMAIN approvals' : approvals'[p] = approvals[p]
        /\ kmPast' \in KmPast /\ kmPast'.approved = kmPast.approved
        BY <1>r, StopsByNumber
  <2> QED BY <1>r, <2>1 DEF PeersTypeInv
<1>c. ASSUME NEW op \in StopOps, Comes(op), UNCHANGED <<gens, made, kmPast>>
      PROVE  PeersTypeInv'
      BY <1>c DEF Comes, PeersTypeInv
<1>1. ASSUME NEW p \in K!Peers, NEW c \in Conns, K!StartChecks(p, c)
      PROVE  PeersTypeInv'
  <2>1. [id |-> kmPast.created + 1, peer |-> p, conn |-> c, at |-> "bind"] \in Starting
        BY <1>t DEF KmPast, Starting
  <2>2. kmPast' \in KmPast /\ kmPast'.approved = kmPast.approved
    <3>1. kmPast' = [kmPast EXCEPT !.created = kmPast.created + 1]
          BY <1>1 DEF K!StartChecks
    <3>2. kmPast.created + 1 \in Nat
          BY <1>t DEF KmPast
    <3> QED BY <1>t, <3>1, <3>2 DEF KmPast
  <2> QED BY <1>1, <2>1, <2>2 DEF K!StartChecks, PeersTypeInv
<1>2. ASSUME NEW s \in starts, K!StartTakesSlot(s)
      PROVE  PeersTypeInv'
  <2>1. s \in Starting /\ [s EXCEPT !.at = "slot"] \in Starting
        BY <1>t DEF Starting
  <2>2. [id |-> s.id, peer |-> s.peer, conn |-> s.conn, connected |-> FALSE] \in Active
        BY <2>1 DEF Starting, Active
  <2>3. active' \in Active \cup {K!None} /\ starts' \subseteq Starting
        BY <1>2, <1>t, <2>1, <2>2 DEF K!StartTakesSlot
  <2> QED BY <1>2, <2>3 DEF K!StartTakesSlot, PeersTypeInv
<1>3. ASSUME NEW s \in starts, K!StartSpawns(s)
      PROVE  PeersTypeInv'
  <2>1. s \in Starting /\ [id |-> s.id, peer |-> s.peer, at |-> "accept"] \in Task
        BY <1>t DEF Starting, Task
  <2>2. CASE K!Authorized(s.peer)
        BY <1>3, <1>t, <2>1, <2>2 DEF K!StartSpawns, PeersTypeInv
  <2>3. CASE ~K!Authorized(s.peer)
    <3>1. /\ K!StopSession(s.id, TRUE, s.peer) /\ starts' = starts \ {s}
          /\ UNCHANGED <<tasks, gens, made, stops>>
          BY <1>3, <2>3 DEF K!StartSpawns
    <3>2. s.id \in Nat /\ s.peer \in K!Peers
          BY <2>1 DEF Starting
    <3> QED BY <1>r, <1>t, <3>1, <3>2
  <2> QED BY <2>2, <2>3
<1>4. ASSUME NEW t \in tasks,
             K!TaskProves(t) \/ K!TaskConnects(t) \/ K!TaskTicks(t) \/ K!TaskFails(t)
      PROVE  PeersTypeInv'
  <2>1. /\ t \in Task /\ t.id \in Nat /\ t.peer \in K!Peers
        /\ \A at \in {"proved", "loop"} : [t EXCEPT !.at = at] \in Task
        BY <1>t DEF Task
  <2>2. CASE K!TaskEnds(t)
    <3>1. /\ K!StopSession(t.id, TRUE, t.peer) /\ tasks' = tasks \ {t}
          /\ UNCHANGED <<gens, made, starts, stops>>
          BY <2>2 DEF K!TaskEnds
    <3> QED BY <1>r, <1>t, <2>1, <3>1
  <2>3. CASE /\ tasks' = (tasks \ {t}) \cup {[t EXCEPT !.at = "proved"]}
             /\ UNCHANGED <<gens, made, approvals, active, starts, stops, kmPast>>
        BY <2>1, <2>3 DEF PeersTypeInv
  <2>4. CASE /\ active # K!None
             /\ active' = [active EXCEPT !.connected = TRUE]
             /\ tasks' = (tasks \ {t}) \cup {[t EXCEPT !.at = "loop"]}
             /\ UNCHANGED <<gens, made, approvals, starts, stops, kmPast>>
    <3>1. active' \in Active
          BY <1>t, <2>4 DEF Active
    <3> QED BY <2>1, <2>4, <3>1 DEF PeersTypeInv
  <2> QED BY <1>4, <2>2, <2>3, <2>4, TaskEndings
<1>5. ASSUME NEW d \in KmDevices, K!Revoke(d)
      PROVE  PeersTypeInv'
  <2>1. K!StopOp(<<d, gens[d]>>, TRUE, "read") \in StopOps /\ <<d, gens[d]>> \in K!Peers
        BY <1>5, <1>g DEF K!StopOp, StopOps, K!Revoke
  <2>2. kmPast' \in KmPast /\ kmPast'.approved = kmPast.approved
    <3>1. kmPast' = [kmPast EXCEPT !.revoked = kmPast.revoked \cup {<<d, gens[d]>>}]
          BY <1>5 DEF K!Revoke
    <3> QED BY <1>t, <2>1, <3>1 DEF KmPast
  <2>3. /\ gens' \in [KmDevices -> Nat]
        /\ \A e \in KmDevices : gens'[e] <= made[e]
        BY <1>5 DEF K!Revoke, PeersTypeInv
  <2> QED BY <1>5, <2>1, <2>2, <2>3 DEF K!Revoke, K!Enter, PeersTypeInv
<1>6. ASSUME NEW d \in KmDevices, K!PairAgain(d)
      PROVE  PeersTypeInv'
      BY <1>6 DEF K!PairAgain, PeersTypeInv
<1>7. ASSUME NEW d \in KmDevices, NEW value \in K!Consents, K!LookUp(d, value)
      PROVE  PeersTypeInv'
  <2>1. [peer |-> <<d, gens[d]>>, id |-> 0, expire |-> FALSE, at |-> value] \in StopOps
        BY <1>7, <1>g DEF StopOps, K!Consents, K!LookUp
  <2>2. kmPast' \in KmPast /\ kmPast'.approved = kmPast.approved
    <3>1. kmPast' = [kmPast EXCEPT !.consents = kmPast.consents + 1]
          BY <1>7 DEF K!LookUp
    <3>2. kmPast.consents + 1 \in Nat
          BY <1>t DEF KmPast
    <3> QED BY <1>t, <3>1, <3>2 DEF KmPast
  <2> QED BY <1>7, <2>1, <2>2 DEF K!LookUp, K!Enter, PeersTypeInv
<1>8. CASE (\E p \in K!Peers : K!StopPeer(p)) \/ K!StopAll
           \/ \E d \in KmDevices, c \in Conns : K!ControlClosed(d, c)
  <2>1. \A p \in K!Peers : K!StopOp(p, TRUE, "read") \in StopOps
        BY DEF K!StopOp, StopOps
  <2>2. \A peer \in K!Peers \cup {<<>>}, id \in Nat, at \in {"stopall", "closed"} :
           at = "stopall" \/ peer \in K!Peers
             => [peer |-> peer, id |-> id, expire |-> TRUE, at |-> at] \in StopOps
        BY DEF StopOps
  <2>3. active.id \in Nat /\ (active # K!None => active.peer \in K!Peers)
        BY <1>t DEF Active, K!None
  <2> QED BY <1>8, <1>c, <2>1, <2>2, <2>3 DEF K!StopPeer, K!StopAll, K!ControlClosed, K!Enter, Comes
<1>9. ASSUME NEW op \in stops,
             \/ K!ReadActive(op) \/ K!StopById(op) \/ K!ExpireConsent(op)
             \/ K!StopAllStops(op) \/ K!ClearConsents(op) \/ K!ClosedStops(op)
      PROVE  PeersTypeInv'
  <2>1. /\ op \in StopOps /\ op.id \in Nat /\ op.expire \in BOOLEAN
        /\ op.peer \in K!Peers \cup {<<>>}
        /\ [op EXCEPT !.at = "clear"] \in StopOps
        /\ op.at \in {"read", "stop"} => [op EXCEPT !.at = "expire"] \in StopOps
        /\ op.at = "read" => \A id \in Nat : [op EXCEPT !.at = "stop", !.id = id] \in StopOps
        BY <1>t DEF StopOps
  <2>2. active.id \in Nat
        BY <1>t DEF Active, K!None
  <2>3. CASE K!ReadActive(op)
        BY <2>1, <2>2, <2>3 DEF K!ReadActive, PeersTypeInv
  <2>4. CASE K!ExpireConsent(op)
        BY <2>4 DEF K!ExpireConsent, K!Without, PeersTypeInv
  <2>5. CASE K!ClearConsents(op)
    <3>1. DOMAIN approvals' = {}
          BY <2>5 DEF K!ClearConsents
    <3> QED BY <2>5, <3>1 DEF K!ClearConsents, PeersTypeInv
  <2>6. CASE K!StopById(op)
    <3>1. stops' \subseteq StopOps /\ UNCHANGED <<gens, made, starts, tasks>>
          BY <1>t, <2>1, <2>6 DEF K!StopById
    <3>2. CASE UNCHANGED <<active, approvals, kmPast>>
          BY <3>1, <3>2 DEF PeersTypeInv
    <3>3. CASE K!StopSession(op.id, op.expire, op.peer)
          BY <1>r, <1>t, <2>1, <3>1, <3>3
    <3> QED BY <2>6, <3>2, <3>3 DEF K!StopById
  <2>7. CASE K!StopAllStops(op)
    <3>1. stops' \subseteq StopOps /\ UNCHANGED <<gens, made, starts, tasks>>
          BY <1>t, <2>1, <2>7 DEF K!StopAllStops
    <3>2. CASE UNCHANGED <<active, approvals, kmPast>>
          BY <3>1, <3>2 DEF PeersTypeInv
    <3>3. CASE K!StopSession(op.id, TRUE, op.peer)
          BY <1>r, <1>t, <2>1, <3>1, <3>3
    <3> QED BY <2>7, <3>2, <3>3 DEF K!StopAllStops
  <2>8. CASE K!ClosedStops(op)
    <3>1. stops' \subseteq StopOps /\ UNCHANGED <<gens, made, starts, tasks>>
          /\ K!StopSession(op.id, TRUE, op.peer)
          BY <1>t, <2>8 DEF K!ClosedStops
    <3> QED BY <1>r, <1>t, <2>1, <3>1
  <2> QED BY <1>9, <2>3, <2>4, <2>5, <2>6, <2>7, <2>8
<1>10. ASSUME NEW op \in stops, K!RecordConsent(op)
       PROVE  PeersTypeInv'
  <2>0. op \in StopOps /\ op.at \in K!Consents /\ op.at \notin {"stopall", "clear"}
        BY <1>t, <1>10 DEF K!RecordConsent, K!Consents
  <2>1. op \in StopOps /\ [op EXCEPT !.at = "read"] \in StopOps /\ op.at \in K!Consents
        BY <2>0 DEF StopOps
  <2>2. CASE ~K!Authorized(op.peer)
        BY <1>10, <2>2 DEF K!RecordConsent, PeersTypeInv
  <2>3. CASE K!Authorized(op.peer)
    <3>1. op.peer \in K!Peers
          BY <2>1 DEF StopOps, K!Consents
    <3>2. stops' \subseteq StopOps
          BY <1>10, <1>t, <2>1, <2>3 DEF K!RecordConsent, K!AfterRecord
    <3>3. /\ kmPast' \in KmPast
          /\ kmPast'.approved = IF op.at = "both" THEN kmPast.approved \cup {op.peer}
                                ELSE kmPast.approved \ {op.peer}
      <4>1. kmPast' = [kmPast EXCEPT !.approved = IF op.at = "both" THEN kmPast.approved \cup {op.peer}
                                                  ELSE kmPast.approved \ {op.peer}]
            BY <1>10, <2>3 DEF K!RecordConsent
      <4>2. kmPast.approved \cup {op.peer} \subseteq K!Peers /\ kmPast.approved \ {op.peer} \subseteq K!Peers
            BY <1>t, <3>1 DEF KmPast
      <4> QED BY <1>t, <4>1, <4>2 DEF KmPast
    <3>4. /\ DOMAIN approvals' = DOMAIN approvals \cup {op.peer}
          /\ approvals'[op.peer] = op.at
          /\ \A q \in DOMAIN approvals : q # op.peer => approvals'[q] = approvals[q]
          BY <1>10, <2>3 DEF K!RecordConsent, K!ApprovalKey
    <3>5. /\ DOMAIN approvals' \subseteq K!Peers
          /\ \A q \in DOMAIN approvals' : approvals'[q] \in K!Consents
          BY <2>1, <3>1, <3>4 DEF PeersTypeInv
    <3>6. \A q \in DOMAIN approvals' : approvals'[q] = "both" => q \in kmPast'.approved
          BY <2>1, <3>3, <3>4 DEF PeersTypeInv, K!Consents
    <3> QED BY <1>10, <3>2, <3>3, <3>5, <3>6 DEF K!RecordConsent, PeersTypeInv
  <2> QED BY <2>2, <2>3
<1>11. CASE UNCHANGED K!vars
      BY <1>11 DEF K!vars, PeersTypeInv
<1> QED BY <1>1, <1>2, <1>3, <1>4, <1>5, <1>6, <1>7, <1>8, <1>9, <1>10, <1>11
        DEF K!Next, K!StartSteps, K!TaskSteps, K!StopSteps

-----------------------------------------------------------------------------
(* The numbers of the sessions.                                            *)

(* Nothing but a new number, or what already means the same session.       *)
LEMMA NumbersKept ==
  ASSUME PeersTypeInv, SessionsAreNumbered, kmPast'.created = kmPast.created,
         \/ active' = active \/ active' = K!None
         \/ /\ active # K!None /\ active'.id = active.id /\ active'.peer = active.peer
            /\ \E t \in tasks : t.id = active.id,
         starts' \subseteq starts,
         \A t \in tasks' : \E u \in tasks : t.id = u.id /\ t.peer = u.peer,
         \A op \in stops' :
           \/ op.id = 0
           \/ \E q \in stops : op.id = q.id /\ op.peer = q.peer
           \/ active # K!None /\ op.id = active.id /\ op.peer = active.peer
  PROVE  SessionsAreNumbered'
<1>t. /\ kmPast.created \in Nat /\ active.id \in Nat /\ (active' # K!None => active # K!None)
      /\ \A s \in starts : s.id \in Nat \ {0}
      /\ active # K!None => active.id # 0
      BY DEF PeersTypeInv, KmPast, Active, K!None, Starting
<1>1. /\ \A s \in starts' : s.id \in 1.. kmPast.created
      /\ \A s, r \in starts' : s.id = r.id => s = r
      BY DEF SessionsAreNumbered, Created
<1>2. /\ \A t \in tasks' : t.id \in 1.. kmPast.created
      /\ \A s \in starts', t \in tasks' : s.id # t.id
      BY DEF SessionsAreNumbered, Created
<1>3. active' # K!None => /\ active'.id = active.id /\ active'.peer = active.peer
                          /\ active'.id \in 1.. kmPast.created
      BY <1>t DEF SessionsAreNumbered, Created
<1>4. \A op \in stops' : op.id \in 0.. kmPast.created
  <2>1. ASSUME NEW op \in stops' PROVE op.id \in 0.. kmPast.created
    <3>1. CASE op.id = 0
          BY <1>t, <3>1
    <3>2. CASE \E q \in stops : op.id = q.id /\ op.peer = q.peer
          BY <3>2 DEF SessionsAreNumbered, Created
    <3>3. CASE active # K!None /\ op.id = active.id /\ op.peer = active.peer
          BY <1>t, <3>3 DEF SessionsAreNumbered, Created
    <3> QED BY <3>1, <3>2, <3>3
  <2> QED BY <2>1
<1>5. \A t \in tasks' : active' # K!None /\ active'.id = t.id => active'.peer = t.peer
      BY <1>3, <1>t DEF SessionsAreNumbered
<1>6. \A op \in stops' : active' # K!None /\ op.id = active'.id => op.peer = active'.peer
      BY <1>3, <1>t DEF SessionsAreNumbered
<1>7. ASSUME NEW s \in starts'
      PROVE  /\ s.at = "bind" => active' = K!None \/ active'.id # s.id
             /\ \A op \in stops' : op.id = s.id => op.peer = s.peer
             /\ active' # K!None /\ active'.id = s.id
                  => active'.peer = s.peer /\ ~active'.connected
  <2>1. /\ s \in starts
        /\ s.at = "bind" => active = K!None \/ active.id # s.id
        /\ \A op \in stops : op.id = s.id => op.peer = s.peer
        /\ active # K!None /\ active.id = s.id => active.peer = s.peer /\ ~active.connected
        /\ \A t \in tasks : s.id # t.id
        BY <1>7 DEF SessionsAreNumbered
  <2>2. \A op \in stops' : op.id = s.id => op.peer = s.peer
        BY <1>t, <2>1
  <2>3. active' # K!None /\ active'.id = s.id => active'.peer = s.peer /\ ~active'.connected
        BY <1>3, <1>t, <2>1
  <2> QED BY <1>3, <1>t, <2>1, <2>2, <2>3
<1> QED BY <1>1, <1>2, <1>3, <1>4, <1>5, <1>6, <1>7 DEF SessionsAreNumbered, Created

(* A number is given out once. *)
LEMMA NumbersStep == PeersTypeInv /\ SessionsAreNumbered /\ [K!Next]_(K!vars) => SessionsAreNumbered'
<1> SUFFICES ASSUME PeersTypeInv, SessionsAreNumbered, [K!Next]_(K!vars) PROVE SessionsAreNumbered'
    OBVIOUS
<1>t. /\ kmPast \in KmPast /\ kmPast.created \in Nat /\ active.id \in Nat
      /\ active \in Active \cup {K!None} /\ starts \subseteq Starting /\ tasks \subseteq Task
      /\ stops \subseteq StopOps
      /\ \A t \in tasks : t.id \in Nat /\ t.peer \in K!Peers
      BY DEF PeersTypeInv, KmPast, Active, K!None, Task
<1>s. \A t \in tasks : \E u \in tasks : t.id = u.id /\ t.peer = u.peer
      OBVIOUS
<1>o. \A op \in stops : \E q \in stops : op.id = q.id /\ op.peer = q.peer
      OBVIOUS
<1>1. ASSUME NEW p \in K!Peers, NEW c \in Conns, K!StartChecks(p, c)
      PROVE  SessionsAreNumbered'
  <2> DEFINE new == [id |-> kmPast.created + 1, peer |-> p, conn |-> c, at |-> "bind"]
  <2>1. /\ starts' = starts \cup {new} /\ kmPast'.created = kmPast.created + 1
        /\ UNCHANGED <<active, tasks, stops>>
    <3>1. kmPast' = [kmPast EXCEPT !.created = kmPast.created + 1]
          BY <1>1 DEF K!StartChecks
    <3> QED BY <1>1, <1>t, <3>1 DEF K!StartChecks, KmPast
  <2>2. new.id = kmPast.created + 1 /\ new.at = "bind"
        OBVIOUS
  <2> HIDE DEF new
  <2>3. \A n \in 0.. kmPast.created : n # kmPast.created + 1 /\ n \in 0.. kmPast.created + 1
        BY <1>t
  <2>4. \A n \in 1.. kmPast.created : n # kmPast.created + 1 /\ n \in 1.. kmPast.created + 1
        BY <1>t
  <2>5. kmPast.created + 1 \in 1.. kmPast.created + 1
        BY <1>t
  <2>6. \A s \in starts' : s \in starts \/ s = new
        BY <2>1
  <2> QED BY <2>1, <2>2, <2>3, <2>4, <2>5, <2>6 DEF SessionsAreNumbered, Created
<1>2. ASSUME NEW s \in starts, K!StartTakesSlot(s)
      PROVE  SessionsAreNumbered'
  <2>1. s.at = "bind" /\ UNCHANGED <<tasks, stops, kmPast>>
        BY <1>2 DEF K!StartTakesSlot
  <2>2. CASE active # K!None
    <3>1. active' = active /\ starts' \subseteq starts
          BY <1>2, <2>2 DEF K!StartTakesSlot
    <3> QED BY <1>s, <1>o, <2>1, <3>1, NumbersKept
  <2>3. CASE active = K!None
    <3> DEFINE new == [s EXCEPT !.at = "slot"]
    <3>1. /\ active' = [id |-> s.id, peer |-> s.peer, conn |-> s.conn, connected |-> FALSE]
          /\ starts' = (starts \ {s}) \cup {new}
          BY <1>2, <2>3 DEF K!StartTakesSlot
    <3>2. /\ active'.id = s.id /\ active'.peer = s.peer /\ active'.connected = FALSE
          /\ active' # K!None
          BY <1>t, <3>1 DEF Starting, K!None
    <3>3. new.id = s.id /\ new.peer = s.peer /\ new.at = "slot"
          BY <1>t DEF Starting
    <3> HIDE DEF new
    <3>4. \A r \in starts' : r = new \/ (r \in starts /\ r.id # s.id)
          BY <3>1 DEF SessionsAreNumbered
    <3> QED BY <2>1, <3>2, <3>3, <3>4 DEF SessionsAreNumbered, Created
  <2> QED BY <2>2, <2>3
<1>3. ASSUME NEW s \in starts, K!StartSpawns(s)
      PROVE  SessionsAreNumbered'
  <2>1. s.id \in Nat /\ s.peer \in K!Peers /\ s \in Starting
        BY <1>t DEF Starting
  <2>2. starts' = starts \ {s} /\ UNCHANGED stops
        BY <1>3 DEF K!StartSpawns
  <2>3. CASE ~K!Authorized(s.peer)
    <3>1. K!StopSession(s.id, TRUE, s.peer) /\ tasks' = tasks
          BY <1>3, <2>3 DEF K!StartSpawns
    <3>2. kmPast'.created = kmPast.created /\ (active' = active \/ active' = K!None)
          BY <2>1, <3>1, StopsByNumber
    <3> QED BY <1>s, <1>o, <2>2, <3>1, <3>2, NumbersKept
  <2>4. CASE K!Authorized(s.peer)
    <3> DEFINE new == [id |-> s.id, peer |-> s.peer, at |-> "accept"]
    <3>1. tasks' = tasks \cup {new} /\ UNCHANGED <<active, kmPast>>
          BY <1>3, <2>4 DEF K!StartSpawns
    <3>2. new.id = s.id /\ new.peer = s.peer
          OBVIOUS
    <3> HIDE DEF new
    <3>3. \A r \in starts' : r \in starts /\ r.id # s.id
          BY <2>2 DEF SessionsAreNumbered
    <3>4. \A t \in tasks' : t \in tasks \/ t = new
          BY <3>1
    <3> QED BY <2>2, <3>1, <3>2, <3>3, <3>4 DEF SessionsAreNumbered, Created
  <2> QED BY <2>3, <2>4
<1>4. ASSUME NEW t \in tasks,
             K!TaskProves(t) \/ K!TaskConnects(t) \/ K!TaskTicks(t) \/ K!TaskFails(t)
      PROVE  SessionsAreNumbered'
  <2>1. \A at : [t EXCEPT !.at = at].id = t.id /\ [t EXCEPT !.at = at].peer = t.peer
        BY <1>t DEF Task
  <2>2. CASE K!TaskEnds(t)
    <3>1. /\ K!StopSession(t.id, TRUE, t.peer) /\ tasks' \subseteq tasks
          /\ UNCHANGED <<starts, stops>>
          BY <2>2 DEF K!TaskEnds
    <3>2. kmPast'.created = kmPast.created /\ (active' = active \/ active' = K!None)
          BY <1>t, <3>1, StopsByNumber
    <3> QED BY <1>s, <1>o, <3>1, <3>2, NumbersKept
  <2>3. CASE /\ tasks' = (tasks \ {t}) \cup {[t EXCEPT !.at = "proved"]}
             /\ UNCHANGED <<gens, made, approvals, active, starts, stops, kmPast>>
    <3>1. \A u \in tasks' : \E w \in tasks : u.id = w.id /\ u.peer = w.peer
          BY <2>1, <2>3
    <3> QED BY <1>o, <2>3, <3>1, NumbersKept
  <2>4. CASE /\ active # K!None /\ active.id = t.id
             /\ active' = [active EXCEPT !.connected = TRUE]
             /\ tasks' = (tasks \ {t}) \cup {[t EXCEPT !.at = "loop"]}
             /\ UNCHANGED <<gens, made, approvals, starts, stops, kmPast>>
    <3>1. active'.id = active.id /\ active'.peer = active.peer
          BY <1>t, <2>4 DEF Active
    <3>2. \A u \in tasks' : \E w \in tasks : u.id = w.id /\ u.peer = w.peer
          BY <2>1, <2>4
    <3> QED BY <1>o, <2>4, <3>1, <3>2, NumbersKept
  <2> QED BY <1>4, <2>2, <2>3, <2>4, TaskEndings
<1>5. ASSUME UNCHANGED <<active, starts, tasks>>, kmPast'.created = kmPast.created,
             \A op \in stops' :
               \/ op.id = 0
               \/ \E q \in stops : op.id = q.id /\ op.peer = q.peer
               \/ active # K!None /\ op.id = active.id /\ op.peer = active.peer
      PROVE  SessionsAreNumbered'
      BY <1>5, <1>s, NumbersKept
<1>6. ASSUME NEW d \in KmDevices, K!Revoke(d) \/ K!PairAgain(d)
      PROVE  SessionsAreNumbered'
      BY <1>5, <1>6, <1>t DEF K!Revoke, K!PairAgain, K!Enter, K!StopOp, KmPast
<1>7. ASSUME NEW d \in KmDevices, NEW value \in K!Consents, K!LookUp(d, value)
      PROVE  SessionsAreNumbered'
      BY <1>5, <1>7, <1>t DEF K!LookUp, K!Enter, KmPast
<1>8. CASE (\E p \in K!Peers : K!StopPeer(p)) \/ K!StopAll
           \/ \E d \in KmDevices, c \in Conns : K!ControlClosed(d, c)
  <2>1. active = K!None => active.id = 0
        BY DEF K!None
  <2> QED BY <1>5, <1>8, <2>1 DEF K!StopPeer, K!StopOp, K!StopAll, K!ControlClosed, K!Enter
<1>9. ASSUME NEW op \in stops, K!ReadActive(op) \/ K!ExpireConsent(op) \/ K!ClearConsents(op)
      PROVE  SessionsAreNumbered'
  <2>1. CASE K!ReadActive(op)
    <3>1. PICK n \in Nat : /\ n = IF active # K!None /\ active.peer = op.peer THEN active.id ELSE 0
                           /\ stops' = (stops \ {op}) \cup {[op EXCEPT !.at = "stop", !.id = n]}
          BY <1>t, <2>1 DEF K!ReadActive
    <3>2. [op EXCEPT !.at = "stop", !.id = n].id = n /\ [op EXCEPT !.at = "stop", !.id = n].peer = op.peer
          BY <1>t DEF StopOps
    <3>3. \A q \in stops' : q \in stops \/ (q.id = n /\ q.peer = op.peer)
          BY <3>1, <3>2
    <3>4. \A q \in stops' :
            \/ q.id = 0
            \/ \E r \in stops : q.id = r.id /\ q.peer = r.peer
            \/ active # K!None /\ q.id = active.id /\ q.peer = active.peer
          BY <3>1, <3>3
    <3> QED BY <1>5, <2>1, <3>4 DEF K!ReadActive
  <2>2. CASE K!ExpireConsent(op) \/ K!ClearConsents(op)
    <3>1. stops' \subseteq stops
          BY <2>2 DEF K!ExpireConsent, K!ClearConsents
    <3> QED BY <1>5, <2>2, <3>1 DEF K!ExpireConsent, K!ClearConsents
  <2> QED BY <1>9, <2>1, <2>2
<1>10. ASSUME NEW op \in stops, K!RecordConsent(op)
       PROVE  SessionsAreNumbered'
  <2>1. [op EXCEPT !.at = "read"].id = op.id /\ [op EXCEPT !.at = "read"].peer = op.peer
        BY <1>t DEF StopOps
  <2>2. kmPast'.created = kmPast.created
        BY <1>10, <1>t DEF K!RecordConsent, KmPast
  <2> QED BY <1>5, <1>10, <2>1, <2>2 DEF K!RecordConsent, K!AfterRecord
<1>11. ASSUME NEW op \in stops, K!StopById(op) \/ K!StopAllStops(op) \/ K!ClosedStops(op)
       PROVE  SessionsAreNumbered'
  <2>1. \A at : [op EXCEPT !.at = at].id = op.id /\ [op EXCEPT !.at = at].peer = op.peer
        BY <1>t DEF StopOps
  <2>2. UNCHANGED <<starts, tasks>>
        BY <1>11 DEF K!StopById, K!StopAllStops, K!ClosedStops
  <2>3. \A q \in stops' : \E r \in stops : q.id = r.id /\ q.peer = r.peer
    <3>1. \A q \in stops' : \/ q \in stops \/ q = [op EXCEPT !.at = "expire"]
                             \/ q = [op EXCEPT !.at = "clear"]
          BY <1>11 DEF K!StopById, K!StopAllStops, K!ClosedStops
    <3> QED BY <2>1, <3>1
  <2>4. op.id \in Nat /\ op.expire \in BOOLEAN /\ op.peer \in K!Peers \cup {<<>>}
        BY <1>t DEF StopOps
  <2>5. kmPast'.created = kmPast.created /\ (active' = active \/ active' = K!None)
    <3>1. \/ UNCHANGED <<active, approvals, kmPast>>
          \/ K!StopSession(op.id, op.expire, op.peer) \/ K!StopSession(op.id, TRUE, op.peer)
          BY <1>11 DEF K!StopById, K!StopAllStops, K!ClosedStops
    <3> QED BY <2>4, <3>1, StopsByNumber
  <2> QED BY <1>s, <2>2, <2>3, <2>5, NumbersKept
<1>12. CASE UNCHANGED K!vars
       BY <1>5, <1>12 DEF K!vars
<1> QED BY <1>1, <1>2, <1>3, <1>4, <1>6, <1>7, <1>8, <1>9, <1>10, <1>11, <1>12
        DEF K!Next, K!StartSteps, K!TaskSteps, K!StopSteps
-----------------------------------------------------------------------------
(* What a step does to the slot.                                           *)

(* The start that takes the empty slot. *)
Takes(s) ==
  /\ active = K!None /\ s.at = "bind"
  /\ active' # K!None /\ active'.id = s.id /\ active'.peer = s.peer /\ active'.connected = FALSE
  /\ [s EXCEPT !.at = "slot"] \in starts'
  /\ UNCHANGED <<gens, made, approvals, tasks, stops, kmPast>>

(* The task whose session connects. *)
Connects(t) ==
  /\ active # K!None /\ active.id = t.id /\ K!Approved(t.peer)
  /\ active' = [active EXCEPT !.connected = TRUE]
  /\ tasks' = (tasks \ {t}) \cup {[t EXCEPT !.at = "loop"]}
  /\ UNCHANGED <<gens, made, approvals, starts, stops, kmPast>>

(* The slot is kept, emptied, taken by a start or connected by its task.   *)
LEMMA SlotSteps ==
  ASSUME PeersTypeInv, [K!Next]_(K!vars), active' # K!None
  PROVE  \/ active' = active
         \/ \E s \in starts : Takes(s)
         \/ \E t \in tasks : Connects(t)
<1>1. CASE \E s \in starts : K!StartTakesSlot(s)
  <2>1. PICK s \in starts : K!StartTakesSlot(s)
        BY <1>1
  <2>2. s \in Starting
        BY DEF PeersTypeInv
  <2>3. CASE active = K!None
    <3>1. /\ active' = [id |-> s.id, peer |-> s.peer, conn |-> s.conn, connected |-> FALSE]
          /\ starts' = (starts \ {s}) \cup {[s EXCEPT !.at = "slot"]}
          /\ s.at = "bind" /\ UNCHANGED <<gens, made, approvals, tasks, stops, kmPast>>
          BY <2>1, <2>3 DEF K!StartTakesSlot
    <3> QED BY <2>3, <3>1 DEF Takes
  <2>4. CASE active # K!None
        BY <2>1, <2>4 DEF K!StartTakesSlot
  <2> QED BY <2>3, <2>4
<1>2. CASE \E s \in starts : K!StartSpawns(s)
      BY <1>2 DEF K!StartSpawns, K!StopSession
<1>3. CASE K!TaskSteps
      BY <1>3, TaskEndings DEF K!TaskSteps, K!TaskEnds, K!StopSession, Connects
<1>4. CASE K!StopSteps
      BY <1>4 DEF K!StopSteps, K!ReadActive, K!StopById, K!ExpireConsent, K!RecordConsent, K!StopAllStops,
         K!ClearConsents, K!ClosedStops, K!StopSession
<1>5. CASE \/ \E p \in K!Peers, c \in Conns : K!StartChecks(p, c)
           \/ K!StopAll
           \/ \E d \in KmDevices : K!Revoke(d) \/ K!PairAgain(d)
           \/ \E p \in K!Peers : K!StopPeer(p)
           \/ \E d \in KmDevices, value \in K!Consents : K!LookUp(d, value)
           \/ \E d \in KmDevices, c \in Conns : K!ControlClosed(d, c)
           \/ UNCHANGED K!vars
      BY <1>5 DEF K!StartChecks, K!StopAll, K!Revoke, K!PairAgain, K!StopPeer, K!LookUp, K!ControlClosed, K!vars
<1> QED BY <1>1, <1>2, <1>3, <1>4, <1>5 DEF K!Next, K!StartSteps

(* The same session, however far it has come. *)
SameSession == active # K!None /\ active' # K!None /\ active'.id = active.id /\ active'.peer = active.peer

(* A session that is not new to the slot is the one that held it. *)
LEMMA SameOrTaken ==
  ASSUME PeersTypeInv, [K!Next]_(K!vars), active' # K!None
  PROVE  SameSession \/ \E s \in starts : Takes(s)
<1>1. CASE active' = active
      BY <1>1 DEF SameSession
<1>2. CASE \E t \in tasks : Connects(t)
  <2>1. active \in Active /\ active' = [active EXCEPT !.connected = TRUE]
        BY <1>2 DEF PeersTypeInv, Connects
  <2> QED BY <1>2, <2>1 DEF Active, SameSession, Connects
<1> QED BY <1>1, <1>2, SlotSteps

(* A stop that is under way for a session arrives: as long as the session  *)
(* holds the slot, the stop is still under way.                            *)
LEMMA ReachesStay ==
  ASSUME PeersTypeInv, [K!Next]_(K!vars), SameSession, NEW op \in stops, Reaches(op)
  PROVE  \E q \in stops' : Reaches(q)'
<1>a. /\ op.peer = active'.peer
      /\ op.at = "read" \/ (op.at = "stop" /\ op.id = active'.id)
      BY DEF Reaches, SameSession
<1>b. ASSUME op \in stops' PROVE \E q \in stops' : Reaches(q)'
      BY <1>a, <1>b DEF Reaches
<1>c. op \in StopOps /\ op.id \in Nat /\ op.expire \in BOOLEAN /\ op.peer \in K!Peers \cup {<<>>}
      BY DEF PeersTypeInv, StopOps
<1>1. CASE K!ReadActive(op)
  <2> DEFINE q == [op EXCEPT !.at = "stop",
                             !.id = IF active # K!None /\ active.peer = op.peer THEN active.id ELSE 0]
  <2>1. q \in stops'
        BY <1>1 DEF K!ReadActive
  <2>2. q.peer = op.peer /\ q.at = "stop" /\ q.id = active'.id
        BY <1>a, <1>c DEF StopOps, SameSession
  <2>3. PICK r : r = q
        OBVIOUS
  <2>4. r \in stops' /\ r.peer = active'.peer /\ r.at = "stop" /\ r.id = active'.id
        BY <1>a, <2>1, <2>2, <2>3
  <2> QED BY <2>4 DEF Reaches
<1>2. CASE K!StopById(op)
  <2>1. op.at = "stop" /\ op.id = active.id
        BY <1>2, <1>a DEF K!StopById, SameSession
  <2>2. op.id # 0
        BY <2>1 DEF PeersTypeInv, Active, SameSession
  <2>3. K!StopSession(op.id, op.expire, op.peer)
        BY <1>2, <2>2 DEF K!StopById
  <2> QED BY <1>c, <2>1, <2>3, StopsByNumber DEF SameSession
<1>3. CASE \E o \in stops : \/ o # op /\ (\/ K!ReadActive(o) \/ K!StopById(o) \/ K!ExpireConsent(o)
                                        \/ K!RecordConsent(o) \/ K!StopAllStops(o)
                                        \/ K!ClearConsents(o) \/ K!ClosedStops(o))
      BY <1>3, <1>b DEF K!ReadActive, K!StopById, K!ExpireConsent, K!RecordConsent, K!StopAllStops,
         K!ClearConsents, K!ClosedStops
<1>4. CASE \/ K!ExpireConsent(op) \/ K!RecordConsent(op) \/ K!StopAllStops(op) \/ K!ClearConsents(op)
           \/ K!ClosedStops(op)
      BY <1>4, <1>a DEF K!ExpireConsent, K!RecordConsent, K!StopAllStops, K!ClearConsents, K!ClosedStops, K!Consents
<1>5. CASE \/ \E p \in K!Peers, c \in Conns : K!StartChecks(p, c)
           \/ K!StartSteps \/ K!TaskSteps \/ K!StopAll
           \/ \E d \in KmDevices : K!Revoke(d) \/ K!PairAgain(d)
           \/ \E p \in K!Peers : K!StopPeer(p)
           \/ \E d \in KmDevices, value \in K!Consents : K!LookUp(d, value)
           \/ \E d \in KmDevices, c \in Conns : K!ControlClosed(d, c)
           \/ UNCHANGED K!vars
      BY <1>5, <1>b DEF K!StartChecks, K!StartSteps, K!StartTakesSlot, K!StartSpawns, K!TaskSteps,
         K!TaskProves, K!TaskConnects, K!TaskTicks, K!TaskFails, K!TaskEnds, K!StopAll, K!Revoke, K!PairAgain,
         K!StopPeer, K!LookUp, K!ControlClosed, K!Enter, K!vars
<1> QED BY <1>1, <1>2, <1>3, <1>4, <1>5 DEF K!Next, K!StopSteps
-----------------------------------------------------------------------------
(* The stops that are owed.                                                *)

(* A step leaves an approval alone, drops it, gives both directions, or    *)
(* records the withdrawal whose stop is under way from then on.            *)
LEMMA ApprovalSteps ==
  ASSUME PeersTypeInv, [K!Next]_(K!vars), NEW p \in DOMAIN approvals', approvals'[p] # "both"
  PROVE  \/ p \in DOMAIN approvals /\ approvals'[p] = approvals[p]
         \/ active' = active /\ \E q \in stops' : q.peer = p /\ q.at = "read"
<1>1. CASE \E op \in stops : K!RecordConsent(op)
  <2>1. PICK op \in stops : K!RecordConsent(op)
        BY <1>1
  <2>2. CASE K!Authorized(op.peer) /\ p = op.peer
    <3>1. approvals'[p] = op.at
          BY <2>1, <2>2 DEF K!RecordConsent, K!ApprovalKey
    <3>2. op.at = "partial"
          BY <2>1, <3>1 DEF K!RecordConsent, K!Consents
    <3>3. [op EXCEPT !.at = "read"] \in stops' /\ active' = active
          BY <2>1, <2>2, <3>2 DEF K!RecordConsent, K!AfterRecord
    <3>4. [op EXCEPT !.at = "read"].peer = p /\ [op EXCEPT !.at = "read"].at = "read"
          BY <2>2 DEF PeersTypeInv, StopOps
    <3> QED BY <3>3, <3>4
  <2>3. CASE ~(K!Authorized(op.peer) /\ p = op.peer)
        BY <2>1, <2>3 DEF K!RecordConsent, K!ApprovalKey
  <2> QED BY <2>2, <2>3
<1>2. CASE \E s \in starts : K!StartSpawns(s)
      BY <1>2 DEF K!StartSpawns, K!StopSession, K!Without
<1>3. CASE K!TaskSteps
      BY <1>3, TaskEndings DEF K!TaskSteps, K!TaskEnds, K!StopSession, K!Without
<1>4. CASE \E op \in stops : \/ K!ReadActive(op) \/ K!StopById(op) \/ K!ExpireConsent(op)
                             \/ K!StopAllStops(op) \/ K!ClearConsents(op) \/ K!ClosedStops(op)
  <2>1. PICK op \in stops : \/ K!ReadActive(op) \/ K!StopById(op) \/ K!ExpireConsent(op)
                            \/ K!StopAllStops(op) \/ K!ClearConsents(op) \/ K!ClosedStops(op)
        BY <1>4
  <2>2. CASE K!ClearConsents(op)
        BY <2>2 DEF K!ClearConsents
  <2> QED BY <2>1, <2>2 DEF K!ReadActive, K!StopById, K!ExpireConsent, K!StopAllStops, K!ClosedStops,
          K!StopSession, K!Without
<1>5. CASE \/ \E q \in K!Peers, c \in Conns : K!StartChecks(q, c)
           \/ \E s \in starts : K!StartTakesSlot(s)
           \/ K!StopAll
           \/ \E d \in KmDevices : K!Revoke(d) \/ K!PairAgain(d)
           \/ \E q \in K!Peers : K!StopPeer(q)
           \/ \E d \in KmDevices, value \in K!Consents : K!LookUp(d, value)
           \/ \E d \in KmDevices, c \in Conns : K!ControlClosed(d, c)
           \/ UNCHANGED K!vars
      BY <1>5 DEF K!StartChecks, K!StartTakesSlot, K!StopAll, K!Revoke, K!PairAgain, K!StopPeer, K!LookUp,
         K!ControlClosed, K!vars
<1> QED BY <1>1, <1>2, <1>3, <1>4, <1>5 DEF K!Next, K!StartSteps, K!StopSteps

(* A withdrawal comes before the key proof, which then fails, or stops the *)
(* session that it finds connected.                                        *)
LEMMA WithdrawalStep ==
  PeersTypeInv /\ SessionsAreNumbered /\ WithdrawalReaches /\ [K!Next]_(K!vars) => WithdrawalReaches'
<1> SUFFICES ASSUME PeersTypeInv, SessionsAreNumbered, WithdrawalReaches, [K!Next]_(K!vars),
                    active' # K!None, active'.connected, active'.peer \in DOMAIN approvals',
                    approvals'[active'.peer] # "both"
             PROVE  \E op \in stops' : Reaches(op)'
    BY DEF WithdrawalReaches
<1>1. CASE active' = active
  <2>1. CASE active.peer \in DOMAIN approvals /\ approvals'[active.peer] = approvals[active.peer]
    <3>1. PICK op \in stops : Reaches(op)
          BY <1>1, <2>1 DEF WithdrawalReaches
    <3> QED BY <1>1, <3>1, ReachesStay DEF SameSession
  <2>2. CASE \E q \in stops' : q.peer = active'.peer /\ q.at = "read"
        BY <2>2 DEF Reaches
  <2> QED BY <1>1, <2>1, <2>2, ApprovalSteps
<1>2. CASE \E s \in starts : Takes(s)
      BY <1>2 DEF Takes
<1>3. CASE \E t \in tasks : Connects(t)
  <2>1. PICK t \in tasks : Connects(t)
        BY <1>3
  <2>2. active'.peer = active.peer /\ active.peer = t.peer
        BY <2>1 DEF PeersTypeInv, Active, SessionsAreNumbered, Connects
  <2> QED BY <2>1, <2>2 DEF Connects, K!Approved, K!ApprovalKey
<1> QED BY <1>1, <1>2, <1>3, SlotSteps

(* A revoked generation is never the current one again. *)
LEMMA RevokedStay ==
  ASSUME PeersTypeInv, RevocationReaches, [K!Next]_(K!vars)
  PROVE  \A p \in kmPast'.revoked : p[2] <= made'[p[1]] /\ ~K!Authorized(p)'
<1> SUFFICES \A p \in kmPast'.revoked : p[2] <= made'[p[1]] /\ gens'[p[1]] # p[2]
    BY DEF K!Authorized
<1>t. /\ gens \in [KmDevices -> Nat] /\ made \in [KmDevices -> Nat]
      /\ \A p \in kmPast.revoked : p \in K!Peers /\ p[1] \in KmDevices /\ p[2] \in Nat \ {0}
      /\ kmPast \in KmPast
      /\ \A d \in KmDevices : gens[d] <= made[d]
      BY DEF PeersTypeInv, KmPast, K!Peers
<1>o. \A p \in kmPast.revoked : p[2] <= made[p[1]] /\ gens[p[1]] # p[2]
      BY DEF RevocationReaches, K!Authorized
<1>1. ASSUME kmPast'.revoked = kmPast.revoked, UNCHANGED <<gens, made>>
      PROVE  \A p \in kmPast'.revoked : p[2] <= made'[p[1]] /\ gens'[p[1]] # p[2]
      BY <1>1, <1>o
<1>2. ASSUME NEW d \in KmDevices, K!Revoke(d)
      PROVE  \A p \in kmPast'.revoked : p[2] <= made'[p[1]] /\ gens'[p[1]] # p[2]
  <2>1. /\ kmPast'.revoked = kmPast.revoked \cup {<<d, gens[d]>>} /\ made' = made
        /\ gens' = [gens EXCEPT ![d] = 0] /\ gens[d] # 0
        BY <1>2, <1>t DEF K!Revoke, KmPast
  <2> QED BY <1>o, <1>t, <2>1
<1>3. ASSUME NEW d \in KmDevices, K!PairAgain(d)
      PROVE  \A p \in kmPast'.revoked : p[2] <= made'[p[1]] /\ gens'[p[1]] # p[2]
  <2>1. /\ kmPast' = kmPast /\ made' = [made EXCEPT ![d] = made[d] + 1]
        /\ gens' = [gens EXCEPT ![d] = made[d] + 1]
        BY <1>3, <1>t DEF K!PairAgain
  <2>2. ASSUME NEW p \in kmPast.revoked
        PROVE  p[2] <= made'[p[1]] /\ gens'[p[1]] # p[2]
    <3>1. p[1] \in KmDevices /\ p[2] \in Nat /\ made[p[1]] \in Nat /\ p[2] <= made[p[1]] /\ gens[p[1]] # p[2]
          BY <1>o, <1>t
    <3>2. CASE p[1] = d
          BY <1>t, <2>1, <3>1, <3>2
    <3>3. CASE p[1] # d
          BY <1>t, <2>1, <3>1, <3>3
    <3> QED BY <3>2, <3>3
  <2> QED BY <2>1, <2>2
<1>4. CASE \/ \E p \in K!Peers, c \in Conns : K!StartChecks(p, c)
           \/ \E d \in KmDevices, value \in K!Consents : K!LookUp(d, value)
           \/ \E op \in stops : K!RecordConsent(op)
      BY <1>1, <1>4, <1>t DEF K!StartChecks, K!LookUp, K!RecordConsent, KmPast
<1>5. ASSUME NEW id, NEW expire, NEW target, K!StopSession(id, expire, target), UNCHANGED <<gens, made>>
      PROVE  \A p \in kmPast'.revoked : p[2] <= made'[p[1]] /\ gens'[p[1]] # p[2]
      BY <1>1, <1>5, <1>t DEF K!StopSession, KmPast
<1>6. CASE K!TaskSteps \/ \E s \in starts : K!StartSpawns(s)
      BY <1>1, <1>5, <1>6, TaskEndings DEF K!TaskSteps, K!TaskEnds, K!StartSpawns
<1>7. CASE \E op \in stops : K!StopById(op) \/ K!StopAllStops(op) \/ K!ClosedStops(op)
      BY <1>1, <1>5, <1>7 DEF K!StopById, K!StopAllStops, K!ClosedStops
<1>8. CASE \/ \E s \in starts : K!StartTakesSlot(s)
           \/ K!StopAll
           \/ \E op \in stops : K!ReadActive(op) \/ K!ExpireConsent(op) \/ K!ClearConsents(op)
           \/ \E p \in K!Peers : K!StopPeer(p)
           \/ \E d \in KmDevices, c \in Conns : K!ControlClosed(d, c)
           \/ UNCHANGED K!vars
      BY <1>1, <1>8 DEF K!StartTakesSlot, K!StopAll, K!ReadActive, K!ExpireConsent, K!ClearConsents,
         K!StopPeer, K!ControlClosed, K!vars
<1> QED BY <1>2, <1>3, <1>4, <1>6, <1>7, <1>8
        DEF K!Next, K!StartSteps, K!StopSteps

(* Only Revoke adds to the revoked pairings, and it brings a stop. *)
LEMMA RevokedGrows ==
  ASSUME PeersTypeInv, [K!Next]_(K!vars), NEW p \in kmPast'.revoked, p \notin kmPast.revoked
  PROVE  \E d \in KmDevices : K!Revoke(d) /\ p = <<d, gens[d]>>
<1>t. kmPast \in KmPast
      BY DEF PeersTypeInv
<1>1. kmPast'.revoked # kmPast.revoked
      OBVIOUS
<1>2. ASSUME NEW id, NEW expire, NEW target, K!StopSession(id, expire, target) PROVE FALSE
      BY <1>1, <1>2, <1>t DEF K!StopSession, KmPast
<1>3. CASE K!TaskSteps \/ \E s \in starts : K!StartSpawns(s)
      BY <1>1, <1>2, <1>3, TaskEndings DEF K!TaskSteps, K!TaskEnds, K!StartSpawns
<1>4. CASE \E op \in stops : K!StopById(op) \/ K!StopAllStops(op) \/ K!ClosedStops(op)
      BY <1>1, <1>2, <1>4 DEF K!StopById, K!StopAllStops, K!ClosedStops
<1>5. CASE \/ \E q \in K!Peers, c \in Conns : K!StartChecks(q, c)
           \/ \E d \in KmDevices, value \in K!Consents : K!LookUp(d, value)
           \/ \E op \in stops : K!RecordConsent(op)
      BY <1>1, <1>5, <1>t DEF K!StartChecks, K!LookUp, K!RecordConsent, KmPast
<1>6. CASE \/ \E s \in starts : K!StartTakesSlot(s)
           \/ K!StopAll
           \/ \E op \in stops : K!ReadActive(op) \/ K!ExpireConsent(op) \/ K!ClearConsents(op)
           \/ \E q \in K!Peers : K!StopPeer(q)
           \/ \E d \in KmDevices : K!PairAgain(d)
           \/ \E d \in KmDevices, c \in Conns : K!ControlClosed(d, c)
           \/ UNCHANGED K!vars
      BY <1>1, <1>6 DEF K!StartTakesSlot, K!StopAll, K!ReadActive, K!ExpireConsent, K!ClearConsents,
         K!StopPeer, K!PairAgain, K!ControlClosed, K!vars
<1>7. ASSUME NEW d \in KmDevices, K!Revoke(d) PROVE p = <<d, gens[d]>>
      BY <1>7, <1>t DEF K!Revoke, KmPast
<1> QED BY <1>3, <1>4, <1>5, <1>6, <1>7 DEF K!Next, K!StartSteps, K!StopSteps

(* Only a start whose peer is still paired brings a task. *)
LEMMA TasksGrow ==
  ASSUME PeersTypeInv, [K!Next]_(K!vars), NEW t \in tasks', \A u \in tasks : u.id # t.id
  PROVE  \E s \in starts : K!StartSpawns(s) /\ K!Authorized(s.peer) /\ t.id = s.id
<1>1. CASE \E s \in starts : K!StartSpawns(s)
  <2>1. PICK s \in starts : K!StartSpawns(s)
        BY <1>1
  <2>2. K!Authorized(s.peer) /\ t = [id |-> s.id, peer |-> s.peer, at |-> "accept"]
        BY <2>1 DEF K!StartSpawns
  <2> QED BY <2>1, <2>2
<1>2. CASE K!TaskSteps
  <2>1. PICK u \in tasks : K!TaskProves(u) \/ K!TaskConnects(u) \/ K!TaskTicks(u) \/ K!TaskFails(u)
        BY <1>2 DEF K!TaskSteps
  <2>2. \A at : [u EXCEPT !.at = at].id = u.id
        BY DEF PeersTypeInv, Task
  <2>3. t \in tasks \/ t = [u EXCEPT !.at = "proved"] \/ t = [u EXCEPT !.at = "loop"]
        BY <2>1, TaskEndings DEF K!TaskEnds
  <2> QED BY <2>2, <2>3
<1>3. CASE \/ \E q \in K!Peers, c \in Conns : K!StartChecks(q, c)
           \/ \E s \in starts : K!StartTakesSlot(s)
           \/ K!StopAll \/ K!StopSteps
           \/ \E d \in KmDevices : K!Revoke(d) \/ K!PairAgain(d)
           \/ \E q \in K!Peers : K!StopPeer(q)
           \/ \E d \in KmDevices, value \in K!Consents : K!LookUp(d, value)
           \/ \E d \in KmDevices, c \in Conns : K!ControlClosed(d, c)
           \/ UNCHANGED K!vars
      BY <1>3 DEF K!StartChecks, K!StartTakesSlot, K!StopAll, K!Revoke, K!PairAgain, K!StopPeer, K!LookUp,
         K!ControlClosed, K!StopSteps, K!ReadActive, K!StopById, K!ExpireConsent, K!RecordConsent,
         K!StopAllStops, K!ClearConsents, K!ClosedStops, K!vars
<1> QED BY <1>1, <1>2, <1>3 DEF K!Next, K!StartSteps

(* A task goes only with its session, or moves on. *)
LEMMA TasksLeave ==
  ASSUME PeersTypeInv, [K!Next]_(K!vars), NEW t \in tasks, active # K!None, active.id = t.id
  PROVE  (\E u \in tasks' : u.id = t.id) \/ active' = K!None
<1>1. CASE K!TaskSteps
  <2>1. PICK u \in tasks : K!TaskProves(u) \/ K!TaskConnects(u) \/ K!TaskTicks(u) \/ K!TaskFails(u)
        BY <1>1 DEF K!TaskSteps
  <2>2. \A at : [u EXCEPT !.at = at].id = u.id
        BY DEF PeersTypeInv, Task
  <2>3. CASE u = t /\ K!TaskEnds(u)
        BY <2>3 DEF K!TaskEnds, K!StopSession, K!Stoppable, K!Hits
  <2>4. CASE u # t
    <3>1. t \in tasks'
          BY <2>1, <2>4, TaskEndings DEF K!TaskEnds
    <3> QED BY <3>1
  <2>5. CASE u = t /\ \/ [u EXCEPT !.at = "proved"] \in tasks'
                      \/ [u EXCEPT !.at = "loop"] \in tasks'
        BY <2>2, <2>5
  <2> QED BY <2>1, <2>3, <2>4, <2>5, TaskEndings
<1>2. CASE \E s \in starts : K!StartSpawns(s)
      BY <1>2 DEF K!StartSpawns
<1>3. CASE \/ \E q \in K!Peers, c \in Conns : K!StartChecks(q, c)
           \/ \E s \in starts : K!StartTakesSlot(s)
           \/ K!StopAll \/ K!StopSteps
           \/ \E d \in KmDevices : K!Revoke(d) \/ K!PairAgain(d)
           \/ \E q \in K!Peers : K!StopPeer(q)
           \/ \E d \in KmDevices, value \in K!Consents : K!LookUp(d, value)
           \/ \E d \in KmDevices, c \in Conns : K!ControlClosed(d, c)
           \/ UNCHANGED K!vars
      BY <1>3 DEF K!StartChecks, K!StartTakesSlot, K!StopAll, K!Revoke, K!PairAgain, K!StopPeer, K!LookUp,
         K!ControlClosed, K!StopSteps, K!ReadActive, K!StopById, K!ExpireConsent, K!RecordConsent,
         K!StopAllStops, K!ClearConsents, K!ClosedStops, K!vars
<1> QED BY <1>1, <1>2, <1>3 DEF K!Next, K!StartSteps

(* A start that has the slot goes only by spawning its task. *)
LEMMA StartsLeave ==
  ASSUME PeersTypeInv, [K!Next]_(K!vars), NEW s \in starts, s.at # "bind", ~K!StartSpawns(s)
  PROVE  s \in starts'
<1>1. CASE K!TaskSteps
      BY <1>1, TaskEndings DEF K!TaskSteps, K!TaskEnds
<1>2. CASE K!StartSteps
      BY <1>2 DEF K!StartSteps, K!StartTakesSlot, K!StartSpawns
<1>3. CASE \/ \E q \in K!Peers, c \in Conns : K!StartChecks(q, c)
           \/ K!StopAll \/ K!StopSteps
           \/ \E d \in KmDevices : K!Revoke(d) \/ K!PairAgain(d)
           \/ \E q \in K!Peers : K!StopPeer(q)
           \/ \E d \in KmDevices, value \in K!Consents : K!LookUp(d, value)
           \/ \E d \in KmDevices, c \in Conns : K!ControlClosed(d, c)
           \/ UNCHANGED K!vars
      BY <1>3 DEF K!StartChecks, K!StopAll, K!Revoke, K!PairAgain, K!StopPeer, K!LookUp,
         K!ControlClosed, K!StopSteps, K!ReadActive, K!StopById, K!ExpireConsent, K!RecordConsent,
         K!StopAllStops, K!ClearConsents, K!ClosedStops, K!vars
<1> QED BY <1>1, <1>2, <1>3 DEF K!Next

(* Whoever revokes stops the session of that pairing, and no session of a  *)
(* pairing that has ended is spawned any more.                             *)
LEMMA RevocationStep ==
  PeersTypeInv /\ SessionsAreNumbered /\ RevocationReaches /\ [K!Next]_(K!vars) => RevocationReaches'
<1> SUFFICES ASSUME PeersTypeInv, SessionsAreNumbered, RevocationReaches, [K!Next]_(K!vars),
                    active' # K!None, active'.peer \in kmPast'.revoked,
                    NEW t \in tasks', t.id = active'.id
             PROVE  \E op \in stops' : Reaches(op)'
    BY RevokedStay DEF RevocationReaches
<1>1. CASE \E s \in starts : Takes(s)
  <2>1. PICK s \in starts : Takes(s)
        BY <1>1
  <2>2. t \in tasks /\ t.id = s.id
        BY <2>1 DEF Takes
  <2> QED BY <2>2 DEF SessionsAreNumbered
<1>2. CASE SameSession
  <2>1. CASE active.peer \in kmPast.revoked /\ \E u \in tasks : u.id = active.id
    <3>1. PICK op \in stops : Reaches(op)
          BY <1>2, <2>1 DEF RevocationReaches, SameSession
    <3> QED BY <1>2, <3>1, ReachesStay
  <2>2. CASE active.peer \notin kmPast.revoked
    <3>1. PICK d \in KmDevices : K!Revoke(d) /\ active.peer = <<d, gens[d]>>
      <4>1. kmPast'.revoked # kmPast.revoked
            BY <1>2, <2>2 DEF SameSession
      <4> QED BY <1>2, <2>2, <4>1, RevokedGrows DEF SameSession
    <3>2. K!StopOp(active.peer, TRUE, "read") \in stops'
          BY <3>1 DEF K!Revoke, K!Enter
    <3> QED BY <1>2, <3>2 DEF Reaches, K!StopOp, SameSession
  <2>3. CASE active.peer \in kmPast.revoked /\ \A u \in tasks : u.id # active.id
    <3>1. PICK s \in starts : K!StartSpawns(s) /\ K!Authorized(s.peer) /\ t.id = s.id
      <4>1. t.id = active.id
            BY <1>2 DEF SameSession
      <4> QED BY <2>3, <4>1, TasksGrow
    <3>2. s.peer = active.peer
          BY <1>2, <3>1 DEF SessionsAreNumbered, SameSession
    <3> QED BY <2>3, <3>1, <3>2 DEF RevocationReaches
  <2> QED BY <2>1, <2>2, <2>3
<1> QED BY <1>1, <1>2, SameOrTaken

(* What was stopped is what the stop was for. *)
LEMMA SparesStep == PeersTypeInv /\ SessionsAreNumbered /\ K!StopsSpareOthers /\ [K!Next]_(K!vars) => K!StopsSpareOthers'
<1> SUFFICES ASSUME PeersTypeInv, SessionsAreNumbered, K!StopsSpareOthers, [K!Next]_(K!vars)
             PROVE  K!StopsSpareOthers'
    OBVIOUS
<1>t. kmPast \in KmPast /\ starts \subseteq Starting /\ tasks \subseteq Task /\ stops \subseteq StopOps
      BY DEF PeersTypeInv
<1>1. ASSUME kmPast'.stopped = kmPast.stopped PROVE K!StopsSpareOthers'
      BY <1>1 DEF K!StopsSpareOthers
<1>2. ASSUME NEW id \in Nat, NEW expire \in BOOLEAN, NEW target \in K!Peers \cup {<<>>},
             K!StopSession(id, expire, target), active # K!None /\ active.id = id => active.peer = target
      PROVE  K!StopsSpareOthers'
  <2>1. CASE kmPast'.stopped = kmPast.stopped
        BY <1>1, <2>1
  <2>2. CASE /\ active # K!None /\ active.id = id
             /\ kmPast'.stopped = kmPast.stopped \cup {<<active.peer, target>>}
        BY <1>2, <2>2 DEF K!StopsSpareOthers
  <2> QED BY <1>2, <2>1, <2>2, StopsByNumber
<1>3. CASE \/ \E p \in K!Peers, c \in Conns : K!StartChecks(p, c)
           \/ \E d \in KmDevices : K!Revoke(d)
           \/ \E d \in KmDevices, value \in K!Consents : K!LookUp(d, value)
           \/ \E op \in stops : K!RecordConsent(op)
      BY <1>1, <1>3, <1>t DEF K!StartChecks, K!LookUp, K!RecordConsent, K!Revoke, KmPast
<1>4. CASE \E s \in starts : K!StartSpawns(s)
  <2>1. PICK s \in starts : K!StartSpawns(s)
        BY <1>4
  <2>2. s.id \in Nat /\ s.peer \in K!Peers
        BY <1>t DEF Starting
  <2>3. active # K!None /\ active.id = s.id => active.peer = s.peer
        BY DEF SessionsAreNumbered
  <2> QED BY <1>1, <1>2, <2>1, <2>2, <2>3 DEF K!StartSpawns
<1>5. CASE K!TaskSteps
  <2>1. PICK t \in tasks : K!TaskProves(t) \/ K!TaskConnects(t) \/ K!TaskTicks(t) \/ K!TaskFails(t)
        BY <1>5 DEF K!TaskSteps
  <2>2. t.id \in Nat /\ t.peer \in K!Peers
        BY <1>t DEF Task
  <2>3. active # K!None /\ active.id = t.id => active.peer = t.peer
        BY DEF SessionsAreNumbered
  <2>4. K!TaskEnds(t) \/ kmPast' = kmPast
        BY <2>1, TaskEndings
  <2> QED BY <1>1, <1>2, <2>2, <2>3, <2>4 DEF K!TaskEnds
<1>6. CASE \E op \in stops : K!StopById(op) \/ K!StopAllStops(op) \/ K!ClosedStops(op)
  <2>1. PICK op \in stops : K!StopById(op) \/ K!StopAllStops(op) \/ K!ClosedStops(op)
        BY <1>6
  <2>2. op.id \in Nat /\ op.peer \in K!Peers \cup {<<>>} /\ op.expire \in BOOLEAN
        BY <1>t DEF StopOps
  <2>3. active # K!None /\ active.id = op.id => active.peer = op.peer
        BY DEF SessionsAreNumbered
  <2> QED BY <1>1, <1>2, <2>1, <2>2, <2>3 DEF K!StopById, K!StopAllStops, K!ClosedStops
<1>7. CASE \/ \E s \in starts : K!StartTakesSlot(s)
           \/ K!StopAll
           \/ \E d \in KmDevices : K!PairAgain(d)
           \/ \E op \in stops : K!ReadActive(op) \/ K!ExpireConsent(op) \/ K!ClearConsents(op)
           \/ \E p \in K!Peers : K!StopPeer(p)
           \/ \E d \in KmDevices, c \in Conns : K!ControlClosed(d, c)
           \/ UNCHANGED K!vars
      BY <1>1, <1>7 DEF K!StartTakesSlot, K!StopAll, K!PairAgain, K!ReadActive, K!ExpireConsent,
         K!ClearConsents, K!StopPeer, K!ControlClosed, K!vars
<1> QED BY <1>3, <1>4, <1>5, <1>6, <1>7 DEF K!Next, K!StartSteps, K!StopSteps

(* The slot passes from the start that took it to the task it spawned, and *)
(* whoever leaves empties it.                                              *)
LEMMA OwnedStep == PeersTypeInv /\ SessionsAreNumbered /\ K!SlotIsOwned /\ [K!Next]_(K!vars) => K!SlotIsOwned'
<1> SUFFICES ASSUME PeersTypeInv, SessionsAreNumbered, K!SlotIsOwned, [K!Next]_(K!vars), active' # K!None
             PROVE  (\E s \in starts' : s.id = active'.id) \/ (\E t \in tasks' : t.id = active'.id)
    BY DEF K!SlotIsOwned
<1>t. starts \subseteq Starting /\ tasks \subseteq Task
      BY DEF PeersTypeInv
<1>1. CASE \E s \in starts : Takes(s)
  <2>1. PICK s \in starts : Takes(s)
        BY <1>1
  <2>2. [s EXCEPT !.at = "slot"] \in starts' /\ [s EXCEPT !.at = "slot"].id = active'.id
        BY <1>t, <2>1 DEF Takes, Starting
  <2> QED BY <2>2
<1>2. CASE SameSession
  <2>0. active # K!None /\ active'.id = active.id
        BY <1>2 DEF SameSession
  <2>1. CASE \E s \in starts : s.id = active.id
    <3>1. PICK s \in starts : s.id = active.id
          BY <2>1
    <3>2. s.at # "bind"
          BY <2>0, <3>1 DEF SessionsAreNumbered
    <3>3. CASE K!StartSpawns(s)
      <4>1. CASE K!Authorized(s.peer)
        <5>1. [id |-> s.id, peer |-> s.peer, at |-> "accept"] \in tasks'
              BY <3>3, <4>1 DEF K!StartSpawns
        <5>2. [id |-> s.id, peer |-> s.peer, at |-> "accept"].id = active'.id
              BY <2>0, <3>1
        <5> QED BY <5>1, <5>2
      <4>2. CASE ~K!Authorized(s.peer)
            BY <2>0, <3>1, <3>3, <4>2 DEF K!StartSpawns, K!StopSession, K!Stoppable, K!Hits
      <4> QED BY <4>1, <4>2
    <3>4. CASE ~K!StartSpawns(s)
          BY <2>0, <3>1, <3>2, <3>4, StartsLeave
    <3> QED BY <3>3, <3>4
  <2>2. CASE \E t \in tasks : t.id = active.id
    <3>1. PICK t \in tasks : t.id = active.id
          BY <2>2
    <3>2. t \in tasks' \/ (\E u \in tasks' : u.id = t.id) \/ active' = K!None
          BY <2>0, <3>1, TasksLeave
    <3> QED BY <2>0, <3>1, <3>2
  <2> QED BY <2>0, <2>1, <2>2 DEF K!SlotIsOwned
<1> QED BY <1>1, <1>2, SameOrTaken
-----------------------------------------------------------------------------
(* The theorems.                                                           *)

(* The invariant holds when the host starts. *)
LEMMA PeersInit == ASSUME MaxGen \in Nat \ {0} PROVE K!Init => PeersTypeInv /\ PeersInv
<1> SUFFICES ASSUME K!Init PROVE PeersTypeInv /\ PeersInv
    OBVIOUS
<1>1. PeersTypeInv
      BY PeersTypeInit
<1>2. active = K!None /\ starts = {} /\ tasks = {} /\ stops = {} /\ kmPast.stopped = {} /\ kmPast.revoked = {}
      BY DEF K!Init
<1> QED BY <1>1, <1>2 DEF PeersInv, SessionsAreNumbered, WithdrawalReaches, RevocationReaches,
        K!StopsSpareOthers, K!SlotIsOwned

(* The invariant holds of every state, the stops under way included. *)
THEOREM PeersCorrect ==
  ASSUME MaxGen \in Nat \ {0}
  PROVE  K!Spec => [](PeersTypeInv /\ PeersInv)
<1>1. K!Init => PeersTypeInv /\ PeersInv
      BY PeersInit
<1>2. (PeersTypeInv /\ PeersInv) /\ [K!Next]_(K!vars) => (PeersTypeInv /\ PeersInv)'
      BY PeersTypeStep, NumbersStep, WithdrawalStep, RevocationStep, SparesStep, OwnedStep DEF PeersInv
<1> QED BY <1>1, <1>2, PTL DEF K!Spec

(* The manager's state and the calls in flight keep their types. *)
THEOREM PeersTypes ==
  ASSUME MaxGen \in Nat \ {0}
  PROVE  K!Spec => []K!TypeOK
<1>1. PeersTypeInv => K!TypeOK
  <2> SUFFICES ASSUME PeersTypeInv PROVE K!TypeOK
      OBVIOUS
  <2>1. active = K!None \/ active.peer \in K!Peers
        BY DEF PeersTypeInv, Active
  <2>2. \A op \in stops : op.at \in {"read", "stop", "expire", "both", "partial", "stopall", "clear", "closed"}
        BY DEF PeersTypeInv, StopOps
  <2>3. \A t \in tasks : t.at \in {"accept", "proved", "loop"}
        BY DEF PeersTypeInv, Task
  <2> QED BY <2>1, <2>2, <2>3 DEF PeersTypeInv, K!TypeOK
<1> QED BY <1>1, PeersCorrect, PTL

(* A withdrawn direction and a revoked pairing hold no session that no stop *)
(* is on its way to, a late stop takes down nobody else's session, and the *)
(* slot has an owner.                                                      *)
THEOREM StopsReach ==
  ASSUME MaxGen \in Nat \ {0}
  PROVE  K!Spec => []K!StopsReachTheirSession
<1>1. PeersTypeInv /\ PeersInv => K!StopsReachTheirSession
  <2> SUFFICES ASSUME PeersTypeInv, PeersInv PROVE K!StopsReachTheirSession
      OBVIOUS
  <2>1. ASSUME NEW op \in stops, Reaches(op) PROVE K!InFlight(active.peer)
        BY <2>1 DEF Reaches, K!InFlight
  <2>2. K!WithdrawnIsStopped
        BY <2>1 DEF PeersInv, WithdrawalReaches, K!WithdrawnIsStopped, K!Approved, K!ApprovalKey
  <2>3. K!RevokedIsStopped
    <3> SUFFICES ASSUME active # K!None, active.connected, active.peer \in kmPast.revoked
                 PROVE  K!InFlight(active.peer)
        BY DEF K!RevokedIsStopped
    <3>1. \A s \in starts : s.id # active.id
          BY DEF PeersInv, SessionsAreNumbered
    <3>2. \E t \in tasks : t.id = active.id
          BY <3>1 DEF PeersInv, K!SlotIsOwned
    <3> QED BY <2>1, <3>2 DEF PeersInv, RevocationReaches
  <2> QED BY <2>2, <2>3 DEF PeersInv, K!StopsReachTheirSession
<1> QED BY <1>1, PeersCorrect, PTL

(* The consent that arms a session was given to this pairing of the device. *)
THEOREM ConsentsArePerPairing ==
  ASSUME MaxGen \in Nat \ {0}
  PROVE  K!Spec => K!ConsentIsPerPairing
<1>1. PeersTypeInv /\ PeersInv /\ [K!Next]_(K!vars) =>
             [active # K!None /\ active'.id = active.id /\ active'.connected /\ ~active.connected
                => active.peer \in kmPast.approved]_(K!vars)
  <2> SUFFICES ASSUME PeersTypeInv, PeersInv, [K!Next]_(K!vars), active # K!None, active'.id = active.id,
                      active'.connected, ~active.connected
               PROVE  active.peer \in kmPast.approved
      OBVIOUS
  <2>1. active' # K!None
        BY DEF PeersTypeInv, Active, K!None
  <2>2. \A s \in starts : ~Takes(s)
        BY DEF Takes
  <2>3. PICK t \in tasks : Connects(t)
        BY <2>1, <2>2, SlotSteps
  <2>4. t.peer = active.peer
        BY <2>3 DEF PeersInv, SessionsAreNumbered, Connects
  <2> QED BY <2>3, <2>4 DEF Connects, K!Approved, K!ApprovalKey, PeersTypeInv
<1> QED BY <1>1, PeersCorrect, PTL DEF K!Spec, K!ConsentIsPerPairing

-----------------------------------------------------------------------------
(* A behaviour of the host is one of the sharing's state machine. *)
LEMMA MachineRuns == Spec => M!Spec
<1>1. Init => M!Init
      BY DEF Init
<1>2. [Next]_vars => [M!Next]_(M!vars)
      BY DEF Next, KmStep, PairingStep, PeersStep, FilesStep, CurtainStep, vars, kmVars, M!vars
<1> QED BY <1>1, <1>2, PTL DEF Spec, M!Spec

(* A behaviour of the host is one of the manager of the sharing's sessions. *)
LEMMA PeersRun == Spec => K!Spec
<1>1. Init => K!Init
      BY DEF Init
<1>2. [Next]_vars => [K!Next]_(K!vars)
      BY DEF Next, KmStep, PairingStep, PeersStep, FilesStep, CurtainStep, vars, peersVars, K!vars
<1> QED BY <1>1, <1>2, PTL DEF Spec, K!Spec

(* Every active direction of the sharing is consented to and within its capability, *)
(* and local input returns only after the release (domain/km.rs). *)
THEOREM Sharing == Spec => []SharingIsConsented
BY MachineRuns, SharingCorrect, PTL DEF SharingIsConsented

(* Stopping a session, withdrawing its consent and revoking its pairing reach it, and *)
(* spare the session of another (km.rs of the host). *)
THEOREM Stopping ==
  ASSUME MaxGen \in Nat \ {0}
  PROVE  Spec => []StopsReachTheirSession
<1>1. K!Spec => []K!StopsReachTheirSession
      BY StopsReach
<1> QED BY <1>1, PeersRun, PTL DEF StopsReachTheirSession

-----------------------------------------------------------------------------
Sizes == Size \in Nat /\ Chunk \in Nat

Holders == {{}} \cup {{c} : c \in Credentials}
Upload == [owner : Holders, written : Nat, retired : BOOLEAN]
Send == [st : {"none", "sending", "cancelling", "gone"}, at : Nat, by : Holders]

FilesTypeInv ==
  /\ paired \subseteq Credentials /\ revoking \subseteq Credentials /\ revoked \subseteq Credentials
  /\ paired \cap (revoking \cup revoked) = {}
  /\ incoming \in [Tokens -> Upload] /\ outgoing \in [Tokens -> Holders]
  /\ disk \in [Tokens -> SUBSET Nat] /\ sender \in [Tokens -> Send]

(* An entry in the table is its viewer's, with the bytes its viewer has been told of. *)
BooksInv ==
  \A t \in Tokens : incoming[t].owner # {} =>
    /\ incoming[t].owner = sender[t].by
    /\ sender[t].st = "sending" => disk[t] = {incoming[t].written} /\ sender[t].at = incoming[t].written
    /\ incoming[t].written = Size => disk[t] = {Size}

FilesInv == Sizes /\ FilesTypeInv /\ BooksInv /\ F!TransfersAreAccounted

(* What a retirement leaves of an entry. *)
LEMMA Retirement ==
  ASSUME FilesTypeInv, NEW gone \in SUBSET Tokens, NEW kept \in SUBSET Tokens
  PROVE  /\ F!Retire(gone, kept) \in [Tokens -> Upload]
         /\ \A t \in gone : F!Retire(gone, kept)[t] = F!Absent /\ F!Removed(gone)[t] = {}
         /\ \A t \in Tokens \ gone :
              /\ F!Removed(gone)[t] = disk[t]
              /\ F!Retire(gone, kept)[t].owner = incoming[t].owner
              /\ F!Retire(gone, kept)[t].written = incoming[t].written
         /\ \A t \in kept \ gone : F!Retire(gone, kept)[t].retired
         /\ \A t \in Tokens \ (gone \cup kept) : F!Retire(gone, kept)[t] = incoming[t]
         /\ F!Removed(gone) \in [Tokens -> SUBSET Nat]
<1>1. F!Absent \in Upload
      BY DEF F!Absent, Upload, Holders
<1>2. \A t \in Tokens : /\ [incoming[t] EXCEPT !.retired = TRUE] \in Upload
                        /\ [incoming[t] EXCEPT !.retired = TRUE].retired
                        /\ [incoming[t] EXCEPT !.retired = TRUE].owner = incoming[t].owner
                        /\ [incoming[t] EXCEPT !.retired = TRUE].written = incoming[t].written
      BY DEF FilesTypeInv, Upload
<1> QED BY <1>1, <1>2 DEF FilesTypeInv, F!Retire, F!Removed

(* What a retirement leaves of the table agrees with the viewers and with the disk. *)
LEMMA RetirementKeeps ==
  ASSUME FilesInv, FilesTypeInv', NEW gone \in SUBSET Tokens, NEW kept \in SUBSET Tokens, gone \cap kept = {},
         incoming' = F!Retire(gone, kept), disk' = F!Removed(gone),
         UNCHANGED <<files, leftover>>,
         \A t \in Tokens : /\ sender'[t].by = sender[t].by
                           /\ sender'[t].st = "sending" => sender'[t] = sender[t]
  PROVE  BooksInv' /\ F!PartsAreTracked' /\ F!FilesAreWhole'
<1>1. \A t \in Tokens : incoming'[t].owner # {} => /\ t \notin gone /\ incoming'[t].owner = incoming[t].owner
                                                   /\ incoming'[t].written = incoming[t].written /\ disk'[t] = disk[t]
      BY Retirement DEF FilesInv, F!Absent
<1>2. BooksInv'
      BY <1>1 DEF FilesInv, BooksInv
<1>3. \A t \in Tokens : disk'[t] # {} => disk[t] # {} /\ t \notin gone /\ incoming'[t].owner = incoming[t].owner
      BY Retirement DEF FilesInv
<1>4. F!PartsAreTracked'
      BY <1>3 DEF FilesInv, F!TransfersAreAccounted, F!PartsAreTracked, F!Parts, F!Present
<1> QED BY <1>2, <1>4 DEF FilesInv, F!TransfersAreAccounted, F!FilesAreWhole

(* An upload in progress is kept if its entry is. *)
LEMMA UploadsKept ==
  ASSUME FilesInv, paired' \subseteq paired,
         \A t \in Tokens : sender'[t].st = "sending" => sender'[t] = sender[t],
         \A t \in Tokens : sender[t].st = "sending" /\ sender[t].by \subseteq paired /\ t \notin idle' =>
           t \notin idle /\ incoming'[t] = incoming[t]
  PROVE  F!UploadsAreKept'
BY DEF FilesInv, F!TransfersAreAccounted, F!UploadsAreKept

(* Nothing of a credential whose revocation has returned comes back. *)
LEMMA RevokedKept ==
  ASSUME FilesInv, UNCHANGED revoked,
         \A t \in Tokens : /\ \/ incoming'[t].owner = incoming[t].owner /\ (incoming[t].retired => incoming'[t].retired)
                              \/ incoming'[t].owner = {}
                              \/ \E c \in paired : incoming'[t].owner = {c}
                           /\ outgoing'[t] \subseteq outgoing[t] \/ outgoing'[t] \subseteq paired
  PROVE  F!RevokedHoldsNothing'
<1>1. paired \cap revoked = {}
      BY DEF FilesInv, FilesTypeInv
<1> QED BY <1>1 DEF FilesInv, F!TransfersAreAccounted, F!RevokedHoldsNothing

(* A sweep takes no upload in progress. *)
LEMMA NotStale ==
  ASSUME FilesInv
  PROVE  \A t \in F!Stale : ~(sender[t].st = "sending" /\ sender[t].by \subseteq paired /\ t \notin idle)
<1>1. \A t \in F!Stale : t \in Tokens /\ (t \in idle \/ incoming[t].retired)
      BY DEF F!Stale, F!Present
<1>2. ASSUME NEW t \in Tokens, sender[t].st = "sending", sender[t].by \subseteq paired, t \notin idle
      PROVE  ~incoming[t].retired
  <2>1. incoming[t] = [owner |-> sender[t].by, written |-> sender[t].at, retired |-> FALSE]
        BY <1>2 DEF FilesInv, F!TransfersAreAccounted, F!UploadsAreKept
  <2> QED BY <2>1
<1> QED BY <1>1, <1>2

(* BeginIncoming keeps the books, whatever its sweep fails to remove. *)
LEMMA BeginIncomingKeeps ==
  ASSUME FilesInv, FilesTypeInv', NEW c \in Credentials, NEW stuck \in SUBSET Tokens, F!BeginIncoming(c, stuck)
  PROVE  FilesInv'
<1>a. F!Stale \in SUBSET Tokens /\ stuck \subseteq F!Stale /\ F!Stale \ stuck \in SUBSET Tokens /\ (F!Stale \ stuck) \cap stuck = {}
      BY DEF F!BeginIncoming, F!Stale, F!Present
<1>1. PICK swept : swept = F!Retire(F!Stale \ stuck, stuck)
      OBVIOUS
<1>2. PICK clean : clean = F!Removed(F!Stale \ stuck)
      OBVIOUS
<1>t. /\ swept \in [Tokens -> Upload] /\ clean \in [Tokens -> SUBSET Nat]
      /\ \A t \in Tokens : swept[t].owner # {} => /\ swept[t].owner = incoming[t].owner /\ clean[t] = disk[t]
                                                  /\ swept[t].written = incoming[t].written
      /\ \A t \in Tokens : clean[t] # {} => disk[t] # {} /\ swept[t].owner = incoming[t].owner
      /\ \A t \in Tokens : t \notin F!Stale => swept[t] = incoming[t]
      /\ \A t \in Tokens : \/ swept[t].owner = incoming[t].owner /\ (incoming[t].retired => swept[t].retired)
                          \/ swept[t].owner = {}
  <2>1. F!Absent.owner = {}
        BY DEF F!Absent
  <2>2. /\ swept \in [Tokens -> Upload] /\ clean \in [Tokens -> SUBSET Nat]
        /\ \A t \in F!Stale \ stuck : swept[t] = F!Absent /\ clean[t] = {}
        /\ \A t \in Tokens \ (F!Stale \ stuck) :
              /\ clean[t] = disk[t] /\ swept[t].owner = incoming[t].owner
              /\ swept[t].written = incoming[t].written
        /\ \A t \in stuck : swept[t].retired
        /\ \A t \in Tokens \ F!Stale : swept[t] = incoming[t]
    <3>1. FilesTypeInv /\ stuck \in SUBSET Tokens
          BY <1>a DEF FilesInv, F!Stale, F!Present
    <3>2. PICK gone \in SUBSET Tokens : gone = F!Stale \ stuck
          BY <1>a
    <3>3. /\ F!Retire(gone, stuck) \in [Tokens -> Upload] /\ F!Removed(gone) \in [Tokens -> SUBSET Nat]
          /\ \A t \in gone : F!Retire(gone, stuck)[t] = F!Absent /\ F!Removed(gone)[t] = {}
          /\ \A t \in Tokens \ gone :
                /\ F!Removed(gone)[t] = disk[t]
                /\ F!Retire(gone, stuck)[t].owner = incoming[t].owner
                /\ F!Retire(gone, stuck)[t].written = incoming[t].written
          /\ \A t \in stuck \ gone : F!Retire(gone, stuck)[t].retired
          /\ \A t \in Tokens \ (gone \cup stuck) : F!Retire(gone, stuck)[t] = incoming[t]
          BY <3>1, Retirement
    <3>4. swept = F!Retire(gone, stuck) /\ clean = F!Removed(gone)
          BY <1>1, <1>2, <3>2
    <3> QED BY <1>a, <3>2, <3>3, <3>4
  <2> QED BY <1>a, <2>1, <2>2
<1>e. F!Entry(c) \in Upload /\ F!Entry(c).owner = {c} /\ F!Entry(c).written = 0 /\ ~F!Entry(c).retired
      BY DEF F!Entry, Upload, Holders
<1>s. \A t \in F!Stale : ~(sender[t].st = "sending" /\ sender[t].by \subseteq paired /\ t \notin idle)
      BY NotStale
<1>3. CASE incoming' = swept /\ disk' = clean /\ sender' = sender
  <2>1. BooksInv' /\ F!PartsAreTracked' /\ F!FilesAreWhole'
        BY <1>1, <1>2, <1>3, <1>a, RetirementKeeps DEF F!BeginIncoming
  <2>2. F!UploadsAreKept'
    <3>1. \A t \in Tokens : sender[t].st = "sending" /\ sender[t].by \subseteq paired /\ t \notin idle' =>
            t \notin idle /\ incoming'[t] = incoming[t]
          BY <1>t, <1>s, <1>3 DEF F!BeginIncoming
    <3> QED BY <1>3, <3>1, UploadsKept DEF F!BeginIncoming, F!access
  <2>3. F!RevokedHoldsNothing'
        BY <1>t, <1>3, RevokedKept DEF F!BeginIncoming, F!Unswept, F!access, FilesInv, FilesTypeInv
  <2> QED BY <2>1, <2>2, <2>3 DEF FilesInv, F!TransfersAreAccounted, Sizes
<1>4. CASE /\ incoming' = [swept EXCEPT ![next] = F!Entry(c)] /\ disk' = [clean EXCEPT ![next] = {0}]
           /\ sender' = [sender EXCEPT ![next] = [st |-> "sending", at |-> 0, by |-> {c}]]
  <2>0. next \in Tokens /\ c \in paired /\ UNCHANGED <<files, leftover, idle, paired, revoked, revoking>>
        /\ sender \in [Tokens -> Send]
        BY DEF F!BeginIncoming, F!access, F!Authorized, FilesInv, FilesTypeInv
  <2>1. BooksInv'
    <3>1. ASSUME NEW t \in Tokens, t # next, incoming'[t].owner # {}
          PROVE  incoming[t].owner # {} /\ incoming'[t].owner = incoming[t].owner /\ disk'[t] = disk[t]
                 /\ incoming'[t].written = incoming[t].written /\ sender'[t] = sender[t]
          BY <1>t, <1>4, <2>0, <3>1
    <3>2. /\ incoming'[next].owner = {c} /\ incoming'[next].written = 0 /\ disk'[next] = {0}
          /\ sender'[next].by = {c} /\ sender'[next].at = 0
          BY <1>t, <1>e, <1>4, <2>0
    <3>3. \A t \in Tokens \ {next} : incoming'[t].owner # {} =>
            /\ incoming'[t].owner = sender'[t].by
            /\ sender'[t].st = "sending" => disk'[t] = {incoming'[t].written} /\ sender'[t].at = incoming'[t].written
            /\ incoming'[t].written = Size => disk'[t] = {Size}
          BY <3>1 DEF FilesInv, BooksInv
    <3> QED BY <3>2, <3>3 DEF BooksInv
  <2>2. F!PartsAreTracked'
        BY <1>t, <1>e, <1>4, <2>0 DEF FilesInv, F!TransfersAreAccounted, F!PartsAreTracked, F!Parts, F!Present
  <2>3. F!FilesAreWhole'
        BY <2>0 DEF FilesInv, F!TransfersAreAccounted, F!FilesAreWhole
  <2>4. F!UploadsAreKept'
        BY <1>t, <1>s, <1>4, <2>0 DEF FilesInv, F!TransfersAreAccounted, F!UploadsAreKept, F!Entry
  <2>5. F!RevokedHoldsNothing'
    <3>1. \A t \in Tokens : outgoing'[t] \subseteq outgoing[t] \/ outgoing'[t] \subseteq paired
          BY DEF F!BeginIncoming, F!Unswept, FilesInv, FilesTypeInv
    <3> QED BY <1>t, <1>e, <1>4, <2>0, <3>1, RevokedKept
  <2> QED BY <2>1, <2>2, <2>3, <2>4, <2>5 DEF FilesInv, F!TransfersAreAccounted, Sizes
<1> QED BY <1>1, <1>2, <1>3, <1>4 DEF F!BeginIncoming

(* A chunk keeps the books, whether its answer arrives or not. *)
LEMMA AppendKeeps ==
  ASSUME FilesInv, FilesTypeInv', NEW c \in Credentials, NEW t \in Tokens, F!Append(c, t)
  PROVE  FilesInv'
<1>1. PICK n : n = IF Size - sender[t].at < Chunk THEN Size - sender[t].at ELSE Chunk
      OBVIOUS
<1>t. /\ incoming \in [Tokens -> Upload] /\ disk \in [Tokens -> SUBSET Nat] /\ sender \in [Tokens -> Send]
      /\ Size \in Nat /\ Chunk \in Nat
      BY DEF FilesInv, FilesTypeInv, Sizes
<1>2a. /\ incoming[t].owner = {c} /\ c \in paired /\ ~incoming[t].retired /\ sender[t].st = "sending"
       /\ sender[t].at = incoming[t].written /\ incoming[t].written + n <= Size /\ sender[t].at < Size
       /\ UNCHANGED <<files, leftover, outgoing, paired, revoked, revoking>>
      BY <1>1 DEF F!Append, F!Live, F!Authorized, F!access
<1>2b. disk[t] = {incoming[t].written} /\ incoming[t].owner = sender[t].by
      BY <1>2a DEF FilesInv, BooksInv
<1>2c. sender[t].at \in Nat /\ incoming[t].written \in Nat
      BY <1>t DEF Send, Upload
<1>2. /\ incoming[t].owner = {c} /\ c \in paired /\ ~incoming[t].retired /\ sender[t].st = "sending"
      /\ sender[t].at = incoming[t].written /\ incoming[t].written + n <= Size /\ n \in Nat
      /\ UNCHANGED <<files, leftover, outgoing, paired, revoked, revoking>>
      /\ disk[t] = {incoming[t].written} /\ incoming[t].owner = sender[t].by
      BY <1>1, <1>t, <1>2a, <1>2b, <1>2c
<1>3. /\ incoming' = [incoming EXCEPT ![t].written = @ + n] /\ disk' = [disk EXCEPT ![t] = {l + n : l \in @}]
      /\ idle' = idle \ {t}
      /\ \/ sender' = [sender EXCEPT ![t].at = @ + n]
         \/ sender' = [sender EXCEPT ![t].st = "gone"]
      BY <1>1 DEF F!Append, F!Sends
<1>4. PICK w \in Nat : w = incoming[t].written + n
      BY <1>t, <1>2 DEF Upload
<1>5. /\ incoming'[t] = [incoming[t] EXCEPT !.written = w] /\ disk'[t] = {w}
      /\ sender'[t] \in {[sender[t] EXCEPT !.at = w], [sender[t] EXCEPT !.st = "gone"]}
      /\ \A u \in Tokens \ {t} : incoming'[u] = incoming[u] /\ disk'[u] = disk[u] /\ sender'[u] = sender[u]
      BY <1>t, <1>2, <1>3, <1>4
<1>6. /\ incoming'[t].owner = incoming[t].owner /\ incoming'[t].written = w /\ ~incoming'[t].retired
      /\ sender'[t].by = sender[t].by
      /\ sender'[t].st = "sending" => sender'[t].at = w
      BY <1>t, <1>2, <1>5 DEF Upload, Send
<1>7. incoming'[t] = [owner |-> sender[t].by, written |-> w, retired |-> FALSE]
  <2>1. incoming'[t] \in Upload
        BY DEF FilesTypeInv
  <2>2. PICK r : r = incoming'[t]
        OBVIOUS
  <2>3. r = [owner |-> r.owner, written |-> r.written, retired |-> r.retired] /\ r.retired \in BOOLEAN
        BY <2>1, <2>2 DEF Upload
  <2> QED BY <1>2, <1>6, <2>2, <2>3
<1>8. BooksInv'
  <2>1. \A u \in Tokens \ {t} : incoming'[u].owner # {} =>
            /\ incoming'[u].owner = sender'[u].by
            /\ sender'[u].st = "sending" => disk'[u] = {incoming'[u].written} /\ sender'[u].at = incoming'[u].written
            /\ incoming'[u].written = Size => disk'[u] = {Size}
        BY <1>5 DEF FilesInv, BooksInv
  <2> QED BY <1>2, <1>5, <1>6, <2>1 DEF BooksInv
<1>9. F!UploadsAreKept'
      BY <1>2, <1>3, <1>5, <1>6, <1>7 DEF FilesInv, F!TransfersAreAccounted, F!UploadsAreKept
<1>10. F!PartsAreTracked'
  <2>1. \A u \in Tokens : disk'[u] # {} => disk[u] # {}
        BY <1>2, <1>5
  <2> QED BY <1>2, <1>5, <1>6, <2>1 DEF FilesInv, F!TransfersAreAccounted, F!PartsAreTracked, F!Parts, F!Present
<1>11. F!RevokedHoldsNothing'
      BY <1>2, <1>5, <1>6, RevokedKept
<1> QED BY <1>2, <1>8, <1>9, <1>10, <1>11 DEF FilesInv, F!TransfersAreAccounted, F!FilesAreWhole, Sizes

(* A viewer that gives up, or whose connection ends, uploads no more. *)
LEMMA Given ==
  ASSUME FilesInv, NEW t \in Tokens, NEW st \in {"cancelling", "gone"}, F!Sends(t, st)
  PROVE  /\ sender' \in [Tokens -> Send]
         /\ sender'[t].st = st
         /\ \A u \in Tokens \ {t} : sender'[u] = sender[u]
         /\ \A u \in Tokens : sender'[u].by = sender[u].by
         /\ \A u \in Tokens : sender'[u].st = "sending" => sender'[u] = sender[u]
<1>1. sender \in [Tokens -> Send] /\ sender' = [sender EXCEPT ![t].st = st]
      BY DEF FilesInv, FilesTypeInv, F!Sends
<1>2. PICK r : r = sender[t]
      OBVIOUS
<1>3. /\ [r EXCEPT !.st = st] \in Send /\ [r EXCEPT !.st = st].st = st /\ [r EXCEPT !.st = st].by = r.by
      BY <1>1, <1>2 DEF Send
<1>4. sender'[t] = [r EXCEPT !.st = st] /\ \A u \in Tokens \ {t} : sender'[u] = sender[u]
      BY <1>1, <1>2
<1>5. sender' \in [Tokens -> Send]
      BY <1>1, <1>3, <1>2
<1> QED BY <1>2, <1>3, <1>4, <1>5

(* A failed write keeps the books. *)
LEMMA AppendFailsKeeps ==
  ASSUME FilesInv, NEW c \in Credentials, NEW t \in Tokens, F!AppendFails(c, t)
  PROVE  FilesInv'
<1>1. /\ sender[t].st = "sending" /\ sender[t].at < Size /\ incoming[t].owner = {c}
      /\ F!Sends(t, "cancelling")
      /\ UNCHANGED <<incoming, outgoing, idle, files, leftover, paired, revoking, revoked>>
      BY DEF F!AppendFails, F!Live, F!GivesUp, F!access
<1>2. PICK k \in 0 .. Chunk - 1 : disk' = [disk EXCEPT ![t] = {l + k : l \in @}]
      BY DEF F!AppendFails
<1>2a. k \in Nat
      BY <1>2 DEF FilesInv, Sizes
<1>3. disk \in [Tokens -> SUBSET Nat] /\ sender[t].at \in Nat /\ Size \in Nat
      BY DEF FilesInv, FilesTypeInv, Send, Sizes
<1>4. /\ disk' \in [Tokens -> SUBSET Nat] /\ \A u \in Tokens \ {t} : disk'[u] = disk[u]
      /\ \A u \in Tokens : disk'[u] # {} => disk[u] # {}
      BY <1>2, <1>2a, <1>3
<1>5. incoming[t].written # Size
      BY <1>1, <1>3 DEF FilesInv, BooksInv
<1>6. FilesTypeInv'
      BY <1>1, <1>4, Given DEF FilesInv, FilesTypeInv
<1>7. BooksInv'
  <2>1. /\ sender'[t].st = "cancelling" /\ \A u \in Tokens \ {t} : sender'[u] = sender[u]
        /\ \A u \in Tokens : sender'[u].by = sender[u].by
        BY <1>1, Given
  <2> QED BY <1>1, <1>4, <1>5, <2>1 DEF FilesInv, BooksInv
<1>8. F!UploadsAreKept'
  <2>1. \A u \in Tokens : sender'[u].st = "sending" => sender'[u] = sender[u]
        BY <1>1, Given
  <2> QED BY <1>1, <2>1, UploadsKept
<1>9. F!PartsAreTracked'
      BY <1>1, <1>4 DEF FilesInv, F!TransfersAreAccounted, F!PartsAreTracked, F!Parts, F!Present
<1> QED BY <1>1, <1>6, <1>7, <1>8, <1>9 DEF FilesInv, F!TransfersAreAccounted, F!FilesAreWhole, F!RevokedHoldsNothing, Sizes

(* A refusal makes the viewer give up. *)
LEMMA RefusedKeeps ==
  ASSUME FilesInv, NEW t \in Tokens, F!Refused(t)
  PROVE  FilesInv'
<1>1. /\ F!Sends(t, "cancelling")
      /\ UNCHANGED <<incoming, outgoing, idle, disk, files, leftover, paired, revoking, revoked>>
      BY DEF F!Refused, F!GivesUp, F!access
<1>2. /\ sender' \in [Tokens -> Send]
      /\ \A u \in Tokens : sender'[u].by = sender[u].by
      /\ \A u \in Tokens : sender'[u].st = "sending" => sender'[u] = sender[u]
      BY <1>1, Given
<1>3. FilesTypeInv' /\ BooksInv'
      BY <1>1, <1>2 DEF FilesInv, FilesTypeInv, BooksInv
<1>4. F!UploadsAreKept'
      BY <1>1, <1>2, UploadsKept
<1> QED BY <1>1, <1>3, <1>4
    DEF FilesInv, F!TransfersAreAccounted, F!PartsAreTracked, F!Parts, F!Present, F!FilesAreWhole, F!RevokedHoldsNothing, Sizes

(* An entry taken out by its own viewer leaves the others alone. *)
LEMMA TakenKeeps ==
  ASSUME FilesInv, NEW t \in Tokens, NEW st \in {"cancelling", "gone"}, F!Sends(t, st),
         UNCHANGED <<paired, revoking, revoked, outgoing, idle, leftover>>,
         NEW gone \in SUBSET {t}, NEW kept \in SUBSET {t}, gone \cap kept = {},
         incoming' = F!Retire(gone, kept), disk' = F!Removed(gone), F!FilesAreWhole'
  PROVE  FilesInv'
<1>0. /\ FilesTypeInv /\ gone \in SUBSET Tokens /\ kept \in SUBSET Tokens
      BY DEF FilesInv
<1>1. /\ sender' \in [Tokens -> Send] /\ sender'[t].st = st
      /\ \A u \in Tokens : sender'[u].by = sender[u].by
      /\ \A u \in Tokens : sender'[u].st = "sending" => sender'[u] = sender[u]
      /\ \A u \in Tokens \ {t} : sender'[u] = sender[u]
      BY Given
<1>2. /\ F!Retire(gone, kept) \in [Tokens -> Upload] /\ F!Removed(gone) \in [Tokens -> SUBSET Nat]
      /\ \A u \in gone : F!Retire(gone, kept)[u] = F!Absent /\ F!Removed(gone)[u] = {}
      /\ \A u \in Tokens \ gone :
           /\ F!Removed(gone)[u] = disk[u]
           /\ F!Retire(gone, kept)[u].owner = incoming[u].owner
           /\ F!Retire(gone, kept)[u].written = incoming[u].written
      /\ \A u \in kept \ gone : F!Retire(gone, kept)[u].retired
      /\ \A u \in Tokens \ (gone \cup kept) : F!Retire(gone, kept)[u] = incoming[u]
      BY <1>0, Retirement
<1>3. FilesTypeInv'
      BY <1>1, <1>2 DEF FilesInv, FilesTypeInv
<1>4. \A u \in Tokens : incoming'[u].owner # {} => /\ u \notin gone /\ incoming'[u].owner = incoming[u].owner
                                                   /\ incoming'[u].written = incoming[u].written /\ disk'[u] = disk[u]
      BY <1>2 DEF F!Absent
<1>5. BooksInv'
      BY <1>1, <1>4 DEF FilesInv, BooksInv
<1>6. \A u \in Tokens : disk'[u] # {} => disk[u] # {} /\ incoming'[u].owner = incoming[u].owner
      BY <1>2
<1>7. F!PartsAreTracked'
      BY <1>6 DEF FilesInv, F!TransfersAreAccounted, F!PartsAreTracked, F!Parts, F!Present
<1>8. F!UploadsAreKept'
  <2>1. \A u \in Tokens : u # t => incoming'[u] = incoming[u]
        BY <1>2
  <2> QED BY <1>1, <2>1 DEF FilesInv, F!TransfersAreAccounted, F!UploadsAreKept
<1>9. F!RevokedHoldsNothing'
  <2>1. \A u \in Tokens : \/ incoming'[u].owner = incoming[u].owner /\ (incoming[u].retired => incoming'[u].retired)
                          \/ incoming'[u].owner = {}
    <3>1. \A u \in gone : incoming'[u].owner = {}
          BY <1>2 DEF F!Absent
    <3> QED BY <1>2, <3>1
  <2> QED BY <2>1, RevokedKept
<1> QED BY <1>3, <1>5, <1>7, <1>8, <1>9 DEF FilesInv, F!TransfersAreAccounted, Sizes

(* A retirement of nothing changes nothing. *)
LEMMA RetireNothing ==
  ASSUME FilesInv
  PROVE  F!Retire({}, {}) = incoming /\ F!Removed({}) = disk
<1>1. incoming \in [Tokens -> Upload] /\ disk \in [Tokens -> SUBSET Nat]
      BY DEF FilesInv, FilesTypeInv
<1> QED BY <1>1 DEF F!Retire, F!Removed

(* The end of an upload keeps the books: the file it leaves is whole. *)
LEMMA EndKeeps ==
  ASSUME FilesInv, NEW c \in Credentials, NEW t \in Tokens, F!End(c, t)
  PROVE  FilesInv'
<1>1. /\ sender[t].st = "sending" /\ sender[t].at = Size /\ incoming[t].owner = {c}
      /\ UNCHANGED <<paired, revoking, revoked, outgoing, idle, leftover>>
      BY DEF F!End, F!Finish, F!TakesOwned, F!access
<1>2. incoming[t].written = Size /\ disk[t] = {Size}
      BY <1>1 DEF FilesInv, BooksInv
<1>3. CASE F!Finish(c, t, FALSE) /\ F!Sends(t, "gone")
  <2>1. /\ incoming' = F!Retire({t}, {}) /\ disk' = F!Removed({t})
        /\ files' = files \cup {[token |-> t, len |-> l] : l \in disk[t]}
        BY <1>2, <1>3 DEF F!Finish
  <2>2. F!FilesAreWhole'
        BY <1>2, <2>1 DEF FilesInv, F!TransfersAreAccounted, F!FilesAreWhole
  <2> QED BY <1>1, <1>3, <2>1, <2>2, TakenKeeps
<1>4. CASE F!Finish(c, t, TRUE) /\ F!GivesUp(t)
  <2>1. incoming' = incoming /\ disk' = disk /\ files' = files /\ F!Sends(t, "cancelling")
        BY <1>2, <1>4 DEF F!Finish, F!GivesUp
  <2>2. incoming' = F!Retire({}, {}) /\ disk' = F!Removed({})
        BY <2>1, RetireNothing
  <2>3. F!FilesAreWhole'
        BY <2>1 DEF FilesInv, F!TransfersAreAccounted, F!FilesAreWhole
  <2> QED BY <1>1, <2>1, <2>2, <2>3, TakenKeeps
<1> QED BY <1>3, <1>4 DEF F!End

(* A cancellation, and one that is lost, keep the books. *)
LEMMA CancelKeeps ==
  ASSUME FilesInv, NEW c \in Credentials, NEW t \in Tokens, F!Cancel(c, t)
  PROVE  FilesInv'
<1>1. /\ F!Sends(t, "gone") /\ UNCHANGED <<paired, revoking, revoked, outgoing, idle, leftover, files>>
      BY DEF F!Cancel, F!CancelIncoming, F!access
<1>2. F!FilesAreWhole'
      BY <1>1 DEF FilesInv, F!TransfersAreAccounted, F!FilesAreWhole
<1>3. CASE incoming' = F!Retire({t}, {}) /\ disk' = F!Removed({t})
      BY <1>1, <1>2, <1>3, TakenKeeps
<1>4. CASE incoming' = F!Retire({}, {t}) /\ disk' = disk
  <2>1. disk' = F!Removed({})
        BY <1>4, RetireNothing
  <2> QED BY <1>1, <1>2, <1>4, <2>1, TakenKeeps
<1>5. CASE incoming' = incoming /\ disk' = disk
  <2>1. incoming' = F!Retire({}, {}) /\ disk' = F!Removed({})
        BY <1>5, RetireNothing
  <2> QED BY <1>1, <1>2, <2>1, TakenKeeps
<1> QED BY <1>3, <1>4, <1>5 DEF F!Cancel, F!CancelIncoming

(* Nobody holds an entry but the viewer that began it: a stray call takes nothing. *)
LEMMA NoStray ==
  ASSUME FilesInv, NEW c \in Credentials, NEW t \in Tokens, F!Stray(c, t)
  PROVE  FALSE
<1>1. sender[t].by # {c} /\ incoming[t].owner = {c}
      BY DEF F!Stray, F!Finish, F!CancelIncoming, F!TakesOwned
<1> QED BY <1>1 DEF FilesInv, BooksInv

(* A chunk and a new upload keep the types. *)
LEMMA AppendTypes ==
  ASSUME FilesInv, NEW c \in Credentials, NEW t \in Tokens, F!Append(c, t)
  PROVE  FilesTypeInv'
<1>1. PICK n : n = IF Size - sender[t].at < Chunk THEN Size - sender[t].at ELSE Chunk
      OBVIOUS
<1>2. /\ incoming \in [Tokens -> Upload] /\ disk \in [Tokens -> SUBSET Nat] /\ sender \in [Tokens -> Send]
      /\ Size \in Nat /\ Chunk \in Nat
      BY DEF FilesInv, FilesTypeInv, Sizes
<1>3. /\ sender[t].at < Size /\ UNCHANGED <<outgoing, paired, revoking, revoked>>
      /\ incoming' = [incoming EXCEPT ![t].written = @ + n] /\ disk' = [disk EXCEPT ![t] = {l + n : l \in @}]
      /\ \/ sender' = [sender EXCEPT ![t].at = @ + n]
         \/ F!Sends(t, "gone")
      BY <1>1 DEF F!Append, F!access
<1>4. PICK r \in Upload : r = incoming[t]
      BY <1>2
<1>5. PICK q \in Send : q = sender[t]
      BY <1>2
<1>6. n \in Nat /\ r.written \in Nat /\ q.at \in Nat
      BY <1>1, <1>2, <1>3, <1>4, <1>5 DEF Upload, Send
<1>7. [r EXCEPT !.written = r.written + n] \in Upload
      BY <1>6 DEF Upload
<1>8. [q EXCEPT !.at = q.at + n] \in Send
      BY <1>6 DEF Send
<1>9. incoming' \in [Tokens -> Upload]
  <2>1. incoming' = [incoming EXCEPT ![t] = [r EXCEPT !.written = r.written + n]]
        BY <1>2, <1>3, <1>4
  <2> QED BY <1>2, <1>7, <2>1
<1>10. disk' \in [Tokens -> SUBSET Nat]
  <2>1. {l + n : l \in disk[t]} \in SUBSET Nat
        BY <1>2, <1>6
  <2> QED BY <1>2, <1>3, <2>1
<1>11. sender' \in [Tokens -> Send]
  <2>1. CASE sender' = [sender EXCEPT ![t].at = @ + n]
    <3>1. sender' = [sender EXCEPT ![t] = [q EXCEPT !.at = q.at + n]]
          BY <1>2, <1>5, <2>1
    <3> QED BY <1>2, <1>8, <3>1
  <2>2. CASE F!Sends(t, "gone")
        BY <2>2, Given
  <2> QED BY <1>3, <2>1, <2>2
<1> QED BY <1>3, <1>9, <1>10, <1>11 DEF FilesInv, FilesTypeInv

(* An upload that begins keeps the types. *)
LEMMA BeginIncomingTypes ==
  ASSUME FilesInv, NEW c \in Credentials, NEW stuck \in SUBSET Tokens, F!BeginIncoming(c, stuck)
  PROVE  FilesTypeInv'
<1>1. FilesTypeInv /\ F!Stale \ stuck \in SUBSET Tokens /\ stuck \in SUBSET Tokens /\ next \in Tokens
      BY DEF F!BeginIncoming, F!Stale, F!Present, FilesInv
<1>2. PICK gone \in SUBSET Tokens : gone = F!Stale \ stuck
      BY <1>1
<1>3. F!Retire(gone, stuck) \in [Tokens -> Upload] /\ F!Removed(gone) \in [Tokens -> SUBSET Nat]
      BY <1>1, Retirement
<1>4. F!Entry(c) \in Upload /\ [st |-> "sending", at |-> 0, by |-> {c}] \in Send
      BY DEF F!Entry, Upload, Holders, Send
<1>5. /\ incoming' \in {F!Retire(gone, stuck), [F!Retire(gone, stuck) EXCEPT ![next] = F!Entry(c)]}
      /\ disk' \in {F!Removed(gone), [F!Removed(gone) EXCEPT ![next] = {0}]}
      /\ sender' \in {sender, [sender EXCEPT ![next] = [st |-> "sending", at |-> 0, by |-> {c}]]}
      BY <1>2 DEF F!BeginIncoming
<1>6. outgoing' \in [Tokens -> Holders]
      BY DEF F!BeginIncoming, F!Unswept, FilesInv, FilesTypeInv, Holders
<1>7. incoming' \in [Tokens -> Upload] /\ disk' \in [Tokens -> SUBSET Nat]
      BY <1>1, <1>3, <1>4, <1>5
<1>8. sender' \in [Tokens -> Send]
      BY <1>1, <1>4, <1>5 DEF FilesTypeInv
<1>9. UNCHANGED <<paired, revoking, revoked>>
      BY DEF F!BeginIncoming, F!access
<1> QED BY <1>6, <1>7, <1>8, <1>9 DEF FilesInv, FilesTypeInv

(* The other direction sweeps too, whatever it fails to remove. *)
LEMMA SweepsKeeps ==
  ASSUME FilesInv, NEW stuck \in SUBSET Tokens, F!Sweeps(stuck), outgoing' \in [Tokens -> Holders],
         \A u \in Tokens : outgoing'[u] \subseteq outgoing[u] \/ outgoing'[u] \subseteq paired
  PROVE  FilesInv'
<1>1. /\ FilesTypeInv /\ stuck \subseteq F!Stale
      /\ UNCHANGED <<sender, files, leftover, idle, paired, revoked, revoking>>
      BY DEF F!Sweeps, F!access, FilesInv
<1>2. PICK gone \in SUBSET Tokens : gone = F!Stale \ stuck
      BY DEF F!Stale, F!Present
<1>3. incoming' = F!Retire(gone, stuck) /\ disk' = F!Removed(gone)
      BY <1>2 DEF F!Sweeps
<1>4. /\ F!Retire(gone, stuck) \in [Tokens -> Upload] /\ F!Removed(gone) \in [Tokens -> SUBSET Nat]
      /\ \A t \in gone : F!Retire(gone, stuck)[t] = F!Absent /\ F!Removed(gone)[t] = {}
      /\ \A t \in Tokens \ gone : F!Retire(gone, stuck)[t].owner = incoming[t].owner
      /\ \A t \in stuck \ gone : F!Retire(gone, stuck)[t].retired
      /\ \A t \in Tokens \ (gone \cup stuck) : F!Retire(gone, stuck)[t] = incoming[t]
      BY <1>1, Retirement
<1>5. FilesTypeInv'
      BY <1>1, <1>3, <1>4 DEF FilesTypeInv
<1>6. BooksInv' /\ F!PartsAreTracked' /\ F!FilesAreWhole'
      BY <1>1, <1>2, <1>3, <1>5, RetirementKeeps
<1>7. F!UploadsAreKept'
  <2>1. \A t \in Tokens : sender[t].st = "sending" /\ sender[t].by \subseteq paired /\ t \notin idle' =>
          t \notin idle /\ incoming'[t] = incoming[t]
        BY <1>1, <1>2, <1>3, <1>4, NotStale
  <2> QED BY <1>1, <2>1, UploadsKept
<1>8. F!RevokedHoldsNothing'
  <2>1. \A u \in Tokens : \/ incoming'[u].owner = incoming[u].owner /\ (incoming[u].retired => incoming'[u].retired)
                          \/ incoming'[u].owner = {}
    <3>1. F!Absent.owner = {}
          BY DEF F!Absent
    <3> QED BY <1>2, <1>3, <1>4, <3>1
  <2> QED BY <1>1, <2>1, RevokedKept
<1> QED BY <1>1, <1>5, <1>6, <1>7, <1>8 DEF FilesInv, F!TransfersAreAccounted, Sizes

(* What begins or is cancelled in the other direction, after its sweep. *)
LEMMA OutgoingKeeps ==
  ASSUME FilesInv, NEW c \in Credentials, NEW stuck \in SUBSET Tokens,
         F!BeginOutgoing(c, stuck) \/ \E t \in Tokens : F!CancelOutgoing(c, t, stuck)
  PROVE  FilesInv'
<1>1. c \in paired /\ FilesTypeInv /\ F!Sweeps(stuck)
      BY DEF F!BeginOutgoing, F!CancelOutgoing, F!Authorized, FilesInv
<1>2. PICK kept \in [Tokens -> Holders] : kept = F!Unswept
      BY <1>1 DEF FilesTypeInv, Holders, F!Unswept
<1>3. \A u \in Tokens : kept[u] \subseteq outgoing[u]
      BY <1>2 DEF F!Unswept
<1>4. \/ outgoing' = kept
      \/ next \in Tokens /\ outgoing' = [kept EXCEPT ![next] = {c}]
      \/ \E t \in Tokens : outgoing' = [kept EXCEPT ![t] = kept[t] \ {c}]
      BY <1>2 DEF F!BeginOutgoing, F!CancelOutgoing
<1>5. outgoing' \in [Tokens -> Holders] /\ \A u \in Tokens : outgoing'[u] \subseteq outgoing[u] \/ outgoing'[u] \subseteq paired
      BY <1>1, <1>2, <1>3, <1>4 DEF Holders
<1> QED BY <1>1, <1>5, SweepsKeeps

(* A download that ends, and a transfer that falls silent. *)
LEMMA QuietKeeps ==
  ASSUME FilesInv, NEW t \in Tokens,
         (\E c \in Credentials : F!EndOutgoing(c, t)) \/ F!Silent(t)
  PROVE  FilesInv'
<1>1. /\ UNCHANGED <<incoming, disk, files, sender, leftover, paired, revoking, revoked>> /\ idle \subseteq idle'
      /\ outgoing' \in {outgoing, [outgoing EXCEPT ![t] = {}]}
      BY DEF F!EndOutgoing, F!Silent, F!access
<1>2. FilesTypeInv' /\ \A u \in Tokens : outgoing'[u] \subseteq outgoing[u]
      BY <1>1 DEF FilesInv, FilesTypeInv, Holders
<1>3. F!UploadsAreKept'
      BY <1>1, UploadsKept
<1>4. F!RevokedHoldsNothing'
      BY <1>1, <1>2, RevokedKept
<1> QED BY <1>1, <1>2, <1>3, <1>4
    DEF FilesInv, F!TransfersAreAccounted, BooksInv, F!PartsAreTracked, F!Parts, F!Present, F!FilesAreWhole, Sizes

(* A credential that the pairing forgets keeps its entries for the retirement. *)
LEMMA RevokeKeeps ==
  ASSUME FilesInv, NEW c \in Credentials, F!Revoke(c)
  PROVE  FilesInv'
<1>1. /\ UNCHANGED <<incoming, outgoing, idle, disk, files, sender, leftover, revoked>>
      /\ paired' = paired \ {c} /\ revoking' = revoking \cup {c}
      BY DEF F!Revoke
<1>2. FilesTypeInv'
      BY <1>1 DEF FilesInv, FilesTypeInv
<1>3. F!UploadsAreKept'
      BY <1>1, UploadsKept
<1>4. F!RevokedHoldsNothing'
      BY <1>1, RevokedKept
<1> QED BY <1>1, <1>2, <1>3, <1>4
    DEF FilesInv, F!TransfersAreAccounted, BooksInv, F!PartsAreTracked, F!Parts, F!Present, F!FilesAreWhole, Sizes

(* A revocation that returns leaves its credentials nothing but entries whose file resists. *)
LEMMA RetireOwnersKeeps ==
  ASSUME FilesInv, F!RetireOwners
  PROVE  FilesInv'
<1>0. FilesTypeInv
      BY DEF FilesInv
<1>1. PICK kept \in SUBSET F!ToRetire :
        incoming' = F!Retire(F!ToRetire \ kept, kept) /\ disk' = F!Removed(F!ToRetire \ kept)
      BY DEF F!RetireOwners
<1>2. PICK gone \in SUBSET Tokens : gone = F!ToRetire \ kept
      BY DEF F!ToRetire, F!Present
<1>3. /\ kept \in SUBSET Tokens /\ gone \cap kept = {} /\ gone \cup kept = F!ToRetire
      /\ incoming' = F!Retire(gone, kept) /\ disk' = F!Removed(gone)
      BY <1>1, <1>2 DEF F!ToRetire, F!Present
<1>4. /\ revoking' = {} /\ revoked' = revoked \cup revoking
      /\ outgoing' = [t \in Tokens |-> outgoing[t] \ revoking]
      /\ UNCHANGED <<paired, idle, files, sender, leftover>>
      BY DEF F!RetireOwners
<1>5. /\ F!Retire(gone, kept) \in [Tokens -> Upload] /\ F!Removed(gone) \in [Tokens -> SUBSET Nat]
      /\ \A u \in gone : F!Retire(gone, kept)[u] = F!Absent
      /\ \A u \in Tokens \ gone : F!Retire(gone, kept)[u].owner = incoming[u].owner
      /\ \A u \in kept \ gone : F!Retire(gone, kept)[u].retired
      /\ \A u \in Tokens \ (gone \cup kept) : F!Retire(gone, kept)[u] = incoming[u]
      BY <1>0, <1>3, Retirement
<1>6. FilesTypeInv'
  <2>1. outgoing' \in [Tokens -> Holders]
        BY <1>0, <1>4 DEF FilesTypeInv, Holders
  <2>2. paired' \cap (revoking' \cup revoked') = {} /\ revoked' \subseteq Credentials
        BY <1>0, <1>4 DEF FilesTypeInv
  <2> QED BY <1>0, <1>3, <1>4, <1>5, <2>1, <2>2 DEF FilesTypeInv
<1>7. BooksInv' /\ F!PartsAreTracked' /\ F!FilesAreWhole'
      BY <1>3, <1>4, <1>6, RetirementKeeps
<1>8. F!UploadsAreKept'
  <2>1. ASSUME NEW t \in Tokens, sender[t].st = "sending", sender[t].by \subseteq paired, t \notin idle
        PROVE  incoming'[t] = incoming[t]
    <3>1. incoming[t] = [owner |-> sender[t].by, written |-> sender[t].at, retired |-> FALSE]
          BY <2>1 DEF FilesInv, F!TransfersAreAccounted, F!UploadsAreKept
    <3>2. incoming[t].owner \subseteq paired /\ ~incoming[t].retired
          BY <2>1, <3>1
    <3>3. paired \cap revoking = {}
          BY <1>0 DEF FilesTypeInv
    <3>4. t \notin F!ToRetire
          BY <3>2, <3>3 DEF F!ToRetire, F!Present
    <3> QED BY <1>3, <1>5, <3>4
  <2> QED BY <1>4, <2>1, UploadsKept
<1>9. F!RevokedHoldsNothing'
  <2>1. ASSUME NEW t \in Tokens, incoming'[t].owner \subseteq revoked', incoming'[t].owner # {}
        PROVE  incoming'[t].retired
    <3>1. t \notin gone
          BY <1>3, <1>5, <2>1 DEF F!Absent
    <3>2. CASE t \in kept
          BY <1>3, <1>5, <3>1, <3>2
    <3>3. CASE t \notin kept
      <4>1. incoming'[t] = incoming[t] /\ t \notin F!ToRetire
            BY <1>3, <1>5, <3>1, <3>3
      <4>2. ~(incoming[t].owner \subseteq revoking) \/ incoming[t].owner = {}
            BY <4>1 DEF F!ToRetire, F!Present
      <4>3. PICK c : incoming[t].owner = {c}
        <5>1. incoming[t].owner \in Holders /\ incoming[t].owner # {}
              BY <1>0, <2>1, <4>1 DEF FilesTypeInv, Upload
        <5> QED BY <5>1 DEF Holders
      <4>4. c \in revoked
            BY <1>4, <2>1, <4>1, <4>2, <4>3
      <4> QED BY <2>1, <4>1, <4>3, <4>4 DEF FilesInv, F!TransfersAreAccounted, F!RevokedHoldsNothing
    <3> QED BY <3>2, <3>3
  <2>2. \A t \in Tokens : outgoing'[t] \cap revoked' = {}
        BY <1>4 DEF FilesInv, F!TransfersAreAccounted, F!RevokedHoldsNothing
  <2> QED BY <2>1, <2>2 DEF F!RevokedHoldsNothing
<1> QED BY <1>6, <1>7, <1>8, <1>9 DEF FilesInv, F!TransfersAreAccounted, Sizes

(* A restart forgets the table; the staging files are left over. *)
LEMMA RestartKeeps ==
  ASSUME FilesInv, F!Restart
  PROVE  FilesInv'
<1>0. FilesTypeInv
      BY DEF FilesInv
<1>1. /\ incoming' = [t \in Tokens |-> F!Absent] /\ outgoing' = [t \in Tokens |-> {}]
      /\ sender' = [t \in Tokens |-> IF sender[t].st = "none" THEN sender[t] ELSE [sender[t] EXCEPT !.st = "gone"]]
      /\ leftover' = F!Parts /\ revoking' = {} /\ revoked' = revoked \cup revoking
      /\ UNCHANGED <<paired, disk, files>>
      BY DEF F!Restart
<1>2. F!Absent \in Upload /\ F!Absent.owner = {}
      BY DEF F!Absent, Upload, Holders
<1>3. \A t \in Tokens : sender'[t] \in Send /\ sender'[t].st # "sending"
  <2>1. ASSUME NEW t \in Tokens
        PROVE  sender'[t] \in Send /\ sender'[t].st # "sending"
    <3>1. PICK q \in Send : q = sender[t]
          BY <1>0 DEF FilesTypeInv
    <3>2. [q EXCEPT !.st = "gone"] \in Send /\ [q EXCEPT !.st = "gone"].st = "gone"
          BY DEF Send
    <3> QED BY <1>1, <3>1, <3>2
  <2> QED BY <2>1
<1>4. sender' \in [Tokens -> Send]
      BY <1>1, <1>3
<1>5. FilesTypeInv'
  <2>1. paired' \cap (revoking' \cup revoked') = {} /\ revoked' \subseteq Credentials /\ revoking' \subseteq Credentials
        BY <1>0, <1>1 DEF FilesTypeInv
  <2> QED BY <1>0, <1>1, <1>2, <1>4, <2>1 DEF FilesTypeInv, Holders
<1>6. BooksInv' /\ F!UploadsAreKept' /\ F!RevokedHoldsNothing'
      BY <1>1, <1>2, <1>3 DEF BooksInv, F!UploadsAreKept, F!RevokedHoldsNothing
<1>7. F!PartsAreTracked'
      BY <1>1 DEF F!PartsAreTracked, F!Parts
<1> QED BY <1>1, <1>5, <1>6, <1>7 DEF FilesInv, F!TransfersAreAccounted, F!FilesAreWhole, Sizes

(* The books hold at the start. *)
LEMMA FilesInit ==
  ASSUME Sizes, F!Init
  PROVE  FilesInv
<1>1. F!Absent \in Upload /\ F!Absent.owner = {} /\ [st |-> "none", at |-> 0, by |-> {}] \in Send
      BY DEF F!Absent, Upload, Holders, Send
<1>2. \A t \in Tokens : incoming[t].owner = {} /\ disk[t] = {} /\ outgoing[t] = {} /\ sender[t].st = "none"
      BY <1>1 DEF F!Init
<1>3. FilesTypeInv
      BY <1>1 DEF F!Init, FilesTypeInv, Holders
<1>4. BooksInv /\ F!PartsAreTracked /\ F!UploadsAreKept /\ F!RevokedHoldsNothing
      BY <1>2 DEF BooksInv, F!PartsAreTracked, F!Parts, F!UploadsAreKept, F!RevokedHoldsNothing
<1> QED BY <1>3, <1>4 DEF FilesInv, F!TransfersAreAccounted, F!FilesAreWhole, F!Init

(* Every step of the file transfer keeps the books. *)
LEMMA FilesStepKeeps ==
  ASSUME FilesInv, F!Next
  PROVE  FilesInv'
<1>1. ASSUME NEW c \in Credentials, NEW stuck \in SUBSET Tokens, F!BeginIncoming(c, stuck) PROVE FilesInv'
      BY <1>1, BeginIncomingTypes, BeginIncomingKeeps
<1>2. ASSUME NEW c \in Credentials, NEW stuck \in SUBSET Tokens,
             F!BeginOutgoing(c, stuck) \/ \E t \in Tokens : F!CancelOutgoing(c, t, stuck)
      PROVE  FilesInv'
      BY <1>2, OutgoingKeeps
<1>3. ASSUME NEW c \in Credentials, F!Revoke(c) PROVE FilesInv'
      BY <1>3, RevokeKeeps
<1>4. ASSUME NEW c \in Credentials, NEW t \in Tokens, F!Append(c, t) PROVE FilesInv'
      BY <1>4, AppendTypes, AppendKeeps
<1>5. ASSUME NEW c \in Credentials, NEW t \in Tokens, F!AppendFails(c, t) PROVE FilesInv'
      BY <1>5, AppendFailsKeeps
<1>6. ASSUME NEW c \in Credentials, NEW t \in Tokens, F!End(c, t) PROVE FilesInv'
      BY <1>6, EndKeeps
<1>7. ASSUME NEW c \in Credentials, NEW t \in Tokens, F!Cancel(c, t) PROVE FilesInv'
      BY <1>7, CancelKeeps
<1>8. ASSUME NEW c \in Credentials, NEW t \in Tokens, F!Stray(c, t) PROVE FilesInv'
      BY <1>8, NoStray
<1>9. ASSUME NEW c \in Credentials, NEW t \in Tokens, F!EndOutgoing(c, t) PROVE FilesInv'
      BY <1>9, QuietKeeps
<1>10. ASSUME NEW t \in Tokens, F!Refused(t) PROVE FilesInv'
      BY <1>10, RefusedKeeps
<1>11. ASSUME NEW t \in Tokens, F!Silent(t) PROVE FilesInv'
      BY <1>11, QuietKeeps
<1>12. CASE F!RetireOwners
      BY <1>12, RetireOwnersKeeps
<1>13. CASE F!Restart
      BY <1>13, RestartKeeps
<1> QED BY <1>1, <1>2, <1>3, <1>4, <1>5, <1>6, <1>7, <1>8, <1>9, <1>10, <1>11, <1>12, <1>13 DEF F!Next

(* Nothing of the books moves while the file transfer stands still. *)
LEMMA FilesStutter ==
  ASSUME FilesInv, UNCHANGED F!vars
  PROVE  FilesInv'
BY DEF FilesInv, F!vars, FilesTypeInv, BooksInv, F!TransfersAreAccounted, F!UploadsAreKept, F!PartsAreTracked, F!Parts,
       F!Present, F!FilesAreWhole, F!RevokedHoldsNothing, Sizes
(* An upload is taken by nobody but its owner, every staging file has an entry, a file *)
(* appears only whole, and a revoked credential holds nothing (file_transfer.rs), for *)
(* every size of a file and of a chunk, and however many calls fail or come late. *)
THEOREM Transfers ==
  ASSUME Sizes
  PROVE  Spec => []TransfersAreAccounted
<1>1. Init => FilesInv
      BY FilesInit DEF Init
<1>2. FilesInv /\ [Next]_vars => FilesInv'
  <2> SUFFICES ASSUME FilesInv, [Next]_vars PROVE FilesInv'
      OBVIOUS
  <2>1. CASE FilesStep
        BY <2>1, FilesStepKeeps DEF FilesStep
  <2>2. CASE UNCHANGED filesVars
        BY <2>2, FilesStutter DEF filesVars, F!vars
  <2> QED BY <2>1, <2>2 DEF Next, PairingStep, PeersStep, KmStep, CurtainStep, vars
<1>3. FilesInv => TransfersAreAccounted
      BY DEF FilesInv, TransfersAreAccounted
<1> QED BY <1>1, <1>2, <1>3, PTL DEF Spec

HostFields == {"up", "shutting", "live", "owner", "fails", "pending", "completed", "rejected",
               "paired", "gen", "gens", "leases"}
PastFields == {"begun", "minted", "faults", "crashes", "closed", "issued", "held", "condemned", "revoked"}
CredsOf(S) == {r.cred : r \in S}
Minted == 1 .. past.minted

(* The records have their fields, and what the offers leave behind is of those begun. *)
Shape ==
  /\ host = [f \in HostFields |-> host[f]] /\ past = [f \in PastFields |-> past[f]]
  /\ host.up \in BOOLEAN
  /\ past.begun \in Nat /\ past.minted \in Nat /\ past.faults \in {0, 1}
  /\ svc \in [P!Offers -> {"none", "open", "late", "used", "gone"}]

OfferInv ==
  /\ host.live \subseteq {past.begun} \cap P!Offers /\ (host.live # {} => host.up)
  /\ past.closed \subseteq 1 .. past.begun
  /\ DOMAIN host.pending \subseteq 1 .. past.begun
  /\ \A o \in DOMAIN host.pending : host.pending[o] \in P!Request
  /\ DOMAIN host.completed \subseteq {past.begun}
  /\ host.owner \in {<<>>} \cup ((1 .. past.begun) \X Views)
  /\ \A o \in P!Offers : svc[o] = "open" => o \in host.live /\ o \notin past.closed /\ o \notin DOMAIN host.completed

(* What the steps that pair nobody leave alone. *)
Aside ==
  /\ host'.up = host.up /\ host'.paired = host.paired /\ host'.gen = host.gen /\ host'.gens = host.gens
  /\ host'.leases \subseteq host.leases
  /\ \A o \in DOMAIN host'.completed : o \in DOMAIN host.completed /\ host'.completed[o] = host.completed[o]
  /\ UNCHANGED <<job, file, keychain, auths>>
  /\ past'.minted = past.minted /\ past'.faults = past.faults /\ past'.issued = past.issued
  /\ past'.condemned = past.condemned /\ past'.revoked = past.revoked

(* A new offer replaces the one before it. *)
LEMMA BeginAside ==
  ASSUME Shape, OfferInv, NEW view \in Views, P!Begin(view), MaxOffers \in Nat
  PROVE  Shape' /\ OfferInv' /\ Aside
<1>1. PICK o : o = past.begun + 1
      OBVIOUS
<1>2. o \in P!Offers /\ o \in Nat /\ o # past.begun
      BY <1>1 DEF P!Begin, Shape, P!Offers
<1>3. /\ svc' = [P!Cancel(host.live) EXCEPT ![o] = "open"]
      /\ host' = [P!Superseded(host) EXCEPT !.live = {o}, !.owner = <<o, view>>]
      /\ past' = [past EXCEPT !.begun = o, !.closed = @ \cup host.live]
      /\ UNCHANGED <<job, file, keychain, auths>>
      BY <1>1 DEF P!Begin
<1>4. /\ host' = [f \in HostFields |-> host'[f]] /\ host'.live = {o} /\ host'.owner = <<o, view>>
      /\ host'.pending = <<>> /\ host'.completed = <<>> /\ host'.leases = host.leases
      /\ host'.up = host.up /\ host'.paired = host.paired /\ host'.gen = host.gen /\ host'.gens = host.gens
      BY <1>3 DEF Shape, HostFields, P!Superseded, P!ClearedBy
<1>5. /\ past' = [f \in PastFields |-> past'[f]] /\ past'.begun = o /\ past'.closed = past.closed \cup host.live
      /\ past'.minted = past.minted /\ past'.faults = past.faults /\ past'.issued = past.issued
      /\ past'.condemned = past.condemned /\ past'.revoked = past.revoked
      BY <1>3 DEF Shape, PastFields
<1>6. /\ svc' \in [P!Offers -> {"none", "open", "late", "used", "gone"}]
      /\ \A q \in P!Offers : svc'[q] = "open" => q = o \/ (svc[q] = "open" /\ q \notin host.live)
      BY <1>2, <1>3 DEF Shape, P!Cancel
<1>7. Shape'
      BY <1>2, <1>4, <1>5, <1>6 DEF Shape
<1>8. o \notin past.closed \cup host.live /\ past.closed \cup host.live \subseteq 1 .. o
  <2>1. past.begun \in Nat /\ past.closed \subseteq 1 .. past.begun /\ host.live \subseteq {past.begun} /\ host.live \subseteq 1 .. MaxOffers
        BY DEF OfferInv, Shape, P!Offers
  <2>2. 1 .. past.begun \subseteq 1 .. o /\ o \notin 1 .. past.begun /\ host.live \subseteq 1 .. past.begun
        BY <1>1, <2>1
  <2> QED BY <1>2, <2>1, <2>2
<1>9. DOMAIN <<>> = {}
      OBVIOUS
<1>10. OfferInv'
  <2>1. \A q \in P!Offers : svc'[q] = "open" => q = o
        BY <1>6 DEF OfferInv
  <2>2. host'.owner \in (1 .. o) \X Views
    <3>1. o \in 1 .. o
          BY <1>2 DEF P!Offers
    <3> QED BY <1>4, <3>1
  <2>3. host'.up
        BY <1>4 DEF P!Begin, P!Free
  <2> QED BY <1>2, <1>4, <1>5, <1>8, <1>9, <2>1, <2>2, <2>3 DEF OfferInv
<1> QED BY <1>3, <1>4, <1>5, <1>7, <1>9, <1>10 DEF Aside

(* A step by which offers close, and none opens. *)
Closing(closed) ==
  /\ host'.live \subseteq host.live /\ DOMAIN host'.pending \subseteq 1 .. past.begun
  /\ \A o \in DOMAIN host'.pending : host'.pending[o] \in P!Request
  /\ host'.owner \in {host.owner, <<>>}
  /\ past'.begun = past.begun /\ past'.closed = past.closed \cup closed
  /\ \A o \in P!Offers : svc'[o] = "open" => svc[o] = "open" /\ o \notin closed /\ (o \in host.live => o \in host'.live)

(* Closing offers keeps what is known of them. *)
LEMMA ClosingKeeps ==
  ASSUME Shape, OfferInv, Shape', Aside, NEW closed \in SUBSET (1 .. past.begun), Closing(closed)
  PROVE  OfferInv'
<1>1. DOMAIN host'.completed \subseteq DOMAIN host.completed /\ host'.up = host.up
      BY DEF Aside
<1> QED BY <1>1 DEF Closing, OfferInv, Shape

(* The live offers have been begun. *)
LEMMA Begun ==
  ASSUME Shape, OfferInv, MaxOffers \in Nat
  PROVE  host.live \subseteq 1 .. past.begun /\ 1 .. past.begun \subseteq Nat
<1>1. past.begun \in Nat
      BY DEF Shape
<1>2. ASSUME NEW o \in host.live PROVE o \in 1 .. past.begun
  <2>1. o = past.begun /\ o \in 1 .. MaxOffers
        BY <1>2 DEF OfferInv, P!Offers
  <2> QED BY <1>1, <2>1
<1> QED BY <1>1, <1>2

(* A panel closes its own offer. *)
LEMMA CancelOwnedAside ==
  ASSUME Shape, OfferInv, MaxOffers \in Nat, NEW o \in 1 .. past.begun, P!CancelOwned(o)
  PROVE  Shape' /\ OfferInv' /\ Aside
<1>1. /\ svc' = P!Cancel({o})
      /\ host' = [host EXCEPT !.live = @ \ {o}, !.fails[o] = 0, !.pending = P!Drop(@, {o}),
                          !.completed = P!Drop(@, {o}), !.rejected = @ \ {o}, !.owner = <<>>]
      /\ past' = [past EXCEPT !.closed = @ \cup {o}]
      /\ UNCHANGED <<job, file, keychain, auths>>
      BY DEF P!CancelOwned
<1>2. /\ host' = [f \in HostFields |-> host'[f]] /\ host'.live = host.live \ {o} /\ host'.owner = <<>>
      /\ host'.pending = P!Drop(host.pending, {o}) /\ host'.completed = P!Drop(host.completed, {o})
      /\ host'.leases = host.leases
      /\ host'.up = host.up /\ host'.paired = host.paired /\ host'.gen = host.gen /\ host'.gens = host.gens
      BY <1>1 DEF Shape, HostFields
<1>3. /\ past' = [f \in PastFields |-> past'[f]] /\ past'.closed = past.closed \cup {o} /\ past'.begun = past.begun
      /\ past'.minted = past.minted /\ past'.faults = past.faults /\ past'.issued = past.issued
      /\ past'.condemned = past.condemned /\ past'.revoked = past.revoked
      BY <1>1 DEF Shape, PastFields
<1>4. /\ svc' \in [P!Offers -> {"none", "open", "late", "used", "gone"}]
      /\ \A q \in P!Offers : svc'[q] = "open" => svc[q] = "open" /\ q # o
      BY <1>1 DEF Shape, P!Cancel
<1>5. Shape'
      BY <1>2, <1>3, <1>4 DEF Shape
<1>6. \A q \in DOMAIN host'.completed : q \in DOMAIN host.completed /\ host'.completed[q] = host.completed[q]
      BY <1>2 DEF P!Drop
<1>7. Aside
      BY <1>1, <1>2, <1>3, <1>6 DEF Aside
<1>8. Closing({o})
      BY <1>2, <1>3, <1>4 DEF Closing, OfferInv, P!Drop
<1> QED BY <1>5, <1>7, <1>8, ClosingKeeps

(* Every offer is withdrawn. *)
LEMMA CancelActiveAside ==
  ASSUME Shape, OfferInv, MaxOffers \in Nat, P!CancelActive
  PROVE  Shape' /\ OfferInv' /\ Aside
<1>1. /\ svc' = P!Cancel(host.live)
      /\ host' = [P!ClearedBy(host) EXCEPT !.owner = <<>>]
      /\ past' = [past EXCEPT !.closed = @ \cup host.live]
      /\ UNCHANGED <<job, file, keychain, auths>>
      BY DEF P!CancelActive
<1>2. /\ host' = [f \in HostFields |-> host'[f]] /\ host'.live = {} /\ host'.owner = <<>>
      /\ host'.pending = <<>> /\ host'.completed = <<>> /\ host'.leases = host.leases
      /\ host'.up = host.up /\ host'.paired = host.paired /\ host'.gen = host.gen /\ host'.gens = host.gens
      BY <1>1 DEF Shape, HostFields, P!ClearedBy
<1>3. /\ past' = [f \in PastFields |-> past'[f]] /\ past'.closed = past.closed \cup host.live /\ past'.begun = past.begun
      /\ past'.minted = past.minted /\ past'.faults = past.faults /\ past'.issued = past.issued
      /\ past'.condemned = past.condemned /\ past'.revoked = past.revoked
      BY <1>1 DEF Shape, PastFields
<1>4. /\ svc' \in [P!Offers -> {"none", "open", "late", "used", "gone"}]
      /\ \A q \in P!Offers : svc'[q] = "open" => svc[q] = "open" /\ q \notin host.live
      BY <1>1 DEF Shape, P!Cancel
<1>5. Shape'
      BY <1>2, <1>3, <1>4 DEF Shape
<1>6. DOMAIN <<>> = {}
      OBVIOUS
<1>7. Aside
      BY <1>1, <1>2, <1>3, <1>6 DEF Aside
<1>8. Closing(host.live)
      BY <1>2, <1>3, <1>4, <1>6 DEF Closing
<1> QED BY <1>5, <1>7, <1>8, Begun, ClosingKeeps

(* The third failure closes its offer. *)
LEMMA FailAside ==
  ASSUME Shape, OfferInv, MaxOffers \in Nat, NEW S \in SUBSET host.live, P!Fail(S)
  PROVE  Shape' /\ OfferInv' /\ Aside
<1>1. PICK burnt : burnt = P!BurntOf(S)
      OBVIOUS
<1>2. burnt \subseteq host.live
      BY <1>1 DEF P!BurntOf
<1>3. /\ svc' = P!Cancel(burnt)
      /\ host' = [host EXCEPT !.live = @ \ burnt, !.fails = host'.fails]
      /\ past' = [past EXCEPT !.closed = @ \cup burnt]
      /\ UNCHANGED <<job, file, keychain, auths>>
  <2>1. host' = [host EXCEPT !.live = @ \ P!BurntOf(S),
                             !.fails = [o \in P!Offers |-> IF o \in P!BurntOf(S) THEN 0
                                                         ELSE IF o \in S THEN @[o] + 1 ELSE @[o]]]
        BY DEF P!Fail
  <2>2. PICK fails : host' = [host EXCEPT !.live = @ \ burnt, !.fails = fails]
        BY <1>1, <2>1
  <2>3. host'.fails = fails
        BY <2>2 DEF Shape, HostFields
  <2> QED BY <1>1, <2>2, <2>3 DEF P!Fail, P!Burnt
<1>4. /\ host' = [f \in HostFields |-> host'[f]] /\ host'.live = host.live \ burnt /\ host'.owner = host.owner
      /\ host'.pending = host.pending /\ host'.completed = host.completed /\ host'.leases = host.leases
      /\ host'.up = host.up /\ host'.paired = host.paired /\ host'.gen = host.gen /\ host'.gens = host.gens
      BY <1>3 DEF Shape, HostFields
<1>5. /\ past' = [f \in PastFields |-> past'[f]] /\ past'.closed = past.closed \cup burnt /\ past'.begun = past.begun
      /\ past'.minted = past.minted /\ past'.faults = past.faults /\ past'.issued = past.issued
      /\ past'.condemned = past.condemned /\ past'.revoked = past.revoked
      BY <1>3 DEF Shape, PastFields
<1>6. /\ svc' \in [P!Offers -> {"none", "open", "late", "used", "gone"}]
      /\ \A q \in P!Offers : svc'[q] = "open" => svc[q] = "open" /\ q \notin burnt
      BY <1>3 DEF Shape, P!Cancel
<1>7. Shape'
      BY <1>4, <1>5, <1>6 DEF Shape
<1>8. Aside
      BY <1>3, <1>4, <1>5 DEF Aside
<1>9. Closing(burnt)
      BY <1>4, <1>5, <1>6 DEF Closing, OfferInv
<1> QED BY <1>2, <1>7, <1>8, <1>9, Begun, ClosingKeeps

(* A rejected request takes its offer with it. *)
LEMMA RejectAside ==
  ASSUME Shape, OfferInv, MaxOffers \in Nat, NEW o \in P!Offers, P!RejectPending(o)
  PROVE  Shape' /\ OfferInv' /\ Aside
<1>1. /\ o \in DOMAIN host.pending /\ svc' = P!Cancel({o})
      /\ host' = [host EXCEPT !.pending = P!Drop(@, {o}), !.live = @ \ {o}, !.rejected = @ \cup {o}]
      /\ past' = [past EXCEPT !.closed = @ \cup {o}]
      /\ UNCHANGED <<job, file, keychain, auths>>
      BY DEF P!RejectPending
<1>2. /\ host' = [f \in HostFields |-> host'[f]] /\ host'.live = host.live \ {o} /\ host'.owner = host.owner
      /\ host'.pending = P!Drop(host.pending, {o}) /\ host'.completed = host.completed
      /\ host'.leases = host.leases
      /\ host'.up = host.up /\ host'.paired = host.paired /\ host'.gen = host.gen /\ host'.gens = host.gens
      BY <1>1 DEF Shape, HostFields
<1>3. /\ past' = [f \in PastFields |-> past'[f]] /\ past'.closed = past.closed \cup {o} /\ past'.begun = past.begun
      /\ past'.minted = past.minted /\ past'.faults = past.faults /\ past'.issued = past.issued
      /\ past'.condemned = past.condemned /\ past'.revoked = past.revoked
      BY <1>1 DEF Shape, PastFields
<1>4. /\ svc' \in [P!Offers -> {"none", "open", "late", "used", "gone"}]
      /\ \A q \in P!Offers : svc'[q] = "open" => svc[q] = "open" /\ q # o
      BY <1>1 DEF Shape, P!Cancel
<1>5. Shape'
      BY <1>2, <1>3, <1>4 DEF Shape
<1>6. Aside
      BY <1>1, <1>2, <1>3 DEF Aside
<1>7. Closing({o})
      BY <1>2, <1>3, <1>4 DEF Closing, OfferInv, P!Drop
<1>8. {o} \in SUBSET (1 .. past.begun)
      BY <1>1 DEF OfferInv
<1> QED BY <1>5, <1>6, <1>7, <1>8, ClosingKeeps

(* Time passes, requests wait, are listed, grow stale or are dropped. *)
LEMMA WaitingAside ==
  ASSUME Shape, OfferInv, past' = past, UNCHANGED <<job, file, keychain, auths>>,
         svc' \in [P!Offers -> {"none", "open", "late", "used", "gone"}],
         \A q \in P!Offers : svc'[q] = "open" => svc[q] = "open",
         NEW pending, DOMAIN pending \subseteq 1 .. past.begun,
         \A q \in DOMAIN pending : pending[q] \in P!Request,
         host' = [host EXCEPT !.pending = pending]
  PROVE  Shape' /\ OfferInv' /\ Aside
<1>1. /\ host' = [f \in HostFields |-> host'[f]] /\ host'.live = host.live /\ host'.owner = host.owner
      /\ host'.pending = pending /\ host'.completed = host.completed /\ host'.leases = host.leases
      /\ host'.up = host.up /\ host'.paired = host.paired /\ host'.gen = host.gen /\ host'.gens = host.gens
      BY DEF Shape, HostFields
<1>2. Shape' /\ Aside
      BY <1>1 DEF Shape, Aside
<1>3. Closing({})
      BY <1>1 DEF Closing
<1> QED BY <1>2, <1>3, ClosingKeeps

(* The devices that are paired, in memory and in the file: one credential each. *)
PairedRec == [device : Devices, name : Names, cred : Nat, token : BOOLEAN]
FileRec == [device : Devices, name : Names, cred : Nat, inline : {FALSE}]
Distinct(S) == \A r, q \in S : r.device = q.device \/ r.cred = q.cred => r = q

DeviceInv ==
  /\ host.paired \subseteq PairedRec /\ CredsOf(host.paired) \subseteq Minted /\ Distinct(host.paired)
  /\ file \subseteq FileRec /\ CredsOf(file) \subseteq Minted /\ Distinct(file)
  /\ keychain \subseteq Minted /\ past.condemned \subseteq Minted
  /\ ~host.up => auths = {} /\ job = P!None

(* An authorization of the current generation was made from the credential in force. *)
GenInv ==
  /\ host.gen \in Nat
  /\ \A d \in DOMAIN host.gens : host.gens[d] \in Nat /\ host.gens[d] <= host.gen
  /\ \A r \in host.paired : r.device \in DOMAIN host.gens
  /\ host.leases \subseteq CredsOf(host.paired)
  /\ \A a \in auths : /\ a.gen \in Nat /\ a.gen <= host.gen
                      /\ a.device \in DOMAIN host.gens /\ host.gens[a.device] = a.gen =>
                           \E r \in host.paired : r.device = a.device /\ r.cred = a.cred
  /\ P!PickupIsCurrent

(* What was committed can be loaded; what was revoked has lost its token or its record. *)
CredInv ==
  /\ CredsOf(file) \cup CredsOf(host.paired) \subseteq keychain \cup past.condemned
  /\ past.revoked \subseteq past.condemned
  /\ \A c \in past.revoked : c \notin keychain \/ c \notin CredsOf(file) \cup CredsOf(host.paired)
  /\ \A r \in host.paired : r.token => r.cred \notin past.revoked

PairJob == [kind : {"pair"}, at : {"store", "write", "commit"}, offer : P!Offers, device : Devices,
            name : Names, cred : Nat, screen : BOOLEAN]
RevokeJob == [kind : {"revoke"}, at : {"delete", "write"}, creds : SUBSET Nat]

PairingInv ==
  /\ job.cred = past.minted /\ job.cred \in Minted
  /\ job.cred \notin CredsOf(host.paired) \cup past.condemned
  /\ job.at \in {"store", "write"} => job.cred \notin CredsOf(file)
  /\ job.at \in {"write", "commit"} => job.cred \in keychain
  /\ job.at = "commit" => file = P!Written(P!NewPaired)
  /\ job.offer = past.begun /\ job.offer \notin past.closed /\ svc[job.offer] # "open"
  /\ DOMAIN host.completed = {}

RevokingInv ==
  /\ job.creds \cap CredsOf(host.paired) = {} /\ job.creds \subseteq past.condemned
  /\ job.at = "write" /\ past.faults = 0 => job.creds \cap keychain = {}

JobInv ==
  \/ job = P!None
  \/ job \in PairJob /\ PairingInv
  \/ job \in RevokeJob /\ RevokingInv

ServerInv == Shape /\ OfferInv /\ DeviceInv /\ GenInv /\ CredInv /\ JobInv

(* A step that pairs nobody keeps the books. *)
LEMMA AsideKeeps ==
  ASSUME ServerInv, Shape', OfferInv', Aside,
         \/ job = P!None
         \/ past'.closed = past.closed /\ past'.begun = past.begun /\ \A q \in P!Offers : svc'[q] = "open" => svc[q] = "open"
  PROVE  ServerInv'
<1>1. /\ host'.up = host.up /\ host'.paired = host.paired /\ host'.gen = host.gen /\ host'.gens = host.gens
      /\ host'.leases \subseteq host.leases
      /\ \A o \in DOMAIN host'.completed : o \in DOMAIN host.completed /\ host'.completed[o] = host.completed[o]
      /\ job' = job /\ file' = file /\ keychain' = keychain /\ auths' = auths
      /\ past'.minted = past.minted /\ past'.faults = past.faults /\ past'.issued = past.issued
      /\ past'.condemned = past.condemned /\ past'.revoked = past.revoked
      BY DEF Aside
<1>2. DeviceInv' /\ CredInv'
      BY <1>1 DEF ServerInv, DeviceInv, CredInv, Minted, Distinct, CredsOf
<1>3. GenInv'
      BY <1>1 DEF ServerInv, GenInv, CredsOf, P!PickupIsCurrent
<1>4. CASE job = P!None
      BY <1>1, <1>2, <1>3, <1>4 DEF ServerInv, JobInv
<1>5. CASE job \in PairJob /\ PairingInv /\ job # P!None
  <2>1. P!Written(P!NewPaired)' = P!Written(P!NewPaired)
        BY <1>1 DEF P!Written, P!NewPaired, P!Replaced
  <2>2. DOMAIN host'.completed = {} /\ job.offer \in P!Offers
        BY <1>1, <1>5 DEF PairingInv, PairJob
  <2>3. PairingInv'
        BY <1>1, <1>5, <2>1, <2>2 DEF PairingInv, Minted
  <2> QED BY <1>1, <1>2, <1>3, <1>5, <2>3 DEF ServerInv, JobInv
<1>6. CASE job \in RevokeJob /\ RevokingInv
  <2>1. RevokingInv'
        BY <1>1, <1>6 DEF RevokingInv, CredsOf
  <2> QED BY <1>1, <1>2, <1>3, <1>6, <2>1 DEF ServerInv, JobInv
<1> QED BY <1>4, <1>5, <1>6 DEF ServerInv, JobInv

(* What a server that has not started knows. *)
LEMMA BlankHost ==
  ASSUME MaxOffers \in Nat
  PROVE  /\ P!Blank = [f \in HostFields |-> P!Blank[f]]
         /\ P!Blank.up = FALSE /\ P!Blank.live = {} /\ P!Blank.owner = <<>> /\ P!Blank.pending = <<>> /\ P!Blank.completed = <<>>
         /\ P!Blank.paired = {} /\ P!Blank.gen = 0 /\ P!Blank.gens = <<>> /\ P!Blank.leases = {}
         /\ DOMAIN <<>> = {}
<1>1. DOMAIN P!Blank = HostFields
      BY DEF P!Blank, HostFields
<1>2. P!Blank = [f \in DOMAIN P!Blank |-> P!Blank[f]]
      BY DEF P!Blank
<1>3. /\ P!Blank.up = FALSE /\ P!Blank.live = {} /\ P!Blank.owner = <<>> /\ P!Blank.pending = <<>> /\ P!Blank.completed = <<>>
      BY DEF P!Blank
<1>4. P!Blank.paired = {} /\ P!Blank.gen = 0 /\ P!Blank.gens = <<>> /\ P!Blank.leases = {}
      BY DEF P!Blank
<1> QED BY <1>1, <1>2, <1>3, <1>4

(* The process ends; what is on the disk remains. *)
LEMMA CrashKeeps ==
  ASSUME ServerInv, MaxOffers \in Nat, P!Crash
  PROVE  ServerInv'
<1>1. /\ host' = P!Blank /\ svc' = P!NoOffers /\ job' = P!None /\ auths' = {}
      /\ past' = [past EXCEPT !.crashes = @ + 1, !.closed = 1 .. past.begun]
      /\ UNCHANGED <<file, keychain>>
      BY DEF P!Crash
<1>2. /\ past' = [f \in PastFields |-> past'[f]] /\ past'.closed = 1 .. past.begun /\ past'.begun = past.begun
      /\ past'.minted = past.minted /\ past'.faults = past.faults
      /\ past'.condemned = past.condemned /\ past'.revoked = past.revoked
      BY <1>1 DEF ServerInv, Shape, PastFields
<1>3. svc' \in [P!Offers -> {"none", "open", "late", "used", "gone"}] /\ \A o \in P!Offers : svc'[o] = "none"
      BY <1>1 DEF P!NoOffers
<1>4. Shape' /\ OfferInv'
      BY <1>1, <1>2, <1>3, BlankHost DEF ServerInv, Shape, OfferInv
<1>5. DeviceInv' /\ CredInv'
      BY <1>1, <1>2, BlankHost DEF ServerInv, DeviceInv, CredInv, Minted, Distinct, CredsOf
<1>6. GenInv'
      BY <1>1, <1>2, BlankHost DEF ServerInv, GenInv, CredsOf, P!PickupIsCurrent
<1> QED BY <1>1, <1>4, <1>5, <1>6 DEF ServerInv, JobInv

(* The server starts from its file: whoever is in it is paired, with the token that the store *)
(* still gives. *)
LEMMA BootKeeps ==
  ASSUME ServerInv, MaxOffers \in Nat, P!Boot
  PROVE  ServerInv'
<1>1. PICK locked \in SUBSET {r.device : r \in file} :
        LET migrated == {r \in file : r.inline /\ r.device \notin locked}
        IN /\ IF locked = {} THEN UNCHANGED past ELSE P!Fault
           /\ keychain' = keychain \cup {r.cred : r \in migrated}
           /\ file' \in IF migrated = {} THEN {file} ELSE {file, P!Written(file)}
           /\ host' = [P!Blank EXCEPT
                 !.up = TRUE,
                 !.paired = {[device |-> r.device, name |-> r.name, cred |-> r.cred,
                              token |-> r.inline \/ (r.cred \in keychain /\ r.device \notin locked)]
                              : r \in file},
                 !.gens = [d \in {r.device : r \in file} |-> 0]]
      BY DEF P!Boot
<1>2. /\ UNCHANGED <<svc, job, auths>> /\ ~host.up
      BY DEF P!Boot
<1>3. job = P!None /\ auths = {}
      BY <1>2 DEF ServerInv, DeviceInv
<1>4. \A r \in file : ~r.inline /\ r.device \in Devices /\ r.name \in Names /\ r.cred \in Nat
      BY DEF ServerInv, DeviceInv, FileRec
<1>5. {r \in file : r.inline /\ r.device \notin locked} = {}
      BY <1>4
<1>6. file' = file /\ keychain' = keychain
      BY <1>1, <1>5
<1>7. /\ past' = [f \in PastFields |-> past'[f]] /\ past'.closed = past.closed /\ past'.begun = past.begun
      /\ past'.minted = past.minted /\ past'.faults \in {0, 1}
      /\ past'.condemned = past.condemned /\ past'.revoked = past.revoked
      BY <1>1 DEF ServerInv, Shape, PastFields, P!Fault
<1>8. PICK newPaired : /\ host' = [P!Blank EXCEPT !.up = TRUE, !.paired = newPaired, !.gens = [d \in {r.device : r \in file} |-> 0]]
                       /\ newPaired = {[device |-> r.device, name |-> r.name, cred |-> r.cred,
                                 token |-> r.inline \/ (r.cred \in keychain /\ r.device \notin locked)]
                                 : r \in file}
      BY <1>1
<1>9. \A p \in newPaired : p \in PairedRec /\ p.token \in BOOLEAN
                        /\ \E r \in file : p.device = r.device /\ p.cred = r.cred /\ p.name = r.name /\ (p.token => r.cred \in keychain)
                                           /\ p = [device |-> r.device, name |-> r.name, cred |-> r.cred, token |-> p.token]
  <2>1. ASSUME NEW p \in newPaired
        PROVE  p \in PairedRec /\ p.token \in BOOLEAN
               /\ \E r \in file : p.device = r.device /\ p.cred = r.cred /\ p.name = r.name /\ (p.token => r.cred \in keychain)
                                           /\ p = [device |-> r.device, name |-> r.name, cred |-> r.cred, token |-> p.token]
    <3>1. PICK r \in file : p = [device |-> r.device, name |-> r.name, cred |-> r.cred,
                              token |-> r.inline \/ (r.cred \in keychain /\ r.device \notin locked)]
          BY <1>8, <2>1
    <3>2. PICK b \in BOOLEAN : b = (r.inline \/ (r.cred \in keychain /\ r.device \notin locked))
          OBVIOUS
    <3>3. p = [device |-> r.device, name |-> r.name, cred |-> r.cred, token |-> b]
          BY <3>1, <3>2
    <3>4. b => r.cred \in keychain
          BY <1>4, <3>2
    <3> QED BY <1>4, <3>3, <3>4 DEF PairedRec
  <2> QED BY <2>1
<1>10. /\ host' = [f \in HostFields |-> host'[f]] /\ host'.live = {} /\ host'.owner = <<>> /\ host'.up = TRUE
       /\ host'.pending = <<>> /\ host'.completed = <<>> /\ host'.leases = {} /\ host'.gen = 0
       /\ host'.paired = newPaired /\ host'.gens = [d \in {r.device : r \in file} |-> 0]
       BY <1>8, BlankHost DEF HostFields
<1>11. Distinct(newPaired)
  <2>1. ASSUME NEW p \in newPaired, NEW q \in newPaired, p.device = q.device \/ p.cred = q.cred
        PROVE  p = q
    <3>1. PICK r \in file : p = [device |-> r.device, name |-> r.name, cred |-> r.cred,
                              token |-> r.inline \/ (r.cred \in keychain /\ r.device \notin locked)]
          BY <1>8, <2>1
    <3>2. PICK t \in file : q = [device |-> t.device, name |-> t.name, cred |-> t.cred,
                              token |-> t.inline \/ (t.cred \in keychain /\ t.device \notin locked)]
          BY <1>8, <2>1
    <3>3. r.device = t.device \/ r.cred = t.cred
          BY <2>1, <3>1, <3>2
    <3>4. r = t
          BY <3>3 DEF ServerInv, DeviceInv, Distinct
    <3> QED BY <3>1, <3>2, <3>4
  <2> QED BY <2>1 DEF Distinct
<1>12. CredsOf(newPaired) \subseteq CredsOf(file)
      BY <1>9 DEF CredsOf
<1>13. Shape' /\ OfferInv'
  <2>1. \A o \in P!Offers : svc[o] # "open"
        BY <1>2 DEF ServerInv, OfferInv
  <2>2. Shape'
        BY <1>2, <1>7, <1>10 DEF ServerInv, Shape
  <2> QED BY <1>2, <1>7, <1>10, <2>1, <2>2, BlankHost DEF ServerInv, Shape, OfferInv
<1>14. DeviceInv'
      BY <1>6, <1>7, <1>9, <1>10, <1>11, <1>12 DEF ServerInv, DeviceInv, Minted, CredsOf
<1>15. GenInv'
  <2>1. \A r \in newPaired : r.device \in {t.device : t \in file}
        BY <1>9
  <2> QED BY <1>2, <1>3, <1>10, <2>1, BlankHost DEF GenInv, P!PickupIsCurrent
<1>16. CredInv'
  <2>1. \A r \in newPaired : r.token => r.cred \in keychain /\ r.cred \in CredsOf(file)
        BY <1>9 DEF CredsOf
  <2> QED BY <1>6, <1>7, <1>10, <1>12, <2>1 DEF ServerInv, CredInv
<1>17. JobInv'
      BY <1>2, <1>3 DEF JobInv
<1> QED BY <1>13, <1>14, <1>15, <1>16, <1>17 DEF ServerInv

(* An offer that runs out keeps its request waiting, and pairs no more. *)
LEMMA ExpireKeeps ==
  ASSUME ServerInv, NEW o \in P!Offers, P!Expire(o)
  PROVE  ServerInv'
<1>1. host = [host EXCEPT !.pending = host.pending] /\ host' = host
      BY DEF P!Expire, ServerInv, Shape, HostFields
<1>2. /\ svc' \in [P!Offers -> {"none", "open", "late", "used", "gone"}]
      /\ \A q \in P!Offers : svc'[q] = "open" => svc[q] = "open"
      BY DEF P!Expire, ServerInv, Shape
<1>3. past' = past /\ UNCHANGED <<job, file, keychain, auths>> /\ DOMAIN host.pending \subseteq 1 .. past.begun
      /\ \A q \in DOMAIN host.pending : host.pending[q] \in P!Request
      BY DEF P!Expire, ServerInv, OfferInv
<1>4. Shape' /\ OfferInv' /\ Aside
      BY <1>1, <1>2, <1>3, WaitingAside DEF ServerInv
<1> QED BY <1>2, <1>3, <1>4, AsideKeeps

(* Whatever only changes the requests that wait. *)
LEMMA WaitingKeeps ==
  ASSUME ServerInv, past' = past, UNCHANGED <<job, file, keychain, auths>>,
         svc' \in [P!Offers -> {"none", "open", "late", "used", "gone"}],
         \A q \in P!Offers : svc'[q] = "open" => svc[q] = "open",
         NEW pending, DOMAIN pending \subseteq 1 .. past.begun,
         \A q \in DOMAIN pending : pending[q] \in P!Request,
         host' = [host EXCEPT !.pending = pending]
  PROVE  ServerInv'
<1>1. Shape' /\ OfferInv' /\ Aside
      BY WaitingAside DEF ServerInv
<1> QED BY <1>1, AsideKeeps

(* A waiting request grows stale. *)
LEMMA GrowStaleKeeps ==
  ASSUME ServerInv, NEW o \in P!Offers, P!GrowStale(o)
  PROVE  ServerInv'
<1>1. PICK pending : pending = [host.pending EXCEPT ![o].stale = TRUE]
      OBVIOUS
<1>2. /\ host' = [host EXCEPT !.pending = pending] /\ UNCHANGED <<svc, job, file, keychain, auths, past>>
      BY <1>1 DEF P!GrowStale, ServerInv, Shape, HostFields
<1>3. DOMAIN pending \subseteq 1 .. past.begun /\ \A q \in DOMAIN pending : pending[q] \in P!Request
  <2>1. o \in DOMAIN host.pending /\ \A q \in DOMAIN host.pending : host.pending[q] \in P!Request
        BY DEF P!GrowStale, ServerInv, OfferInv
  <2>2. PICK r : r = host.pending[o]
        OBVIOUS
  <2>3. [r EXCEPT !.stale = TRUE] \in P!Request
        BY <2>1, <2>2 DEF P!Request
  <2>4. pending = [host.pending EXCEPT ![o] = [r EXCEPT !.stale = TRUE]]
        BY <1>1, <2>2
  <2> QED BY <2>1, <2>3, <2>4 DEF ServerInv, OfferInv
<1> QED BY <1>2, <1>3, WaitingKeeps DEF ServerInv, Shape

(* What is left of the requests after a prune and the removal of one of them. *)
LEMMA PendingLeft ==
  ASSUME ServerInv, NEW o
  PROVE  /\ DOMAIN P!Pruned(host).pending \subseteq 1 .. past.begun
         /\ \A q \in DOMAIN P!Pruned(host).pending : P!Pruned(host).pending[q] \in P!Request
         /\ \A q \in DOMAIN P!Drop(P!Pruned(host).pending, {o}) : P!Drop(P!Pruned(host).pending, {o})[q] \in P!Request
         /\ P!Pruned(host) = [host EXCEPT !.pending = P!Pruned(host).pending]
         /\ [P!Pruned(host) EXCEPT !.pending = P!Drop(@, {o})] = [host EXCEPT !.pending = P!Drop(P!Pruned(host).pending, {o})]
         /\ DOMAIN P!Drop(P!Pruned(host).pending, {o}) \subseteq 1 .. past.begun
<1>1. PICK pruned : pruned = P!Drop(host.pending, {q \in DOMAIN host.pending : host.pending[q].stale})
      OBVIOUS
<1>2. P!Pruned(host) = [host EXCEPT !.pending = pruned]
      BY <1>1 DEF P!Pruned
<1>3. P!Pruned(host).pending = pruned
      BY <1>2 DEF ServerInv, Shape, HostFields
<1>4. DOMAIN pruned \subseteq 1 .. past.begun /\ \A q \in DOMAIN pruned : pruned[q] \in P!Request
      BY <1>1 DEF ServerInv, OfferInv, P!Drop
<1>5. PICK rest : rest = P!Drop(pruned, {o})
      OBVIOUS
<1>6. DOMAIN rest \subseteq 1 .. past.begun /\ \A q \in DOMAIN rest : rest[q] \in P!Request
      BY <1>4, <1>5 DEF P!Drop
<1>7. [P!Pruned(host) EXCEPT !.pending = rest] = [host EXCEPT !.pending = rest]
      BY <1>2 DEF ServerInv, Shape, HostFields
<1> QED BY <1>2, <1>3, <1>4, <1>5, <1>6, <1>7

(* Listing the requests drops the stale ones. *)
LEMMA ListPendingKeeps ==
  ASSUME ServerInv, P!ListPending
  PROVE  ServerInv'
<1>1. host' = P!Pruned(host) /\ UNCHANGED <<svc, job, file, keychain, auths, past>>
      BY DEF P!ListPending
<1> QED BY <1>1, PendingLeft, WaitingKeeps DEF ServerInv, Shape

(* An approval uses its offer up and takes the lock, unless the server is shutting down. *)
LEMMA StartKeeps ==
  ASSUME ServerInv, P!Free, MaxOffers \in Nat, NEW o \in P!Offers, NEW d \in Devices, NEW n \in Names, NEW screen \in BOOLEAN,
         svc[o] = "open", NEW pending, DOMAIN pending \subseteq 1 .. past.begun,
         \A q \in DOMAIN pending : pending[q] \in P!Request,
         P!StartPairing(o, [host EXCEPT !.pending = pending], d, n, screen)
  PROVE  ServerInv'
<1>1. PICK h : h = [host EXCEPT !.pending = pending]
      OBVIOUS
<1>2. /\ h = [f \in HostFields |-> h[f]] /\ h.pending = pending /\ h.live = host.live /\ h.owner = host.owner
      /\ h.completed = host.completed /\ h.leases = host.leases /\ h.shutting = host.shutting
      /\ h.up = host.up /\ h.paired = host.paired /\ h.gen = host.gen /\ h.gens = host.gens
      BY <1>1 DEF ServerInv, Shape, HostFields
<1>3. /\ svc' = [svc EXCEPT ![o] = "used"]
      /\ UNCHANGED <<file, keychain, auths>>
      /\ IF h.shutting
         THEN host' = h /\ UNCHANGED <<job, past>>
         ELSE /\ host' = [h EXCEPT !.fails[o] = 0]
              /\ job' = [kind |-> "pair", at |-> "store", offer |-> o, device |-> d, name |-> n,
                         cred |-> past.minted + 1, screen |-> screen]
              /\ past' = [past EXCEPT !.minted = @ + 1]
      BY <1>1 DEF P!StartPairing
<1>4. /\ svc' \in [P!Offers -> {"none", "open", "late", "used", "gone"}] /\ svc'[o] = "used"
      /\ \A q \in P!Offers : svc'[q] = "open" => svc[q] = "open"
      BY <1>3 DEF ServerInv, Shape
<1>5. CASE h.shutting
      BY <1>1, <1>3, <1>4, <1>5, WaitingKeeps
<1>6. CASE ~h.shutting
  <2>1. /\ host' = [f \in HostFields |-> host'[f]] /\ host'.pending = pending /\ host'.live = host.live
        /\ host'.owner = host.owner /\ host'.completed = host.completed /\ host'.leases = host.leases
        /\ host'.up = host.up /\ host'.paired = host.paired /\ host'.gen = host.gen /\ host'.gens = host.gens
        BY <1>2, <1>3, <1>6 DEF HostFields
  <2>2. PICK c : c = past.minted + 1
        OBVIOUS
  <2>3. c \in Nat /\ c \notin Minted /\ Minted' = Minted \cup {c} /\ past'.minted = c
    <3>1. past.minted \in Nat /\ past'.minted = past.minted + 1
          BY <1>3, <1>6 DEF ServerInv, Shape, PastFields
    <3> QED BY <2>2, <3>1 DEF Minted
  <2>4. /\ past' = [f \in PastFields |-> past'[f]] /\ past'.closed = past.closed /\ past'.begun = past.begun
        /\ past'.faults = past.faults /\ past'.condemned = past.condemned /\ past'.revoked = past.revoked
        BY <1>3, <1>6 DEF ServerInv, Shape, PastFields
  <2>5. PICK j : j = [kind |-> "pair", at |-> "store", offer |-> o, device |-> d, name |-> n, cred |-> c, screen |-> screen]
        OBVIOUS
  <2>6. j \in PairJob /\ j.cred = c /\ j.at = "store" /\ j.offer = o /\ job' = j
        BY <1>3, <1>6, <2>2, <2>3, <2>5 DEF PairJob
  <2>7. Shape'
        BY <1>4, <2>1, <2>3, <2>4 DEF ServerInv, Shape
  <2>8. OfferInv'
        BY <1>4, <2>1, <2>4 DEF ServerInv, OfferInv
  <2>9. DeviceInv'
        BY <1>3, <2>1, <2>3, <2>4 DEF ServerInv, DeviceInv, CredsOf, Distinct, P!Free
  <2>10. GenInv'
        BY <1>3, <2>1 DEF ServerInv, GenInv, CredsOf, P!PickupIsCurrent
  <2>11. CredInv'
        BY <1>3, <2>1, <2>4 DEF ServerInv, CredInv, CredsOf
  <2>12. DOMAIN host.completed = {} /\ o = past.begun /\ o \notin past.closed
        BY DEF ServerInv, OfferInv
  <2>13. c \notin CredsOf(host.paired) \cup past.condemned \cup CredsOf(file)
        BY <2>3 DEF ServerInv, DeviceInv
  <2>14. PairingInv'
        BY <1>3, <1>4, <2>1, <2>3, <2>4, <2>6, <2>12, <2>13 DEF PairingInv
  <2> QED BY <2>6, <2>7, <2>8, <2>9, <2>10, <2>11, <2>14 DEF ServerInv, JobInv
<1> QED BY <1>5, <1>6

(* A step that leaves the requests as they are. *)
LEMMA AsHost ==
  ASSUME ServerInv
  PROVE  host = [host EXCEPT !.pending = host.pending] /\ DOMAIN host.pending \subseteq 1 .. past.begun
         /\ \A q \in DOMAIN host.pending : host.pending[q] \in P!Request
BY DEF ServerInv, Shape, HostFields, OfferInv

(* A wrong attempt at any set of live offers. *)
LEMMA FailKeeps ==
  ASSUME ServerInv, P!Free, MaxOffers \in Nat, NEW S \in SUBSET host.live, P!Fail(S)
  PROVE  ServerInv'
<1>1. Shape' /\ OfferInv' /\ Aside
      BY FailAside DEF ServerInv
<1> QED BY <1>1, AsideKeeps DEF P!Free

(* A pairing by secret and code. *)
LEMMA PairKeeps ==
  ASSUME ServerInv, MaxOffers \in Nat, NEW o \in P!Offers, NEW d \in Devices, NEW n \in Names, NEW right \in BOOLEAN,
         P!Pair(o, d, n, right)
  PROVE  ServerInv'
<1>1. P!Free /\ o \in host.live
      BY DEF P!Pair
<1>2. CASE svc[o] = "open" /\ P!StartPairing(o, host, d, n, FALSE)
  <2>1. P!StartPairing(o, [host EXCEPT !.pending = host.pending], d, n, FALSE)
        BY <1>2, AsHost
  <2> QED BY <1>1, <1>2, <2>1, AsHost, StartKeeps
<1>3. CASE P!Fail({o})
  <2>1. {o} \in SUBSET host.live
        BY <1>1
  <2> QED BY <1>1, <1>3, <2>1, FailKeeps
<1> QED BY <1>2, <1>3 DEF P!Pair

(* A pairing by code alone. *)
LEMMA PairByCodeKeeps ==
  ASSUME ServerInv, MaxOffers \in Nat, NEW d \in Devices, NEW n \in Names, NEW right \in BOOLEAN,
         P!PairByCode(d, n, right)
  PROVE  ServerInv'
<1>1. P!Free
      BY DEF P!PairByCode
<1>2. ASSUME NEW o \in P!Offers, svc[o] = "open", P!StartPairing(o, host, d, n, FALSE)
      PROVE  ServerInv'
  <2>1. P!StartPairing(o, [host EXCEPT !.pending = host.pending], d, n, FALSE)
        BY <1>2, AsHost
  <2> QED BY <1>1, <1>2, <2>1, AsHost, StartKeeps
<1>3. CASE P!Fail(host.live)
      BY <1>1, <1>3, FailKeeps
<1> QED BY <1>2, <1>3 DEF P!PairByCode

(* The operator approves a waiting request, if it still waits. *)
LEMMA ApproveKeeps ==
  ASSUME ServerInv, MaxOffers \in Nat, NEW o \in P!Offers, P!ApprovePending(o)
  PROVE  ServerInv'
<1>1. PICK rest : rest = P!Drop(P!Pruned(host).pending, {o})
      OBVIOUS
<1>2. /\ P!Free /\ o \in DOMAIN host.pending /\ (\A q \in DOMAIN rest : rest[q] \in P!Request) /\ DOMAIN rest \subseteq 1 .. past.begun
      /\ [P!Pruned(host) EXCEPT !.pending = P!Drop(@, {o})] = [host EXCEPT !.pending = rest]
      BY <1>1, PendingLeft DEF P!ApprovePending
<1>3. CASE o \in DOMAIN P!Pruned(host).pending /\ svc[o] = "open"
  <2>1. PICK r : r = P!Pruned(host).pending[o]
        OBVIOUS
  <2>2. r \in P!Request
        BY <1>3, <2>1, PendingLeft
  <2>3. r.device \in Devices /\ r.name \in Names
        BY <2>2 DEF P!Request
  <2>4. P!StartPairing(o, [host EXCEPT !.pending = rest], r.device, r.name, TRUE)
        BY <1>2, <1>3, <2>1 DEF P!ApprovePending
  <2> QED BY <1>2, <1>3, <2>3, <2>4, StartKeeps
<1>4. CASE host' = [host EXCEPT !.pending = rest] /\ UNCHANGED <<svc, job, file, keychain, auths, past>>
      BY <1>2, <1>4, WaitingKeeps DEF ServerInv, Shape
<1> QED BY <1>2, <1>3, <1>4 DEF P!ApprovePending

(* A scanned secret only registers a request, picks up its token or fails. *)
LEMMA AwaitKeeps ==
  ASSUME ServerInv, MaxOffers \in Nat, NEW o \in P!Offers, NEW d \in Devices, NEW n \in Names, NEW right \in BOOLEAN,
         P!AwaitApproval(o, d, n, right)
  PROVE  ServerInv'
<1>1. P!Free
      BY DEF P!AwaitApproval
<1>2. CASE /\ past' = [past EXCEPT !.held = @ \cup {<<d, host.completed[o].cred>>}]
           /\ UNCHANGED <<host, svc, job, file, keychain, auths>>
  <2>1. /\ past' = [f \in PastFields |-> past'[f]] /\ past'.closed = past.closed /\ past'.begun = past.begun
        /\ past'.minted = past.minted /\ past'.faults = past.faults /\ past'.issued = past.issued
        /\ past'.condemned = past.condemned /\ past'.revoked = past.revoked
        BY <1>2 DEF ServerInv, Shape, PastFields
  <2>2. Shape' /\ OfferInv' /\ Aside
        BY <1>2, <2>1 DEF ServerInv, Shape, OfferInv, Aside
  <2> QED BY <1>2, <2>1, <2>2, AsideKeeps
<1>3. CASE /\ o \in host.live
           /\ host' = [host EXCEPT !.pending = P!Put(@, o, [device |-> d, name |-> n, stale |-> FALSE])]
           /\ UNCHANGED <<svc, job, file, keychain, auths, past>>
  <2>1. PICK pending : pending = P!Put(host.pending, o, [device |-> d, name |-> n, stale |-> FALSE])
        OBVIOUS
  <2>2. [device |-> d, name |-> n, stale |-> FALSE] \in P!Request
        BY DEF P!Request
  <2>3. o \in 1 .. past.begun
        BY <1>3, Begun DEF ServerInv
  <2>4. DOMAIN pending \subseteq 1 .. past.begun /\ \A q \in DOMAIN pending : pending[q] \in P!Request
        BY <2>1, <2>2, <2>3 DEF P!Put, ServerInv, OfferInv
  <2>5. host' = [host EXCEPT !.pending = pending]
        BY <1>3, <2>1
  <2> QED BY <1>3, <2>4, <2>5, WaitingKeeps DEF ServerInv, Shape
<1>4. CASE o \in host.live /\ P!Fail({o})
  <2>1. {o} \in SUBSET host.live
        BY <1>4
  <2> QED BY <1>1, <1>4, <2>1, FailKeeps
<1> QED BY <1>2, <1>3, <1>4 DEF P!AwaitApproval

(* From the fence on, nothing authenticates. *)
LEMMA FenceKeeps ==
  ASSUME ServerInv, P!Fence
  PROVE  ServerInv'
<1>1. /\ host' = [host EXCEPT !.shutting = TRUE, !.leases = {}] /\ UNCHANGED <<svc, job, file, keychain, auths, past>>
      /\ P!Free
      BY DEF P!Fence
<1>2. /\ host' = [f \in HostFields |-> host'[f]] /\ host'.pending = host.pending /\ host'.live = host.live
      /\ host'.owner = host.owner /\ host'.completed = host.completed /\ host'.leases = {}
      /\ host'.up = host.up /\ host'.paired = host.paired /\ host'.gen = host.gen /\ host'.gens = host.gens
      BY <1>1 DEF ServerInv, Shape, HostFields
<1>3. Shape' /\ OfferInv' /\ Aside
      BY <1>1, <1>2 DEF ServerInv, Shape, OfferInv, Aside
<1> QED BY <1>1, <1>3, AsideKeeps

(* A connection caches the generation of its device; a lease asks for the current one. *)
LEMMA ConnectKeeps ==
  ASSUME ServerInv, NEW d \in Devices, NEW c \in P!Creds, P!Connect(d, c)
  PROVE  ServerInv'
<1>1. PICK r \in host.paired : /\ r.cred = c /\ r.token
                               /\ auths' = auths \cup {[device |-> r.device, gen |-> host.gens[r.device], cred |-> c]}
      BY DEF P!Connect
<1>2. UNCHANGED <<host, svc, job, file, keychain, past>> /\ host.up /\ job = P!None
      BY DEF P!Connect, P!Free
<1>3. DeviceInv'
      BY <1>1, <1>2 DEF ServerInv, DeviceInv, CredsOf, Distinct, Minted
<1>4. GenInv'
  <2>1. PICK a : a = [device |-> r.device, gen |-> host.gens[r.device], cred |-> c]
        OBVIOUS
  <2>2. a.gen \in Nat /\ a.gen <= host.gen /\ a.device = r.device /\ a.cred = c
        BY <2>1 DEF ServerInv, GenInv
  <2> QED BY <1>1, <1>2, <2>1, <2>2 DEF ServerInv, GenInv, CredsOf, P!PickupIsCurrent
<1> QED BY <1>2, <1>3, <1>4 DEF ServerInv, Shape, OfferInv, CredInv, CredsOf, JobInv

(* A connection forgets its authorization. *)
LEMMA DisconnectKeeps ==
  ASSUME ServerInv, NEW a \in auths, P!Disconnect(a)
  PROVE  ServerInv'
<1>1. auths' = auths \ {a} /\ UNCHANGED <<host, svc, job, file, keychain, past>>
      BY DEF P!Disconnect
<1>2. DeviceInv'
      BY <1>1 DEF ServerInv, DeviceInv, CredsOf, Distinct, Minted
<1>3. GenInv'
      BY <1>1 DEF ServerInv, GenInv, CredsOf, P!PickupIsCurrent
<1>4. Shape' /\ OfferInv' /\ CredInv'
      BY <1>1 DEF ServerInv, Shape, OfferInv, CredInv, CredsOf
<1>5. JobInv'
      BY <1>1 DEF ServerInv, JobInv, PairingInv, RevokingInv, CredsOf, Minted, P!Written, P!NewPaired, P!Replaced
<1> QED BY <1>2, <1>3, <1>4, <1>5 DEF ServerInv

(* A current authorization leases the grant of a paired credential. *)
LEMMA LeaseKeeps ==
  ASSUME ServerInv, NEW a \in auths, P!Lease(a)
  PROVE  ServerInv'
<1>1. /\ host' = [host EXCEPT !.leases = @ \cup {a.cred}] /\ UNCHANGED <<svc, job, file, keychain, auths, past>>
      /\ P!Free /\ P!Current(a)
      BY DEF P!Lease
<1>2. /\ host' = [f \in HostFields |-> host'[f]] /\ host'.pending = host.pending /\ host'.live = host.live
      /\ host'.owner = host.owner /\ host'.completed = host.completed /\ host'.leases = host.leases \cup {a.cred}
      /\ host'.up = host.up /\ host'.paired = host.paired /\ host'.gen = host.gen /\ host'.gens = host.gens
      BY <1>1 DEF ServerInv, Shape, HostFields
<1>3. a.cred \in CredsOf(host.paired)
      BY <1>1 DEF P!Current, ServerInv, GenInv, CredsOf
<1>4. Shape' /\ OfferInv'
      BY <1>1, <1>2 DEF ServerInv, Shape, OfferInv
<1>5. DeviceInv' /\ CredInv'
      BY <1>1, <1>2 DEF ServerInv, DeviceInv, CredInv, CredsOf, Distinct, Minted
<1>6. GenInv'
      BY <1>1, <1>2, <1>3 DEF ServerInv, GenInv, CredsOf, P!PickupIsCurrent
<1> QED BY <1>1, <1>4, <1>5, <1>6 DEF ServerInv, JobInv, P!Free

(* What a pairing will commit: the new record in place of those it replaces. *)
LEMMA NewRecords ==
  ASSUME ServerInv, job \in PairJob, PairingInv
  PROVE  /\ P!NewPaired \subseteq PairedRec /\ Distinct(P!NewPaired)
         /\ CredsOf(P!NewPaired) \subseteq CredsOf(host.paired) \cup {job.cred}
         /\ \A r \in P!NewPaired : \/ r \in host.paired /\ r.device # job.device
                                   \/ r.device = job.device /\ r.cred = job.cred /\ r.token
         /\ \E r \in P!NewPaired : r.device = job.device /\ r.cred = job.cred
<1>1. PICK new : new = [device |-> job.device, name |-> job.name, cred |-> job.cred, token |-> TRUE]
      OBVIOUS
<1>2. new \in PairedRec /\ new.device = job.device /\ new.cred = job.cred /\ new.token
  <2>1. job.device \in Devices /\ job.name \in Names /\ job.cred \in Nat
        BY DEF PairJob
  <2> QED BY <1>1, <2>1 DEF PairedRec
<1>3. P!NewPaired = {r \in host.paired : ~P!Replaced(r, job.device, job.name)} \cup {new}
      BY <1>1 DEF P!NewPaired
<1>4. \A r \in host.paired : ~P!Replaced(r, job.device, job.name) => r.device # job.device
      BY DEF P!Replaced
<1>5. \A r \in P!NewPaired : r = new \/ (r \in host.paired /\ r.device # job.device)
      BY <1>3, <1>4
<1>6. host.paired \subseteq PairedRec /\ Distinct(host.paired) /\ job.cred \notin CredsOf(host.paired)
      BY DEF ServerInv, DeviceInv, PairingInv
<1>7. Distinct(P!NewPaired)
  <2>1. ASSUME NEW r \in P!NewPaired, NEW q \in P!NewPaired, r.device = q.device \/ r.cred = q.cred
        PROVE  r = q
    <3>1. CASE r = new /\ q # new
          BY <1>2, <1>5, <1>6, <2>1, <3>1 DEF CredsOf
    <3>2. CASE q = new /\ r # new
          BY <1>2, <1>5, <1>6, <2>1, <3>2 DEF CredsOf
    <3>3. CASE r # new /\ q # new
          BY <1>5, <1>6, <2>1, <3>3 DEF Distinct
    <3> QED BY <3>1, <3>2, <3>3
  <2> QED BY <2>1 DEF Distinct
<1> QED BY <1>2, <1>3, <1>5, <1>6, <1>7 DEF CredsOf

(* The file that is written has the records' credentials and no token. *)
LEMMA WrittenRecords ==
  ASSUME NEW S \in SUBSET PairedRec, Distinct(S)
  PROVE  P!Written(S) \subseteq FileRec /\ CredsOf(P!Written(S)) = CredsOf(S) /\ Distinct(P!Written(S))
<1>1. \A w \in P!Written(S) : \E r \in S : /\ w = [device |-> r.device, name |-> r.name, cred |-> r.cred, inline |-> FALSE]
                                           /\ w.device = r.device /\ w.cred = r.cred
      BY DEF P!Written
<1>2. \A r \in S : \E w \in P!Written(S) : w.cred = r.cred
  <2>1. ASSUME NEW r \in S PROVE \E w \in P!Written(S) : w.cred = r.cred
    <3>1. PICK w : w = [device |-> r.device, name |-> r.name, cred |-> r.cred, inline |-> FALSE]
          OBVIOUS
    <3>2. w \in P!Written(S) /\ w.cred = r.cred
          BY <3>1 DEF P!Written
    <3> QED BY <3>2
  <2> QED BY <2>1
<1>3. P!Written(S) \subseteq FileRec
  <2>1. \A r \in S : [device |-> r.device, name |-> r.name, cred |-> r.cred, inline |-> FALSE] \in FileRec
        BY DEF PairedRec, FileRec
  <2> QED BY <2>1 DEF P!Written
<1>4. Distinct(P!Written(S))
  <2>1. ASSUME NEW w \in P!Written(S), NEW v \in P!Written(S), w.device = v.device \/ w.cred = v.cred
        PROVE  w = v
    <3>1. PICK r \in S : /\ w = [device |-> r.device, name |-> r.name, cred |-> r.cred, inline |-> FALSE]
                         /\ w.device = r.device /\ w.cred = r.cred
          BY <1>1
    <3>2. PICK q \in S : /\ v = [device |-> q.device, name |-> q.name, cred |-> q.cred, inline |-> FALSE]
                         /\ v.device = q.device /\ v.cred = q.cred
          BY <1>1
    <3>3. r = q
          BY <2>1, <3>1, <3>2 DEF Distinct
    <3> QED BY <3>1, <3>2, <3>3
  <2> QED BY <2>1 DEF Distinct
<1>5. CredsOf(P!Written(S)) = CredsOf(S)
      BY <1>1, <1>2 DEF CredsOf
<1> QED BY <1>3, <1>4, <1>5

(* The past after a failure that is counted. *)
LEMMA Faulted ==
  ASSUME ServerInv, P!Fault
  PROVE  /\ past' = [f \in PastFields |-> past'[f]] /\ past'.closed = past.closed /\ past'.begun = past.begun
         /\ past'.minted = past.minted /\ past.faults = 0 /\ past'.faults = 1
         /\ past'.condemned = past.condemned /\ past'.revoked = past.revoked
<1>1. past.faults = 0 /\ past' = [past EXCEPT !.faults = @ + 1]
      BY DEF ServerInv, Shape, P!Fault
<1>2. past' = [past EXCEPT !.faults = 1]
      BY <1>1
<1> QED BY <1>1, <1>2 DEF ServerInv, Shape, PastFields

(* A pairing under way has the fields of its kind. *)
LEMMA PairJobFields ==
  ASSUME ServerInv, job.kind = "pair"
  PROVE  job \in PairJob /\ PairingInv
BY DEF ServerInv, JobInv, RevokeJob, P!None

(* So has a revocation. *)
LEMMA RevokeJobFields ==
  ASSUME ServerInv, job.kind = "revoke"
  PROVE  job \in RevokeJob /\ RevokingInv
BY DEF ServerInv, JobInv, PairJob, P!None

(* Steps of the job that touch the disk only. *)
LEMMA DiskKeeps ==
  ASSUME ServerInv, UNCHANGED <<host, svc, auths>>,
         past' = [f \in PastFields |-> past'[f]], past'.closed = past.closed, past'.begun = past.begun,
         past'.minted = past.minted, past'.faults \in {0, 1}, past'.condemned = past.condemned,
         file' \subseteq FileRec, CredsOf(file') \subseteq Minted, Distinct(file'), keychain' \subseteq Minted,
         job # P!None, CredInv', JobInv'
  PROVE  ServerInv'
<1>1. Shape'
      BY DEF ServerInv, Shape
<1>2. OfferInv'
      BY DEF ServerInv, OfferInv
<1>3. DeviceInv'
      BY DEF ServerInv, DeviceInv, CredsOf, Distinct, Minted
<1>4. GenInv'
      BY DEF ServerInv, GenInv, CredsOf, P!PickupIsCurrent
<1> QED BY <1>1, <1>2, <1>3, <1>4 DEF ServerInv

(* The new token is stored, or the pairing fails with nothing written. *)
LEMMA StoreKeeps ==
  ASSUME ServerInv, P!StoreToken
  PROVE  ServerInv'
<1>1. job \in PairJob /\ PairingInv /\ job.at = "store" /\ UNCHANGED <<host, svc, file, auths>> /\ job # P!None
      BY PairJobFields DEF P!StoreToken, P!None
<1>2. /\ file \subseteq FileRec /\ CredsOf(file) \subseteq Minted /\ Distinct(file) /\ keychain \subseteq Minted
      /\ job.cred \in Minted
      BY <1>1 DEF ServerInv, DeviceInv, PairingInv
<1>3. CASE keychain' = keychain \cup {job.cred} /\ job' = [job EXCEPT !.at = "write"] /\ past' = past
  <2>1. PICK j : j = job
        OBVIOUS
  <2>2. /\ job' \in PairJob /\ job'.at = "write" /\ job'.cred = job.cred /\ job'.offer = job.offer
        /\ job'.device = job.device /\ job'.name = job.name
        BY <1>1, <1>3 DEF PairJob
  <2>3. CredInv'
        BY <1>1, <1>3 DEF ServerInv, CredInv, CredsOf, PairingInv
  <2>4. PairingInv'
        BY <1>1, <1>3, <2>2 DEF PairingInv, Minted, CredsOf
  <2>5. past' = [f \in PastFields |-> past'[f]] /\ past'.faults \in {0, 1}
        BY <1>3 DEF ServerInv, Shape
  <2> QED BY <1>1, <1>2, <1>3, <2>2, <2>3, <2>4, <2>5, DiskKeeps DEF JobInv
<1>4. CASE P!Fault /\ job' = P!None /\ keychain' = keychain
  <2>1. CredInv'
        BY <1>1, <1>4, Faulted DEF ServerInv, CredInv, CredsOf
  <2> QED BY <1>1, <1>2, <1>4, <2>1, Faulted, DiskKeeps DEF JobInv
<1> QED BY <1>3, <1>4 DEF P!StoreToken

(* The file is written, or the new token is taken back. *)
LEMMA WritePairedKeeps ==
  ASSUME ServerInv, P!WritePaired
  PROVE  ServerInv'
<1>1. job \in PairJob /\ PairingInv /\ job.at = "write" /\ UNCHANGED <<host, svc, auths>> /\ job # P!None
      BY PairJobFields DEF P!WritePaired, P!None
<1>2. /\ file \subseteq FileRec /\ CredsOf(file) \subseteq Minted /\ Distinct(file) /\ keychain \subseteq Minted
      /\ job.cred \in Minted /\ CredsOf(host.paired) \subseteq Minted
      BY <1>1 DEF ServerInv, DeviceInv, PairingInv
<1>3. CASE file' = P!Written(P!NewPaired) /\ job' = [job EXCEPT !.at = "commit"] /\ keychain' = keychain /\ past' = past
  <2>1. /\ file' \subseteq FileRec /\ Distinct(file') /\ CredsOf(file') \subseteq CredsOf(host.paired) \cup {job.cred}
        BY <1>1, <1>3, NewRecords, WrittenRecords
  <2>2. /\ job' \in PairJob /\ job'.at = "commit" /\ job'.cred = job.cred /\ job'.offer = job.offer
        /\ job'.device = job.device /\ job'.name = job.name
        BY <1>1, <1>3 DEF PairJob
  <2>3. CredInv'
    <3>1. job.cred \in keychain /\ job.cred \notin past.revoked
          BY <1>1 DEF PairingInv, ServerInv, CredInv
    <3> QED BY <1>1, <1>3, <2>1, <3>1 DEF ServerInv, CredInv
  <2>4. P!Written(P!NewPaired)' = P!Written(P!NewPaired)
        BY <1>1, <2>2 DEF P!Written, P!NewPaired, P!Replaced
  <2>5. PairingInv'
        BY <1>1, <1>3, <2>2, <2>4 DEF PairingInv, Minted, CredsOf
  <2>6. past' = [f \in PastFields |-> past'[f]] /\ past'.faults \in {0, 1}
        BY <1>3 DEF ServerInv, Shape
  <2> QED BY <1>1, <1>2, <1>3, <2>1, <2>2, <2>3, <2>5, <2>6, DiskKeeps DEF JobInv
<1>4. CASE P!Fault /\ job' = P!None /\ file' = file /\ keychain' = keychain \ {job.cred}
  <2>1. job.cred \notin CredsOf(file) \cup CredsOf(host.paired)
        BY <1>1 DEF PairingInv
  <2>2. CredInv'
        BY <1>1, <1>4, <2>1, Faulted DEF ServerInv, CredInv
  <2> QED BY <1>1, <1>2, <1>4, <2>2, Faulted, DiskKeeps DEF JobInv
<1> QED BY <1>3, <1>4 DEF P!WritePaired

(* Revocation. *)
LEMMA DeleteKeeps ==
  ASSUME ServerInv, P!DeleteTokens
  PROVE  ServerInv'
<1>1. /\ job \in RevokeJob /\ RevokingInv /\ job.at = "delete" /\ UNCHANGED <<host, svc, file, auths>> /\ job # P!None
      /\ job' = [job EXCEPT !.at = "write"]
      BY RevokeJobFields DEF P!DeleteTokens, P!None
<1>2. /\ file \subseteq FileRec /\ CredsOf(file) \subseteq Minted /\ Distinct(file) /\ keychain \subseteq Minted
      BY DEF ServerInv, DeviceInv
<1>3. job' \in RevokeJob /\ job'.at = "write" /\ job'.creds = job.creds
      BY <1>1 DEF RevokeJob
<1>4. CASE keychain' = keychain \ job.creds /\ past' = past
  <2>1. CredInv'
        BY <1>1, <1>4 DEF ServerInv, CredInv, RevokingInv
  <2>2. RevokingInv'
        BY <1>1, <1>3, <1>4 DEF RevokingInv
  <2>3. past' = [f \in PastFields |-> past'[f]] /\ past'.faults \in {0, 1}
        BY <1>4 DEF ServerInv, Shape
  <2> QED BY <1>1, <1>2, <1>3, <1>4, <2>1, <2>2, <2>3, DiskKeeps DEF JobInv
<1>5. CASE P!Fault /\ keychain' = keychain
  <2>1. CredInv'
        BY <1>1, <1>5, Faulted DEF ServerInv, CredInv
  <2>2. RevokingInv'
        BY <1>1, <1>3, <1>5, Faulted DEF RevokingInv
  <2> QED BY <1>1, <1>2, <1>3, <1>5, <2>1, <2>2, Faulted, DiskKeeps DEF JobInv
<1> QED BY <1>4, <1>5 DEF P!DeleteTokens

(* The revocation returns, whether the file was written or not. *)
LEMMA WriteRevokedKeeps ==
  ASSUME ServerInv, P!WriteRevoked
  PROVE  ServerInv'
<1>1. /\ job \in RevokeJob /\ RevokingInv /\ job.at = "write" /\ UNCHANGED <<host, svc, keychain, auths>> /\ job # P!None
      /\ job' = P!None
      BY RevokeJobFields DEF P!WriteRevoked, P!None
<1>2. /\ file \subseteq FileRec /\ CredsOf(file) \subseteq Minted /\ Distinct(file) /\ keychain \subseteq Minted
      /\ host.paired \subseteq PairedRec /\ Distinct(host.paired) /\ CredsOf(host.paired) \subseteq Minted
      BY DEF ServerInv, DeviceInv
<1>3. \A r \in host.paired : r.cred \in CredsOf(host.paired)
      BY DEF CredsOf
<1>4. CASE file' = P!Written(host.paired) /\ past' = [past EXCEPT !.revoked = @ \cup job.creds]
  <2>1. file' \subseteq FileRec /\ Distinct(file') /\ CredsOf(file') = CredsOf(host.paired)
        BY <1>2, <1>4, WrittenRecords
  <2>2. /\ past' = [f \in PastFields |-> past'[f]] /\ past'.closed = past.closed /\ past'.begun = past.begun
        /\ past'.minted = past.minted /\ past'.faults = past.faults /\ past'.condemned = past.condemned
        /\ past'.revoked = past.revoked \cup job.creds
        BY <1>4 DEF ServerInv, Shape, PastFields
  <2>3. CredInv'
        BY <1>1, <1>3, <2>1, <2>2 DEF ServerInv, CredInv, RevokingInv
  <2>4. past.faults \in {0, 1}
        BY DEF ServerInv, Shape
  <2> QED BY <1>1, <1>2, <2>1, <2>2, <2>3, <2>4, DiskKeeps DEF JobInv
<1>5. CASE /\ past.faults < 1 /\ file' = file
           /\ past' = [past EXCEPT !.faults = @ + 1, !.revoked = @ \cup job.creds]
  <2>1. /\ past' = [f \in PastFields |-> past'[f]] /\ past'.closed = past.closed /\ past'.begun = past.begun
        /\ past'.minted = past.minted /\ past.faults = 0 /\ past'.faults = 1 /\ past'.condemned = past.condemned
        /\ past'.revoked = past.revoked \cup job.creds
    <3>1. past.faults = 0
          BY <1>5 DEF ServerInv, Shape
    <3>2. past' = [past EXCEPT !.faults = 1, !.revoked = @ \cup job.creds]
          BY <1>5, <3>1
    <3> QED BY <3>1, <3>2 DEF ServerInv, Shape, PastFields
  <2>2. job.creds \cap keychain = {}
        BY <1>1, <2>1 DEF RevokingInv
  <2>3. CredInv'
        BY <1>1, <1>3, <1>5, <2>1, <2>2 DEF ServerInv, CredInv, RevokingInv
  <2> QED BY <1>1, <1>2, <1>5, <2>1, <2>3, DiskKeeps DEF JobInv
<1> QED BY <1>4, <1>5 DEF P!WriteRevoked

(* The commit: the replaced credentials go, the device gets a generation of its own. *)
LEMMA CommitKeeps ==
  ASSUME ServerInv, P!CommitPaired
  PROVE  ServerInv' /\ job.offer \notin past.closed /\ past'.issued = past.issued \cup {job.offer}
<1>1. job \in PairJob /\ PairingInv /\ job.at = "commit" /\ UNCHANGED <<svc, file, auths>> /\ job' = P!None
      BY PairJobFields DEF P!CommitPaired, P!None
<1>2. PICK newPaired : newPaired = P!NewPaired
      OBVIOUS
<1>3. /\ newPaired \subseteq PairedRec /\ Distinct(newPaired)
      /\ CredsOf(newPaired) \subseteq CredsOf(host.paired) \cup {job.cred}
      /\ \A r \in newPaired : \/ r \in host.paired /\ r.device # job.device
                              \/ r.device = job.device /\ r.cred = job.cred /\ r.token
      /\ \E r \in newPaired : r.device = job.device /\ r.cred = job.cred
      BY <1>1, <1>2, NewRecords
<1>4. PICK kept : kept = P!Drop(host.gens, Devices \ {r.device : r \in newPaired})
      OBVIOUS
<1>5. PICK newGens : newGens = P!Put(kept, job.device, host.gen + 1)
      OBVIOUS
<1>6. PICK completed : completed = IF job.screen THEN P!Put(host.completed, job.offer, [device |-> job.device, cred |-> job.cred])
                                   ELSE host.completed
      OBVIOUS
<1>7. PICK retired : retired = CredsOf(host.paired) \ CredsOf(newPaired)
      OBVIOUS
<1>8. /\ keychain' = keychain \ retired
      /\ host' = [host EXCEPT !.paired = newPaired, !.leases = @ \ retired, !.gen = host.gen + 1, !.gens = newGens,
                              !.live = @ \ {job.offer}, !.completed = completed]
      /\ past' = [past EXCEPT !.issued = @ \cup {job.offer}, !.held = past'.held]
  <2>1. retired = P!Retired
        BY <1>2, <1>7 DEF P!Retired, CredsOf
  <2>2. PICK held : past' = [past EXCEPT !.issued = @ \cup {job.offer}, !.held = held]
        BY DEF P!CommitPaired
  <2>3. past'.held = held
        BY <2>2 DEF ServerInv, Shape, PastFields
  <2>4. host' = [host EXCEPT !.paired = newPaired, !.leases = @ \ retired, !.gen = host.gen + 1, !.gens = newGens,
                              !.live = @ \ {job.offer}, !.completed = completed]
        BY <1>2, <1>4, <1>5, <1>6, <2>1 DEF P!CommitPaired, P!Generation, P!NewGeneration, ServerInv, Shape, HostFields
  <2> QED BY <2>1, <2>2, <2>3, <2>4 DEF P!CommitPaired
<1>9. /\ host' = [f \in HostFields |-> host'[f]] /\ host'.pending = host.pending /\ host'.live = host.live \ {job.offer}
      /\ host'.owner = host.owner /\ host'.completed = completed /\ host'.leases = host.leases \ retired
      /\ host'.up = host.up /\ host'.paired = newPaired /\ host'.gen = host.gen + 1 /\ host'.gens = newGens
      BY <1>8 DEF ServerInv, Shape, HostFields
<1>10. /\ past' = [f \in PastFields |-> past'[f]] /\ past'.closed = past.closed /\ past'.begun = past.begun
       /\ past'.minted = past.minted /\ past'.faults = past.faults /\ past'.issued = past.issued \cup {job.offer}
       /\ past'.condemned = past.condemned /\ past'.revoked = past.revoked
       BY <1>8 DEF ServerInv, Shape, PastFields
<1>11. /\ job.offer = past.begun /\ job.offer \notin past.closed /\ svc[job.offer] # "open" /\ job.offer \in P!Offers
       /\ DOMAIN host.completed = {} /\ job.device \in Devices /\ job.cred \in keychain
       /\ job.cred \notin past.condemned /\ job.cred \notin CredsOf(host.paired)
       BY <1>1 DEF PairingInv, PairJob
<1>12. DOMAIN completed \subseteq {job.offer}
       /\ (job.offer \in DOMAIN completed => completed[job.offer].device = job.device /\ completed[job.offer].cred = job.cred)
       BY <1>6, <1>11 DEF P!Put
<1>13. Shape'
       BY <1>1, <1>9, <1>10 DEF ServerInv, Shape
<1>14. OfferInv'
       BY <1>1, <1>9, <1>10, <1>11, <1>12 DEF ServerInv, OfferInv
<1>15. DeviceInv'
  <2>1. CredsOf(newPaired) \subseteq Minted /\ job.cred \in Minted
        BY <1>1, <1>3 DEF PairingInv, ServerInv, DeviceInv
  <2>2. host.up \/ job = P!None
        BY DEF ServerInv, DeviceInv
  <2> QED BY <1>1, <1>3, <1>8, <1>9, <1>10, <2>1, <2>2 DEF ServerInv, DeviceInv, Minted, CredsOf, Distinct, P!None
<1>16. GenInv'
  <2>1. /\ DOMAIN newGens = DOMAIN kept \cup {job.device} /\ newGens[job.device] = host.gen + 1
        /\ \A d \in DOMAIN kept : d # job.device => newGens[d] = kept[d]
        BY <1>5 DEF P!Put
  <2>2. /\ DOMAIN kept = DOMAIN host.gens \ (Devices \ {r.device : r \in newPaired})
        /\ \A d \in DOMAIN kept : kept[d] = host.gens[d] /\ d \in DOMAIN host.gens
        BY <1>4 DEF P!Drop
  <2>3. host.gen \in Nat /\ \A d \in DOMAIN host.gens : host.gens[d] \in Nat /\ host.gens[d] <= host.gen
        BY DEF ServerInv, GenInv
  <2>4. \A d \in DOMAIN newGens : newGens[d] \in Nat /\ newGens[d] <= host.gen + 1
        BY <2>1, <2>2, <2>3
  <2>5. \A r \in newPaired : r.device \in DOMAIN newGens
    <3>1. \A r \in newPaired : r.device \in {q.device : q \in newPaired}
          OBVIOUS
    <3>2. \A r \in host.paired : r.device \in DOMAIN host.gens
          BY DEF ServerInv, GenInv
    <3> QED BY <1>3, <2>1, <2>2, <3>1, <3>2
  <2>6. host.leases \ retired \subseteq CredsOf(newPaired)
        BY <1>7 DEF ServerInv, GenInv
  <2>7. ASSUME NEW a \in auths, a.device \in DOMAIN newGens, newGens[a.device] = a.gen
        PROVE  \E r \in newPaired : r.device = a.device /\ r.cred = a.cred
    <3>1. a.gen \in Nat /\ a.gen <= host.gen
          BY DEF ServerInv, GenInv
    <3>2. a.device # job.device
          BY <2>1, <2>3, <2>7, <3>1
    <3>3. a.device \in DOMAIN kept /\ a.device \in DOMAIN host.gens /\ host.gens[a.device] = a.gen
          BY <2>1, <2>2, <2>7, <3>2
    <3>4. PICK r \in host.paired : r.device = a.device /\ r.cred = a.cred
          BY <3>3 DEF ServerInv, GenInv
    <3>5. r.device \in Devices
          BY DEF ServerInv, DeviceInv, PairedRec
    <3>6. PICK q \in newPaired : q.device = a.device
          BY <2>2, <3>3, <3>4, <3>5
    <3>7. q \in host.paired
          BY <1>3, <3>2, <3>6
    <3>8. q = r
          BY <3>4, <3>6, <3>7 DEF ServerInv, DeviceInv, Distinct
    <3> QED BY <3>4, <3>6, <3>8
  <2>8. \A a \in auths : a.gen \in Nat /\ a.gen <= host.gen + 1
        BY <2>3 DEF ServerInv, GenInv
  <2>9. P!PickupIsCurrent'
        BY <1>3, <1>9, <1>12 DEF P!PickupIsCurrent
  <2> QED BY <1>1, <1>9, <2>3, <2>4, <2>5, <2>6, <2>7, <2>8, <2>9 DEF GenInv
<1>17. CredInv'
  <2>1. CredsOf(file) = CredsOf(newPaired)
        BY <1>1, <1>2, <1>3, WrittenRecords DEF PairingInv
  <2>2. CredsOf(newPaired) \subseteq keychain' \cup past.condemned
        BY <1>3, <1>7, <1>8, <1>11 DEF ServerInv, CredInv
  <2>3. job.cred \notin past.revoked
        BY <1>11 DEF ServerInv, CredInv
  <2>4. \A c \in past.revoked : c \notin keychain' \/ c \notin CredsOf(newPaired)
        BY <1>3, <1>8, <2>3 DEF ServerInv, CredInv
  <2>5. \A r \in newPaired : r.token => r.cred \notin past.revoked
        BY <1>3, <2>3 DEF ServerInv, CredInv
  <2> QED BY <1>1, <1>9, <1>10, <2>1, <2>2, <2>4, <2>5 DEF ServerInv, CredInv
<1>18. JobInv'
       BY <1>1 DEF JobInv
<1> QED BY <1>10, <1>11, <1>13, <1>14, <1>15, <1>16, <1>17, <1>18 DEF ServerInv

(* A revocation denies its devices before it touches the disk. *)
LEMMA PairingRevokeKeeps ==
  ASSUME ServerInv, NEW S \in SUBSET Devices, P!Revoke(S)
  PROVE  ServerInv'
<1>1. PICK gone : gone = {r \in host.paired : r.device \in S}
      OBVIOUS
<1>2. PICK creds : creds = CredsOf(gone)
      OBVIOUS
<1>3. PICK pending : pending = P!Drop(host.pending, {o \in DOMAIN host.pending : host.pending[o].device \in S})
      OBVIOUS
<1>4. PICK newGens : newGens = P!Drop(host.gens, {r.device : r \in gone})
      OBVIOUS
<1>5. PICK completed : completed = P!PickupWithout(S)
      OBVIOUS
<1>6. /\ host' = [host EXCEPT !.pending = pending, !.completed = completed, !.paired = @ \ gone, !.gens = newGens,
                              !.leases = @ \ creds]
      /\ job' = IF gone = {} THEN P!None ELSE [kind |-> "revoke", at |-> "delete", creds |-> creds]
      /\ past' = [past EXCEPT !.condemned = @ \cup creds]
      /\ UNCHANGED <<svc, file, keychain, auths>> /\ P!Free
      BY <1>1, <1>2, <1>3, <1>4, <1>5 DEF P!Revoke, CredsOf, ServerInv, Shape, HostFields
<1>7. /\ host' = [f \in HostFields |-> host'[f]] /\ host'.pending = pending /\ host'.live = host.live
      /\ host'.owner = host.owner /\ host'.completed = completed /\ host'.leases = host.leases \ creds
      /\ host'.up = host.up /\ host'.paired = host.paired \ gone /\ host'.gen = host.gen /\ host'.gens = newGens
      BY <1>6 DEF ServerInv, Shape, HostFields
<1>8. /\ past' = [f \in PastFields |-> past'[f]] /\ past'.closed = past.closed /\ past'.begun = past.begun
      /\ past'.minted = past.minted /\ past'.faults = past.faults /\ past'.condemned = past.condemned \cup creds
      /\ past'.revoked = past.revoked
      BY <1>6 DEF ServerInv, Shape, PastFields
<1>9. /\ DOMAIN pending \subseteq DOMAIN host.pending /\ \A o \in DOMAIN pending : pending[o] = host.pending[o]
      /\ DOMAIN completed \subseteq DOMAIN host.completed
      /\ \A o \in DOMAIN completed : completed[o] = host.completed[o] /\ completed[o].device \notin S
      /\ DOMAIN newGens = DOMAIN host.gens \ {r.device : r \in gone} /\ \A d \in DOMAIN newGens : newGens[d] = host.gens[d]
      BY <1>3, <1>4, <1>5 DEF P!Drop, P!PickupWithout
<1>10. Shape' /\ OfferInv'
  <2>1. Shape'
        BY <1>6, <1>7, <1>8 DEF ServerInv, Shape
  <2>2. /\ DOMAIN pending \subseteq 1 .. past.begun /\ \A o \in DOMAIN pending : pending[o] \in P!Request
        /\ DOMAIN completed \subseteq {past.begun}
        /\ \A o \in P!Offers : svc[o] = "open" => o \notin DOMAIN completed
        BY <1>9 DEF ServerInv, OfferInv
  <2>3. OfferInv'
        BY <1>6, <1>7, <1>8, <2>2 DEF ServerInv, OfferInv
  <2> QED BY <2>1, <2>3
<1>11. /\ gone \subseteq host.paired /\ creds \subseteq CredsOf(host.paired) /\ creds \subseteq Minted
       /\ CredsOf(host.paired \ gone) \cap creds = {} /\ CredsOf(host.paired \ gone) \subseteq CredsOf(host.paired)
  <2>1. gone \subseteq host.paired /\ creds \subseteq CredsOf(host.paired)
        BY <1>1, <1>2 DEF CredsOf
  <2>2. CredsOf(host.paired) \subseteq Minted /\ Distinct(host.paired)
        BY DEF ServerInv, DeviceInv
  <2>3. ASSUME NEW r \in host.paired \ gone, r.cred \in creds PROVE FALSE
    <3>1. PICK q \in gone : q.cred = r.cred
          BY <1>2, <2>3 DEF CredsOf
    <3> QED BY <2>1, <2>2, <2>3, <3>1 DEF Distinct
  <2> QED BY <2>1, <2>2, <2>3 DEF CredsOf
<1>12. DeviceInv'
       BY <1>6, <1>7, <1>8, <1>11 DEF ServerInv, DeviceInv, Minted, Distinct, P!Free
<1>13. GenInv'
  <2>1. \A r \in host.paired \ gone : r.device \in DOMAIN newGens
    <3>1. ASSUME NEW r \in host.paired \ gone, NEW q \in gone, q.device = r.device PROVE FALSE
          BY <1>11, <3>1 DEF ServerInv, DeviceInv, Distinct
    <3> QED BY <1>9, <3>1 DEF ServerInv, GenInv
  <2>2. host.leases \ creds \subseteq CredsOf(host.paired \ gone)
        BY <1>2 DEF ServerInv, GenInv, CredsOf
  <2>3. ASSUME NEW a \in auths, a.device \in DOMAIN newGens, newGens[a.device] = a.gen
        PROVE  \E r \in host.paired \ gone : r.device = a.device /\ r.cred = a.cred
    <3>1. PICK r \in host.paired : r.device = a.device /\ r.cred = a.cred
          BY <1>9, <2>3 DEF ServerInv, GenInv
    <3>2. r \notin gone
          BY <1>9, <2>3, <3>1
    <3> QED BY <3>1, <3>2
  <2>4. P!PickupIsCurrent'
    <3>1. ASSUME NEW o \in DOMAIN completed
          PROVE  \E r \in host.paired \ gone : r.device = completed[o].device /\ r.cred = completed[o].cred
      <4>1. PICK r \in host.paired : r.device = completed[o].device /\ r.cred = completed[o].cred
            BY <1>9, <3>1 DEF ServerInv, GenInv, P!PickupIsCurrent
      <4>2. r \notin gone
            BY <1>1, <1>9, <4>1
      <4> QED BY <4>1, <4>2
    <3> QED BY <1>7, <3>1 DEF P!PickupIsCurrent
  <2>5. \A d \in DOMAIN newGens : newGens[d] \in Nat /\ newGens[d] <= host.gen
        BY <1>9 DEF ServerInv, GenInv
  <2>6. host.gen \in Nat /\ \A a \in auths : a.gen \in Nat /\ a.gen <= host.gen
        BY DEF ServerInv, GenInv
  <2> QED BY <1>6, <1>7, <2>1, <2>2, <2>3, <2>4, <2>5, <2>6 DEF GenInv
<1>14. CredInv'
       BY <1>6, <1>7, <1>8, <1>11 DEF ServerInv, CredInv
<1>15. JobInv'
  <2>1. CASE gone = {}
        BY <1>6, <2>1 DEF JobInv
  <2>2. CASE gone # {}
    <3>1. PICK j : j = [kind |-> "revoke", at |-> "delete", creds |-> creds]
          OBVIOUS
    <3>2. creds \in SUBSET Nat
          BY <1>11 DEF Minted
    <3>3. j \in RevokeJob /\ j.at = "delete" /\ j.creds = creds /\ job' = j
          BY <1>6, <2>2, <3>1, <3>2 DEF RevokeJob
    <3>4. RevokingInv'
          BY <1>7, <1>8, <1>11, <3>3 DEF RevokingInv
    <3> QED BY <3>3, <3>4 DEF JobInv
  <2> QED BY <2>1, <2>2
<1> QED BY <1>10, <1>12, <1>13, <1>14, <1>15 DEF ServerInv

(* The operations on offers that pair nobody. *)
LEMMA OfferKeeps ==
  ASSUME ServerInv, MaxOffers \in Nat, job = P!None, Shape' /\ OfferInv' /\ Aside
  PROVE  ServerInv' /\ past'.issued = past.issued
BY AsideKeeps DEF Aside

(* Every way in which offers are begun, closed or rejected. *)
LEMMA CloseKeeps ==
  ASSUME ServerInv, MaxOffers \in Nat, P!Free,
         \/ P!CancelActive
         \/ \E o \in 1 .. past.begun : P!CancelOwned(o)
         \/ \E v \in Views : P!Begin(v)
         \/ \E S \in SUBSET host.live : P!Fail(S)
         \/ \E o \in P!Offers : P!RejectPending(o)
  PROVE  ServerInv' /\ past'.issued = past.issued
<1>1. Shape /\ OfferInv /\ job = P!None
      BY DEF ServerInv, P!Free
<1>2. CASE P!CancelActive
      BY <1>1, <1>2, CancelActiveAside, OfferKeeps
<1>3. ASSUME NEW o \in 1 .. past.begun, P!CancelOwned(o) PROVE ServerInv' /\ past'.issued = past.issued
      BY <1>1, <1>3, CancelOwnedAside, OfferKeeps
<1>4. ASSUME NEW v \in Views, P!Begin(v) PROVE ServerInv' /\ past'.issued = past.issued
      BY <1>1, <1>4, BeginAside, OfferKeeps
<1>5. ASSUME NEW S \in SUBSET host.live, P!Fail(S) PROVE ServerInv' /\ past'.issued = past.issued
      BY <1>1, <1>5, FailAside, OfferKeeps
<1>6. ASSUME NEW o \in P!Offers, P!RejectPending(o) PROVE ServerInv' /\ past'.issued = past.issued
      BY <1>1, <1>6, RejectAside, OfferKeeps
<1> QED BY <1>2, <1>3, <1>4, <1>5, <1>6

(* A panel cancels only the offer it owns. *)
LEMMA ViewKeeps ==
  ASSUME ServerInv, MaxOffers \in Nat, NEW v \in Views,
         P!CancelViewOffers(v) \/ \E o \in P!Offers : P!CancelForView(o, v)
  PROVE  ServerInv' /\ past'.issued = past.issued
<1>1. ASSUME host.owner # <<>> PROVE host.owner[1] \in 1 .. past.begun
  <2>1. host.owner \in (1 .. past.begun) \X Views
        BY <1>1 DEF ServerInv, OfferInv
  <2> QED BY <2>1
<1>2. CASE P!CancelViewOffers(v)
      BY <1>1, <1>2, CloseKeeps DEF P!CancelViewOffers
<1>3. ASSUME NEW o \in P!Offers, P!CancelForView(o, v) PROVE ServerInv' /\ past'.issued = past.issued
  <2>1. P!Free /\ host.owner = <<o, v>> /\ P!CancelOwned(o)
        BY <1>3 DEF P!CancelForView
  <2>2. host.owner # <<>> /\ host.owner[1] = o
        BY <2>1
  <2> QED BY <1>1, <2>1, <2>2, CloseKeeps
<1> QED BY <1>2, <1>3

(* Only a commit issues a credential. *)
LEMMA IssuedStays ==
  ASSUME Shape, P!Next
  PROVE  P!CommitPaired \/ past'.issued = past.issued
<1>1. past = [f \in PastFields |-> past[f]] /\ "issued" \in PastFields
      BY DEF Shape, PastFields
<1>2. ASSUME NEW o \in P!Offers, NEW d, NEW n, NEW screen, NEW h, P!StartPairing(o, h, d, n, screen)
      PROVE  past'.issued = past.issued
      BY <1>1, <1>2 DEF P!StartPairing, PastFields
<1>3. ASSUME NEW S, P!Fail(S) PROVE past'.issued = past.issued
      BY <1>1, <1>3 DEF P!Fail, PastFields
<1>4. ASSUME NEW v \in Views, P!Begin(v) \/ P!CancelViewOffers(v) PROVE past'.issued = past.issued
      BY <1>1, <1>4 DEF P!Begin, P!CancelViewOffers, P!CancelOwned, PastFields
<1>5. ASSUME NEW o \in P!Offers, NEW v \in Views, P!CancelForView(o, v) PROVE past'.issued = past.issued
      BY <1>1, <1>5 DEF P!CancelForView, P!CancelOwned, PastFields
<1>6. CASE P!CancelActive \/ P!ListPending \/ P!Fence \/ P!Crash
      BY <1>1, <1>6 DEF P!CancelActive, P!ListPending, P!Fence, P!Crash, PastFields
<1>7. CASE P!Boot
      BY <1>1, <1>7 DEF P!Boot, P!Fault, PastFields
<1>8. ASSUME NEW o \in P!Offers, P!Expire(o) \/ P!GrowStale(o) \/ P!RejectPending(o) PROVE past'.issued = past.issued
      BY <1>1, <1>8 DEF P!Expire, P!GrowStale, P!RejectPending, PastFields
<1>9. ASSUME NEW o \in P!Offers, P!ApprovePending(o) PROVE past'.issued = past.issued
      BY <1>2, <1>9 DEF P!ApprovePending
<1>10. ASSUME NEW o \in P!Offers, NEW d \in Devices, NEW n \in Names, NEW right \in BOOLEAN, P!Pair(o, d, n, right)
       PROVE  past'.issued = past.issued
       BY <1>2, <1>3, <1>10 DEF P!Pair
<1>11. ASSUME NEW o \in P!Offers, NEW d \in Devices, NEW n \in Names, NEW right \in BOOLEAN, P!AwaitApproval(o, d, n, right)
       PROVE  past'.issued = past.issued
       BY <1>1, <1>3, <1>11 DEF P!AwaitApproval, PastFields
<1>12. ASSUME NEW d \in Devices, NEW n \in Names, NEW right \in BOOLEAN, P!PairByCode(d, n, right)
       PROVE  past'.issued = past.issued
       BY <1>2, <1>3, <1>12 DEF P!PairByCode
<1>13. CASE P!StoreToken \/ P!WritePaired \/ P!DeleteTokens
       BY <1>1, <1>13 DEF P!StoreToken, P!WritePaired, P!DeleteTokens, P!Fault, PastFields
<1>14. CASE P!WriteRevoked
       BY <1>1, <1>14 DEF P!WriteRevoked, PastFields
<1>15. ASSUME NEW S, P!Revoke(S) PROVE past'.issued = past.issued
       BY <1>1, <1>15 DEF P!Revoke, PastFields
<1>16. ASSUME NEW d \in Devices, NEW c \in P!Creds, P!Connect(d, c) PROVE past'.issued = past.issued
       BY <1>16 DEF P!Connect
<1>17. ASSUME NEW a \in auths, P!Disconnect(a) \/ P!Lease(a) PROVE past'.issued = past.issued
       BY <1>17 DEF P!Disconnect, P!Lease
<1> QED BY <1>4, <1>5, <1>6, <1>7, <1>8, <1>9, <1>10, <1>11, <1>12, <1>13, <1>14, <1>15, <1>16, <1>17 DEF P!Next

(* Every operation, every step of a job, every end and start of the process keeps the books. *)
LEMMA ServerStep ==
  ASSUME ServerInv, MaxOffers \in Nat, [P!Next]_(P!vars)
  PROVE  ServerInv'
<1>1. CASE UNCHANGED P!vars
  <2>1. Shape' /\ OfferInv' /\ DeviceInv' /\ CredInv'
        BY <1>1 DEF P!vars, ServerInv, Shape, OfferInv, DeviceInv, CredInv, CredsOf, Distinct, Minted
  <2>2. GenInv'
        BY <1>1 DEF P!vars, ServerInv, GenInv, CredsOf, P!PickupIsCurrent
  <2>3. JobInv'
        BY <1>1 DEF P!vars, ServerInv, JobInv, PairingInv, RevokingInv, CredsOf, Minted, P!Written, P!NewPaired, P!Replaced
  <2> QED BY <2>1, <2>2, <2>3 DEF ServerInv
<1>2. ASSUME NEW v \in Views, P!Begin(v) PROVE ServerInv'
      BY <1>2, CloseKeeps DEF P!Begin
<1>3. ASSUME NEW v \in Views, P!CancelViewOffers(v) PROVE ServerInv'
      BY <1>3, ViewKeeps
<1>4. ASSUME NEW o \in P!Offers, NEW v \in Views, P!CancelForView(o, v) PROVE ServerInv'
      BY <1>4, ViewKeeps
<1>5. CASE P!CancelActive
      BY <1>5, CloseKeeps DEF P!CancelActive
<1>6. CASE P!ListPending
      BY <1>6, ListPendingKeeps
<1>7. CASE P!Fence
      BY <1>7, FenceKeeps
<1>8. CASE P!Crash
      BY <1>8, CrashKeeps
<1>9. CASE P!Boot
      BY <1>9, BootKeeps
<1>10. ASSUME NEW o \in P!Offers, P!Expire(o) PROVE ServerInv'
       BY <1>10, ExpireKeeps
<1>11. ASSUME NEW o \in P!Offers, P!GrowStale(o) PROVE ServerInv'
       BY <1>11, GrowStaleKeeps
<1>12. ASSUME NEW o \in P!Offers, P!ApprovePending(o) PROVE ServerInv'
       BY <1>12, ApproveKeeps
<1>13. ASSUME NEW o \in P!Offers, P!RejectPending(o) PROVE ServerInv'
       BY <1>13, CloseKeeps DEF P!RejectPending
<1>14. ASSUME NEW o \in P!Offers, NEW d \in Devices, NEW n \in Names, NEW right \in BOOLEAN, P!Pair(o, d, n, right)
       PROVE  ServerInv'
       BY <1>14, PairKeeps
<1>15. ASSUME NEW o \in P!Offers, NEW d \in Devices, NEW n \in Names, NEW right \in BOOLEAN, P!AwaitApproval(o, d, n, right)
       PROVE  ServerInv'
       BY <1>15, AwaitKeeps
<1>16. ASSUME NEW d \in Devices, NEW n \in Names, NEW right \in BOOLEAN, P!PairByCode(d, n, right)
       PROVE  ServerInv'
       BY <1>16, PairByCodeKeeps
<1>17. CASE P!StoreToken
       BY <1>17, StoreKeeps
<1>18. CASE P!WritePaired
       BY <1>18, WritePairedKeeps
<1>19. CASE P!CommitPaired
       BY <1>19, CommitKeeps
<1>20. CASE P!DeleteTokens
       BY <1>20, DeleteKeeps
<1>21. CASE P!WriteRevoked
       BY <1>21, WriteRevokedKeeps
<1>22. ASSUME NEW S \in {Devices} \cup {{d} : d \in Devices}, P!Revoke(S) PROVE ServerInv'
  <2>1. S \in SUBSET Devices
        BY <1>22
  <2> QED BY <1>22, <2>1, PairingRevokeKeeps
<1>23. ASSUME NEW d \in Devices, NEW c \in P!Creds, P!Connect(d, c) PROVE ServerInv'
       BY <1>23, ConnectKeeps
<1>24. ASSUME NEW a \in auths, P!Disconnect(a) PROVE ServerInv'
       BY <1>24, DisconnectKeeps
<1>25. ASSUME NEW a \in auths, P!Lease(a) PROVE ServerInv'
       BY <1>25, LeaseKeeps
<1> QED BY <1>1, <1>2, <1>3, <1>4, <1>5, <1>6, <1>7, <1>8, <1>9, <1>10, <1>11, <1>12, <1>13, <1>14,
           <1>15, <1>16, <1>17, <1>18, <1>19, <1>20, <1>21, <1>22, <1>23, <1>24, <1>25 DEF P!Next

(* The server starts with an empty file. *)
LEMMA ServerStarts ==
  ASSUME P!Init, MaxOffers \in Nat, Legacy = {}
  PROVE  ServerInv
<1>1. file = {} /\ keychain = {} /\ host = P!Blank /\ svc = P!NoOffers /\ job = P!None /\ auths = {}
      BY DEF P!Init
<1>2. past = [begun |-> 0, minted |-> 0, faults |-> 0, crashes |-> 0, closed |-> {}, issued |-> {},
              held |-> {<<d, d>> : d \in Legacy}, condemned |-> {}, revoked |-> {}]
      BY DEF P!Init
<1>3. /\ past = [f \in PastFields |-> past[f]] /\ past.begun = 0 /\ past.minted = 0 /\ past.faults = 0
      /\ past.closed = {} /\ past.condemned = {} /\ past.revoked = {}
  <2>1. DOMAIN past = PastFields
        BY <1>2 DEF PastFields
  <2>2. past = [f \in DOMAIN past |-> past[f]]
        BY <1>2
  <2> QED BY <1>2, <2>1, <2>2
<1>4. svc \in [P!Offers -> {"none", "open", "late", "used", "gone"}] /\ \A o \in P!Offers : svc[o] = "none"
      BY <1>1 DEF P!NoOffers
<1>5. Shape
  <2>1. host = [f \in HostFields |-> host[f]] /\ host.up \in BOOLEAN
        BY <1>1, BlankHost
  <2>2. 0 \in {0, 1}
        OBVIOUS
  <2> QED BY <1>3, <1>4, <2>1, <2>2 DEF Shape
<1>8. OfferInv
      BY <1>1, <1>3, <1>4, BlankHost DEF OfferInv
<1>6. DeviceInv /\ CredInv
      BY <1>1, <1>3, BlankHost DEF DeviceInv, CredInv, Minted, Distinct, CredsOf
<1>7. GenInv
      BY <1>1, <1>3, BlankHost DEF GenInv, CredsOf, P!PickupIsCurrent
<1> QED BY <1>1, <1>5, <1>6, <1>7, <1>8 DEF ServerInv, JobInv

(* The books give the property. *)
LEMMA ServerHolds ==
  ASSUME ServerInv
  PROVE  P!PairingsAreDurable
<1>1. P!CommittedCredentialsLoad
      BY DEF ServerInv, CredInv, CredsOf, P!CommittedCredentialsLoad
<1>2. P!RevocationHolds
      BY DEF ServerInv, CredInv, P!RevocationHolds, P!Authenticates
<1>3. P!PickupIsCurrent /\ P!AuthorizationIsIncarnation
      BY DEF ServerInv, GenInv, P!AuthorizationIsIncarnation, P!Current
<1>4. P!PairedIsConsistent
      BY DEF ServerInv, GenInv, DeviceInv, Distinct, CredsOf, P!PairedIsConsistent
<1> QED BY <1>1, <1>2, <1>3, <1>4 DEF P!PairingsAreDurable

(* Another service leaves the pairing server alone. *)
LEMMA ServerSteps ==
  ASSUME ServerInv, MaxOffers \in Nat, [Next]_vars
  PROVE  ServerInv' /\ [P!Next]_(P!vars)
<1>1. [P!Next]_(P!vars)
      BY DEF Next, PairingStep, PeersStep, KmStep, FilesStep, CurtainStep, vars, pairingVars, P!vars
<1> QED BY <1>1, ServerStep

(* Crashes, restarts and a failed write leave every committed device its credential, *)
(* revocations hold, and what is cached is of the current incarnation (pairing.rs). *)
(* The file holds no inline token at the start: the migration of old files loses one *)
(* that the store refuses. *)
THEOREM Durable ==
  ASSUME MaxOffers \in Nat, Legacy = {}
  PROVE  Spec => []PairingsAreDurable
<1>1. Init => ServerInv
      BY ServerStarts DEF Init
<1>2. ServerInv /\ [Next]_vars => ServerInv'
      BY ServerSteps
<1>3. ServerInv => PairingsAreDurable
      BY ServerHolds DEF PairingsAreDurable
<1> QED BY <1>1, <1>2, <1>3, PTL DEF Spec

(* Whoever has the offer closed has nobody paired with it. *)
LEMMA ClosedStays ==
  ASSUME MaxOffers \in Nat, Legacy = {}
  PROVE  Spec => P!ClosedOffersPairNobody
<1> DEFINE Barred == \A o \in past'.issued \ past.issued : o \notin past.closed
<1>1. Init => ServerInv
      BY ServerStarts DEF Init
<1>2. ServerInv /\ [Next]_vars => ServerInv'
      BY ServerSteps
<1>3. ServerInv /\ [Next]_vars => [Barred]_(P!vars)
  <2>1. ASSUME ServerInv, P!CommitPaired PROVE Barred
        BY <2>1, CommitKeeps
  <2>2. ASSUME ServerInv, P!Next PROVE Barred
        BY <2>1, <2>2, IssuedStays DEF ServerInv
  <2>3. ASSUME ServerInv, [Next]_vars PROVE [P!Next]_(P!vars)
        BY <2>3, ServerSteps
  <2> QED BY <2>2, <2>3
<1>4. [][Barred]_(P!vars) => P!ClosedOffersPairNobody
      BY PTL DEF P!ClosedOffersPairNobody
<1> QED BY <1>1, <1>2, <1>3, <1>4, PTL DEF Spec

(*****************************************************************************)
(* The curtain.  As long as every drawing of it has succeeded, it is on the  *)
(* screens exactly while it is wanted whenever a stream is live, or a start  *)
(* that nobody crossed is under way: so such a start finds the drawing it    *)
(* prepared, and a live stream keeps its own, or has the one of a capture     *)
(* that was made again, unless that was refused.                             *)
(*****************************************************************************)
CurtainTypes ==
  /\ enabled \in BOOLEAN /\ last \in BOOLEAN
  /\ start \in [Starts -> {"idle", "prepared", "capturing", "live", "tombstone", "ended"}]
  /\ excludes \in [Starts -> Nat]
  /\ drawn \in Nat /\ drawings \in Nat /\ drawn <= drawings
  /\ \A s \in Starts : excludes[s] <= drawings
  /\ restarts \subseteq Starts /\ crossed \subseteq Starts
  /\ awaited \subseteq Starts /\ unmade \subseteq Starts
  /\ remaking \in [Starts -> {"none", "begun", "made"}]
  /\ failures \in Nat

(* What is remembered is what is on the screens, even after a failure. *)
RemembersDrawn == last <=> drawn # 0

Drawn == drawn # 0 <=> enabled

StartsArePrepared ==
  \A s \in Starts \ crossed :
    /\ start[s] \in {"prepared", "capturing"} => Drawn
    /\ start[s] = "capturing" => excludes[s] = drawn

Curtained ==
  \A s \in C!Streaming \ (restarts \cup unmade \cup crossed) :
    (s \in awaited => remaking[s] = "made") /\ drawn # 0 => excludes[s] = drawn

LiveIsCurtained == (C!Live # {} => Drawn) /\ Curtained

CurtainInv == RemembersDrawn /\ (failures = 0 => StartsArePrepared /\ LiveIsCurtained)

(* The curtain's variables have their types at the start ... *)
LEMMA CurtainTypesStart == C!Init => CurtainTypes
<1> SUFFICES ASSUME C!Init PROVE CurtainTypes
    OBVIOUS
<1>1. start \in [Starts -> {"idle", "prepared", "capturing", "live", "tombstone", "ended"}]
      BY DEF C!Init
<1>2. excludes \in [Starts -> Nat] /\ \A s \in Starts : excludes[s] = 0
      BY DEF C!Init, C!NoCapture
<1>3. enabled \in BOOLEAN /\ last \in BOOLEAN
      BY DEF C!Init
<1>4. drawn = 0 /\ drawings = 0 /\ failures = 0 /\ restarts = {} /\ crossed = {}
      BY DEF C!Init
<1>5. remaking \in [Starts -> {"none", "begun", "made"}] /\ awaited = {} /\ unmade = {}
      BY DEF C!Init
<1> QED BY <1>1, <1>2, <1>3, <1>4, <1>5 DEF CurtainTypes

(* A refresh keeps the types, and what is remembered stays what is drawn. *)
LEMMA RefreshTypes ==
  ASSUME CurtainTypes, NEW pending \in BOOLEAN, NEW setting \in BOOLEAN, NEW sessions,
         C!RefreshFor(pending, setting, sessions)
  PROVE  /\ last' \in BOOLEAN /\ drawn' \in Nat /\ drawings' \in Nat /\ failures' \in Nat
         /\ drawn' <= drawings' /\ drawings <= drawings'
  BY DEF C!RefreshFor, C!Applied, C!Remembers, CurtainTypes

(* ... and keep them. *)
LEMMA CurtainTypesStay == CurtainTypes /\ [C!CurtainNext]_(C!vars) => CurtainTypes'
<1> SUFFICES ASSUME CurtainTypes, [C!CurtainNext]_(C!vars) PROVE CurtainTypes'
    OBVIOUS
<1>t. enabled \in BOOLEAN /\ (~enabled) \in BOOLEAN /\ C!Pending \in BOOLEAN /\ FALSE \in BOOLEAN
      BY DEF CurtainTypes, C!Pending
<1>1. ASSUME drawings <= drawings', drawn' <= drawings',
             last' \in BOOLEAN, drawn' \in Nat, drawings' \in Nat, failures' \in Nat,
             enabled' \in BOOLEAN, restarts' \subseteq Starts, awaited' \subseteq Starts,
             unmade' \subseteq Starts,
             crossed' = crossed \/ \E other : C!Crossed(other)
                                \/ crossed' = crossed \cup
                                     {s \in Starts : start[s] \in {"prepared", "capturing"}},
             \/ start' = start
             \/ \E s \in Starts, to \in {"prepared", "capturing", "live", "tombstone", "ended"} :
                   start' = [start EXCEPT ![s] = to],
             \/ remaking' = remaking
             \/ \E s \in Starts, to \in {"none", "begun", "made"} :
                   remaking' = [remaking EXCEPT ![s] = to],
             excludes' = excludes \/ \E s \in Starts : excludes' = [excludes EXCEPT ![s] = drawn]
      PROVE  CurtainTypes'
  <2>1. crossed' \subseteq Starts
        BY <1>1 DEF C!Crossed, CurtainTypes
  <2>2. start' \in [Starts -> {"idle", "prepared", "capturing", "live", "tombstone", "ended"}]
        BY <1>1 DEF CurtainTypes
  <2>3. excludes' \in [Starts -> Nat] /\ \A s \in Starts : excludes'[s] <= drawings'
        BY <1>1 DEF CurtainTypes
  <2>4. remaking' \in [Starts -> {"none", "begun", "made"}]
        BY <1>1 DEF CurtainTypes
  <2> QED BY <1>1, <2>1, <2>2, <2>3, <2>4 DEF CurtainTypes
<1>2. ASSUME NEW s \in Starts, C!PrepareStart(s) \/ C!RegisterStart(s) \/ C!EndStart(s)
      PROVE  CurtainTypes'
  <2>1. /\ last' \in BOOLEAN /\ drawn' \in Nat /\ drawings' \in Nat /\ failures' \in Nat
        /\ drawn' <= drawings' /\ drawings <= drawings'
        BY <1>t, <1>2, RefreshTypes DEF C!PrepareStart, C!RegisterStart, C!EndStart
  <2> QED BY <1>1, <1>2, <2>1
          DEF C!PrepareStart, C!RegisterStart, C!EndStart, C!remakes, CurtainTypes
<1>3. ASSUME NEW s \in Starts, C!BackendStart(s) \/ C!EndUnrefreshed(s) \/ C!ForceStop(s)
      PROVE  CurtainTypes'
      BY <1>1, <1>3 DEF C!BackendStart, C!EndUnrefreshed, C!ForceStop, C!remakes, CurtainTypes
<1>4. CASE C!Poll
  <2>1. /\ last' \in BOOLEAN /\ drawn' \in Nat /\ drawings' \in Nat /\ failures' \in Nat
        /\ drawn' <= drawings' /\ drawings <= drawings'
        BY <1>t, <1>4, RefreshTypes DEF C!Poll
  <2> QED BY <1>1, <1>4, <2>1 DEF C!Poll, C!remakes, CurtainTypes
<1>5. CASE C!Toggle
  <2>1. /\ last' \in BOOLEAN /\ drawn' \in Nat /\ drawings' \in Nat /\ failures' \in Nat
        /\ drawn' <= drawings' /\ drawings <= drawings'
        BY <1>t, <1>5, RefreshTypes DEF C!Toggle
  <2>2. restarts' \subseteq Starts
        BY <1>5 DEF C!Toggle, C!Streaming, CurtainTypes
  <2> QED BY <1>1, <1>5, <1>t, <2>1, <2>2 DEF C!Toggle, C!remakes, CurtainTypes
<1>6. CASE UNCHANGED C!vars
      BY <1>6 DEF C!vars, CurtainTypes
<1>7. ASSUME NEW s \in Starts,
             C!RestartSession(s) \/ C!Reconfigure(s) \/ C!Remake(s) \/ C!RemakeEnds(s)
      PROVE  CurtainTypes'
  <2>1. /\ UNCHANGED <<enabled, drawn, drawings, last, failures, crossed>>
        /\ restarts' \subseteq Starts /\ awaited' \subseteq Starts /\ unmade' \subseteq Starts
        BY <1>7 DEF C!RestartSession, C!Reconfigure, C!Remake, C!RemakeEnds, CurtainTypes
  <2>2. start' = start \/ start' = [start EXCEPT ![s] = "tombstone"]
        BY <1>7 DEF C!RestartSession, C!Reconfigure, C!Remake, C!RemakeEnds
  <2>3. \/ remaking' = remaking
        \/ \E to \in {"none", "begun", "made"} : remaking' = [remaking EXCEPT ![s] = to]
        BY <1>7 DEF C!RestartSession, C!Reconfigure, C!Remake, C!RemakeEnds
  <2>4. excludes' = excludes \/ excludes' = [excludes EXCEPT ![s] = drawn]
        BY <1>7 DEF C!RestartSession, C!Reconfigure, C!Remake, C!RemakeEnds, C!NewFilter
  <2> QED BY <1>1, <2>1, <2>2, <2>3, <2>4 DEF CurtainTypes
<1> QED BY <1>2, <1>3, <1>4, <1>5, <1>6, <1>7 DEF C!CurtainNext

(* A refresh that fails counts; one that does not leaves what it wanted.  *)
LEMMA Refreshes ==
  ASSUME CurtainTypes, RemembersDrawn, NEW pending \in BOOLEAN, NEW setting \in BOOLEAN,
         NEW sessions, C!RefreshFor(pending, setting, sessions)
  PROVE  /\ RemembersDrawn'
         /\ failures' = 0 => /\ failures = 0
                             /\ drawn' # 0 <=> (setting /\ (pending \/ sessions # {}))
                             /\ (drawn # 0 <=> drawn' # 0) => drawn' = drawn
<1> DEFINE desired == setting /\ (pending \/ sessions # {})
<1>1. desired \in BOOLEAN /\ last \in BOOLEAN /\ drawn \in Nat /\ drawings \in Nat
      /\ failures \in Nat
      BY DEF CurtainTypes
<1>2. CASE (desired <=> last) /\ UNCHANGED <<drawn, drawings, last, failures>>
      BY <1>1, <1>2 DEF RemembersDrawn
<1>3. CASE ~(desired <=> last) /\ C!Applied(desired) /\ last' = desired /\ UNCHANGED failures
  <2> HIDE DEF desired
  <2>1. failures' = failures /\ (last' <=> desired)
        BY <1>1, <1>3
  <2>2. drawn' # 0 <=> desired
        BY <1>1, <1>3 DEF C!Applied
  <2>3. ~(drawn # 0 <=> desired)
        BY <1>1, <1>3 DEF RemembersDrawn
  <2>4. RemembersDrawn'
        BY <2>1, <2>2 DEF RemembersDrawn
  <2>5. drawn' # 0 <=> (setting /\ (pending \/ sessions # {}))
        BY <2>2 DEF desired
  <2> QED BY <2>1, <2>2, <2>3, <2>4, <2>5
<1>4. CASE failures' = failures + 1 /\ last' = last /\ drawn' = drawn
      BY <1>1, <1>4 DEF RemembersDrawn
<1> QED BY <1>1, <1>2, <1>3, <1>4 DEF C!RefreshFor, C!Remembers

(* Nothing is live and nothing is drawn at the start. *)
LEMMA CurtainStarts == C!Init => CurtainInv
  BY DEF C!Init, CurtainInv, RemembersDrawn, StartsArePrepared, LiveIsCurtained, Curtained, C!Live, C!Streaming

(* A step that makes no capture and adds no session leaves the streams curtained. *)
LEMMA CurtainedStays ==
  ASSUME Curtained, UNCHANGED C!remakes, restarts' = restarts, crossed \subseteq crossed',
         C!Streaming' \subseteq C!Streaming, C!Streaming' # {} => drawn' = drawn
  PROVE  Curtained'
  BY DEF Curtained, C!remakes

(* Starts under way stay prepared when none of them is added and those whose *)
(* curtain moves are recorded. *)
LEMMA PreparedStay ==
  ASSUME StartsArePrepared, UNCHANGED <<enabled, drawn, crossed>>,
         \A s \in Starts : start'[s] \in {"prepared", "capturing"}
                              => start'[s] = start[s] /\ excludes'[s] = excludes[s]
  PROVE  StartsArePrepared'
  BY DEF StartsArePrepared, Drawn

(* Every step keeps the invariant. *)
LEMMA CurtainStays == CurtainTypes /\ CurtainInv /\ [C!CurtainNext]_(C!vars) => CurtainInv'
<1> SUFFICES ASSUME CurtainTypes, CurtainInv, [C!CurtainNext]_(C!vars) PROVE CurtainInv'
    OBVIOUS
<1>t. /\ enabled \in BOOLEAN /\ (~enabled) \in BOOLEAN /\ C!Pending \in BOOLEAN
      /\ FALSE \in BOOLEAN /\ RemembersDrawn
      /\ start \in [Starts -> {"idle", "prepared", "capturing", "live", "tombstone", "ended"}]
      /\ excludes \in [Starts -> Nat] /\ failures \in Nat
      /\ remaking \in [Starts -> {"none", "begun", "made"}]
      BY DEF CurtainTypes, C!Pending, CurtainInv
<1>l. C!Streaming \subseteq C!Live /\ C!Live \subseteq Starts
      BY DEF C!Streaming, C!Live
<1>m. C!Streaming' \subseteq C!Live'
      BY DEF C!Streaming, C!Live
<1>1. ASSUME NEW s \in Starts, C!PrepareStart(s)
      PROVE  CurtainInv'
  <2>1. /\ start[s] = "idle" /\ start' = [start EXCEPT ![s] = "prepared"]
        /\ C!RefreshFor(C!Pending, enabled, C!Live)
        /\ UNCHANGED <<enabled, C!remakes, restarts>>
        /\ crossed' = IF drawn' = drawn THEN crossed
                      ELSE crossed \cup {t \in Starts \ {s} : start[t] \in {"prepared", "capturing"}}
        BY <1>1 DEF C!PrepareStart, C!Crossed
  <2>2. /\ RemembersDrawn'
        /\ failures' = 0 => /\ failures = 0 /\ (drawn' # 0 <=> enabled)
                            /\ (drawn # 0 <=> drawn' # 0) => drawn' = drawn
        BY <1>t, <2>1, Refreshes DEF C!Pending
  <2> SUFFICES ASSUME failures' = 0 PROVE StartsArePrepared' /\ LiveIsCurtained'
      BY <2>2 DEF CurtainInv
  <2>3. StartsArePrepared /\ LiveIsCurtained
        BY <2>2 DEF CurtainInv
  <2>4. C!Live' = C!Live /\ C!Streaming' = C!Streaming
        BY <1>t, <2>1 DEF C!Live, C!Streaming
  <2>5. C!Live # {} => drawn' = drawn
        BY <2>2, <2>3 DEF LiveIsCurtained, Drawn
  <2>6. Curtained'
        BY <1>l, <2>1, <2>3, <2>4, <2>5, CurtainedStays DEF LiveIsCurtained
  <2>7. StartsArePrepared'
        BY <1>t, <2>1, <2>2, <2>3 DEF StartsArePrepared, Drawn, C!remakes
  <2> QED BY <2>1, <2>2, <2>6, <2>7 DEF LiveIsCurtained, Drawn
<1>2. ASSUME NEW s \in Starts, C!BackendStart(s)
      PROVE  CurtainInv'
  <2>1. /\ start[s] \in {"prepared", "capturing"} /\ start' = [start EXCEPT ![s] = "capturing"]
        /\ excludes' = [excludes EXCEPT ![s] = drawn]
        /\ UNCHANGED <<enabled, drawn, last, remaking, restarts, awaited, unmade, failures, crossed>>
        BY <1>2 DEF C!BackendStart
  <2>2. C!Live' = C!Live /\ C!Streaming' = C!Streaming /\ s \notin C!Streaming
        BY <1>t, <2>1 DEF C!Live, C!Streaming
  <2>3. RemembersDrawn'
        BY <1>t, <2>1 DEF RemembersDrawn
  <2>4. ASSUME LiveIsCurtained PROVE LiveIsCurtained'
    <3>1. \A t \in C!Streaming : excludes'[t] = excludes[t]
          BY <1>t, <2>1, <2>2, <1>l
    <3> QED BY <2>1, <2>2, <2>4, <3>1 DEF LiveIsCurtained, Drawn, Curtained
  <2>5. ASSUME StartsArePrepared PROVE StartsArePrepared'
        BY <1>t, <2>1, <2>5 DEF StartsArePrepared, Drawn
  <2> QED BY <2>1, <2>3, <2>4, <2>5 DEF CurtainInv
<1>3. ASSUME NEW s \in Starts, C!RegisterStart(s)
      PROVE  CurtainInv'
  <2>1. /\ start[s] = "capturing" /\ start' = [start EXCEPT ![s] = "live"]
        /\ C!RefreshFor(FALSE, enabled, C!Live \cup {s})
        /\ UNCHANGED <<enabled, C!remakes, restarts>>
        /\ crossed' = IF drawn' = drawn THEN crossed
                      ELSE crossed \cup {t \in Starts \ {s} : start[t] \in {"prepared", "capturing"}}
        BY <1>3 DEF C!RegisterStart, C!Crossed
  <2>2. /\ RemembersDrawn'
        /\ failures' = 0 => /\ failures = 0 /\ (drawn' # 0 <=> enabled)
                            /\ (drawn # 0 <=> drawn' # 0) => drawn' = drawn
    <3>1. C!Live \cup {s} # {}
          OBVIOUS
    <3> QED BY <1>t, <2>1, <3>1, Refreshes
  <2> SUFFICES ASSUME failures' = 0 PROVE StartsArePrepared' /\ LiveIsCurtained'
      BY <2>2 DEF CurtainInv
  <2>3. StartsArePrepared /\ LiveIsCurtained
        BY <2>2 DEF CurtainInv
  <2>4. C!Streaming' = C!Streaming \cup {s}
        BY <1>t, <2>1 DEF C!Streaming
  <2>5. C!Live # {} => drawn' = drawn
        BY <2>2, <2>3 DEF LiveIsCurtained, Drawn
  <2>6. s \notin crossed => drawn' = drawn /\ excludes[s] = drawn
        BY <2>1, <2>2, <2>3 DEF StartsArePrepared, Drawn
  <2>7. Curtained'
    <3>1. crossed \subseteq crossed' /\ UNCHANGED <<excludes, remaking, awaited, unmade, restarts>>
          BY <2>1 DEF C!remakes
    <3> QED BY <1>l, <2>3, <2>4, <2>5, <2>6, <3>1 DEF LiveIsCurtained, Curtained
  <2>8. StartsArePrepared'
        BY <1>t, <2>1, <2>2, <2>3 DEF StartsArePrepared, Drawn, C!remakes
  <2> QED BY <2>1, <2>2, <2>7, <2>8 DEF LiveIsCurtained, Drawn
<1>4. ASSUME NEW s \in Starts, C!EndStart(s)
      PROVE  CurtainInv'
  <2>1. /\ start' = [start EXCEPT ![s] = "ended"]
        /\ C!RefreshFor(FALSE, enabled, C!Live \ {s})
        /\ UNCHANGED <<enabled, C!remakes, restarts>>
        /\ crossed' = IF drawn' = drawn THEN crossed
                      ELSE crossed \cup {t \in Starts \ {s} : start[t] \in {"prepared", "capturing"}}
        BY <1>4 DEF C!EndStart, C!Crossed
  <2>2. /\ RemembersDrawn'
        /\ failures' = 0 => /\ failures = 0 /\ (drawn' # 0 <=> (enabled /\ C!Live \ {s} # {}))
                            /\ (drawn # 0 <=> drawn' # 0) => drawn' = drawn
        BY <1>t, <2>1, Refreshes
  <2> SUFFICES ASSUME failures' = 0 PROVE StartsArePrepared' /\ LiveIsCurtained'
      BY <2>2 DEF CurtainInv
  <2>3. StartsArePrepared /\ LiveIsCurtained
        BY <2>2 DEF CurtainInv
  <2>4. C!Live' = C!Live \ {s} /\ C!Streaming' = C!Streaming \ {s}
        BY <1>t, <2>1 DEF C!Live, C!Streaming
  <2>5. C!Live' # {} => drawn' = drawn
        BY <2>2, <2>3, <2>4 DEF LiveIsCurtained, Drawn
  <2>6. Curtained'
        BY <1>m, <2>1, <2>3, <2>4, <2>5, CurtainedStays DEF LiveIsCurtained
  <2>7. C!Live' # {} => Drawn'
        BY <2>1, <2>2, <2>4 DEF Drawn
  <2>8. StartsArePrepared'
        BY <1>t, <2>1, <2>2, <2>3 DEF StartsArePrepared, Drawn, C!remakes
  <2> QED BY <2>6, <2>7, <2>8 DEF LiveIsCurtained
<1>5. ASSUME NEW s \in Starts, C!EndUnrefreshed(s) \/ C!ForceStop(s)
      PROVE  CurtainInv'
  <2>1. /\ failures' = failures \/ failures' = failures + 1
        /\ UNCHANGED <<enabled, drawn, last, C!remakes, restarts, crossed>>
        /\ start' = [start EXCEPT ![s] = "ended"] \/ (s \in C!Streaming /\ start' = [start EXCEPT ![s] = "tombstone"])
        BY <1>5 DEF C!EndUnrefreshed, C!ForceStop
  <2>2. C!Live' \subseteq C!Live /\ C!Streaming' \subseteq C!Streaming
        BY <1>t, <2>1 DEF C!Live, C!Streaming
  <2>3. RemembersDrawn'
        BY <1>t, <2>1 DEF RemembersDrawn
  <2> SUFFICES ASSUME failures' = 0 PROVE StartsArePrepared' /\ LiveIsCurtained'
      BY <2>3 DEF CurtainInv
  <2>4. StartsArePrepared /\ LiveIsCurtained
        BY <1>t, <2>1 DEF CurtainInv
  <2>5. StartsArePrepared'
        BY <1>t, <2>1, <2>4, PreparedStay DEF C!remakes
  <2>6. Curtained'
        BY <2>1, <2>2, <2>4, CurtainedStays DEF LiveIsCurtained
  <2> QED BY <2>1, <2>2, <2>4, <2>5, <2>6 DEF LiveIsCurtained, Drawn
<1>6. CASE C!Poll
  <2>1. /\ C!RefreshFor(FALSE, enabled, C!Live)
        /\ UNCHANGED <<enabled, start, C!remakes, restarts>>
        /\ crossed' = IF drawn' = drawn THEN crossed
                      ELSE crossed \cup {t \in Starts : start[t] \in {"prepared", "capturing"}}
        BY <1>6 DEF C!Poll, C!Crossed
  <2>2. /\ RemembersDrawn'
        /\ failures' = 0 => /\ failures = 0 /\ (drawn' # 0 <=> (enabled /\ C!Live # {}))
                            /\ (drawn # 0 <=> drawn' # 0) => drawn' = drawn
        BY <1>t, <2>1, Refreshes
  <2> SUFFICES ASSUME failures' = 0 PROVE StartsArePrepared' /\ LiveIsCurtained'
      BY <2>2 DEF CurtainInv
  <2>3. StartsArePrepared /\ LiveIsCurtained
        BY <2>2 DEF CurtainInv
  <2>4. C!Live' = C!Live /\ C!Streaming' = C!Streaming /\ crossed \subseteq crossed'
        BY <2>1 DEF C!Live, C!Streaming
  <2>5. C!Live # {} => drawn' = drawn
        BY <2>2, <2>3 DEF LiveIsCurtained, Drawn
  <2>6. Curtained'
        BY <1>l, <2>1, <2>3, <2>4, <2>5, CurtainedStays DEF LiveIsCurtained
  <2>7. StartsArePrepared'
        BY <1>t, <2>1, <2>3 DEF StartsArePrepared, Drawn, C!remakes
  <2> QED BY <2>1, <2>2, <2>4, <2>6, <2>7 DEF LiveIsCurtained, Drawn
<1>7. CASE C!Toggle
  <2>1. /\ C!RefreshFor(FALSE, ~enabled, C!Live) /\ enabled' = ~enabled
        /\ restarts' = IF ~enabled THEN C!Streaming ELSE restarts
        /\ crossed' = crossed \cup {t \in Starts : start[t] \in {"prepared", "capturing"}}
        /\ UNCHANGED <<start, C!remakes>>
        BY <1>7 DEF C!Toggle
  <2>2. /\ RemembersDrawn'
        /\ failures' = 0 => drawn' # 0 <=> (~enabled /\ C!Live # {})
        BY <1>t, <2>1, Refreshes
  <2> SUFFICES ASSUME failures' = 0 PROVE StartsArePrepared' /\ LiveIsCurtained'
      BY <2>2 DEF CurtainInv
  <2>3. C!Live' = C!Live /\ C!Streaming' = C!Streaming
        BY <2>1 DEF C!Live, C!Streaming
  <2>4. Curtained'
    <3>1. CASE enabled
          BY <2>2, <3>1 DEF Curtained
    <3>2. CASE ~enabled
          BY <2>1, <2>3, <3>2 DEF Curtained
    <3> QED BY <3>1, <3>2
  <2>5. StartsArePrepared'
        BY <2>1 DEF StartsArePrepared
  <2> QED BY <1>t, <2>1, <2>2, <2>3, <2>4, <2>5 DEF LiveIsCurtained, Drawn
<1>8. ASSUME NEW s \in Starts, C!RestartSession(s)
      PROVE  CurtainInv'
  <2>1. /\ restarts' = restarts \ {s}
        /\ UNCHANGED <<enabled, drawn, last, excludes, failures, crossed>>
        /\ \/ /\ s \in C!Streaming /\ start' = [start EXCEPT ![s] = "tombstone"]
              /\ UNCHANGED <<remaking, awaited, unmade>>
           \/ /\ remaking' = [remaking EXCEPT ![s] = "begun"] /\ awaited' = {s} /\ awaited = {}
              /\ UNCHANGED <<start, unmade>>
           \/ unmade' = unmade \cup {s} /\ UNCHANGED <<start, remaking, awaited>>
           \/ s \notin C!Streaming /\ UNCHANGED <<start, remaking, awaited, unmade>>
        BY <1>8 DEF C!RestartSession
  <2>2. /\ C!Live' = C!Live /\ C!Streaming' \subseteq C!Streaming
        /\ s \in C!Streaming' => start' = start /\ s \in C!Streaming
        BY <1>t, <2>1 DEF C!Live, C!Streaming
  <2>3. RemembersDrawn'
        BY <2>1, <1>t DEF RemembersDrawn
  <2>4. ASSUME Curtained PROVE Curtained'
    <3>1. \A t \in C!Streaming' \ {s} : /\ remaking'[t] = remaking[t] /\ (t \in awaited' <=> t \in awaited)
                                        /\ (t \in unmade' <=> t \in unmade)
                                        /\ (t \in restarts' <=> t \in restarts)
          BY <1>t, <1>l, <2>1, <2>2
    <3>2. s \in C!Streaming' => s \in unmade' \/ (s \in awaited' /\ remaking'[s] = "begun")
          BY <1>t, <2>1, <2>2 DEF C!Streaming
    <3> QED BY <2>1, <2>2, <2>4, <3>1, <3>2 DEF Curtained
  <2>5. ASSUME LiveIsCurtained PROVE LiveIsCurtained'
        BY <2>1, <2>2, <2>4, <2>5 DEF LiveIsCurtained, Drawn
  <2>6. ASSUME StartsArePrepared PROVE StartsArePrepared'
        BY <1>t, <2>1, <2>6, PreparedStay
  <2> QED BY <2>1, <2>3, <2>5, <2>6 DEF CurtainInv
<1>9. ASSUME NEW s \in Starts, C!Reconfigure(s)
      PROVE  CurtainInv'
  <2>1. /\ s \in C!Streaming /\ remaking[s] = "none" /\ remaking' = [remaking EXCEPT ![s] = "begun"]
        /\ UNCHANGED <<enabled, drawn, last, start, excludes, restarts, awaited, unmade, failures, crossed>>
        BY <1>9 DEF C!Reconfigure
  <2>2. C!Live' = C!Live /\ C!Streaming' = C!Streaming
        BY <2>1 DEF C!Live, C!Streaming
  <2>3. \A t \in C!Streaming : remaking'[t] = "made" => remaking[t] = "made"
        BY <1>t, <2>1
  <2> QED BY <2>1, <2>2, <2>3
          DEF CurtainInv, RemembersDrawn, StartsArePrepared, LiveIsCurtained, Curtained, Drawn
<1>10. ASSUME NEW s \in Starts, C!Remake(s)
      PROVE  CurtainInv'
  <2>1. /\ s \in C!Streaming /\ remaking' = [remaking EXCEPT ![s] = "made"]
        /\ excludes' = [excludes EXCEPT ![s] = drawn] /\ unmade' = unmade \ {s}
        /\ UNCHANGED <<enabled, drawn, last, start, restarts, awaited, failures, crossed>>
        BY <1>10 DEF C!Remake, C!NewFilter
  <2>2. C!Live' = C!Live /\ C!Streaming' = C!Streaming
        BY <2>1 DEF C!Live, C!Streaming
  <2>3. RemembersDrawn'
        BY <1>t, <2>1 DEF RemembersDrawn
  <2>4. ASSUME Curtained PROVE Curtained'
    <3>1. \A t \in C!Streaming \ {s} : /\ remaking'[t] = remaking[t] /\ excludes'[t] = excludes[t]
                                       /\ (t \in unmade' <=> t \in unmade)
          BY <1>t, <1>l, <2>1
    <3>2. excludes'[s] = drawn
          BY <1>t, <2>1
    <3> QED BY <2>1, <2>2, <2>4, <3>1, <3>2 DEF Curtained
  <2>5. ASSUME StartsArePrepared PROVE StartsArePrepared'
    <3>1. \A t \in Starts : start'[t] \in {"prepared", "capturing"} => excludes'[t] = excludes[t]
          BY <1>t, <2>1 DEF C!Streaming
    <3> QED BY <2>1, <2>5, <3>1, PreparedStay
  <2>6. ASSUME LiveIsCurtained PROVE LiveIsCurtained'
        BY <2>1, <2>2, <2>4, <2>6 DEF LiveIsCurtained, Drawn
  <2> QED BY <2>1, <2>3, <2>5, <2>6 DEF CurtainInv
<1>11. ASSUME NEW s \in Starts, C!RemakeEnds(s)
      PROVE  CurtainInv'
  <2>1. /\ remaking' = [remaking EXCEPT ![s] = "none"] /\ awaited' = awaited \ {s}
        /\ UNCHANGED <<enabled, drawn, last, excludes, restarts, failures, crossed>>
        /\ \/ /\ unmade' = IF s \in awaited /\ remaking[s] = "begun" THEN unmade \cup {s} ELSE unmade
              /\ start' = start
           \/ s \in C!Streaming /\ start' = [start EXCEPT ![s] = "tombstone"] /\ unmade' = unmade
        BY <1>11 DEF C!RemakeEnds
  <2>2. /\ C!Live' = C!Live /\ C!Streaming' \subseteq C!Streaming
        /\ s \in C!Streaming' => start' = start
        BY <1>t, <2>1 DEF C!Live, C!Streaming
  <2>3. RemembersDrawn'
        BY <2>1, <1>t DEF RemembersDrawn
  <2>4. ASSUME Curtained PROVE Curtained'
    <3>1. \A t \in C!Streaming' \ {s} : /\ remaking'[t] = remaking[t] /\ (t \in awaited' <=> t \in awaited)
                                        /\ (t \in unmade' <=> t \in unmade)
          BY <1>t, <1>l, <2>1, <2>2
    <3>2. s \in C!Streaming' \ unmade' => s \notin unmade /\ (s \in awaited => remaking[s] = "made")
      <4>1. remaking[s] \in {"none", "begun", "made"} /\ remaking[s] # "none"
            BY <1>t, <1>11 DEF C!RemakeEnds
      <4>2. s \in C!Streaming' => start[s] = "live" /\ start'[s] = "live"
            BY <2>2 DEF C!Streaming
      <4>3. s \in C!Streaming' => unmade' = IF s \in awaited /\ remaking[s] = "begun" THEN unmade \cup {s} ELSE unmade
            BY <1>t, <2>1, <4>2
      <4> QED BY <4>1, <4>3
    <3> QED BY <2>1, <2>2, <2>4, <3>1, <3>2 DEF Curtained
  <2>5. ASSUME LiveIsCurtained PROVE LiveIsCurtained'
        BY <2>1, <2>2, <2>4, <2>5 DEF LiveIsCurtained, Drawn
  <2>6. ASSUME StartsArePrepared PROVE StartsArePrepared'
        BY <1>t, <2>1, <2>6, PreparedStay
  <2> QED BY <2>1, <2>3, <2>5, <2>6 DEF CurtainInv
<1>12. CASE UNCHANGED C!vars
  <2>1. C!Live' = C!Live /\ C!Streaming' = C!Streaming
        BY <1>12 DEF C!vars, C!Live, C!Streaming
  <2> QED BY <1>12, <2>1
          DEF C!vars, CurtainInv, RemembersDrawn, StartsArePrepared, LiveIsCurtained, Curtained, Drawn
<1> QED BY <1>1, <1>2, <1>3, <1>4, <1>5, <1>6, <1>7, <1>8, <1>9, <1>10, <1>11, <1>12 DEF C!CurtainNext

(* The curtain keeps its inductive invariant beside the other services. *)
LEMMA CurtainHolds == Spec => [](CurtainTypes /\ CurtainInv)
<1>1. Init => CurtainTypes /\ CurtainInv
      BY CurtainTypesStart, CurtainStarts DEF Init
<1>2. [Next]_vars => [C!CurtainNext]_(C!vars)
      BY DEF Next, KmStep, PairingStep, PeersStep, FilesStep, CurtainStep, vars, curtainVars, C!vars
<1>3. CurtainTypes /\ CurtainInv /\ [Next]_vars => (CurtainTypes /\ CurtainInv)'
      BY <1>2, CurtainTypesStay, CurtainStays
<1> QED BY <1>1, <1>3, PTL DEF Spec

(* No live stream shows the curtain over the screens, however starts, stops, *)
(* toggles and polls interleave: unless another caller moved the curtain     *)
(* during the stream's first frame, its restart is still due or ended without *)
(* a new capture, or the windows could not be made (control.rs:3273, 709). *)
THEOREM Curtain == Spec => []CurtainIsNotStreamedApart
<1>1. CurtainInv => CurtainIsNotStreamedApart
      BY DEF CurtainInv, LiveIsCurtained, Curtained, CurtainIsNotStreamedApart,
             C!CurtainIsNotStreamedApart, C!Exempt
<1> QED BY <1>1, CurtainHolds, PTL

(* No step of a service does what its module forbids: a closed offer pairs nobody *)
(* (pairing.rs:664), a session is armed by a consent of its very pairing, and the *)
(* physical input changes hands only by way of the local screens. *)
THEOREM StepsAreAllowed ==
  ASSUME MaxGen \in Nat \ {0}, MaxOffers \in Nat, Legacy = {}
  PROVE  Spec => EachStep
<1>1. Spec => P!ClosedOffersPairNobody
      BY ClosedStays
<1>2. K!Spec => K!ConsentIsPerPairing
      BY ConsentsArePerPairing
<1> QED BY <1>1, <1>2, PeersRun, MachineRuns, OwnershipIsExclusive DEF EachStep
=============================================================================
