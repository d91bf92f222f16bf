----------------------------- MODULE RegistryProofs -----------------------------
(***************************************************************************)
(* Theorems about Registry, for every list of backends, number of rounds   *)
(* alive at a time, and changes.  RegistryTypeOK with OneLiveRound is      *)
(* inductive as it stands: the loop starts a round only while it waits for *)
(* none, and leaves one behind only when it is over or has expired.        *)
(***************************************************************************)
EXTENDS Registry, TLAPS

RegistryInv == RegistryTypeOK /\ OneLiveRound

DiscTypes ==
    [at : {"off", "asking", "logging"}, next : 1 .. Len(KeyOrder) + 1,
     found : SUBSET (Models \X Backends), expired : BOOLEAN]

LEMMA KeyOrderTypes ==
    /\ Len(KeyOrder) \in Nat /\ DOMAIN KeyOrder = 1 .. Len(KeyOrder)
    /\ \A i \in 1 .. Len(KeyOrder) : KeyOrder[i] \in Backends
  BY RegistryAssumption DEF Backends, Range

LEMMA NoDiscoveryTypes == NoDiscovery \in DiscTypes
  BY KeyOrderTypes DEF NoDiscovery, DiscTypes

LEMMA RegistryInit == Init => RegistryInv
<1> SUFFICES ASSUME Init PROVE RegistryInv
  OBVIOUS
<1>1. disc = [d \in Discoveries |-> NoDiscovery]
  BY DEF Init, ProxyStart
<1>2. disc \in [Discoveries -> DiscTypes]
  BY <1>1, NoDiscoveryTypes
<1>3. loaded \in [Backends -> SUBSET Models] /\ answers \in [Backends -> Answers]
  BY DEF Init
<1>4. /\ changes \in 0 .. MaxChanges /\ checked \in 0 .. Len(KeyOrder)
      /\ up \in [Backends -> BOOLEAN] /\ registry = {} /\ gate = {}
      /\ loop = "check" /\ changed = FALSE /\ waitsFor \in Discoveries
  BY RegistryAssumption, KeyOrderTypes DEF Init, ProxyStart, Discoveries
<1>6. RegistryTypeOK
  BY <1>2, <1>3, <1>4 DEF RegistryTypeOK, DiscTypes
<1>5. OneLiveRound
  BY <1>1 DEF OneLiveRound, NoDiscovery, Discoveries
<1> QED
  BY <1>5, <1>6 DEF RegistryInv

\* Steps of discoveries: none of them comes to life.
LEMMA DiscoversKeeps ==
    ASSUME RegistryInv, NEW d \in Discoveries, Discovers(d)
    PROVE  RegistryInv'
<1>1. disc \in [Discoveries -> DiscTypes] /\ disc[d] \in DiscTypes
  BY DEF RegistryInv, RegistryTypeOK, DiscTypes
<1>2. CASE Ask(d)
  <2>1. disc[d].next \in 1 .. Len(KeyOrder) /\ Asked(d) \in Backends
    BY <1>1, <1>2, KeyOrderTypes DEF Ask, Asking, Asked, DiscTypes
  <2>2. Contribution(d) \subseteq Models \X Backends
    BY <2>1 DEF Contribution, RegistryInv, RegistryTypeOK
  <2>. DEFINE n == disc[d].next + 1
              f == disc[d].found \cup Contribution(d)
  <2>9. n \in 1 .. Len(KeyOrder) + 1
    BY <2>1, KeyOrderTypes
  <2>10. f \in SUBSET (Models \X Backends)
    BY <1>1, <2>2 DEF DiscTypes
  <2>. HIDE DEF n, f
  <2>11. [disc[d] EXCEPT !.next = n, !.found = f] \in DiscTypes
    BY <1>1, <2>9, <2>10 DEF DiscTypes
  <2>3. [disc[d] EXCEPT !.next = @ + 1, !.found = @ \cup Contribution(d)] \in DiscTypes
    BY <2>11 DEF n, f
  <2>4. disc' = [disc EXCEPT ![d] = [disc[d] EXCEPT !.next = @ + 1,
                                                    !.found = @ \cup Contribution(d)]]
    BY <1>1, <1>2 DEF Ask
  <2>5. disc' \in [Discoveries -> DiscTypes]
    BY <1>1, <2>3, <2>4
  <2>6. RegistryTypeOK'
    BY <1>2, <2>5 DEF Ask, worldVars, loopVars, RegistryInv, RegistryTypeOK, DiscTypes
  <2>7. \A e \in Discoveries : disc'[e].at = disc[e].at /\ disc'[e].expired = disc[e].expired
    BY <1>1, <2>4 DEF DiscTypes
  <2>8. OneLiveRound'
    BY <1>2, <2>7 DEF Ask, loopVars, RegistryInv, OneLiveRound, Discoveries
  <2> QED
    BY <2>6, <2>8 DEF RegistryInv
<1>3. CASE GiveUp(d) \/ Log(d)
  <2>1. disc' = [disc EXCEPT ![d] = NoDiscovery] /\ UNCHANGED <<worldVars, up, registry, loopVars>>
    BY <1>3 DEF GiveUp, Log
  <2>2. disc' \in [Discoveries -> DiscTypes]
    BY <1>1, <2>1, NoDiscoveryTypes
  <2>3. RegistryTypeOK'
    BY <2>1, <2>2 DEF worldVars, loopVars, RegistryInv, RegistryTypeOK, DiscTypes
  <2>4. \A e \in Discoveries : disc'[e] = disc[e] \/ disc'[e].at = "off"
    BY <1>1, <2>1 DEF NoDiscovery
  <2>5. OneLiveRound'
    BY <2>1, <2>4 DEF loopVars, RegistryInv, OneLiveRound, Discoveries
  <2> QED
    BY <2>3, <2>5 DEF RegistryInv
<1>4. CASE Install(d)
  <2>1. /\ disc' = [disc EXCEPT ![d] = [disc[d] EXCEPT !.at = "logging", !.next = 1,
                                                       !.expired = FALSE]]
        /\ registry' = disc[d].found /\ UNCHANGED <<worldVars, up, loopVars>>
    BY <1>1, <1>4 DEF Install
  <2>8. 1 \in 1 .. Len(KeyOrder) + 1
    BY KeyOrderTypes
  <2>2. [disc[d] EXCEPT !.at = "logging", !.next = 1, !.expired = FALSE] \in DiscTypes
    BY <1>1, <2>8 DEF DiscTypes
  <2>3. disc' \in [Discoveries -> DiscTypes] /\ disc'[d].at = "logging"
    BY <1>1, <2>1, <2>2 DEF DiscTypes
  <2>4. registry' \subseteq Models \X Backends
    BY <1>1, <2>1 DEF DiscTypes
  <2>5. RegistryTypeOK'
    BY <2>1, <2>3, <2>4 DEF worldVars, loopVars, RegistryInv, RegistryTypeOK, DiscTypes
  <2>6. \A e \in Discoveries : disc'[e] = disc[e] \/ disc'[e].at = "logging"
    BY <1>1, <2>1, <2>3
  <2>7. OneLiveRound'
    BY <2>1, <2>6 DEF loopVars, RegistryInv, OneLiveRound, Discoveries
  <2> QED
    BY <2>5, <2>7 DEF RegistryInv
<1>5. CASE Panic(d)
  <2>1. /\ disc' = [e \in Discoveries |-> NoDiscovery]
        /\ up' = [b \in Backends |-> TRUE] /\ registry' = {}
        /\ checked' = 0 /\ changed' = FALSE /\ loop' = "check" /\ waitsFor' = Matcher
        /\ gate' = {} /\ UNCHANGED worldVars
    BY <1>5 DEF Panic, TurnOver
  <2>2. disc' \in [Discoveries -> DiscTypes]
    BY <2>1, NoDiscoveryTypes
  <2>5. /\ checked' \in 0 .. Len(KeyOrder) /\ up' \in [Backends -> BOOLEAN]
        /\ waitsFor' \in Discoveries
    BY <2>1, KeyOrderTypes DEF Discoveries
  <2>3. RegistryTypeOK'
    BY <2>1, <2>2, <2>5 DEF worldVars, RegistryInv, RegistryTypeOK, DiscTypes
  <2>4. OneLiveRound'
    BY <2>1 DEF OneLiveRound, NoDiscovery, Discoveries
  <2> QED
    BY <2>3, <2>4 DEF RegistryInv
<1> QED
  BY <1>2, <1>3, <1>4, <1>5 DEF Discovers

\* The end of a turn brings one round to life; there was none, as the loop waited
\* for none.
LEMMA DecideKeeps ==
    ASSUME RegistryInv, Decide
    PROVE  RegistryInv'
<1>1. disc \in [Discoveries -> DiscTypes]
  BY DEF RegistryInv, RegistryTypeOK, DiscTypes
<1>2. /\ loop = "check" /\ gate' = Missing /\ checked' = 0 /\ changed' = FALSE
      /\ UNCHANGED <<worldVars, up, registry>>
  BY DEF Decide, TurnOver
<1>3. gate' \subseteq Backends /\ checked' \in 0 .. Len(KeyOrder)
  BY <1>2, KeyOrderTypes DEF Missing
<1>4. \A d \in Rounds : ~(disc[d].at = "asking" /\ ~disc[d].expired)
  BY <1>2 DEF RegistryInv, OneLiveRound
<1>5. CASE NeedsDiscovery
  <2>1. /\ waitsFor' \in Rounds /\ loop' = "await"
        /\ disc' = [disc EXCEPT ![waitsFor'] = [disc[waitsFor'] EXCEPT !.at = "asking"]]
    BY <1>1, <1>5 DEF Decide, IdleRounds, Discoveries
  <2>2. [disc[waitsFor'] EXCEPT !.at = "asking"] \in DiscTypes
    BY <1>1, <2>1 DEF DiscTypes, Discoveries
  <2>3. disc' \in [Discoveries -> DiscTypes] /\ waitsFor' \in Discoveries
    BY <1>1, <2>1, <2>2 DEF Discoveries
  <2>4. RegistryTypeOK'
    BY <1>2, <1>3, <2>1, <2>3 DEF worldVars, RegistryInv, RegistryTypeOK, DiscTypes
  <2>5. \A d \in Rounds \ {waitsFor'} : disc'[d] = disc[d]
    BY <1>1, <2>1 DEF Discoveries
  <2>6. OneLiveRound'
    BY <1>4, <2>1, <2>5 DEF OneLiveRound
  <2> QED
    BY <2>4, <2>6 DEF RegistryInv
<1>6. CASE ~NeedsDiscovery
  <2>1. UNCHANGED <<disc, loop, waitsFor>>
    BY <1>6 DEF Decide
  <2>2. RegistryTypeOK'
    BY <1>2, <1>3, <2>1 DEF worldVars, RegistryInv, RegistryTypeOK
  <2>3. OneLiveRound'
    BY <2>1 DEF RegistryInv, OneLiveRound
  <2> QED
    BY <2>2, <2>3 DEF RegistryInv
<1> QED
  BY <1>5, <1>6

LEMMA AwaitKeeps ==
    ASSUME RegistryInv, AwaitDone \/ AwaitTimeout
    PROVE  RegistryInv'
<1>1. disc \in [Discoveries -> DiscTypes] /\ waitsFor \in Discoveries
  BY DEF RegistryInv, RegistryTypeOK, DiscTypes
<1>2. /\ loop' = "check" /\ waitsFor' = Matcher
      /\ UNCHANGED <<worldVars, up, registry, checked, changed, gate>>
  BY DEF AwaitDone, AwaitTimeout
<1>3. disc' = disc \/ disc' = [disc EXCEPT ![waitsFor] = [disc[waitsFor] EXCEPT !.expired = TRUE]]
  BY <1>1 DEF AwaitDone, AwaitTimeout, Expire
<1>4. [disc[waitsFor] EXCEPT !.expired = TRUE] \in DiscTypes
  BY <1>1 DEF DiscTypes
<1>5. disc' \in [Discoveries -> DiscTypes]
  BY <1>1, <1>3, <1>4
<1>6. RegistryTypeOK'
  BY <1>2, <1>5 DEF worldVars, RegistryInv, RegistryTypeOK, DiscTypes, Discoveries
<1>7. ASSUME NEW d \in Rounds, disc'[d].at = "asking", ~disc'[d].expired
      PROVE  FALSE
  <2>1. d \in Discoveries /\ disc[d] \in DiscTypes
    BY <1>1 DEF Discoveries
  <2>2. CASE AwaitDone
    BY <2>2, <1>7 DEF AwaitDone, RegistryInv, OneLiveRound
  <2>3. CASE AwaitTimeout
    <3>1. disc' = [disc EXCEPT ![waitsFor] = [disc[waitsFor] EXCEPT !.expired = TRUE]]
      BY <1>1, <2>3 DEF AwaitTimeout, Expire
    <3>2. CASE d = waitsFor
      <4>1. disc'[d] = [disc[d] EXCEPT !.expired = TRUE]
        BY <1>1, <3>1, <3>2
      <4> QED
        BY <4>1, <2>1, <1>7 DEF DiscTypes
    <3>3. CASE d # waitsFor
      <4>1. disc'[d] = disc[d]
        BY <1>1, <2>1, <3>1, <3>3
      <4> QED
        BY <4>1, <3>3, <1>7 DEF RegistryInv, OneLiveRound
    <3> QED
      BY <3>2, <3>3
  <2> QED
    BY <2>2, <2>3
<1>8. OneLiveRound'
  BY <1>7 DEF OneLiveRound
<1> QED
  BY <1>6, <1>8 DEF RegistryInv

\* The steps that start, end and expire no round.
LEMMA OthersKeep ==
    ASSUME RegistryInv,
           \/ MatcherDiscovers \/ Check
           \/ \E b \in Backends : GateOpens(b) \/ BackendChanges(b)
           \/ UNCHANGED vars
    PROVE  RegistryInv'
<1>1. disc \in [Discoveries -> DiscTypes] /\ Matcher \in Discoveries /\ Matcher \notin Rounds
  BY RegistryAssumption DEF RegistryInv, RegistryTypeOK, DiscTypes, Discoveries
<1>2. CASE MatcherDiscovers
  <2>1. /\ disc' = [disc EXCEPT ![Matcher] = [disc[Matcher] EXCEPT !.at = "asking"]]
        /\ UNCHANGED <<worldVars, up, registry, loopVars>>
    BY <1>1, <1>2 DEF MatcherDiscovers
  <2>2. [disc[Matcher] EXCEPT !.at = "asking"] \in DiscTypes
    BY <1>1 DEF DiscTypes
  <2>3. disc' \in [Discoveries -> DiscTypes] /\ \A d \in Rounds : disc'[d] = disc[d]
    BY <1>1, <2>1, <2>2 DEF Discoveries
  <2> QED
    BY <2>1, <2>3 DEF worldVars, loopVars, RegistryInv, RegistryTypeOK, OneLiveRound, DiscTypes
<1>3. CASE Check
  <2>1. /\ checked < Len(KeyOrder) /\ checked' = checked + 1
        /\ UNCHANGED <<worldVars, registry, disc, loop, waitsFor, gate>>
    BY <1>3 DEF Check
  <2>2. checked' \in 0 .. Len(KeyOrder)
    BY <2>1, KeyOrderTypes DEF RegistryInv, RegistryTypeOK
  <2>3. PICK isUp \in Healthy(KeyOrder[checked + 1]) :
          /\ up' = [up EXCEPT ![KeyOrder[checked + 1]] = isUp]
          /\ changed' = (changed \/ isUp # up[KeyOrder[checked + 1]])
    BY <1>3 DEF Check
  <2>4. isUp \in BOOLEAN
    BY DEF Healthy
  <2>5. up' \in [Backends -> BOOLEAN]
    BY <2>3, <2>4 DEF RegistryInv, RegistryTypeOK
  <2>6. changed' \in BOOLEAN
    BY <2>3
  <2>7. RegistryTypeOK'
    BY <2>1, <2>2, <2>5, <2>6 DEF worldVars, RegistryInv, RegistryTypeOK
  <2> QED
    BY <2>1, <2>7 DEF RegistryInv, OneLiveRound
<1>4. ASSUME NEW b \in Backends, GateOpens(b)
      PROVE  RegistryInv'
  BY <1>4 DEF GateOpens, worldVars, RegistryInv, RegistryTypeOK, OneLiveRound
<1>5. ASSUME NEW b \in Backends, BackendChanges(b)
      PROVE  RegistryInv'
  <2>1. changes' = changes + 1 /\ changes < MaxChanges /\ UNCHANGED <<up, registry, disc, loopVars>>
    BY <1>5 DEF BackendChanges
  <2>2. changes' \in 0 .. MaxChanges
    BY <2>1, RegistryAssumption DEF RegistryInv, RegistryTypeOK
  <2>4. answers \in [Backends -> Answers] /\ loaded \in [Backends -> SUBSET Models]
    BY DEF RegistryInv, RegistryTypeOK
  <2>5. Loads[b] \subseteq SUBSET Models /\ "well" \in Answers
    BY RegistryAssumption DEF Answers
  <2>3. answers' \in [Backends -> Answers] /\ loaded' \in [Backends -> SUBSET Models]
    <3>1. CASE answers' \in [Backends -> Answers] /\ UNCHANGED loaded
      BY <2>4, <3>1
    <3>2. ASSUME answers' = [answers EXCEPT ![b] = "well"],
                 NEW models \in Loads[b], loaded' = [loaded EXCEPT ![b] = models]
          PROVE  answers' \in [Backends -> Answers] /\ loaded' \in [Backends -> SUBSET Models]
      <4>1. models \in SUBSET Models
        BY <2>5
      <4> QED
        BY <2>4, <2>5, <3>2, <4>1
    <3> QED
      BY <1>5, <3>1, <3>2 DEF BackendChanges
  <2> QED
    BY <2>1, <2>2, <2>3 DEF loopVars, RegistryInv, RegistryTypeOK, OneLiveRound
<1>6. CASE UNCHANGED vars
  BY <1>6 DEF vars, RegistryInv, RegistryTypeOK, OneLiveRound
<1> QED
  BY <1>2, <1>3, <1>4, <1>5, <1>6

LEMMA RegistryStep == RegistryInv /\ [Next]_vars => RegistryInv'
  BY DiscoversKeeps, DecideKeeps, AwaitKeeps, OthersKeep DEF Next, Liveness

LEMMA RegistryInvariant == Spec => []RegistryInv
  BY RegistryInit, RegistryStep, PTL DEF Spec

\* RegistryTypeOK: types of the registry, the loop and all discoveries.
THEOREM RegistryTypeCorrect == Spec => []RegistryTypeOK
<1>1. RegistryInv => RegistryTypeOK
  BY DEF RegistryInv
<1> QED
  BY <1>1, RegistryInvariant, PTL

\* OneLiveRound: at most one discovery of the liveness loop still learns from
\* backends, however many it has given up on.
THEOREM OneRoundLives == Spec => []OneLiveRound
<1>1. RegistryInv => OneLiveRound
  BY DEF RegistryInv
<1> QED
  BY <1>1, RegistryInvariant, PTL
===============================================================================
