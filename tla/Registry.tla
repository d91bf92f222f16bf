------------------------------- MODULE Registry -------------------------------
(***************************************************************************)
(* The registry of models and backends, backendmanager.go: model discovery *)
(* and the liveness loop.                                                  *)
(*                                                                         *)
(* A discovery asks the backends one after another, outside of any lock,   *)
(* and then replaces the whole registry.  The liveness loop starts one     *)
(* when a backend's health has changed or a healthy backend has no model   *)
(* registered, and gives up on it after ten seconds; the matcher starts    *)
(* one of its own for a request whose model is unknown.  So discoveries    *)
(* overlap, and one that began long ago may be the last to write.          *)
(* Backends come, go, load other models, hang and answer nonsense.         *)
(*                                                                         *)
(* An operator X_Something, just before X, is X with a plausible bug: see  *)
(* Dispatcher.                                                             *)
(***************************************************************************)
EXTENDS Naturals, Sequences, Functions, FiniteSets

CONSTANTS
    KeyOrder,   (* the configured backends, in the order they are asked     *)
    Models,
    Loads,      (* Loads[b]: sets of models that b may have loaded          *)
    Rounds,     (* bound: discoveries of the liveness loop alive at a time  *)
    Matcher,    (* the matcher's discovery                                  *)
    MaxChanges  (* bound: changes of the backends                           *)

Backends == Range(KeyOrder)
Discoveries == Rounds \cup {Matcher}

ASSUME RegistryAssumption ==
    /\ KeyOrder \in Seq(Backends) /\ IsInjective(KeyOrder)
    /\ Loads \in [Backends -> SUBSET SUBSET Models]
    /\ Matcher \notin Rounds /\ IsFiniteSet(Rounds)
    /\ MaxChanges \in Nat

VARIABLES
    answers,    (* how each backend answers: "well", with "nonsense", it    *)
                (* "hangs" (its health check may still pass) or is "down"   *)
    loaded,     (* the models each backend has loaded                       *)
    changes,    (* changes of the backends so far                           *)
    up,         (* BackendState                                             *)
    registry,   (* DiscoveredModels: the pairs <<model, backend>>           *)
    disc,       (* the discoveries: place, next backend, pairs found, and   *)
                (* whether the context is done                              *)
    loop,       (* the liveness loop: "check" or "await"                    *)
    checked,    (* backends checked in this turn, 0 while it sleeps         *)
    changed,    (* a state has changed in this turn                         *)
    waitsFor,   (* the discovery the loop waits for, Matcher for none       *)
    gate        (* backends with a missing-models retry less than           *)
                (* MISSING_MODELS_RETRY_INTERVAL ago                        *)

vars == <<answers, loaded, changes, up, registry, disc, loop, checked,
          changed, waitsFor, gate>>
worldVars == <<answers, loaded, changes>>
loopVars == <<loop, checked, changed, waitsFor, gate>>

Answers == {"well", "nonsense", "hangs", "down"}
NoDiscovery == [at |-> "off", next |-> 1, found |-> {}, expired |-> FALSE]

Registered(b) == \E m \in Models : <<m, b>> \in registry
Names(pairs) == {p[1] : p \in pairs}

\* What the loop forgets at the end of a turn.
TurnOver == checked' = 0 /\ changed' = FALSE

\* The proxy's own state at its start.  Backends count as up before the first check.
ProxyStart ==
    /\ up = [b \in Backends |-> TRUE]
    /\ registry = {}
    /\ disc = [d \in Discoveries |-> NoDiscovery]
    /\ loop = "check" /\ checked = 0 /\ changed = FALSE
    /\ waitsFor = Matcher /\ gate = {}

Init ==
    /\ answers \in [Backends -> Answers]
    /\ loaded \in {f \in [Backends -> SUBSET Models] : \A b \in Backends : f[b] \in Loads[b]}
    /\ changes = 0
    /\ ProxyStart

-----------------------------------------------------------------------------
(* Discovery: discoverModelsCtx *)

Asking(d) == disc[d].at = "asking" /\ disc[d].next <= Len(KeyOrder)
Asked(d) == KeyOrder[disc[d].next]

\* What the backend that d asks contributes: nothing when it is skipped as down,
\* cannot be reached or the context is done.
Contribution(d) ==
    LET b == Asked(d)
    IN  IF up[b] /\ answers[b] = "well" /\ ~disc[d].expired
          THEN loaded[b] \X {b} ELSE {}

\* A backend that hangs keeps d until its context is done; the matcher's request
\* has a timeout of its own.
Returns(d) ==
    up[Asked(d)] /\ answers[Asked(d)] = "hangs" => disc[d].expired \/ d = Matcher

Decodes(d) == up[Asked(d)] /\ ~disc[d].expired => answers[Asked(d)] # "nonsense"

Ask_Again(d) ==
    /\ disc[d].at = "asking" /\ disc[d].next <= Len(KeyOrder) + 1
    /\ disc' = [disc EXCEPT ![d].next = @ + 1]
    /\ UNCHANGED <<worldVars, up, registry, loopVars>>

Ask(d) ==
    /\ Asking(d) /\ Returns(d) /\ Decodes(d)
    /\ disc' = [disc EXCEPT ![d].next = @ + 1, ![d].found = @ \cup Contribution(d)]
    /\ UNCHANGED <<worldVars, up, registry, loopVars>>

\* A body that is not JSON ends the discovery with an error; nothing is installed.
GiveUp(d) ==
    /\ Asking(d) /\ ~Decodes(d)
    /\ disc' = [disc EXCEPT ![d] = NoDiscovery]
    /\ UNCHANGED <<worldVars, up, registry, loopVars>>

\* DiscoveredModels and ModelOrder are replaced under the lock.
Install(d) ==
    /\ disc[d].at = "asking" /\ disc[d].next > Len(KeyOrder)
    /\ registry' = disc[d].found
    /\ disc' = [disc EXCEPT ![d].at = "logging", ![d].next = 1, ![d].expired = FALSE]
    /\ UNCHANGED <<worldVars, up, loopVars>>

\* The log lines after the lock look every registered name up in d's own result.
Log(d) ==
    /\ disc[d].at = "logging"
    /\ Names(registry) \subseteq Names(disc[d].found)
    /\ disc' = [disc EXCEPT ![d] = NoDiscovery]
    /\ UNCHANGED <<worldVars, up, registry, loopVars>>

\* A name that only another discovery has found is a nil pointer: the proxy
\* dies, and is started again.
Panic(d) ==
    /\ disc[d].at = "logging"
    /\ ~(Names(registry) \subseteq Names(disc[d].found))
    /\ up' = [b \in Backends |-> TRUE]
    /\ registry' = {}
    /\ disc' = [e \in Discoveries |-> NoDiscovery]
    /\ TurnOver /\ loop' = "check" /\ waitsFor' = Matcher /\ gate' = {}
    /\ UNCHANGED worldVars

\* match: no registered model has the request's name.
MatcherDiscovers ==
    /\ disc[Matcher].at = "off"
    /\ disc' = [disc EXCEPT ![Matcher].at = "asking"]
    /\ UNCHANGED <<worldVars, up, registry, loopVars>>

-----------------------------------------------------------------------------
(* The liveness loop *)

\* Both health checks of a turn: any answer in time counts.
Healthy(b) ==
    CASE answers[b] = "down" -> {FALSE}
      [] answers[b] = "hangs" -> BOOLEAN
      [] OTHER -> {TRUE}

Check ==
    /\ loop = "check" /\ checked < Len(KeyOrder)
    /\ LET b == KeyOrder[checked + 1]
       IN  \E isUp \in Healthy(b) :
              /\ up' = [up EXCEPT ![b] = isUp]
              /\ changed' = (changed \/ isUp # up[b])
    /\ checked' = checked + 1
    /\ UNCHANGED <<worldVars, registry, disc, loop, waitsFor, gate>>

Missing == {b \in Backends : up[b] /\ ~Registered(b)}

NeedsDiscovery_OnChangeOnly == changed

\* A state has changed, or a backend without models has not been retried lately.
NeedsDiscovery == changed \/ Missing \ gate # {}

\* The discoveries are alike: which one runs says nothing.
IdleRounds == {d \in Rounds : disc[d].at = "off"}

\* The end of a turn: maybe a discovery, in a goroutine of its own.
Decide ==
    /\ loop = "check" /\ checked = Len(KeyOrder)
    /\ gate' = Missing
    /\ IF NeedsDiscovery
         THEN /\ IdleRounds # {}
              /\ waitsFor' = CHOOSE d \in IdleRounds : TRUE
              /\ disc' = [disc EXCEPT ![waitsFor'].at = "asking"]
              /\ loop' = "await"
         ELSE UNCHANGED <<disc, loop, waitsFor>>
    /\ TurnOver
    /\ UNCHANGED <<worldVars, up, registry>>

AwaitDone ==
    /\ loop = "await" /\ disc[waitsFor].at = "off"
    /\ loop' = "check" /\ waitsFor' = Matcher
    /\ UNCHANGED <<worldVars, up, registry, disc, checked, changed, gate>>

Expire_Not == UNCHANGED disc

Expire == disc' = [disc EXCEPT ![waitsFor].expired = TRUE]

AwaitTimeout_Deaf == FALSE

\* After ten seconds the context is done and the loop goes on.  Asking backends
\* that all answer takes less.
AwaitTimeout ==
    /\ loop = "await" /\ disc[waitsFor].at # "off"
    /\ \E b \in Backends : answers[b] = "hangs"
    /\ Expire
    /\ loop' = "check" /\ waitsFor' = Matcher
    /\ UNCHANGED <<worldVars, up, registry, checked, changed, gate>>

Liveness == Check \/ Decide \/ AwaitDone \/ AwaitTimeout

\* The retry interval of b is over.
GateOpens(b) ==
    /\ b \in gate
    /\ gate' = gate \ {b}
    /\ UNCHANGED <<worldVars, up, registry, disc, loop, checked, changed, waitsFor>>

\* A backend starts, stops, hangs, recovers or loads other models.
BackendChanges(b) ==
    /\ changes < MaxChanges
    /\ changes' = changes + 1
    /\ \/ /\ answers' \in [Backends -> Answers]
          /\ answers'[b] # answers[b]
          /\ \A c \in Backends \ {b} : answers'[c] = answers[c]
          /\ UNCHANGED loaded
       \/ /\ answers[b] = "down"
          /\ answers' = [answers EXCEPT ![b] = "well"]
          /\ \E models \in Loads[b] : loaded' = [loaded EXCEPT ![b] = models]
    /\ UNCHANGED <<up, registry, disc, loopVars>>

Discovers(d) == Ask(d) \/ GiveUp(d) \/ Install(d) \/ Log(d) \/ Panic(d)

Next ==
    \/ \E d \in Discoveries : Discovers(d)
    \/ MatcherDiscovers
    \/ Liveness
    \/ \E b \in Backends : GateOpens(b) \/ BackendChanges(b)

\* Goroutines run and time passes; a backend need not answer, nor any request
\* come for a model that is not registered.
Spec ==
    /\ Init /\ [][Next]_vars
    /\ WF_vars(Liveness)
    /\ \A d \in Discoveries : WF_vars(Discovers(d))
    /\ \A b \in Backends : WF_vars(GateOpens(b))

-----------------------------------------------------------------------------
(* Properties *)

RegistryTypeOK ==
    /\ answers \in [Backends -> Answers] /\ loaded \in [Backends -> SUBSET Models]
    /\ changes \in 0 .. MaxChanges
    /\ up \in [Backends -> BOOLEAN] /\ registry \subseteq Models \X Backends
    /\ disc \in [Discoveries -> [at : {"off", "asking", "logging"},
                                 next : 1 .. Len(KeyOrder) + 1,
                                 found : SUBSET (Models \X Backends), expired : BOOLEAN]]
    /\ loop \in {"check", "await"} /\ checked \in 0 .. Len(KeyOrder)
    /\ changed \in BOOLEAN /\ waitsFor \in Discoveries /\ gate \subseteq Backends

\* At most one discovery of the liveness loop may still write what it learns from
\* backends: the rounds the loop has given up on can only finish with what they
\* already have.
OneLiveRound ==
    \A d \in Rounds : disc[d].at = "asking" /\ ~disc[d].expired
                        => loop = "await" /\ waitsFor = d

\* However many backends hang, the loop comes back to its health checks.
LoopGoesOn == []<>(loop = "check" /\ checked = 0)

\* Outages, overlapping discoveries, stale or partial results and restarts leave
\* no lasting harm: once every backend answers (or is down), each one that has
\* models stays registered.
Settled == \A b \in Backends : answers[b] \in {"well", "down"}
RecoversRegistry ==
    <>[]Settled =>
       <>[](\A b \in Backends : answers[b] = "well" /\ loaded[b] # {} => Registered(b))
=============================================================================
