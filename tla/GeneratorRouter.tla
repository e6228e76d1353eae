--------------------------- MODULE GeneratorRouter ---------------------------
(***************************************************************************)
(* Layer 1 of the request routing of the RL loop                           *)
(* (experiments/rl/routing/inter_generator_router.py with strategies.py):  *)
(* the controller sends each turn of each session to one generator mesh,   *)
(* and every weight pull to all of them.  With hot swap off a generator is *)
(* drained before its pull: it takes no new call, and the pull waits for   *)
(* the calls in flight.                                                    *)
(*                                                                         *)
(* The router lives on one event loop, so what runs between two awaits is  *)
(* one action.  Event.wait() returns at once when the event is set;        *)
(* otherwise the waiter is woken by set() and runs later, without looking  *)
(* at the event again.  A call costs 1 (the controller never says          *)
(* otherwise), and a session has at most one call in flight, its turn.     *)
(***************************************************************************)
EXTENDS Integers, Sequences, FiniteSets

CONSTANTS
    NumGenerators,  \* generator meshes
    Sessions,       \* the sessions that make calls
    MaxSessions,    \* max_sessions of the sticky strategy
    CounterPeriod   \* bound on the round-robin counter, see below

ASSUME RouterAssumption ==
    /\ NumGenerators \in Nat \ {0}
    /\ IsFiniteSet(Sessions)
    /\ MaxSessions \in Nat \ {0}
    \* The counter is only used modulo a number of candidates: a common
    \* multiple of those numbers bounds it without changing a choice.
    /\ CounterPeriod \in Nat \ {0}
    /\ \A k \in 1..NumGenerators : CounterPeriod % k = 0

VARIABLES
    config,     \* the Config of the router, fixed at the start
    state,      \* state[g]: "SERVING" or "SYNCING"
    load,       \* load[g]: reserved_load
    idle,       \* idle[g]: the event set while g has no reserved call
    serving,    \* the event set while some generator can serve
    counter,    \* calls dealt by the round-robin strategy
    recent,     \* session pins of the sticky strategy, least recently used first
    pc,         \* pc[s]: where session s is in route()
    on,         \* on[s]: the generator of the current or last call of s
    since,      \* since[s]: sessions routed since the last call of s (history)
    pull,       \* pull[g]: where the pull of generator g is
    failed      \* a pull raised: the controller starts no further round

callVars == <<load, idle, counter, recent, on, since>>
pullVars == <<pull, failed>>
vars == <<config, state, serving, pc, callVars, pullVars>>

Config == [strategy : {"least_loaded", "round_robin", "sticky"},
           hot_swap : BOOLEAN]
Strategy == config.strategy
HotSwap == config.hot_swap

Generators == 1..NumGenerators
NoGenerator == 0
Pin == [session : Sessions, generator : Generators]

-----------------------------------------------------------------------------
(* Candidates and strategies. *)

Candidates == {g \in Generators : state[g] = "SERVING"}

LeastLoaded ==
    CHOOSE g \in Candidates : \A h \in Candidates :
        \/ load[g] < load[h]
        \/ load[g] = load[h] /\ g <= h

NextInTurn ==
    CHOOSE g \in Candidates :
        Cardinality({h \in Candidates : h < g})
            = counter % Cardinality(Candidates)

PinnedTo(s) == {g \in Generators : \E i \in DOMAIN recent :
                    recent[i] = [session |-> s, generator |-> g]}

\* The pins but the one of s: a session has at most one.
OtherPins(s) ==
    IF \E i \in DOMAIN recent : recent[i].session = s
    THEN LET i == CHOOSE i \in DOMAIN recent : recent[i].session = s
         IN  [k \in 1..(Len(recent) - 1) |-> recent[IF k < i THEN k ELSE k + 1]]
    ELSE recent

\* Mutant: the cap also drops a session when the map is merely full.
BugRepin(s, g) ==
    LET pinned == Append(OtherPins(s), [session |-> s, generator |-> g])
    IN  IF Len(pinned) >= MaxSessions THEN Tail(pinned) ELSE pinned

\* The session becomes the most recently used; a full map drops the oldest.
Repin(s, g) ==
    LET pinned == Append(OtherPins(s), [session |-> s, generator |-> g])
    IN  IF Len(pinned) > MaxSessions THEN Tail(pinned) ELSE pinned

\* The generator that strategy.choose picks for session s.
Chosen(s) ==
    CASE Strategy = "round_robin" -> NextInTurn
      [] Strategy = "sticky" /\ PinnedTo(s) \cap Candidates # {} ->
            CHOOSE g \in PinnedTo(s) \cap Candidates : TRUE
      [] OTHER -> LeastLoaded

\* What choosing g for session s leaves in the strategy.
Remember(s, g) ==
    /\ counter' = IF Strategy = "round_robin"
                  THEN (counter + 1) % CounterPeriod ELSE counter
    /\ recent' = IF Strategy = "sticky" THEN Repin(s, g) ELSE recent

-----------------------------------------------------------------------------
(* Routing a call. *)

Reserve(g) ==
    /\ idle' = IF load[g] = 0 THEN [idle EXCEPT ![g] = FALSE] ELSE idle
    /\ load' = [load EXCEPT ![g] = @ + 1]

\* Mutant: the idle event is set on every release.
BugRelease(g) ==
    /\ load' = [load EXCEPT ![g] = @ - 1]
    /\ idle' = [idle EXCEPT ![g] = TRUE]

Release(g) ==
    /\ load' = [load EXCEPT ![g] = @ - 1]
    /\ idle' = IF load[g] - 1 = 0 THEN [idle EXCEPT ![g] = TRUE] ELSE idle

\* What route() does once serving.wait() has returned: it asserts that some
\* generator serves, picks one and reserves its load.
Dispatch(s) ==
    IF Candidates = {}
    THEN /\ pc' = [pc EXCEPT ![s] = "asserted"]
         /\ UNCHANGED callVars
    ELSE \E g \in Candidates :
            /\ g = Chosen(s)
            /\ Remember(s, g)
            /\ Reserve(g)
            /\ on' = [on EXCEPT ![s] = g]
            /\ since' = [t \in Sessions |->
                            IF t = s THEN {} ELSE since[t] \cup {s}]
            /\ pc' = [pc EXCEPT ![s] = "running"]

\* A session's next turn calls route() while some generator serves.
RouteNow(s) ==
    /\ pc[s] = "out"
    /\ serving
    /\ Dispatch(s)
    /\ UNCHANGED <<state, serving, pullVars>>

\* ... or while none does.
RouteWaits(s) ==
    /\ pc[s] = "out"
    /\ ~serving
    /\ pc' = [pc EXCEPT ![s] = "blocked"]
    /\ UNCHANGED <<state, serving, callVars, pullVars>>

RouteResumes(s) ==
    /\ pc[s] = "woken"
    /\ Dispatch(s)
    /\ UNCHANGED <<state, serving, pullVars>>

\* The generator answers or fails: the finally clause runs in both cases.
RouteReturns(s) ==
    /\ pc[s] = "running"
    /\ Release(on[s])
    /\ pc' = [pc EXCEPT ![s] = "out"]
    /\ UNCHANGED <<state, serving, counter, recent, on, since, pullVars>>

-----------------------------------------------------------------------------
(* Pulling the weights into every generator. *)

\* Mutant: the serving event is never cleared.
BugSetStateStale(gs, s) ==
    /\ state' = [g \in Generators |-> IF g \in gs THEN s ELSE state[g]]
    /\ UNCHANGED <<serving, pc>>

\* _set_state with the refresh of the serving event, for the generators gs.
SetState(gs, s) ==
    /\ state' = [g \in Generators |-> IF g \in gs THEN s ELSE state[g]]
    /\ serving' = (\E g \in Generators : state'[g] = "SERVING")
    /\ pc' = [t \in Sessions |-> IF pc[t] = "blocked" /\ serving'
                                 THEN "woken" ELSE pc[t]]

\* Mutant: the pull waits for an idle generator that goes on taking calls.
BugPullRound ==
    /\ ~failed
    /\ \A g \in Generators : pull[g] = "none"
    /\ pull' = [g \in Generators |-> "draining"]
    /\ UNCHANGED <<state, serving, pc, callVars, failed>>

\* The controller pulls into all generators.  The gathered coroutines run up
\* to their first wait one after the other, with nothing in between.  Two
\* rounds never overlap, and the calls woken by the previous round stand
\* before this one in the event loop's queue.
PullRound ==
    /\ ~failed
    /\ \A g \in Generators : pull[g] = "none"
    /\ \A s \in Sessions : pc[s] # "woken"
    /\ \/ /\ HotSwap
          /\ pull' = [g \in Generators |-> "reading"]
          /\ UNCHANGED <<state, serving, pc>>
       \/ /\ ~HotSwap
          /\ pull' = [g \in Generators |-> "draining"]
          /\ SetState(Generators, "SYNCING")
    /\ UNCHANGED <<callVars, failed>>

\* Mutant: a generator is pulled without waiting for its calls.
BugPullDrained(g) ==
    /\ pull[g] = "draining"
    /\ pull' = [pull EXCEPT ![g] = "reading"]
    /\ UNCHANGED <<state, serving, pc, callVars, failed>>

\* idle.wait() returns and the pull call goes out.
PullDrained(g) ==
    /\ pull[g] = "draining"
    /\ idle[g]
    /\ pull' = [pull EXCEPT ![g] = "reading"]
    /\ UNCHANGED <<state, serving, pc, callVars, failed>>

\* Mutant: a failed pull leaves its generator in SYNCING.
BugPullReturns(g) ==
    /\ pull[g] = "reading"
    /\ pull' = [pull EXCEPT ![g] = "none"]
    /\ \/ UNCHANGED failed /\ SetState({g}, "SERVING")
       \/ failed' = TRUE /\ UNCHANGED <<state, serving, pc>>
    /\ UNCHANGED callVars

\* The pull call answers or raises; a drained generator serves again in both
\* cases.  An exception ends the round for the controller, not for the other
\* generators.
PullReturns(g) ==
    /\ pull[g] = "reading"
    /\ pull' = [pull EXCEPT ![g] = "none"]
    /\ failed' \in {failed, TRUE}
    /\ \/ HotSwap /\ UNCHANGED <<state, serving, pc>>
       \/ ~HotSwap /\ SetState({g}, "SERVING")
    /\ UNCHANGED callVars

-----------------------------------------------------------------------------
Init ==
    /\ config \in Config
    /\ state = [g \in Generators |-> "SERVING"]
    /\ load = [g \in Generators |-> 0]
    /\ idle = [g \in Generators |-> TRUE]
    /\ serving = TRUE
    /\ counter = 0
    /\ recent = <<>>
    /\ pc = [s \in Sessions |-> "out"]
    /\ on = [s \in Sessions |-> NoGenerator]
    /\ since = [s \in Sessions |-> {}]
    /\ pull = [g \in Generators |-> "none"]
    /\ failed = FALSE

Next ==
    /\ UNCHANGED config
    /\ \/ PullRound
       \/ \E s \in Sessions :
            RouteNow(s) \/ RouteWaits(s) \/ RouteResumes(s) \/ RouteReturns(s)
       \/ \E g \in Generators : PullDrained(g) \/ PullReturns(g)

\* The event loop runs what is ready, and a generator answers or fails every
\* call.  Sessions and the controller call when they please.
Fairness ==
    /\ \A s \in Sessions :
        /\ WF_vars(RouteResumes(s) /\ UNCHANGED config)
        /\ WF_vars(RouteReturns(s) /\ UNCHANGED config)
    /\ \A g \in Generators :
        /\ WF_vars(PullDrained(g) /\ UNCHANGED config)
        /\ WF_vars(PullReturns(g) /\ UNCHANGED config)

Spec == Init /\ [][Next]_vars /\ Fairness

-----------------------------------------------------------------------------
(* Properties. *)

\* Every variable stays in its domain; the session map never exceeds its cap
\* and pins a session to one generator.
TypeOK ==
    /\ config \in Config
    /\ state \in [Generators -> {"SERVING", "SYNCING"}]
    /\ load \in [Generators -> Nat]
    /\ idle \in [Generators -> BOOLEAN]
    /\ serving \in BOOLEAN
    /\ counter \in 0..(CounterPeriod - 1)
    /\ recent \in Seq(Pin)
    /\ Len(recent) <= MaxSessions
    /\ \A i, j \in DOMAIN recent :
        recent[i].session = recent[j].session => i = j
    /\ pc \in [Sessions -> {"out", "blocked", "woken", "running", "asserted"}]
    /\ on \in [Sessions -> Generators \cup {NoGenerator}]
    /\ since \in [Sessions -> SUBSET Sessions]
    /\ pull \in [Generators -> {"none", "draining", "reading"}]
    /\ failed \in BOOLEAN

InFlight(g) == {s \in Sessions : pc[s] = "running" /\ on[s] = g}

\* A generator's reserved load is the number of calls in flight on it and its
\* idle event says whether there is one, over every mix of calls, failures
\* and pulls (_reserve, _release).
LoadIsInFlight ==
    \A g \in Generators :
        /\ load[g] = Cardinality(InFlight(g))
        /\ idle[g] <=> InFlight(g) = {}

\* With hot swap off, no call is in flight on a generator while it pulls: the
\* drain in pull_model_state_dict really empties it.
DrainedPull ==
    ~HotSwap => \A g \in Generators :
        pull[g] = "reading" => InFlight(g) = {}

\* A call that serving.wait() lets through finds a generator that serves,
\* although a woken call does not look again: the assertion in route() never
\* fires.
RouteFindsServer == \A s \in Sessions : pc[s] # "asserted"

\* With the sticky strategy a session keeps its generator from turn to turn,
\* unless that generator is being synced or max_sessions other sessions have
\* called since.
SessionStays ==
    [][Strategy = "sticky" =>
        \A s \in Sessions :
            on'[s] # on[s] /\ on[s] # NoGenerator =>
                \/ state[on[s]] = "SYNCING"
                \/ Cardinality(since[s]) >= MaxSessions]_vars

\* A call that finds no serving generator is not forgotten: it is dispatched
\* once a generator serves again, however often the weights are pulled.
BlockedCallRuns ==
    \A s \in Sessions : pc[s] = "blocked" ~> pc[s] = "running"

\* A pull ends although the sessions never stop calling: a drain is not
\* starved by new calls.
PullEnds == \A g \in Generators : pull[g] # "none" ~> pull[g] = "none"
==============================================================================
