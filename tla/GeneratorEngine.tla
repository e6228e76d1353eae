--------------------------- MODULE GeneratorEngine ---------------------------
(***************************************************************************)
(* One generator mesh (experiments/rl/actors/generator.py): the controller *)
(* calls generate, pull_model_state_dict and close on rank 0, which queues *)
(* them and keeps a future per call; one engine loop per rank executes the *)
(* decisions that rank 0 takes and broadcasts.  A request runs on one      *)
(* data-parallel rank; what a peer finishes comes back to rank 0 over a    *)
(* port whose drain task resolves the future.                              *)
(*                                                                         *)
(* A rank here is a data-parallel rank with its tensor-parallel group,     *)
(* which engine.step() keeps in lockstep.  Which rank a request goes to is *)
(* left open: the strategies are in GeneratorRouter.  What runs between    *)
(* two awaits of one process is one action.                                *)
(*                                                                         *)
(* External: the vLLM engine (each step gives one token to each of the     *)
(* first MaxSeqs requests, first come first served), the gloo broadcast (a *)
(* rank may fall MaxBehind decisions behind rank 0, and waiting for one    *)
(* that has crashed ends in a timeout), the trainer that stores weights.   *)
(***************************************************************************)
EXTENDS Integers, Sequences, FiniteSets

CONSTANTS
    NumRanks,   \* data-parallel degree
    Requests,   \* request ids, one per generate call
    Burst,      \* max_engine_steps_between_decisions
    MaxTokens,  \* engine steps after which a request is finished
    MaxSeqs,    \* max_num_seqs of the engine
    MaxBehind,  \* broadcasts a rank may not have received yet
    MaxVersion  \* bound on the versions the trainer stores

ASSUME EngineAssumption ==
    /\ NumRanks \in Nat \ {0}
    /\ IsFiniteSet(Requests)
    /\ Burst \in Nat \ {0}
    /\ MaxTokens \in Nat \ {0}
    /\ MaxSeqs \in Nat \ {0}
    /\ MaxBehind \in Nat \ {0}
    /\ MaxVersion \in Nat

VARIABLES
    call,       \* call[r]: the generate call of request r
    futures,    \* requests with a registered generation future
    minVersion, \* minVersion[r]: version stamped on the future of r
    queued,     \* _queued_generation_requests
    reserved,   \* reserved[r]: rank reserved for r by the DP router
    load,       \* load[d]: reserved_load of rank d
    pullCall,   \* the controller's pull call: "none" or "waiting"
    pullVersion,\* version of the pull request, or None
    closing,    \* close has been called on the mesh
    closed,     \* closed[d]: close has returned on rank d
    at,         \* at[d]: where the engine loop of rank d is
    decision,   \* the decision rank 0 is broadcasting
    inbox,      \* inbox[d]: decisions rank d has not taken yet
    target,     \* target[d]: version rank d is pulling
    left,       \* left[d]: engine steps left in the burst of rank d
    engine,     \* engine[d]: unfinished requests of rank d, in arrival order
    tokens,     \* tokens[r]: engine steps request r has taken
    version,    \* version[d]: policy_version of rank d
    port,       \* completions on their way to the drain task
    draining,   \* the drain task is alive
    weights,    \* weights[d]: version of the weights rank d holds
    stored,     \* version of the weights in the store
    result,     \* result[r]: versions [min, max] on the completion of r
    saw         \* saw[r]: policy_version at each token of r (history)

callerVars == <<call, futures, minVersion, result>>
inboxVars == <<queued, pullCall, pullVersion>>
routerVars == <<reserved, load>>
loopVars == <<at, decision, inbox, target, left>>
engineVars == <<engine, tokens, saw>>
weightVars == <<version, weights>>
fanInVars == <<port, draining>>
closeVars == <<closing, closed>>
vars == <<callerVars, inboxVars, routerVars, loopVars, engineVars, weightVars,
          fanInVars, closeVars, stored>>

Ranks == 0..(NumRanks - 1)
Peers == Ranks \ {0}
None == -1
Versions == 0..MaxVersion
Elements(s) == {s[i] : i \in DOMAIN s}

\* The subsequence of s whose elements are in S.  (SelectSeq, as a function
\* that can be reasoned about.)
Kept(s, S) ==
    LET f[i \in 0 .. Len(s)] ==
            IF i = 0 THEN <<>>
            ELSE IF s[i] \in S THEN Append(f[i - 1], s[i]) ELSE f[i - 1]
    IN  f[Len(s)]

NoSlices == [d \in Ranks |-> <<>>]
Decision(action, slices, v) == [action |-> action, slices |-> slices, version |-> v]
NoDecision == Decision("none", NoSlices, None)

Running(d) == at[d] \notin {"stopped", "crashed"}

-----------------------------------------------------------------------------
(* The endpoints of rank 0. *)

\* generate: once close has returned the endpoint raises; otherwise the call
\* registers a future and queues its request, whatever the loop is doing.
Generate(r) ==
    /\ call[r] = "new"
    /\ \/ /\ closed[0]
          /\ call' = [call EXCEPT ![r] = "refused"]
          /\ UNCHANGED <<futures, queued>>
       \/ /\ ~closed[0]
          /\ call' = [call EXCEPT ![r] = "waiting"]
          /\ futures' = futures \cup {r}
          /\ queued' = Append(queued, r)
    /\ UNCHANGED <<minVersion, result, pullCall, pullVersion, routerVars, loopVars,
                   engineVars, weightVars, fanInVars, closeVars, stored>>

\* Mutant: the previous pull is not waited for.
BugPush ==
    /\ stored < MaxVersion
    /\ stored' = stored + 1
    /\ UNCHANGED <<callerVars, inboxVars, routerVars, loopVars, engineVars,
                   weightVars, fanInVars, closeVars>>

\* The trainer stores new weights once the call of the previous pull has
\* returned, which is when rank 0 has pulled: a peer may still be reading.
Push ==
    /\ pullCall = "none"
    /\ pullVersion = None
    /\ stored = version[0]
    /\ stored < MaxVersion
    /\ stored' = stored + 1
    /\ UNCHANGED <<callerVars, inboxVars, routerVars, loopVars, engineVars,
                   weightVars, fanInVars, closeVars>>

\* pull_model_state_dict: one call at a time, for the version just stored.
PullModelStateDict ==
    /\ pullCall = "none"
    /\ stored > version[0]
    /\ ~closed[0]
    /\ pullCall' = "waiting"
    /\ pullVersion' = stored
    /\ UNCHANGED <<callerVars, queued, routerVars, loopVars, engineVars,
                   weightVars, fanInVars, closeVars, stored>>

\* close, fanned out to every rank; only rank 0 tells its loop.
Close ==
    /\ ~closing
    /\ closing' = TRUE
    /\ UNCHANGED <<callerVars, inboxVars, routerVars, loopVars, engineVars,
                   weightVars, fanInVars, closed, stored>>

\* Mutant: only the pull is failed.
BugFailOutstanding ==
    /\ pullCall' = "none"
    /\ pullVersion' = None
    /\ UNCHANGED <<call, futures, minVersion, result, queued>>

\* _fail_outstanding_futures on rank 0; the queue stays as it is.
FailOutstanding ==
    /\ call' = [r \in Requests |-> IF r \in futures THEN "failed" ELSE call[r]]
    /\ futures' = {}
    /\ pullCall' = "none"
    /\ pullVersion' = None
    /\ UNCHANGED <<minVersion, result, queued>>

\* close goes on once the loop of its rank has ended, one way or the other.
\* Rank 0 stops the drain task and fails what is left.
CloseReturns(d) ==
    /\ closing
    /\ ~closed[d]
    /\ ~Running(d)
    /\ closed' = [closed EXCEPT ![d] = TRUE]
    /\ \/ d = 0 /\ FailOutstanding /\ draining' = FALSE
       \/ d # 0 /\ UNCHANGED <<callerVars, inboxVars, draining>>
    /\ UNCHANGED <<routerVars, loopVars, engineVars, weightVars, port, closing,
                   stored>>

-----------------------------------------------------------------------------
(* The engine loop: rank 0 decides, every rank applies. *)

\* Mutant: a close does not wake the loop.
BugHasWork == pullVersion # None \/ queued # <<>> \/ futures # {}

\* The predicate that rank 0 sleeps on.
HasWork == \/ closing
           \/ pullVersion # None
           \/ queued # <<>>
           \/ futures # {}

\* Mutant: every rank is handed every request.
BugSlices(where) == [d \in Ranks |-> queued]

\* rank0_route: a rank is reserved for each queued request.  (With a single
\* rank the code has no DP router; the reservation then means nothing.)
Slices(where) == [d \in Ranks |-> Kept(queued, {r \in DOMAIN where : where[r] = d})]

\* Mutant: the load forgets what was reserved before.
BugReserve(where) ==
    /\ reserved' = [r \in Requests |->
                        IF r \in DOMAIN where THEN where[r] ELSE reserved[r]]
    /\ load' = [d \in Ranks |-> Cardinality({r \in DOMAIN where : where[r] = d})]

Reserve(where) ==
    /\ reserved' = [r \in Requests |->
                        IF r \in DOMAIN where THEN where[r] ELSE reserved[r]]
    /\ load' = [d \in Ranks |->
                    load[d] + Cardinality({r \in DOMAIN where : where[r] = d})]

\* _decide_next_action: close, then a pull, then a step that admits the queue.
Decide ==
    /\ at[0] = "ready"
    /\ HasWork
    /\ at' = [at EXCEPT ![0] = "sharing"]
    /\ \/ /\ closing
          /\ decision' = Decision("close", NoSlices, None)
          /\ UNCHANGED <<queued, routerVars>>
       \/ /\ ~closing
          /\ pullVersion # None
          /\ decision' = Decision("pull", NoSlices, pullVersion)
          /\ UNCHANGED <<queued, routerVars>>
       \/ /\ ~closing
          /\ pullVersion = None
          /\ \E where \in [Elements(queued) -> Ranks] :
                /\ decision' = Decision("step", Slices(where), None)
                /\ Reserve(where)
          /\ queued' = <<>>
    /\ UNCHANGED <<callerVars, pullCall, pullVersion, inbox, target, left,
                   engineVars, weightVars, fanInVars, closeVars, stored>>

\* Rank d starts to carry out decision dec.
Apply(d, dec) ==
    \/ /\ dec.action = "close"
       /\ at' = [at EXCEPT ![d] = "stopped"]
       /\ UNCHANGED <<target, left, engine>>
    \/ /\ dec.action = "pull"
       /\ at' = [at EXCEPT ![d] = "pulling"]
       /\ target' = [target EXCEPT ![d] = dec.version]
       /\ UNCHANGED <<left, engine>>
    \/ /\ dec.action = "step"
       /\ engine' = [engine EXCEPT ![d] = @ \o dec.slices[d]]
       /\ at' = [at EXCEPT ![d] = IF engine'[d] = <<>> THEN "ready" ELSE "stepping"]
       /\ left' = [left EXCEPT ![d] = Burst]
       /\ UNCHANGED target

\* Rank d can be sent one more decision.
HasRoom(d) == Len(inbox[d]) < MaxBehind

\* The broadcast has left rank 0, which stamps the version on the futures of
\* all the requests of the decision and carries out its own part.
Share ==
    /\ at[0] = "sharing"
    /\ \A d \in Peers : HasRoom(d)
    /\ inbox' = [d \in Ranks |-> IF d = 0 THEN <<>> ELSE Append(inbox[d], decision)]
    /\ decision' = NoDecision
    /\ minVersion' = [r \in Requests |->
            IF \E d \in Ranks : r \in Elements(decision.slices[d])
            THEN version[0] ELSE minVersion[r]]
    /\ Apply(0, decision)
    /\ UNCHANGED <<call, futures, result, inboxVars, routerVars, tokens, saw,
                   weightVars, fanInVars, closeVars, stored>>

\* A peer receives the next decision.
Take(d) ==
    /\ at[d] = "ready"
    /\ inbox[d] # <<>>
    /\ inbox' = [inbox EXCEPT ![d] = Tail(@)]
    /\ Apply(d, Head(inbox[d]))
    /\ UNCHANGED <<callerVars, inboxVars, routerVars, decision, tokens, saw,
                   weightVars, fanInVars, closeVars, stored>>

-----------------------------------------------------------------------------
(* A step of the engine. *)

Scheduled(d) ==
    {engine[d][i] : i \in {j \in DOMAIN engine[d] : j <= MaxSeqs}}

Completion(r, v) == [request |-> r, version |-> v]

\* _rank0_resolve_futures: the completions done are matched to futures, the
\* placeholder min is replaced by the stamped one, the load is given back.
Resolve(done) ==
    LET rs == {c.request : c \in done}
    IN  /\ call' = [r \in Requests |-> IF r \in rs THEN "returned" ELSE call[r]]
        /\ futures' = futures \ rs
        /\ result' = [r \in Requests |->
                IF r \in rs
                THEN [min |-> minVersion[r],
                      max |-> (CHOOSE c \in done : c.request = r).version]
                ELSE result[r]]
        /\ reserved' = [r \in Requests |-> IF r \in rs THEN None ELSE reserved[r]]
        /\ load' = [d \in Ranks |->
                load[d] - Cardinality({r \in rs : reserved[r] = d})]
        /\ UNCHANGED minVersion

\* One engine.step() of rank d and process_finished_requests: some of the
\* scheduled requests finish, those at their token limit certainly.
EngineStep(d) ==
    /\ at[d] = "stepping"
    /\ \E finished \in SUBSET Scheduled(d) :
        LET done == {Completion(r, version[d]) : r \in finished}
        IN  /\ {r \in Scheduled(d) : tokens[r] + 1 = MaxTokens} \subseteq finished
            /\ engine' = [engine EXCEPT
                    ![d] = Kept(@, Requests \ finished)]
            /\ \/ d = 0 /\ Resolve(done) /\ UNCHANGED port
               \/ /\ d # 0
                  /\ port' = IF done = {} THEN port ELSE Append(port, done)
                  /\ UNCHANGED <<callerVars, routerVars>>
    /\ tokens' = [r \in Requests |->
                    IF r \in Scheduled(d) THEN tokens[r] + 1 ELSE tokens[r]]
    /\ saw' = [r \in Requests |->
                    IF r \in Scheduled(d) THEN saw[r] \cup {version[d]} ELSE saw[r]]
    /\ left' = [left EXCEPT ![d] = @ - 1]
    /\ at' = [at EXCEPT ![d] = IF left[d] = 1 \/ engine'[d] = <<>>
                               THEN "ready" ELSE "stepping"]
    /\ UNCHANGED <<inboxVars, decision, inbox, target, weightVars, draining,
                   closeVars, stored>>

\* The drain task of rank 0 receives what a peer sent.  A completion without a
\* future (its caller was failed) is a KeyError that ends the task.
Drain ==
    /\ draining
    /\ port # <<>>
    /\ port' = Tail(port)
    /\ \/ /\ {c.request : c \in Head(port)} \subseteq futures
          /\ Resolve(Head(port))
          /\ UNCHANGED draining
       \/ /\ ~({c.request : c \in Head(port)} \subseteq futures)
          /\ draining' = FALSE
          /\ UNCHANGED <<callerVars, routerVars>>
    /\ UNCHANGED <<inboxVars, loopVars, engineVars, weightVars, closeVars, stored>>

-----------------------------------------------------------------------------
(* A pull, and failures. *)

\* Mutant: only rank 0 bumps its version.
BugLoadedRank0(d) ==
    /\ weights' = [weights EXCEPT ![d] = stored]
    /\ version' = IF d = 0 THEN [version EXCEPT ![d] = target[d]] ELSE version

\* Rank d holds what the store held, under the version it was told.
Loaded(d) ==
    /\ weights' = [weights EXCEPT ![d] = stored]
    /\ version' = [version EXCEPT ![d] = target[d]]

\* _pull_model_state_dict: rank d has read the store.  Rank 0 resolves the
\* call as soon as its own copy is done.
PullDone(d) ==
    /\ at[d] = "pulling"
    /\ Loaded(d)
    /\ at' = [at EXCEPT ![d] = "ready"]
    /\ \/ d = 0 /\ pullCall' = "none" /\ pullVersion' = None
       \/ d # 0 /\ UNCHANGED <<pullCall, pullVersion>>
    /\ UNCHANGED <<callerVars, queued, routerVars, decision, inbox, target, left,
                   engineVars, fanInVars, closeVars, stored>>

\* The engine loop of rank d raises; only rank 0 has futures to fail.
LoopRaises(d) ==
    /\ at' = [at EXCEPT ![d] = "crashed"]
    /\ \/ d = 0 /\ FailOutstanding
       \/ d # 0 /\ UNCHANGED <<callerVars, inboxVars>>
    /\ UNCHANGED <<routerVars, decision, inbox, target, left, engineVars,
                   weightVars, fanInVars, closeVars, stored>>

Crash(d) ==
    /\ at[d] \in {"stepping", "pulling"}
    /\ LoopRaises(d)

\* A broadcast whose other side has crashed times out.
BroadcastFails(d) ==
    /\ \/ /\ d = 0
          /\ at[0] = "sharing"
          /\ \E p \in Peers : at[p] = "crashed" /\ ~HasRoom(p)
       \/ /\ d # 0
          /\ at[d] = "ready"
          /\ inbox[d] = <<>>
          /\ at[0] = "crashed"
    /\ LoopRaises(d)

-----------------------------------------------------------------------------
Init ==
    /\ call = [r \in Requests |-> "new"]
    /\ futures = {}
    /\ minVersion = [r \in Requests |-> None]
    /\ queued = <<>>
    /\ reserved = [r \in Requests |-> None]
    /\ load = [d \in Ranks |-> 0]
    /\ pullCall = "none"
    /\ pullVersion = None
    /\ closing = FALSE
    /\ closed = [d \in Ranks |-> FALSE]
    /\ at = [d \in Ranks |-> "ready"]
    /\ decision = NoDecision
    /\ inbox = [d \in Ranks |-> <<>>]
    /\ target = [d \in Ranks |-> None]
    /\ left = [d \in Ranks |-> 0]
    /\ engine = [d \in Ranks |-> <<>>]
    /\ tokens = [r \in Requests |-> 0]
    /\ version = [d \in Ranks |-> 0]
    /\ port = <<>>
    /\ draining = TRUE
    /\ weights = [d \in Ranks |-> 0]
    /\ stored = 0
    /\ result = [r \in Requests |-> [min |-> None, max |-> None]]
    /\ saw = [r \in Requests |-> {}]

Next ==
    \/ \E r \in Requests : Generate(r)
    \/ Push \/ PullModelStateDict \/ Close
    \/ Decide \/ Share \/ Drain
    \/ \E d \in Ranks : EngineStep(d) \/ PullDone(d) \/ Crash(d) \/ BroadcastFails(d)
                        \/ CloseReturns(d)
    \/ \E d \in Peers : Take(d)

\* Every engine loop, the drain task and a close that was called make
\* progress.  Nobody is obliged to call, to push or to close.
Fairness ==
    /\ WF_vars(Decide) /\ WF_vars(Share) /\ WF_vars(Drain)
    /\ \A d \in Ranks :
        /\ WF_vars(EngineStep(d)) /\ WF_vars(PullDone(d))
        /\ WF_vars(BroadcastFails(d)) /\ WF_vars(CloseReturns(d))
    /\ \A d \in Peers : WF_vars(Take(d))

Spec == Init /\ [][Next]_vars /\ Fairness

-----------------------------------------------------------------------------
(* Properties. *)

DecisionType == [action : {"none", "close", "pull", "step"},
                 slices : [Ranks -> Seq(Requests)],
                 version : Versions \cup {None}]

\* Every variable stays in its domain; a rank never falls more than MaxBehind
\* decisions behind.
TypeOK ==
    /\ call \in [Requests -> {"new", "waiting", "returned", "failed", "refused"}]
    /\ futures \subseteq Requests
    /\ minVersion \in [Requests -> Versions \cup {None}]
    /\ queued \in Seq(Requests)
    /\ reserved \in [Requests -> Ranks \cup {None}]
    /\ load \in [Ranks -> 0..Cardinality(Requests)]
    /\ pullCall \in {"none", "waiting"}
    /\ pullVersion \in Versions \cup {None}
    /\ closing \in BOOLEAN
    /\ closed \in [Ranks -> BOOLEAN]
    /\ at \in [Ranks -> {"ready", "sharing", "stepping", "pulling", "stopped",
                         "crashed"}]
    /\ decision \in DecisionType
    /\ inbox \in [Ranks -> Seq(DecisionType)]
    /\ \A d \in Ranks : Len(inbox[d]) <= MaxBehind
    /\ target \in [Ranks -> Versions \cup {None}]
    /\ left \in [Ranks -> 0..Burst]
    /\ engine \in [Ranks -> Seq(Requests)]
    /\ tokens \in [Requests -> 0..MaxTokens]
    /\ version \in [Ranks -> Versions]
    /\ port \in Seq(SUBSET [request : Requests, version : Versions])
    /\ draining \in BOOLEAN
    /\ weights \in [Ranks -> Versions]
    /\ stored \in Versions
    /\ result \in [Requests -> [min : Versions \cup {None},
                                max : Versions \cup {None}]]
    /\ saw \in [Requests -> SUBSET Versions]

\* Where request r is: in the queue, in the decision rank 0 is sharing, on its
\* way to rank d, in its engine, or on the port.
Places == {<<"queue", 0>>, <<"decision", 0>>, <<"port", 0>>}
            \cup ({"inbox", "engine"} \X Ranks)

Holds(place, r) ==
    LET d == place[2]
    IN  CASE place[1] = "queue"    -> r \in Elements(queued)
          [] place[1] = "decision" ->
                \E e \in Ranks : r \in Elements(decision.slices[e])
          [] place[1] = "inbox"    ->
                \E i \in DOMAIN inbox[d] : r \in Elements(inbox[d][i].slices[d])
          [] place[1] = "engine"   -> r \in Elements(engine[d])
          [] OTHER -> \E i \in DOMAIN port : \E c \in port[i] : c.request = r

\* No request is lost or handled twice: as long as the loop of rank 0 lives, a
\* request has a future if and only if it is in exactly one place, and its
\* caller waits.  So no completion meets a missing future (the pop in
\* _rank0_resolve_futures).
OnePlace ==
    at[0] # "crashed" /\ ~closed[0] =>
        \A r \in Requests :
            /\ r \in futures <=> call[r] = "waiting"
            /\ Cardinality({p \in Places : Holds(p, r)})
                    = IF r \in futures THEN 1 ELSE 0

\* The load of a rank is the number of requests decided for it that rank 0 has
\* not resolved yet (reserve and release of the in-mesh router).
LoadsMatch ==
    at[0] # "crashed" /\ ~closed[0] =>
        \A d \in Ranks :
            load[d] = Cardinality({r \in futures : reserved[r] = d})

\* The versions on a completion bracket the version each of its tokens was
\* sampled under, though rank 0 stamps the minimum and the serving rank, which
\* may be decisions behind and pull in between, reports the maximum.
StampCovers ==
    \A r \in Requests : call[r] = "returned" =>
        saw[r] # {} /\ saw[r] \subseteq result[r].min..result[r].max

\* The label of rank 0 is the version of the weights it samples with, and a peer
\* never samples with weights older than its label, however late it applies a
\* pull: the version a completion reports never makes a sample look fresher than
\* its weights.
LabelsNeverAhead ==
    /\ version[0] = weights[0]
    /\ \A d \in Peers : version[d] <= weights[d]

\* The pull is "awaited before next push (weights changes then)", so every rank
\* reads the weights of the version it was told to pull.  The code awaits rank 0
\* only: a peer may read what the next push has stored.
PullsAwaited == \A d \in Ranks : version[d] = weights[d]

AllRunning == \A d \in Ranks : Running(d)

\* Every call made while the engine loops run is answered, with its result or
\* an exception, even if the loop of any rank then crashes.
CallsAnswered ==
    /\ \A r \in Requests : (call[r] = "waiting" /\ AllRunning) ~> call[r] # "waiting"
    /\ (pullCall = "waiting" /\ AllRunning) ~> pullCall = "none"

\* A close, whatever crashed before or while it waits, ends on every rank and
\* leaves no caller waiting.
CloseEndsAll ==
    closing ~> /\ \A d \in Ranks : closed[d]
               /\ \A r \in Requests : call[r] # "waiting"
               /\ pullCall = "none"
==============================================================================
