----------------------- MODULE GeneratorEngineProofs -----------------------
(***************************************************************************)
(* GeneratorEngine: each request in one place, the load of the ranks and   *)
(* the stamps on the completions, for every number of ranks and requests,  *)
(* whatever crashes.                                                       *)
(*                                                                         *)
(* The five places are sets of requests here; that no request is in two of *)
(* them does not depend on which ranks live.  What does is whose caller    *)
(* waits: as long as rank 0 serves, exactly those of the requests that are *)
(* somewhere; after it has failed its callers, only some in the queue.     *)
(***************************************************************************)
EXTENDS GeneratorEngine, FiniteSetTheorems, WellFoundedInduction, TLAPS

\* The requests in the queue, in the decision for rank d, in the decision i on
\* its way to rank d, in the engine of rank d, and in message i on the port.
InQueue == Elements(queued)
Slice(d) == Elements(decision.slices[d])
Sent(d, i) == Elements(inbox[d][i].slices[d])
Batch(d) == Elements(engine[d])
Finished(i) == {c.request : c \in port[i]}

Somewhere(r) ==
    \/ r \in InQueue
    \/ \E d \in Ranks : r \in Slice(d)
    \/ \E d \in Ranks : r \in Batch(d)
    \/ \E d \in Ranks : \E i \in DOMAIN inbox[d] : r \in Sent(d, i)
    \/ \E i \in DOMAIN port : r \in Finished(i)

\* Rank 0 still answers its callers.
Serving == at[0] # "crashed" /\ ~closed[0]

-----------------------------------------------------------------------------
(* The inductive invariant.                                                *)

\* What the states of the loops say: only rank 0 shares and only while it does
\* is there a decision; only steps carry requests.
LoopInv ==
    /\ \A d \in Peers : at[d] # "sharing"
    /\ \A d \in Ranks : at[d] = "stepping" => left[d] >= 1
    /\ \A d \in Ranks : closed[d] => ~Running(d)
    /\ inbox[0] = <<>>
    /\ at[0] \notin {"sharing", "crashed"} => decision = NoDecision
    /\ decision.action # "step" => \A d \in Ranks : Slice(d) = {}
    /\ \A d \in Ranks : \A i \in DOMAIN inbox[d] :
            inbox[d][i].action # "step" => Sent(d, i) = {}

\* A request on its way carries the reservation of the rank it goes to.
ReservedInv ==
    /\ \A r \in InQueue : reserved[r] = None
    /\ \A d \in Ranks : \A r \in Slice(d) : reserved[r] = d
    /\ \A d \in Ranks : \A r \in Batch(d) : reserved[r] = d
    /\ \A d \in Ranks : \A i \in DOMAIN inbox[d] : \A r \in Sent(d, i) : reserved[r] = d
    /\ \A i \in DOMAIN port : \A r \in Finished(i) : reserved[r] # None
    /\ \A r \in Requests : call[r] = "new" => reserved[r] = None

\* The stations of one rank, and the port, have no request in common.
ApartInv ==
    /\ \A d \in Ranks : Batch(d) \cap Slice(d) = {}
    /\ \A d \in Ranks : \A i \in DOMAIN inbox[d] :
            /\ Sent(d, i) \cap Slice(d) = {}
            /\ Sent(d, i) \cap Batch(d) = {}
            /\ \A j \in DOMAIN inbox[d] : i # j => Sent(d, i) \cap Sent(d, j) = {}
    /\ \A i \in DOMAIN port : \A d \in Ranks :
            /\ Finished(i) \cap Slice(d) = {}
            /\ Finished(i) \cap Batch(d) = {}
            /\ \A j \in DOMAIN inbox[d] : Finished(i) \cap Sent(d, j) = {}
    /\ \A i, j \in DOMAIN port : i # j => Finished(i) \cap Finished(j) = {}

\* Whose caller waits.
CallInv ==
    /\ futures = {r \in Requests : call[r] = "waiting"}
    /\ \A r \in Requests : Somewhere(r) => call[r] \in {"waiting", "failed"}
    /\ Serving => \A r \in Requests : Somewhere(r) <=> r \in futures
    /\ ~Serving => futures \subseteq InQueue

\* A request that is not finished has tokens left to take.
Unfinished(r) ==
    \/ call[r] = "new"
    \/ r \in InQueue
    \/ \E d \in Ranks : r \in Slice(d) \/ r \in Batch(d)
    \/ \E d \in Ranks : \E i \in DOMAIN inbox[d] : r \in Sent(d, i)

TokenInv == \A r \in Requests : Unfinished(r) => tokens[r] < MaxTokens

IsPull(d, i) == inbox[d][i].action = "pull"

\* Every version around is at most the one in the store, which does not change
\* before a pull has told it to rank 0; each rank is told them in order.
VersionInv ==
    /\ pullVersion # None => pullVersion = stored
    /\ decision.action = "pull" => decision.version \in Versions
    /\ at[0] = "sharing" /\ decision.action = "pull" =>
            decision.version = stored /\ pullVersion = stored
    /\ \A d \in Ranks : version[d] <= stored
    /\ \A d \in Ranks : at[d] = "pulling" =>
            target[d] \in Versions /\ version[d] <= target[d] /\ target[d] <= stored
    /\ \A d \in Ranks : \A i \in DOMAIN inbox[d] : IsPull(d, i) =>
            /\ inbox[d][i].version \in Versions
            /\ version[d] <= inbox[d][i].version
            /\ inbox[d][i].version <= stored
            /\ at[d] = "pulling" => target[d] <= inbox[d][i].version
            /\ \A j \in DOMAIN inbox[d] : j < i /\ IsPull(d, j) =>
                    inbox[d][j].version <= inbox[d][i].version

\* By the time rank d takes decision i it has at least version v, or it has
\* crashed and takes no more.
Reaches(d, i, v) ==
    \/ at[d] = "crashed"
    \/ v <= version[d]
    \/ at[d] = "pulling" /\ v <= target[d]
    \/ \E j \in DOMAIN inbox[d] : j < i /\ IsPull(d, j) /\ v <= inbox[d][j].version

\* Each rank follows rank 0.
FollowInv ==
    \A d \in Peers : at[0] # "crashed" =>
        /\ Reaches(d, Len(inbox[d]) + 1, version[0])
        /\ at[0] = "pulling" => Reaches(d, Len(inbox[d]) + 1, target[0])

\* A request no engine has had yet.
Fresh(r) ==
    \/ call[r] = "new"
    \/ r \in InQueue
    \/ \E d \in Ranks : r \in Slice(d)
    \/ \E d \in Ranks : \E i \in DOMAIN inbox[d] : r \in Sent(d, i)

FreshInv == \A r \in Requests : Fresh(r) => saw[r] = {}

\* A request is served under the version it is stamped with or a later one.
ReachInv ==
    \A d \in Ranks : \A i \in DOMAIN inbox[d] : \A r \in Sent(d, i) :
        Reaches(d, i, minVersion[r])

BatchStamp ==
    \A d \in Ranks : \A r \in Batch(d) :
        minVersion[r] <= version[d] /\ saw[r] \subseteq minVersion[r]..version[d]

PortStamp ==
    \A i \in DOMAIN port : \A c \in port[i] :
        /\ saw[c.request] # {}
        /\ saw[c.request] \subseteq minVersion[c.request]..c.version

StampInv == FollowInv /\ FreshInv /\ ReachInv /\ BatchStamp /\ PortStamp

IInv ==
    /\ TypeOK
    /\ LoopInv /\ ReservedInv /\ ApartInv /\ CallInv /\ TokenInv /\ VersionInv /\ StampInv
    /\ LoadsMatch /\ StampCovers

-----------------------------------------------------------------------------
(* Sequences and the sets of their elements.                               *)

\* Sequence u is sequence t and x behind it.
AddsOne(t, u, x) ==
    LET last == Len(t) + 1
    IN  /\ last \in DOMAIN u /\ last \notin DOMAIN t /\ u[last] = x /\ Len(u) = last
        /\ \A i \in DOMAIN t : i \in DOMAIN u /\ u[i] = t[i]
        /\ \A i \in DOMAIN u : i \in DOMAIN t \/ i = last

LEMMA AppendAdds ==
    ASSUME NEW T, NEW t \in Seq(T), NEW x \in T
    PROVE  AddsOne(t, Append(t, x), x)
<1> DEFINE m == Len(t)
<1>1. /\ m \in Nat /\ DOMAIN t = 1 .. m /\ DOMAIN Append(t, x) = 1 .. m + 1
      /\ Len(Append(t, x)) = m + 1
      /\ \A i \in 1 .. m : Append(t, x)[i] = t[i]
      /\ Append(t, x)[m + 1] = x
  OBVIOUS
<1> HIDE DEF m
<1>2. /\ 1 .. m + 1 = 1 .. m \cup {m + 1}
      /\ m + 1 \notin 1 .. m
  BY <1>1
<1> QED
  BY <1>1, <1>2 DEF AddsOne, m

LEMMA AppendElements ==
    ASSUME NEW T, NEW t \in Seq(T), NEW x \in T
    PROVE  Append(t, x) \in Seq(T) /\ Elements(Append(t, x)) = Elements(t) \cup {x}
BY AppendAdds DEF AddsOne, Elements

LEMMA JoinedElements ==
    ASSUME NEW T, NEW s \in Seq(T), NEW t \in Seq(T)
    PROVE  s \o t \in Seq(T) /\ Elements(s \o t) = Elements(s) \cup Elements(t)
<1> DEFINE m == Len(s)
           n == Len(t)
<1>1. /\ m \in Nat /\ n \in Nat /\ DOMAIN s = 1 .. m /\ DOMAIN t = 1 .. n
      /\ s \o t \in Seq(T) /\ DOMAIN (s \o t) = 1 .. m + n
      /\ \A i \in 1 .. m : (s \o t)[i] = s[i]
      /\ \A i \in 1 .. n : (s \o t)[m + i] = t[i]
  OBVIOUS
<1> HIDE DEF m, n
<1>2. \A k \in 1 .. m + n : k \in 1 .. m \/ \E i \in 1 .. n : k = m + i
  <2> TAKE k \in 1 .. m + n
  <2>1. k \in 1 .. m \/ (k - m \in 1 .. n /\ k = m + (k - m))
    BY <1>1
  <2> QED
    BY <2>1
<1>3. \A i \in 1 .. m : i \in 1 .. m + n
  BY <1>1
<1>4. \A i \in 1 .. n : m + i \in 1 .. m + n
  BY <1>1
<1>5. Elements(s \o t) \subseteq Elements(s) \cup Elements(t)
  BY <1>1, <1>2 DEF Elements
<1>6. Elements(s) \cup Elements(t) \subseteq Elements(s \o t)
  BY <1>1, <1>3, <1>4 DEF Elements
<1> QED
  BY <1>1, <1>5, <1>6

LEMMA EmptyElements == Elements(<<>>) = {}
BY DEF Elements

LEMMA ElementsAmong ==
    ASSUME NEW T, NEW s \in Seq(T)
    PROVE  Elements(s) \subseteq T
BY DEF Elements

\* Taking the head of a sequence moves the others one place forward.
LEMMA TailIndices ==
    ASSUME NEW T, NEW s \in Seq(T), s # <<>>
    PROVE  /\ Tail(s) \in Seq(T)
           /\ 1 \in DOMAIN s /\ Head(s) = s[1] /\ Len(s) \in Nat /\ DOMAIN s = 1 .. Len(s)
           /\ Len(Tail(s)) + 1 = Len(s)
           /\ \A i \in DOMAIN Tail(s) :
                 /\ i \in Nat /\ i + 1 \in DOMAIN s /\ i + 1 # 1
                 /\ Tail(s)[i] = s[i + 1]
           /\ \A k \in DOMAIN s : k # 1 => \E i \in DOMAIN Tail(s) : k = i + 1
<1> DEFINE n == Len(s)
           t == Tail(s)
<1>1. /\ n \in Nat /\ n # 0 /\ DOMAIN s = 1 .. n /\ Head(s) = s[1]
      /\ t \in Seq(T) /\ Len(t) = n - 1 /\ DOMAIN t = 1 .. n - 1
      /\ \A i \in 1 .. n - 1 : t[i] = s[i + 1]
  OBVIOUS
<1> HIDE DEF n, t
<1>2. \A k \in 1 .. n : k # 1 => \E i \in 1 .. n - 1 : k = i + 1
  <2> TAKE k \in 1 .. n
  <2>1. k # 1 => k - 1 \in 1 .. n - 1 /\ k = (k - 1) + 1
    BY <1>1
  <2> QED
    BY <2>1
<1>3. 1 \in 1 .. n /\ Len(t) + 1 = n
  BY <1>1
<1>4. \A i \in 1 .. n - 1 : i \in Nat /\ i + 1 \in 1 .. n /\ i + 1 # 1
  BY <1>1
<1>5. /\ t \in Seq(T) /\ 1 \in DOMAIN s /\ Head(s) = s[1] /\ n \in Nat /\ DOMAIN s = 1 .. n
      /\ Len(t) + 1 = n
      /\ \A i \in DOMAIN t : i \in Nat /\ i + 1 \in DOMAIN s /\ i + 1 # 1 /\ t[i] = s[i + 1]
      /\ \A k \in DOMAIN s : k # 1 => \E i \in DOMAIN t : k = i + 1
  BY <1>1, <1>2, <1>3, <1>4
<1> QED
  BY <1>5 DEF n, t

\* A set of naturals has a smallest element.
LEMMA Smallest ==
    ASSUME NEW B \in SUBSET Nat, B # {}
    PROVE  \E n \in B : \A m \in B : n <= m
<1>1. PICK n \in B : \A m \in B : <<m, n>> \notin OpToRel(<, Nat)
  BY WFMin, NatLessThanWellFounded, Zenon
<1>2. \A m \in B : ~ (m < n)
  <2> TAKE m \in B
  <2>1. <<m, n>> \in Nat \X Nat /\ <<m, n>>[1] = m /\ <<m, n>>[2] = n
    OBVIOUS
  <2> QED
    BY <1>1, <2>1, SMT DEF OpToRel
<1> QED
  BY <1>2

\* What Kept computes its result by: the subsequences of the beginnings of s.
Beginnings(s, S, n, g) ==
    g = [i \in 0 .. n |->
            IF i = 0 THEN <<>>
            ELSE IF s[i] \in S THEN Append(g[i - 1], s[i]) ELSE g[i - 1]]

LEMMA BeginningsExist ==
    ASSUME NEW s, NEW S, NEW n \in Nat
    PROVE  \E g : Beginnings(s, S, n, g)
<1> DEFINE B == {k \in Nat : ~ \E g : Beginnings(s, S, k, g)}
<1>1. SUFFICES ASSUME B # {} PROVE FALSE
  OBVIOUS
<1>2. PICK k \in B : \A m \in B : k <= m
  BY <1>1, Smallest, Zenon
<1>3. CASE k = 0
  <2> DEFINE g == [i \in 0 .. 0 |-> <<>>]
  <2>1. Beginnings(s, S, 0, g)
    BY DEF Beginnings
  <2> QED
    BY <1>2, <1>3, <2>1
<1>4. CASE k # 0
  <2>1. k \in Nat /\ k - 1 \in Nat /\ k - 1 \notin B
    BY <1>2, <1>4
  <2>2. PICK h : Beginnings(s, S, k - 1, h)
    BY <2>1
  <2> DEFINE last == IF s[k] \in S THEN Append(h[k - 1], s[k]) ELSE h[k - 1]
             g == [i \in 0 .. k |-> IF i = k THEN last ELSE h[i]]
  <2>3. \A i \in 0 .. k - 1 : g[i] = h[i]
    BY <2>1
  <2>4. ASSUME NEW i \in 0 .. k
        PROVE  g[i] = IF i = 0 THEN <<>>
                      ELSE IF s[i] \in S THEN Append(g[i - 1], s[i]) ELSE g[i - 1]
    <3>1. CASE i = k
      <4>1. g[i] = last /\ k - 1 \in 0 .. k - 1
        BY <2>1, <3>1
      <4> QED
        BY <1>4, <2>3, <3>1, <4>1
    <3>2. CASE i # k
      <4>1. i \in 0 .. k - 1 /\ (i # 0 => i - 1 \in 0 .. k - 1)
        BY <2>1, <3>2
      <4>2. h[i] = IF i = 0 THEN <<>>
                   ELSE IF s[i] \in S THEN Append(h[i - 1], s[i]) ELSE h[i - 1]
        <5> HIDE DEF g, last
        <5> QED
          BY <2>2, <4>1, Zenon DEF Beginnings
      <4> QED
        BY <2>3, <4>1, <4>2
    <3> QED
      BY <3>1, <3>2
  <2>5. Beginnings(s, S, k, g)
    <3>1. g = [i \in 0 .. k |-> g[i]]
      OBVIOUS
    <3> HIDE DEF g
    <3> QED
      BY <2>4, <3>1 DEF Beginnings
  <2>6. \E any : Beginnings(s, S, k, any)
    <3> HIDE DEF g
    <3> QED
      BY <2>5, Zenon
  <2> QED
    BY <1>2, <2>6
<1> QED
  BY <1>3, <1>4

\* Kept keeps the elements of s that are in S, and nothing else.
LEMMA KeptElements ==
    ASSUME NEW T, NEW s \in Seq(T), NEW S
    PROVE  Kept(s, S) \in Seq(T) /\ Elements(Kept(s, S)) = Elements(s) \cap S
<1>1. Len(s) \in Nat /\ DOMAIN s = 1 .. Len(s) /\ \A i \in 1 .. Len(s) : s[i] \in T
  OBVIOUS
<1> DEFINE f == CHOOSE f : f = [i \in 0 .. Len(s) |->
                                    IF i = 0 THEN <<>>
                                    ELSE IF s[i] \in S THEN Append(f[i - 1], s[i]) ELSE f[i - 1]]
<1>2. Kept(s, S) = f[Len(s)]
  BY DEF Kept
<1>3. Beginnings(s, S, Len(s), f)
  <2> DEFINE n == Len(s)
             P(g) == g = [i \in 0 .. n |->
                                IF i = 0 THEN <<>>
                                ELSE IF s[i] \in S THEN Append(g[i - 1], s[i]) ELSE g[i - 1]]
  <2>1. \E g : P(g)
    <3>1. n \in Nat
      BY <1>1
    <3> HIDE DEF n
    <3>2. \E g : Beginnings(s, S, n, g)
      BY <3>1, BeginningsExist
    <3> QED
      BY <3>2, Zenon DEF Beginnings
  <2>2. P(CHOOSE g : P(g))
    <3> HIDE DEF P
    <3> QED
      BY <2>1, Zenon
  <2> QED
    BY <2>2, Zenon DEF Beginnings
<1> HIDE DEF f
<1> DEFINE Good(n) == /\ f[n] \in Seq(T)
                      /\ Elements(f[n]) = {s[i] : i \in 1 .. n} \cap S
           B == {n \in 0 .. Len(s) : ~Good(n)}
<1>4. ASSUME B # {} PROVE FALSE
  <2>1. B \in SUBSET Nat
    BY <1>1
  <2>2. PICK n \in B : \A m \in B : n <= m
    BY <1>4, <2>1, Smallest, Zenon
  <2>3. n \in Nat /\ n \in 0 .. Len(s) /\ ~Good(n)
    BY <2>1, <2>2
  <2>4. f[n] = IF n = 0 THEN <<>>
               ELSE IF s[n] \in S THEN Append(f[n - 1], s[n]) ELSE f[n - 1]
    BY <1>3, <2>3, Zenon DEF Beginnings
  <2>5. CASE n = 0
    <3>1. f[0] = <<>> /\ {s[i] : i \in 1 .. 0} = {}
      BY <2>4, <2>5
    <3>2. <<>> \in Seq(T) /\ Elements(<<>>) = {}
      BY DEF Elements
    <3> QED
      BY <2>3, <2>5, <3>1, <3>2
  <2>6. CASE n # 0
    <3>1. n - 1 \in 0 .. Len(s) /\ n \in 1 .. Len(s) /\ n - 1 \notin B
      <4> HIDE DEF B
      <4>1. n - 1 \in 0 .. Len(s) /\ n \in 1 .. Len(s) /\ ~ (n <= n - 1)
        BY <1>1, <2>3, <2>6
      <4> QED
        BY <2>2, <4>1
    <3>2. Good(n - 1)
      BY <3>1
    <3>3. {s[i] : i \in 1 .. n} = {s[i] : i \in 1 .. n - 1} \cup {s[n]}
      BY <2>3, <2>6
    <3>4. s[n] \in T
      BY <1>1, <3>1
    <3> DEFINE t == f[n - 1]
    <3>5. t \in Seq(T) /\ Elements(t) = {s[i] : i \in 1 .. n - 1} \cap S
      BY <3>2
    <3>6. Append(t, s[n]) \in Seq(T) /\ Elements(Append(t, s[n])) = Elements(t) \cup {s[n]}
      <4> HIDE DEF t
      <4> QED
        BY <3>4, <3>5, AppendElements
    <3> QED
      BY <2>3, <2>4, <2>6, <3>3, <3>5, <3>6
  <2> QED
    BY <2>5, <2>6
<1>5. Good(Len(s))
  <2>1. Len(s) \in 0 .. Len(s)
    BY <1>1
  <2> HIDE DEF Good
  <2> QED
    BY <1>4, <2>1, Zenon
<1>6. Elements(s) = {s[i] : i \in 1 .. Len(s)}
  BY <1>1 DEF Elements
<1> QED
  BY <1>2, <1>5, <1>6, Zenon

-----------------------------------------------------------------------------
(* What the actions do to the five places.                                 *)

QueueStays == InQueue' = InQueue
SlicesStay == \A d \in Ranks : Slice(d)' = Slice(d)
BatchStays(d) == Batch(d)' = Batch(d)
InboxStays(d) == inbox'[d] = inbox[d] /\ \A i \in DOMAIN inbox[d] : Sent(d, i)' = Sent(d, i)
PortStays == port' = port /\ \A i \in DOMAIN port : Finished(i)' = Finished(i)

PlacesStay == /\ QueueStays /\ SlicesStay /\ PortStays
              /\ \A d \in Ranks : BatchStays(d) /\ InboxStays(d)

\* One more decision waits for rank d, the last: the one that was being shared.
InboxGrows(d, last) ==
    /\ last = Len(inbox[d]) + 1 /\ last \in DOMAIN inbox'[d] /\ last \notin DOMAIN inbox[d]
    /\ inbox'[d][last] = decision /\ Sent(d, last)' = Slice(d)
    /\ \A i \in DOMAIN inbox[d] : /\ i \in DOMAIN inbox'[d]
                                  /\ inbox'[d][i] = inbox[d][i]
                                  /\ Sent(d, i)' = Sent(d, i)
    /\ \A i \in DOMAIN inbox'[d] : i \in DOMAIN inbox[d] \/ i = last

\* Rank d has taken the first decision.
InboxShrinks(d) ==
    /\ 1 \in DOMAIN inbox[d]
    /\ \A i \in DOMAIN inbox'[d] : /\ i \in Nat /\ i + 1 \in DOMAIN inbox[d] /\ i + 1 # 1
                                   /\ inbox'[d][i] = inbox[d][i + 1]
                                   /\ Sent(d, i)' = Sent(d, i + 1)
    /\ \A k \in DOMAIN inbox[d] : k # 1 => \E i \in DOMAIN inbox'[d] : k = i + 1

PortGrows(done, last) ==
    /\ last \in DOMAIN port' /\ last \notin DOMAIN port
    /\ port'[last] = done /\ Finished(last)' = {c.request : c \in done}
    /\ \A i \in DOMAIN port : /\ i \in DOMAIN port' /\ port'[i] = port[i]
                              /\ Finished(i)' = Finished(i)
    /\ \A i \in DOMAIN port' : i \in DOMAIN port \/ i = last

PortShrinks ==
    /\ 1 \in DOMAIN port
    /\ \A i \in DOMAIN port' : /\ i \in Nat /\ i + 1 \in DOMAIN port /\ i + 1 # 1
                               /\ port'[i] = port[i + 1]
                               /\ Finished(i)' = Finished(i + 1)
    /\ \A k \in DOMAIN port : k # 1 => \E i \in DOMAIN port' : k = i + 1

\* What does not move stays where it is.
LEMMA Stays ==
    /\ queued' = queued => QueueStays
    /\ decision' = decision => SlicesStay
    /\ \A d \in Ranks : engine'[d] = engine[d] => BatchStays(d)
    /\ \A d \in Ranks : inbox'[d] = inbox[d] => InboxStays(d)
    /\ port' = port => PortStays
BY DEF QueueStays, SlicesStay, BatchStays, InboxStays, PortStays, InQueue, Slice, Batch, Sent,
       Finished

\* The ranks, and what the places hold: finitely many requests.
LEMMA PlaceTypes ==
    ASSUME TypeOK
    PROVE  /\ 0 \in Ranks /\ \A d \in Ranks : d = 0 \/ d \in Peers
           /\ \A d \in Peers : d \in Ranks /\ d # 0
           /\ None \notin Ranks
           /\ InQueue \subseteq Requests
           /\ \A d \in Ranks : Slice(d) \subseteq Requests
           /\ \A d \in Ranks : Batch(d) \subseteq Requests
           /\ \A d \in Ranks : \A i \in DOMAIN inbox[d] : Sent(d, i) \subseteq Requests
           /\ \A i \in DOMAIN port : Finished(i) \subseteq Requests
           /\ futures \subseteq Requests
<1>1. /\ 0 \in Ranks /\ \A d \in Ranks : d = 0 \/ d \in Peers
      /\ \A d \in Peers : d \in Ranks /\ d # 0
      /\ None \notin Ranks
  BY EngineAssumption DEF Ranks, Peers, None
<1>2. InQueue \subseteq Requests
  BY ElementsAmong DEF TypeOK, InQueue
<1>3. ASSUME NEW d \in Ranks
      PROVE  Slice(d) \subseteq Requests
  <2>1. decision.slices[d] \in Seq(Requests)
    BY DEF TypeOK, DecisionType
  <2> QED
    BY <2>1, ElementsAmong DEF Slice
<1>4. ASSUME NEW d \in Ranks
      PROVE  Batch(d) \subseteq Requests
  <2>1. engine[d] \in Seq(Requests)
    BY DEF TypeOK
  <2> QED
    BY <2>1, ElementsAmong DEF Batch
<1>5. ASSUME NEW d \in Ranks, NEW i \in DOMAIN inbox[d]
      PROVE  Sent(d, i) \subseteq Requests
  <2>1. inbox[d] \in Seq(DecisionType)
    BY DEF TypeOK
  <2>2. inbox[d][i] \in DecisionType
    BY <2>1
  <2>3. inbox[d][i].slices[d] \in Seq(Requests)
    BY <2>2 DEF DecisionType
  <2> QED
    BY <2>3, ElementsAmong DEF Sent
<1>6. ASSUME NEW i \in DOMAIN port
      PROVE  Finished(i) \subseteq Requests
  <2>1. port[i] \subseteq [request : Requests, version : Versions]
    BY DEF TypeOK
  <2> QED
    BY <2>1 DEF Finished
<1> QED
  BY <1>1, <1>2, <1>3, <1>4, <1>5, <1>6 DEF TypeOK

LEMMA GenerateEffect ==
    ASSUME TypeOK, NEW r \in Requests, Generate(r)
    PROVE  /\ call[r] = "new" /\ SlicesStay /\ PortStays
           /\ \A d \in Ranks : BatchStays(d) /\ InboxStays(d)
           /\ \/ /\ closed[0] /\ QueueStays /\ futures' = futures
                 /\ call' = [call EXCEPT ![r] = "refused"]
              \/ /\ ~closed[0] /\ InQueue' = InQueue \cup {r} /\ futures' = futures \cup {r}
                 /\ call' = [call EXCEPT ![r] = "waiting"]
<1>1. queued \in Seq(Requests)
  BY DEF TypeOK
<1>2. queued' = Append(queued, r) => InQueue' = InQueue \cup {r}
  BY <1>1, AppendElements DEF InQueue
<1> QED
  BY <1>2, Stays DEF Generate, loopVars, engineVars, fanInVars

\* The step that Decide shares has all of the queue, each request reserved for
\* the rank that it is handed to.
LEMMA DecideEffect ==
    ASSUME TypeOK, Decide
    PROVE  /\ at[0] = "ready" /\ PortStays
           /\ \A d \in Ranks : BatchStays(d) /\ InboxStays(d)
           /\ \/ /\ decision'.action \in {"close", "pull"} /\ QueueStays
                 /\ UNCHANGED <<reserved, load>>
                 /\ \A d \in Ranks : Slice(d)' = {}
              \/ /\ decision'.action = "step" /\ InQueue' = {}
                 /\ \E where \in [InQueue -> Ranks] :
                        /\ \A d \in Ranks : Slice(d)' = {r \in InQueue : where[r] = d}
                        /\ Reserve(where)
<1>1. \/ /\ decision'.action \in {"close", "pull"} /\ decision'.slices = NoSlices
         /\ UNCHANGED <<queued, reserved, load>>
      \/ /\ decision'.action = "step" /\ queued' = <<>>
         /\ \E where \in [InQueue -> Ranks] :
                decision'.slices = Slices(where) /\ Reserve(where)
  BY DEF Decide, Decision, routerVars, InQueue
<1>2. decision'.slices = NoSlices => \A d \in Ranks : Slice(d)' = {}
  BY EmptyElements DEF Slice, NoSlices
<1>3. queued' = <<>> => InQueue' = {}
  BY EmptyElements DEF InQueue
<1>4. ASSUME NEW where \in [InQueue -> Ranks], decision'.slices = Slices(where), NEW d \in Ranks
      PROVE  Slice(d)' = {r \in InQueue : where[r] = d}
  <2>1. Slice(d)' = Elements(Kept(queued, {r \in DOMAIN where : where[r] = d}))
    BY <1>4 DEF Slice, Slices
  <2>2. queued \in Seq(Requests) /\ DOMAIN where = InQueue
    BY DEF TypeOK
  <2> QED
    BY <2>1, <2>2, KeptElements DEF InQueue
<1>5. at[0] = "ready" /\ PortStays /\ \A d \in Ranks : BatchStays(d) /\ InboxStays(d)
  BY Stays DEF Decide, engineVars, fanInVars
<1> QED
  BY <1>1, <1>2, <1>3, <1>4, <1>5, Stays

\* Applying a decision hands its slice to the engine and moves this loop only.
LEMMA ApplyEffect ==
    ASSUME TypeOK, NEW d \in Ranks, NEW dec \in DecisionType, Apply(d, dec),
           dec.action # "step" => Elements(dec.slices[d]) = {}
    PROVE  /\ Batch(d)' = Batch(d) \cup Elements(dec.slices[d])
           /\ \A e \in Ranks : e # d => /\ BatchStays(e)
                                        /\ at'[e] = at[e] /\ target'[e] = target[e]
                                        /\ left'[e] = left[e]
           /\ \/ dec.action = "close" /\ at'[d] = "stopped" /\ target'[d] = target[d]
              \/ dec.action = "pull" /\ at'[d] = "pulling" /\ target'[d] = dec.version
              \/ /\ dec.action = "step" /\ at'[d] \in {"ready", "stepping"}
                 /\ target'[d] = target[d] /\ left'[d] = Burst
           /\ at' \in [Ranks -> {"ready", "sharing", "stepping", "pulling", "stopped", "crashed"}]
           /\ target' \in [Ranks -> Versions \cup {None}]
           /\ left' \in [Ranks -> 0..Burst]
           /\ engine' \in [Ranks -> Seq(Requests)]
<1>1. /\ engine \in [Ranks -> Seq(Requests)] /\ engine[d] \in Seq(Requests)
      /\ dec.slices[d] \in Seq(Requests) /\ dec.version \in Versions \cup {None}
      /\ at \in [Ranks -> {"ready", "sharing", "stepping", "pulling", "stopped", "crashed"}]
      /\ target \in [Ranks -> Versions \cup {None}]
      /\ left \in [Ranks -> 0..Burst] /\ Burst \in 0..Burst
  BY EngineAssumption DEF TypeOK, DecisionType
<1>2. CASE dec.action = "close"
  <2>1. at' = [at EXCEPT ![d] = "stopped"] /\ UNCHANGED <<target, left, engine>>
    BY <1>2 DEF Apply
  <2>2. \A e \in Ranks : BatchStays(e)
    BY <2>1, Stays
  <2>3. Batch(d)' = Batch(d) \cup Elements(dec.slices[d])
    BY <1>2, <2>2 DEF BatchStays
  <2> QED
    BY <1>1, <1>2, <2>1, <2>2, <2>3
<1>3. CASE dec.action = "pull"
  <2>1. /\ at' = [at EXCEPT ![d] = "pulling"] /\ target' = [target EXCEPT ![d] = dec.version]
        /\ UNCHANGED <<left, engine>>
    BY <1>3 DEF Apply
  <2>2. \A e \in Ranks : BatchStays(e)
    BY <2>1, Stays
  <2>3. Batch(d)' = Batch(d) \cup Elements(dec.slices[d])
    BY <1>3, <2>2 DEF BatchStays
  <2> QED
    BY <1>1, <1>3, <2>1, <2>2, <2>3
<1>4. CASE dec.action = "step"
  <2>1. /\ engine' = [engine EXCEPT ![d] = @ \o dec.slices[d]]
        /\ at' = [at EXCEPT ![d] = IF engine'[d] = <<>> THEN "ready" ELSE "stepping"]
        /\ left' = [left EXCEPT ![d] = Burst] /\ target' = target
    BY <1>4 DEF Apply
  <2>2. engine[d] \o dec.slices[d] \in Seq(Requests)
    BY <1>1, JoinedElements
  <2>3. engine'[d] = engine[d] \o dec.slices[d] /\ engine' \in [Ranks -> Seq(Requests)]
    BY <1>1, <2>1, <2>2
  <2>4. Batch(d)' = Batch(d) \cup Elements(dec.slices[d])
    BY <1>1, <2>3, JoinedElements DEF Batch
  <2>5. \A e \in Ranks : e # d => BatchStays(e)
    BY <1>1, <2>1, Stays
  <2>6. /\ \A e \in Ranks : e # d => at'[e] = at[e] /\ left'[e] = left[e]
        /\ at'[d] \in {"ready", "stepping"} /\ left'[d] = Burst
        /\ at' \in [Ranks -> {"ready", "sharing", "stepping", "pulling", "stopped", "crashed"}]
        /\ left' \in [Ranks -> 0..Burst]
    <3>1. \/ at' = [at EXCEPT ![d] = "ready"]
          \/ at' = [at EXCEPT ![d] = "stepping"]
      BY <2>1
    <3> QED
      BY <1>1, <2>1, <3>1
  <2> QED
    BY <1>1, <1>4, <2>1, <2>3, <2>4, <2>5, <2>6
<1> QED
  BY <1>2, <1>3, <1>4 DEF Apply

\* The decision goes to the peers' inboxes and, its own part, to rank 0.
LEMMA ShareEffect ==
    ASSUME TypeOK, LoopInv, Share
    PROVE  /\ at[0] = "sharing" /\ QueueStays /\ PortStays
           /\ \A d \in Ranks : Slice(d)' = {}
           /\ Batch(0)' = Batch(0) \cup Slice(0) /\ inbox'[0] = <<>>
           /\ \A d \in Peers : /\ BatchStays(d) /\ \E last \in Nat : InboxGrows(d, last)
                               /\ at'[d] = at[d] /\ target'[d] = target[d]
                               /\ Len(inbox'[d]) = Len(inbox[d]) + 1
           /\ \/ decision.action = "close" /\ at'[0] = "stopped"
              \/ /\ decision.action = "pull" /\ at'[0] = "pulling"
                 /\ target'[0] = decision.version
              \/ /\ decision.action = "step" /\ at'[0] \in {"ready", "stepping"}
                 /\ target'[0] = target[0]
           /\ at'[0] = "stepping" => left'[0] = Burst
           /\ \A d \in Peers : left'[d] = left[d]
           /\ minVersion' = [r \in Requests |-> IF \E d \in Ranks : r \in Slice(d)
                                                THEN version[0] ELSE minVersion[r]]
<1> USE PlaceTypes
<1>1. decision \in DecisionType /\ inbox \in [Ranks -> Seq(DecisionType)]
  BY DEF TypeOK
<1>2. decision.action # "step" => Elements(decision.slices[0]) = {}
  BY DEF LoopInv, Slice
<1>3. Apply(0, decision)
  BY DEF Share
<1>4. \A d \in Ranks : Slice(d)' = {}
  BY EmptyElements DEF Share, Slice, NoDecision, Decision, NoSlices
<1>5. ASSUME NEW d \in Peers
      PROVE  (\E last \in Nat : InboxGrows(d, last)) /\ Len(inbox'[d]) = Len(inbox[d]) + 1
  <2>1. inbox[d] \in Seq(DecisionType) /\ inbox'[d] = Append(inbox[d], decision)
    BY <1>1 DEF Share
  <2>a. PICK last \in Nat : last = Len(inbox[d]) + 1
    BY <2>1
  <2>2. /\ last \in DOMAIN inbox'[d] /\ last \notin DOMAIN inbox[d]
        /\ inbox'[d][last] = decision
        /\ \A i \in DOMAIN inbox[d] : i \in DOMAIN inbox'[d] /\ inbox'[d][i] = inbox[d][i]
        /\ \A i \in DOMAIN inbox'[d] : i \in DOMAIN inbox[d] \/ i = last
        /\ Len(inbox'[d]) = Len(inbox[d]) + 1
    <3>1. AddsOne(inbox[d], Append(inbox[d], decision), decision)
      BY <1>1, <2>1, AppendAdds
    <3>2. AddsOne(inbox[d], inbox'[d], decision)
      BY <2>1, <3>1, Zenon
    <3> QED
      BY <2>a, <3>2 DEF AddsOne
  <2>3. \A i \in DOMAIN inbox[d] : Sent(d, i)' = Sent(d, i)
    BY <2>2 DEF Sent
  <2>4. Sent(d, last)' = Slice(d)
    BY <2>2 DEF Sent, Slice
  <2> QED
    BY <2>a, <2>2, <2>3, <2>4 DEF InboxGrows
<1>6. QueueStays /\ PortStays
  BY Stays DEF Share, inboxVars, fanInVars
<1>7. /\ Batch(0)' = Batch(0) \cup Slice(0)
      /\ \A d \in Peers : /\ BatchStays(d) /\ at'[d] = at[d] /\ target'[d] = target[d]
                          /\ left'[d] = left[d]
      /\ \/ decision.action = "close" /\ at'[0] = "stopped"
         \/ decision.action = "pull" /\ at'[0] = "pulling" /\ target'[0] = decision.version
         \/ /\ decision.action = "step" /\ at'[0] \in {"ready", "stepping"}
            /\ target'[0] = target[0] /\ left'[0] = Burst
  BY <1>1, <1>2, <1>3, ApplyEffect DEF Slice
<1>8. /\ minVersion' = [r \in Requests |-> IF \E d \in Ranks : r \in Slice(d)
                                           THEN version[0] ELSE minVersion[r]]
      /\ at[0] = "sharing" /\ inbox'[0] = <<>>
  BY DEF Share, Slice
<1> QED
  BY <1>4, <1>5, <1>6, <1>7, <1>8

\* A peer moves the first decision's slice to its engine.
LEMMA TakeEffect ==
    ASSUME TypeOK, LoopInv, NEW d \in Peers, Take(d)
    PROVE  /\ at[d] = "ready" /\ QueueStays /\ SlicesStay /\ PortStays
           /\ InboxShrinks(d) /\ Batch(d)' = Batch(d) \cup Sent(d, 1)
           /\ Len(inbox'[d]) + 1 = Len(inbox[d])
           /\ \A e \in Ranks : e # d => /\ BatchStays(e) /\ InboxStays(e)
                                        /\ at'[e] = at[e] /\ target'[e] = target[e]
                                        /\ left'[e] = left[e]
           /\ \/ inbox[d][1].action = "close" /\ at'[d] = "stopped"
              \/ IsPull(d, 1) /\ at'[d] = "pulling" /\ target'[d] = inbox[d][1].version
              \/ inbox[d][1].action = "step" /\ at'[d] \in {"ready", "stepping"}
           /\ at'[d] = "stepping" => left'[d] = Burst
<1> USE PlaceTypes
<1>1. /\ inbox \in [Ranks -> Seq(DecisionType)] /\ inbox[d] \in Seq(DecisionType)
      /\ inbox[d] # <<>> /\ inbox' = [inbox EXCEPT ![d] = Tail(@)]
      /\ at[d] = "ready"
  BY DEF TypeOK, Take
<1>2. /\ inbox'[d] = Tail(inbox[d])
      /\ \A e \in Ranks : e # d => inbox'[e] = inbox[e]
  BY <1>1
<1>3. /\ Tail(inbox[d]) \in Seq(DecisionType)
      /\ 1 \in DOMAIN inbox[d] /\ Head(inbox[d]) = inbox[d][1]
      /\ Len(Tail(inbox[d])) + 1 = Len(inbox[d])
      /\ \A i \in DOMAIN Tail(inbox[d]) :
            /\ i \in Nat /\ i + 1 \in DOMAIN inbox[d] /\ i + 1 # 1
            /\ Tail(inbox[d])[i] = inbox[d][i + 1]
      /\ \A k \in DOMAIN inbox[d] : k # 1 => \E i \in DOMAIN Tail(inbox[d]) : k = i + 1
  BY <1>1, TailIndices
<1> DEFINE dec == inbox[d][1]
<1>4. dec \in DecisionType /\ Apply(d, dec)
  BY <1>1, <1>3 DEF Take
<1>5. dec.action # "step" => Elements(dec.slices[d]) = {}
  BY <1>3 DEF LoopInv, Sent
<1>6. InboxShrinks(d)
  <2>1. \A i \in DOMAIN inbox'[d] : Sent(d, i)' = Sent(d, i + 1)
    BY <1>2, <1>3 DEF Sent
  <2> QED
    BY <1>2, <1>3, <2>1 DEF InboxShrinks
<1>7. Len(inbox'[d]) + 1 = Len(inbox[d])
  BY <1>2, <1>3
<1>8. /\ Batch(d)' = Batch(d) \cup Sent(d, 1)
      /\ \A e \in Ranks : e # d => /\ BatchStays(e)
                                   /\ at'[e] = at[e] /\ target'[e] = target[e]
                                   /\ left'[e] = left[e]
      /\ \/ dec.action = "close" /\ at'[d] = "stopped"
         \/ dec.action = "pull" /\ at'[d] = "pulling" /\ target'[d] = dec.version
         \/ dec.action = "step" /\ at'[d] \in {"ready", "stepping"} /\ left'[d] = Burst
  <2> HIDE DEF dec
  <2>1. Sent(d, 1) = Elements(dec.slices[d])
    BY DEF Sent, dec
  <2> QED
    BY <1>4, <1>5, <2>1, ApplyEffect
<1>9. QueueStays /\ SlicesStay /\ PortStays /\ \A e \in Ranks : e # d => InboxStays(e)
  BY <1>2, Stays DEF Take, inboxVars, fanInVars
<1> QED
  BY <1>1, <1>6, <1>7, <1>8, <1>9 DEF IsPull

Done(d, finished) == {Completion(r, version[d]) : r \in finished}

\* A step of the engine takes what is finished out of it; a peer's completions
\* go to the port.
LEMMA EngineStepEffect ==
    ASSUME TypeOK, NEW d \in Ranks, EngineStep(d)
    PROVE  /\ at[d] = "stepping" /\ QueueStays /\ SlicesStay
           /\ \A e \in Ranks : InboxStays(e) /\ (e # d => BatchStays(e))
           /\ Scheduled(d) \subseteq Batch(d)
           /\ \E finished \in SUBSET Scheduled(d) :
                 /\ {r \in Scheduled(d) : tokens[r] + 1 = MaxTokens} \subseteq finished
                 /\ Batch(d)' = Batch(d) \ finished
                 /\ engine' \in [Ranks -> Seq(Requests)]
                 /\ \/ d = 0 /\ Resolve(Done(d, finished)) /\ PortStays
                    \/ /\ d # 0 /\ UNCHANGED <<callerVars, routerVars>>
                       /\ finished = {} => PortStays
                       /\ finished # {} => /\ \E last \in Nat : PortGrows(Done(d, finished), last)
                                           /\ port' = Append(port, Done(d, finished))
<1>1. Scheduled(d) \subseteq Batch(d)
  BY DEF Scheduled, Batch, Elements
<1>2. PICK finished \in SUBSET Scheduled(d) :
          /\ {r \in Scheduled(d) : tokens[r] + 1 = MaxTokens} \subseteq finished
          /\ engine' = [engine EXCEPT ![d] = Kept(@, Requests \ finished)]
          /\ \/ d = 0 /\ Resolve(Done(d, finished)) /\ UNCHANGED port
             \/ /\ d # 0
                /\ port' = IF Done(d, finished) = {} THEN port
                           ELSE Append(port, Done(d, finished))
                /\ UNCHANGED <<callerVars, routerVars>>
  BY DEF EngineStep, Done
<1>3. engine[d] \in Seq(Requests) /\ engine \in [Ranks -> Seq(Requests)]
  BY DEF TypeOK
<1>4. /\ engine'[d] = Kept(engine[d], Requests \ finished)
      /\ \A e \in Ranks : e # d => engine'[e] = engine[e]
  BY <1>2, <1>3
<1>5. /\ Kept(engine[d], Requests \ finished) \in Seq(Requests)
      /\ Elements(Kept(engine[d], Requests \ finished)) = Batch(d) \cap (Requests \ finished)
  BY <1>3, KeptElements DEF Batch
<1>6. Batch(d)' = Batch(d) \ finished
  <2>1. Batch(d) \subseteq Requests
    BY PlaceTypes
  <2> QED
    BY <1>4, <1>5, <2>1 DEF Batch
<1>7. engine' \in [Ranks -> Seq(Requests)]
  BY <1>2, <1>3, <1>5
<1>8. ASSUME d # 0, finished # {}
      PROVE  /\ \E last \in Nat : PortGrows(Done(d, finished), last)
             /\ port' = Append(port, Done(d, finished))
  <2>1. Done(d, finished) # {}
    BY <1>8 DEF Done
  <2>2. /\ port \in Seq(SUBSET [request : Requests, version : Versions])
        /\ Done(d, finished) \in SUBSET [request : Requests, version : Versions]
    BY <1>1, PlaceTypes DEF TypeOK, Done, Completion
  <2>3. port' = Append(port, Done(d, finished))
    BY <1>2, <1>8, <2>1
  <2>4. AddsOne(port, Append(port, Done(d, finished)), Done(d, finished))
    BY <2>2, AppendAdds, Zenon
  <2>5. AddsOne(port, port', Done(d, finished))
    BY <2>3, <2>4, Zenon
  <2>6. PICK last \in Nat : last = Len(port) + 1
    BY <2>2
  <2> DEFINE done == Done(d, finished)
  <2>7. /\ last \in DOMAIN port' /\ last \notin DOMAIN port /\ port'[last] = done
        /\ \A i \in DOMAIN port : i \in DOMAIN port' /\ port'[i] = port[i]
        /\ \A i \in DOMAIN port' : i \in DOMAIN port \/ i = last
    BY <2>5, <2>6 DEF AddsOne
  <2>8. Finished(last)' = {c.request : c \in done}
    <3> HIDE DEF done
    <3> QED
      BY <2>7 DEF Finished
  <2>9. \A i \in DOMAIN port : Finished(i)' = Finished(i)
    BY <2>7 DEF Finished
  <2> QED
    BY <2>3, <2>7, <2>8, <2>9 DEF PortGrows
<1>9. finished = {} => Done(d, finished) = {}
  BY DEF Done
<1>10. /\ QueueStays /\ SlicesStay
       /\ \A e \in Ranks : InboxStays(e) /\ (e # d => BatchStays(e))
  BY <1>4, Stays DEF EngineStep, inboxVars
<1>11. \/ d = 0 /\ Resolve(Done(d, finished)) /\ PortStays
       \/ /\ d # 0 /\ UNCHANGED <<callerVars, routerVars>>
          /\ finished = {} => PortStays
          /\ finished # {} => /\ \E last \in Nat : PortGrows(Done(d, finished), last)
                              /\ port' = Append(port, Done(d, finished))
  BY <1>2, <1>8, <1>9, Stays
<1> HIDE DEF Done
<1>12. at[d] = "stepping"
  BY DEF EngineStep
<1> QED
  BY <1>1, <1>2, <1>6, <1>7, <1>10, <1>11, <1>12

\* The drain task takes the first message.
LEMMA DrainEffect ==
    ASSUME TypeOK, Drain
    PROVE  /\ QueueStays /\ SlicesStay /\ PortShrinks
           /\ \A d \in Ranks : InboxStays(d) /\ BatchStays(d)
           /\ \/ Finished(1) \subseteq futures /\ Resolve(port[1])
              \/ ~(Finished(1) \subseteq futures) /\ UNCHANGED <<callerVars, routerVars>>
<1>1. /\ port \in Seq(SUBSET [request : Requests, version : Versions])
      /\ port # <<>> /\ port' = Tail(port)
  BY DEF TypeOK, Drain
<1>2. /\ 1 \in DOMAIN port /\ Head(port) = port[1]
      /\ \A i \in DOMAIN Tail(port) :
            /\ i \in Nat /\ i + 1 \in DOMAIN port /\ i + 1 # 1 /\ Tail(port)[i] = port[i + 1]
      /\ \A k \in DOMAIN port : k # 1 => \E i \in DOMAIN Tail(port) : k = i + 1
  BY <1>1, TailIndices
<1>3. \A i \in DOMAIN port' : Finished(i)' = Finished(i + 1)
  BY <1>1, <1>2 DEF Finished
<1>4. PortShrinks
  BY <1>1, <1>2, <1>3 DEF PortShrinks
<1>5. \/ Finished(1) \subseteq futures /\ Resolve(port[1])
      \/ ~(Finished(1) \subseteq futures) /\ UNCHANGED <<callerVars, routerVars>>
  BY <1>2 DEF Drain, Finished
<1> QED
  BY <1>4, <1>5, Stays DEF Drain, inboxVars, loopVars, engineVars

\* The other actions move no request.
Elsewhere ==
    \/ Push \/ PullModelStateDict \/ Close
    \/ \E d \in Ranks : PullDone(d) \/ Crash(d) \/ BroadcastFails(d) \/ CloseReturns(d)
    \/ UNCHANGED vars

\* What becomes of the callers then, and of the loops.
ElsewhereCases ==
    \/ UNCHANGED <<call, futures, at, closed>>
    \/ \E d \in Ranks : /\ d # 0 /\ ~Running(d) /\ closed' = [closed EXCEPT ![d] = TRUE]
                        /\ UNCHANGED <<call, futures, at>>
    \/ \E d \in Ranks : /\ \/ at[d] = "pulling" /\ at' = [at EXCEPT ![d] = "ready"]
                           \/ d # 0 /\ at' = [at EXCEPT ![d] = "crashed"]
                        /\ UNCHANGED <<call, futures, closed>>
    \/ /\ FailOutstanding
       /\ \/ closed' = [closed EXCEPT ![0] = TRUE] /\ UNCHANGED at /\ ~Running(0)
          \/ at' = [at EXCEPT ![0] = "crashed"] /\ UNCHANGED closed

LEMMA ElsewhereEffect ==
    ASSUME TypeOK, Elsewhere
    PROVE  /\ PlacesStay
           /\ UNCHANGED <<queued, reserved, load, decision, inbox, engine, tokens, saw, port,
                          minVersion, result, left>>
           /\ ElsewhereCases
<1> USE Stays DEF PlacesStay, ElsewhereCases
<1>1. CASE Push \/ PullModelStateDict \/ Close \/ UNCHANGED vars
  BY <1>1 DEF Push, PullModelStateDict, Close, vars, callerVars, inboxVars, routerVars, loopVars,
              engineVars, weightVars, fanInVars, closeVars
<1>2. ASSUME NEW d \in Ranks, PullDone(d)
      PROVE  /\ PlacesStay
             /\ UNCHANGED <<queued, reserved, load, decision, inbox, engine, tokens, saw, port,
                            minVersion, result, left, call, futures, closed>>
             /\ at[d] = "pulling" /\ at' = [at EXCEPT ![d] = "ready"]
  BY <1>2 DEF PullDone, callerVars, routerVars, engineVars, fanInVars, closeVars
<1>3. ASSUME NEW d \in Ranks, LoopRaises(d)
      PROVE  /\ PlacesStay
             /\ UNCHANGED <<queued, reserved, load, decision, inbox, engine, tokens, saw, port,
                            minVersion, result, left, closed>>
             /\ at' = [at EXCEPT ![d] = "crashed"]
             /\ \/ d = 0 /\ FailOutstanding
                \/ d # 0 /\ UNCHANGED <<call, futures>>
  BY <1>3 DEF LoopRaises, FailOutstanding, callerVars, inboxVars, routerVars, engineVars, fanInVars,
              closeVars
<1>4. ASSUME NEW d \in Ranks, CloseReturns(d)
      PROVE  /\ PlacesStay
             /\ UNCHANGED <<queued, reserved, load, decision, inbox, engine, tokens, saw, port,
                            minVersion, result, left, at>>
             /\ ~Running(d) /\ closed' = [closed EXCEPT ![d] = TRUE]
             /\ \/ d = 0 /\ FailOutstanding
                \/ d # 0 /\ UNCHANGED <<call, futures>>
  BY <1>4 DEF CloseReturns, FailOutstanding, callerVars, inboxVars, routerVars, loopVars,
              engineVars, weightVars, closeVars
<1>5. CASE \E d \in Ranks : PullDone(d)
  BY <1>2, <1>5
<1>6. CASE \E d \in Ranks : Crash(d) \/ BroadcastFails(d)
  <2>1. PICK d \in Ranks : LoopRaises(d)
    BY <1>6 DEF Crash, BroadcastFails
  <2> QED
    BY <1>3, <2>1
<1>7. CASE \E d \in Ranks : CloseReturns(d)
  <2>1. PICK d \in Ranks : CloseReturns(d)
    BY <1>7
  <2> QED
    BY <1>4, <2>1
<1> QED
  BY <1>1, <1>5, <1>6, <1>7 DEF Elsewhere

LEMMA Steps ==
    ASSUME [Next]_vars
    PROVE  \/ \E r \in Requests : Generate(r)
           \/ Decide \/ Share \/ Drain \/ Elsewhere
           \/ \E d \in Ranks : EngineStep(d)
           \/ \E d \in Peers : Take(d)
BY DEF Next, Elsewhere

-----------------------------------------------------------------------------
(* The parts of the invariant are kept.                                    *)

LEMMA LoopKeeps == IInv /\ [Next]_vars => LoopInv'
<1> SUFFICES ASSUME IInv, [Next]_vars
             PROVE  LoopInv'
  OBVIOUS
<1> USE PlaceTypes DEF Running
<1>1. TypeOK /\ LoopInv
  BY DEF IInv
<1>2. /\ at \in [Ranks -> {"ready", "sharing", "stepping", "pulling", "stopped", "crashed"}]
      /\ left \in [Ranks -> 0..Burst] /\ closed \in [Ranks -> BOOLEAN]
      /\ Burst >= 1
  BY <1>1, EngineAssumption DEF TypeOK
<1>3. CASE \E r \in Requests : Generate(r)
  <2>1. SlicesStay /\ \A d \in Ranks : InboxStays(d)
    BY <1>1, <1>3, GenerateEffect
  <2>2. UNCHANGED <<at, left, closed, inbox, decision>>
    BY <1>3 DEF Generate, loopVars, closeVars
  <2> QED
    BY <1>1, <2>1, <2>2 DEF LoopInv, SlicesStay, InboxStays
<1>4. CASE Decide
  <2>1. /\ at[0] = "ready" /\ at' = [at EXCEPT ![0] = "sharing"]
        /\ UNCHANGED <<left, closed, inbox>>
    BY <1>4 DEF Decide, closeVars
  <2>2. /\ \A d \in Ranks : InboxStays(d)
        /\ decision'.action # "step" => \A d \in Ranks : Slice(d)' = {}
    BY <1>1, <1>4, DecideEffect
  <2> QED
    BY <1>1, <1>2, <2>1, <2>2 DEF LoopInv, InboxStays
<1>5. CASE Share
  <2>1. closed' = closed /\ decision' = NoDecision
    BY <1>5 DEF Share, closeVars
  <2>2. /\ at[0] = "sharing" /\ inbox'[0] = <<>> /\ \A d \in Ranks : Slice(d)' = {}
        /\ at'[0] \in {"stopped", "pulling", "ready", "stepping"}
        /\ at'[0] = "stepping" => left'[0] = Burst
        /\ \A d \in Peers : at'[d] = at[d] /\ left'[d] = left[d]
    BY <1>1, <1>5, ShareEffect
  <2>3. \A d \in Peers : \E last \in Nat : InboxGrows(d, last)
    BY <1>1, <1>5, ShareEffect
  <2>4. \A d \in Ranks : \A i \in DOMAIN inbox'[d] :
            inbox'[d][i].action # "step" => Sent(d, i)' = {}
    BY <1>1, <2>2, <2>3 DEF LoopInv, InboxGrows
  <2> QED
    BY <1>1, <1>2, <2>1, <2>2, <2>4 DEF LoopInv
<1>6. ASSUME NEW p \in Peers, Take(p)
      PROVE  LoopInv'
  <2>1. UNCHANGED <<closed, decision>>
    BY <1>6 DEF Take, closeVars
  <2>2. /\ at[p] = "ready" /\ at'[p] \in {"stopped", "pulling", "ready", "stepping"}
        /\ at'[p] = "stepping" => left'[p] = Burst
        /\ SlicesStay
        /\ \A d \in Ranks : d # p => at'[d] = at[d] /\ left'[d] = left[d] /\ InboxStays(d)
    BY <1>1, <1>6, TakeEffect
  <2>3. InboxShrinks(p)
    BY <1>1, <1>6, TakeEffect
  <2>4. \A d \in Ranks : \A i \in DOMAIN inbox'[d] :
            inbox'[d][i].action # "step" => Sent(d, i)' = {}
    BY <1>1, <2>2, <2>3 DEF LoopInv, InboxShrinks, InboxStays
  <2>5. inbox'[0] = <<>> /\ (decision.action # "step" => \A d \in Ranks : Slice(d)' = {})
    BY <1>1, <2>2 DEF LoopInv, InboxStays, SlicesStay
  <2> QED
    BY <1>1, <1>2, <2>1, <2>2, <2>4, <2>5 DEF LoopInv
<1>7. ASSUME NEW e \in Ranks, EngineStep(e)
      PROVE  LoopInv'
  <2>1. SlicesStay /\ \A d \in Ranks : InboxStays(d)
    BY <1>1, <1>7, EngineStepEffect
  <2>2. /\ at[e] = "stepping" /\ UNCHANGED <<closed, decision, inbox>>
        /\ left' = [left EXCEPT ![e] = @ - 1]
        /\ \/ at' = [at EXCEPT ![e] = "ready"]
           \/ at' = [at EXCEPT ![e] = "stepping"] /\ left[e] # 1
    BY <1>7 DEF EngineStep, closeVars
  <2>3. /\ at'[e] \in {"ready", "stepping"} /\ (at'[e] = "stepping" => left'[e] >= 1)
        /\ \A d \in Ranks : d # e => at'[d] = at[d] /\ left'[d] = left[d]
    <3>1. left[e] \in Nat /\ left[e] >= 1 /\ left'[e] = left[e] - 1
      BY <1>1, <1>2, <2>2 DEF LoopInv
    <3>2. left[e] # 1 => left'[e] >= 1
      BY <3>1
    <3> QED
      BY <1>2, <2>2, <3>2
  <2> QED
    BY <1>1, <1>2, <2>1, <2>2, <2>3 DEF LoopInv, SlicesStay, InboxStays
<1>8. CASE Drain
  <2>1. SlicesStay /\ \A d \in Ranks : InboxStays(d)
    BY <1>1, <1>8, DrainEffect
  <2>2. UNCHANGED <<at, left, closed, inbox, decision>>
    BY <1>8 DEF Drain, loopVars, closeVars
  <2> QED
    BY <1>1, <2>1, <2>2 DEF LoopInv, SlicesStay, InboxStays
<1>9. CASE Elsewhere
  <2>1. PlacesStay /\ UNCHANGED <<left, inbox, decision>>
    BY <1>1, <1>9, ElsewhereEffect
  <2>2. \/ UNCHANGED <<at, closed>>
        \/ \E d \in Ranks : at' = [at EXCEPT ![d] = "crashed"] /\ UNCHANGED closed
        \/ \E d \in Ranks : /\ at[d] = "pulling" /\ at' = [at EXCEPT ![d] = "ready"]
                            /\ UNCHANGED closed
        \/ \E d \in Ranks : /\ ~Running(d) /\ closed' = [closed EXCEPT ![d] = TRUE]
                            /\ UNCHANGED at
    BY <1>1, <1>9, ElsewhereEffect DEF ElsewhereCases
  <2>3. /\ decision'.action # "step" => \A d \in Ranks : Slice(d)' = {}
        /\ \A d \in Ranks : \A i \in DOMAIN inbox'[d] :
            inbox'[d][i].action # "step" => Sent(d, i)' = {}
        /\ inbox'[0] = <<>>
    BY <1>1, <2>1 DEF LoopInv, PlacesStay, SlicesStay, InboxStays
  <2>4. /\ \A d \in Peers : at'[d] # "sharing"
        /\ \A d \in Ranks : at'[d] = "stepping" => left'[d] >= 1
        /\ \A d \in Ranks : closed'[d] => at'[d] \in {"stopped", "crashed"}
        /\ at'[0] \notin {"sharing", "crashed"} => at[0] \notin {"sharing", "crashed"}
    BY <1>1, <1>2, <2>1, <2>2 DEF LoopInv
  <2> QED
    BY <1>1, <2>1, <2>3, <2>4 DEF LoopInv
<1> QED
  BY <1>3, <1>4, <1>5, <1>6, <1>7, <1>8, <1>9, Steps

LEMMA DoneRequests ==
    ASSUME NEW d, NEW finished
    PROVE  {c.request : c \in Done(d, finished)} = finished
<1>1. \A c \in Done(d, finished) : c.request \in finished
  BY DEF Done, Completion
<1>2. ASSUME NEW r \in finished
      PROVE  \E c \in Done(d, finished) : c.request = r
  <2>1. Completion(r, version[d]) \in Done(d, finished)
    BY DEF Done
  <2>2. Completion(r, version[d]).request = r
    BY DEF Completion
  <2> QED
    BY <2>1, <2>2
<1> QED
  BY <1>1, <1>2

\* What is given back when rank 0 resolves requests rs.
Resolved(rs) ==
    /\ call' = [r \in Requests |-> IF r \in rs THEN "returned" ELSE call[r]]
    /\ futures' = futures \ rs
    /\ reserved' = [r \in Requests |-> IF r \in rs THEN None ELSE reserved[r]]
    /\ load' = [d \in Ranks |-> load[d] - Cardinality({r \in rs : reserved[r] = d})]
    /\ UNCHANGED minVersion

LEMMA ResolveEffect ==
    ASSUME NEW done, Resolve(done)
    PROVE  Resolved({c.request : c \in done})
BY Zenon DEF Resolve, Resolved

LEMMA ReservedKeeps == IInv /\ [Next]_vars => ReservedInv'
<1> SUFFICES ASSUME IInv, [Next]_vars
             PROVE  ReservedInv'
  OBVIOUS
<1> USE PlaceTypes
<1>1. TypeOK /\ LoopInv /\ ReservedInv /\ ApartInv /\ CallInv
  BY DEF IInv
<1>2. /\ reserved \in [Requests -> Ranks \cup {None}]
      /\ call \in [Requests -> {"new", "waiting", "returned", "failed", "refused"}]
  BY <1>1 DEF TypeOK
<1>3. ASSUME NEW r \in Requests, Generate(r)
      PROVE  ReservedInv'
  <2>1. reserved' = reserved
    BY <1>3 DEF Generate, routerVars
  <2>2. /\ call[r] = "new" /\ SlicesStay /\ PortStays
        /\ \A d \in Ranks : BatchStays(d) /\ InboxStays(d)
        /\ InQueue' \subseteq InQueue \cup {r}
        /\ \A q \in Requests : call'[q] = "new" => call[q] = "new"
    BY <1>1, <1>2, <1>3, GenerateEffect DEF QueueStays
  <2> QED
    BY <1>1, <2>1, <2>2 DEF ReservedInv, SlicesStay, PortStays, BatchStays, InboxStays
<1>4. CASE Decide
  <2>1. call' = call
    BY <1>4 DEF Decide, callerVars
  <2>2. PortStays /\ \A d \in Ranks : BatchStays(d) /\ InboxStays(d)
    BY <1>1, <1>4, DecideEffect
  <2>3. CASE QueueStays /\ reserved' = reserved /\ \A d \in Ranks : Slice(d)' = {}
    BY <1>1, <2>1, <2>2, <2>3 DEF ReservedInv, QueueStays, PortStays, BatchStays, InboxStays
  <2>4. ASSUME NEW where \in [InQueue -> Ranks], InQueue' = {}, Reserve(where),
               \A d \in Ranks : Slice(d)' = {r \in InQueue : where[r] = d}
        PROVE  ReservedInv'
    <3>1. \A r \in Requests : reserved'[r] = IF r \in InQueue THEN where[r] ELSE reserved[r]
      BY <2>4 DEF Reserve
    <3>2. \A r \in Requests : call[r] = "new" => r \notin InQueue
      BY <1>1 DEF CallInv, Somewhere
    <3>3. \A r \in Requests : reserved[r] # None => r \notin InQueue
      BY <1>1 DEF ReservedInv
    <3>4. \A d \in Ranks : \A r \in Slice(d)' : reserved'[r] = d
      BY <1>1, <2>4, <3>1
    <3>5. \A r \in Requests : reserved[r] # None => reserved'[r] = reserved[r]
      BY <3>1, <3>3
    <3>6. \A r \in Requests : call'[r] = "new" => reserved'[r] = None
      BY <1>1, <2>1, <3>1, <3>2 DEF ReservedInv
    <3>7. \A d \in Ranks : d # None
      BY <1>1
    <3> QED
      BY <1>1, <2>2, <2>4, <3>4, <3>5, <3>6, <3>7
         DEF ReservedInv, PortStays, BatchStays, InboxStays
  <2> QED
    BY <1>1, <1>4, <2>3, <2>4, DecideEffect
<1>5. CASE Share
  <2>1. UNCHANGED <<call, reserved>>
    BY <1>5 DEF Share, routerVars
  <2>2. /\ QueueStays /\ PortStays /\ \A d \in Ranks : Slice(d)' = {}
        /\ Batch(0)' = Batch(0) \cup Slice(0) /\ inbox'[0] = <<>>
        /\ \A d \in Peers : BatchStays(d)
    BY <1>1, <1>5, ShareEffect
  <2>3. \A d \in Peers : \E last \in Nat : InboxGrows(d, last)
    BY <1>1, <1>5, ShareEffect
  <2>4. \A d \in Ranks : \A i \in DOMAIN inbox'[d] : \A r \in Sent(d, i)' : reserved[r] = d
    BY <1>1, <2>2, <2>3 DEF ReservedInv, InboxGrows
  <2>5. \A d \in Ranks : \A r \in Batch(d)' : reserved[r] = d
    BY <1>1, <2>2 DEF ReservedInv, BatchStays
  <2> QED
    BY <1>1, <2>1, <2>2, <2>4, <2>5 DEF ReservedInv, QueueStays, PortStays
<1>6. ASSUME NEW p \in Peers, Take(p)
      PROVE  ReservedInv'
  <2>1. UNCHANGED <<call, reserved>>
    BY <1>6 DEF Take, callerVars, routerVars
  <2>2. /\ QueueStays /\ SlicesStay /\ PortStays /\ InboxShrinks(p)
        /\ Batch(p)' = Batch(p) \cup Sent(p, 1)
        /\ \A d \in Ranks : d # p => BatchStays(d) /\ InboxStays(d)
    BY <1>1, <1>6, TakeEffect
  <2>3. \A d \in Ranks : \A i \in DOMAIN inbox'[d] : \A r \in Sent(d, i)' : reserved[r] = d
    BY <1>1, <2>2 DEF ReservedInv, InboxShrinks, InboxStays
  <2>4. \A d \in Ranks : \A r \in Batch(d)' : reserved[r] = d
    BY <1>1, <2>2 DEF ReservedInv, BatchStays, InboxShrinks
  <2> QED
    BY <1>1, <2>1, <2>2, <2>3, <2>4 DEF ReservedInv, QueueStays, SlicesStay, PortStays
<1>7. ASSUME NEW e \in Ranks, EngineStep(e)
      PROVE  ReservedInv'
  <2>1. /\ QueueStays /\ SlicesStay
        /\ \A d \in Ranks : InboxStays(d) /\ (d # e => BatchStays(d))
        /\ Scheduled(e) \subseteq Batch(e)
    BY <1>1, <1>7, EngineStepEffect
  <2>2. PICK finished \in SUBSET Scheduled(e) :
            /\ Batch(e)' = Batch(e) \ finished
            /\ \/ e = 0 /\ Resolve(Done(e, finished)) /\ PortStays
               \/ /\ e # 0 /\ UNCHANGED <<callerVars, routerVars>>
                  /\ finished = {} => PortStays
                  /\ finished # {} => \E last \in Nat : PortGrows(Done(e, finished), last)
    BY <1>1, <1>7, EngineStepEffect
  <2>3. CASE e = 0
    <3>1. Resolved(finished) /\ PortStays
      BY <2>2, <2>3, ResolveEffect, DoneRequests
    <3>2. \A r \in Requests : /\ reserved'[r] = IF r \in finished THEN None ELSE reserved[r]
                              /\ call'[r] = "new" => call[r] = "new"
      BY <3>1 DEF Resolved
    <3>3. ASSUME NEW r \in finished
          PROVE  /\ \A d \in Ranks : r \notin Slice(d) /\ r \notin Batch(d)'
                 /\ \A d \in Ranks : \A i \in DOMAIN inbox[d] : r \notin Sent(d, i)
                 /\ \A i \in DOMAIN port : r \notin Finished(i)
      <4>1. r \in Batch(0) /\ r \notin Batch(0)' /\ reserved[r] = 0
        BY <1>1, <2>1, <2>2, <2>3 DEF ReservedInv
      <4>2. \A d \in Ranks : r \in Slice(d) \/ r \in Batch(d) => d = 0
        BY <1>1, <4>1 DEF ReservedInv
      <4>3. \A d \in Ranks : \A i \in DOMAIN inbox[d] : r \in Sent(d, i) => d = 0
        BY <1>1, <4>1 DEF ReservedInv
      <4>4. \A d \in Ranks : r \notin Batch(d)'
        BY <2>1, <2>3, <4>1, <4>2 DEF BatchStays
      <4> QED
        BY <1>1, <4>1, <4>2, <4>3, <4>4 DEF ApartInv
    <3> QED
      BY <1>1, <2>1, <2>2, <2>3, <3>1, <3>2, <3>3
         DEF ReservedInv, QueueStays, SlicesStay, PortStays, BatchStays, InboxStays
  <2>4. CASE e # 0
    <3>1. UNCHANGED <<call, reserved>>
      BY <2>2, <2>4 DEF callerVars, routerVars
    <3>2. \A i \in DOMAIN port' : \A r \in Finished(i)' : reserved[r] # None
      <4>1. CASE finished = {}
        BY <1>1, <2>2, <2>4, <4>1 DEF ReservedInv, PortStays
      <4>2. CASE finished # {}
        <5>1. PICK last \in Nat : PortGrows(Done(e, finished), last)
          BY <2>2, <2>4, <4>2
        <5>2. Finished(last)' = finished
          BY <5>1, DoneRequests DEF PortGrows
        <5>3. \A r \in finished : reserved[r] # None
          BY <1>1, <2>1, <2>2 DEF ReservedInv
        <5> QED
          BY <1>1, <5>1, <5>2, <5>3 DEF ReservedInv, PortGrows
      <4> QED
        BY <4>1, <4>2
    <3>3. \A d \in Ranks : \A r \in Batch(d)' : reserved[r] = d
      BY <1>1, <2>1, <2>2 DEF ReservedInv, BatchStays
    <3> QED
      BY <1>1, <2>1, <3>1, <3>2, <3>3
         DEF ReservedInv, QueueStays, SlicesStay, InboxStays
  <2> QED
    BY <2>3, <2>4
<1>8. CASE Drain
  <2>1. /\ QueueStays /\ SlicesStay /\ PortShrinks
        /\ \A d \in Ranks : InboxStays(d) /\ BatchStays(d)
        /\ \/ Finished(1) \subseteq futures /\ Resolve(port[1])
           \/ ~(Finished(1) \subseteq futures) /\ UNCHANGED <<callerVars, routerVars>>
    BY <1>1, <1>8, DrainEffect
  <2>2. CASE Resolve(port[1])
    <3>1. Resolved(Finished(1))
      BY <2>2, ResolveEffect DEF Finished
    <3>2. \A r \in Requests : /\ reserved'[r] = IF r \in Finished(1) THEN None ELSE reserved[r]
                              /\ call'[r] = "new" => call[r] = "new"
      BY <3>1 DEF Resolved
    <3>3. ASSUME NEW r \in Finished(1)
          PROVE  /\ \A d \in Ranks : r \notin Slice(d) /\ r \notin Batch(d)
                 /\ \A d \in Ranks : \A i \in DOMAIN inbox[d] : r \notin Sent(d, i)
                 /\ \A i \in DOMAIN port' : r \notin Finished(i)'
      BY <1>1, <2>1 DEF ApartInv, PortShrinks
    <3>4. \A i \in DOMAIN port' : \A r \in Finished(i)' : reserved[r] # None
      BY <1>1, <2>1 DEF ReservedInv, PortShrinks
    <3>5. \A i \in DOMAIN port' : Finished(i)' \subseteq Requests
      BY <1>1, <2>1 DEF PortShrinks
    <3>6. \A i \in DOMAIN port' : \A r \in Finished(i)' : reserved'[r] # None
      BY <3>2, <3>3, <3>4, <3>5
    <3>7. \A r \in Requests : call'[r] = "new" => reserved'[r] = None
      BY <1>1, <3>2 DEF ReservedInv
    <3> QED
      BY <1>1, <2>1, <3>2, <3>3, <3>6, <3>7
         DEF ReservedInv, QueueStays, SlicesStay, BatchStays, InboxStays
  <2>3. CASE UNCHANGED <<callerVars, routerVars>>
    BY <1>1, <2>1, <2>3
       DEF ReservedInv, QueueStays, SlicesStay, BatchStays, InboxStays, PortShrinks, callerVars,
           routerVars
  <2> QED
    BY <2>1, <2>2, <2>3
<1>9. CASE Elsewhere
  <2>1. PlacesStay /\ reserved' = reserved
    BY <1>1, <1>9, ElsewhereEffect
  <2>2. \A r \in Requests : call'[r] = "new" => call[r] = "new"
    BY <1>1, <1>9, ElsewhereEffect DEF ElsewhereCases, FailOutstanding
  <2> QED
    BY <1>1, <2>1, <2>2
       DEF ReservedInv, PlacesStay, QueueStays, SlicesStay, BatchStays, InboxStays, PortStays
<1> QED
  BY <1>3, <1>4, <1>5, <1>6, <1>7, <1>8, <1>9, Steps

\* A request at a station of rank d is at no station of another rank, nor in
\* the queue.
LEMMA ApartFacts ==
    ASSUME TypeOK, ReservedInv, ApartInv, NEW r, NEW d \in Ranks
    PROVE  /\ r \in Slice(d) \/ r \in Batch(d) \/ (\E i \in DOMAIN inbox[d] : r \in Sent(d, i)) =>
                 /\ r \notin InQueue
                 /\ \A e \in Ranks : e # d =>
                        /\ r \notin Slice(e) /\ r \notin Batch(e)
                        /\ \A i \in DOMAIN inbox[e] : r \notin Sent(e, i)
                 /\ \A i \in DOMAIN port : r \notin Finished(i)
           /\ r \in Batch(d) => /\ r \notin Slice(d)
                                /\ \A i \in DOMAIN inbox[d] : r \notin Sent(d, i)
<1>1. d # None
  BY PlaceTypes
<1>2. /\ r \in Slice(d) \/ r \in Batch(d) \/ (\E i \in DOMAIN inbox[d] : r \in Sent(d, i)) =>
           reserved[r] = d
      /\ r \in InQueue => reserved[r] = None
      /\ \A e \in Ranks : r \in Slice(e) \/ r \in Batch(e) => reserved[r] = e
      /\ \A e \in Ranks : \A i \in DOMAIN inbox[e] : r \in Sent(e, i) => reserved[r] = e
  BY DEF ReservedInv
<1>3. /\ r \in Batch(d) => /\ r \notin Slice(d)
                           /\ \A i \in DOMAIN inbox[d] : r \notin Sent(d, i)
      /\ r \in Slice(d) \/ r \in Batch(d) \/ (\E i \in DOMAIN inbox[d] : r \in Sent(d, i)) =>
            \A i \in DOMAIN port : r \notin Finished(i)
  BY DEF ApartInv
<1> QED
  BY <1>1, <1>2, <1>3

LEMMA ApartKeeps == IInv /\ [Next]_vars => ApartInv'
<1> SUFFICES ASSUME IInv, [Next]_vars
             PROVE  ApartInv'
  OBVIOUS
<1> USE PlaceTypes
<1>1. TypeOK /\ LoopInv /\ ReservedInv /\ ApartInv /\ CallInv
  BY DEF IInv
<1>2. CASE Decide
  <2>1. PortStays /\ \A d \in Ranks : BatchStays(d) /\ InboxStays(d)
    BY <1>1, <1>2, DecideEffect
  <2>2. \A d \in Ranks : Slice(d)' \subseteq InQueue
    BY <1>1, <1>2, DecideEffect
  <2>3. /\ \A d \in Ranks : Batch(d) \cap InQueue = {}
        /\ \A d \in Ranks : \A i \in DOMAIN inbox[d] : Sent(d, i) \cap InQueue = {}
        /\ \A i \in DOMAIN port : Finished(i) \cap InQueue = {}
    BY <1>1 DEF ReservedInv
  <2> QED
    BY <1>1, <2>1, <2>2, <2>3 DEF ApartInv, PortStays, BatchStays, InboxStays
<1>3. CASE Share
  <2>1. /\ PortStays /\ \A d \in Ranks : Slice(d)' = {}
        /\ Batch(0)' = Batch(0) \cup Slice(0) /\ inbox'[0] = <<>>
        /\ \A d \in Peers : BatchStays(d)
    BY <1>1, <1>3, ShareEffect
  <2>2. \A d \in Peers : \E last \in Nat : InboxGrows(d, last)
    BY <1>1, <1>3, ShareEffect
  <2>3. \A i \in DOMAIN port' : \A d \in Ranks : Finished(i)' \cap Batch(d)' = {}
    BY <1>1, <2>1 DEF ApartInv, PortStays, BatchStays
  <2>4. ASSUME NEW d \in Ranks, NEW i \in DOMAIN inbox'[d]
        PROVE  /\ Sent(d, i)' \cap Batch(d)' = {}
               /\ \A j \in DOMAIN inbox'[d] : i # j => Sent(d, i)' \cap Sent(d, j)' = {}
               /\ \A k \in DOMAIN port' : Finished(k)' \cap Sent(d, i)' = {}
    <3>1. d \in Peers /\ BatchStays(d)
      BY <1>1, <2>1, <2>4
    <3>2. PICK last \in Nat : InboxGrows(d, last)
      BY <2>2, <3>1
    <3> QED
      BY <1>1, <2>1, <3>1, <3>2 DEF ApartInv, InboxGrows, BatchStays, PortStays
  <2>5. \A i, j \in DOMAIN port' : i # j => Finished(i)' \cap Finished(j)' = {}
    BY <1>1, <2>1 DEF ApartInv, PortStays
  <2> QED
    BY <2>1, <2>3, <2>4, <2>5 DEF ApartInv
<1>4. ASSUME NEW p \in Peers, Take(p)
      PROVE  ApartInv'
  <2>1. /\ SlicesStay /\ PortStays /\ InboxShrinks(p)
        /\ Batch(p)' = Batch(p) \cup Sent(p, 1)
        /\ \A d \in Ranks : d # p => BatchStays(d) /\ InboxStays(d)
    BY <1>1, <1>4, TakeEffect
  <2>2. \A d \in Ranks : Batch(d)' \cap Slice(d)' = {}
    BY <1>1, <2>1 DEF ApartInv, SlicesStay, BatchStays, InboxShrinks
  <2>3. \A i \in DOMAIN port' : \A d \in Ranks : Finished(i)' \cap Slice(d)' = {} /\ Finished(i)' \cap Batch(d)' = {}
    BY <1>1, <2>1 DEF ApartInv, SlicesStay, PortStays, BatchStays, InboxShrinks
  <2>4. ASSUME NEW d \in Ranks, NEW i \in DOMAIN inbox'[d]
        PROVE  /\ Sent(d, i)' \cap Slice(d)' = {}
               /\ Sent(d, i)' \cap Batch(d)' = {}
               /\ \A j \in DOMAIN inbox'[d] : i # j => Sent(d, i)' \cap Sent(d, j)' = {}
               /\ \A k \in DOMAIN port' : Finished(k)' \cap Sent(d, i)' = {}
    <3>1. CASE d # p
      BY <1>1, <2>1, <3>1 DEF ApartInv, InboxStays, BatchStays, SlicesStay, PortStays
    <3>2. CASE d = p
      <4>1. /\ i \in Nat /\ i + 1 \in DOMAIN inbox[p] /\ i + 1 # 1 /\ Sent(p, i)' = Sent(p, i + 1)
            /\ 1 \in DOMAIN inbox[p]
        BY <2>1, <2>4, <3>2 DEF InboxShrinks
      <4>2. \A j \in DOMAIN inbox'[p] : i # j =>
                /\ j + 1 \in DOMAIN inbox[p] /\ i + 1 # j + 1 /\ Sent(p, j)' = Sent(p, j + 1)
        BY <2>1, <4>1 DEF InboxShrinks
      <4> QED
        BY <1>1, <2>1, <3>2, <4>1, <4>2 DEF ApartInv, SlicesStay, PortStays
    <3> QED
      BY <3>1, <3>2
  <2>5. \A i, j \in DOMAIN port' : i # j => Finished(i)' \cap Finished(j)' = {}
    BY <1>1, <2>1 DEF ApartInv, PortStays
  <2> QED
    BY <2>2, <2>3, <2>4, <2>5 DEF ApartInv
<1>5. ASSUME NEW e \in Ranks, EngineStep(e)
      PROVE  ApartInv'
  <2>1. /\ SlicesStay
        /\ \A d \in Ranks : InboxStays(d) /\ (d # e => BatchStays(d))
        /\ Scheduled(e) \subseteq Batch(e)
    BY <1>1, <1>5, EngineStepEffect
  <2>2. PICK finished \in SUBSET Scheduled(e) :
            /\ Batch(e)' = Batch(e) \ finished
            /\ \/ PortStays
               \/ \E last \in Nat : PortGrows(Done(e, finished), last)
    BY <1>1, <1>5, EngineStepEffect
  <2>3. /\ \A d \in Ranks : Batch(d)' \subseteq Batch(d)
        /\ \A d \in Ranks : Batch(d)' \cap finished = {}
    BY <1>1, <2>1, <2>2, ApartFacts DEF BatchStays
  <2>4. /\ \A d \in Ranks : Slice(d) \cap finished = {}
        /\ \A d \in Ranks : \A i \in DOMAIN inbox[d] : Sent(d, i) \cap finished = {}
        /\ \A i \in DOMAIN port : Finished(i) \cap finished = {}
    <3> SUFFICES ASSUME NEW r \in finished
                 PROVE  /\ \A d \in Ranks : r \notin Slice(d)
                        /\ \A d \in Ranks : \A i \in DOMAIN inbox[d] : r \notin Sent(d, i)
                        /\ \A i \in DOMAIN port : r \notin Finished(i)
      OBVIOUS
    <3>1. r \in Batch(e)
      BY <2>1, <2>2
    <3> QED
      BY <1>1, <3>1, ApartFacts
  <2>5. CASE PortStays
    BY <1>1, <2>1, <2>3, <2>5 DEF ApartInv, SlicesStay, InboxStays, PortStays
  <2>6. CASE \E last \in Nat : PortGrows(Done(e, finished), last)
    <3>1. PICK last \in Nat : PortGrows(Done(e, finished), last)
      BY <2>6
    <3>2. Finished(last)' = finished
      BY <3>1, DoneRequests DEF PortGrows
    <3>3. \A i \in DOMAIN port' : i # last => i \in DOMAIN port /\ Finished(i)' = Finished(i)
      BY <3>1 DEF PortGrows
    <3>4. \A i \in DOMAIN port' : \A d \in Ranks :
            /\ Finished(i)' \cap Slice(d)' = {}
            /\ Finished(i)' \cap Batch(d)' = {}
            /\ \A j \in DOMAIN inbox'[d] : Finished(i)' \cap Sent(d, j)' = {}
      BY <1>1, <2>1, <2>3, <2>4, <3>2, <3>3 DEF ApartInv, SlicesStay, InboxStays
    <3>5. \A i, j \in DOMAIN port' : i # j => Finished(i)' \cap Finished(j)' = {}
      BY <1>1, <2>4, <3>2, <3>3 DEF ApartInv
    <3> QED
      BY <1>1, <2>1, <2>3, <3>4, <3>5 DEF ApartInv, SlicesStay, InboxStays
  <2> QED
    BY <2>2, <2>5, <2>6
<1>6. CASE Drain
  <2>1. SlicesStay /\ PortShrinks /\ \A d \in Ranks : InboxStays(d) /\ BatchStays(d)
    BY <1>1, <1>6, DrainEffect
  <2>2. \A i, j \in DOMAIN port' : i # j => Finished(i)' \cap Finished(j)' = {}
    <3> TAKE i, j \in DOMAIN port'
    <3>1. /\ i \in Nat /\ j \in Nat /\ i + 1 \in DOMAIN port /\ j + 1 \in DOMAIN port
          /\ Finished(i)' = Finished(i + 1) /\ Finished(j)' = Finished(j + 1)
      BY <2>1 DEF PortShrinks
    <3>2. i # j => i + 1 # j + 1
      BY <3>1
    <3> QED
      BY <1>1, <3>1, <3>2 DEF ApartInv
  <2> QED
    BY <1>1, <2>1, <2>2 DEF ApartInv, SlicesStay, PortShrinks, InboxStays, BatchStays
<1>7. CASE (\E r \in Requests : Generate(r)) \/ Elsewhere
  <2>1. SlicesStay /\ PortStays /\ \A d \in Ranks : InboxStays(d) /\ BatchStays(d)
    BY <1>1, <1>7, GenerateEffect, ElsewhereEffect DEF PlacesStay
  <2> QED
    BY <1>1, <2>1 DEF ApartInv, SlicesStay, PortStays, InboxStays, BatchStays
<1> QED
  BY <1>2, <1>3, <1>4, <1>5, <1>6, <1>7, Steps

\* Only the actions that answer a call take a request from its place.
LEMMA SomewhereStays ==
    ASSUME IInv, Decide \/ Share \/ (\E d \in Peers : Take(d)) \/ Elsewhere, NEW q \in Requests
    PROVE  Somewhere(q)' <=> Somewhere(q)
<1> USE PlaceTypes
<1>1. TypeOK /\ LoopInv
  BY DEF IInv
<1>2. CASE Decide
  <2>1. PortStays /\ \A d \in Ranks : BatchStays(d) /\ InboxStays(d)
    BY <1>1, <1>2, DecideEffect
  <2>2. \A d \in Ranks : Slice(d) = {}
    BY <1>1, <1>2, EmptyElements
       DEF Decide, LoopInv, Slice, NoDecision, Decision, NoSlices
  <2>3. \/ QueueStays /\ \A d \in Ranks : Slice(d)' = {}
        \/ /\ InQueue' = {} /\ \A d \in Ranks : Slice(d)' \subseteq InQueue
           /\ \A r \in InQueue : \E d \in Ranks : r \in Slice(d)'
    <3>1. CASE QueueStays /\ \A d \in Ranks : Slice(d)' = {}
      BY <3>1
    <3>2. ASSUME NEW where \in [InQueue -> Ranks], InQueue' = {},
                 \A d \in Ranks : Slice(d)' = {r \in InQueue : where[r] = d}
          PROVE  /\ \A d \in Ranks : Slice(d)' \subseteq InQueue
                 /\ \A r \in InQueue : \E d \in Ranks : r \in Slice(d)'
      <4>1. \A r \in InQueue : where[r] \in Ranks /\ r \in Slice(where[r])'
        BY <3>2
      <4> QED
        BY <3>2, <4>1
    <3> QED
      BY <1>1, <1>2, <3>1, <3>2, DecideEffect
  <2>4. q \in InQueue \/ (\E d \in Ranks : q \in Slice(d)) <=>
            q \in InQueue' \/ (\E d \in Ranks : q \in Slice(d)')
    BY <2>2, <2>3 DEF QueueStays
  <2> QED
    BY <2>1, <2>4 DEF Somewhere, PortStays, BatchStays, InboxStays
<1>3. CASE Share
  <2>1. /\ QueueStays /\ PortStays /\ \A d \in Ranks : Slice(d)' = {}
        /\ Batch(0)' = Batch(0) \cup Slice(0) /\ inbox'[0] = <<>>
        /\ \A d \in Peers : BatchStays(d)
    BY <1>1, <1>3, ShareEffect
  <2>2. \A d \in Peers : \E last \in Nat : InboxGrows(d, last)
    BY <1>1, <1>3, ShareEffect
  <2>3. inbox[0] = <<>>
    BY <1>1 DEF LoopInv
  <2> DEFINE At(d) == q \in Slice(d) \/ q \in Batch(d) \/ \E i \in DOMAIN inbox[d] : q \in Sent(d, i)
             AtNext(d) == q \in Batch(d)' \/ \E i \in DOMAIN inbox'[d] : q \in Sent(d, i)'
  <2>4. ASSUME NEW d \in Ranks
        PROVE  At(d) <=> AtNext(d)
    <3>1. CASE d = 0
      BY <2>1, <2>3, <3>1
    <3>2. CASE d # 0
      <4>1. d \in Peers /\ BatchStays(d)
        BY <1>1, <2>1, <3>2
      <4>2. PICK last \in Nat : InboxGrows(d, last)
        BY <2>2, <4>1
      <4> QED
        BY <4>1, <4>2 DEF InboxGrows, BatchStays
    <3> QED
      BY <3>1, <3>2
  <2>5. Somewhere(q) <=> \/ q \in InQueue
                         \/ \E d \in Ranks : At(d)
                         \/ \E i \in DOMAIN port : q \in Finished(i)
    BY DEF Somewhere
  <2>6. Somewhere(q)' <=> \/ q \in InQueue'
                          \/ \E d \in Ranks : AtNext(d)
                          \/ \E i \in DOMAIN port' : q \in Finished(i)'
    BY <2>1 DEF Somewhere
  <2> HIDE DEF At, AtNext
  <2> QED
    BY <2>1, <2>4, <2>5, <2>6 DEF QueueStays, PortStays
<1>4. ASSUME NEW p \in Peers, Take(p)
      PROVE  Somewhere(q)' <=> Somewhere(q)
  <2>1. /\ QueueStays /\ SlicesStay /\ PortStays /\ InboxShrinks(p)
        /\ Batch(p)' = Batch(p) \cup Sent(p, 1)
        /\ \A d \in Ranks : d # p => BatchStays(d) /\ InboxStays(d)
    BY <1>1, <1>4, TakeEffect
  <2> DEFINE At(d) == q \in Batch(d) \/ \E i \in DOMAIN inbox[d] : q \in Sent(d, i)
             AtNext(d) == q \in Batch(d)' \/ \E i \in DOMAIN inbox'[d] : q \in Sent(d, i)'
  <2>2. ASSUME NEW d \in Ranks
        PROVE  At(d) <=> AtNext(d)
    <3>1. CASE d # p
      BY <2>1, <3>1 DEF BatchStays, InboxStays
    <3>2. CASE d = p
      <4>1. (\E i \in DOMAIN inbox[p] : q \in Sent(p, i)) <=>
                q \in Sent(p, 1) \/ \E i \in DOMAIN inbox'[p] : q \in Sent(p, i)'
        BY <2>1 DEF InboxShrinks
      <4> QED
        BY <2>1, <3>2, <4>1
    <3> QED
      BY <3>1, <3>2
  <2>3. Somewhere(q) <=> \/ q \in InQueue
                         \/ \E d \in Ranks : q \in Slice(d)
                         \/ \E d \in Ranks : At(d)
                         \/ \E i \in DOMAIN port : q \in Finished(i)
    BY DEF Somewhere
  <2>4. Somewhere(q)' <=> \/ q \in InQueue'
                          \/ \E d \in Ranks : q \in Slice(d)'
                          \/ \E d \in Ranks : AtNext(d)
                          \/ \E i \in DOMAIN port' : q \in Finished(i)'
    BY DEF Somewhere
  <2> HIDE DEF At, AtNext
  <2> QED
    BY <2>1, <2>2, <2>3, <2>4 DEF QueueStays, SlicesStay, PortStays
<1>5. CASE Elsewhere
  <2>1. PlacesStay
    BY <1>1, <1>5, ElsewhereEffect
  <2> QED
    BY <2>1 DEF Somewhere, PlacesStay, QueueStays, SlicesStay, PortStays, BatchStays, InboxStays
<1> QED
  BY <1>2, <1>3, <1>4, <1>5

\* What rank 0 finishes is nowhere then; what a peer finishes is on the port.
LEMMA SomewhereStep ==
    ASSUME IInv, NEW e \in Ranks, EngineStep(e), NEW finished \in SUBSET Scheduled(e),
           Batch(e)' = Batch(e) \ finished, NEW q \in Requests
    PROVE  /\ PortStays => (Somewhere(q)' <=> Somewhere(q) /\ q \notin finished)
           /\ \A last \in Nat : PortGrows(Done(e, finished), last) =>
                    (Somewhere(q)' <=> Somewhere(q))
<1>1. TypeOK /\ ReservedInv /\ ApartInv
  BY DEF IInv
<1>2. /\ QueueStays /\ SlicesStay
      /\ \A d \in Ranks : InboxStays(d) /\ (d # e => BatchStays(d))
      /\ finished \subseteq Batch(e)
  BY <1>1, EngineStepEffect
<1> DEFINE Other == \/ q \in InQueue
                    \/ \E d \in Ranks : q \in Slice(d)
                    \/ \E d \in Ranks : d # e /\ q \in Batch(d)
                    \/ \E d \in Ranks : \E i \in DOMAIN inbox[d] : q \in Sent(d, i)
           InPort == \E i \in DOMAIN port : q \in Finished(i)
           InPortNext == \E i \in DOMAIN port' : q \in Finished(i)'
<1>3. Somewhere(q) <=> Other \/ q \in Batch(e) \/ InPort
  BY DEF Somewhere
<1>4. Somewhere(q)' <=> Other \/ (q \in Batch(e) /\ q \notin finished) \/ InPortNext
  BY <1>2 DEF Somewhere, QueueStays, SlicesStay, InboxStays, BatchStays
<1>5. q \in finished => ~Other /\ ~InPort /\ q \in Batch(e)
  BY <1>1, <1>2, ApartFacts
<1>6. PortStays => (InPortNext <=> InPort)
  BY DEF PortStays
<1>7. ASSUME NEW last \in Nat, PortGrows(Done(e, finished), last)
      PROVE  InPortNext <=> InPort \/ q \in finished
  <2>1. Finished(last)' = finished
    BY <1>7, DoneRequests DEF PortGrows
  <2> QED
    BY <1>7, <2>1 DEF PortGrows
<1> HIDE DEF Other, InPort, InPortNext
<1> QED
  BY <1>3, <1>4, <1>5, <1>6, <1>7

LEMMA SomewhereDrain ==
    ASSUME IInv, Drain, NEW q \in Requests
    PROVE  Somewhere(q)' <=> Somewhere(q) /\ q \notin Finished(1)
<1>1. TypeOK /\ ReservedInv /\ ApartInv
  BY DEF IInv
<1>2. /\ QueueStays /\ SlicesStay /\ PortShrinks
      /\ \A d \in Ranks : InboxStays(d) /\ BatchStays(d)
  BY <1>1, DrainEffect
<1> DEFINE Other == \/ q \in InQueue
                    \/ \E d \in Ranks : q \in Slice(d)
                    \/ \E d \in Ranks : q \in Batch(d)
                    \/ \E d \in Ranks : \E i \in DOMAIN inbox[d] : q \in Sent(d, i)
           InPortNext == \E i \in DOMAIN port' : q \in Finished(i)'
<1>3. Somewhere(q) <=> Other \/ \E i \in DOMAIN port : q \in Finished(i)
  BY DEF Somewhere
<1>4. Somewhere(q)' <=> Other \/ InPortNext
  BY <1>2 DEF Somewhere, QueueStays, SlicesStay, InboxStays, BatchStays
<1>5. (\E i \in DOMAIN port : q \in Finished(i)) <=> q \in Finished(1) \/ InPortNext
  BY <1>2 DEF PortShrinks
<1>6. q \in Finished(1) => ~Other
  BY <1>1, <1>2 DEF ApartInv, ReservedInv, PortShrinks
<1>7. q \in Finished(1) => ~InPortNext
  BY <1>1, <1>2 DEF ApartInv, PortShrinks
<1> HIDE DEF Other, InPortNext
<1> QED
  BY <1>3, <1>4, <1>5, <1>6, <1>7

LEMMA CallKeeps == IInv /\ [Next]_vars => CallInv'
<1> SUFFICES ASSUME IInv, [Next]_vars
             PROVE  CallInv'
  OBVIOUS
<1> USE PlaceTypes
<1>1. TypeOK /\ LoopInv /\ ReservedInv /\ ApartInv /\ CallInv
  BY DEF IInv
<1>2. /\ call \in [Requests -> {"new", "waiting", "returned", "failed", "refused"}]
      /\ at \in [Ranks -> {"ready", "sharing", "stepping", "pulling", "stopped", "crashed"}]
      /\ closed \in [Ranks -> BOOLEAN]
  BY <1>1 DEF TypeOK
<1>3. at[0] \in {"ready", "sharing", "stepping", "pulling"} => Serving
  BY <1>1 DEF Serving, LoopInv, Running
<1>4. ASSUME NEW r \in Requests, Generate(r)
      PROVE  CallInv'
  <2>1. UNCHANGED <<at, closed>>
    BY <1>4 DEF Generate, loopVars, closeVars
  <2>2. /\ call[r] = "new" /\ SlicesStay /\ PortStays
        /\ \A d \in Ranks : BatchStays(d) /\ InboxStays(d)
    BY <1>1, <1>4, GenerateEffect
  <2>3. r \notin futures /\ ~Somewhere(r)
    BY <1>1, <2>2 DEF CallInv
  <2>4. CASE /\ closed[0] /\ QueueStays /\ futures' = futures
             /\ call' = [call EXCEPT ![r] = "refused"]
    <3>1. \A q \in Requests : Somewhere(q)' <=> Somewhere(q)
      BY <2>2, <2>4 DEF Somewhere, QueueStays, SlicesStay, PortStays, BatchStays, InboxStays
    <3> QED
      BY <1>1, <1>2, <2>1, <2>2, <2>3, <2>4, <3>1 DEF CallInv, Serving, QueueStays
  <2>5. CASE /\ ~closed[0] /\ InQueue' = InQueue \cup {r} /\ futures' = futures \cup {r}
             /\ call' = [call EXCEPT ![r] = "waiting"]
    <3>1. \A q \in Requests : Somewhere(q)' <=> Somewhere(q) \/ q = r
      BY <2>2, <2>5 DEF Somewhere, SlicesStay, PortStays, BatchStays, InboxStays
    <3> QED
      BY <1>1, <1>2, <2>1, <2>2, <2>3, <2>5, <3>1 DEF CallInv, Serving
  <2> QED
    BY <1>1, <1>4, <2>4, <2>5, GenerateEffect
<1>5. CASE Decide \/ Share \/ \E d \in Peers : Take(d)
  <2>1. \A q \in Requests : Somewhere(q)' <=> Somewhere(q)
    BY <1>5, SomewhereStays
  <2>2. UNCHANGED <<call, futures, closed>>
    BY <1>5 DEF Decide, Share, Take, callerVars, closeVars
  <2>3. (Serving' <=> Serving) /\ (~Serving => QueueStays)
    <3>1. CASE Decide
      <4>1. at[0] = "ready" /\ at' = [at EXCEPT ![0] = "sharing"]
        BY <3>1 DEF Decide
      <4> QED
        BY <1>1, <1>2, <1>3, <2>2, <4>1 DEF Serving
    <3>2. CASE Share
      <4>1. at[0] = "sharing" /\ at'[0] # "crashed"
        BY <1>1, <3>2, ShareEffect
      <4> QED
        BY <1>3, <2>2, <4>1 DEF Serving
    <3>3. CASE \E d \in Peers : Take(d)
      <4>1. at'[0] = at[0] /\ QueueStays
        BY <1>1, <3>3, TakeEffect
      <4> QED
        BY <2>2, <4>1 DEF Serving
    <3> QED
      BY <1>5, <3>1, <3>2, <3>3
  <2> QED
    BY <1>1, <2>1, <2>2, <2>3 DEF CallInv, QueueStays
<1>6. ASSUME NEW e \in Ranks, EngineStep(e)
      PROVE  CallInv'
  <2>1. /\ QueueStays /\ at[e] = "stepping" /\ Scheduled(e) \subseteq Batch(e)
    BY <1>1, <1>6, EngineStepEffect
  <2>2. closed' = closed /\ \A d \in Ranks : d # e => at'[d] = at[d]
    BY <1>2, <1>6 DEF EngineStep, closeVars
  <2>3. at'[e] \in {"ready", "stepping"}
    BY <1>2, <1>6 DEF EngineStep
  <2>4. Serving' <=> Serving
    BY <1>1, <1>2, <2>1, <2>2, <2>3 DEF Serving
  <2>5. PICK finished \in SUBSET Scheduled(e) :
            /\ Batch(e)' = Batch(e) \ finished
            /\ \/ e = 0 /\ Resolve(Done(e, finished)) /\ PortStays
               \/ /\ e # 0 /\ UNCHANGED <<callerVars, routerVars>>
                  /\ finished = {} => PortStays
                  /\ finished # {} => \E last \in Nat : PortGrows(Done(e, finished), last)
    BY <1>1, <1>6, EngineStepEffect
  <2>6. CASE e = 0
    <3>1. Resolved(finished) /\ PortStays
      BY <2>5, <2>6, ResolveEffect, DoneRequests
    <3>2. \A q \in Requests : Somewhere(q)' <=> Somewhere(q) /\ q \notin finished
      BY <1>6, <2>5, <3>1, SomewhereStep
    <3>3. Serving
      BY <1>3, <2>1, <2>6
    <3>4. finished \subseteq futures
      <4>1. \A r \in finished : r \in Requests /\ Somewhere(r)
        BY <1>1, <2>1, <2>5 DEF Somewhere
      <4> QED
        BY <1>1, <3>3, <4>1 DEF CallInv
    <3>5. /\ \A q \in Requests : call'[q] = IF q \in finished THEN "returned" ELSE call[q]
          /\ futures' = futures \ finished
      BY <3>1 DEF Resolved
    <3> QED
      BY <1>1, <2>4, <3>2, <3>3, <3>4, <3>5 DEF CallInv
  <2>7. CASE e # 0
    <3>1. UNCHANGED <<call, futures>>
      BY <2>5, <2>7 DEF callerVars
    <3>2. \A q \in Requests : Somewhere(q)' <=> Somewhere(q)
      <4>1. CASE finished = {}
        BY <1>6, <2>5, <2>7, <4>1, SomewhereStep
      <4>2. CASE finished # {}
        BY <1>6, <2>5, <2>7, <4>2, SomewhereStep
      <4> QED
        BY <4>1, <4>2
    <3> QED
      BY <1>1, <2>1, <2>4, <3>1, <3>2 DEF CallInv, QueueStays
  <2> QED
    BY <2>6, <2>7
<1>7. CASE Drain
  <2>1. UNCHANGED <<at, closed>>
    BY <1>7 DEF Drain, loopVars, closeVars
  <2>2. \A q \in Requests : Somewhere(q)' <=> Somewhere(q) /\ q \notin Finished(1)
    BY <1>7, SomewhereDrain
  <2>3. /\ QueueStays /\ PortShrinks
        /\ \/ Finished(1) \subseteq futures /\ Resolve(port[1])
           \/ ~(Finished(1) \subseteq futures) /\ UNCHANGED <<callerVars, routerVars>>
    BY <1>1, <1>7, DrainEffect
  <2>4. 1 \in DOMAIN port /\ Finished(1) \subseteq Requests
    BY <1>1, <2>3 DEF PortShrinks
  <2>5. \A q \in Finished(1) : Somewhere(q) /\ q \notin InQueue
    BY <1>1, <2>4 DEF Somewhere, ReservedInv
  <2>6. CASE Finished(1) \subseteq futures /\ Resolve(port[1])
    <3>1. Resolved(Finished(1))
      BY <2>6, ResolveEffect DEF Finished
    <3>2. /\ \A q \in Requests : call'[q] = IF q \in Finished(1) THEN "returned" ELSE call[q]
          /\ futures' = futures \ Finished(1)
      BY <3>1 DEF Resolved
    <3> QED
      BY <1>1, <2>1, <2>2, <2>3, <2>4, <2>5, <2>6, <3>2 DEF CallInv, Serving, QueueStays
  <2>7. CASE ~(Finished(1) \subseteq futures) /\ UNCHANGED <<callerVars, routerVars>>
    <3>1. UNCHANGED <<call, futures>>
      BY <2>7 DEF callerVars
    <3>2. ~Serving
      BY <1>1, <2>4, <2>5, <2>7 DEF CallInv
    <3> QED
      BY <1>1, <2>1, <2>2, <2>3, <3>1, <3>2 DEF CallInv, Serving, QueueStays
  <2> QED
    BY <2>3, <2>6, <2>7
<1>8. CASE Elsewhere
  <2>1. \A q \in Requests : Somewhere(q)' <=> Somewhere(q)
    BY <1>8, SomewhereStays
  <2>2. QueueStays
    BY <1>1, <1>8, ElsewhereEffect DEF PlacesStay
  <2>3. CASE /\ UNCHANGED <<call, futures>>
             /\ Serving' <=> Serving
    BY <1>1, <2>1, <2>2, <2>3 DEF CallInv, QueueStays
  <2>4. CASE FailOutstanding /\ ~Serving'
    BY <1>1, <2>1, <2>4 DEF CallInv, FailOutstanding
  <2>5. CASE UNCHANGED <<call, futures, at, closed>>
    BY <2>3, <2>5 DEF Serving
  <2>6. CASE \E d \in Ranks : /\ d # 0 /\ closed' = [closed EXCEPT ![d] = TRUE]
                              /\ UNCHANGED <<call, futures, at>>
    BY <1>1, <1>2, <2>3, <2>6 DEF Serving
  <2>7. CASE \E d \in Ranks : /\ \/ at[d] = "pulling" /\ at' = [at EXCEPT ![d] = "ready"]
                                 \/ d # 0 /\ at' = [at EXCEPT ![d] = "crashed"]
                              /\ UNCHANGED <<call, futures, closed>>
    BY <1>1, <1>2, <2>3, <2>7 DEF Serving
  <2>8. CASE /\ FailOutstanding
             /\ \/ closed' = [closed EXCEPT ![0] = TRUE] /\ UNCHANGED at
                \/ at' = [at EXCEPT ![0] = "crashed"] /\ UNCHANGED closed
    BY <1>1, <1>2, <2>4, <2>8 DEF Serving
  <2>9. ElsewhereCases
    BY <1>1, <1>8, ElsewhereEffect DEF ElsewhereCases
  <2> QED
    BY <2>5, <2>6, <2>7, <2>8, <2>9 DEF ElsewhereCases
<1> QED
  BY <1>4, <1>5, <1>6, <1>7, <1>8, Steps

LEMMA DisjointSum ==
    ASSUME NEW S, IsFiniteSet(S), NEW T, IsFiniteSet(T), S \cap T = {}
    PROVE  IsFiniteSet(S \cup T) /\ Cardinality(S \cup T) = Cardinality(S) + Cardinality(T)
<1>1. /\ IsFiniteSet(S \cup T)
      /\ Cardinality(S \cup T) = Cardinality(S) + Cardinality(T) - Cardinality(S \cap T)
  BY FS_Union
<1>2. Cardinality(S \cap T) = 0
  BY FS_EmptySet
<1>3. Cardinality(S) \in Nat /\ Cardinality(T) \in Nat
  BY FS_CardinalityType
<1> QED
  BY <1>1, <1>2, <1>3

LEMMA PartGone ==
    ASSUME NEW S, IsFiniteSet(S), NEW T, T \subseteq S
    PROVE  Cardinality(S \ T) = Cardinality(S) - Cardinality(T)
<1>1. S \cap T = T
  OBVIOUS
<1> QED
  BY <1>1, FS_Difference

\* The waiting requests that are reserved for rank d.
ReservedFor(d) == {r \in futures : reserved[r] = d}

LEMMA ReservedForFinite ==
    ASSUME TypeOK, NEW d
    PROVE  IsFiniteSet(ReservedFor(d)) /\ Cardinality(ReservedFor(d)) \in 0..Cardinality(Requests)
<1>1. ReservedFor(d) \in SUBSET Requests
  BY PlaceTypes DEF ReservedFor
<1>2. /\ IsFiniteSet(ReservedFor(d)) /\ Cardinality(ReservedFor(d)) <= Cardinality(Requests)
      /\ Cardinality(Requests) \in Nat /\ Cardinality(ReservedFor(d)) \in Nat
  BY <1>1, EngineAssumption, FS_Subset, FS_CardinalityType
<1> QED
  BY <1>2

\* Rank 0 gives back exactly the load of what it resolves.
LEMMA LoadResolved ==
    ASSUME TypeOK, NEW rs, rs \subseteq futures, Resolved(rs), NEW d \in Ranks,
           load[d] = Cardinality(ReservedFor(d))
    PROVE  load'[d] = Cardinality(ReservedFor(d))'
<1> DEFINE gone == {r \in rs : reserved[r] = d}
<1>1. gone \subseteq ReservedFor(d)
  BY DEF ReservedFor
<1>2. ReservedFor(d)' = ReservedFor(d) \ gone
  <2>1. /\ futures' = futures \ rs /\ futures \subseteq Requests
        /\ \A r \in Requests : reserved'[r] = IF r \in rs THEN None ELSE reserved[r]
    BY PlaceTypes DEF Resolved
  <2> QED
    BY <2>1 DEF ReservedFor
<1>3. load'[d] = load[d] - Cardinality(gone)
  BY DEF Resolved
<1>4. IsFiniteSet(ReservedFor(d))
  BY ReservedForFinite
<1> HIDE DEF gone
<1>5. Cardinality(ReservedFor(d) \ gone) = Cardinality(ReservedFor(d)) - Cardinality(gone)
  BY <1>1, <1>4, PartGone
<1> QED
  BY <1>2, <1>3, <1>5

\* A decision charges each rank with the requests it hands to it.
LEMMA LoadReserved ==
    ASSUME TypeOK, ReservedInv, InQueue \subseteq futures, futures' = futures,
           NEW where \in [InQueue -> Ranks], Reserve(where), NEW d \in Ranks,
           load[d] = Cardinality(ReservedFor(d))
    PROVE  load'[d] = Cardinality(ReservedFor(d))'
<1> DEFINE new == {r \in InQueue : where[r] = d}
<1>1. d # None /\ futures \subseteq Requests
  BY PlaceTypes
<1>2. new \cap ReservedFor(d) = {}
  BY <1>1 DEF ReservedFor, ReservedInv
<1>3. ReservedFor(d)' = ReservedFor(d) \cup new
  <2>1. \A r \in Requests : reserved'[r] = IF r \in InQueue THEN where[r] ELSE reserved[r]
    BY DEF Reserve
  <2>2. \A r \in InQueue : reserved[r] # d
    BY <1>1 DEF ReservedInv
  <2> QED
    BY <1>1, <2>1, <2>2 DEF ReservedFor
<1>4. load'[d] = load[d] + Cardinality(new)
  BY DEF Reserve
<1>5. IsFiniteSet(ReservedFor(d)) /\ IsFiniteSet(new)
  <2>1. new \in SUBSET Requests
    BY PlaceTypes
  <2> QED
    BY <2>1, ReservedForFinite, EngineAssumption, FS_Subset
<1> HIDE DEF new
<1>6. Cardinality(ReservedFor(d) \cup new) = Cardinality(ReservedFor(d)) + Cardinality(new)
  BY <1>2, <1>5, DisjointSum
<1> QED
  BY <1>3, <1>4, <1>6

LEMMA LoadsKeeps ==
    IInv /\ [Next]_vars => LoadsMatch' /\ (~Serving' => load' = load)
                           /\ load' = [d \in Ranks |-> load'[d]]
<1> SUFFICES ASSUME IInv, [Next]_vars
             PROVE  /\ LoadsMatch' /\ (~Serving' => load' = load)
                    /\ load' = [d \in Ranks |-> load'[d]]
  OBVIOUS
<1> USE PlaceTypes
<1>1. TypeOK /\ LoopInv /\ ReservedInv /\ ApartInv /\ CallInv
  BY DEF IInv
<1>2. /\ at \in [Ranks -> {"ready", "sharing", "stepping", "pulling", "stopped", "crashed"}]
      /\ closed \in [Ranks -> BOOLEAN]
      /\ load = [d \in Ranks |-> load[d]]
  BY <1>1 DEF TypeOK
<1>3. at[0] \in {"ready", "sharing", "stepping", "pulling"} => Serving
  BY <1>1 DEF Serving, LoopInv, Running
<1>4. Serving => \A d \in Ranks : load[d] = Cardinality(ReservedFor(d))
  BY DEF IInv, LoadsMatch, Serving, ReservedFor
<1>5. LoadsMatch' <=> (Serving' => \A d \in Ranks : load'[d] = Cardinality(ReservedFor(d))')
  BY DEF LoadsMatch, Serving, ReservedFor
<1>6. ASSUME load' = load, Serving' => Serving /\ \A d \in Ranks : ReservedFor(d)' = ReservedFor(d)
      PROVE  /\ LoadsMatch' /\ (~Serving' => load' = load)
             /\ load' = [d \in Ranks |-> load'[d]]
  BY <1>2, <1>4, <1>5, <1>6
<1>7. ASSUME NEW r \in Requests, Generate(r)
      PROVE  load' = load /\ (Serving' => Serving /\ \A d \in Ranks : ReservedFor(d)' = ReservedFor(d))
  <2>1. UNCHANGED <<load, reserved, at, closed>>
    BY <1>7 DEF Generate, loopVars, closeVars, routerVars
  <2>2. futures' \subseteq futures \cup {r} /\ futures \subseteq futures' /\ call[r] = "new"
    BY <1>1, <1>7, GenerateEffect
  <2>3. \A d \in Ranks : reserved[r] # d
    BY <1>1, <2>2 DEF ReservedInv
  <2> QED
    BY <2>1, <2>2, <2>3 DEF ReservedFor, Serving
<1>8. CASE Decide
  <2>1. UNCHANGED <<futures, closed>> /\ at' = [at EXCEPT ![0] = "sharing"] /\ at[0] = "ready"
    BY <1>8 DEF Decide, callerVars, closeVars
  <2>2. Serving /\ Serving'
    BY <1>1, <1>2, <1>3, <2>1 DEF Serving
  <2>3. CASE UNCHANGED <<reserved, load>>
    BY <1>6, <2>1, <2>2, <2>3 DEF ReservedFor
  <2>4. ASSUME NEW where \in [InQueue -> Ranks], Reserve(where)
        PROVE  /\ LoadsMatch' /\ (~Serving' => load' = load)
               /\ load' = [d \in Ranks |-> load'[d]]
    <3>1. InQueue \subseteq futures
      BY <1>1, <2>2 DEF CallInv, Somewhere
    <3>2. \A d \in Ranks : load'[d] = Cardinality(ReservedFor(d))'
      BY <1>1, <1>4, <2>1, <2>2, <2>4, <3>1, LoadReserved
    <3>3. load' = [d \in Ranks |-> load'[d]]
      BY <2>4 DEF Reserve
    <3> QED
      BY <1>5, <2>2, <3>2, <3>3
  <2> QED
    BY <1>1, <1>8, <2>3, <2>4, DecideEffect
<1>9. CASE Share \/ \E d \in Peers : Take(d)
  <2>1. UNCHANGED <<futures, reserved, load, closed>>
    BY <1>9 DEF Share, Take, callerVars, routerVars, closeVars
  <2>2. Serving' => Serving
    <3>1. CASE Share
      <4>1. at[0] = "sharing"
        BY <1>1, <3>1, ShareEffect
      <4> QED
        BY <1>3, <4>1
    <3>2. CASE \E d \in Peers : Take(d)
      <4>1. at'[0] = at[0]
        BY <1>1, <3>2, TakeEffect
      <4> QED
        BY <2>1, <4>1 DEF Serving
    <3> QED
      BY <1>9, <3>1, <3>2
  <2> QED
    BY <1>6, <2>1, <2>2 DEF ReservedFor
<1>10. ASSUME NEW e \in Ranks, EngineStep(e)
       PROVE  /\ LoadsMatch' /\ (~Serving' => load' = load)
              /\ load' = [d \in Ranks |-> load'[d]]
  <2>1. at[e] = "stepping" /\ Scheduled(e) \subseteq Batch(e)
    BY <1>1, <1>10, EngineStepEffect
  <2>2. /\ closed' = closed /\ \A d \in Ranks : d # e => at'[d] = at[d]
        /\ at'[e] \in {"ready", "stepping"}
    BY <1>2, <1>10 DEF EngineStep, closeVars
  <2>3. Serving' <=> Serving
    BY <1>1, <1>2, <2>1, <2>2 DEF Serving
  <2>4. PICK finished \in SUBSET Scheduled(e) :
            \/ e = 0 /\ Resolve(Done(e, finished))
            \/ e # 0 /\ UNCHANGED <<callerVars, routerVars>>
    BY <1>1, <1>10, EngineStepEffect
  <2>5. CASE e = 0
    <3>1. Resolved(finished)
      BY <2>4, <2>5, ResolveEffect, DoneRequests
    <3>2. Serving
      BY <1>3, <2>1, <2>5
    <3>3. finished \subseteq futures
      <4>1. \A r \in finished : r \in Requests /\ Somewhere(r)
        BY <1>1, <2>1, <2>4 DEF Somewhere
      <4> QED
        BY <1>1, <3>2, <4>1 DEF CallInv
    <3>4. \A d \in Ranks : load'[d] = Cardinality(ReservedFor(d))'
      BY <1>1, <1>4, <3>1, <3>2, <3>3, LoadResolved
    <3>5. load' = [d \in Ranks |-> load'[d]]
      BY <3>1 DEF Resolved
    <3> QED
      BY <1>5, <2>3, <3>2, <3>4, <3>5
  <2>6. CASE e # 0
    BY <1>6, <2>3, <2>4, <2>6 DEF ReservedFor, callerVars, routerVars
  <2> QED
    BY <2>5, <2>6
<1>11. CASE Drain
  <2>1. UNCHANGED <<at, closed>>
    BY <1>11 DEF Drain, loopVars, closeVars
  <2>2. /\ PortShrinks
        /\ \/ Finished(1) \subseteq futures /\ Resolve(port[1])
           \/ UNCHANGED <<callerVars, routerVars>>
    BY <1>1, <1>11, DrainEffect
  <2>3. CASE Finished(1) \subseteq futures /\ Resolve(port[1])
    <3>1. Resolved(Finished(1))
      BY <2>3, ResolveEffect DEF Finished
    <3>2. load' = [d \in Ranks |-> load'[d]]
      BY <3>1 DEF Resolved
    <3>3. CASE Serving
      <4>1. \A d \in Ranks : load'[d] = Cardinality(ReservedFor(d))'
        BY <1>1, <1>4, <2>3, <3>1, <3>3, LoadResolved
      <4> QED
        BY <1>5, <2>1, <3>2, <3>3, <4>1 DEF Serving
    <3>4. CASE ~Serving
      <4>1. Finished(1) = {}
        <5>1. Finished(1) \subseteq InQueue
          BY <1>1, <2>3, <3>4 DEF CallInv
        <5> QED
          BY <1>1, <2>2, <5>1 DEF ReservedInv, PortShrinks
      <4>2. ASSUME NEW d \in Ranks
            PROVE  load'[d] = load[d]
        <5>1. load'[d] = load[d] - Cardinality({r \in {} : reserved[r] = d})
          BY <3>1, <4>1 DEF Resolved
        <5>2. {r \in {} : reserved[r] = d} = {} /\ Cardinality({}) = 0 /\ load[d] \in Int
          BY <1>1, FS_EmptySet DEF TypeOK
        <5> QED
          BY <5>1, <5>2
      <4>3. load' = load
        BY <1>2, <3>2, <4>2
      <4> QED
        BY <1>5, <2>1, <3>2, <3>4, <4>3 DEF Serving
    <3> QED
      BY <3>3, <3>4
  <2>4. CASE UNCHANGED <<callerVars, routerVars>>
    BY <1>6, <2>1, <2>4 DEF ReservedFor, Serving, callerVars, routerVars
  <2> QED
    BY <2>2, <2>3, <2>4
<1>12. CASE Elsewhere
  <2>1. UNCHANGED <<reserved, load>> /\ ElsewhereCases
    BY <1>1, <1>12, ElsewhereEffect
  <2>2. Serving' => Serving /\ futures' = futures
    BY <1>1, <1>2, <2>1 DEF ElsewhereCases, Serving
  <2> QED
    BY <1>6, <2>1, <2>2 DEF ReservedFor
<1> QED
  BY <1>6, <1>7, <1>8, <1>9, <1>10, <1>11, <1>12, Steps

LEMMA UnfinishedStays ==
    ASSUME IInv, [Next]_vars, ~ \E d \in Ranks : EngineStep(d), NEW q \in Requests, Unfinished(q)'
    PROVE  Unfinished(q)
<1> USE PlaceTypes DEF Unfinished
<1>1. TypeOK /\ LoopInv
  BY DEF IInv
<1>2. call \in [Requests -> {"new", "waiting", "returned", "failed", "refused"}]
  BY <1>1 DEF TypeOK
<1>3. ASSUME NEW r \in Requests, Generate(r)
      PROVE  Unfinished(q)
  <2>1. /\ call[r] = "new" /\ SlicesStay
        /\ \A d \in Ranks : BatchStays(d) /\ InboxStays(d)
        /\ InQueue' \subseteq InQueue \cup {r}
        /\ call'[q] = "new" => call[q] = "new"
    BY <1>1, <1>2, <1>3, GenerateEffect DEF QueueStays
  <2> QED
    BY <2>1 DEF SlicesStay, BatchStays, InboxStays
<1>4. CASE Decide
  <2>1. /\ \A d \in Ranks : BatchStays(d) /\ InboxStays(d) /\ Slice(d)' \subseteq InQueue
        /\ InQueue' \subseteq InQueue
    BY <1>1, <1>4, DecideEffect DEF QueueStays
  <2>2. call' = call
    BY <1>4 DEF Decide, callerVars
  <2> QED
    BY <2>1, <2>2 DEF BatchStays, InboxStays
<1>5. CASE Share
  <2>1. /\ QueueStays /\ \A d \in Ranks : Slice(d)' = {}
        /\ Batch(0)' = Batch(0) \cup Slice(0) /\ inbox'[0] = <<>>
        /\ \A d \in Peers : BatchStays(d)
    BY <1>1, <1>5, ShareEffect
  <2>2. \A d \in Peers : \E last \in Nat : InboxGrows(d, last)
    BY <1>1, <1>5, ShareEffect
  <2>3. call' = call
    BY <1>5 DEF Share
  <2>4. \A d \in Ranks : \A i \in DOMAIN inbox'[d] : q \in Sent(d, i)' =>
            q \in Slice(d) \/ \E j \in DOMAIN inbox[d] : q \in Sent(d, j)
    BY <1>1, <2>1, <2>2 DEF InboxGrows
  <2> QED
    BY <1>1, <2>1, <2>3, <2>4 DEF QueueStays, BatchStays
<1>6. ASSUME NEW p \in Peers, Take(p)
      PROVE  Unfinished(q)
  <2>1. /\ QueueStays /\ SlicesStay /\ InboxShrinks(p)
        /\ Batch(p)' = Batch(p) \cup Sent(p, 1)
        /\ \A d \in Ranks : d # p => BatchStays(d) /\ InboxStays(d)
    BY <1>1, <1>6, TakeEffect
  <2>2. call' = call
    BY <1>6 DEF Take, callerVars
  <2>3. \A d \in Ranks : \A i \in DOMAIN inbox'[d] : q \in Sent(d, i)' =>
            \E j \in DOMAIN inbox[d] : q \in Sent(d, j)
    BY <1>1, <2>1 DEF InboxShrinks, InboxStays
  <2>4. \A d \in Ranks : q \in Batch(d)' =>
            q \in Batch(d) \/ \E j \in DOMAIN inbox[d] : q \in Sent(d, j)
    BY <1>1, <2>1 DEF InboxShrinks, BatchStays
  <2> QED
    BY <2>1, <2>2, <2>3, <2>4 DEF QueueStays, SlicesStay
<1>7. CASE Drain \/ Elsewhere
  <2>1. QueueStays /\ SlicesStay /\ \A d \in Ranks : BatchStays(d) /\ InboxStays(d)
    BY <1>1, <1>7, DrainEffect, ElsewhereEffect DEF PlacesStay
  <2>2. call'[q] = "new" => call[q] = "new"
    <3>1. CASE Drain
      BY <1>1, <3>1, DrainEffect DEF Resolve, callerVars
    <3>2. CASE Elsewhere
      BY <1>1, <3>2, ElsewhereEffect DEF ElsewhereCases, FailOutstanding
    <3> QED
      BY <1>7, <3>1, <3>2
  <2> QED
    BY <2>1, <2>2 DEF QueueStays, SlicesStay, BatchStays, InboxStays
<1> QED
  BY <1>3, <1>4, <1>5, <1>6, <1>7, Steps

LEMMA TokenKeeps ==
    IInv /\ [Next]_vars => TokenInv' /\ tokens' \in [Requests -> 0..MaxTokens]
<1> SUFFICES ASSUME IInv, [Next]_vars
             PROVE  TokenInv' /\ tokens' \in [Requests -> 0..MaxTokens]
  OBVIOUS
<1> USE PlaceTypes, EngineAssumption
<1>1. TypeOK /\ LoopInv /\ ReservedInv /\ ApartInv /\ CallInv /\ TokenInv
  BY DEF IInv
<1>2. tokens \in [Requests -> 0..MaxTokens]
  BY <1>1 DEF TypeOK
<1>3. CASE ~ \E d \in Ranks : EngineStep(d)
  <2>1. tokens' = tokens
    BY <1>1, <1>3, Steps, ElsewhereEffect
       DEF Generate, Decide, Share, Take, Drain, engineVars
  <2> QED
    BY <1>1, <1>2, <1>3, <2>1, UnfinishedStays DEF TokenInv
<1>4. ASSUME NEW e \in Ranks, EngineStep(e)
      PROVE  TokenInv' /\ tokens' \in [Requests -> 0..MaxTokens]
  <2>1. /\ QueueStays /\ SlicesStay
        /\ \A d \in Ranks : InboxStays(d) /\ (d # e => BatchStays(d))
        /\ Scheduled(e) \subseteq Batch(e)
    BY <1>1, <1>4, EngineStepEffect
  <2>2. PICK finished \in SUBSET Scheduled(e) :
            /\ {r \in Scheduled(e) : tokens[r] + 1 = MaxTokens} \subseteq finished
            /\ Batch(e)' = Batch(e) \ finished
            /\ \/ e = 0 /\ Resolve(Done(e, finished))
               \/ e # 0 /\ UNCHANGED <<callerVars, routerVars>>
    BY <1>1, <1>4, EngineStepEffect
  <2>3. \A r \in Requests : tokens'[r] = IF r \in Scheduled(e) THEN tokens[r] + 1 ELSE tokens[r]
    BY <1>4 DEF EngineStep
  <2>4. \A r \in Scheduled(e) : tokens[r] < MaxTokens /\ r \in Requests
    BY <1>1, <2>1 DEF TokenInv, Unfinished
  <2>5. tokens' \in [Requests -> 0..MaxTokens]
    <3>1. \A r \in Requests : tokens'[r] \in 0..MaxTokens
      BY <1>2, <2>3, <2>4
    <3>2. tokens' = [r \in Requests |-> tokens'[r]]
      BY <1>4 DEF EngineStep
    <3> QED
      BY <3>1, <3>2
  <2>6. \A r \in Requests : call'[r] = "new" => call[r] = "new"
    BY <2>2 DEF Resolve, callerVars
  <2>7. ASSUME NEW r \in Requests, Unfinished(r)'
        PROVE  tokens'[r] < MaxTokens
    <3>1. CASE r \in finished
      <4>1. r \in Batch(e) /\ r \notin Batch(e)'
        BY <2>1, <2>2, <3>1
      <4>2. /\ r \notin InQueue' /\ \A d \in Ranks : r \notin Slice(d)' /\ r \notin Batch(d)'
            /\ \A d \in Ranks : \A i \in DOMAIN inbox'[d] : r \notin Sent(d, i)'
        BY <1>1, <2>1, <4>1, ApartFacts
           DEF QueueStays, SlicesStay, BatchStays, InboxStays
      <4>3. call[r] # "new"
        BY <1>1, <4>1 DEF CallInv, Somewhere
      <4> QED
        BY <2>6, <2>7, <4>2, <4>3 DEF Unfinished
    <3>2. CASE r \notin finished
      <4>1. Unfinished(r)
        BY <2>1, <2>2, <2>6, <2>7
           DEF Unfinished, QueueStays, SlicesStay, BatchStays, InboxStays
      <4>2. tokens[r] < MaxTokens
        BY <1>1, <4>1 DEF TokenInv
      <4> QED
        BY <1>2, <2>2, <2>3, <3>2, <4>2
    <3> QED
      BY <3>1, <3>2
  <2> QED
    BY <2>5, <2>7 DEF TokenInv
<1> QED
  BY <1>3, <1>4

LEMMA VersionTypes ==
    ASSUME TypeOK
    PROVE  /\ stored \in Int /\ stored \in Versions /\ None \notin Versions
           /\ version \in [Ranks -> Versions] /\ target \in [Ranks -> Versions \cup {None}]
           /\ \A d \in Ranks : version[d] \in Int /\ target[d] \in Int
           /\ \A v \in Versions : v \in Int
           /\ pullVersion \in Int
           /\ decision.version \in Int
           /\ \A d \in Ranks : \A i \in DOMAIN inbox[d] : i \in Nat /\ 1 <= i
                                                         /\ inbox[d][i].version \in Int
           /\ \A d \in Ranks : Len(inbox[d]) \in Nat /\ DOMAIN inbox[d] = 1 .. Len(inbox[d])
           /\ at \in [Ranks -> {"ready", "sharing", "stepping", "pulling", "stopped", "crashed"}]
<1>1. Versions \subseteq Int /\ None \in Int /\ None \notin Versions
  BY EngineAssumption DEF Versions, None
<1>2. ASSUME NEW d \in Ranks
      PROVE  /\ \A i \in DOMAIN inbox[d] : i \in Nat /\ 1 <= i /\ inbox[d][i].version \in Int
             /\ Len(inbox[d]) \in Nat /\ DOMAIN inbox[d] = 1 .. Len(inbox[d])
  <2>1. inbox[d] \in Seq(DecisionType)
    BY DEF TypeOK
  <2>2. \A i \in DOMAIN inbox[d] : i \in Nat /\ 1 <= i /\ inbox[d][i] \in DecisionType
    BY <2>1
  <2>3. \A dec \in DecisionType : dec.version \in Int
    BY <1>1 DEF DecisionType
  <2>4. \A i \in DOMAIN inbox[d] : inbox[d][i].version \in Int
    BY <2>2, <2>3, Zenon
  <2>5. Len(inbox[d]) \in Nat /\ DOMAIN inbox[d] = 1 .. Len(inbox[d])
    BY <2>1
  <2> QED
    BY <2>2, <2>4, <2>5
<1>3. decision.version \in Int
  BY <1>1 DEF TypeOK, DecisionType
<1> QED
  BY <1>1, <1>2, <1>3 DEF TypeOK

LEMMA VersionKeeps == IInv /\ [Next]_vars => VersionInv'
<1> SUFFICES ASSUME IInv, [Next]_vars
             PROVE  VersionInv'
  OBVIOUS
<1> USE PlaceTypes, VersionTypes DEF IsPull
<1>1. TypeOK /\ LoopInv /\ VersionInv
  BY DEF IInv
<1>2. ASSUME UNCHANGED <<pullVersion, decision, inbox, version, target, stored>>,
             \A d \in Ranks : at'[d] = "pulling" => at[d] = "pulling",
             at'[0] = "sharing" => at[0] = "sharing"
      PROVE  VersionInv'
  BY <1>1, <1>2 DEF VersionInv
<1>3. CASE (\E r \in Requests : Generate(r)) \/ Drain \/ UNCHANGED vars
  BY <1>2, <1>3
     DEF Generate, Drain, vars, inboxVars, loopVars, weightVars
<1>4. CASE \E d \in Ranks : EngineStep(d)
  <2>1. PICK e \in Ranks : EngineStep(e)
    BY <1>4
  <2>2. /\ \A d \in Ranks : at'[d] = "pulling" => at[d] = "pulling"
        /\ at'[0] = "sharing" => at[0] = "sharing"
    <3>1. at' = [at EXCEPT ![e] = "ready"] \/ at' = [at EXCEPT ![e] = "stepping"]
      BY <2>1 DEF EngineStep
    <3> QED
      BY <1>1, <3>1
  <2> QED
    BY <1>2, <2>1, <2>2 DEF EngineStep, inboxVars, weightVars
<1>5. CASE Push
  <2>1. /\ stored' = stored + 1 /\ pullVersion = None
        /\ UNCHANGED <<pullVersion, decision, inbox, version, target, at>>
    BY <1>5 DEF Push, inboxVars, loopVars, weightVars
  <2>2. ~(at[0] = "sharing" /\ decision.action = "pull")
    BY <1>1, <2>1 DEF VersionInv
  <2> QED
    BY <1>1, <2>1, <2>2 DEF VersionInv
<1>6. CASE PullModelStateDict
  <2>1. /\ pullVersion' = stored
        /\ UNCHANGED <<stored, decision, inbox, version, target, at>>
    BY <1>6 DEF PullModelStateDict, loopVars, weightVars
  <2> QED
    BY <1>1, <2>1 DEF VersionInv
<1>7. CASE Close
  BY <1>2, <1>7 DEF Close, inboxVars, loopVars, weightVars
<1>8. CASE Decide
  <2>1. /\ UNCHANGED <<stored, pullVersion, inbox, version, target>>
        /\ at' = [at EXCEPT ![0] = "sharing"]
        /\ \/ decision'.action \in {"close", "step"}
           \/ pullVersion # None /\ decision'.version = pullVersion
    BY <1>8 DEF Decide, Decision, weightVars
  <2> QED
    BY <1>1, <2>1 DEF VersionInv
<1>9. CASE Share
  <2>1. /\ UNCHANGED <<stored, pullVersion, version>> /\ decision'.action = "none"
    BY <1>9 DEF Share, inboxVars, weightVars, NoDecision, Decision
  <2>2. /\ at[0] = "sharing" /\ inbox'[0] = <<>>
        /\ \A d \in Peers : at'[d] = at[d] /\ target'[d] = target[d]
        /\ \/ at'[0] # "pulling"
           \/ decision.action = "pull" /\ target'[0] = decision.version
    BY <1>1, <1>9, ShareEffect
  <2>3. \A d \in Peers : \E last \in Nat : InboxGrows(d, last)
    BY <1>1, <1>9, ShareEffect
  <2>4. decision.action = "pull" => decision.version = stored
    BY <1>1, <2>2 DEF VersionInv
  <2>5. \A d \in Ranks : at'[d] = "pulling" =>
            target'[d] \in Versions /\ version[d] <= target'[d] /\ target'[d] <= stored
    <3> SUFFICES ASSUME NEW d \in Ranks, at'[d] = "pulling"
                 PROVE  target'[d] \in Versions /\ version[d] <= target'[d] /\ target'[d] <= stored
      OBVIOUS
    <3>1. CASE d = 0
      <4>1. target'[d] = stored
        BY <2>2, <2>4, <3>1
      <4>2. stored \in Versions /\ stored \in Int /\ version[d] <= stored
        BY <1>1 DEF VersionInv
      <4> QED
        BY <4>1, <4>2
    <3>2. CASE d \in Peers
      <4>1. at[d] = "pulling" /\ target'[d] = target[d]
        BY <2>2, <3>2
      <4> QED
        BY <1>1, <4>1 DEF VersionInv
    <3> QED
      BY <1>1, <3>1, <3>2
  <2>6. ASSUME NEW d \in Ranks, NEW i \in DOMAIN inbox'[d], inbox'[d][i].action = "pull"
        PROVE  /\ inbox'[d][i].version \in Versions
               /\ version[d] <= inbox'[d][i].version
               /\ inbox'[d][i].version <= stored
               /\ at'[d] = "pulling" => target'[d] <= inbox'[d][i].version
               /\ \A j \in DOMAIN inbox'[d] : j < i /\ inbox'[d][j].action = "pull" =>
                    inbox'[d][j].version <= inbox'[d][i].version
    <3>1. d \in Peers
      BY <1>1, <2>2, <2>6
    <3>2. PICK last \in Nat : InboxGrows(d, last)
      BY <2>3, <3>1
    <3>3. /\ last = Len(inbox[d]) + 1 /\ inbox'[d][last] = decision
          /\ \A k \in DOMAIN inbox'[d] : k # last => k \in DOMAIN inbox[d] /\ inbox'[d][k] = inbox[d][k]
      BY <3>2 DEF InboxGrows
    <3>4. CASE i = last
      <4>1. inbox'[d][i].version = stored
        BY <2>4, <2>6, <3>3, <3>4
      <4>2. \A j \in DOMAIN inbox[d] : inbox[d][j].action = "pull" => inbox[d][j].version <= stored
        BY <1>1 DEF VersionInv
      <4>3. version[d] <= stored /\ (at'[d] = "pulling" => target'[d] <= stored)
        BY <1>1, <2>5 DEF VersionInv
      <4>4. ASSUME NEW j \in DOMAIN inbox'[d], j < i, inbox'[d][j].action = "pull"
            PROVE  inbox'[d][j].version <= stored
        <5>1. j # last
          BY <1>1, <3>3, <3>4, <4>4
        <5> QED
          BY <3>3, <4>2, <4>4, <5>1
      <4> QED
        BY <1>1, <4>1, <4>3, <4>4
    <3>5. CASE i # last
      <4>1. i \in DOMAIN inbox[d] /\ inbox'[d][i] = inbox[d][i] /\ i < last
        BY <1>1, <3>3, <3>5
      <4>2. \A j \in DOMAIN inbox'[d] : j < i => j \in DOMAIN inbox[d] /\ inbox'[d][j] = inbox[d][j]
        BY <1>1, <3>3, <4>1
      <4> QED
        BY <1>1, <2>2, <2>6, <3>1, <4>1, <4>2 DEF VersionInv
    <3> QED
      BY <3>4, <3>5
  <2>7. at'[0] # "sharing"
    BY <1>1, <1>9, ShareEffect
  <2> QED
    BY <1>1, <2>1, <2>5, <2>6, <2>7 DEF VersionInv
<1>10. ASSUME NEW p \in Peers, Take(p)
       PROVE  VersionInv'
  <2>1. UNCHANGED <<stored, pullVersion, version, decision>>
    BY <1>10 DEF Take, inboxVars, weightVars
  <2>2. /\ at[p] = "ready" /\ InboxShrinks(p)
        /\ \A d \in Ranks : d # p => /\ InboxStays(d)
                                     /\ at'[d] = at[d] /\ target'[d] = target[d]
        /\ \/ at'[p] \in {"stopped", "ready", "stepping"}
           \/ inbox[p][1].action = "pull" /\ target'[p] = inbox[p][1].version
    BY <1>1, <1>10, TakeEffect
  <2>3. /\ 1 \in DOMAIN inbox[p]
        /\ \A i \in DOMAIN inbox'[p] : /\ i \in Nat /\ i + 1 \in DOMAIN inbox[p] /\ i + 1 # 1
                                       /\ inbox'[p][i] = inbox[p][i + 1]
    BY <2>2 DEF InboxShrinks
  <2>4. \A d \in Ranks : at'[d] = "pulling" =>
            target'[d] \in Versions /\ version[d] <= target'[d] /\ target'[d] <= stored
    <3> SUFFICES ASSUME NEW d \in Ranks, at'[d] = "pulling"
                 PROVE  target'[d] \in Versions /\ version[d] <= target'[d] /\ target'[d] <= stored
      OBVIOUS
    <3>1. CASE d = p
      <4>1. inbox[p][1].action = "pull" /\ target'[p] = inbox[p][1].version
        BY <2>2, <3>1
      <4>2. /\ inbox[p][1].version \in Versions
            /\ version[p] <= inbox[p][1].version /\ inbox[p][1].version <= stored
        BY <1>1, <2>3, <4>1 DEF VersionInv
      <4> QED
        BY <3>1, <4>1, <4>2
    <3>2. CASE d # p
      <4>1. at[d] = "pulling" /\ target'[d] = target[d]
        BY <2>2, <3>2
      <4> QED
        BY <1>1, <4>1 DEF VersionInv
    <3> QED
      BY <3>1, <3>2
  <2>5. ASSUME NEW d \in Ranks, NEW i \in DOMAIN inbox'[d], inbox'[d][i].action = "pull"
        PROVE  /\ inbox'[d][i].version \in Versions
               /\ version[d] <= inbox'[d][i].version
               /\ inbox'[d][i].version <= stored
               /\ at'[d] = "pulling" => target'[d] <= inbox'[d][i].version
               /\ \A j \in DOMAIN inbox'[d] : j < i /\ inbox'[d][j].action = "pull" =>
                    inbox'[d][j].version <= inbox'[d][i].version
    <3>1. CASE d # p
      BY <1>1, <2>2, <2>5, <3>1 DEF VersionInv, InboxStays
    <3>2. CASE d = p
      <4>1. /\ i \in Nat /\ i + 1 \in DOMAIN inbox[p] /\ 1 < i + 1
            /\ inbox'[p][i] = inbox[p][i + 1]
        BY <1>1, <2>3, <2>5, <3>2
      <4>2. \A j \in DOMAIN inbox'[p] : j < i =>
                j + 1 \in DOMAIN inbox[p] /\ j + 1 < i + 1 /\ inbox'[p][j] = inbox[p][j + 1]
        BY <2>3, <4>1
      <4>3. inbox[p][1].action = "pull" => inbox[p][1].version <= inbox[p][i + 1].version
        BY <1>1, <2>3, <2>5, <3>2, <4>1 DEF VersionInv
      <4> QED
        BY <1>1, <2>2, <2>5, <3>2, <4>1, <4>2, <4>3, SMTT(30) DEF VersionInv
    <3> QED
      BY <3>1, <3>2
  <2>6. at'[0] = "sharing" => at[0] = "sharing"
    BY <1>1, <2>2
  <2> QED
    BY <1>1, <2>1, <2>4, <2>5, <2>6 DEF VersionInv
<1>11. ASSUME NEW e \in Ranks, PullDone(e)
       PROVE  VersionInv'
  <2>1. /\ at[e] = "pulling" /\ at' = [at EXCEPT ![e] = "ready"]
        /\ version' = [version EXCEPT ![e] = target[e]]
        /\ UNCHANGED <<stored, decision, inbox, target>>
        /\ pullVersion' = pullVersion \/ pullVersion' = None
        /\ e # 0 => pullVersion' = pullVersion
    BY <1>11 DEF PullDone, Loaded
  <2>2. \A d \in Ranks : version'[d] <= stored
    BY <1>1, <2>1 DEF VersionInv
  <2>3. \A d \in Ranks : at'[d] = "pulling" => at[d] = "pulling" /\ version'[d] = version[d]
    BY <1>1, <2>1
  <2>4. \A d \in Ranks : \A i \in DOMAIN inbox[d] : inbox[d][i].action = "pull" =>
            version'[d] <= inbox[d][i].version
    BY <1>1, <2>1 DEF VersionInv
  <2>5. at'[0] = "sharing" => at[0] = "sharing" /\ e # 0
    BY <1>1, <2>1
  <2> QED
    BY <1>1, <2>1, <2>2, <2>3, <2>4, <2>5 DEF VersionInv
<1>12. ASSUME NEW e \in Ranks, LoopRaises(e) \/ CloseReturns(e)
       PROVE  VersionInv'
  <2>1. /\ UNCHANGED <<stored, decision, inbox, target, version>>
        /\ pullVersion' = pullVersion \/ (pullVersion' = None /\ at'[0] # "sharing")
        /\ at' = at \/ at' = [at EXCEPT ![e] = "crashed"]
    <3>1. CASE LoopRaises(e)
      BY <1>1, <3>1 DEF LoopRaises, FailOutstanding, inboxVars, weightVars
    <3>2. CASE CloseReturns(e)
      BY <1>1, <3>2 DEF CloseReturns, FailOutstanding, Running, inboxVars, loopVars, weightVars
    <3> QED
      BY <1>12, <3>1, <3>2
  <2>2. /\ \A d \in Ranks : at'[d] = "pulling" => at[d] = "pulling"
        /\ at'[0] = "sharing" => at[0] = "sharing"
    BY <1>1, <2>1
  <2> QED
    BY <1>1, <2>1, <2>2 DEF VersionInv
<1>13. CASE Elsewhere
  BY <1>3, <1>5, <1>6, <1>7, <1>11, <1>12, <1>13 DEF Elsewhere, Crash, BroadcastFails
<1> QED
  BY <1>3, <1>4, <1>8, <1>9, <1>10, <1>13, Steps

LEMMA FreshStays ==
    ASSUME IInv, [Next]_vars, NEW q \in Requests, Fresh(q)'
    PROVE  Fresh(q)
<1> USE PlaceTypes DEF Fresh
<1>1. TypeOK /\ LoopInv
  BY DEF IInv
<1>2. call \in [Requests -> {"new", "waiting", "returned", "failed", "refused"}]
  BY <1>1 DEF TypeOK
<1>3. ASSUME NEW r \in Requests, Generate(r)
      PROVE  Fresh(q)
  <2>1. /\ call[r] = "new" /\ SlicesStay /\ \A d \in Ranks : InboxStays(d)
        /\ InQueue' \subseteq InQueue \cup {r}
        /\ call'[q] = "new" => call[q] = "new"
    BY <1>1, <1>2, <1>3, GenerateEffect DEF QueueStays
  <2> QED
    BY <2>1 DEF SlicesStay, InboxStays
<1>4. CASE Decide
  <2>1. /\ \A d \in Ranks : InboxStays(d) /\ Slice(d)' \subseteq InQueue
        /\ InQueue' \subseteq InQueue
    BY <1>1, <1>4, DecideEffect DEF QueueStays
  <2>2. call' = call
    BY <1>4 DEF Decide, callerVars
  <2> QED
    BY <2>1, <2>2 DEF InboxStays
<1>5. CASE Share
  <2>1. QueueStays /\ inbox'[0] = <<>> /\ \A d \in Ranks : Slice(d)' = {}
    BY <1>1, <1>5, ShareEffect
  <2>2. \A d \in Peers : \E last \in Nat : InboxGrows(d, last)
    BY <1>1, <1>5, ShareEffect
  <2>3. call' = call
    BY <1>5 DEF Share
  <2>4. \A d \in Ranks : \A i \in DOMAIN inbox'[d] : q \in Sent(d, i)' =>
            q \in Slice(d) \/ \E j \in DOMAIN inbox[d] : q \in Sent(d, j)
    BY <1>1, <2>1, <2>2 DEF InboxGrows
  <2> QED
    BY <1>1, <2>1, <2>3, <2>4 DEF QueueStays
<1>6. ASSUME NEW p \in Peers, Take(p)
      PROVE  Fresh(q)
  <2>1. /\ QueueStays /\ SlicesStay /\ InboxShrinks(p)
        /\ \A d \in Ranks : d # p => InboxStays(d)
    BY <1>1, <1>6, TakeEffect
  <2>2. call' = call
    BY <1>6 DEF Take, callerVars
  <2>3. \A d \in Ranks : \A i \in DOMAIN inbox'[d] : q \in Sent(d, i)' =>
            \E j \in DOMAIN inbox[d] : q \in Sent(d, j)
    BY <1>1, <2>1 DEF InboxShrinks, InboxStays
  <2> QED
    BY <2>1, <2>2, <2>3 DEF QueueStays, SlicesStay
<1>7. CASE Drain \/ Elsewhere \/ \E d \in Ranks : EngineStep(d)
  <2>1. QueueStays /\ SlicesStay /\ \A d \in Ranks : InboxStays(d)
    BY <1>1, <1>7, DrainEffect, ElsewhereEffect, EngineStepEffect DEF PlacesStay
  <2>2. call'[q] = "new" => call[q] = "new"
    <3>1. CASE Drain
      BY <1>1, <3>1, DrainEffect DEF Resolve, callerVars
    <3>2. CASE Elsewhere
      BY <1>1, <3>2, ElsewhereEffect DEF ElsewhereCases, FailOutstanding
    <3>3. CASE \E d \in Ranks : EngineStep(d)
      <4>1. PICK d \in Ranks : EngineStep(d)
        BY <3>3
      <4>2. (\E done : Resolve(done)) \/ call' = call
        BY <4>1 DEF EngineStep, callerVars
      <4>3. ASSUME NEW done, Resolve(done)
            PROVE  call'[q] = "new" => call[q] = "new"
        BY <4>3 DEF Resolve
      <4> QED
        BY <4>2, <4>3
    <3> QED
      BY <1>7, <3>1, <3>2, <3>3
  <2> QED
    BY <2>1, <2>2 DEF QueueStays, SlicesStay, InboxStays
<1> QED
  BY <1>3, <1>4, <1>5, <1>6, <1>7, Steps

\* Only a step of the engine samples tokens, only Share stamps.
LEMMA StampSteps ==
    ASSUME TypeOK, LoopInv, [Next]_vars, NEW r \in Requests
    PROVE  /\ saw'[r] = saw[r] \/ \E e \in Ranks : EngineStep(e) /\ r \in Scheduled(e)
           /\ minVersion'[r] = minVersion[r] \/ (Share /\ \E d \in Ranks : r \in Slice(d))
<1>1. CASE (\E q \in Requests : Generate(q)) \/ Decide \/ Drain
  BY <1>1 DEF Generate, Decide, Drain, Resolve, engineVars, callerVars
<1>2. CASE Share
  <2>1. /\ saw' = saw
        /\ minVersion' = [q \in Requests |-> IF \E d \in Ranks : q \in Slice(d)
                                             THEN version[0] ELSE minVersion[q]]
    BY <1>2, ShareEffect DEF Share
  <2> QED
    BY <1>2, <2>1
<1>3. CASE Elsewhere
  BY <1>3, ElsewhereEffect
<1>4. CASE \E d \in Peers : Take(d)
  BY <1>4 DEF Take, callerVars
<1>5. CASE \E e \in Ranks : EngineStep(e)
  BY <1>5 DEF EngineStep, Resolve, callerVars
<1> QED
  BY <1>1, <1>2, <1>3, <1>4, <1>5, Steps

LEMMA FreshApart ==
    ASSUME IInv, NEW d \in Ranks, NEW r \in Batch(d)
    PROVE  ~Fresh(r) /\ r \in Requests
<1>1. TypeOK /\ ReservedInv /\ ApartInv /\ CallInv
  BY DEF IInv
<1>2. r \in Requests /\ call[r] # "new"
  BY <1>1, PlaceTypes DEF CallInv, Somewhere
<1> QED
  BY <1>1, <1>2, ApartFacts DEF Fresh

LEMMA FreshKeeps == IInv /\ [Next]_vars => FreshInv'
<1> SUFFICES ASSUME IInv, [Next]_vars, NEW r \in Requests, Fresh(r)'
             PROVE  saw'[r] = {}
  BY DEF FreshInv
<1>1. TypeOK /\ LoopInv /\ FreshInv
  BY DEF IInv, StampInv
<1>2. Fresh(r)
  BY FreshStays
<1>3. saw'[r] = saw[r]
  <2>1. ASSUME NEW e \in Ranks, EngineStep(e), r \in Scheduled(e)
        PROVE  FALSE
    BY <1>1, <1>2, <2>1, EngineStepEffect, FreshApart
  <2> QED
    BY <1>1, <2>1, StampSteps
<1> QED
  BY <1>1, <1>2, <1>3 DEF FreshInv

\* What rank d has and will have: nothing of it goes, except by Take, which
\* makes the first decision the one that rank d carries out.
LEMMA RankSteps ==
    ASSUME IInv, [Next]_vars, NEW d \in Peers
    PROVE  \/ Take(d)
           \/ /\ at[d] = "crashed" => at'[d] = "crashed"
              /\ \A k \in DOMAIN inbox[d] : k \in DOMAIN inbox'[d] /\ inbox'[d][k] = inbox[d][k]
              /\ version[d] <= version'[d]
              /\ at[d] = "pulling" => \/ at'[d] = "crashed"
                                      \/ target[d] = version'[d]
                                      \/ at'[d] = "pulling" /\ target'[d] = target[d]
<1> USE PlaceTypes, VersionTypes
<1>1. TypeOK /\ LoopInv /\ VersionInv
  BY DEF IInv
<1>2. ASSUME UNCHANGED <<inbox, version, target>>, at'[d] = at[d] \/ at'[d] = "crashed"
      PROVE  /\ at[d] = "crashed" => at'[d] = "crashed"
             /\ \A k \in DOMAIN inbox[d] : k \in DOMAIN inbox'[d] /\ inbox'[d][k] = inbox[d][k]
             /\ version[d] <= version'[d]
             /\ at[d] = "pulling" => \/ at'[d] = "crashed"
                                     \/ target[d] = version'[d]
                                     \/ at'[d] = "pulling" /\ target'[d] = target[d]
  BY <1>1, <1>2
<1>3. CASE (\E r \in Requests : Generate(r)) \/ Push \/ PullModelStateDict \/ Close \/ Drain
           \/ UNCHANGED vars
  BY <1>2, <1>3
     DEF Generate, Push, PullModelStateDict, Close, Drain, vars, loopVars, weightVars
<1>4. CASE Decide
  <2>1. UNCHANGED <<inbox, version, target>> /\ at' = [at EXCEPT ![0] = "sharing"]
    BY <1>4 DEF Decide, weightVars
  <2> QED
    BY <1>1, <1>2, <2>1
<1>5. CASE Share
  <2>1. /\ at'[d] = at[d] /\ target'[d] = target[d] /\ version' = version
        /\ \E last \in Nat : InboxGrows(d, last)
    BY <1>1, <1>5, ShareEffect DEF Share, weightVars
  <2> QED
    BY <1>1, <2>1 DEF InboxGrows
<1>6. ASSUME NEW p \in Peers, Take(p), p # d
      PROVE  /\ at[d] = "crashed" => at'[d] = "crashed"
             /\ \A k \in DOMAIN inbox[d] : k \in DOMAIN inbox'[d] /\ inbox'[d][k] = inbox[d][k]
             /\ version[d] <= version'[d]
             /\ at[d] = "pulling" => at'[d] = "pulling" /\ target'[d] = target[d]
  <2>1. at'[d] = at[d] /\ target'[d] = target[d] /\ inbox'[d] = inbox[d] /\ version' = version
    BY <1>1, <1>6, TakeEffect DEF Take, weightVars, InboxStays
  <2> QED
    BY <1>1, <2>1
<1>7. ASSUME NEW e \in Ranks, EngineStep(e)
      PROVE  UNCHANGED <<inbox, version, target, at[d]>> \/ (e = d /\ at[d] = "stepping")
  <2>1. \/ at' = [at EXCEPT ![e] = "ready"]
        \/ at' = [at EXCEPT ![e] = "stepping"]
    BY <1>7 DEF EngineStep
  <2> QED
    BY <1>1, <1>7, <2>1 DEF EngineStep, weightVars
<1>8. ASSUME NEW e \in Ranks, EngineStep(e), e = d
      PROVE  UNCHANGED <<inbox, version>> /\ at[d] = "stepping"
  BY <1>8 DEF EngineStep, weightVars
<1>9. ASSUME NEW e \in Ranks, PullDone(e)
      PROVE  /\ at[d] = "crashed" => at'[d] = "crashed"
             /\ UNCHANGED <<inbox, target>>
             /\ version[d] <= version'[d]
             /\ at[d] = "pulling" => target[d] = version'[d] \/ at'[d] = "pulling"
  <2>1. /\ at[e] = "pulling" /\ at' = [at EXCEPT ![e] = "ready"]
        /\ version' = [version EXCEPT ![e] = target[e]]
        /\ UNCHANGED <<inbox, target>>
    BY <1>9 DEF PullDone, Loaded
  <2> QED
    BY <1>1, <2>1 DEF VersionInv
<1>10. ASSUME NEW e \in Ranks, LoopRaises(e) \/ CloseReturns(e)
       PROVE  UNCHANGED <<inbox, version, target>> /\ (at'[d] = at[d] \/ at'[d] = "crashed")
  BY <1>1, <1>10 DEF LoopRaises, CloseReturns, loopVars, weightVars
<1>11. CASE \E p \in Peers : Take(p) /\ p # d
  BY <1>6, <1>11
<1>12. CASE \E e \in Ranks : EngineStep(e)
  BY <1>1, <1>2, <1>7, <1>8, <1>12
<1>13. CASE \E e \in Ranks : PullDone(e)
  BY <1>1, <1>9, <1>13
<1>14. CASE \E e \in Ranks : LoopRaises(e) \/ CloseReturns(e)
  BY <1>2, <1>10, <1>14
<1> QED
  BY <1>3, <1>4, <1>5, <1>11, <1>12, <1>13, <1>14, Steps DEF Elsewhere, Crash, BroadcastFails

LEMMA ReachStays ==
    ASSUME IInv, [Next]_vars, NEW d \in Peers, NEW i \in Nat, NEW v \in Int
    PROVE  /\ ~Take(d) /\ Reaches(d, i, v) => Reaches(d, i, v)'
           /\ Take(d) /\ Reaches(d, i + 1, v) => Reaches(d, i, v)'
<1> USE PlaceTypes, VersionTypes DEF IsPull
<1>1. TypeOK /\ LoopInv
  BY DEF IInv
<1>2. ASSUME ~Take(d), Reaches(d, i, v)
      PROVE  Reaches(d, i, v)'
  <2>1. /\ at[d] = "crashed" => at'[d] = "crashed"
        /\ \A k \in DOMAIN inbox[d] : k \in DOMAIN inbox'[d] /\ inbox'[d][k] = inbox[d][k]
        /\ version[d] <= version'[d]
        /\ at[d] = "pulling" => \/ at'[d] = "crashed"
                                \/ target[d] = version'[d]
                                \/ at'[d] = "pulling" /\ target'[d] = target[d]
    BY <1>2, RankSteps
  <2>2. version'[d] \in Int
    <3>1. version' = version \/ \E e \in Ranks : version' = [version EXCEPT ![e] = target[e]]
      BY <1>1, Steps DEF Generate, Decide, Share, Drain, EngineStep, Take, Elsewhere, Push,
         PullModelStateDict, Close, PullDone, Loaded, Crash, BroadcastFails, LoopRaises,
         CloseReturns, weightVars, vars
    <3> QED
      BY <1>1, <3>1
  <2>3. CASE \E j \in DOMAIN inbox[d] : j < i /\ IsPull(d, j) /\ v <= inbox[d][j].version
    BY <2>1, <2>3 DEF Reaches
  <2>4. CASE at[d] = "crashed" \/ v <= version[d] \/ (at[d] = "pulling" /\ v <= target[d])
    BY <1>1, <2>1, <2>2, <2>4 DEF Reaches
  <2> QED
    BY <1>2, <2>3, <2>4 DEF Reaches
<1>3. ASSUME Take(d), Reaches(d, i + 1, v)
      PROVE  Reaches(d, i, v)'
  <2>1. /\ at[d] = "ready" /\ InboxShrinks(d) /\ version' = version
        /\ inbox[d][1].action = "pull" => at'[d] = "pulling" /\ target'[d] = inbox[d][1].version
    BY <1>1, <1>3, TakeEffect DEF Take, weightVars
  <2>2. CASE v <= version[d]
    BY <2>1, <2>2 DEF Reaches
  <2>3. ASSUME NEW j \in DOMAIN inbox[d], j < i + 1, IsPull(d, j), v <= inbox[d][j].version
        PROVE  Reaches(d, i, v)'
    <3>1. CASE j = 1
      BY <2>1, <2>3, <3>1 DEF Reaches
    <3>2. CASE j # 1
      <4>1. PICK k \in DOMAIN inbox'[d] : j = k + 1
        BY <2>1, <2>3, <3>2 DEF InboxShrinks
      <4>2. k \in Nat /\ inbox'[d][k] = inbox[d][j] /\ k < i
        BY <1>1, <2>1, <2>3, <4>1, SMTT(30) DEF InboxShrinks
      <4> QED
        BY <2>3, <4>1, <4>2 DEF Reaches
    <3> QED
      BY <3>1, <3>2
  <2> QED
    BY <1>3, <2>1, <2>2, <2>3 DEF Reaches
<1> QED
  BY <1>2, <1>3

\* What rank 0 has told and will tell.
LEMMA LeaderSteps ==
    ASSUME IInv, [Next]_vars
    PROVE  \/ Share
           \/ /\ version'[0] = version[0] \/ (at[0] = "pulling" /\ version'[0] = target[0])
              /\ at'[0] = "pulling" => at[0] = "pulling" /\ target'[0] = target[0]
              /\ at[0] = "crashed" => at'[0] = "crashed"
              /\ \A d \in Peers : inbox'[d] = inbox[d] \/ Take(d)
<1> USE PlaceTypes, VersionTypes
<1>1. TypeOK /\ LoopInv
  BY DEF IInv
<1>2. ASSUME UNCHANGED <<inbox, version, target>>, at'[0] = at[0] \/ at'[0] # "pulling",
             at[0] = "crashed" => at'[0] = "crashed"
      PROVE  /\ version'[0] = version[0] \/ (at[0] = "pulling" /\ version'[0] = target[0])
             /\ at'[0] = "pulling" => at[0] = "pulling" /\ target'[0] = target[0]
             /\ at[0] = "crashed" => at'[0] = "crashed"
             /\ \A d \in Peers : inbox'[d] = inbox[d] \/ Take(d)
  BY <1>2
<1>3. CASE (\E r \in Requests : Generate(r)) \/ Push \/ PullModelStateDict \/ Close \/ Drain
           \/ UNCHANGED vars
  BY <1>2, <1>3
     DEF Generate, Push, PullModelStateDict, Close, Drain, vars, loopVars, weightVars
<1>4. CASE Decide
  <2>1. /\ UNCHANGED <<inbox, version, target>> /\ at' = [at EXCEPT ![0] = "sharing"]
        /\ at[0] = "ready"
    BY <1>4 DEF Decide, weightVars
  <2> QED
    BY <1>1, <1>2, <2>1
<1>5. ASSUME NEW p \in Peers, Take(p)
      PROVE  /\ UNCHANGED <<version, at[0], target[0]>>
             /\ \A d \in Peers : inbox'[d] = inbox[d] \/ Take(d)
  <2>1. /\ \A d \in Peers : d # p => inbox'[d] = inbox[d]
        /\ 0 \in Ranks /\ p # 0 /\ \A e \in Ranks : e # p => at'[e] = at[e] /\ target'[e] = target[e]
    BY <1>1, <1>5, TakeEffect DEF InboxStays, Peers, Ranks
  <2>2. version' = version
    BY <1>5 DEF Take, weightVars
  <2> QED
    BY <1>5, <2>1, <2>2
<1>6. ASSUME NEW e \in Ranks, EngineStep(e)
      PROVE  /\ UNCHANGED <<inbox, version, target>>
             /\ at'[0] = at[0] \/ (at[0] # "crashed" /\ at'[0] # "pulling")
  <2>1. /\ at[e] = "stepping" /\ UNCHANGED <<inbox, version, target>>
        /\ \/ at' = [at EXCEPT ![e] = "ready"]
           \/ at' = [at EXCEPT ![e] = "stepping"]
    BY <1>6 DEF EngineStep, weightVars
  <2> QED
    BY <1>1, <2>1
<1>7. ASSUME NEW e \in Ranks, PullDone(e)
      PROVE  /\ UNCHANGED <<inbox, target>>
             /\ version'[0] = version[0] \/ (at[0] = "pulling" /\ version'[0] = target[0])
             /\ at'[0] = at[0] \/ (at[0] = "pulling" /\ at'[0] = "ready")
  <2>1. /\ at[e] = "pulling" /\ at' = [at EXCEPT ![e] = "ready"]
        /\ version' = [version EXCEPT ![e] = target[e]]
        /\ UNCHANGED <<inbox, target>>
    BY <1>7 DEF PullDone, Loaded
  <2> QED
    BY <1>1, <2>1
<1>8. ASSUME NEW e \in Ranks, LoopRaises(e) \/ CloseReturns(e)
      PROVE  UNCHANGED <<inbox, version, target>> /\ (at'[0] = at[0] \/ at'[0] = "crashed")
  BY <1>1, <1>8 DEF LoopRaises, CloseReturns, loopVars, weightVars
<1>9. CASE \E p \in Peers : Take(p)
  BY <1>5, <1>9
<1>10. CASE \E e \in Ranks : EngineStep(e)
  BY <1>2, <1>6, <1>10
<1>11. CASE \E e \in Ranks : PullDone(e)
  BY <1>7, <1>11
<1>12. CASE \E e \in Ranks : LoopRaises(e) \/ CloseReturns(e)
  BY <1>2, <1>8, <1>12
<1> QED
  BY <1>3, <1>4, <1>9, <1>10, <1>11, <1>12, Steps DEF Elsewhere, Crash, BroadcastFails

LEMMA ReachGrows ==
    ASSUME TypeOK, NEW d \in Ranks, NEW i \in Nat, NEW v \in Int, Reaches(d, i, v)
    PROVE  Reaches(d, i + 1, v)
BY VersionTypes DEF Reaches

-----------------------------------------------------------------------------
(* The types are kept.                                                     *)

\* Resolve in two words: its results are the stamps.
LEMMA ResultType ==
    ASSUME TypeOK, NEW done \in SUBSET [request : Requests, version : Versions], Resolve(done)
    PROVE  /\ call' \in [Requests -> {"new", "waiting", "returned", "failed", "refused"}]
           /\ futures' \subseteq Requests
           /\ reserved' \in [Requests -> Ranks \cup {None}]
           /\ result' \in [Requests -> [min : Versions \cup {None}, max : Versions \cup {None}]]
<1> DEFINE last(r) == (CHOOSE c \in done : c.request = r).version
           rs == {c.request : c \in done}
<1>1. /\ call' = [r \in Requests |-> IF r \in rs THEN "returned" ELSE call[r]]
      /\ futures' = futures \ rs
      /\ reserved' = [r \in Requests |-> IF r \in rs THEN None ELSE reserved[r]]
      /\ result' = [r \in Requests |-> IF r \in rs THEN [min |-> minVersion[r], max |-> last(r)]
                                       ELSE result[r]]
  BY Zenon DEF Resolve
<1>2. ASSUME NEW r \in rs
      PROVE  last(r) \in Versions
  <2>1. \E c \in done : c.request = r
    OBVIOUS
  <2>2. (CHOOSE c \in done : c.request = r) \in done
    BY <2>1
  <2> QED
    BY <2>2
<1> HIDE DEF last, rs
<1>3. /\ call \in [Requests -> {"new", "waiting", "returned", "failed", "refused"}]
      /\ futures \subseteq Requests
      /\ reserved \in [Requests -> Ranks \cup {None}]
      /\ minVersion \in [Requests -> Versions \cup {None}]
      /\ result \in [Requests -> [min : Versions \cup {None}, max : Versions \cup {None}]]
  BY DEF TypeOK
<1>4. /\ call' \in [Requests -> {"new", "waiting", "returned", "failed", "refused"}]
      /\ futures' \subseteq Requests
      /\ reserved' \in [Requests -> Ranks \cup {None}]
  BY <1>1, <1>3
<1>5. \A r \in Requests : (IF r \in rs THEN [min |-> minVersion[r], max |-> last(r)] ELSE result[r])
                            \in [min : Versions \cup {None}, max : Versions \cup {None}]
  BY <1>2, <1>3
<1>6. result' \in [Requests -> [min : Versions \cup {None}, max : Versions \cup {None}]]
  BY <1>1, <1>5
<1> QED
  BY <1>4, <1>6

LEMMA CallerTypes ==
    ASSUME IInv, [Next]_vars
    PROVE  /\ call' \in [Requests -> {"new", "waiting", "returned", "failed", "refused"}]
           /\ futures' \subseteq Requests
           /\ reserved' \in [Requests -> Ranks \cup {None}]
           /\ result' \in [Requests -> [min : Versions \cup {None}, max : Versions \cup {None}]]
           /\ minVersion' \in [Requests -> Versions \cup {None}]
<1> USE PlaceTypes
<1>1. TypeOK /\ LoopInv
  BY DEF IInv
<1>2. /\ call \in [Requests -> {"new", "waiting", "returned", "failed", "refused"}]
      /\ futures \subseteq Requests
      /\ reserved \in [Requests -> Ranks \cup {None}]
      /\ result \in [Requests -> [min : Versions \cup {None}, max : Versions \cup {None}]]
      /\ minVersion \in [Requests -> Versions \cup {None}]
      /\ version \in [Ranks -> Versions]
  BY <1>1 DEF TypeOK
<1>3. CASE \E r \in Requests : Generate(r)
  BY <1>2, <1>3 DEF Generate, routerVars
<1>4. CASE Decide
  <2>1. UNCHANGED <<call, futures, result, minVersion>>
    BY <1>4 DEF Decide, callerVars
  <2>2. reserved' = reserved \/ \E where \in [InQueue -> Ranks] : Reserve(where)
    BY <1>1, <1>4, DecideEffect
  <2> QED
    BY <1>2, <2>1, <2>2 DEF Reserve
<1>5. CASE Share
  <2>1. UNCHANGED <<call, futures, result, reserved>>
    BY <1>5 DEF Share, routerVars
  <2>2. minVersion' = [r \in Requests |-> IF \E d \in Ranks : r \in Slice(d)
                                          THEN version[0] ELSE minVersion[r]]
    BY <1>1, <1>5, ShareEffect
  <2>3. version[0] \in Versions
    BY <1>1, <1>2
  <2> QED
    BY <1>2, <2>1, <2>2, <2>3
<1>6. CASE \E p \in Peers : Take(p)
  BY <1>2, <1>6 DEF Take, callerVars, routerVars
<1>7. ASSUME NEW e \in Ranks, EngineStep(e)
      PROVE  \/ UNCHANGED <<callerVars, routerVars>>
             \/ /\ minVersion' = minVersion
                /\ \E done \in SUBSET [request : Requests, version : Versions] : Resolve(done)
  <2>1. PICK finished \in SUBSET Scheduled(e) :
            Resolve(Done(e, finished)) \/ UNCHANGED <<callerVars, routerVars>>
    BY <1>1, <1>7, EngineStepEffect
  <2>2. finished \subseteq Requests
    BY <1>1, <1>7, EngineStepEffect
  <2>3. Done(e, finished) \in SUBSET [request : Requests, version : Versions]
    BY <1>2, <2>2 DEF Done, Completion
  <2>4. Resolve(Done(e, finished)) => minVersion' = minVersion
    BY DEF Resolve
  <2> QED
    BY <2>1, <2>3, <2>4, Zenon
<1>8. CASE Drain
  <2>1. 1 \in DOMAIN port /\ (Resolve(port[1]) \/ UNCHANGED <<callerVars, routerVars>>)
    BY <1>1, <1>8, DrainEffect DEF PortShrinks
  <2>2. port[1] \in SUBSET [request : Requests, version : Versions]
    BY <1>1, <2>1 DEF TypeOK
  <2>3. CASE Resolve(port[1])
    BY <1>1, <1>2, <2>2, <2>3, ResultType DEF Resolve
  <2>4. CASE UNCHANGED <<callerVars, routerVars>>
    BY <1>2, <2>4 DEF callerVars, routerVars
  <2> QED
    BY <2>1, <2>3, <2>4
<1>9. CASE Elsewhere
  <2>1. UNCHANGED <<reserved, minVersion, result>> /\ ElsewhereCases
    BY <1>1, <1>9, ElsewhereEffect
  <2>2. UNCHANGED <<call, futures>> \/ FailOutstanding
    BY <2>1 DEF ElsewhereCases
  <2> QED
    BY <1>2, <2>1, <2>2 DEF FailOutstanding
<1>10. CASE \E e \in Ranks : EngineStep(e)
  <2>1. CASE UNCHANGED <<callerVars, routerVars>>
    BY <1>2, <2>1 DEF callerVars, routerVars
  <2>2. ASSUME NEW done \in SUBSET [request : Requests, version : Versions], Resolve(done),
               minVersion' = minVersion
        PROVE  /\ call' \in [Requests -> {"new", "waiting", "returned", "failed", "refused"}]
               /\ futures' \subseteq Requests
               /\ reserved' \in [Requests -> Ranks \cup {None}]
               /\ result' \in [Requests -> [min : Versions \cup {None}, max : Versions \cup {None}]]
               /\ minVersion' \in [Requests -> Versions \cup {None}]
    BY <1>1, <1>2, <2>2, ResultType
  <2> QED
    BY <1>7, <1>10, <2>1, <2>2
<1> QED
  BY <1>3, <1>4, <1>5, <1>6, <1>8, <1>9, <1>10, Steps

LEMMA DecisionTypes ==
    ASSUME IInv, [Next]_vars
    PROVE  /\ decision' \in DecisionType
           /\ inbox' \in [Ranks -> Seq(DecisionType)]
           /\ \A d \in Ranks : Len(inbox'[d]) <= MaxBehind
           /\ queued' \in Seq(Requests)
<1> USE PlaceTypes
<1>1. TypeOK /\ LoopInv
  BY DEF IInv
<1>2. /\ decision \in DecisionType /\ inbox \in [Ranks -> Seq(DecisionType)]
      /\ \A d \in Ranks : Len(inbox[d]) <= MaxBehind
      /\ queued \in Seq(Requests) /\ pullVersion \in Versions \cup {None}
      /\ MaxBehind \in Nat
  BY <1>1, EngineAssumption DEF TypeOK
<1>3. NoSlices \in [Ranks -> Seq(Requests)]
  BY DEF NoSlices
<1>4. \A action \in {"none", "close", "pull", "step"} : \A v \in Versions \cup {None} :
          \A slices \in [Ranks -> Seq(Requests)] : Decision(action, slices, v) \in DecisionType
  BY DEF DecisionType, Decision
<1>5. NoDecision \in DecisionType
  BY <1>3, <1>4 DEF NoDecision
<1>6. CASE (\E r \in Requests : Generate(r)) \/ Drain \/ \E e \in Ranks : EngineStep(e)
  <2>1. UNCHANGED <<decision, inbox>>
    BY <1>6 DEF Generate, Drain, EngineStep, loopVars
  <2>2. queued' = queued \/ \E r \in Requests : queued' = Append(queued, r)
    BY <1>6 DEF Generate, Drain, EngineStep, inboxVars
  <2>3. queued' \in Seq(Requests)
    BY <1>2, <2>2, AppendElements
  <2> QED
    BY <1>2, <2>1, <2>3
<1>7. CASE Decide
  <2>1. inbox' = inbox /\ (queued' = queued \/ queued' = <<>>)
    BY <1>7 DEF Decide
  <2>2. \/ decision' = Decision("close", NoSlices, None)
        \/ decision' = Decision("pull", NoSlices, pullVersion)
        \/ \E where \in [Elements(queued) -> Ranks] :
                decision' = Decision("step", Slices(where), None)
    BY <1>7 DEF Decide
  <2>3. ASSUME NEW where \in [Elements(queued) -> Ranks]
        PROVE  Slices(where) \in [Ranks -> Seq(Requests)]
    <3>1. \A d \in Ranks : Kept(queued, {r \in DOMAIN where : where[r] = d}) \in Seq(Requests)
      BY <1>2, KeptElements
    <3> QED
      BY <3>1 DEF Slices
  <2>4. decision' \in DecisionType
    <3>1. ASSUME NEW action \in {"close", "pull"}, NEW v \in Versions \cup {None},
                 decision' = Decision(action, NoSlices, v)
          PROVE  decision' \in DecisionType
      BY <1>3, <1>4, <3>1
    <3>2. ASSUME NEW where \in [Elements(queued) -> Ranks],
                 decision' = Decision("step", Slices(where), None)
          PROVE  decision' \in DecisionType
      BY <1>4, <2>3, <3>2
    <3> QED
      BY <1>2, <2>2, <3>1, <3>2
  <2>5. <<>> \in Seq(Requests)
    OBVIOUS
  <2>6. queued' \in Seq(Requests)
    BY <1>2, <2>1, <2>5
  <2> QED
    BY <1>2, <2>1, <2>4, <2>6
<1>8. CASE Share
  <2>1. /\ decision' = NoDecision /\ queued' = queued
        /\ \A d \in Peers : HasRoom(d)
        /\ inbox' = [d \in Ranks |-> IF d = 0 THEN <<>> ELSE Append(inbox[d], decision)]
    BY <1>8 DEF Share, inboxVars
  <2>2. ASSUME NEW d \in Ranks
        PROVE  inbox'[d] \in Seq(DecisionType) /\ Len(inbox'[d]) <= MaxBehind
    <3>1. CASE d = 0
      BY <1>2, <2>1, <3>1
    <3>2. CASE d # 0
      <4>1. inbox'[d] = Append(inbox[d], decision) /\ inbox[d] \in Seq(DecisionType)
            /\ Len(inbox[d]) < MaxBehind
        BY <1>1, <1>2, <2>1, <3>2 DEF HasRoom
      <4>2. inbox'[d] \in Seq(DecisionType) /\ Len(inbox'[d]) = Len(inbox[d]) + 1 /\ Len(inbox[d]) \in Nat
        BY <1>2, <4>1
      <4> QED
        BY <1>2, <4>1, <4>2
    <3> QED
      BY <3>1, <3>2
  <2>3. inbox' \in [Ranks -> Seq(DecisionType)]
    <3>1. inbox' = [d \in Ranks |-> inbox'[d]]
      BY <2>1
    <3> QED
      BY <2>2, <3>1
  <2> QED
    BY <1>2, <1>5, <2>1, <2>2, <2>3
<1>9. ASSUME NEW p \in Peers, Take(p)
      PROVE  /\ UNCHANGED <<decision, queued>>
             /\ inbox' \in [Ranks -> Seq(DecisionType)]
             /\ \A d \in Ranks : Len(inbox'[d]) <= MaxBehind
  <2>1. UNCHANGED <<decision, queued>> /\ inbox' = [inbox EXCEPT ![p] = Tail(@)] /\ inbox[p] # <<>>
    BY <1>9 DEF Take, inboxVars
  <2>2. inbox[p] \in Seq(DecisionType) /\ Len(inbox[p]) <= MaxBehind /\ Len(inbox[p]) \in Nat
    BY <1>1, <1>2
  <2>3. Tail(inbox[p]) \in Seq(DecisionType) /\ Len(Tail(inbox[p])) + 1 = Len(inbox[p])
        /\ Len(Tail(inbox[p])) \in Nat
    BY <2>1, <2>2
  <2> QED
    BY <1>1, <1>2, <2>1, <2>2, <2>3
<1>10. CASE \E p \in Peers : Take(p)
  BY <1>2, <1>9, <1>10
<1>11. CASE Elsewhere
  BY <1>1, <1>2, <1>11, ElsewhereEffect
<1> QED
  BY <1>6, <1>7, <1>8, <1>10, <1>11, Steps

LEMMA LoopTypes ==
    ASSUME IInv, [Next]_vars
    PROVE  /\ at' \in [Ranks -> {"ready", "sharing", "stepping", "pulling", "stopped", "crashed"}]
           /\ target' \in [Ranks -> Versions \cup {None}]
           /\ left' \in [Ranks -> 0..Burst]
           /\ engine' \in [Ranks -> Seq(Requests)]
<1> USE PlaceTypes
<1>1. TypeOK /\ LoopInv
  BY DEF IInv
<1>2. /\ at \in [Ranks -> {"ready", "sharing", "stepping", "pulling", "stopped", "crashed"}]
      /\ target \in [Ranks -> Versions \cup {None}]
      /\ left \in [Ranks -> 0..Burst]
      /\ engine \in [Ranks -> Seq(Requests)]
      /\ decision \in DecisionType /\ inbox \in [Ranks -> Seq(DecisionType)]
      /\ Burst \in Nat
  BY <1>1, EngineAssumption DEF TypeOK
<1>3. CASE (\E r \in Requests : Generate(r)) \/ Drain
  BY <1>2, <1>3 DEF Generate, Drain, loopVars, engineVars
<1>4. CASE Decide
  <2>1. UNCHANGED <<target, left, engine>> /\ at' = [at EXCEPT ![0] = "sharing"]
    BY <1>4 DEF Decide, engineVars
  <2> QED
    BY <1>2, <2>1
<1>5. CASE Share
  <2>1. Apply(0, decision) /\ (decision.action # "step" => Elements(decision.slices[0]) = {})
    BY <1>1, <1>5 DEF Share, LoopInv, Slice
  <2> QED
    BY <1>1, <1>2, <2>1, ApplyEffect
<1>6. ASSUME NEW p \in Peers, Take(p)
      PROVE  \E dec \in DecisionType :
                 Apply(p, dec) /\ (dec.action # "step" => Elements(dec.slices[p]) = {})
  <2>1. inbox[p] \in Seq(DecisionType) /\ inbox[p] # <<>> /\ Apply(p, Head(inbox[p]))
    BY <1>1, <1>2, <1>6 DEF Take
  <2>2. 1 \in DOMAIN inbox[p] /\ Head(inbox[p]) = inbox[p][1] /\ inbox[p][1] \in DecisionType
    BY <2>1
  <2>3. inbox[p][1].action # "step" => Elements(inbox[p][1].slices[p]) = {}
    BY <1>1, <2>2 DEF LoopInv, Sent
  <2> QED
    BY <2>1, <2>2, <2>3
<1>7. CASE \E p \in Peers : Take(p)
  BY <1>1, <1>6, <1>7, ApplyEffect
<1>8. ASSUME NEW e \in Ranks, EngineStep(e)
      PROVE  /\ at' \in [Ranks -> {"ready", "sharing", "stepping", "pulling", "stopped", "crashed"}]
             /\ target' = target
             /\ left' \in [Ranks -> 0..Burst]
             /\ engine' \in [Ranks -> Seq(Requests)]
  <2>1. /\ at[e] = "stepping" /\ target' = target
        /\ left' = [left EXCEPT ![e] = @ - 1]
        /\ at' = [at EXCEPT ![e] = "ready"] \/ at' = [at EXCEPT ![e] = "stepping"]
    BY <1>8 DEF EngineStep
  <2>2. left[e] - 1 \in 0..Burst
    BY <1>1, <1>2, <2>1 DEF LoopInv
  <2>3. engine' \in [Ranks -> Seq(Requests)]
    BY <1>1, <1>8, EngineStepEffect
  <2> QED
    BY <1>2, <2>1, <2>2, <2>3
<1>9. CASE \E e \in Ranks : EngineStep(e)
  BY <1>2, <1>8, <1>9
<1>10. CASE Elsewhere
  <2>1. UNCHANGED <<left, engine>>
    BY <1>1, <1>10, ElsewhereEffect
  <2>2. target' = target
    BY <1>10 DEF Elsewhere, Push, PullModelStateDict, Close, PullDone, Crash, BroadcastFails,
                 LoopRaises, CloseReturns, loopVars, vars
  <2>3. at' = at \/ \E d \in Ranks : at' = [at EXCEPT ![d] = "ready"] \/ at' = [at EXCEPT ![d] = "crashed"]
    BY <1>10 DEF Elsewhere, Push, PullModelStateDict, Close, PullDone, Crash, BroadcastFails,
                 LoopRaises, CloseReturns, loopVars, vars
  <2> QED
    BY <1>2, <2>1, <2>2, <2>3
<1> QED
  BY <1>3, <1>4, <1>5, <1>7, <1>9, <1>10, Steps

LEMMA OtherTypes ==
    ASSUME IInv, [Next]_vars
    PROVE  /\ pullCall' \in {"none", "waiting"}
           /\ pullVersion' \in Versions \cup {None}
           /\ closing' \in BOOLEAN
           /\ closed' \in [Ranks -> BOOLEAN]
           /\ version' \in [Ranks -> Versions]
           /\ draining' \in BOOLEAN
           /\ weights' \in [Ranks -> Versions]
           /\ stored' \in Versions
<1> USE PlaceTypes
<1>1. TypeOK /\ VersionInv
  BY DEF IInv
<1>2. /\ pullCall \in {"none", "waiting"}
      /\ pullVersion \in Versions \cup {None}
      /\ closing \in BOOLEAN
      /\ closed \in [Ranks -> BOOLEAN]
      /\ version \in [Ranks -> Versions]
      /\ draining \in BOOLEAN
      /\ weights \in [Ranks -> Versions]
      /\ stored \in Versions
  BY <1>1 DEF TypeOK
<1> USE DEF inboxVars, weightVars, fanInVars, closeVars
<1>3. CASE (\E r \in Requests : Generate(r)) \/ Decide \/ Share \/ Drain
           \/ (\E p \in Peers : Take(p)) \/ (\E e \in Ranks : EngineStep(e))
  <2>1. /\ UNCHANGED <<pullCall, pullVersion, closing, closed, version, weights, stored>>
        /\ draining' = draining \/ draining' = FALSE
    BY <1>3 DEF Generate, Decide, Share, Drain, Take, EngineStep
  <2> QED
    BY <1>2, <2>1
<1>4. CASE Push \/ PullModelStateDict \/ Close \/ UNCHANGED vars
  <2>1. stored < MaxVersion => stored + 1 \in Versions
    BY <1>2, EngineAssumption DEF Versions
  <2> QED
    BY <1>2, <1>4, <2>1 DEF Push, PullModelStateDict, Close, vars
<1>5. ASSUME NEW e \in Ranks, PullDone(e)
      PROVE  /\ pullCall' \in {"none", "waiting"} /\ pullVersion' \in Versions \cup {None}
             /\ version' \in [Ranks -> Versions] /\ weights' \in [Ranks -> Versions]
             /\ UNCHANGED <<closing, closed, draining, stored>>
  <2>1. target[e] \in Versions
    BY <1>1, <1>5 DEF PullDone, VersionInv
  <2>2. /\ version' = [version EXCEPT ![e] = target[e]]
        /\ weights' = [weights EXCEPT ![e] = stored]
        /\ UNCHANGED <<closing, closed, draining, stored>>
        /\ \/ pullCall' = "none" /\ pullVersion' = None
           \/ UNCHANGED <<pullCall, pullVersion>>
    BY <1>5 DEF PullDone, Loaded
  <2> QED
    BY <1>2, <2>1, <2>2
<1>6. ASSUME NEW e \in Ranks, LoopRaises(e) \/ CloseReturns(e)
      PROVE  /\ pullCall' \in {"none", "waiting"} /\ pullVersion' \in Versions \cup {None}
             /\ UNCHANGED <<closing, version, weights, stored>>
             /\ draining' \in BOOLEAN /\ closed' \in [Ranks -> BOOLEAN]
  BY <1>2, <1>6 DEF LoopRaises, CloseReturns, FailOutstanding
<1>7. CASE \E e \in Ranks : PullDone(e)
  BY <1>2, <1>5, <1>7
<1>8. CASE \E e \in Ranks : LoopRaises(e) \/ CloseReturns(e)
  BY <1>2, <1>6, <1>8
<1> QED
  BY <1>3, <1>4, <1>7, <1>8, Steps DEF Elsewhere, Crash, BroadcastFails

LEMMA EngineTypes ==
    ASSUME IInv, [Next]_vars
    PROVE  /\ saw' \in [Requests -> SUBSET Versions]
           /\ port' \in Seq(SUBSET [request : Requests, version : Versions])
<1> USE PlaceTypes
<1>1. TypeOK /\ LoopInv
  BY DEF IInv
<1>2. /\ saw \in [Requests -> SUBSET Versions] /\ version \in [Ranks -> Versions]
      /\ port \in Seq(SUBSET [request : Requests, version : Versions])
  BY <1>1 DEF TypeOK
<1>3. CASE (\E r \in Requests : Generate(r)) \/ Decide \/ Share \/ \E p \in Peers : Take(p)
  BY <1>2, <1>3 DEF Generate, Decide, Share, Take, engineVars, fanInVars
<1>4. CASE Elsewhere
  BY <1>1, <1>2, <1>4, ElsewhereEffect
<1>5. CASE Drain
  <2>1. saw' = saw /\ port # <<>> /\ port' = Tail(port)
    BY <1>5 DEF Drain, engineVars
  <2> QED
    BY <1>2, <2>1
<1>6. ASSUME NEW e \in Ranks, EngineStep(e)
      PROVE  /\ saw' \in [Requests -> SUBSET Versions]
             /\ port' \in Seq(SUBSET [request : Requests, version : Versions])
  <2>1. saw' = [r \in Requests |-> IF r \in Scheduled(e) THEN saw[r] \cup {version[e]} ELSE saw[r]]
    BY <1>6 DEF EngineStep
  <2>2. saw' \in [Requests -> SUBSET Versions]
    BY <1>2, <2>1
  <2>3. PICK finished \in SUBSET Scheduled(e) : PortStays \/ port' = Append(port, Done(e, finished))
    BY <1>1, <1>6, EngineStepEffect
  <2>4. finished \subseteq Requests
    BY <1>1, <1>6, EngineStepEffect
  <2>5. Done(e, finished) \in SUBSET [request : Requests, version : Versions]
    BY <1>2, <2>4 DEF Done, Completion
  <2>6. CASE PortStays
    BY <1>2, <2>2, <2>6 DEF PortStays
  <2>7. CASE port' = Append(port, Done(e, finished))
    BY <1>2, <2>2, <2>5, <2>7, AppendElements
  <2> QED
    BY <2>3, <2>6, <2>7
<1> QED
  BY <1>3, <1>4, <1>5, <1>6, Steps

LEMMA TypeKeeps == IInv /\ [Next]_vars => TypeOK'
<1> SUFFICES ASSUME IInv, [Next]_vars
             PROVE  TypeOK'
  OBVIOUS
<1>1. load' \in [Ranks -> 0..Cardinality(Requests)]
  <2>1. /\ LoadsMatch' /\ (~Serving' => load' = load) /\ load' = [d \in Ranks |-> load'[d]]
    BY LoadsKeeps
  <2>2. CASE ~Serving'
    BY <2>1, <2>2 DEF IInv, TypeOK
  <2>3. ASSUME Serving', NEW d \in Ranks
        PROVE  load'[d] \in 0..Cardinality(Requests)
    <3>1. load'[d] = Cardinality({r \in futures' : reserved'[r] = d})
      BY <2>1, <2>3 DEF LoadsMatch, Serving
    <3> DEFINE mine == {r \in futures' : reserved'[r] = d}
    <3>2. mine \in SUBSET Requests
      BY CallerTypes
    <3> HIDE DEF mine
    <3>3. /\ Cardinality(mine) <= Cardinality(Requests) /\ Cardinality(mine) \in Nat
          /\ Cardinality(Requests) \in Nat
      BY <3>2, EngineAssumption, FS_Subset, FS_CardinalityType
    <3>4. Cardinality(mine) \in 0..Cardinality(Requests)
      BY <3>3
    <3> QED
      BY <3>1, <3>4 DEF mine
  <2> QED
    BY <2>1, <2>2, <2>3
<1>2. tokens' \in [Requests -> 0..MaxTokens]
  BY TokenKeeps
<1> QED
  BY <1>1, <1>2, CallerTypes, DecisionTypes, LoopTypes, OtherTypes, EngineTypes DEF TypeOK

-----------------------------------------------------------------------------
(* The stamps.                                                             *)

LEMMA FollowKeeps == IInv /\ [Next]_vars => FollowInv'
<1> SUFFICES ASSUME IInv, [Next]_vars, NEW d \in Peers, at'[0] # "crashed",
                    NEW n \in Nat, n = Len(inbox'[d]) + 1, NEW w \in Int, w = version'[0],
                    NEW u \in Int, u = target'[0]
             PROVE  Reaches(d, n, w)' /\ (at'[0] = "pulling" => Reaches(d, n, u)')
  <2>1. ASSUME IInv, [Next]_vars
        PROVE  /\ \A d \in Peers : Len(inbox'[d]) + 1 \in Nat
               /\ version'[0] \in Int /\ target'[0] \in Int
    <3>1. TypeOK' /\ 0 \in Ranks /\ \A d \in Peers : d \in Ranks
      BY <2>1, TypeKeeps, PlaceTypes DEF IInv
    <3>2. \A v \in Versions \cup {None} : v \in Int
      BY EngineAssumption DEF Versions, None
    <3>3. /\ version' \in [Ranks -> Versions] /\ target' \in [Ranks -> Versions \cup {None}]
          /\ inbox' \in [Ranks -> Seq(DecisionType)]
      BY <3>1 DEF TypeOK
    <3> QED
      BY <3>1, <3>2, <3>3
  <2> QED
    BY <2>1 DEF FollowInv, Reaches, IsPull
<1> USE PlaceTypes, VersionTypes
<1>1. TypeOK /\ LoopInv /\ FollowInv /\ VersionInv
  BY DEF IInv, StampInv
<1>2. PICK m \in Nat : m = Len(inbox[d]) + 1
  BY <1>1
<1>3. /\ at[0] # "crashed" => Reaches(d, m, version[0])
      /\ at[0] # "crashed" /\ at[0] = "pulling" => Reaches(d, m, target[0])
  BY <1>1, <1>2 DEF FollowInv
<1>4. CASE Share
  <2>1. /\ at[0] = "sharing" /\ Len(inbox'[d]) = Len(inbox[d]) + 1
        /\ at'[0] = "pulling" => decision.action = "pull" /\ target'[0] = decision.version
    BY <1>1, <1>4, ShareEffect
  <2>2. \E last \in Nat : InboxGrows(d, last)
    BY <1>1, <1>4, ShareEffect
  <2>3. version' = version
    BY <1>4 DEF Share, weightVars
  <2>4. ~Take(d)
    <3>1. Take(d) => Len(inbox'[d]) + 1 = Len(inbox[d])
      BY <1>1, TakeEffect
    <3> QED
      BY <1>1, <1>2, <2>1, <3>1
  <2>5. n = m + 1 /\ Reaches(d, m, w)
    BY <1>2, <1>3, <2>1, <2>3
  <2>6. Reaches(d, m + 1, w)
    BY <1>1, <2>5, ReachGrows
  <2>7. Reaches(d, n, w)'
    <3>1. Reaches(d, n, w)
      BY <2>5, <2>6
    <3> QED
      BY <2>4, <3>1, ReachStays
  <2>8. /\ m \in DOMAIN inbox'[d] /\ inbox'[d][m] = decision /\ m < n
        /\ u <= u
    BY <1>2, <2>2, <2>5 DEF InboxGrows
  <2>9. at'[0] = "pulling" => Reaches(d, n, u)'
    BY <2>1, <2>8 DEF Reaches, IsPull
  <2> QED
    BY <2>7, <2>9
<1>5. CASE ~Share
  <2>1. /\ version'[0] = version[0] \/ (at[0] = "pulling" /\ version'[0] = target[0])
        /\ at'[0] = "pulling" => at[0] = "pulling" /\ target'[0] = target[0]
        /\ at[0] # "crashed"
        /\ inbox'[d] = inbox[d] \/ Take(d)
    BY <1>5, LeaderSteps
  <2>2. Reaches(d, m, w) /\ (at'[0] = "pulling" => Reaches(d, m, u))
    BY <1>3, <2>1
  <2>3. CASE Take(d)
    <3>1. m = n + 1
      <4>1. Len(inbox'[d]) + 1 = Len(inbox[d])
        BY <1>1, <2>3, TakeEffect
      <4> QED
        BY <1>2, <4>1
    <3>2. Reaches(d, n + 1, w) /\ (at'[0] = "pulling" => Reaches(d, n + 1, u))
      BY <2>2, <3>1
    <3> QED
      BY <2>3, <3>2, ReachStays
  <2>4. CASE ~Take(d)
    <3>1. n = m
      BY <1>2, <2>1, <2>4
    <3>2. Reaches(d, n, w) /\ (at'[0] = "pulling" => Reaches(d, n, u))
      BY <2>2, <3>1
    <3> QED
      BY <2>4, <3>2, ReachStays
  <2> QED
    BY <2>3, <2>4
<1> QED
  BY <1>4, <1>5

\* A stamp is only put on a request that is being shared, a token only given
\* to one that is in an engine.
LEMMA OldStamp ==
    ASSUME IInv, [Next]_vars, NEW r \in Requests
    PROVE  /\ (\A d \in Ranks : r \notin Slice(d)) => minVersion'[r] = minVersion[r]
           /\ ~Share => minVersion'[r] = minVersion[r]
           /\ (\A d \in Ranks : r \notin Batch(d)) => saw'[r] = saw[r]
<1>1. TypeOK /\ LoopInv
  BY DEF IInv
<1>2. \A e \in Ranks : EngineStep(e) /\ r \in Scheduled(e) => r \in Batch(e)
  BY <1>1, EngineStepEffect
<1> QED
  BY <1>1, <1>2, StampSteps

LEMMA ReachKeeps == IInv /\ [Next]_vars => ReachInv'
<1> SUFFICES ASSUME IInv, [Next]_vars, NEW d \in Ranks, NEW i \in DOMAIN inbox'[d],
                    NEW r \in Sent(d, i)', NEW v, v = minVersion'[r]
             PROVE  Reaches(d, i, v)'
  BY DEF ReachInv, Reaches, IsPull
<1> USE PlaceTypes, VersionTypes
<1>1. TypeOK /\ LoopInv /\ ReservedInv /\ ApartInv /\ FollowInv /\ ReachInv /\ LoopInv' /\ TypeOK'
  BY LoopKeeps, TypeKeeps DEF IInv, StampInv
<1>2. d \in Peers
  BY <1>1 DEF LoopInv
<1>3. i \in Nat /\ r \in Requests
  <2>1. inbox'[d] \in Seq(DecisionType)
    BY <1>1 DEF TypeOK
  <2>2. i \in Nat /\ inbox'[d][i] \in DecisionType
    BY <2>1
  <2>3. inbox'[d][i].slices[d] \in Seq(Requests)
    BY <2>2 DEF DecisionType
  <2> QED
    BY <2>2, <2>3, ElementsAmong DEF Sent
<1>4. \A q \in Requests : minVersion[q] \in Int
  <2>1. \A q \in Requests : minVersion[q] \in Versions \cup {None}
    BY <1>1 DEF TypeOK
  <2>2. Versions \cup {None} \subseteq Int
    BY EngineAssumption DEF Versions, None
  <2> QED
    BY <2>1, <2>2
<1>5. CASE Share
  <2>1. PICK last \in Nat : InboxGrows(d, last)
    BY <1>1, <1>2, <1>5, ShareEffect
  <2>2. at[0] = "sharing" /\ Len(inbox'[d]) = Len(inbox[d]) + 1
    BY <1>1, <1>2, <1>5, ShareEffect
  <2>3. ~Take(d)
    <3>1. Take(d) => Len(inbox'[d]) + 1 = Len(inbox[d])
      BY <1>1, <1>2, TakeEffect
    <3> QED
      BY <1>1, <2>2, <3>1
  <2>4. CASE i = last
    <3>1. r \in Slice(d) /\ last = Len(inbox[d]) + 1
      BY <2>1, <2>4 DEF InboxGrows
    <3>2. v = version[0]
      <4>1. minVersion' = [q \in Requests |-> IF \E e \in Ranks : q \in Slice(e)
                                              THEN version[0] ELSE minVersion[q]]
        BY <1>1, <1>5, ShareEffect
      <4> QED
        BY <1>3, <3>1, <4>1
    <3>3. Reaches(d, last, version[0])
      BY <1>1, <1>2, <2>2, <3>1 DEF FollowInv
    <3>4. Reaches(d, i, v) /\ v \in Int
      BY <1>1, <2>4, <3>2, <3>3
    <3> QED
      BY <1>2, <1>3, <2>3, <3>4, ReachStays
  <2>5. CASE i # last
    <3>1. i \in DOMAIN inbox[d] /\ r \in Sent(d, i)
      BY <2>1, <2>5 DEF InboxGrows
    <3>2. \A e \in Ranks : r \notin Slice(e)
      <4>1. r \notin Slice(d)
        BY <1>1, <3>1 DEF ApartInv
      <4>2. \A e \in Ranks : e # d => r \notin Slice(e)
        BY <1>1, <3>1, ApartFacts
      <4> QED
        BY <4>1, <4>2
    <3>3. v = minVersion[r]
      BY <1>3, <3>2, OldStamp
    <3>4. Reaches(d, i, v) /\ v \in Int
      BY <1>1, <1>3, <1>4, <3>1, <3>3 DEF ReachInv
    <3> QED
      BY <1>2, <1>3, <2>3, <3>4, ReachStays
  <2> QED
    BY <2>4, <2>5
<1>6. CASE ~Share
  <2>1. v = minVersion[r]
    BY <1>3, <1>6, OldStamp
  <2>2. CASE Take(d)
    <3>1. i + 1 \in DOMAIN inbox[d] /\ r \in Sent(d, i + 1)
      BY <1>1, <1>2, <2>2, TakeEffect DEF InboxShrinks
    <3>2. Reaches(d, i + 1, v) /\ v \in Int
      BY <1>1, <1>3, <1>4, <2>1, <3>1 DEF ReachInv
    <3> QED
      BY <1>2, <1>3, <2>2, <3>2, ReachStays
  <2>3. CASE ~Take(d)
    <3>1. inbox'[d] = inbox[d]
      BY <1>2, <1>6, <2>3, LeaderSteps
    <3>2. i \in DOMAIN inbox[d] /\ r \in Sent(d, i)
      BY <3>1, Stays DEF InboxStays
    <3>3. Reaches(d, i, v) /\ v \in Int
      BY <1>1, <1>3, <1>4, <2>1, <3>2 DEF ReachInv
    <3> QED
      BY <1>2, <1>3, <2>3, <3>3, ReachStays
  <2> QED
    BY <2>2, <2>3
<1> QED
  BY <1>5, <1>6

LEMMA BatchSteps ==
    ASSUME IInv, [Next]_vars, NEW d \in Ranks, NEW r \in Batch(d)'
    PROVE  \/ r \in Batch(d)
           \/ Share /\ d = 0 /\ r \in Slice(0)
           \/ d \in Peers /\ Take(d) /\ r \in Sent(d, 1)
<1> USE PlaceTypes
<1>1. TypeOK /\ LoopInv
  BY DEF IInv
<1>2. CASE (\E q \in Requests : Generate(q)) \/ Decide \/ Drain \/ Elsewhere
  BY <1>1, <1>2, GenerateEffect, DecideEffect, DrainEffect, ElsewhereEffect DEF BatchStays, PlacesStay
<1>3. CASE Share
  BY <1>1, <1>3, ShareEffect DEF BatchStays
<1>4. CASE \E p \in Peers : Take(p)
  BY <1>1, <1>4, TakeEffect DEF BatchStays
<1>5. CASE \E e \in Ranks : EngineStep(e)
  BY <1>1, <1>5, EngineStepEffect DEF BatchStays
<1> QED
  BY <1>2, <1>3, <1>4, <1>5, Steps

LEMMA VersionGrows ==
    ASSUME IInv, [Next]_vars, NEW d \in Ranks
    PROVE  /\ version[d] <= version'[d]
           /\ Share \/ Take(d) \/ EngineStep(d) => version' = version
<1> USE PlaceTypes, VersionTypes
<1>1. TypeOK /\ LoopInv /\ VersionInv
  BY DEF IInv
<1>2. version' = version \/ \E e \in Ranks : PullDone(e)
  BY Steps DEF Generate, Decide, Share, Drain, EngineStep, Take, Elsewhere, Push,
     PullModelStateDict, Close, Crash, BroadcastFails, LoopRaises, CloseReturns, weightVars, vars
<1>3. ASSUME NEW e \in Ranks, PullDone(e)
      PROVE  version[d] <= version'[d]
  <2>1. version' = [version EXCEPT ![e] = target[e]] /\ at[e] = "pulling"
    BY <1>3 DEF PullDone, Loaded
  <2> QED
    BY <1>1, <2>1 DEF VersionInv
<1>4. Share \/ Take(d) \/ EngineStep(d) => version' = version
  BY DEF Share, Take, EngineStep, weightVars
<1> QED
  BY <1>1, <1>2, <1>3, <1>4

LEMMA StampTypes ==
    ASSUME TypeOK
    PROVE  /\ \A r \in Requests : minVersion[r] \in Int
           /\ \A r \in Requests : saw[r] \subseteq Int
<1>1. Versions \cup {None} \subseteq Int
  BY EngineAssumption DEF Versions, None
<1> QED
  BY <1>1 DEF TypeOK

LEMMA BatchKeeps == IInv /\ [Next]_vars => BatchStamp'
<1> SUFFICES ASSUME IInv, [Next]_vars, NEW d \in Ranks, NEW r \in Batch(d)'
             PROVE  /\ minVersion'[r] <= version'[d]
                    /\ saw'[r] \subseteq minVersion'[r]..version'[d]
  BY DEF BatchStamp
<1> USE PlaceTypes, VersionTypes, StampTypes
<1>1. /\ TypeOK /\ LoopInv /\ ReservedInv /\ ApartInv /\ FollowInv /\ FreshInv /\ ReachInv
      /\ BatchStamp /\ TypeOK'
  BY TypeKeeps DEF IInv, StampInv
<1>2. version'[d] \in Int /\ version[d] \in Int /\ version[d] <= version'[d]
  <2>1. version'[d] \in Versions
    BY <1>1 DEF TypeOK
  <2> QED
    BY <1>1, <2>1, VersionGrows
<1>3. CASE r \in Batch(d)
  <2>1. r \in Requests /\ \A e \in Ranks : r \notin Slice(e)
    <3>1. r \notin Slice(d)
      BY <1>1, <1>3 DEF ApartInv
    <3>2. \A e \in Ranks : e # d => r \notin Slice(e)
      BY <1>1, <1>3, ApartFacts
    <3> QED
      BY <1>1, <1>3, <3>1, <3>2
  <2>2. minVersion'[r] = minVersion[r]
    BY <2>1, OldStamp
  <2>3. minVersion[r] <= version[d] /\ saw[r] \subseteq minVersion[r]..version[d]
    BY <1>1, <1>3 DEF BatchStamp
  <2>4. saw'[r] \subseteq saw[r] \cup {version[d]}
    <3>1. CASE saw'[r] = saw[r]
      BY <3>1
    <3>2. ASSUME NEW e \in Ranks, EngineStep(e), r \in Scheduled(e)
          PROVE  saw'[r] = saw[r] \cup {version[d]}
      <4>1. r \in Batch(e)
        BY <1>1, <3>2, EngineStepEffect
      <4>2. e = d
        BY <1>1, <1>3, <4>1 DEF ReservedInv
      <4> QED
        BY <2>1, <3>2, <4>2 DEF EngineStep
    <3> QED
      BY <1>1, <2>1, <3>1, <3>2, StampSteps
  <2>5. minVersion[r] \in Int
    BY <1>1, <2>1
  <2>6. \A x \in saw[r] \cup {version[d]} : x \in minVersion[r]..version'[d]
    BY <1>2, <2>3, <2>5
  <2> QED
    BY <1>2, <2>2, <2>3, <2>4, <2>5, <2>6
<1>4. CASE Share /\ d = 0 /\ r \in Slice(0)
  <2>1. version' = version /\ r \in Requests
    BY <1>1, <1>4, VersionGrows
  <2>2. minVersion'[r] = version[0]
    <3>1. minVersion' = [q \in Requests |-> IF \E e \in Ranks : q \in Slice(e)
                                            THEN version[0] ELSE minVersion[q]]
      BY <1>1, <1>4, ShareEffect
    <3> QED
      BY <1>1, <1>4, <2>1, <3>1
  <2>3. saw'[r] = {}
    <3>1. saw[r] = {}
      BY <1>1, <1>4, <2>1 DEF FreshInv, Fresh
    <3>2. saw' = saw
      BY <1>4 DEF Share
    <3> QED
      BY <3>1, <3>2
  <2> QED
    BY <1>2, <1>4, <2>1, <2>2, <2>3
<1>5. CASE d \in Peers /\ Take(d) /\ r \in Sent(d, 1)
  <2>1. /\ at[d] = "ready" /\ 1 \in DOMAIN inbox[d]
    BY <1>1, <1>5, TakeEffect DEF InboxShrinks
  <2>2. r \in Requests /\ version' = version /\ minVersion' = minVersion /\ saw' = saw
    BY <1>1, <1>5, <2>1, VersionGrows DEF Take, callerVars
  <2>3. Reaches(d, 1, minVersion[r])
    BY <1>1, <1>5, <2>1 DEF ReachInv
  <2>4. minVersion[r] <= version[d]
    <3>1. \A j \in DOMAIN inbox[d] : ~(j < 1)
      BY <1>1
    <3> QED
      BY <2>1, <2>3, <3>1 DEF Reaches
  <2>5. saw[r] = {}
    BY <1>1, <1>5, <2>1, <2>2 DEF FreshInv, Fresh
  <2> QED
    BY <2>2, <2>4, <2>5
<1> QED
  BY <1>3, <1>4, <1>5, BatchSteps

LEMMA PortSteps ==
    ASSUME IInv, [Next]_vars, NEW i \in DOMAIN port', NEW c \in port'[i]
    PROVE  \/ \E j \in DOMAIN port : c \in port[j]
           \/ \E e \in Ranks : /\ EngineStep(e) /\ c.request \in Scheduled(e)
                               /\ c.version = version[e] /\ UNCHANGED minVersion
<1> USE PlaceTypes
<1>1. TypeOK /\ LoopInv
  BY DEF IInv
<1>2. CASE (\E q \in Requests : Generate(q)) \/ Decide \/ Share \/ Elsewhere
           \/ \E p \in Peers : Take(p)
  BY <1>1, <1>2, GenerateEffect, DecideEffect, ShareEffect, TakeEffect, ElsewhereEffect
     DEF PortStays, PlacesStay
<1>3. CASE Drain
  BY <1>1, <1>3, DrainEffect DEF PortShrinks
<1>4. ASSUME NEW e \in Ranks, EngineStep(e)
      PROVE  \/ \E j \in DOMAIN port : c \in port[j]
             \/ /\ c.request \in Scheduled(e)
                /\ c.version = version[e] /\ UNCHANGED minVersion
  <2>1. PICK finished \in SUBSET Scheduled(e) :
            \/ PortStays
            \/ /\ UNCHANGED callerVars
               /\ \E last \in Nat : PortGrows(Done(e, finished), last)
    BY <1>1, <1>4, EngineStepEffect
  <2>2. CASE PortStays
    BY <2>2 DEF PortStays
  <2>3. ASSUME NEW last \in Nat, PortGrows(Done(e, finished), last), UNCHANGED callerVars
        PROVE  \/ \E j \in DOMAIN port : c \in port[j]
               \/ /\ c.request \in Scheduled(e)
                  /\ c.version = version[e] /\ UNCHANGED minVersion
    <3>1. CASE i = last
      <4>1. c \in Done(e, finished)
        BY <2>3, <3>1 DEF PortGrows
      <4> QED
        BY <2>3, <4>1 DEF Done, Completion, callerVars
    <3>2. CASE i # last
      BY <2>3, <3>2 DEF PortGrows
    <3> QED
      BY <3>1, <3>2
  <2> QED
    BY <2>1, <2>2, <2>3
<1> QED
  BY <1>2, <1>3, <1>4, Steps

LEMMA PortKeeps == IInv /\ [Next]_vars => PortStamp'
<1> SUFFICES ASSUME IInv, [Next]_vars, NEW i \in DOMAIN port', NEW c \in port'[i]
             PROVE  /\ saw'[c.request] # {}
                    /\ saw'[c.request] \subseteq minVersion'[c.request]..c.version
  BY DEF PortStamp
<1> USE PlaceTypes, VersionTypes, StampTypes
<1>1. TypeOK /\ LoopInv /\ ReservedInv /\ ApartInv /\ BatchStamp /\ PortStamp
  BY DEF IInv, StampInv
<1>2. ASSUME NEW j \in DOMAIN port, c \in port[j]
      PROVE  saw'[c.request] = saw[c.request] /\ minVersion'[c.request] = minVersion[c.request]
  <2>1. c.request \in Finished(j)
    BY <1>2 DEF Finished
  <2>2. c.request \in Requests
    BY <1>1, <2>1
  <2>3. \A d \in Ranks : c.request \notin Slice(d) /\ c.request \notin Batch(d)
    BY <1>1, <2>1 DEF ApartInv
  <2> QED
    BY <2>2, <2>3, OldStamp
<1>3. CASE \E j \in DOMAIN port : c \in port[j]
  BY <1>1, <1>2, <1>3 DEF PortStamp
<1>4. ASSUME NEW e \in Ranks, EngineStep(e), c.request \in Scheduled(e),
             c.version = version[e], UNCHANGED minVersion
      PROVE  /\ saw'[c.request] # {}
             /\ saw'[c.request] \subseteq minVersion'[c.request]..c.version
  <2>1. PICK r : r = c.request
    OBVIOUS
  <2>2. r \in Batch(e) /\ r \in Requests /\ r \in Scheduled(e)
    BY <1>1, <1>4, <2>1, EngineStepEffect
  <2>3. saw'[r] = saw[r] \cup {version[e]}
    BY <1>4, <2>2 DEF EngineStep
  <2>4. minVersion[r] <= version[e] /\ saw[r] \subseteq minVersion[r]..version[e]
    BY <1>1, <2>2 DEF BatchStamp
  <2>5. version[e] \in minVersion[r]..version[e]
    BY <1>1, <2>2, <2>4
  <2> QED
    BY <1>4, <2>1, <2>3, <2>4, <2>5
<1> QED
  BY <1>3, <1>4, PortSteps

\* What rank 0 puts on the completions it resolves.
LEMMA ResolveResult ==
    ASSUME NEW done, Resolve(done), NEW r \in Requests
    PROVE  /\ r \notin {c.request : c \in done} =>
                  call'[r] = call[r] /\ result'[r] = result[r]
           /\ r \in {c.request : c \in done} =>
                  \E c \in done : /\ c.request = r
                                  /\ result'[r].min = minVersion[r]
                                  /\ result'[r].max = c.version
<1> DEFINE rs == {c.request : c \in done}
           pick == CHOOSE c \in done : c.request = r
<1>1. r \notin rs => call'[r] = call[r] /\ result'[r] = result[r]
  BY DEF Resolve
<1>2. r \in rs => result'[r] = [min |-> minVersion[r], max |-> pick.version]
  BY DEF Resolve
<1>3. r \in rs => pick \in done /\ pick.request = r
  OBVIOUS
<1> HIDE DEF pick
<1> QED
  BY <1>1, <1>2, <1>3

LEMMA CoversKeeps == IInv /\ [Next]_vars => StampCovers'
<1> SUFFICES ASSUME IInv, [Next]_vars, NEW r \in Requests, call'[r] = "returned"
             PROVE  saw'[r] # {} /\ saw'[r] \subseteq result'[r].min..result'[r].max
  BY DEF StampCovers
<1> USE PlaceTypes, VersionTypes, StampTypes
<1>1. /\ TypeOK /\ LoopInv /\ ReservedInv /\ ApartInv /\ CallInv /\ BatchStamp /\ PortStamp
      /\ StampCovers
  BY DEF IInv, StampInv
<1>2. ASSUME call[r] = "returned"
      PROVE  /\ saw'[r] = saw[r] /\ ~Somewhere(r)
             /\ saw[r] # {} /\ saw[r] \subseteq result[r].min..result[r].max
  <2>1. ~Somewhere(r)
    BY <1>1, <1>2 DEF CallInv
  <2> QED
    BY <1>1, <1>2, <2>1, OldStamp DEF Somewhere, StampCovers
<1>3. ASSUME result'[r] = result[r], call[r] = "returned"
      PROVE  saw'[r] # {} /\ saw'[r] \subseteq result'[r].min..result'[r].max
  BY <1>2, <1>3
<1>4. CASE (\E q \in Requests : Generate(q)) \/ Decide \/ Share \/ Elsewhere
           \/ \E p \in Peers : Take(p)
  <2>1. result' = result
    <3>1. CASE Elsewhere
      BY <1>1, <3>1, ElsewhereEffect
    <3> QED
      BY <1>4, <3>1 DEF Generate, Decide, Share, Take, callerVars
  <2>2. call[r] = "returned"
    <3>1. CASE Elsewhere
      <4>1. ElsewhereCases
        BY <1>1, <3>1, ElsewhereEffect
      <4>2. call' = call \/ FailOutstanding
        BY <4>1 DEF ElsewhereCases
      <4>3. ASSUME FailOutstanding
            PROVE  call'[r] = IF r \in futures THEN "failed" ELSE call[r]
        BY <4>3 DEF FailOutstanding
      <4> QED
        BY <4>2, <4>3
    <3>2. CASE \E q \in Requests : Generate(q)
      <4>1. PICK q \in Requests : Generate(q)
        BY <3>2
      <4>2. \E s \in {"refused", "waiting"} : call' = [call EXCEPT ![q] = s]
        BY <1>1, <4>1, GenerateEffect
      <4>3. DOMAIN call = Requests
        BY <1>1 DEF TypeOK
      <4> QED
        BY <4>2, <4>3
    <3>3. CASE Decide \/ Share \/ \E p \in Peers : Take(p)
      <4>1. call' = call
        BY <3>3 DEF Decide, Share, Take, callerVars
      <4> QED
        BY <4>1
    <3> QED
      BY <1>4, <3>1, <3>2, <3>3
  <2> QED
    BY <1>3, <2>1, <2>2
<1>5. ASSUME NEW e \in Ranks, EngineStep(e)
      PROVE  saw'[r] # {} /\ saw'[r] \subseteq result'[r].min..result'[r].max
  <2>1. PICK finished \in SUBSET Scheduled(e) :
            \/ Resolve(Done(e, finished))
            \/ UNCHANGED callerVars
    BY <1>1, <1>5, EngineStepEffect
  <2>2. CASE UNCHANGED callerVars
    BY <1>3, <2>2 DEF callerVars
  <2>3. CASE Resolve(Done(e, finished)) /\ r \notin finished
    BY <1>3, <2>3, ResolveResult, DoneRequests
  <2>4. CASE Resolve(Done(e, finished)) /\ r \in finished
    <3>1. PICK c \in Done(e, finished) : /\ result'[r].min = minVersion[r]
                                         /\ result'[r].max = c.version
      BY <2>4, ResolveResult, DoneRequests
    <3>2. c.version = version[e]
      BY DEF Done, Completion
    <3>3. r \in Batch(e) /\ r \in Scheduled(e)
      BY <1>1, <1>5, <2>4, EngineStepEffect
    <3>4. saw'[r] = saw[r] \cup {version[e]}
      BY <1>5, <3>3 DEF EngineStep
    <3>5. minVersion[r] <= version[e] /\ saw[r] \subseteq minVersion[r]..version[e]
      BY <1>1, <3>3 DEF BatchStamp
    <3>6. version[e] \in minVersion[r]..version[e]
      BY <1>1, <3>5
    <3> QED
      BY <3>1, <3>2, <3>4, <3>5, <3>6
  <2> QED
    BY <2>1, <2>2, <2>3, <2>4
<1>6. CASE Drain
  <2>1. PortShrinks /\ (Resolve(port[1]) \/ UNCHANGED callerVars) /\ saw' = saw
    BY <1>1, <1>6, DrainEffect DEF Drain, engineVars
  <2>2. CASE UNCHANGED callerVars
    BY <1>3, <2>2 DEF callerVars
  <2>3. CASE Resolve(port[1]) /\ r \notin {c.request : c \in port[1]}
    BY <1>3, <2>3, ResolveResult
  <2>4. CASE Resolve(port[1]) /\ r \in {c.request : c \in port[1]}
    <3>1. PICK c \in port[1] : /\ c.request = r
                               /\ result'[r].min = minVersion[r]
                               /\ result'[r].max = c.version
      BY <2>4, ResolveResult
    <3>2. 1 \in DOMAIN port
      BY <2>1 DEF PortShrinks
    <3>3. saw[r] # {} /\ saw[r] \subseteq minVersion[r]..c.version
      BY <1>1, <3>1, <3>2 DEF PortStamp
    <3> QED
      BY <2>1, <3>1, <3>3
  <2> QED
    BY <2>1, <2>2, <2>3, <2>4
<1> QED
  BY <1>4, <1>5, <1>6, Steps

-----------------------------------------------------------------------------
(* The theorems.                                                           *)

LEMMA InitIInv == Init => IInv
<1> SUFFICES ASSUME Init
             PROVE  IInv
  OBVIOUS
<1> USE DEF Init
<1>1. /\ 0 \in Ranks /\ 0 \in Versions /\ Burst \in Nat /\ MaxBehind \in Nat
      /\ MaxTokens \in Nat /\ 0 < MaxTokens
      /\ Cardinality(Requests) \in Nat
  BY EngineAssumption, FS_CardinalityType DEF Ranks, Versions
<1>2. NoDecision \in DecisionType
  BY DEF NoDecision, Decision, NoSlices, DecisionType
<1>3. TypeOK
  <2>1. /\ load \in [Ranks -> 0..Cardinality(Requests)] /\ left \in [Ranks -> 0..Burst]
        /\ tokens \in [Requests -> 0..MaxTokens]
    BY <1>1
  <2>2. \A d \in Ranks : Len(inbox[d]) <= MaxBehind
    BY <1>1
  <2>3. /\ result \in [Requests -> [min : Versions \cup {None}, max : Versions \cup {None}]]
        /\ minVersion \in [Requests -> Versions \cup {None}]
        /\ reserved \in [Requests -> Ranks \cup {None}]
        /\ saw \in [Requests -> SUBSET Versions]
        /\ target \in [Ranks -> Versions \cup {None}]
        /\ version \in [Ranks -> Versions] /\ weights \in [Ranks -> Versions]
    BY <1>1
  <2>4. /\ queued \in Seq(Requests) /\ inbox \in [Ranks -> Seq(DecisionType)]
        /\ engine \in [Ranks -> Seq(Requests)]
        /\ port \in Seq(SUBSET [request : Requests, version : Versions])
    OBVIOUS
  <2>5. /\ call \in [Requests -> {"new", "waiting", "returned", "failed", "refused"}]
        /\ futures \subseteq Requests
        /\ pullCall \in {"none", "waiting"} /\ pullVersion \in Versions \cup {None}
        /\ closing \in BOOLEAN /\ closed \in [Ranks -> BOOLEAN]
        /\ at \in [Ranks -> {"ready", "sharing", "stepping", "pulling", "stopped", "crashed"}]
        /\ decision \in DecisionType /\ draining \in BOOLEAN /\ stored \in Versions
    BY <1>1, <1>2
  <2> HIDE DEF Init
  <2> QED
    BY <2>1, <2>2, <2>3, <2>4, <2>5 DEF TypeOK
<1>4. /\ InQueue = {} /\ DOMAIN port = {}
      /\ \A d \in Ranks : Slice(d) = {} /\ Batch(d) = {} /\ DOMAIN inbox[d] = {}
  BY EmptyElements DEF InQueue, Slice, Batch, NoDecision, Decision, NoSlices
<1>5. LoopInv
  BY <1>1, <1>4 DEF LoopInv, Running, Peers
<1>6. ReservedInv /\ ApartInv /\ CallInv
  BY <1>4 DEF ReservedInv, ApartInv, CallInv, Somewhere
<1>7. TokenInv
  BY <1>1 DEF TokenInv
<1>8. VersionInv
  BY <1>1, <1>4 DEF VersionInv, NoDecision, Decision, None
<1>9. StampInv
  <2>1. FollowInv
    BY <1>1 DEF FollowInv, Reaches, Peers
  <2> QED
    BY <1>4, <2>1 DEF StampInv, FreshInv, ReachInv, BatchStamp, PortStamp
<1>10. LoadsMatch
  <2>1. \A d \in Ranks : {r \in futures : reserved[r] = d} = {}
    OBVIOUS
  <2> QED
    BY <1>1, <2>1, FS_EmptySet DEF LoadsMatch
<1>11. StampCovers
  BY DEF StampCovers
<1> QED
  BY <1>3, <1>5, <1>6, <1>7, <1>8, <1>9, <1>10, <1>11 DEF IInv

LEMMA NextIInv == IInv /\ [Next]_vars => IInv'
BY TypeKeeps, LoopKeeps, ReservedKeeps, ApartKeeps, CallKeeps, TokenKeeps, VersionKeeps,
   FollowKeeps, FreshKeeps, ReachKeeps, BatchKeeps, PortKeeps, LoadsKeeps, CoversKeeps
   DEF IInv, StampInv

LEMMA Invariance == Spec => []IInv
<1>1. Init => IInv
  BY InitIInv
<1>2. IInv /\ [Next]_vars => IInv'
  BY NextIInv
<1> QED
  BY <1>1, <1>2, PTL DEF Spec

\* Every variable of the mesh stays in its domain: no rank falls further behind
\* than the broadcasts that may be outstanding, no burst, token count or load
\* leaves its range.
THEOREM Typing == Spec => []TypeOK
<1>1. IInv => TypeOK
  BY DEF IInv
<1> QED
  BY <1>1, Invariance, PTL

\* The load rank 0 keeps for each rank is the number of requests it decided for
\* it and has not resolved: what reserve adds, every release takes back once.
THEOREM LoadAccounting == Spec => []LoadsMatch
<1>1. IInv => LoadsMatch
  BY DEF IInv
<1> QED
  BY <1>1, Invariance, PTL

\* The versions on a completion bracket the version of every token of it,
\* wherever it was served and whatever was pulled meanwhile.
THEOREM StampsCover == Spec => []StampCovers
<1>1. IInv => StampCovers
  BY DEF IInv
<1> QED
  BY <1>1, Invariance, PTL

\* What the places of OnePlace are in terms of the sets above.
LEMMA PlacesHold ==
    ASSUME NEW r
    PROVE  /\ Holds(<<"queue", 0>>, r) <=> r \in InQueue
           /\ Holds(<<"decision", 0>>, r) <=> \E d \in Ranks : r \in Slice(d)
           /\ Holds(<<"port", 0>>, r) <=> \E i \in DOMAIN port : r \in Finished(i)
           /\ \A d \in Ranks :
                /\ Holds(<<"inbox", d>>, r) <=> \E i \in DOMAIN inbox[d] : r \in Sent(d, i)
                /\ Holds(<<"engine", d>>, r) <=> r \in Batch(d)
BY DEF Holds, InQueue, Slice, Finished, Sent, Batch

\* No request is in two places.
LEMMA PlacesApart ==
    ASSUME IInv, NEW r, NEW p \in Places, NEW q \in Places, Holds(p, r), Holds(q, r)
    PROVE  p = q
<1> DEFINE Sends(d) == \E i \in DOMAIN inbox[d] : r \in Sent(d, i)
           Shared == \E d \in Ranks : r \in Slice(d)
           Ported == \E i \in DOMAIN port : r \in Finished(i)
<1>1. TypeOK /\ ReservedInv /\ ApartInv
  BY DEF IInv
<1>2. \A place \in Places :
          \/ place = <<"queue", 0>> \/ place = <<"decision", 0>> \/ place = <<"port", 0>>
          \/ \E d \in Ranks : place = <<"inbox", d>> \/ place = <<"engine", d>>
  BY DEF Places
<1>3. r \in InQueue => ~Shared /\ ~Ported /\ \A d \in Ranks : ~Sends(d) /\ r \notin Batch(d)
  BY <1>1, ApartFacts DEF ReservedInv
<1>4. Shared => ~Ported /\ \A d \in Ranks : ~Sends(d) /\ r \notin Batch(d)
  BY <1>1, ApartFacts DEF ApartInv
<1>5. Ported => \A d \in Ranks : ~Sends(d) /\ r \notin Batch(d)
  BY <1>1, ApartFacts
<1>6. \A d, e \in Ranks : /\ Sends(d) => r \notin Batch(e)
                          /\ d # e /\ Sends(d) => ~Sends(e)
                          /\ d # e /\ r \in Batch(d) => r \notin Batch(e)
  BY <1>1, ApartFacts
<1>7. \A place \in Places : Holds(place, r) =>
          \/ place = <<"queue", 0>> /\ r \in InQueue
          \/ place = <<"decision", 0>> /\ Shared
          \/ place = <<"port", 0>> /\ Ported
          \/ \E d \in Ranks : \/ place = <<"inbox", d>> /\ Sends(d)
                              \/ place = <<"engine", d>> /\ r \in Batch(d)
  <2>1. /\ Holds(<<"queue", 0>>, r) => r \in InQueue
        /\ Holds(<<"decision", 0>>, r) => Shared
        /\ Holds(<<"port", 0>>, r) => Ported
        /\ \A d \in Ranks : /\ Holds(<<"inbox", d>>, r) => Sends(d)
                            /\ Holds(<<"engine", d>>, r) => r \in Batch(d)
    BY PlacesHold
  <2> HIDE DEF Sends, Shared, Ported
  <2> QED
    BY <1>2, <2>1
<1> HIDE DEF Sends, Shared, Ported
<1> QED
  BY <1>3, <1>4, <1>5, <1>6, <1>7

\* As long as rank 0 serves, each request with a future is in one place and
\* one only, and every other request is in none: no request is lost between
\* the queue, the decisions, the engines and the port, none is run twice, and
\* no completion meets a future that is gone.
THEOREM RequestsInOnePlace == Spec => []OnePlace
<1>1. ASSUME IInv, Serving, NEW r \in Requests
      PROVE  /\ r \in futures <=> call[r] = "waiting"
             /\ Cardinality({p \in Places : Holds(p, r)}) = IF r \in futures THEN 1 ELSE 0
  <2>1. TypeOK /\ CallInv
    BY <1>1 DEF IInv
  <2>2. /\ r \in futures <=> call[r] = "waiting"
        /\ Somewhere(r) <=> r \in futures
    BY <1>1, <2>1 DEF CallInv
  <2>3. Somewhere(r) <=> \E p \in Places : Holds(p, r)
    <3>1. \A place \in Places :
              \/ place = <<"queue", 0>> \/ place = <<"decision", 0>> \/ place = <<"port", 0>>
              \/ \E d \in Ranks : place = <<"inbox", d>> \/ place = <<"engine", d>>
      BY DEF Places
    <3>2. /\ <<"queue", 0>> \in Places /\ <<"decision", 0>> \in Places /\ <<"port", 0>> \in Places
          /\ \A d \in Ranks : <<"inbox", d>> \in Places /\ <<"engine", d>> \in Places
      BY DEF Places
    <3>3. Somewhere(r) => \E p \in Places : Holds(p, r)
      BY <3>2, PlacesHold DEF Somewhere
    <3>4. ASSUME NEW p \in Places, Holds(p, r)
          PROVE  Somewhere(r)
      BY <3>1, <3>4, PlacesHold DEF Somewhere
    <3> QED
      BY <3>3, <3>4
  <2> DEFINE held == {p \in Places : Holds(p, r)}
  <2>4. CASE r \in futures
    <3>1. PICK p \in Places : Holds(p, r)
      BY <2>2, <2>3, <2>4
    <3>2. held = {p}
      BY <1>1, <3>1, PlacesApart
    <3> QED
      BY <2>2, <2>4, <3>2, FS_Singleton
  <2>5. CASE r \notin futures
    <3>1. held = {}
      BY <2>2, <2>3, <2>5
    <3> QED
      BY <2>2, <2>5, <3>1, FS_EmptySet
  <2> QED
    BY <2>4, <2>5
<1>2. IInv => OnePlace
  BY <1>1 DEF OnePlace, Serving
<1> QED
  BY <1>2, Invariance, PTL

-----------------------------------------------------------------------------
(* The labels of the weights.                                              *)

\* Nothing is stored while rank 0 pulls: it reads the version it was told.
LeaderPull == at[0] = "pulling" => target[0] = stored /\ pullVersion = stored

LabelInv == LabelsNeverAhead /\ LeaderPull

\* Rank 0 starts to pull by sharing the decision to, and nobody stores anything
\* before its call is answered, or rank 0 has crashed.
LEMMA LeaderPullKeeps == IInv /\ LeaderPull /\ [Next]_vars => LeaderPull'
<1> SUFFICES ASSUME IInv, LeaderPull, [Next]_vars
             PROVE  LeaderPull'
  OBVIOUS
<1> USE PlaceTypes, VersionTypes
<1>1. TypeOK /\ LoopInv /\ VersionInv
  BY DEF IInv
<1>2. ASSUME UNCHANGED <<pullVersion, target, stored>>, at'[0] = "pulling" => at[0] = "pulling"
      PROVE  LeaderPull'
  BY <1>2 DEF LeaderPull
<1>3. CASE (\E r \in Requests : Generate(r)) \/ Drain \/ Close \/ UNCHANGED vars
  BY <1>2, <1>3 DEF Generate, Drain, Close, vars, inboxVars, loopVars, weightVars
<1>4. ASSUME NEW e \in Ranks, EngineStep(e)
      PROVE  LeaderPull'
  <2>1. /\ UNCHANGED <<pullVersion, target, stored>>
        /\ at' = [at EXCEPT ![e] = "ready"] \/ at' = [at EXCEPT ![e] = "stepping"]
    BY <1>4 DEF EngineStep, inboxVars
  <2>2. at'[0] = "pulling" => at[0] = "pulling"
    BY <1>1, <2>1
  <2> QED
    BY <1>2, <2>1, <2>2
<1>5. CASE Push
  <2>1. pullVersion = None /\ at' = at
    BY <1>5 DEF Push, loopVars
  <2>2. at[0] # "pulling"
    BY <1>1, <2>1 DEF LeaderPull
  <2> QED
    BY <2>1, <2>2 DEF LeaderPull
<1>6. CASE PullModelStateDict
  <2>1. pullVersion' = stored /\ UNCHANGED <<stored, target, at>>
    BY <1>6 DEF PullModelStateDict, loopVars
  <2> QED
    BY <2>1 DEF LeaderPull
<1>7. CASE Decide
  <2>1. at' = [at EXCEPT ![0] = "sharing"]
    BY <1>7 DEF Decide
  <2> QED
    BY <1>1, <2>1 DEF LeaderPull
<1>8. CASE Share
  <2>1. UNCHANGED <<stored, pullVersion>>
    BY <1>8 DEF Share, inboxVars
  <2>2. /\ at[0] = "sharing"
        /\ at'[0] # "pulling" \/ (decision.action = "pull" /\ target'[0] = decision.version)
    BY <1>1, <1>8, ShareEffect
  <2>3. decision.action = "pull" => decision.version = stored /\ pullVersion = stored
    BY <1>1, <2>2 DEF VersionInv
  <2> QED
    BY <2>1, <2>2, <2>3 DEF LeaderPull
<1>9. ASSUME NEW p \in Peers, Take(p)
      PROVE  LeaderPull'
  <2>1. UNCHANGED <<stored, pullVersion>>
    BY <1>9 DEF Take, inboxVars
  <2>2. \A d \in Ranks : d # p => at'[d] = at[d] /\ target'[d] = target[d]
    BY <1>1, <1>9, TakeEffect
  <2>3. p # 0
    BY Zenon DEF Peers
  <2>4. 0 \in Ranks
    BY <1>1
  <2> QED
    BY <2>1, <2>2, <2>3, <2>4, Zenon DEF LeaderPull
<1>10. ASSUME NEW e \in Ranks, PullDone(e)
       PROVE  LeaderPull'
  <2>1. /\ at' = [at EXCEPT ![e] = "ready"]
        /\ UNCHANGED <<stored, target>>
        /\ e # 0 => pullVersion' = pullVersion
    BY <1>10 DEF PullDone
  <2>2. at'[0] = "pulling" => at[0] = "pulling" /\ e # 0
    BY <1>1, <2>1
  <2> QED
    BY <2>1, <2>2 DEF LeaderPull
<1>11. ASSUME NEW e \in Ranks, LoopRaises(e) \/ CloseReturns(e)
       PROVE  LeaderPull'
  <2>1. /\ UNCHANGED <<stored, target>>
        /\ pullVersion' = pullVersion \/ at'[0] # "pulling"
        /\ at' = at \/ at' = [at EXCEPT ![e] = "crashed"]
    <3>1. CASE LoopRaises(e)
      BY <1>1, <3>1 DEF LoopRaises, FailOutstanding, inboxVars
    <3>2. CASE CloseReturns(e)
      BY <1>1, <3>2 DEF CloseReturns, FailOutstanding, Running, inboxVars, loopVars
    <3> QED
      BY <1>11, <3>1, <3>2
  <2>2. at'[0] = "pulling" => at[0] = "pulling"
    BY <1>1, <2>1
  <2> QED
    BY <2>1, <2>2 DEF LeaderPull
<1>12. CASE Elsewhere
  BY <1>3, <1>5, <1>6, <1>10, <1>11, <1>12 DEF Elsewhere, Crash, BroadcastFails
<1> QED
  BY <1>3, <1>4, <1>7, <1>8, <1>9, <1>12, Steps

\* Labels and weights change together, when a rank has read the store: rank 0
\* before anything else is stored, a peer something at least as new.
LEMMA LabelsKeep == IInv /\ LabelInv /\ [Next]_vars => LabelsNeverAhead'
<1> SUFFICES ASSUME IInv, LabelInv, [Next]_vars
             PROVE  LabelsNeverAhead'
  OBVIOUS
<1>1. TypeOK /\ VersionInv /\ LabelsNeverAhead /\ LeaderPull
  BY DEF IInv, LabelInv
<1>2. ASSUME UNCHANGED <<version, weights>>
      PROVE  LabelsNeverAhead'
  BY <1>1, <1>2 DEF LabelsNeverAhead
<1>3. ASSUME NEW e \in Ranks, PullDone(e)
      PROVE  LabelsNeverAhead'
  <2>1. /\ at[e] = "pulling"
        /\ version' = [version EXCEPT ![e] = target[e]]
        /\ weights' = [weights EXCEPT ![e] = stored]
    BY <1>3 DEF PullDone, Loaded
  <2>2. version \in [Ranks -> Versions] /\ weights \in [Ranks -> Versions]
    BY <1>1 DEF TypeOK
  <2>3. target[e] <= stored /\ (e = 0 => target[e] = stored)
    BY <1>1, <2>1 DEF VersionInv, LeaderPull
  <2>4. 0 \in Ranks /\ Peers \subseteq Ranks
    BY PlaceTypes, <1>1 DEF Peers
  <2>5. version'[0] = weights'[0]
    BY <1>1, <2>1, <2>2, <2>3, <2>4 DEF LabelsNeverAhead
  <2>6. ASSUME NEW d \in Peers
        PROVE  version'[d] <= weights'[d]
    <3>1. CASE d = e
      BY <2>1, <2>2, <2>3, <3>1
    <3>2. CASE d # e
      <4>1. version'[d] = version[d] /\ weights'[d] = weights[d]
        BY <2>1, <2>2, <2>4, <3>2
      <4> QED
        BY <1>1, <4>1 DEF LabelsNeverAhead
    <3> QED
      BY <3>1, <3>2
  <2> QED
    BY <2>5, <2>6 DEF LabelsNeverAhead
<1>4. CASE Elsewhere
  BY <1>2, <1>3, <1>4 DEF Elsewhere, Push, PullModelStateDict, Close, Crash, BroadcastFails,
        LoopRaises, CloseReturns, vars, weightVars
<1> QED
  BY <1>2, <1>4, Steps DEF Generate, Decide, Share, Drain, EngineStep, Take, weightVars

\* For any number of ranks and however late they apply the decisions, rank 0
\* samples with the weights of its version, and a peer with weights at least as
\* new as its version.  Not more can be said of a peer: it may read after the
\* pull has been answered, when the next version is stored.
THEOREM LabelsHold == Spec => []LabelsNeverAhead
<1>1. Init => LabelInv
  <2>1. 0 \in Ranks /\ Peers \subseteq Ranks
    BY EngineAssumption DEF Ranks, Peers
  <2>2. ASSUME Init
        PROVE  LabelsNeverAhead
    BY <2>1, <2>2 DEF Init, LabelsNeverAhead
  <2>3. ASSUME Init
        PROVE  LeaderPull
    BY <2>1, <2>3 DEF Init, LeaderPull
  <2> QED
    BY <2>2, <2>3 DEF LabelInv
<1>2. IInv /\ LabelInv /\ [Next]_vars => LabelInv'
  BY LeaderPullKeeps, LabelsKeep DEF LabelInv
<1>3. LabelInv => LabelsNeverAhead
  BY DEF LabelInv
<1> QED
  BY <1>1, <1>2, <1>3, Invariance, PTL DEF Spec
=============================================================================
