---------------------------- MODULE ServicesProofs ----------------------------
(***************************************************************************)
(* Theorems about the services: AiRouter, for any set of requests, quotas, *)
(* threads and midnights; SourceCache, for any callers, keys, lifetimes    *)
(* and limits; AlertJobs, for any alerts, watchlists, feeds and window.    *)
(* AiRouterInv and ServicesInv define the invariants.                      *)
(***************************************************************************)
EXTENDS ServicesInv, FiniteSums

-----------------------------------------------------------------------------
(* The AI router *)

USE RouterAssumption

-----------------------------------------------------------------------------
(* Chains and sets of requests *)

LEMMA ChainType ==
  ASSUME NEW t \in DOMAIN Chain
  PROVE  Len(Chain[t]) = 4 /\ \A k \in 1 .. 4 : Chain[t][k] \in Providers
  BY DEF Chain, ReasoningChain, AnalysisChain, Providers

LEMMA ProviderType ==
  ASSUME CallsSound, NEW r \in Requests, call[r].at # "none"
  PROVE  ProviderOf(r) \in Providers
  BY ChainType DEF CallsSound, PlaceOf, ProviderOf

LEMMA SkipAtType == \A p \in Providers : DailyLimit[p] \in Nat /\ SkipAt(p) \in Nat
  BY DEF SkipAt, Providers

LEMMA Finite ==
  /\ Cardinality(Requests) \in Nat \ {0}
  /\ \A S : S \subseteq Requests => /\ IsFiniteSet(S) /\ Cardinality(S) \in Nat
                                    /\ Cardinality(S) <= Cardinality(Requests)
                                    /\ (S # Requests => Cardinality(S) < Cardinality(Requests))
<1>1. IsFiniteSet(Requests) /\ Requests # {}
  BY DEF Requests
<1>2. Cardinality(Requests) \in Nat \ {0}
  BY <1>1, FS_CardinalityType, FS_EmptySet
<1>3. ASSUME NEW S, S \subseteq Requests
      PROVE  /\ IsFiniteSet(S) /\ Cardinality(S) \in Nat
             /\ Cardinality(S) <= Cardinality(Requests)
             /\ (S # Requests => Cardinality(S) < Cardinality(Requests))
  BY <1>1, <1>3, FS_Subset, FS_CardinalityType
<1> QED
  BY <1>2, <1>3

\* What one member more or less does to a number of requests.
One(b) == IF b THEN 1 ELSE 0

LEMMA OneMember ==
  ASSUME NEW X, NEW Y, NEW r, X \subseteq Requests, Y \subseteq Requests, X \ {r} = Y \ {r}
  PROVE  /\ Cardinality(X) \in Nat /\ Cardinality(Y) \in Nat
         /\ Cardinality(X) + One(r \in Y) = Cardinality(Y) + One(r \in X)
<1>1. IsFiniteSet(X) /\ IsFiniteSet(Y) /\ Cardinality(X) \in Nat /\ Cardinality(Y) \in Nat
  BY Finite
<1>2. CASE r \in X /\ r \notin Y
  <2>1. X = Y \cup {r}
    BY <1>2
  <2>2. Cardinality(X) = Cardinality(Y) + 1
    BY <1>1, <1>2, <2>1, FS_AddElement
  <2> QED
    BY <1>1, <1>2, <2>2 DEF One
<1>3. CASE r \notin X /\ r \in Y
  <2>1. Y = X \cup {r}
    BY <1>3
  <2>2. Cardinality(Y) = Cardinality(X) + 1
    BY <1>1, <1>3, <2>1, FS_AddElement
  <2> QED
    BY <1>1, <1>3, <2>2 DEF One
<1>4. CASE r \in X <=> r \in Y
  <2>1. X = Y
    BY <1>4
  <2> QED
    BY <1>1, <1>4, <2>1 DEF One
<1> QED
  BY <1>2, <1>3, <1>4

\* A step of one request moves at most that request between the sets.
LEMMA OneCall ==
  ASSUME Types, NEW r \in Requests, NEW c, call' = [call EXCEPT ![r] = c],
         NEW p \in Providers
  PROVE  /\ PastGate(p)' \ {r} = PastGate(p) \ {r} /\ (r \in PastGate(p)' <=> Past(c, p))
         /\ Queued(p)' \ {r} = Queued(p) \ {r} /\ (r \in Queued(p)' <=> Waits(c, p))
         /\ Replying(p)' \ {r} = Replying(p) \ {r} /\ (r \in Replying(p)' <=> Replies(c, p))
         /\ r \in PastGate(p) <=> Past(call[r], p)
         /\ r \in Queued(p) <=> Waits(call[r], p)
         /\ r \in Replying(p) <=> Replies(call[r], p)
<1>1. \A q \in Requests : call'[q] = IF q = r THEN c ELSE call[q]
  BY DEF Types
<1>2. PastGate(p)' \ {r} = PastGate(p) \ {r} /\ (r \in PastGate(p)' <=> Past(c, p))
  BY <1>1 DEF PastGate, Past
<1>3. Queued(p)' \ {r} = Queued(p) \ {r} /\ (r \in Queued(p)' <=> Waits(c, p))
  BY <1>1 DEF Queued, Waits
<1>4. Replying(p)' \ {r} = Replying(p) \ {r} /\ (r \in Replying(p)' <=> Replies(c, p))
  BY <1>1 DEF Replying, Replies
<1> QED
  BY <1>2, <1>3, <1>4 DEF PastGate, Queued, Replying

\* What a request counts for in each of the sets.
NPast(c, p)    == One(Past(c, p))
NWaits(c, p)   == One(Waits(c, p))
NReplies(c, p) == One(Replies(c, p))

\* What it does to their numbers.

-----------------------------------------------------------------------------
(* Where a step takes its request *)

Moves(r, c) ==
  /\ call' = [call EXCEPT ![r] = c]
  /\ stage' \in [Requests -> Stages] /\ call' \in [Requests -> Calls]
  /\ CallsSound'

\* What a step of one request does to the sizes of the sets.
LEMMA PastGateCount ==
  ASSUME Types, NEW r \in Requests, NEW c, Moves(r, c), NEW p \in Providers
  PROVE  /\ Cardinality(PastGate(p)) \in Nat /\ Cardinality(PastGate(p))' \in Nat
         /\ Cardinality(PastGate(p))' + NPast(call[r], p)
              = Cardinality(PastGate(p)) + NPast(c, p)
<1>1. PastGate(p) \subseteq Requests /\ PastGate(p)' \subseteq Requests
  BY DEF PastGate
<1>2. /\ PastGate(p)' \ {r} = PastGate(p) \ {r}
      /\ (r \in PastGate(p)' <=> Past(c, p)) /\ (r \in PastGate(p) <=> Past(call[r], p))
  BY OneCall DEF Moves
<1>3. /\ Cardinality(PastGate(p)) \in Nat /\ Cardinality(PastGate(p)') \in Nat
      /\ Cardinality(PastGate(p)') + One(r \in PastGate(p))
           = Cardinality(PastGate(p)) + One(r \in PastGate(p)')
  BY <1>1, <1>2, OneMember
<1> QED
  BY <1>2, <1>3 DEF One, NPast

LEMMA QueuedCount ==
  ASSUME Types, NEW r \in Requests, NEW c, Moves(r, c), NEW p \in Providers
  PROVE  /\ Cardinality(Queued(p)) \in Nat /\ Cardinality(Queued(p))' \in Nat
         /\ Cardinality(Queued(p))' + NWaits(call[r], p)
              = Cardinality(Queued(p)) + NWaits(c, p)
<1>1. Queued(p) \subseteq Requests /\ Queued(p)' \subseteq Requests
  BY DEF Queued
<1>2. /\ Queued(p)' \ {r} = Queued(p) \ {r}
      /\ (r \in Queued(p)' <=> Waits(c, p)) /\ (r \in Queued(p) <=> Waits(call[r], p))
  BY OneCall DEF Moves
<1>3. /\ Cardinality(Queued(p)) \in Nat /\ Cardinality(Queued(p)') \in Nat
      /\ Cardinality(Queued(p)') + One(r \in Queued(p))
           = Cardinality(Queued(p)) + One(r \in Queued(p)')
  BY <1>1, <1>2, OneMember
<1> QED
  BY <1>2, <1>3 DEF One, NWaits

LEMMA ReplyingCount ==
  ASSUME Types, NEW r \in Requests, NEW c, Moves(r, c), NEW p \in Providers
  PROVE  /\ Cardinality(Replying(p)) \in Nat /\ Cardinality(Replying(p))' \in Nat
         /\ Cardinality(Replying(p))' + NReplies(call[r], p)
              = Cardinality(Replying(p)) + NReplies(c, p)
<1>1. Replying(p) \subseteq Requests /\ Replying(p)' \subseteq Requests
  BY DEF Replying
<1>2. /\ Replying(p)' \ {r} = Replying(p) \ {r}
      /\ (r \in Replying(p)' <=> Replies(c, p)) /\ (r \in Replying(p) <=> Replies(call[r], p))
  BY OneCall DEF Moves
<1>3. /\ Cardinality(Replying(p)) \in Nat /\ Cardinality(Replying(p)') \in Nat
      /\ Cardinality(Replying(p)') + One(r \in Replying(p))
           = Cardinality(Replying(p)) + One(r \in Replying(p)')
  BY <1>1, <1>2, OneMember
<1> QED
  BY <1>2, <1>3 DEF One, NReplies

Outside(c) == c.at \in {"none", "gate"}

LEMMA MovesTo ==
  ASSUME Types, CallsSound, NEW r \in Requests, NEW s \in Stages, NEW c \in Calls,
         PlaceOf(c), c # Idle <=> s \in InChain,
         stage' = [stage EXCEPT ![r] = s], call' = [call EXCEPT ![r] = c]
  PROVE  Moves(r, c)
<1>1. stage' \in [Requests -> Stages] /\ call' \in [Requests -> Calls]
  BY DEF Types
<1>2. \A q \in Requests : /\ call'[q] = IF q = r THEN c ELSE call[q]
                          /\ stage'[q] = IF q = r THEN s ELSE stage[q]
  BY DEF Types
<1>3. CallsSound'
  BY <1>2 DEF CallsSound
<1> QED
  BY <1>1, <1>3 DEF Moves

LEMMA IdleCall == Idle \in Calls /\ PlaceOf(Idle) /\ Outside(Idle)
  BY DEF Idle, Calls, Places, PlaceOf, Outside

LEMMA BeginMoves ==
  ASSUME Types, CallsSound, NEW r \in Requests, NEW s \in InChain, NEW task \in DOMAIN Chain,
         Begin(r, s, task)
  PROVE  \E c : Moves(r, c) /\ Outside(c)
<1> DEFINE c == [task |-> task, step |-> 1, at |-> "gate"]
<1>1. c \in Calls /\ PlaceOf(c) /\ c # Idle /\ Outside(c)
  BY DEF Calls, Places, PlaceOf, Idle, Outside
<1>2. s \in Stages
  BY DEF Stages
<1> HIDE DEF c
<1>3. stage' = [stage EXCEPT ![r] = s] /\ call' = [call EXCEPT ![r] = c]
  BY DEF Begin, c
<1> QED
  BY <1>1, <1>2, <1>3, MovesTo

\* What follows from being in a chain.
LEMMA InChainFacts ==
  ASSUME Types, CallsSound, NEW r \in Requests, call[r].at # "none"
  PROVE  /\ stage[r] \in InChain /\ call[r] \in Calls /\ PlaceOf(call[r]) /\ call[r] # Idle
         /\ call[r].task \in DOMAIN Chain /\ call[r].step \in 1 .. 4
         /\ ProviderOf(r) \in Providers
  BY ProviderType DEF Types, CallsSound, PlaceOf, Idle

LEMMA MoveMoves ==
  ASSUME Types, CallsSound, NEW r \in Requests, call[r].at # "none", NEW at \in Places \ {"none"},
         at = "thread" => ProviderOf(r) = "gemini", Move(r, at), UNCHANGED stage
  PROVE  Moves(r, [call[r] EXCEPT !.at = at])
<1> DEFINE c == [call[r] EXCEPT !.at = at]
<1>1. /\ c \in Calls /\ c.at = at /\ c.task = call[r].task /\ c.step = call[r].step
  BY InChainFacts DEF Calls
<1>2. PlaceOf(c) /\ c # Idle
  BY <1>1, InChainFacts DEF PlaceOf, Idle, ProviderOf
<1>3. stage[r] \in Stages /\ stage' = [stage EXCEPT ![r] = stage[r]]
  BY DEF Types
<1>4. call' = [call EXCEPT ![r] = c]
  BY DEF Move
<1> HIDE DEF c
<1>5. Moves(r, c)
  BY <1>1, <1>2, <1>3, <1>4, InChainFacts, MovesTo
<1> QED
  BY <1>5 DEF c

LEMMA EndMoves ==
  ASSUME Types, CallsSound, NEW r \in Requests, NEW s \in {"collect"} \cup Finished,
         stage' = [stage EXCEPT ![r] = s], call' = [call EXCEPT ![r] = Idle]
  PROVE  Moves(r, Idle)
<1>1. s \in Stages /\ s \notin InChain
  BY DEF Stages, InChain, Finished
<1> QED
  BY <1>1, IdleCall, MovesTo

LEMMA ReturnMoves ==
  ASSUME Types, CallsSound, NEW r \in Requests, call[r].at # "none", NEW ok \in BOOLEAN,
         Return(r, ok)
  PROVE  Moves(r, Idle)
<1>1. After(r, ok) \subseteq {"collect"} \cup Finished
  BY InChainFacts DEF After, AfterPlan, AfterAnswer, AfterSingle, InChain, Finished
<1> QED
  BY <1>1, EndMoves DEF Return

LEMMA RaiseMoves ==
  ASSUME Types, CallsSound, NEW r \in Requests, Raise(r)
  PROVE  Moves(r, Idle)
<1>1. AfterRaise(r) \in Finished
  BY DEF AfterRaise, Finished
<1> QED
  BY <1>1, EndMoves DEF Raise

LEMMA TryNextMoves ==
  ASSUME Types, CallsSound, NEW r \in Requests, call[r].at # "none", TryNext(r)
  PROVE  \E c : Moves(r, c) /\ Outside(c)
<1>1. CASE call[r].step < Len(Chain[call[r].task])
  <2> DEFINE c == [task |-> call[r].task, step |-> call[r].step + 1, at |-> "gate"]
  <2>1. call[r].step + 1 \in 1 .. 4
    <3>1. Len(Chain[call[r].task]) = 4
      BY InChainFacts, ChainType
    <3> QED
      BY <1>1, <3>1, InChainFacts
  <2>2. c \in Calls /\ PlaceOf(c) /\ c # Idle /\ Outside(c)
    BY <2>1, InChainFacts DEF Calls, Places, PlaceOf, Idle, Outside
  <2>3. call' = [call EXCEPT ![r] = c]
    BY <1>1 DEF TryNext
  <2>4. stage[r] \in Stages /\ stage' = [stage EXCEPT ![r] = stage[r]]
    BY <1>1 DEF TryNext, Types
  <2> HIDE DEF c
  <2> QED
    BY <2>2, <2>3, <2>4, InChainFacts, MovesTo
<1>2. CASE ~(call[r].step < Len(Chain[call[r].task]))
  BY <1>2, ReturnMoves, IdleCall DEF TryNext
<1> QED
  BY <1>1, <1>2

-----------------------------------------------------------------------------
(* A step that passes no gate *)

\* What it does to the counters of p is made up for by where it takes r.
Quiet(r, c, p) ==
  /\ issued'[p] + NWaits(c, p) + rows[p] + unlogged[p] + NPast(call[r], p)
       <= issued[p] + NWaits(call[r], p) + rows'[p] + unlogged'[p] + NPast(c, p)
  /\ issued'[p] + NWaits(c, p) + unlogged[p]
       <= issued[p] + NWaits(call[r], p) + unlogged'[p]
  /\ NPast(c, p) <= NPast(call[r], p)

CounterTypes ==
  /\ rows \in [Providers -> Nat] /\ issued \in [Providers -> Nat]
  /\ unlogged \in [Providers -> Nat] /\ orphans \in Nat

LEMMA OneType ==
  ASSUME NEW c, NEW p
  PROVE  NPast(c, p) \in 0 .. 1 /\ NWaits(c, p) \in 0 .. 1 /\ NReplies(c, p) \in 0 .. 1
  BY DEF One, NPast, NWaits, NReplies

LEMMA QuietCount ==
  ASSUME RouterInv, NEW r \in Requests, NEW c, Moves(r, c), CounterTypes',
         NEW p \in Providers, Quiet(r, c, p)
  PROVE  CountSound(p)'
<1> DEFINE G == Cardinality(PastGate(p))
           Q == Cardinality(Queued(p))
           N == Cardinality(Requests)
           K == SkipAt(p)
<1>1. /\ G \in Nat /\ G' \in Nat /\ Q \in Nat /\ Q' \in Nat
      /\ G' + NPast(call[r], p) = G + NPast(c, p)
      /\ Q' + NWaits(call[r], p) = Q + NWaits(c, p)
  BY PastGateCount, QueuedCount DEF RouterInv
<1>2. /\ rows[p] \in Nat /\ issued[p] \in Nat /\ unlogged[p] \in Nat
      /\ rows'[p] \in Nat /\ issued'[p] \in Nat /\ unlogged'[p] \in Nat
  BY DEF RouterInv, Types, CounterTypes
<1>3. N \in Nat /\ K \in Nat
  BY Finite, SkipAtType
<1>4. /\ issued[p] + Q <= rows[p] + unlogged[p] + G
      /\ DailyLimit[p] > 0 => issued[p] + Q <= K + N - 1 + unlogged[p] /\ (G > 0 => K >= 1)
  BY DEF RouterInv, CountSound
<1>5. /\ NPast(call[r], p) \in 0 .. 1 /\ NPast(c, p) \in 0 .. 1
      /\ NWaits(call[r], p) \in 0 .. 1 /\ NWaits(c, p) \in 0 .. 1
  BY OneType
<1>6. /\ issued'[p] + NWaits(c, p) + rows[p] + unlogged[p] + NPast(call[r], p)
           <= issued[p] + NWaits(call[r], p) + rows'[p] + unlogged'[p] + NPast(c, p)
      /\ issued'[p] + NWaits(c, p) + unlogged[p]
           <= issued[p] + NWaits(call[r], p) + unlogged'[p]
      /\ NPast(c, p) <= NPast(call[r], p)
  BY DEF Quiet
<1>7. /\ issued'[p] + Q' <= rows'[p] + unlogged'[p] + G'
      /\ DailyLimit[p] > 0 => issued'[p] + Q' <= K + N - 1 + unlogged'[p] /\ (G' > 0 => K >= 1)
  <2> HIDE DEF G, Q, N, K
  <2> QED
    BY <1>1, <1>2, <1>3, <1>4, <1>5, <1>6
<1> QED
  BY <1>7 DEF CountSound, SkipAt

LEMMA QuietStep ==
  ASSUME RouterInv, NEW r \in Requests, NEW c, Moves(r, c), CounterTypes', ThreadsSound',
         \A p \in Providers : Quiet(r, c, p)
  PROVE  RouterInv'
<1>1. Types' /\ CallsSound'
  BY DEF Moves, CounterTypes, Types
<1>2. \A p \in Providers : CountSound(p)'
  BY QuietCount
<1> QED
  BY <1>1, <1>2 DEF RouterInv

\* The threads: those whose reply is awaited, and those nobody awaits.
LEMMA ThreadStep ==
  ASSUME RouterInv, NEW r \in Requests, NEW c, Moves(r, c), orphans' \in Nat,
         orphans' + NReplies(c, "gemini") <= orphans + NReplies(call[r], "gemini")
  PROVE  ThreadsSound'
<1>1. Types /\ "gemini" \in Providers
  BY DEF RouterInv, Providers
<1>2. PICK m \in Nat, n \in Nat, o \in Nat, a \in Nat, b \in Nat :
        /\ m = Cardinality(Replying("gemini")) /\ n = Cardinality(Replying("gemini"))'
        /\ o = orphans' /\ a = NReplies(call[r], "gemini") /\ b = NReplies(c, "gemini")
  <2>1. Cardinality(Replying("gemini")) \in Nat
    BY <1>1, ReplyingCount
  <2>2. Cardinality(Replying("gemini"))' \in Nat
    BY <1>1, ReplyingCount
  <2>3. orphans' \in Nat
    OBVIOUS
  <2>4. NReplies(call[r], "gemini") \in Nat
    BY OneType
  <2>5. NReplies(c, "gemini") \in Nat
    BY OneType
  <2> QED
    BY <2>1, <2>2, <2>3, <2>4, <2>5
<1>3. n + a = m + b
  BY <1>1, <1>2, ReplyingCount
<1>4. PICK q \in Nat, w \in Nat : q = orphans /\ w = Workers
  BY <1>1 DEF Types
<1>5. o + b <= q + a
  BY <1>2, <1>4
<1>6. m + q <= w
  BY <1>2, <1>4 DEF RouterInv, ThreadsSound
<1>7. n + o <= w
  BY <1>3, <1>5, <1>6
<1> QED
  BY <1>2, <1>4, <1>7 DEF ThreadsSound

\* Where r was and where it goes, as the sets see it.
LEMMA Where ==
  ASSUME NEW r, NEW p
  PROVE  /\ Past(call[r], p) <=> /\ call[r].at \in {"thread", "reply", "log-ok", "log-failed"}
                                /\ ProviderOf(r) = p
         /\ Waits(call[r], p) <=> call[r].at = "thread" /\ ProviderOf(r) = p
         /\ Replies(call[r], p) <=> call[r].at = "reply" /\ ProviderOf(r) = p
  BY DEF Past, Waits, Replies, ProviderOf

LEMMA WhereTo ==
  ASSUME Types, NEW r \in Requests, NEW p, NEW at, NEW c, c = [call[r] EXCEPT !.at = at]
  PROVE  /\ Past(c, p) <=> /\ at \in {"thread", "reply", "log-ok", "log-failed"}
                          /\ ProviderOf(r) = p
         /\ Waits(c, p) <=> at = "thread" /\ ProviderOf(r) = p
         /\ Replies(c, p) <=> at = "reply" /\ ProviderOf(r) = p
<1>1. c.at = at /\ c.task = call[r].task /\ c.step = call[r].step
  BY DEF Types, Calls
<1> QED
  BY <1>1 DEF Past, Waits, Replies, ProviderOf

LEMMA WhereOutside ==
  ASSUME NEW c, Outside(c), NEW p
  PROVE  ~Past(c, p) /\ ~Waits(c, p) /\ ~Replies(c, p)
  BY DEF Outside, Past, Waits, Replies

-----------------------------------------------------------------------------
(* The actions *)

\* A step between gates, or into a chain.
LEMMA OutsideInv ==
  ASSUME RouterInv, NEW r \in Requests, NEW c, Moves(r, c), Outside(call[r]), Outside(c),
         UNCHANGED <<rows, issued, unlogged, orphans>>
  PROVE  RouterInv'
<1>1. CounterTypes'
  BY DEF RouterInv, Types, CounterTypes
<1>2. \A p : /\ NPast(call[r], p) = 0 /\ NWaits(call[r], p) = 0 /\ NReplies(call[r], p) = 0
            /\ NPast(c, p) = 0 /\ NWaits(c, p) = 0 /\ NReplies(c, p) = 0
  BY WhereOutside DEF NPast, NWaits, NReplies, One
<1>3. ThreadsSound'
  BY <1>1, <1>2, ThreadStep DEF CounterTypes
<1>4. \A p \in Providers : Quiet(r, c, p)
  BY <1>1, <1>2 DEF Quiet, CounterTypes
<1> QED
  BY <1>1, <1>3, <1>4, QuietStep

LEMMA BeginInv ==
  ASSUME RouterInv, NEW r \in Requests,
         PlanQuery(r) \/ SingleTask(r) \/ CollectAndSummarise(r)
  PROVE  RouterInv'
<1>1. Types /\ CallsSound
  BY DEF RouterInv
<1>2. PICK s \in InChain, task \in DOMAIN Chain : Begin(r, s, task)
  BY DEF PlanQuery, SingleTask, CollectAndSummarise, InChain, Chain
<1>3. stage[r] \notin InChain /\ UNCHANGED <<rows, issued, unlogged, orphans>>
  BY DEF PlanQuery, SingleTask, CollectAndSummarise, InChain
<1>4. call[r] = Idle
  BY <1>1, <1>3 DEF CallsSound
<1>5. PICK c : Moves(r, c) /\ Outside(c)
  BY <1>1, <1>2, BeginMoves
<1> QED
  BY <1>3, <1>4, <1>5, IdleCall, OutsideInv

LEMMA SkipInv ==
  ASSUME RouterInv, NEW r \in Requests, Skip(r)
  PROVE  RouterInv'
<1>1. Types /\ CallsSound
  BY DEF RouterInv
<1>2. call[r].at = "gate" /\ TryNext(r) /\ UNCHANGED <<rows, issued, unlogged, orphans>>
  BY DEF Skip, Awaits
<1>3. PICK c : Moves(r, c) /\ Outside(c)
  BY <1>1, <1>2, TryNextMoves
<1> QED
  BY <1>2, <1>3, OutsideInv DEF Outside

\* The gate of p has counted fewer rows than SkipAt(p), and r is not past it:
\* with at most one call more for each other request, there is room for r's.
LEMMA GateCount ==
  ASSUME RouterInv, NEW r \in Requests, NEW c, Moves(r, c), CounterTypes',
         Outside(call[r]), NEW p \in Providers, ~IsOverLimit(p),
         UNCHANGED <<rows, unlogged>>, Past(c, p),
         issued'[p] + NWaits(c, p) = issued[p] + 1
  PROVE  CountSound(p)'
<1> DEFINE G == Cardinality(PastGate(p))
           Q == Cardinality(Queued(p))
           N == Cardinality(Requests)
           K == SkipAt(p)
<1>1. /\ NPast(call[r], p) = 0 /\ NWaits(call[r], p) = 0 /\ r \notin PastGate(p)
      /\ NPast(c, p) = 1
  BY WhereOutside DEF NPast, NWaits, One, PastGate
<1>2. Types
  BY DEF RouterInv
<1>3. /\ G \in Nat /\ G' \in Nat /\ Q \in Nat /\ Q' \in Nat
      /\ G' + NPast(call[r], p) = G + NPast(c, p)
      /\ Q' + NWaits(call[r], p) = Q + NWaits(c, p)
  BY <1>2, PastGateCount, QueuedCount
<1>4. NWaits(c, p) \in 0 .. 1
  BY OneType
<1>5. G' = G + 1 /\ Q' = Q + NWaits(c, p)
  <2> HIDE DEF G, Q
  <2> QED
    BY <1>1, <1>3, <1>4
<1>6. rows[p] \in Nat /\ issued[p] \in Nat /\ unlogged[p] \in Nat /\ issued'[p] \in Nat
  BY <1>2 DEF Types, CounterTypes
<1>7. N \in Nat /\ K \in Nat /\ DailyLimit[p] \in Nat
  BY Finite, SkipAtType
<1>8. G < N
  BY <1>1, Finite DEF PastGate
<1>9. issued[p] + Q <= rows[p] + unlogged[p] + G
  BY DEF RouterInv, CountSound
<1>10. DailyLimit[p] > 0 => rows[p] < K
  BY <1>6, <1>7 DEF IsOverLimit, CallsToday
<1>11. /\ issued'[p] + Q' <= rows[p] + unlogged[p] + G'
       /\ DailyLimit[p] > 0 => issued'[p] + Q' <= K + N - 1 + unlogged[p] /\ K >= 1
  <2> HIDE DEF G, Q, N, K
  <2> QED
    BY <1>3, <1>4, <1>5, <1>6, <1>7, <1>8, <1>9, <1>10
<1> QED
  BY <1>11 DEF CountSound, SkipAt

LEMMA TryInv ==
  ASSUME RouterInv, NEW r \in Requests, Try(r)
  PROVE  RouterInv'
<1>1. Types /\ CallsSound
  BY DEF RouterInv
<1>0. call[r].at = "gate"
  BY DEF Try, Awaits
<1> PICK p \in Providers : p = ProviderOf(r)
  BY <1>0, <1>1, ProviderType
<1> PICK at \in Places \ {"none"} : at = IF p = "gemini" THEN "thread" ELSE "reply"
  BY DEF Places
<1> PICK c : c = [call[r] EXCEPT !.at = at]
  OBVIOUS
<1>2. /\ call[r].at = "gate" /\ Outside(call[r]) /\ ~IsOverLimit(p) /\ Move(r, at)
      /\ UNCHANGED <<stage, rows, unlogged, orphans>>
  BY DEF Try, Awaits, Outside
<1>3. issued' = IF p = "gemini" THEN issued ELSE [issued EXCEPT ![p] = @ + 1]
  BY DEF Try, Ask
<1>5. Moves(r, c)
  BY <1>1, <1>2, MoveMoves
<1>6. CounterTypes'
  BY <1>1, <1>2, <1>3 DEF Types, CounterTypes
<1>7. \A q \in Providers :
        /\ NPast(call[r], q) = 0 /\ NWaits(call[r], q) = 0 /\ NReplies(call[r], q) = 0
        /\ NPast(c, q) = IF q = p THEN 1 ELSE 0
        /\ NWaits(c, q) = IF q = p /\ p = "gemini" THEN 1 ELSE 0
        /\ NReplies(c, q) = IF q = p /\ p # "gemini" THEN 1 ELSE 0
  BY <1>1, <1>2, WhereOutside, WhereTo DEF NPast, NWaits, NReplies, One
<1>8. "gemini" \in Providers /\ NReplies(c, "gemini") = 0
  BY <1>7 DEF Providers
<1>9. ThreadsSound'
  BY <1>1, <1>2, <1>5, <1>6, <1>7, <1>8, ThreadStep DEF CounterTypes, Types
<1>10. ASSUME NEW q \in Providers, q # p PROVE CountSound(q)'
  <2>1. issued'[q] = issued[q]
    BY <1>1, <1>3, <1>10 DEF Types
  <2>2. Quiet(r, c, q)
    BY <1>1, <1>2, <1>7, <1>10, <2>1 DEF Quiet, Types
  <2> QED
    BY <1>5, <1>6, <2>2, QuietCount
<1>11. CountSound(p)'
  <2>1. issued'[p] + NWaits(c, p) = issued[p] + 1
    BY <1>1, <1>3, <1>7 DEF Types
  <2>2. Past(c, p) /\ UNCHANGED <<rows, unlogged>> /\ ~IsOverLimit(p)
    BY <1>1, <1>2, WhereTo
  <2> QED
    BY <1>2, <1>5, <1>6, <2>1, <2>2, GateCount
<1>12. Types' /\ CallsSound'
  BY <1>5, <1>6 DEF Moves, CounterTypes, Types
<1> QED
  <2>1. \A q \in Providers : CountSound(q)'
    BY <1>10, <1>11
  <2> QED
    BY <1>9, <1>12, <2>1 DEF RouterInv

LEMMA ThreadStartsInv ==
  ASSUME RouterInv, NEW r \in Requests, ThreadStarts(r)
  PROVE  RouterInv'
<1>1. Types /\ CallsSound
  BY DEF RouterInv
<1>2. call[r].at = "thread" /\ FreeThread /\ Move(r, "reply")
      /\ UNCHANGED <<stage, rows, unlogged, orphans>>
  BY DEF ThreadStarts, Awaits
<1>3. issued' = [issued EXCEPT !["gemini"] = @ + 1]
  BY DEF ThreadStarts, Ask
<1> PICK p \in Providers : p = "gemini"
  BY DEF Providers
<1> PICK c : c = [call[r] EXCEPT !.at = "reply"]
  OBVIOUS
<1>4. p = ProviderOf(r)
  BY <1>1, <1>2 DEF CallsSound, PlaceOf, ProviderOf
<1>5. Moves(r, c)
  BY <1>1, <1>2, MoveMoves DEF Places
<1>6. CounterTypes'
  BY <1>1, <1>2, <1>3 DEF Types, CounterTypes
<1>7. \A q \in Providers :
        /\ NPast(call[r], q) = IF q = p THEN 1 ELSE 0
        /\ NPast(c, q) = IF q = p THEN 1 ELSE 0
        /\ NWaits(call[r], q) = IF q = p THEN 1 ELSE 0
        /\ NWaits(c, q) = 0
  <2>1. \A q : (Past(call[r], q) <=> q = p) /\ (Waits(call[r], q) <=> q = p)
    BY <1>2, <1>4, Where
  <2>2. \A q : (Past(c, q) <=> q = p) /\ ~Waits(c, q)
    <3>1. ASSUME NEW q PROVE (Past(c, q) <=> ProviderOf(r) = q) /\ ~Waits(c, q)
      BY <1>1, WhereTo
    <3> QED BY <1>4, <3>1
  <2>3. \A q : NPast(call[r], q) = (IF q = p THEN 1 ELSE 0)
             /\ NWaits(call[r], q) = (IF q = p THEN 1 ELSE 0)
    BY <2>1, Zenon DEF NPast, NWaits, One
  <2>4. \A q : NPast(c, q) = (IF q = p THEN 1 ELSE 0) /\ NWaits(c, q) = 0
    BY <2>2, Zenon DEF NPast, NWaits, One
  <2> QED
    BY <2>3, <2>4
<1>8. ThreadsSound'
  <2> DEFINE m == Cardinality(Replying(p))
  <2>1. NReplies(call[r], p) = 0 /\ NReplies(c, p) = 1
    BY <1>1, <1>2, <1>4, Where, WhereTo DEF NReplies, One
  <2>3. /\ m \in Nat /\ m' \in Nat
        /\ m' + NReplies(call[r], p) = m + NReplies(c, p)
    BY <1>1, <1>5, ReplyingCount
  <2>4. Replying(p) = InFlight("gemini")
    BY DEF Replying, Replies, InFlight, Awaits, ProviderOf
  <2>5. m + orphans < Workers /\ orphans \in Nat /\ Workers \in Nat
    BY <1>1, <1>2, <2>4 DEF FreeThread, Types
  <2>6. m' + orphans <= Workers
    <3> HIDE DEF m
    <3> QED
      BY <2>1, <2>3, <2>5
  <2> QED
    BY <1>2, <2>6 DEF ThreadsSound
<1>9. ASSUME NEW q \in Providers PROVE Quiet(r, c, q)
  <2>1. issued'[q] = IF q = p THEN issued[q] + 1 ELSE issued[q]
    BY <1>1, <1>3 DEF Types
  <2> QED
    BY <1>1, <1>2, <1>7, <2>1 DEF Quiet, Types
<1> QED
  BY <1>5, <1>6, <1>8, <1>9, QuietStep

\* A request that leaves the place it has past a gate, with its row, or
\* without: then it is counted as one that was not logged.
LEMMA LeaveInv ==
  ASSUME RouterInv, NEW r \in Requests, NEW c, Moves(r, c), Outside(c),
         NEW p, ProviderOf(r) = p, CounterTypes', issued' = issued,
         call[r].at \in {"thread", "reply", "log-ok", "log-failed"},
         \/ call[r].at = "thread" /\ UNCHANGED <<rows, unlogged>>
         \/ rows' = [rows EXCEPT ![p] = @ + 1] /\ UNCHANGED unlogged
         \/ unlogged' = [unlogged EXCEPT ![p] = @ + 1] /\ UNCHANGED rows,
         orphans' = orphans \/ (orphans' = orphans + 1 /\ call[r].at = "reply" /\ p = "gemini")
  PROVE  RouterInv'
<1>1. Types /\ CallsSound
  BY DEF RouterInv
<1>2. p \in Providers
  BY <1>1, ProviderType
<1>3. \A q \in Providers :
        /\ NPast(call[r], q) = IF q = p THEN 1 ELSE 0
        /\ NWaits(call[r], q) = IF q = p /\ call[r].at = "thread" THEN 1 ELSE 0
        /\ NReplies(call[r], q) = IF q = p /\ call[r].at = "reply" THEN 1 ELSE 0
        /\ NPast(c, q) = 0 /\ NWaits(c, q) = 0 /\ NReplies(c, q) = 0
  BY Where, WhereOutside DEF NPast, NWaits, NReplies, One
<1>4. ThreadsSound'
  <2>1. orphans \in Nat /\ orphans' \in Nat /\ "gemini" \in Providers
    BY <1>1 DEF Types, CounterTypes, Providers
  <2>2. orphans' + NReplies(c, "gemini") <= orphans + NReplies(call[r], "gemini")
    BY <1>3, <2>1
  <2> QED
    BY <2>1, <2>2, ThreadStep
<1>5. ASSUME NEW q \in Providers PROVE Quiet(r, c, q)
  <2>1. /\ rows[q] \in Nat /\ unlogged[q] \in Nat /\ issued[q] \in Nat
        /\ rows'[q] \in Nat /\ unlogged'[q] \in Nat /\ issued'[q] = issued[q]
    BY <1>1 DEF Types, CounterTypes
  <2>2. \/ call[r].at = "thread" /\ rows'[q] = rows[q] /\ unlogged'[q] = unlogged[q]
        \/ /\ rows'[q] = rows[q] + (IF q = p THEN 1 ELSE 0) /\ unlogged'[q] = unlogged[q]
        \/ /\ unlogged'[q] = unlogged[q] + (IF q = p THEN 1 ELSE 0) /\ rows'[q] = rows[q]
    BY <1>1, <2>1 DEF Types
  <2> QED
    BY <1>3, <2>1, <2>2 DEF Quiet
<1> QED
  BY <1>4, <1>5, QuietStep

\* A request that is past its gate and stays so: it gives up the thread, or
\* has its reply.
LEMMA StaysPastInv ==
  ASSUME RouterInv, NEW r \in Requests, NEW at \in {"log-ok", "log-failed"}, NEW c,
         c = [call[r] EXCEPT !.at = at], Moves(r, c), call[r].at \in {"thread", "reply"},
         UNCHANGED <<rows, issued, unlogged>>,
         \/ orphans' = orphans
         \/ orphans' = orphans + 1 /\ call[r].at = "reply" /\ ProviderOf(r) = "gemini"
  PROVE  RouterInv'
<1>1. Types /\ CallsSound
  BY DEF RouterInv
<1>2. CounterTypes'
  BY <1>1 DEF Types, CounterTypes
<1>3. ASSUME NEW q
      PROVE  /\ NPast(c, q) = NPast(call[r], q) /\ NWaits(c, q) = 0 /\ NReplies(c, q) = 0
             /\ call[r].at = "reply" /\ ProviderOf(r) = q => NReplies(call[r], q) = 1
  <2>1. c.at = at /\ c.task = call[r].task /\ c.step = call[r].step
    BY <1>1 DEF Types, Calls
  <2>2. (Past(c, q) <=> Past(call[r], q)) /\ ~Waits(c, q) /\ ~Replies(c, q)
    BY <2>1 DEF Past, Waits, Replies
  <2>3. NPast(c, q) = NPast(call[r], q) /\ NWaits(c, q) = 0 /\ NReplies(c, q) = 0
    BY <2>2 DEF NPast, NWaits, NReplies, One
  <2>4. call[r].at = "reply" /\ ProviderOf(r) = q => Replies(call[r], q)
    BY Where
  <2> QED
    BY <2>3, <2>4 DEF NReplies, One
<1>4. ThreadsSound'
  <2>1. orphans \in Nat /\ orphans' \in Nat
    BY <1>1, <1>2 DEF Types, CounterTypes
  <2>2. NReplies(call[r], "gemini") \in 0 .. 1
    BY OneType
  <2>3. orphans' + NReplies(c, "gemini") <= orphans + NReplies(call[r], "gemini")
    BY <1>3, <2>1, <2>2
  <2> QED
    BY <2>1, <2>3, ThreadStep
<1>5. ASSUME NEW q \in Providers PROVE Quiet(r, c, q)
  <2>1. rows[q] \in Nat /\ unlogged[q] \in Nat /\ issued[q] \in Nat
    BY <1>1 DEF Types
  <2>2. NPast(call[r], q) \in 0 .. 1 /\ NWaits(call[r], q) \in 0 .. 1
    BY OneType
  <2> QED
    BY <1>3, <2>1, <2>2 DEF Quiet
<1> QED
  BY <1>2, <1>4, <1>5, QuietStep

LEMMA ThreadNeverStartsInv ==
  ASSUME RouterInv, NEW r \in Requests, ThreadNeverStarts(r)
  PROVE  RouterInv'
<1>1. Types /\ CallsSound
  BY DEF RouterInv
<1>2. /\ call[r].at = "thread" /\ Move(r, "log-failed")
      /\ UNCHANGED <<stage, rows, issued, unlogged, orphans>>
  BY DEF ThreadNeverStarts, Awaits
<1> PICK c : c = [call[r] EXCEPT !.at = "log-failed"]
  OBVIOUS
<1>3. Moves(r, c)
  BY <1>1, <1>2, MoveMoves DEF Places
<1> QED
  BY <1>1, <1>2, <1>3, StaysPastInv

\* The end of a call: with its row, or counted as one that was not logged.
LEMMA LogInv ==
  ASSUME RouterInv, NEW r \in Requests, LogCall(r) \/ LogCallFails(r)
  PROVE  RouterInv'
<1>1. Types /\ CallsSound
  BY DEF RouterInv
<1>2. call[r].at \in {"log-ok", "log-failed"} /\ UNCHANGED <<issued, orphans>>
  BY DEF LogCall, LogCallFails, Logging, Awaits
<1>3. PICK p \in Providers : p = ProviderOf(r)
  BY <1>1, <1>2, ProviderType
<1>4. PICK c : Moves(r, c) /\ Outside(c)
  <2>1. CASE Return(r, TRUE)
    BY <1>1, <1>2, <2>1, ReturnMoves, IdleCall
  <2>2. CASE TryNext(r)
    BY <1>1, <1>2, <2>2, TryNextMoves
  <2>3. CASE Raise(r)
    BY <1>1, <2>3, RaiseMoves, IdleCall
  <2> QED
    BY <2>1, <2>2, <2>3 DEF LogCall, LogCallFails
<1>5. \/ rows' = [rows EXCEPT ![p] = @ + 1] /\ UNCHANGED unlogged
      \/ unlogged' = [unlogged EXCEPT ![p] = @ + 1] /\ UNCHANGED rows
  BY <1>3 DEF LogCall, LogCallFails
<1>6. CounterTypes'
  BY <1>1, <1>2, <1>5 DEF Types, CounterTypes
<1> QED
  BY <1>2, <1>3, <1>4, <1>5, <1>6, LeaveInv

LEMMA ReplyInv ==
  ASSUME RouterInv, NEW r \in Requests, Reply(r)
  PROVE  RouterInv'
<1>1. Types /\ CallsSound
  BY DEF RouterInv
<1>2. call[r].at = "reply" /\ UNCHANGED <<rows, issued>>
  BY DEF Reply, Awaits
<1>3. PICK p \in Providers : p = ProviderOf(r)
  BY <1>1, <1>2, ProviderType
<1>4. PICK out \in Outcomes[p] :
        /\ IF out = "raised"
           THEN Raise(r) /\ unlogged' = [unlogged EXCEPT ![p] = @ + 1]
           ELSE /\ Move(r, IF out = "ok" THEN "log-ok" ELSE "log-failed")
                /\ UNCHANGED <<stage, unlogged>>
        /\ orphans' = IF out = "abandoned" THEN orphans + 1 ELSE orphans
  BY <1>3 DEF Reply
<1>5. out = "abandoned" => p = "gemini"
  BY DEF Outcomes, GroqOutcomes, NvidiaOutcomes, OpenRouterOutcomes, Providers
<1>6. CounterTypes'
  BY <1>1, <1>2, <1>4 DEF Types, CounterTypes
<1>7. CASE out = "raised"
  <2>1. Moves(r, Idle) /\ Outside(Idle)
    BY <1>1, <1>4, <1>7, RaiseMoves, IdleCall
  <2>2. orphans' = orphans
    BY <1>4, <1>7
  <2> QED
    BY <1>2, <1>3, <1>4, <1>6, <1>7, <2>1, <2>2, LeaveInv
<1>8. CASE out # "raised"
  <2> PICK at \in {"log-ok", "log-failed"} : at = IF out = "ok" THEN "log-ok" ELSE "log-failed"
    OBVIOUS
  <2> PICK c : c = [call[r] EXCEPT !.at = at]
    OBVIOUS
  <2>1. Moves(r, c)
    BY <1>1, <1>2, <1>4, <1>8, MoveMoves DEF Places
  <2> QED
    BY <1>2, <1>3, <1>4, <1>5, <1>6, <1>8, <2>1, StaysPastInv
<1> QED
  BY <1>7, <1>8

LEMMA AskTimesOutInv ==
  ASSUME RouterInv, NEW r \in Requests, AskTimesOut(r)
  PROVE  RouterInv'
<1>1. Types /\ CallsSound
  BY DEF RouterInv
<1>2. Moves(r, Idle) /\ Outside(Idle)
  BY <1>1, EndMoves, IdleCall DEF AskTimesOut, Finished
<1>3. UNCHANGED issued /\ call[r].at \in Places
  BY <1>1 DEF AskTimesOut, Types, Calls
<1>4. CASE Outside(call[r])
  <2>1. UNCHANGED <<rows, unlogged, orphans>>
    BY <1>4 DEF AskTimesOut, Outside, Awaits, Logging
  <2> QED
    BY <1>2, <1>3, <1>4, <2>1, OutsideInv
<1>5. CASE ~Outside(call[r])
  <2>1. call[r].at \in {"thread", "reply", "log-ok", "log-failed"}
    BY <1>3, <1>5 DEF Outside, Places
  <2>2. PICK p \in Providers : p = ProviderOf(r)
    BY <1>1, <2>1, ProviderType
  <2>3. \/ call[r].at = "thread" /\ UNCHANGED <<rows, unlogged>>
        \/ rows' = [rows EXCEPT ![p] = @ + 1] /\ UNCHANGED unlogged
        \/ unlogged' = [unlogged EXCEPT ![p] = @ + 1] /\ UNCHANGED rows
    BY <2>1, <2>2 DEF AskTimesOut, Awaits, Logging
  <2>4. orphans' = orphans \/ (orphans' = orphans + 1 /\ call[r].at = "reply" /\ p = "gemini")
    BY <2>2 DEF AskTimesOut, Awaits
  <2>5. CounterTypes'
    BY <1>1, <1>3, <2>3, <2>4 DEF Types, CounterTypes
  <2> QED
    BY <1>2, <1>3, <2>1, <2>2, <2>3, <2>4, <2>5, LeaveInv
<1> QED
  BY <1>4, <1>5

LEMMA ThreadEndsInv ==
  ASSUME RouterInv, ThreadEnds
  PROVE  RouterInv'
<1>1. /\ UNCHANGED <<stage, call, rows, issued, unlogged>>
      /\ orphans \in Nat /\ orphans' \in Nat /\ orphans' <= orphans
  BY DEF ThreadEnds, RouterInv, Types
<1>2. Types' /\ CallsSound'
  BY <1>1 DEF RouterInv, Types, CallsSound
<1>3. \A p \in Providers : CountSound(p)'
  BY <1>1 DEF RouterInv, CountSound, Queued, PastGate, SkipAt
<1>4. ThreadsSound'
  <2> PICK m \in Nat : m = Cardinality(Replying("gemini"))
    BY Finite DEF Replying
  <2>1. Cardinality(Replying("gemini"))' = m
    BY <1>1 DEF Replying
  <2>2. m + orphans <= Workers
    BY DEF RouterInv, ThreadsSound
  <2>3. m + orphans' <= Workers
    BY <1>1, <2>2
  <2> QED
    BY <2>1, <2>3 DEF ThreadsSound
<1> QED
  BY <1>2, <1>3, <1>4 DEF RouterInv

\* The count starts again, and the requests on their way are counted anew.
LEMMA MidnightInv ==
  ASSUME RouterInv, Midnight
  PROVE  RouterInv'
<1>1. /\ UNCHANGED <<stage, call, orphans>>
      /\ \A p \in Providers : rows'[p] = 0 /\ issued'[p] = 0 /\ unlogged'[p] = 0
      /\ rows' \in [Providers -> Nat] /\ issued' \in [Providers -> Nat]
      /\ unlogged' \in [Providers -> Nat]
  BY DEF Midnight
<1>2. Types' /\ CallsSound'
  BY <1>1 DEF RouterInv, Types, CallsSound
<1>3. ThreadsSound'
  BY <1>1 DEF RouterInv, ThreadsSound, Replying
<1>4. ASSUME NEW p \in Providers PROVE CountSound(p)'
  <2>1. PastGate(p) \subseteq Requests /\ Queued(p) \subseteq PastGate(p)
    BY DEF PastGate, Queued, Past, Waits
  <2> PICK g \in Nat, q \in Nat, n \in Nat, k \in Nat :
        /\ g = Cardinality(PastGate(p)) /\ q = Cardinality(Queued(p))
        /\ n = Cardinality(Requests) /\ k = SkipAt(p)
    BY <2>1, Finite, SkipAtType
  <2>2. q <= g /\ g <= n /\ n >= 1
    <3>1. IsFiniteSet(PastGate(p))
      BY <2>1, Finite
    <3>2. q <= g
      BY <2>1, <3>1, FS_Subset
    <3> QED
      BY <2>1, <3>2, Finite
  <2>3. Cardinality(PastGate(p))' = g /\ Cardinality(Queued(p))' = q
    BY <1>1 DEF PastGate, Queued
  <2>4. DailyLimit[p] > 0 => (g > 0 => k >= 1)
    BY DEF RouterInv, CountSound
  <2>5. /\ 0 + q <= 0 + 0 + g
        /\ DailyLimit[p] > 0 => 0 + q <= k + n - 1 + 0 /\ (g > 0 => k >= 1)
    BY <2>2, <2>4
  <2> QED
    BY <1>1, <2>3, <2>5 DEF CountSound, SkipAt
<1> QED
  BY <1>2, <1>3, <1>4 DEF RouterInv

-----------------------------------------------------------------------------
(* The theorem *)

LEMMA InvInit == RouterInit => RouterInv
<1> SUFFICES ASSUME RouterInit PROVE RouterInv
  OBVIOUS
<1>1. Types
  BY IdleCall DEF RouterInit, Types, Stages
<1>2. CallsSound
  BY IdleCall DEF RouterInit, CallsSound, InChain
<1>3. ASSUME NEW p PROVE PastGate(p) = {} /\ Queued(p) = {} /\ Replying(p) = {}
  BY DEF RouterInit, PastGate, Queued, Replying, Past, Waits, Replies, Idle
<1>4. Cardinality({}) = 0
  BY FS_EmptySet
<1>5. ThreadsSound
  <2>1. Cardinality(Replying("gemini")) = 0 /\ orphans = 0 /\ Workers \in Nat
    BY <1>3, <1>4 DEF RouterInit
  <2> QED
    BY <2>1 DEF ThreadsSound
<1>6. ASSUME NEW p \in Providers PROVE CountSound(p)
  <2>1. /\ rows[p] = 0 /\ issued[p] = 0 /\ unlogged[p] = 0
        /\ Cardinality(PastGate(p)) = 0 /\ Cardinality(Queued(p)) = 0
    BY <1>3, <1>4 DEF RouterInit
  <2>2. SkipAt(p) \in Nat /\ Cardinality(Requests) \in Nat \ {0}
    BY Finite, SkipAtType
  <2> QED
    BY <2>1, <2>2 DEF CountSound
<1> QED
  BY <1>1, <1>2, <1>5, <1>6 DEF RouterInv

LEMMA InvStep == RouterInv /\ [RouterNext]_routerVars => RouterInv'
<1> SUFFICES ASSUME RouterInv, [RouterNext]_routerVars PROVE RouterInv'
  OBVIOUS
<1>1. ASSUME NEW r \in Requests, RequestStep(r) PROVE RouterInv'
  <2>1. CASE PlanQuery(r) \/ SingleTask(r) \/ CollectAndSummarise(r)
    BY <2>1, BeginInv
  <2>2. CASE Skip(r)
    BY <2>2, SkipInv
  <2>3. CASE Try(r)
    BY <2>3, TryInv
  <2>4. CASE ThreadStarts(r)
    BY <2>4, ThreadStartsInv
  <2>5. CASE ThreadNeverStarts(r)
    BY <2>5, ThreadNeverStartsInv
  <2>6. CASE Reply(r)
    BY <2>6, ReplyInv
  <2>7. CASE LogCall(r) \/ LogCallFails(r)
    BY <2>7, LogInv
  <2>8. CASE AskTimesOut(r)
    BY <2>8, AskTimesOutInv
  <2> QED
    BY <1>1, <2>1, <2>2, <2>3, <2>4, <2>5, <2>6, <2>7, <2>8 DEF RequestStep
<1>2. CASE ThreadEnds
  BY <1>2, ThreadEndsInv
<1>3. CASE Midnight
  BY <1>3, MidnightInv
<1>4. CASE UNCHANGED routerVars
  BY <1>4 DEF routerVars, RouterInv, Types, CallsSound, ThreadsSound, CountSound, PastGate,
       Queued, Replying, SkipAt
<1> QED
  BY <1>1, <1>2, <1>3, <1>4 DEF RouterNext

\* What a completion comes to at the provider.
LEMMA SendsType == \A p \in Providers : Sends(p) \in Nat \ {0}
  BY DEF Sends

LEMMA AskKeepsRequests ==
  ASSUME Types, RequestsSound, NEW p \in Providers, Ask(p)
  PROVE  RequestsSound'
<1>1. PICK n \in 1 .. Sends(p) : requested' = [requested EXCEPT ![p] = @ + n]
  BY DEF Ask
<1>2. issued' = [issued EXCEPT ![p] = @ + 1]
  BY DEF Ask
<1>3. n \in Nat /\ n <= Sends(p)
  BY <1>1, SendsType
<1>4. requested' \in [Providers -> Nat]
  BY <1>1, <1>3 DEF RequestsSound
<1>5. ASSUME NEW q \in Providers PROVE requested'[q] <= Sends(q) * issued'[q]
  <2>1. requested[q] \in Nat /\ issued[q] \in Nat /\ requested[q] <= Sends(q) * issued[q]
    BY DEF Types, RequestsSound
  <2>2. CASE q # p
    BY <1>1, <1>2, <2>1, <2>2 DEF Types, RequestsSound
  <2>3. CASE q = p
    <3>1. requested'[q] = requested[q] + n /\ issued'[q] = issued[q] + 1
      BY <1>1, <1>2, <2>3 DEF Types, RequestsSound
    <3>2. PICK k \in Nat, i \in Nat, m \in Nat :
            k = Sends(q) /\ i = issued[q] /\ m = requested[q]
      BY <2>1, SendsType
    <3>3. m <= k * i /\ n <= k
      BY <1>3, <2>1, <2>3, <3>2
    <3>4. k * (i + 1) = k * i + k /\ k * i \in Nat
      BY <3>2
    <3>5. m + n <= k * (i + 1)
      BY <1>3, <3>2, <3>3, <3>4
    <3> QED BY <3>1, <3>2, <3>5
  <2> QED BY <2>2, <2>3
<1> QED BY <1>4, <1>5 DEF RequestsSound, Sends

LEMMA RequestsKept ==
  ASSUME RouterInv, RequestsSound, [RouterNext]_routerVars
  PROVE  RequestsSound'
<1>1. Types /\ CallsSound
  BY DEF RouterInv
<1>2. ASSUME UNCHANGED <<issued, requested>> PROVE RequestsSound'
  BY <1>2 DEF RequestsSound, Sends
<1>3. ASSUME NEW r \in Requests, Try(r) PROVE RequestsSound'
  <2>1. call[r].at # "none"
    BY <1>3 DEF Try, Awaits
  <2>2. PICK p \in Providers : p = ProviderOf(r)
    BY <1>1, <2>1, ProviderType
  <2>3. Ask(p) \/ UNCHANGED <<issued, requested>>
    BY <1>3, <2>2 DEF Try
  <2> QED BY <1>1, <1>2, <2>3, AskKeepsRequests
<1>4. ASSUME NEW r \in Requests, ThreadStarts(r) PROVE RequestsSound'
  BY <1>1, <1>4, AskKeepsRequests DEF ThreadStarts, Providers
<1>5. CASE Midnight
  <2>1. /\ requested' = [p \in Providers |-> 0] /\ issued' = [p \in Providers |-> 0]
    BY <1>5 DEF Midnight
  <2>2. \A p \in Providers : requested'[p] <= Sends(p) * issued'[p]
    BY <2>1, SendsType
  <2> QED BY <2>1, <2>2 DEF RequestsSound, Sends
<1>6. ASSUME NEW r \in Requests, RequestStep(r), ~Try(r), ~ThreadStarts(r)
      PROVE  UNCHANGED <<issued, requested>>
  BY <1>6 DEF RequestStep, PlanQuery, SingleTask, CollectAndSummarise, Skip, ThreadNeverStarts,
       Reply, LogCall, LogCallFails, AskTimesOut
<1>7. CASE ThreadEnds \/ UNCHANGED routerVars
  BY <1>2, <1>7 DEF ThreadEnds, routerVars
<1> QED BY <1>2, <1>3, <1>4, <1>5, <1>6, <1>7 DEF RouterNext

LEMMA InvBounds == RouterInv /\ RequestsSound => OvershootIsBounded
<1> SUFFICES ASSUME RouterInv, RequestsSound PROVE OvershootIsBounded
  OBVIOUS
<1>1. RouterTypeOK
  <2>1. orphans \in 0 .. Workers
    <3> PICK m \in Nat : m = Cardinality(Replying("gemini"))
      BY Finite DEF Replying
    <3>1. m + orphans <= Workers /\ orphans \in Nat
      BY DEF RouterInv, ThreadsSound, Types
    <3> QED
      BY <3>1
  <2>2. /\ stage \in [Requests -> {"new", "plan", "collect", "answer", "single"} \cup Finished]
        /\ {rows, issued, requested, unlogged} \subseteq [Providers -> Nat]
    <3>1. Stages = {"new", "plan", "collect", "answer", "single"} \cup Finished
      BY DEF Stages, InChain
    <3> QED
      BY <3>1 DEF RouterInv, Types, RequestsSound
  <2>3. call \in [Requests -> [task : DOMAIN Chain \cup {"none"}, step : 0 .. 4,
                              at : {"none", "gate", "thread", "reply", "log-ok", "log-failed"}]]
    BY DEF RouterInv, Types, Calls, Places
  <2>4. \A r \in Requests : call[r] # Idle <=> stage[r] \in {"plan", "answer", "single"}
    BY DEF RouterInv, CallsSound, InChain
  <2> QED
    BY <2>1, <2>2, <2>3, <2>4 DEF RouterTypeOK
<1>2. ASSUME NEW p \in Providers, DailyLimit[p] > 0
      PROVE  issued[p] <= SkipAt(p) + Cardinality(Requests) - 1 + unlogged[p]
  <2> PICK q \in Nat, n \in Nat, k \in Nat :
        q = Cardinality(Queued(p)) /\ n = Cardinality(Requests) /\ k = SkipAt(p)
    BY Finite, SkipAtType DEF Queued
  <2>1. issued[p] \in Nat /\ unlogged[p] \in Nat
    BY DEF RouterInv, Types
  <2>2. issued[p] + q <= k + n - 1 + unlogged[p]
    BY <1>2 DEF RouterInv, CountSound
  <2>3. issued[p] <= k + n - 1 + unlogged[p]
    BY <2>1, <2>2
  <2> QED
    BY <2>3
<1>3. ASSUME NEW p \in Providers, DailyLimit[p] > 0
      PROVE  requested[p]
               <= Sends(p) * (SkipAt(p) + Cardinality(Requests) - 1 + unlogged[p])
  <2>1. PICK k \in Nat, i \in Nat, m \in Int :
          /\ k = Sends(p) /\ i = issued[p]
          /\ m = SkipAt(p) + Cardinality(Requests) - 1 + unlogged[p]
    BY Finite, SkipAtType, SendsType DEF RouterInv, Types
  <2>2. i <= m
    BY <1>2, <1>3, <2>1
  <2>3. k * i <= k * m /\ k * i \in Int /\ k * m \in Int
    BY <2>1, <2>2
  <2>4. requested[p] \in Nat /\ requested[p] <= k * i
    BY <2>1 DEF RequestsSound
  <2>5. requested[p] <= k * m
    BY <2>3, <2>4
  <2> QED BY <2>1, <2>5
<1> QED
  BY <1>1, <1>2, <1>3 DEF OvershootIsBounded

\* A provider's completions of a day exceed its gate (ai/router.py:152) by no
\* more than one for each other request and those that were never logged,
\* however many requests run together and wherever they are cancelled; its HTTP
\* requests by as many times that as the SDK sends one completion.
THEOREM OvershootBounded == RouterSpec => []OvershootIsBounded
<1>1. RouterSpec => []RouterInv
  BY InvInit, InvStep, PTL DEF RouterSpec
<1>2. RouterInit => RequestsSound
  BY SendsType DEF RouterInit, RequestsSound
<1>3. RouterInv /\ RequestsSound /\ [RouterNext]_routerVars => RequestsSound'
  BY RequestsKept
<1>4. RouterSpec => []RequestsSound
  BY <1>1, <1>2, <1>3, PTL DEF RouterSpec
<1> QED
  BY <1>1, <1>4, InvBounds, PTL

HIDE RouterAssumption

-----------------------------------------------------------------------------
(* A data source: numbers *)

LEMMA MinOfTwo ==
  ASSUME NEW a \in Int, NEW b \in Int
  PROVE  Min({a, b}) = IF a <= b THEN a ELSE b
<1> DEFINE S == {a, b}
<1>1. \E x \in S : \A y \in S : x <= y
  OBVIOUS
<1>2. Min(S) \in S /\ \A y \in S : Min(S) <= y
  BY <1>1 DEF Min
<1> QED BY <1>2

LEMMA MaxOfTwo ==
  ASSUME NEW a \in Int, NEW b \in Int
  PROVE  Max({a, b}) = IF a >= b THEN a ELSE b
<1> DEFINE S == {a, b}
<1>1. \E x \in S : \A y \in S : x >= y
  OBVIOUS
<1>2. Max(S) \in S /\ \A y \in S : Max(S) >= y
  BY <1>1 DEF Max
<1> QED BY <1>2

LEMMA Settings ==
  /\ Probe \in Callers
  /\ Ttl \in Nat \ {0} /\ Lag \in Nat \ {0} /\ MaxCalls \in Nat \ {0}
  /\ Period \in Nat \ {0} /\ MaxRetries \in Nat \ {0} /\ SlowAfter \in Nat \ {0}
  /\ ProbeCap \in Nat \ {0}
  /\ MaxAge = Ttl + 3 * Lag /\ Never = MaxAge + 3 /\ MaxAge \in Nat /\ Never \in Nat
  /\ Full = MaxCalls * Period /\ Full \in Nat \ {0}
<1>1. /\ Probe \in Callers
      /\ Ttl \in Nat \ {0} /\ Lag \in Nat \ {0} /\ MaxCalls \in Nat \ {0}
      /\ Period \in Nat \ {0} /\ MaxRetries \in Nat \ {0} /\ SlowAfter \in Nat \ {0}
      /\ ProbeCap \in Nat \ {0}
  BY SourceAssumption
<1>2. MaxCalls * Period \in Nat \ {0}
  BY <1>1
<1>3. MaxAge = Ttl + 3 * Lag /\ Never = MaxAge + 3 /\ MaxAge \in Nat /\ Never \in Nat
  BY <1>1 DEF MaxAge, Never
<1> QED BY <1>1, <1>2, <1>3 DEF Full

LEMMA OlderIs ==
  ASSUME NEW x \in Int, NEW y \in Int
  PROVE  Older(x, y) = IF x + 1 <= y THEN x + 1 ELSE y
BY MinOfTwo DEF Older

-----------------------------------------------------------------------------
(* The limiter's line *)

CallStages ==
  {"idle", "drop", "limiter", "load", "log-load", "log-hit", "log-failure", "store", "ping"}

Waiting == {c \in Callers : pc[c] = "limiter"} = {queue[i] : i \in DOMAIN queue}

LEMMA LineJoined ==
  ASSUME LineSound, Waiting, pc \in [Callers -> CallStages], NEW c \in Callers,
         pc[c] # "limiter", queue' = Append(queue, c), pc' = [pc EXCEPT ![c] = "limiter"]
  PROVE  LineSound' /\ Waiting'
<1> DEFINE n == Len(queue)
<1>1. /\ queue \in Seq(Callers) /\ n \in Nat /\ DOMAIN queue = 1 .. n
      /\ queue' \in Seq(Callers) /\ DOMAIN queue' = 1 .. n + 1
      /\ queue'[n + 1] = c /\ \A i \in 1 .. n : queue'[i] = queue[i]
  BY DEF LineSound
<1>2. \A d \in Callers : pc'[d] = IF d = c THEN "limiter" ELSE pc[d]
  OBVIOUS
<1>3. \A i \in 1 .. n : queue[i] # c /\ queue[i] \in Callers
  BY <1>1 DEF Waiting
<1>4. /\ \A i \in 1 .. n + 1 : i \in 1 .. n \/ i = n + 1
      /\ \A i \in 1 .. n : i \in 1 .. n + 1
      /\ n + 1 \in 1 .. n + 1
  BY <1>1
<1> HIDE DEF n
<1>5. LineSound'
  BY <1>1, <1>3, <1>4 DEF LineSound
<1>6. Waiting'
  <2>1. {queue'[i] : i \in DOMAIN queue'} = {queue[i] : i \in DOMAIN queue} \cup {c}
    <3>1. \A i \in 1 .. n + 1 : queue'[i] = c \/ \E j \in 1 .. n : queue'[i] = queue[j]
      BY <1>1, <1>4
    <3>2. \A i \in 1 .. n : \E j \in 1 .. n + 1 : queue[i] = queue'[j]
      BY <1>1, <1>4
    <3>3. \E j \in 1 .. n + 1 : queue'[j] = c
      BY <1>1, <1>4
    <3>4. DOMAIN queue = 1 .. n /\ DOMAIN queue' = 1 .. n + 1
      BY <1>1
    <3> DEFINE A == {queue'[i] : i \in DOMAIN queue'}
               B == {queue[i] : i \in DOMAIN queue} \cup {c}
    <3>5. \A x : x \in A => x \in B
      BY <3>1, <3>4, Zenon
    <3>6. ASSUME NEW x \in B PROVE x \in A
      <4>1. CASE x = c
        BY <3>3, <3>4, <4>1
      <4>2. CASE x # c
        <5>1. PICK i \in 1 .. n : x = queue[i]
          BY <3>4, <3>6, <4>2
        <5>2. PICK j \in 1 .. n + 1 : queue[i] = queue'[j]
          BY <3>2
        <5> QED BY <3>4, <5>1, <5>2
      <4> QED BY <4>1, <4>2
    <3>7. A = B
      <4> HIDE DEF A, B
      <4> QED BY <3>5, <3>6
    <3> QED BY <3>7, Zenon
  <2>2. {d \in Callers : pc'[d] = "limiter"} = {d \in Callers : pc[d] = "limiter"} \cup {c}
    BY <1>2
  <2> QED BY <2>1, <2>2 DEF Waiting
<1> QED BY <1>5, <1>6

\* Whoever is at i leaves, and the rest close up.
LEMMA LineShortened ==
  ASSUME LineSound, Waiting, pc \in [Callers -> CallStages], NEW c \in Callers,
         NEW i \in DOMAIN queue, queue[i] = c,
         queue' = [j \in 1 .. Len(queue) - 1 |-> IF j < i THEN queue[j] ELSE queue[j + 1]],
         NEW to, to # "limiter", pc' = [pc EXCEPT ![c] = to]
  PROVE  LineSound' /\ Waiting'
<1> DEFINE n == Len(queue)
           old(j) == IF j < i THEN j ELSE j + 1
<1>1. queue \in Seq(Callers) /\ n \in Nat /\ DOMAIN queue = 1 .. n /\ i \in 1 .. n
  BY DEF LineSound
<1>2. /\ \A j \in 1 .. n - 1 : old(j) \in 1 .. n /\ old(j) # i
      /\ \A j, k \in 1 .. n - 1 : old(j) = old(k) => j = k
      /\ \A j \in 1 .. n : j # i => \E k \in 1 .. n - 1 : old(k) = j
  <2>1. ASSUME NEW j \in 1 .. n, j # i PROVE \E k \in 1 .. n - 1 : old(k) = j
    <3>1. CASE j < i
      <4>1. j \in 1 .. n - 1 /\ old(j) = j
        BY <1>1, <3>1
      <4> QED BY <4>1
    <3>2. CASE j > i
      <4>1. j - 1 \in 1 .. n - 1 /\ old(j - 1) = j
        BY <1>1, <3>2
      <4> QED BY <4>1
    <3> QED BY <1>1, <2>1, <3>1, <3>2
  <2>2. \A j \in 1 .. n - 1 : old(j) \in 1 .. n /\ old(j) # i
    BY <1>1
  <2>3. \A j, k \in 1 .. n - 1 : old(j) = old(k) => j = k
    BY <1>1
  <2> QED BY <2>1, <2>2, <2>3
<1>3. /\ queue' \in Seq(Callers) /\ DOMAIN queue' = 1 .. n - 1
      /\ \A j \in 1 .. n - 1 : queue'[j] = queue[old(j)]
  <2>1. \A j \in 1 .. n - 1 : queue'[j] = queue[old(j)]
    OBVIOUS
  <2>2. DOMAIN queue' = 1 .. n - 1 /\ n - 1 \in Nat
    BY <1>1
  <2>3. \A j \in 1 .. n - 1 : queue'[j] \in Callers
    BY <1>1, <1>2, <2>1
  <2>4. queue' \in [1 .. n - 1 -> Callers]
    BY <2>1, <2>2, <2>3
  <2> QED BY <2>1, <2>2, <2>4
<1>4. \A d \in Callers : pc'[d] = IF d = c THEN to ELSE pc[d]
  OBVIOUS
<1>5. \A j, k \in DOMAIN queue : queue[j] = queue[k] => j = k
  BY DEF LineSound
<1> HIDE DEF n, old
<1>6. LineSound'
  <2>1. ASSUME NEW j \in 1 .. n - 1, NEW k \in 1 .. n - 1, queue'[j] = queue'[k]
        PROVE  j = k
    <3>1. old(j) \in DOMAIN queue /\ old(k) \in DOMAIN queue /\ queue[old(j)] = queue[old(k)]
      BY <1>1, <1>2, <1>3, <2>1
    <3>2. old(j) = old(k)
      BY <1>5, <3>1
    <3> QED BY <1>2, <3>2
  <2> QED BY <1>3, <2>1 DEF LineSound
<1>7. Waiting'
  <2>1. ASSUME NEW j \in 1 .. n - 1
        PROVE  queue'[j] \in Callers /\ pc'[queue'[j]] = "limiter"
    <3>1. old(j) \in DOMAIN queue /\ queue'[j] = queue[old(j)]
      BY <1>1, <1>2, <1>3
    <3>2. queue'[j] \in Callers /\ pc[queue'[j]] = "limiter"
      BY <3>1 DEF Waiting
    <3>3. queue'[j] # c
      BY <1>2, <1>5, <3>1
    <3> QED BY <1>4, <3>2, <3>3
  <2>2. ASSUME NEW d \in Callers, pc'[d] = "limiter"
        PROVE  \E j \in 1 .. n - 1 : queue'[j] = d
    <3>1. d # c /\ pc[d] = "limiter"
      BY <1>4, <2>2
    <3>2. PICK j \in 1 .. n : queue[j] = d
      BY <1>1, <3>1 DEF Waiting
    <3>3. PICK k \in 1 .. n - 1 : old(k) = j
      BY <1>2, <3>1, <3>2
    <3> QED BY <1>3, <3>2, <3>3
  <2>3. {d \in Callers : pc'[d] = "limiter"} = {queue'[j] : j \in DOMAIN queue'}
    <3>1. \A j \in 1 .. n - 1 : queue'[j] \in {d \in Callers : pc'[d] = "limiter"}
      BY <2>1
    <3>5. DOMAIN queue' = 1 .. n - 1
      BY <1>3
    <3> DEFINE A == {d \in Callers : pc'[d] = "limiter"}
               B == {queue'[j] : j \in DOMAIN queue'}
    <3>3. ASSUME NEW x \in B PROVE x \in A
      <4>1. PICK j \in 1 .. n - 1 : x = queue'[j]
        BY <3>3, <3>5
      <4> QED BY <3>1, <4>1
    <3>4. ASSUME NEW x \in A PROVE x \in B
      <4>1. PICK j \in 1 .. n - 1 : queue'[j] = x
        BY <2>2, <3>4
      <4> QED BY <3>5, <4>1
    <3>6. A = B
      <4> HIDE DEF A, B
      <4> QED BY <3>3, <3>4
    <3> QED BY <3>6, Zenon
  <2> QED BY <2>3 DEF Waiting
<1> QED BY <1>6, <1>7

LEMMA LineHead ==
  ASSUME LineSound, Waiting, NEW c \in Callers, pc[c] = "limiter", Head(queue) = c
  PROVE  /\ 1 \in DOMAIN queue /\ queue[1] = c
         /\ Tail(queue) = [j \in 1 .. Len(queue) - 1 |->
                             IF j < 1 THEN queue[j] ELSE queue[j + 1]]
<1>1. queue \in Seq(Callers) /\ \E i \in DOMAIN queue : queue[i] = c
  BY DEF LineSound, Waiting
<1>2. Len(queue) \in Nat /\ DOMAIN queue = 1 .. Len(queue) /\ Len(queue) >= 1
  BY <1>1
<1>3. 1 \in DOMAIN queue /\ queue[1] = c
  BY <1>1, <1>2
<1>4. Tail(queue) = [j \in 1 .. Len(queue) - 1 |-> queue[j + 1]]
  <2>1. /\ Tail(queue) \in Seq(Callers) /\ Len(Tail(queue)) = Len(queue) - 1
        /\ \A j \in 1 .. Len(queue) - 1 : Tail(queue)[j] = queue[j + 1]
    BY <1>1, <1>2
  <2>2. Tail(queue) \in [1 .. Len(queue) - 1 -> Callers]
    <3>1. PICK t : t = Tail(queue)
      OBVIOUS
    <3>2. t \in Seq(Callers) /\ Len(t) = Len(queue) - 1
      BY <2>1, <3>1
    <3>3. t \in [1 .. Len(t) -> Callers]
      BY <3>2
    <3> QED BY <3>1, <3>2, <3>3
  <2> QED BY <2>1, <2>2
<1>5. \A j \in 1 .. Len(queue) - 1 : ~(j < 1)
  BY <1>2
<1> QED BY <1>3, <1>4, <1>5

LEMMA LineKept ==
  ASSUME LineSound, Waiting, pc \in [Callers -> CallStages], NEW c \in Callers, NEW to,
         pc[c] # "limiter", to # "limiter", pc' = [pc EXCEPT ![c] = to], queue' = queue
  PROVE  LineSound' /\ Waiting'
<1>1. \A d \in Callers : pc'[d] = "limiter" <=> pc[d] = "limiter"
  OBVIOUS
<1> QED BY <1>1 DEF LineSound, Waiting

\* A caller that gives up, wherever it is.
LEMMA LineLeft ==
  ASSUME LineSound, Waiting, pc \in [Callers -> CallStages], NEW c \in Callers, Leave(c),
         pc' = [pc EXCEPT ![c] = "idle"]
  PROVE  LineSound' /\ Waiting'
<1>1. CASE pc[c] = "limiter"
  BY <1>1, LineShortened DEF Leave
<1>2. CASE pc[c] # "limiter"
  BY <1>2, LineKept DEF Leave
<1> QED BY <1>1, <1>2

-----------------------------------------------------------------------------
(* What callers carry *)

ValuesSound == CarriedSound /\ CacheSound /\ ProbeSound

ValueTypes ==
  /\ health \in HealthKinds
  /\ pc \in [Callers -> CallStages]
  /\ attempt \in [Callers -> 0 .. MaxRetries] /\ held \in [Callers -> 0 .. Lag]
  /\ value \in [Callers -> 0 .. Never]
  /\ row \in [Keys -> [age : 0 .. Never, left : 0 .. Ttl]]
  /\ status \in {"none", "ok", "degraded", "down"} /\ elapsed \in 0 .. ProbeCap

LEMMA SourceParts ==
  SourceInv <=>
    /\ ValueTypes /\ tokens \in 0 .. Full /\ refilled \in 0 .. Period
    /\ LineSound /\ Waiting /\ ValuesSound /\ RateSound
BY DEF SourceInv, SourceTypeOK, ValueTypes, ValuesSound, CallStages, Waiting

\* Where a caller carries a value.
Carrying == {"log-hit", "log-load", "store"}

\* One caller moves on; the probe's end is on record; a row is dropped or stored.
LEMMA MovesOn ==
  ASSUME ValueTypes, ValuesSound, NEW c \in Callers, NEW to \in CallStages, NEW v \in 0 .. Never,
         NEW a \in 0 .. MaxRetries,
         pc' = [pc EXCEPT ![c] = to], held' = [held EXCEPT ![c] = 0],
         value' = [value EXCEPT ![c] = v], attempt' = [attempt EXCEPT ![c] = a],
         to = "log-load" => v = 0, to = "store" => v <= Lag, to = "log-hit" => v <= 2 * Lag + Ttl,
         to \in Carrying => sinceAnswer' <= v,
         sinceAnswer' \in {0, sinceAnswer}, health' = health,
         \/ UNCHANGED <<status, elapsed, sinceProbe>>
         \/ /\ elapsed' = 0 /\ sinceProbe' = 0
            /\ \/ status' = "down"
               \/ status' \in {"ok", "degraded"} /\ (health = "assumed" \/ sinceAnswer' <= MaxAge),
         \/ row' = row
         \/ \E k \in Keys : row' = [row EXCEPT ![k] = NoRow]
         \/ \E k \in Keys, w \in 0 .. 2 * Lag :
              row' = [row EXCEPT ![k] = [age |-> w, left |-> Ttl]] /\ sinceAnswer <= w
  PROVE  ValueTypes' /\ ValuesSound'
<1>1. /\ Lag \in Nat \ {0} /\ Ttl \in Nat \ {0} /\ MaxAge = Ttl + 3 * Lag /\ Never = MaxAge + 3
      /\ MaxAge \in Nat /\ Never \in Nat /\ ProbeCap \in Nat /\ MaxRetries \in Nat
  BY Settings
<1>2. /\ \A d \in Callers : pc'[d] = IF d = c THEN to ELSE pc[d]
      /\ \A d \in Callers : held'[d] = IF d = c THEN 0 ELSE held[d]
      /\ \A d \in Callers : value'[d] = IF d = c THEN v ELSE value[d]
      /\ pc' \in [Callers -> CallStages] /\ held' \in [Callers -> 0 .. Lag]
      /\ value' \in [Callers -> 0 .. Never] /\ attempt' \in [Callers -> 0 .. MaxRetries]
  BY <1>1 DEF ValueTypes
<1>3. /\ \A d \in Callers : value[d] \in 0 .. Never /\ held[d] \in 0 .. Lag
      /\ \A k \in Keys : row[k].age \in 0 .. Never /\ row[k].left \in 0 .. Ttl
  BY DEF ValueTypes
<1>4. sinceAnswer \in 0 .. Never /\ sinceAnswer' \in 0 .. Never /\ sinceAnswer' <= sinceAnswer
  BY <1>1 DEF ValuesSound, ProbeSound
<1>5. row' \in [Keys -> [age : 0 .. Never, left : 0 .. Ttl]]
  <2>1. NoRow \in [age : 0 .. Never, left : 0 .. Ttl]
    BY <1>1 DEF NoRow
  <2>2. \A w \in 0 .. 2 * Lag : [age |-> w, left |-> Ttl] \in [age : 0 .. Never, left : 0 .. Ttl]
    BY <1>1
  <2> QED BY <2>1, <2>2 DEF ValueTypes
<1>6. CarriedSound'
  <2>1. ASSUME NEW d \in Callers
        PROVE  /\ pc'[d] = "log-load" => value'[d] <= held'[d]
               /\ pc'[d] = "store" => value'[d] <= Lag + held'[d]
               /\ pc'[d] = "log-hit" => value'[d] <= 2 * Lag + Ttl + held'[d]
               /\ pc'[d] \in Carrying => sinceAnswer' <= value'[d]
    <3>1. CASE d = c
      BY <1>1, <1>2, <2>1, <3>1
    <3>2. CASE d # c
      <4>1. pc'[d] = pc[d] /\ value'[d] = value[d] /\ held'[d] = held[d]
        BY <1>2, <2>1, <3>2
      <4>2. /\ pc[d] = "log-load" => value[d] <= held[d]
            /\ pc[d] = "store" => value[d] <= Lag + held[d]
            /\ pc[d] = "log-hit" => value[d] <= 2 * Lag + Ttl + held[d]
            /\ pc[d] \in Carrying => sinceAnswer <= value[d]
        BY <2>1 DEF ValuesSound, CarriedSound, Carries, Carrying
      <4> QED BY <1>3, <1>4, <2>1, <4>1, <4>2
    <3> QED BY <3>1, <3>2
  <2> QED BY <2>1 DEF CarriedSound, Carries, Carrying
<1>7. CacheSound'
  <2>1. ASSUME NEW k \in Keys, row'[k].left > 0
        PROVE  row'[k].age + row'[k].left <= 2 * Lag + Ttl /\ sinceAnswer' <= row'[k].age
    <3>1. CASE row'[k] = row[k]
      <4>1. row[k].age + row[k].left <= 2 * Lag + Ttl /\ sinceAnswer <= row[k].age
        BY <2>1, <3>1 DEF ValuesSound, CacheSound, Fresh
      <4> QED BY <1>3, <1>4, <2>1, <3>1, <4>1
    <3>2. CASE row'[k] # row[k]
      <4>1. row'[k] # NoRow
        BY <1>1, <2>1 DEF NoRow
      <4>2. PICK w \in 0 .. 2 * Lag : row'[k] = [age |-> w, left |-> Ttl] /\ sinceAnswer <= w
        BY <2>1, <3>2, <4>1 DEF ValueTypes
      <4> QED BY <1>1, <1>4, <4>2
    <3> QED BY <3>1, <3>2
  <2> QED BY <2>1 DEF CacheSound, Fresh
<1>8. ProbeSound'
  <2>1. CASE UNCHANGED <<status, elapsed, sinceProbe>>
    BY <1>1, <1>4, <2>1 DEF ValuesSound, ProbeSound
  <2>2. CASE /\ elapsed' = 0 /\ sinceProbe' = 0
             /\ \/ status' = "down"
                \/ status' \in {"ok", "degraded"} /\ (health = "assumed" \/ sinceAnswer' <= MaxAge)
    BY <1>1, <1>4, <2>2 DEF ProbeSound
  <2> QED BY <2>1, <2>2
<1>9. status' \in {"none", "ok", "degraded", "down"} /\ elapsed' \in 0 .. ProbeCap
  BY <1>1 DEF ValueTypes
<1> QED BY <1>2, <1>5, <1>6, <1>7, <1>8, <1>9 DEF ValueTypes, ValuesSound

CallersSound == ValueTypes /\ ValuesSound /\ LineSound /\ Waiting

\* A call that ends with an exception.
LEMMA CallFails ==
  ASSUME ValueTypes, ValuesSound, NEW c \in Callers, Finish(c, FALSE),
         row' = row, sinceAnswer' = sinceAnswer
  PROVE  ValueTypes' /\ ValuesSound'
<1>1. Never \in 0 .. Never /\ 0 \in 0 .. MaxRetries /\ "idle" \in CallStages /\ "idle" \notin Carrying
  BY Settings DEF CallStages, Carrying
<1>2. \/ UNCHANGED <<status, elapsed, sinceProbe>>
      \/ elapsed' = 0 /\ sinceProbe' = 0 /\ status' = "down"
  BY DEF Finish, ProbeVerdict
<1> QED BY <1>1, <1>2, MovesOn DEF Finish

\* A call that ends with the value it carries.
LEMMA CallAnswers ==
  ASSUME ValueTypes, ValuesSound, NEW c \in Callers, pc[c] \in {"log-hit", "store"},
         Finish(c, TRUE), sinceAnswer' = sinceAnswer,
         \/ row' = row
         \/ /\ pc[c] = "store"
            /\ row' = [row EXCEPT ![KeyOf[c]] = [age |-> value[c], left |-> Ttl]]
  PROVE  ValueTypes' /\ ValuesSound'
<1>1. Never \in 0 .. Never /\ 0 \in 0 .. MaxRetries /\ "idle" \in CallStages /\ "idle" \notin Carrying
  BY Settings DEF CallStages, Carrying
<1>2. /\ value[c] \in Nat /\ sinceAnswer \in Nat /\ sinceAnswer <= value[c] /\ value[c] <= MaxAge
      /\ pc[c] = "store" => value[c] \in 0 .. 2 * Lag
  <2>1. held[c] \in 0 .. Lag /\ value[c] \in 0 .. Never
    BY DEF ValueTypes
  <2>2. /\ pc[c] = "store" => value[c] <= Lag + held[c]
        /\ pc[c] = "log-hit" => value[c] <= 2 * Lag + Ttl + held[c]
        /\ sinceAnswer <= value[c]
    BY DEF ValuesSound, CarriedSound, Carries
  <2>3. sinceAnswer \in Nat
    BY Settings DEF ValuesSound, ProbeSound
  <2> QED BY <2>1, <2>2, <2>3, Settings
<1>3. \/ UNCHANGED <<status, elapsed, sinceProbe>>
      \/ /\ elapsed' = 0 /\ sinceProbe' = 0
         /\ status' \in {"ok", "degraded"} /\ sinceAnswer <= MaxAge
  BY <1>2, Settings DEF Finish, ProbeVerdict
<1>4. \/ row' = row
      \/ \E k \in Keys, w \in 0 .. 2 * Lag :
           row' = [row EXCEPT ![k] = [age |-> w, left |-> Ttl]] /\ sinceAnswer <= w
  BY <1>2 DEF Keys
<1> QED BY <1>1, <1>3, <1>4, MovesOn DEF Finish

\* A call that goes on without a value of its own.
LEMMA GoesOn ==
  ASSUME ValueTypes, ValuesSound, NEW c \in Callers, NEW to \in CallStages \ Carrying, Go(c, to),
         value' = value, NEW a \in 0 .. MaxRetries, attempt' = [attempt EXCEPT ![c] = a],
         sinceAnswer' = sinceAnswer,
         row' = row \/ \E k \in Keys : row' = [row EXCEPT ![k] = NoRow]
  PROVE  ValueTypes' /\ ValuesSound'
<1>1. value' = [value EXCEPT ![c] = value[c]] /\ value[c] \in 0 .. Never
  BY DEF ValueTypes
<1>2. to # "log-load" /\ to # "store" /\ to # "log-hit" /\ to \notin Carrying /\ to \in CallStages
  BY DEF Carrying
<1>3. /\ pc' = [pc EXCEPT ![c] = to] /\ held' = [held EXCEPT ![c] = 0]
      /\ UNCHANGED <<health, status, elapsed, sinceProbe>>
  BY DEF Go
<1> QED BY <1>1, <1>2, <1>3, MovesOn

\* A call that goes on with a value.
LEMMA GoesOnWith ==
  ASSUME ValueTypes, ValuesSound, NEW c \in Callers, NEW to \in Carrying, Go(c, to),
         NEW v \in 0 .. Never, value' = [value EXCEPT ![c] = v], attempt' = attempt,
         to = "log-load" => v = 0, to = "store" => v <= Lag, to = "log-hit" => v <= 2 * Lag + Ttl,
         sinceAnswer' <= v, sinceAnswer' \in {0, sinceAnswer}, row' = row
  PROVE  ValueTypes' /\ ValuesSound'
<1>1. attempt' = [attempt EXCEPT ![c] = attempt[c]] /\ attempt[c] \in 0 .. MaxRetries
  BY DEF ValueTypes
<1>2. to \in CallStages
  BY DEF Carrying, CallStages
<1> QED BY <1>1, <1>2, MovesOn DEF Go

\* The probe of a source that does not ask through its cache: it asks nobody, or
\* sends a request of its own.
LEMMA OwnProbeKeeps ==
  ASSUME CallersSound, ProbeAsksNobody \/ ProbeDirectly \/ Pinged
  PROVE  CallersSound'
<1>1. /\ ValueTypes /\ ValuesSound /\ LineSound /\ Waiting /\ pc \in [Callers -> CallStages]
      /\ Probe \in Callers /\ pc[Probe] # "limiter" /\ UNCHANGED <<row, queue>>
  BY Settings DEF CallersSound, ValueTypes, ProbeAsksNobody, ProbeDirectly, Pinged, MayProbe
<1>2. Never \in 0 .. Never /\ 0 \in 0 .. MaxRetries /\ "idle" \in CallStages \ Carrying
      /\ "ping" \in CallStages \ Carrying
  BY Settings DEF CallStages, Carrying
<1>3. CASE ProbeAsksNobody
  <2>1. /\ health \in {"assumed", "keyless"} /\ Finish(Probe, health = "assumed")
        /\ sinceAnswer' = sinceAnswer
    BY <1>3 DEF ProbeAsksNobody
  <2>2. /\ elapsed' = 0 /\ sinceProbe' = 0
        /\ status' = "down" \/ (status' \in {"ok", "degraded"} /\ health = "assumed")
    BY <2>1 DEF Finish, ProbeVerdict
  <2>3. ValueTypes' /\ ValuesSound'
    BY <1>1, <1>2, <2>1, <2>2, MovesOn DEF Finish
  <2>4. LineSound' /\ Waiting'
    BY <1>1, <1>2, <2>1, LineKept DEF Finish
  <2> QED BY <2>3, <2>4 DEF CallersSound
<1>4. CASE ProbeDirectly
  <2>1. Go(Probe, "ping") /\ UNCHANGED <<attempt, value, sinceAnswer>>
    BY <1>4 DEF ProbeDirectly
  <2>2. attempt' = [attempt EXCEPT ![Probe] = attempt[Probe]] /\ attempt[Probe] \in 0 .. MaxRetries
    BY <1>1, <2>1 DEF ValueTypes
  <2>3. ValueTypes' /\ ValuesSound'
    BY <1>1, <1>2, <2>1, <2>2, GoesOn
  <2>4. LineSound' /\ Waiting'
    BY <1>1, <1>2, <2>1, LineKept DEF Go
  <2> QED BY <2>3, <2>4 DEF CallersSound
<1>5. CASE Pinged
  <2>1. ASSUME Finish(Probe, FALSE), UNCHANGED sinceAnswer PROVE ValueTypes' /\ ValuesSound'
    BY <1>1, <2>1, CallFails
  <2>2. ASSUME Finish(Probe, TRUE), sinceAnswer' = 0 PROVE ValueTypes' /\ ValuesSound'
    <3>1. /\ elapsed' = 0 /\ sinceProbe' = 0
          /\ status' \in {"ok", "degraded"} /\ sinceAnswer' <= MaxAge
      BY <2>2, Settings DEF Finish, ProbeVerdict
    <3> QED BY <1>1, <1>2, <2>2, <3>1, MovesOn DEF Finish
  <2>3. ValueTypes' /\ ValuesSound' /\ pc' = [pc EXCEPT ![Probe] = "idle"]
    BY <1>5, <2>1, <2>2 DEF Pinged, Finish
  <2>4. LineSound' /\ Waiting'
    BY <1>1, <1>2, <2>3, LineKept
  <2> QED BY <2>3, <2>4 DEF CallersSound
<1> QED BY <1>3, <1>4, <1>5

LEMMA GetKeeps ==
  ASSUME CallersSound, NEW c \in Callers, Get(c)
  PROVE  CallersSound'
<1> DEFINE k == KeyOf[c]
<1>1. /\ ValueTypes /\ ValuesSound /\ LineSound /\ Waiting /\ pc \in [Callers -> CallStages]
      /\ pc[c] = "idle" /\ k \in Keys
  BY DEF CallersSound, Get, MayCall, ValueTypes, Keys
<1>0. UNCHANGED <<attempt, row, sinceAnswer>>
  BY DEF Get
<1>00. attempt' = [attempt EXCEPT ![c] = attempt[c]] /\ attempt[c] \in 0 .. MaxRetries
  BY <1>0, <1>1 DEF ValueTypes
<1>2. CASE Fresh(k) /\ value' = [value EXCEPT ![c] = row[k].age] /\ Go(c, "log-hit") /\ queue' = queue
  <2>1. row[k].age \in 0 .. Never /\ row[k].age <= 2 * Lag + Ttl /\ sinceAnswer <= row[k].age
    <3>1. row[k].age \in 0 .. Never /\ row[k].left \in 0 .. Ttl
      BY <1>1 DEF ValueTypes
    <3>2. row[k].age + row[k].left <= 2 * Lag + Ttl /\ sinceAnswer <= row[k].age
      BY <1>1, <1>2 DEF ValuesSound, CacheSound
    <3> QED BY <3>1, <3>2, Settings
  <2>2. ValueTypes' /\ ValuesSound'
    BY <1>0, <1>1, <1>2, <2>1, GoesOnWith DEF Carrying
  <2>3. LineSound' /\ Waiting'
    BY <1>1, <1>2, LineKept DEF Go
  <2> QED BY <2>2, <2>3 DEF CallersSound
<1>3. CASE Go(c, "drop") /\ UNCHANGED <<value, queue>>
  <2>1. "drop" \in CallStages \ Carrying
    BY DEF Carrying, CallStages
  <2>2. ValueTypes' /\ ValuesSound'
    BY <1>0, <1>00, <1>1, <1>3, <2>1, GoesOn
  <2>3. LineSound' /\ Waiting'
    BY <1>1, <1>3, LineKept DEF Go
  <2> QED BY <2>2, <2>3 DEF CallersSound
<1>4. CASE Go(c, "limiter") /\ Wait(c) /\ UNCHANGED value
  <2>1. "limiter" \in CallStages \ Carrying
    BY DEF Carrying, CallStages
  <2>2. ValueTypes' /\ ValuesSound'
    BY <1>0, <1>00, <1>1, <1>4, <2>1, GoesOn
  <2>3. LineSound' /\ Waiting'
    BY <1>1, <1>4, LineJoined DEF Go, Wait
  <2> QED BY <2>2, <2>3 DEF CallersSound
<1> QED BY <1>2, <1>3, <1>4 DEF Get

LEMMA DropExpiredKeeps ==
  ASSUME CallersSound, NEW c \in Callers, DropExpired(c)
  PROVE  CallersSound'
<1>1. /\ ValueTypes /\ ValuesSound /\ LineSound /\ Waiting /\ pc \in [Callers -> CallStages]
      /\ pc[c] = "drop" /\ Go(c, "limiter") /\ Wait(c) /\ UNCHANGED <<attempt, value, sinceAnswer>>
      /\ \E k \in Keys : row' = [row EXCEPT ![k] = NoRow]
  BY DEF CallersSound, DropExpired, ValueTypes, Keys
<1>2. attempt' = [attempt EXCEPT ![c] = attempt[c]] /\ attempt[c] \in 0 .. MaxRetries
  BY <1>1 DEF ValueTypes
<1>3. "limiter" \in CallStages \ Carrying
  BY DEF Carrying, CallStages
<1>4. ValueTypes' /\ ValuesSound'
  BY <1>1, <1>2, <1>3, GoesOn
<1>5. LineSound' /\ Waiting'
  BY <1>1, LineJoined DEF Go, Wait
<1> QED BY <1>4, <1>5 DEF CallersSound

LEMMA SetKeeps ==
  ASSUME CallersSound, NEW c \in Callers, Set(c)
  PROVE  CallersSound'
<1>1. /\ ValueTypes /\ ValuesSound /\ LineSound /\ Waiting /\ pc \in [Callers -> CallStages]
      /\ pc[c] = "store" /\ Finish(c, TRUE) /\ UNCHANGED <<queue, sinceAnswer>>
      /\ row' = [row EXCEPT ![KeyOf[c]] = [age |-> value[c], left |-> Ttl]]
  BY DEF CallersSound, Set, ValueTypes
<1>2. ValueTypes' /\ ValuesSound'
  BY <1>1, CallAnswers
<1>3. LineSound' /\ Waiting'
  BY <1>1, LineKept DEF Finish
<1> QED BY <1>2, <1>3 DEF CallersSound

LEMMA AcquireKeeps ==
  ASSUME CallersSound, NEW c \in Callers, Acquire(c)
  PROVE  CallersSound'
<1>1. /\ ValueTypes /\ ValuesSound /\ LineSound /\ Waiting /\ pc \in [Callers -> CallStages]
      /\ pc[c] = "limiter" /\ Head(queue) = c /\ queue' = Tail(queue) /\ Go(c, "load")
      /\ attempt' = [attempt EXCEPT ![c] = 1] /\ UNCHANGED <<value, row, sinceAnswer>>
  BY DEF CallersSound, Acquire, ValueTypes
<1>2. "load" \in CallStages \ Carrying /\ 1 \in 0 .. MaxRetries
  BY Settings DEF Carrying, CallStages
<1>3. ValueTypes' /\ ValuesSound'
  BY <1>1, <1>2, GoesOn
<1>4. LineSound' /\ Waiting'
  <2>1. /\ 1 \in DOMAIN queue /\ queue[1] = c
        /\ queue' = [j \in 1 .. Len(queue) - 1 |-> IF j < 1 THEN queue[j] ELSE queue[j + 1]]
    BY <1>1, LineHead
  <2>2. pc' = [pc EXCEPT ![c] = "load"]
    BY <1>1 DEF Go
  <2> QED BY <1>1, <2>1, <2>2, LineShortened
<1> QED BY <1>3, <1>4 DEF CallersSound

LEMMA LoadKeeps ==
  ASSUME CallersSound, NEW c \in Callers, Load(c)
  PROVE  CallersSound'
<1>1. /\ ValueTypes /\ ValuesSound /\ LineSound /\ Waiting /\ pc \in [Callers -> CallStages]
      /\ pc[c] = "load" /\ UNCHANGED <<row, queue>>
  BY DEF CallersSound, Load, ValueTypes
<1>2. CASE /\ value' = [value EXCEPT ![c] = 0] /\ sinceAnswer' = 0
           /\ Go(c, "log-load") /\ UNCHANGED attempt
  <2>1. /\ 0 \in 0 .. Never /\ 0 <= Lag /\ 0 <= 2 * Lag + Ttl /\ sinceAnswer' <= 0
        /\ sinceAnswer' \in {0, sinceAnswer} /\ row' = row /\ attempt' = attempt
        /\ "log-load" \in Carrying
    BY <1>1, <1>2, Settings DEF Carrying
  <2>2. ValueTypes' /\ ValuesSound'
    BY <1>1, <1>2, <2>1, GoesOnWith
  <2>3. LineSound' /\ Waiting'
    BY <1>1, <1>2, LineKept DEF Go
  <2> QED BY <2>2, <2>3 DEF CallersSound
<1>3. CASE /\ attempt[c] < MaxRetries /\ attempt' = [attempt EXCEPT ![c] = @ + 1]
           /\ UNCHANGED <<health, pc, held, status, elapsed, sinceProbe, value, sinceAnswer>>
  <2>1. attempt' \in [Callers -> 0 .. MaxRetries]
    BY <1>1, <1>3, Settings DEF ValueTypes
  <2>2. ValueTypes'
    BY <1>1, <1>3, <2>1 DEF ValueTypes
  <2>3. ValuesSound'
    BY <1>1, <1>3 DEF ValuesSound, CarriedSound, CacheSound, ProbeSound, Carries, Fresh
  <2>4. LineSound' /\ Waiting'
    BY <1>1, <1>3 DEF LineSound, Waiting
  <2> QED BY <2>2, <2>3, <2>4 DEF CallersSound
<1>4. CASE Go(c, "log-failure") /\ UNCHANGED <<value, sinceAnswer, attempt>>
  <2>1. "log-failure" \in CallStages \ Carrying
    BY DEF Carrying, CallStages
  <2>2. attempt' = [attempt EXCEPT ![c] = attempt[c]] /\ attempt[c] \in 0 .. MaxRetries
    BY <1>1, <1>4 DEF ValueTypes
  <2>3. ValueTypes' /\ ValuesSound'
    BY <1>1, <1>4, <2>1, <2>2, GoesOn
  <2>4. LineSound' /\ Waiting'
    BY <1>1, <1>4, LineKept DEF Go
  <2> QED BY <2>3, <2>4 DEF CallersSound
<1> QED BY <1>2, <1>3, <1>4 DEF Load

LEMMA LogSourceCallKeeps ==
  ASSUME CallersSound, NEW c \in Callers, LogSourceCall(c)
  PROVE  CallersSound'
<1>1. /\ ValueTypes /\ ValuesSound /\ LineSound /\ Waiting /\ pc \in [Callers -> CallStages]
      /\ UNCHANGED <<row, queue, sinceAnswer>>
  BY DEF CallersSound, LogSourceCall, ValueTypes
<1>2. CASE pc[c] = "log-hit" /\ Finish(c, TRUE)
  <2>1. ValueTypes' /\ ValuesSound'
    BY <1>1, <1>2, CallAnswers
  <2>2. LineSound' /\ Waiting'
    BY <1>1, <1>2, LineKept DEF Finish
  <2> QED BY <2>1, <2>2 DEF CallersSound
<1>3. CASE pc[c] = "log-load" /\ Go(c, "store") /\ UNCHANGED <<attempt, value>>
  <2>1. /\ value' = [value EXCEPT ![c] = value[c]] /\ value[c] \in 0 .. Never
        /\ value[c] <= Lag /\ sinceAnswer <= value[c]
    <3>1. value[c] \in 0 .. Never /\ held[c] \in 0 .. Lag
      BY <1>1 DEF ValueTypes
    <3>2. value[c] <= held[c] /\ sinceAnswer <= value[c]
      BY <1>1, <1>3 DEF ValuesSound, CarriedSound, Carries
    <3>3. value' = [value EXCEPT ![c] = value[c]]
      BY <1>1, <1>3 DEF ValueTypes
    <3> QED BY <3>1, <3>2, <3>3, Settings
  <2>2. ValueTypes' /\ ValuesSound'
    BY <1>1, <1>3, <2>1, GoesOnWith DEF Carrying
  <2>3. LineSound' /\ Waiting'
    BY <1>1, <1>3, LineKept DEF Go
  <2> QED BY <2>2, <2>3 DEF CallersSound
<1>4. CASE pc[c] = "log-failure" /\ Finish(c, FALSE)
  <2>1. ValueTypes' /\ ValuesSound'
    BY <1>1, <1>4, CallFails
  <2>2. LineSound' /\ Waiting'
    BY <1>1, <1>4, LineKept DEF Finish
  <2> QED BY <2>1, <2>2 DEF CallersSound
<1> QED BY <1>2, <1>3, <1>4 DEF LogSourceCall

LEMMA DatabaseFailsKeeps ==
  ASSUME CallersSound, NEW c \in Callers, DatabaseFails(c)
  PROVE  CallersSound'
<1>1. /\ ValueTypes /\ ValuesSound /\ LineSound /\ Waiting /\ pc \in [Callers -> CallStages]
      /\ pc[c] # "limiter" /\ Finish(c, FALSE) /\ UNCHANGED <<row, queue, sinceAnswer>>
  BY DEF CallersSound, DatabaseFails, ValueTypes
<1>2. ValueTypes' /\ ValuesSound'
  BY <1>1, CallFails
<1>3. LineSound' /\ Waiting'
  BY <1>1, LineKept DEF Finish
<1> QED BY <1>2, <1>3 DEF CallersSound

LEMMA GivingUpKeeps ==
  ASSUME CallersSound, NEW c \in Callers, Finish(c, FALSE), Leave(c), UNCHANGED <<row, sinceAnswer>>
  PROVE  CallersSound'
<1>1. ValueTypes /\ ValuesSound /\ LineSound /\ Waiting /\ pc \in [Callers -> CallStages]
  BY DEF CallersSound, ValueTypes
<1>2. ValueTypes' /\ ValuesSound'
  BY <1>1, CallFails
<1>3. LineSound' /\ Waiting'
  BY <1>1, LineLeft DEF Finish
<1> QED BY <1>2, <1>3 DEF CallersSound

-----------------------------------------------------------------------------
(* The clock, for what callers carry *)

LEMMA SourceTickKeeps ==
  ASSUME CallersSound, SourceTick
  PROVE  CallersSound'
<1>1. /\ Lag \in Nat \ {0} /\ Ttl \in Nat \ {0} /\ MaxAge = Ttl + 3 * Lag /\ Never = MaxAge + 3
      /\ MaxAge \in Nat /\ Never \in Nat /\ ProbeCap \in Nat /\ MaxRetries \in Nat
  BY Settings
<1>2. ValueTypes /\ ValuesSound /\ LineSound /\ Waiting /\ sinceAnswer \in 0 .. Never
  BY DEF CallersSound, ValuesSound, ProbeSound
<1>3. /\ \A d \in Callers : value[d] \in 0 .. Never /\ held[d] \in 0 .. Lag
      /\ \A k \in Keys : row[k].age \in 0 .. Never /\ row[k].left \in 0 .. Ttl
  BY <1>2 DEF ValueTypes
<1>4. UNCHANGED <<health, pc, attempt, queue, status>>
  BY DEF SourceTick
<1>5. sinceAnswer' = (IF sinceAnswer + 1 <= Never THEN sinceAnswer + 1 ELSE Never)
  BY <1>1, <1>2, OlderIs DEF SourceTick
<1>6. /\ held' \in [Callers -> 0 .. Lag]
      /\ \A d \in Callers : pc[d] \in Carrying => held'[d] = held[d] + 1
  <2>1. held' = [d \in Callers |-> IF InDatabase(d) THEN held[d] + 1 ELSE 0]
    BY DEF SourceTick
  <2>2. \A d \in Callers : InDatabase(d) => held[d] < Lag
    BY DEF SourceTick
  <2>3. \A d \in Callers : pc[d] \in Carrying => InDatabase(d)
    BY DEF Carrying, InDatabase
  <2>4. \A d \in Callers : (IF InDatabase(d) THEN held[d] + 1 ELSE 0) \in 0 .. Lag
    BY <1>1, <1>3, <2>2
  <2> QED BY <2>1, <2>3, <2>4
<1>7. /\ value' \in [Callers -> 0 .. Never]
      /\ \A d \in Callers : pc[d] \in Carrying =>
           value'[d] = IF value[d] + 1 <= Never THEN value[d] + 1 ELSE Never
  <2>1. \A d \in Callers : Older(value[d], Never) = IF value[d] + 1 <= Never THEN value[d] + 1
                                                    ELSE Never
    BY <1>1, <1>3, OlderIs
  <2>2. value' = [d \in Callers |-> IF pc[d] \in Carrying THEN Older(value[d], Never) ELSE value[d]]
    BY DEF SourceTick, Carrying, Carries
  <2>3. \A d \in Callers : Older(value[d], Never) \in 0 .. Never
    BY <1>1, <1>3, <2>1
  <2> QED BY <1>3, <2>1, <2>2, <2>3
<1>8. /\ row' \in [Keys -> [age : 0 .. Never, left : 0 .. Ttl]]
      /\ \A k \in Keys : row'[k].left > 0 =>
           /\ row[k].left > 1 /\ row'[k].left = row[k].left - 1
           /\ row'[k].age = IF row[k].age + 1 <= Never - 1 THEN row[k].age + 1 ELSE Never - 1
  <2> DEFINE next(k) == IF row[k] = NoRow THEN NoRow
                        ELSE [age |-> Older(row[k].age, Never - 1),
                              left |-> Max({row[k].left, 1}) - 1]
  <2>1. row' = [k \in Keys |-> next(k)]
    BY DEF SourceTick
  <2>2. ASSUME NEW k \in Keys
        PROVE  /\ next(k) \in [age : 0 .. Never, left : 0 .. Ttl]
               /\ next(k).left > 0 =>
                    /\ row[k].left > 1 /\ next(k).left = row[k].left - 1
                    /\ next(k).age = IF row[k].age + 1 <= Never - 1 THEN row[k].age + 1
                                     ELSE Never - 1
    <3>1. CASE row[k] = NoRow
      BY <1>1, <3>1 DEF NoRow
    <3>2. CASE row[k] # NoRow
      <4>1. row[k].age \in Int /\ row[k].left \in Int /\ Never - 1 \in Int
        BY <1>1, <1>3, <2>2
      <4>2. Older(row[k].age, Never - 1) = IF row[k].age + 1 <= Never - 1 THEN row[k].age + 1
                                           ELSE Never - 1
        BY <4>1, OlderIs
      <4>3. Max({row[k].left, 1}) = IF row[k].left >= 1 THEN row[k].left ELSE 1
        BY <4>1, MaxOfTwo
      <4>4. Older(row[k].age, Never - 1) \in 0 .. Never /\ Max({row[k].left, 1}) - 1 \in 0 .. Ttl
        BY <1>1, <1>3, <2>2, <4>2, <4>3
      <4>5. next(k) = [age |-> Older(row[k].age, Never - 1), left |-> Max({row[k].left, 1}) - 1]
        BY <3>2
      <4>6. next(k).left > 0 => row[k].left > 1 /\ next(k).left = row[k].left - 1
        <5>1. next(k).left = Max({row[k].left, 1}) - 1
          BY <4>5
        <5> QED BY <4>1, <4>3, <5>1
      <4>7. next(k).age = Older(row[k].age, Never - 1)
        BY <4>5
      <4>8. next(k) \in [age : 0 .. Never, left : 0 .. Ttl]
        BY <4>4, <4>5
      <4> QED BY <4>2, <4>6, <4>7, <4>8
    <3> QED BY <3>1, <3>2
  <2> HIDE DEF next
  <2> QED BY <2>1, <2>2
<1>9. CarriedSound'
  <2>1. ASSUME NEW d \in Callers, pc[d] \in Carrying
        PROVE  /\ pc[d] = "log-load" => value'[d] <= held'[d]
               /\ pc[d] = "store" => value'[d] <= Lag + held'[d]
               /\ pc[d] = "log-hit" => value'[d] <= 2 * Lag + Ttl + held'[d]
               /\ sinceAnswer' <= value'[d]
    <3>1. /\ pc[d] = "log-load" => value[d] <= held[d]
          /\ pc[d] = "store" => value[d] <= Lag + held[d]
          /\ pc[d] = "log-hit" => value[d] <= 2 * Lag + Ttl + held[d]
          /\ sinceAnswer <= value[d]
      BY <1>2, <2>1 DEF ValuesSound, CarriedSound, Carries, Carrying
    <3>2. /\ held'[d] = held[d] + 1
          /\ value'[d] = IF value[d] + 1 <= Never THEN value[d] + 1 ELSE Never
      BY <1>6, <1>7, <2>1
    <3>3. value[d] \in 0 .. Never /\ held[d] \in 0 .. Lag
      BY <1>3, <2>1
    <3>4. sinceAnswer' <= value'[d] /\ value'[d] <= value[d] + 1
      BY <1>1, <1>2, <1>5, <3>1, <3>2, <3>3
    <3> QED BY <1>1, <3>1, <3>2, <3>3, <3>4
  <2> QED BY <1>4, <2>1 DEF CarriedSound, Carries, Carrying
<1>10. CacheSound'
  <2>1. ASSUME NEW k \in Keys, row'[k].left > 0
        PROVE  row'[k].age + row'[k].left <= 2 * Lag + Ttl /\ sinceAnswer' <= row'[k].age
    <3>1. row[k].age + row[k].left <= 2 * Lag + Ttl /\ sinceAnswer <= row[k].age /\ row[k].left > 1
      BY <1>1, <1>2, <1>3, <1>8, <2>1 DEF ValuesSound, CacheSound, Fresh
    <3>2. row[k].age \in Nat /\ row[k].left \in Nat
      BY <1>3, <2>1
    <3>3. row'[k].age = row[k].age + 1 /\ row'[k].left = row[k].left - 1
      BY <1>1, <1>8, <2>1, <3>1, <3>2
    <3> QED BY <1>1, <1>2, <1>5, <3>1, <3>2, <3>3
  <2> QED BY <2>1 DEF CacheSound, Fresh
<1>11. ProbeSound' /\ elapsed' \in 0 .. ProbeCap
  <2>1. /\ sinceProbe \in 0 .. 3
        /\ status \in {"ok", "degraded"} /\ health # "assumed" =>
             sinceAnswer <= sinceProbe + MaxAge
    BY <1>2 DEF ValuesSound, ProbeSound
  <2>2. sinceProbe' = IF sinceProbe + 1 <= 3 THEN sinceProbe + 1 ELSE 3
    BY <2>1, OlderIs DEF SourceTick
  <2>3. /\ sinceProbe' \in 0 .. 3 /\ sinceAnswer' \in 0 .. Never
        /\ sinceAnswer <= sinceProbe + MaxAge => sinceAnswer' <= sinceProbe' + MaxAge
    BY <1>1, <1>2, <1>5, <2>1, <2>2
  <2>4. elapsed' \in 0 .. ProbeCap
    BY <1>1, <1>2 DEF SourceTick, ValueTypes
  <2> QED BY <1>4, <2>1, <2>3, <2>4 DEF ProbeSound
<1>12. ValueTypes'
  BY <1>2, <1>4, <1>6, <1>7, <1>8, <1>11 DEF ValueTypes
<1>13. LineSound' /\ Waiting'
  BY <1>2, <1>4 DEF LineSound, Waiting
<1> QED BY <1>9, <1>10, <1>11, <1>12, <1>13 DEF CallersSound, ValuesSound

-----------------------------------------------------------------------------
(* The bucket *)

BucketSound == tokens \in 0 .. Full /\ refilled \in 0 .. Period /\ RateSound

LEMMA RefilledIs ==
  ASSUME tokens \in 0 .. Full, refilled \in 0 .. Period
  PROVE  \E p \in Nat :
           /\ p = refilled * MaxCalls
           /\ Refilled = IF Full <= tokens + p THEN Full ELSE tokens + p
           /\ Refilled \in 0 .. Full
<1>1. Full \in Nat /\ tokens \in Nat /\ refilled \in Nat /\ MaxCalls \in Nat
  BY Settings
<1>2. PICK p \in Nat : p = refilled * MaxCalls
  BY <1>1
<1>3. Refilled = IF Full <= tokens + p THEN Full ELSE tokens + p
  BY <1>1, <1>2, MinOfTwo DEF Refilled
<1> QED BY <1>1, <1>2, <1>3

LEMMA Grants ==
  ASSUME RateSound, NEW t \in 0 .. Period - 1
  PROVE  SumFunctionOnSet(grants, 0 .. t) \in Int
<1>1. \A u \in 0 .. t : grants[u] \in Int
  BY Settings DEF RateSound
<1>2. IsFiniteSet(0 .. t)
  BY FS_Interval
<1> QED BY <1>1, <1>2, SumInt

LEMMA AcquirePays ==
  ASSUME BucketSound, NEW c \in Callers, Acquire(c)
  PROVE  BucketSound'
<1>1. /\ Refilled >= Period /\ tokens' = Refilled - Period /\ refilled' = 0
      /\ grants' = [grants EXCEPT ![0] = @ + 1]
  BY DEF Acquire
<1>2. Refilled \in 0 .. Full /\ Full \in Nat /\ MaxCalls \in Nat \ {0} /\ Period \in Nat \ {0}
  BY RefilledIs, Settings DEF BucketSound
<1>3. tokens' \in 0 .. Full /\ refilled' \in 0 .. Period
  BY <1>1, <1>2
<1>4. Refilled' = Refilled - Period
  <2>1. Refilled' = Min({Full, tokens' + refilled' * MaxCalls})
    BY DEF Refilled
  <2>2. tokens' + refilled' * MaxCalls = Refilled - Period
    BY <1>1, <1>2
  <2>3. Refilled - Period \in Int /\ ~(Full <= Refilled - Period)
    BY <1>2
  <2> QED BY <1>2, <2>1, <2>2, <2>3, MinOfTwo
<1>5. /\ grants \in [0 .. Period - 1 -> Nat] /\ 0 \in 0 .. Period - 1
      /\ grants' \in [0 .. Period - 1 -> Nat] /\ grants'[0] = grants[0] + 1
      /\ \A u \in 0 .. Period - 1 : u # 0 => grants'[u] = grants[u]
  BY <1>1, <1>2 DEF BucketSound, RateSound
<1>6. ASSUME NEW t \in 0 .. Period - 1
      PROVE  Period * SumFunctionOnSet(grants', 0 .. t) + Refilled' <= Full + t * MaxCalls
  <2> DEFINE S == 0 .. t
  <2>1. /\ IsFiniteSet(S) /\ 0 \in S /\ IsFiniteSet(S \ {0})
        /\ \A u \in S : grants[u] \in Int /\ grants'[u] \in Int
        /\ \A u \in S \ {0} : grants'[u] = grants[u]
    <3>1. IsFiniteSet(S) /\ IsFiniteSet(S \ {0})
      BY FS_Interval, FS_Subset
    <3>2. S \subseteq 0 .. Period - 1 /\ 0 \in S
      BY <1>2
    <3> QED BY <1>5, <3>1, <3>2
  <2> HIDE DEF S
  <2>2. /\ SumFunctionOnSet(grants, S) = grants[0] + SumFunctionOnSet(grants, S \ {0})
        /\ SumFunctionOnSet(grants', S) = grants'[0] + SumFunctionOnSet(grants', S \ {0})
    BY <2>1, SumTake
  <2>3. SumFunctionOnSet(grants', S \ {0}) = SumFunctionOnSet(grants, S \ {0})
    BY <2>1, SumSame
  <2>4. SumFunctionOnSet(grants, S) \in Int /\ SumFunctionOnSet(grants, S \ {0}) \in Int
    BY <2>1, SumInt
  <2>5. SumFunctionOnSet(grants', S) = SumFunctionOnSet(grants, S) + 1
    BY <1>5, <2>2, <2>3, <2>4
  <2>6. Period * SumFunctionOnSet(grants, S) + Refilled <= Full + t * MaxCalls
    BY DEF BucketSound, RateSound, S
  <2>7. Period * SumFunctionOnSet(grants', S) = Period * SumFunctionOnSet(grants, S) + Period
    BY <1>2, <2>4, <2>5
  <2>8. PICK a \in Int : a = Period * SumFunctionOnSet(grants, S)
    BY <1>2, <2>4
  <2>9. PICK b \in Int : b = t * MaxCalls
    BY <1>2
  <2>10. a + Period + (Refilled - Period) <= Full + b
    BY <1>2, <2>6, <2>8, <2>9
  <2>11. Period * SumFunctionOnSet(grants', S) + Refilled' <= Full + t * MaxCalls
    BY <1>4, <2>7, <2>8, <2>9, <2>10
  <2> QED BY <2>11 DEF S
<1> QED BY <1>3, <1>5, <1>6 DEF BucketSound, RateSound

LEMMA TickRefills ==
  ASSUME BucketSound, SourceTick
  PROVE  BucketSound'
<1>1. /\ tokens' = tokens /\ refilled' = Older(refilled, Period)
      /\ grants' = [t \in DOMAIN grants |-> IF t = 0 THEN 0 ELSE grants[t - 1]]
  BY DEF SourceTick
<1>2. /\ tokens \in 0 .. Full /\ refilled \in 0 .. Period /\ Refilled \in 0 .. Full
      /\ Full \in Nat /\ MaxCalls \in Nat \ {0} /\ Period \in Nat \ {0}
  BY RefilledIs, Settings DEF BucketSound
<1>3. /\ refilled' \in 0 .. Period
      /\ refilled' = IF refilled + 1 <= Period THEN refilled + 1 ELSE Period
  BY <1>1, <1>2, OlderIs
<1>4. Refilled' \in 0 .. Full /\ Refilled' <= Refilled + MaxCalls
  <2>1. PICK p \in Nat : /\ p = refilled * MaxCalls
                         /\ Refilled = IF Full <= tokens + p THEN Full ELSE tokens + p
    BY <1>2, RefilledIs
  <2>2. Refilled' = Min({Full, tokens + refilled' * MaxCalls})
    BY <1>1 DEF Refilled
  <2>3. CASE refilled' = refilled + 1
    <3>1. refilled' * MaxCalls = p + MaxCalls
      BY <1>2, <2>1, <2>3
    <3>2. Refilled' = IF Full <= tokens + (p + MaxCalls) THEN Full ELSE tokens + (p + MaxCalls)
      BY <1>2, <2>1, <2>2, <3>1, MinOfTwo
    <3> QED BY <1>2, <2>1, <3>2
  <2>4. CASE refilled' = refilled
    BY <1>1, <1>2, <2>4 DEF Refilled
  <2> QED BY <1>2, <1>3, <2>3, <2>4
<1>5. /\ grants \in [0 .. Period - 1 -> Nat]
      /\ grants' \in [0 .. Period - 1 -> Nat] /\ grants'[0] = 0
      /\ \A u \in 0 .. Period - 1 : u # 0 => grants'[u] = grants[u - 1]
  <2>1. grants \in [0 .. Period - 1 -> Nat] /\ DOMAIN grants = 0 .. Period - 1
    BY DEF BucketSound, RateSound
  <2>2. \A u \in 0 .. Period - 1 : u # 0 => u - 1 \in 0 .. Period - 1
    BY <1>2
  <2>3. 0 \in 0 .. Period - 1
    BY <1>2
  <2> QED BY <1>1, <2>1, <2>2, <2>3
<1>6. ASSUME NEW t \in 0 .. Period - 1
      PROVE  Period * SumFunctionOnSet(grants', 0 .. t) + Refilled' <= Full + t * MaxCalls
  <2> DEFINE S == 0 .. t
  <2>1. /\ IsFiniteSet(S) /\ 0 \in S /\ S \ {0} = 1 .. t
        /\ \A u \in S : grants'[u] \in Int
    <3>1. IsFiniteSet(S)
      BY FS_Interval
    <3>2. S \subseteq 0 .. Period - 1 /\ 0 \in S /\ S \ {0} = 1 .. t
      BY <1>2
    <3> QED BY <1>5, <3>1, <3>2
  <2>2. SumFunctionOnSet(grants', S) = SumFunctionOnSet(grants', 1 .. t)
    <3> HIDE DEF S
    <3>1. SumFunctionOnSet(grants', S) = grants'[0] + SumFunctionOnSet(grants', S \ {0})
      BY <2>1, SumTake
    <3>2. SumFunctionOnSet(grants', S \ {0}) \in Int
      BY <2>1, SumInt
    <3>3. SumFunctionOnSet(grants', S) = SumFunctionOnSet(grants', S \ {0})
      BY <1>5, <3>1, <3>2
    <3> QED BY <2>1, <3>3
  <2>3. SumFunctionOnSet(grants', 1 .. t) = SumFunctionOnSet(grants, 0 .. t - 1)
    <3>1. \A u \in 0 .. t - 1 : grants[u] \in Int /\ grants'[u + 1] = grants[u]
      <4>1. \A u \in 0 .. t - 1 : u \in 0 .. Period - 1 /\ u + 1 \in 0 .. Period - 1
                                  /\ u + 1 # 0 /\ (u + 1) - 1 = u
        BY <1>2
      <4> QED BY <1>5, <4>1
    <3> QED BY <3>1, SumShifted
  <2>4. CASE t = 0
    <3>1. 0 .. t - 1 = {}
      BY <2>4
    <3>2. SumFunctionOnSet(grants, {}) = 0
      BY SumChoosing, FS_EmptySet
    <3>3. SumFunctionOnSet(grants', 0 .. t) = 0
      BY <2>2, <2>3, <3>1, <3>2
    <3>4. Period * SumFunctionOnSet(grants', 0 .. t) = 0 /\ t * MaxCalls = 0
      BY <1>2, <2>4, <3>3
    <3> QED BY <1>2, <1>4, <3>4
  <2>5. CASE t # 0
    <3>1. t - 1 \in 0 .. Period - 1
      BY <1>2, <2>5
    <3>2. Period * SumFunctionOnSet(grants, 0 .. t - 1) + Refilled <= Full + (t - 1) * MaxCalls
      BY <3>1 DEF BucketSound, RateSound
    <3>3. SumFunctionOnSet(grants, 0 .. t - 1) \in Int
      BY <3>1, Grants DEF BucketSound
    <3>4. PICK a \in Int : a = Period * SumFunctionOnSet(grants, 0 .. t - 1)
      BY <1>2, <3>3
    <3>5. PICK b \in Int : b = (t - 1) * MaxCalls /\ b + MaxCalls = t * MaxCalls
      BY <1>2
    <3>6. a + Refilled' <= Full + (b + MaxCalls)
      BY <1>2, <1>4, <3>2, <3>4, <3>5
    <3> QED BY <2>2, <2>3, <3>4, <3>5, <3>6
  <2> QED BY <2>4, <2>5
<1> QED BY <1>1, <1>2, <1>3, <1>5, <1>6 DEF BucketSound, RateSound

-----------------------------------------------------------------------------

LEMMA SourceInvParts == SourceInv <=> CallersSound /\ BucketSound
BY SourceParts DEF CallersSound, BucketSound

LEMMA BucketKept ==
  ASSUME BucketSound, UNCHANGED <<tokens, refilled, grants>>
  PROVE  BucketSound'
BY DEF BucketSound, RateSound, Refilled

LEMMA SourceStarts ==
  ASSUME SourceInit
  PROVE  SourceInv
<1>1. CallersSound
  <2>1. ValueTypes
    BY Settings DEF SourceInit, ValueTypes, CallStages, NoRow
  <2>2. ValuesSound
    BY Settings DEF SourceInit, ValuesSound, CarriedSound, CacheSound, ProbeSound, Carries,
      Fresh, NoRow
  <2>3. LineSound
    BY DEF SourceInit, LineSound
  <2>4. Waiting
    <3>1. {c \in Callers : pc[c] = "limiter"} = {}
      BY DEF SourceInit
    <3>2. DOMAIN queue = {}
      BY DEF SourceInit
    <3> QED BY <3>1, <3>2 DEF Waiting
  <2> QED BY <2>1, <2>2, <2>3, <2>4 DEF CallersSound
<1>2. BucketSound
  <2>1. /\ tokens = Full /\ refilled = 0 /\ grants = [t \in 0 .. Period - 1 |-> 0]
        /\ Full \in Nat /\ Period \in Nat \ {0} /\ MaxCalls \in Nat
    BY Settings DEF SourceInit
  <2>2. tokens \in 0 .. Full /\ refilled \in 0 .. Period
    BY <2>1
  <2>3. Refilled <= Full
    BY <2>1, <2>2, RefilledIs
  <2>4. ASSUME NEW t \in 0 .. Period - 1
        PROVE  Period * SumFunctionOnSet(grants, 0 .. t) + Refilled <= Full + t * MaxCalls
    <3> DEFINE zero == [u \in 0 .. t |-> 0]
               S == 0 .. t
               Good == {T \in SUBSET S : SumFunctionOnSet(grants, T) = 0}
    <3>1. IsFiniteSet(S) /\ \A u \in S : grants[u] = 0
      <4>1. IsFiniteSet(S)
        BY FS_Interval
      <4>2. S \subseteq 0 .. Period - 1
        BY <2>1
      <4> QED BY <2>1, <4>1, <4>2
    <3>10. \A T \in SUBSET S, x \in S :
             x \in T => SumFunctionOnSet(grants, T) = grants[x] + SumFunctionOnSet(grants, T \ {x})
      <4>1. \A u \in S : grants[u] \in Int
        BY <3>1
      <4> HIDE DEF S
      <4> QED BY <3>1, <4>1, SumTake
    <3>2. ASSUME NEW T \in SUBSET S, \A x \in T : T \ {x} \in Good
          PROVE  T \in Good
      <4>1. CASE T = {}
        BY <4>1, SumChoosing, FS_EmptySet
      <4>2. CASE T # {}
        <5>1. PICK x \in T : TRUE
          BY <4>2
        <5>2. grants[x] = 0 /\ x \in S
          BY <3>1, <5>1
        <5>3. SumFunctionOnSet(grants, T) = grants[x] + SumFunctionOnSet(grants, T \ {x})
          BY <3>10, <5>1, <5>2
        <5>4. SumFunctionOnSet(grants, T \ {x}) = 0
          BY <3>2, <5>1
        <5> QED BY <5>2, <5>3, <5>4
      <4> QED BY <4>1, <4>2
    <3>3. S \in Good
      <4> HIDE DEF Good, S
      <4>1. \A T \in SUBSET S : (\A x \in T : T \ {x} \in Good) => T \in Good
        BY <3>2
      <4>2. \A T \in SUBSET S : T \in Good
        BY <3>1, <4>1, SubsetInduction
      <4> QED BY <4>2
    <3>4. SumFunctionOnSet(grants, 0 .. t) = 0
      BY <3>3
    <3>5. t * MaxCalls \in Nat
      BY <2>1
    <3>6. Refilled \in Nat
      BY <2>1, <2>2, RefilledIs
    <3> QED BY <2>1, <2>3, <3>4, <3>5, <3>6
  <2>5. grants \in [0 .. Period - 1 -> Nat]
    BY <2>1
  <2> QED BY <2>2, <2>4, <2>5 DEF BucketSound, RateSound
<1> QED BY <1>1, <1>2, SourceInvParts

LEMMA SourceStepKeeps ==
  ASSUME SourceInv, [SourceNext]_sourceVars
  PROVE  SourceInv'
<1>1. CallersSound /\ BucketSound
  BY SourceInvParts
<1>2. CallersSound' /\ BucketSound' => SourceInv'
  BY SourceInvParts, PTL
<1>3. ASSUME NEW c \in Callers, Get(c) PROVE SourceInv'
  BY <1>1, <1>2, <1>3, GetKeeps, BucketKept DEF Get
<1>4. ASSUME NEW c \in Callers, DropExpired(c) PROVE SourceInv'
  BY <1>1, <1>2, <1>4, DropExpiredKeeps, BucketKept DEF DropExpired
<1>5. ASSUME NEW c \in Callers, Set(c) PROVE SourceInv'
  BY <1>1, <1>2, <1>5, SetKeeps, BucketKept DEF Set
<1>6. ASSUME NEW c \in Callers, Acquire(c) PROVE SourceInv'
  BY <1>1, <1>2, <1>6, AcquireKeeps, AcquirePays
<1>7. ASSUME NEW c \in Callers, Load(c) PROVE SourceInv'
  BY <1>1, <1>2, <1>7, LoadKeeps, BucketKept DEF Load
<1>8. ASSUME NEW c \in Callers, LogSourceCall(c) PROVE SourceInv'
  BY <1>1, <1>2, <1>8, LogSourceCallKeeps, BucketKept DEF LogSourceCall
<1>9. ASSUME NEW c \in Callers, DatabaseFails(c) PROVE SourceInv'
  BY <1>1, <1>2, <1>9, DatabaseFailsKeeps, BucketKept DEF DatabaseFails
<1>10. ASSUME NEW c \in Callers, Cancelled(c) PROVE SourceInv'
  BY <1>1, <1>2, <1>10, GivingUpKeeps, BucketKept DEF Cancelled
<1>11. ASSUME ProbeTimesOut PROVE SourceInv'
  BY <1>1, <1>2, <1>11, GivingUpKeeps, BucketKept, Settings DEF ProbeTimesOut
<1>14. ASSUME ProbeAsksNobody \/ ProbeDirectly \/ Pinged PROVE SourceInv'
  BY <1>1, <1>2, <1>14, OwnProbeKeeps, BucketKept DEF ProbeAsksNobody, ProbeDirectly, Pinged
<1>12. ASSUME SourceTick PROVE SourceInv'
  BY <1>1, <1>2, <1>12, SourceTickKeeps, TickRefills
<1>13. ASSUME UNCHANGED sourceVars PROVE SourceInv'
  <2>1. /\ UNCHANGED <<health, pc, attempt, value, held, row, queue>>
        /\ UNCHANGED <<tokens, refilled, grants, status, elapsed, sinceProbe, sinceAnswer>>
    BY <1>13 DEF sourceVars
  <2>2. BucketSound'
    BY <1>1, <2>1, BucketKept
  <2>3. ValueTypes' /\ LineSound' /\ Waiting'
    BY <1>1, <2>1 DEF CallersSound, ValueTypes, LineSound, Waiting
  <2>4. ValuesSound'
    BY <1>1, <2>1 DEF CallersSound, ValuesSound, CarriedSound, CacheSound, ProbeSound, Carries,
      Fresh
  <2> QED BY <1>2, <2>2, <2>3, <2>4 DEF CallersSound
<1> QED BY <1>3, <1>4, <1>5, <1>6, <1>7, <1>8, <1>9, <1>10, <1>11, <1>12, <1>13,
        <1>14 DEF SourceNext, CallStep

\* Callers of a source, its limiter and its rows of the cache (sources/base.py,
\* cache/store.py) keep the invariant, whoever is cancelled or fails where.
THEOREM SourceInductive == SourceSpec => []SourceInv
<1>1. SourceInit => SourceInv
  BY SourceStarts
<1>2. SourceInv /\ [SourceNext]_sourceVars => SourceInv'
  BY SourceStepKeeps
<1> QED BY <1>1, <1>2, PTL DEF SourceSpec

\* Nobody is served a value older than its time to live and the awaits it
\* passed through; and the probe shows no source reachable that had not answered,
\* to it or to a caller whose value was cached, but the one whose health() says
\* so without asking (services/health_probe.py:53-68, tradingview_ta.py:131-133).
THEOREM ServedInTime == SourceSpec => []ServedIsRecent
<1>1. SourceInv => ServedIsRecent
  <2> SUFFICES ASSUME SourceInv PROVE ServedIsRecent
    OBVIOUS
  <2>1. SourceTypeOK /\ CallersSound
    BY SourceInvParts DEF SourceInv
  <2>2. ASSUME NEW c \in Callers, Carries(c) PROVE value[c] <= MaxAge
    <3>1. value[c] \in 0 .. Never /\ held[c] \in 0 .. Lag
      BY <2>1 DEF CallersSound, ValueTypes
    <3>2. /\ pc[c] \in {"log-hit", "log-load", "store"}
          /\ pc[c] = "log-load" => value[c] <= held[c]
          /\ pc[c] = "store" => value[c] <= Lag + held[c]
          /\ pc[c] = "log-hit" => value[c] <= 2 * Lag + Ttl + held[c]
      BY <2>1, <2>2 DEF CallersSound, ValuesSound, CarriedSound, Carries
    <3> QED BY <3>1, <3>2, Settings
  <2>3. status \in {"ok", "degraded"} /\ health # "assumed" =>
          sinceAnswer <= sinceProbe + MaxAge
    BY <2>1 DEF CallersSound, ValuesSound, ProbeSound
  <2> QED BY <2>1, <2>2, <2>3 DEF ServedIsRecent
<1> QED BY <1>1, SourceInductive, PTL

\* The limiter (sources/base.py:78) lets no more than twice max_calls through
\* in any period, for every max_calls and period.
THEOREM RateStaysBounded == SourceSpec => []RateIsBounded
<1>1. SourceInv => RateIsBounded
  <2> SUFFICES ASSUME SourceInv PROVE RateIsBounded
    OBVIOUS
  <2>1. BucketSound /\ RateSound
    BY SourceInvParts DEF BucketSound
  <2> DEFINE t == Period - 1
             sum == SumFunctionOnSet(grants, 0 .. t)
  <2>2. /\ Period \in Nat \ {0} /\ MaxCalls \in Nat \ {0} /\ Full = MaxCalls * Period
        /\ t \in 0 .. Period - 1
    BY Settings
  <2>3. SumFunction(grants) = sum
    BY <2>1 DEF RateSound, SumFunction, SumFunctionOnSet, FoldFunction
  <2>4. sum \in Int
    BY <2>1, <2>2, Grants
  <2>5. Period * sum + Refilled <= Full + t * MaxCalls /\ Refilled >= 0 /\ Refilled \in Int
    BY <2>1, <2>2, RefilledIs DEF RateSound, BucketSound
  <2>6. PICK m \in Nat \ {0}, n \in Nat \ {0}, s \in Int : m = MaxCalls /\ n = Period /\ s = sum
    BY <2>2, <2>4
  <2>7. Period * sum <= MaxCalls * Period + (Period - 1) * MaxCalls
    BY <2>2, <2>4, <2>5
  <2> HIDE DEF t, sum
  <2>8. n * s <= m * n + (n - 1) * m
    BY <2>6, <2>7
  <2>9. s <= 2 * m
    <3>1. SUFFICES ASSUME s >= 2 * m + 1 PROVE FALSE
      BY <2>6
    <3>2. n * s >= n * (2 * m + 1)
      BY <2>6, <3>1
    <3>3. n * (2 * m + 1) = m * n + m * n + n
      BY <2>6
    <3>4. (n - 1) * m = m * n - m
      BY <2>6
    <3>5. PICK p \in Nat, q \in Int : p = m * n /\ q = n * s
      BY <2>6
    <3>6. q >= p + p + n /\ q <= p + p - m
      BY <2>8, <3>2, <3>3, <3>4, <3>5
    <3> QED BY <2>6, <3>5, <3>6
  <2> QED BY <2>3, <2>6, <2>9 DEF RateIsBounded
<1> QED BY <1>1, SourceInductive, PTL

-----------------------------------------------------------------------------
(* Subjects and what has become of them *)

SubjectShapes ==
  /\ \A x \in Subjects : x.job \in {"price", "watch", "news"}
  /\ \A a \in Alerts : PriceSubject(a) \in Subjects /\ PriceSubject(a).job = "price"
  /\ \A a, b \in Alerts : PriceSubject(a) = PriceSubject(b) => a = b
  /\ \A w \in Watched, k \in Kinds :
       /\ WatchSubject(w.user, w.ticker, k) \in Subjects
       /\ WatchSubject(w.user, w.ticker, k).job = "watch"

LEMMA SubjectsAre == SubjectShapes
<1>1. \A a \in Alerts : PriceSubject(a) \in Subjects /\ PriceSubject(a).job = "price"
  BY DEF Subjects, PriceSubject
<1>2. \A a, b \in Alerts : PriceSubject(a) = PriceSubject(b) => a = b
  <2> TAKE a, b \in Alerts
  <2>1. PriceSubject(a).alert = a /\ PriceSubject(b).alert = b
    BY DEF PriceSubject
  <2> QED BY <2>1
<1>3. \A w \in Watched, k \in Kinds :
        /\ WatchSubject(w.user, w.ticker, k) \in Subjects
        /\ WatchSubject(w.user, w.ticker, k).job = "watch"
  BY DEF Subjects, WatchSubject
<1>4. \A x \in Subjects : x.job \in {"price", "watch", "news"}
  BY DEF Subjects, PriceSubject, WatchSubject, NewsSubject
<1> QED BY <1>1, <1>2, <1>3, <1>4 DEF SubjectShapes

LEMMA NewsSubjectIs ==
  ASSUME NEW t, NEW u \in Watchers(t), NEW url \in Urls
  PROVE  /\ NewsSubject(u, t, url) \in Subjects
         /\ NewsSubject(u, t, url).job = "news" /\ NewsSubject(u, t, url).ticker = t
         /\ NewsSubject(u, t, url).url = url /\ NewsSubject(u, t, url).user = u
<1>1. PICK w \in Watched : w.ticker = t /\ w.user = u
  BY DEF Watchers
<1>2. NewsSubject(u, t, url) \in Subjects
  BY <1>1 DEF Subjects
<1> QED BY <1>2 DEF NewsSubject

ToldRows == last \in [Subjects -> [age : 0 .. Window, run : Fates]]

\* A run ends: what it has told is settled, and nothing else.
LEMMA Settled ==
  ASSUME ToldRows, NEW job, NEW outcome \in {"committed", "lost"}, last' = Settle(job, outcome)
  PROVE  /\ ToldRows'
         /\ \A x \in Subjects : x.job # job => last'[x] = last[x]
         /\ \A x \in Subjects : last[x].run # "open" => last'[x] = last[x]
         /\ \A x \in Subjects : x.job = job /\ last[x].run = "open" =>
              last'[x].run = outcome /\ last'[x].age = last[x].age
<1>1. \A x \in Subjects : last[x] \in [age : 0 .. Window, run : Fates]
  BY DEF ToldRows
<1>2. \A x \in Subjects : [last[x] EXCEPT !.run = outcome] = [age |-> last[x].age, run |-> outcome]
  BY <1>1
<1>3. \A x \in Subjects : [last[x] EXCEPT !.run = outcome] \in [age : 0 .. Window, run : Fates]
  BY <1>1, <1>2 DEF Fates
<1>4. last' = [x \in Subjects |-> IF x.job = job /\ last[x].run = "open"
                                  THEN [last[x] EXCEPT !.run = outcome] ELSE last[x]]
  BY DEF Settle
<1> QED BY <1>1, <1>2, <1>3, <1>4 DEF ToldRows

LEMMA Told ==
  ASSUME ToldRows, NEW x \in Subjects,
         last' = [last EXCEPT ![x] = [age |-> 0, run |-> "open"]], Window \in Nat
  PROVE  /\ ToldRows' /\ last'[x].run = "open"
         /\ \A y \in Subjects : y # x => last'[y] = last[y]
BY DEF ToldRows, Fates

AskedRows == asked \in [Urls -> Fates]

LEMMA UrlsSettled ==
  ASSUME AskedRows, NEW outcome \in {"committed", "lost"}, asked' = SettleUrls(outcome)
  PROVE  /\ AskedRows'
         /\ \A url \in Urls : asked'[url] = IF asked[url] = "open" THEN outcome ELSE asked[url]
BY DEF AskedRows, SettleUrls, Fates

-----------------------------------------------------------------------------
(* What a step that does not concern a part leaves of it *)

LEMMA PriceKept ==
  ASSUME PriceSound, price' = price, alert' = alert,
         \A a \in Alerts : last'[PriceSubject(a)] = last[PriceSubject(a)]
  PROVE  PriceSound'
BY DEF PriceSound

LEMMA WatchKept ==
  ASSUME WatchSound, watch' = watch,
         \A x \in Subjects : x.job = "watch" => last'[x] = last[x]
  PROVE  WatchSound'
BY DEF WatchSound

LEMMA NewsKept ==
  ASSUME NewsSound, news' = news, processed' = processed,
         \A x \in Subjects : x.job = "news" => last'[x] = last[x]
  PROVE  NewsSound'
BY DEF NewsSound, Known

\* A message, a settled run and a run that is lost leave the rest's ages alone.
LEMMA AgesKept ==
  ASSUME AgesSound, sent' = sent,
         \A x \in Subjects : x.job # "price" /\ last'[x].run = "committed" => last'[x] = last[x]
  PROVE  AgesSound'
BY DEF AgesSound

LEMMA AskedKept ==
  ASSUME AskedSound, asked' = asked, processed' = processed, news'.seen = news.seen
  PROVE  AskedSound'
BY DEF AskedSound

JobsParts ==
  /\ RowsTyped /\ RunsTyped /\ ToldRows /\ AskedRows /\ LockSound
  /\ PriceSound /\ WatchSound /\ NewsSound /\ AgesSound /\ AskedSound

LEMMA JobsInvParts == JobsInv <=> JobsParts
BY DEF JobsInv, JobsParts, ToldTyped, ToldRows, AskedRows

LEMMA JobsSettings == Window \in Nat \ {0} /\ MaxFaults \in Nat
BY AlertAssumption

-----------------------------------------------------------------------------
(* The price job *)

PriceRecord == [at : {"idle", "fetch", "fire"}, todo : SUBSET Alerts, done : SUBSET Alerts]

\* A step of the price job, apart from what it does to its own part.
LEMMA PriceJobKeeps ==
  ASSUME JobsParts, UNCHANGED <<sent, processed, writer, watch, news, asked, faults>>,
         price' \in PriceRecord, alert' \in [Alerts -> AlertStates], ToldRows',
         \A x \in Subjects : x.job # "price" => last'[x] = last[x], PriceSound'
  PROVE  JobsParts'
<1>1. RowsTyped' /\ RunsTyped' /\ AskedRows' /\ LockSound'
  BY DEF JobsParts, RowsTyped, RunsTyped, AskedRows, LockSound, NewsPending, PriceRecord
<1>2. WatchSound' /\ NewsSound' /\ AgesSound' /\ AskedSound'
  <2>1. \A x \in Subjects : x.job = "watch" \/ x.job = "news" => last'[x] = last[x]
    OBVIOUS
  <2> QED BY <2>1, WatchKept, NewsKept, AgesKept, AskedKept DEF JobsParts
<1> QED BY <1>1, <1>2 DEF JobsParts

LEMMA PriceStartKeeps ==
  ASSUME JobsParts, PriceStart
  PROVE  JobsParts'
<1> DEFINE active == {a \in Alerts : alert[a] = "active"}
<1>1. /\ price.at = "idle" /\ price' = [at |-> "fetch", todo |-> active, done |-> {}]
      /\ UNCHANGED <<alert, sent, processed, writer, watch, news, last, asked, faults>>
  BY DEF PriceStart, NoRun
<1>2. PriceSound /\ ToldRows /\ alert \in [Alerts -> AlertStates]
  BY DEF JobsParts, RowsTyped
<1>3. price' \in PriceRecord
  BY <1>1 DEF PriceRecord
<1>4. PriceSound'
  <2>1. price.done = {}
    BY <1>1, <1>2 DEF PriceSound
  <2> QED BY <1>1, <1>2, <2>1 DEF PriceSound
<1>5. ToldRows'
  BY <1>1, <1>2 DEF ToldRows
<1> QED BY <1>1, <1>2, <1>3, <1>4, <1>5, PriceJobKeeps

LEMMA FetchPricesKeeps ==
  ASSUME JobsParts, NEW p \in Quotes, FetchPrices(p)
  PROVE  JobsParts'
<1>0. price \in PriceRecord
  BY DEF JobsParts, RunsTyped, PriceRecord
<1>1. /\ price.at = "fetch" /\ price'.at = "fire" /\ price'.done = price.done
      /\ price'.todo \subseteq price.todo /\ price' \in PriceRecord
      /\ UNCHANGED <<alert, sent, processed, writer, watch, news, last, asked, faults>>
  BY <1>0 DEF FetchPrices, PriceRecord
<1>2. PriceSound /\ ToldRows /\ alert \in [Alerts -> AlertStates]
  BY DEF JobsParts, RowsTyped
<1>3. PriceSound'
  BY <1>1, <1>2 DEF PriceSound
<1>4. ToldRows'
  BY <1>1, <1>2 DEF ToldRows
<1> QED BY <1>1, <1>2, <1>3, <1>4, PriceJobKeeps

LEMMA FireKeeps ==
  ASSUME JobsParts, NEW a \in Alerts, NEW arrives \in BOOLEAN, Fire(a, arrives)
  PROVE  JobsParts'
<1>0. price \in PriceRecord
  BY DEF JobsParts, RunsTyped, PriceRecord
<1>1. /\ price.at = "fire" /\ a \in price.todo
      /\ UNCHANGED <<alert, sent, processed, writer, watch, news, asked, faults>>
  BY DEF Fire
<1>2. PriceSound /\ ToldRows /\ alert \in [Alerts -> AlertStates]
  BY DEF JobsParts, RowsTyped
<1>3. CASE arrives
  <2>1. /\ last' = [last EXCEPT ![PriceSubject(a)] = [age |-> 0, run |-> "open"]]
        /\ price' = [price EXCEPT !.todo = @ \ {a}, !.done = @ \cup {a}]
    BY <1>3 DEF Fire, Message
  <2>2. /\ ToldRows' /\ last'[PriceSubject(a)].run = "open"
        /\ \A y \in Subjects : y # PriceSubject(a) => last'[y] = last[y]
    BY <1>2, <2>1, Told, SubjectsAre, JobsSettings DEF SubjectShapes
  <2>3. /\ price'.at = "fire" /\ price'.todo = price.todo \ {a} /\ price'.done = price.done \cup {a}
        /\ price' \in PriceRecord
    BY <1>0, <1>1, <2>1 DEF PriceRecord
  <2>4. \A b \in Alerts : b # a => last'[PriceSubject(b)] = last[PriceSubject(b)]
    BY <2>2, SubjectsAre DEF SubjectShapes
  <2>5. PriceSound'
    <3>1. ASSUME NEW b \in Alerts
          PROVE  /\ last'[PriceSubject(b)].run = "open" <=> b \in price'.done
                 /\ alert'[b] = "fired" =>
                      last'[PriceSubject(b)].run = "committed" /\ b \notin price'.todo
                 /\ b \in price'.todo \/ alert'[b] \in {"unborn", "active"} =>
                      last'[PriceSubject(b)].run \in {"none", "open", "lost"}
      <4>1. CASE b = a
        BY <1>1, <1>2, <2>2, <2>3, <4>1 DEF PriceSound
      <4>2. CASE b # a
        BY <1>1, <1>2, <2>3, <2>4, <4>2 DEF PriceSound
      <4> QED BY <4>1, <4>2
    <3>2. price'.done \cap price'.todo = {}
      BY <1>2, <2>3 DEF PriceSound
    <3> QED BY <2>3, <3>1, <3>2 DEF PriceSound
  <2>6. \A x \in Subjects : x.job # "price" => last'[x] = last[x]
    BY <2>2, SubjectsAre DEF SubjectShapes
  <2> QED BY <1>1, <1>2, <2>2, <2>3, <2>5, <2>6, PriceJobKeeps
<1>4. CASE ~arrives
  <2>1. last' = last /\ price' = [price EXCEPT !.todo = @ \ {a}, !.done = @]
    BY <1>4 DEF Fire, Message
  <2>3. /\ price'.at = "fire" /\ price'.todo = price.todo \ {a} /\ price'.done = price.done
        /\ price' \in PriceRecord
    BY <1>0, <1>1, <2>1 DEF PriceRecord
  <2>4. PriceSound'
    BY <1>1, <1>2, <2>1, <2>3 DEF PriceSound
  <2>5. ToldRows'
    BY <1>2, <2>1 DEF ToldRows
  <2> QED BY <1>1, <1>2, <2>1, <2>3, <2>4, <2>5, PriceJobKeeps
<1> QED BY <1>3, <1>4

LEMMA PriceCommitKeeps ==
  ASSUME JobsParts, PriceCommit
  PROVE  JobsParts'
<1>1. /\ price.todo = {} /\ price' = NoRun
      /\ alert' = [a \in Alerts |-> IF a \in price.done THEN "fired" ELSE alert[a]]
      /\ last' = Settle("price", "committed")
      /\ UNCHANGED <<sent, processed, writer, watch, news, asked, faults>>
  BY DEF PriceCommit
<1>2. PriceSound /\ ToldRows /\ alert \in [Alerts -> AlertStates]
  BY DEF JobsParts, RowsTyped
<1>3. /\ ToldRows'
      /\ \A x \in Subjects : x.job # "price" => last'[x] = last[x]
      /\ \A x \in Subjects : last[x].run # "open" => last'[x] = last[x]
      /\ \A x \in Subjects : x.job = "price" /\ last[x].run = "open" => last'[x].run = "committed"
  BY <1>1, <1>2, Settled
<1>4. price' \in PriceRecord /\ price'.at = "idle" /\ price'.todo = {} /\ price'.done = {}
  BY <1>1 DEF PriceRecord, NoRun
<1>5. alert' \in [Alerts -> AlertStates]
  BY <1>1, <1>2 DEF AlertStates
<1>6. PriceSound'
  <2>1. ASSUME NEW a \in Alerts
        PROVE  /\ last'[PriceSubject(a)].run # "open"
               /\ alert'[a] = "fired" => last'[PriceSubject(a)].run = "committed"
               /\ alert'[a] \in {"unborn", "active"} =>
                    last'[PriceSubject(a)].run \in {"none", "open", "lost"}
    <3>1. PriceSubject(a) \in Subjects /\ PriceSubject(a).job = "price"
      BY SubjectsAre DEF SubjectShapes
    <3>2. alert'[a] = IF a \in price.done THEN "fired" ELSE alert[a]
      BY <1>1
    <3>3. /\ last[PriceSubject(a)].run = "open" <=> a \in price.done
          /\ alert[a] = "fired" => last[PriceSubject(a)].run = "committed"
          /\ alert[a] \in {"unborn", "active"} =>
               last[PriceSubject(a)].run \in {"none", "open", "lost"}
      BY <1>2 DEF PriceSound
    <3>4. CASE a \in price.done
      BY <1>3, <3>1, <3>2, <3>3, <3>4
    <3>5. CASE a \notin price.done
      BY <1>3, <3>1, <3>2, <3>3, <3>5
    <3> QED BY <3>4, <3>5
  <2> QED BY <1>4, <2>1 DEF PriceSound
<1> QED BY <1>1, <1>3, <1>4, <1>5, <1>6, PriceJobKeeps

\* The run is lost, to the lock or to a restart.
LEMMA PriceRunLost ==
  ASSUME PriceSound, ToldRows, price' = NoRun, alert' = alert,
         \A a \in Alerts : last[PriceSubject(a)].run # "open" =>
           last'[PriceSubject(a)] = last[PriceSubject(a)],
         \A a \in Alerts : last[PriceSubject(a)].run = "open" => last'[PriceSubject(a)].run = "lost"
  PROVE  PriceSound'
<1>1. price'.at = "idle" /\ price'.todo = {} /\ price'.done = {}
  BY DEF NoRun
<1>2. ASSUME NEW a \in Alerts
      PROVE  /\ last'[PriceSubject(a)].run # "open"
             /\ alert'[a] = "fired" => last'[PriceSubject(a)].run = "committed"
             /\ alert'[a] \in {"unborn", "active"} =>
                  last'[PriceSubject(a)].run \in {"none", "open", "lost"}
  <2>1. CASE last[PriceSubject(a)].run = "open"
    BY <2>1 DEF PriceSound
  <2>2. CASE last[PriceSubject(a)].run # "open"
    BY <2>2 DEF PriceSound
  <2> QED BY <2>1, <2>2
<1> QED BY <1>1, <1>2 DEF PriceSound

LEMMA PriceCommitFailsKeeps ==
  ASSUME JobsParts, PriceCommitFails
  PROVE  JobsParts'
<1>1. /\ price' = NoRun /\ last' = Settle("price", "lost")
      /\ UNCHANGED <<alert, sent, processed, writer, watch, news, asked, faults>>
  BY DEF PriceCommitFails
<1>2. PriceSound /\ ToldRows /\ alert \in [Alerts -> AlertStates]
  BY DEF JobsParts, RowsTyped
<1>3. /\ ToldRows'
      /\ \A x \in Subjects : x.job # "price" => last'[x] = last[x]
      /\ \A x \in Subjects : last[x].run # "open" => last'[x] = last[x]
      /\ \A x \in Subjects : x.job = "price" /\ last[x].run = "open" => last'[x].run = "lost"
  BY <1>1, <1>2, Settled
<1>4. price' \in PriceRecord
  BY <1>1 DEF PriceRecord, NoRun
<1>5. PriceSound'
  BY <1>1, <1>2, <1>3, SubjectsAre, PriceRunLost DEF SubjectShapes
<1> QED BY <1>1, <1>2, <1>3, <1>4, <1>5, PriceJobKeeps

LEMMA AlertHandlersKeep ==
  ASSUME JobsParts, NEW a \in Alerts, CreateAlert(a) \/ DeleteAlert(a)
  PROVE  JobsParts'
<1>1. /\ UNCHANGED <<sent, processed, writer, price, watch, news, last, asked, faults>>
      /\ \/ alert[a] = "unborn" /\ alert' = [alert EXCEPT ![a] = "active"]
         \/ alert[a] = "active" /\ alert' = [alert EXCEPT ![a] = "deleted"]
  BY DEF CreateAlert, DeleteAlert
<1>2. PriceSound /\ ToldRows /\ alert \in [Alerts -> AlertStates] /\ price \in PriceRecord
  BY DEF JobsParts, RowsTyped, RunsTyped, PriceRecord
<1>3. PriceSound'
  <2>1. ASSUME NEW b \in Alerts
        PROVE  \/ alert'[b] = alert[b]
               \/ alert[b] \in {"unborn", "active"} /\ alert'[b] \in {"active", "deleted"}
    BY <1>1, <1>2
  <2> QED BY <1>1, <1>2, <2>1 DEF PriceSound
<1>4. alert' \in [Alerts -> AlertStates] /\ ToldRows' /\ price' \in PriceRecord
  BY <1>1, <1>2 DEF AlertStates, ToldRows
<1> QED BY <1>1, <1>3, <1>4, PriceJobKeeps

-----------------------------------------------------------------------------
(* The watchlist job *)

WatchRecord == [at : {"idle", "fetch", "send"}, todo : SUBSET Subjects, done : SUBSET Subjects]

WatchLock == (writer = "watch" => watch.done # {}) /\ writer # "price"

LEMMA WatchJobKeeps ==
  ASSUME JobsParts, UNCHANGED <<alert, processed, price, news, asked, faults>>,
         watch' \in WatchRecord, sent' \in [Subjects -> 0 .. Window], ToldRows',
         \A x \in Subjects : x.job # "watch" => last'[x] = last[x],
         WatchLock', writer' = "news" => writer = "news", WatchSound', AgesSound'
  PROVE  JobsParts'
<1>1. RowsTyped' /\ RunsTyped' /\ AskedRows' /\ LockSound'
  BY DEF JobsParts, RowsTyped, RunsTyped, AskedRows, LockSound, NewsPending, WatchRecord, WatchLock
<1>2. PriceSound' /\ NewsSound' /\ AskedSound'
  <2>1. /\ \A a \in Alerts : last'[PriceSubject(a)] = last[PriceSubject(a)]
        /\ \A x \in Subjects : x.job = "news" => last'[x] = last[x]
    BY SubjectsAre DEF SubjectShapes
  <2> QED BY <2>1, PriceKept, NewsKept, AskedKept DEF JobsParts
<1> QED BY <1>1, <1>2 DEF JobsParts

LEMMA WatchStartKeeps ==
  ASSUME JobsParts, WatchStart
  PROVE  JobsParts'
<1>1. /\ watch.at = "idle" /\ watch' = [at |-> "fetch", todo |-> {}, done |-> {}]
      /\ UNCHANGED <<alert, sent, processed, writer, price, news, last, asked, faults>>
  BY DEF WatchStart, NoRun
<1>2. /\ WatchSound /\ AgesSound /\ ToldRows /\ sent \in [Subjects -> 0 .. Window]
      /\ WatchLock
  BY DEF JobsParts, RowsTyped, LockSound, WatchLock
<1>3. watch' \in WatchRecord
  BY <1>1 DEF WatchRecord
<1>4. watch.done = {} /\ watch.todo = {}
  BY <1>1, <1>2 DEF WatchSound
<1>5. WatchSound' /\ AgesSound' /\ ToldRows' /\ WatchLock'
  BY <1>1, <1>2, <1>4 DEF WatchSound, AgesSound, ToldRows, WatchLock
<1> QED BY <1>1, <1>2, <1>3, <1>5, WatchJobKeeps

LEMMA FetchSnapshotsKeeps ==
  ASSUME JobsParts, FetchSnapshots
  PROVE  JobsParts'
<1>1. /\ watch.at = "fetch"
      /\ UNCHANGED <<alert, sent, processed, writer, price, news, last, asked, faults>>
  BY DEF FetchSnapshots
<1>2. PICK s \in Shown :
        watch' = [watch EXCEPT !.at = "send",
          !.todo = UNION {{WatchSubject(w.user, w.ticker, k) : k \in DetectAnomalies(s[w.ticker])} :
                            w \in Watched}]
  BY DEF FetchSnapshots
<1>3. /\ WatchSound /\ AgesSound /\ ToldRows /\ sent \in [Subjects -> 0 .. Window]
      /\ WatchLock /\ watch \in WatchRecord
  BY DEF JobsParts, RowsTyped, RunsTyped, LockSound, WatchLock, WatchRecord
<1>4. /\ watch'.at = "send" /\ watch'.done = watch.done
      /\ watch'.todo = UNION {{WatchSubject(w.user, w.ticker, k) :
                                 k \in DetectAnomalies(s[w.ticker])} : w \in Watched}
  BY <1>2, <1>3 DEF WatchRecord
<1>5. ASSUME NEW x \in watch'.todo PROVE x \in Subjects /\ x.job = "watch"
  <2>1. PICK w \in Watched, k \in Kinds : x = WatchSubject(w.user, w.ticker, k)
    BY <1>4, <1>5 DEF DetectAnomalies
  <2> QED BY <2>1, SubjectsAre DEF SubjectShapes
<1>6. watch' \in WatchRecord
  <2>1. DOMAIN watch' = {"at", "todo", "done"}
    BY <1>2, <1>3 DEF WatchRecord
  <2>2. watch'.done \subseteq Subjects /\ watch'.todo \subseteq Subjects
    BY <1>3, <1>4, <1>5 DEF WatchRecord
  <2>3. watch' = [watch EXCEPT !.at = "send", !.todo = watch'.todo]
    BY <1>2, <1>4
  <2> QED BY <1>3, <2>2, <2>3 DEF WatchRecord
<1>7. watch.done = {}
  BY <1>1, <1>3 DEF WatchSound
<1>8. WatchSound'
  BY <1>1, <1>3, <1>4, <1>5, <1>7 DEF WatchSound
<1>9. AgesSound' /\ ToldRows' /\ WatchLock'
  BY <1>1, <1>3, <1>4 DEF AgesSound, ToldRows, WatchLock
<1> QED BY <1>1, <1>3, <1>6, <1>8, <1>9, WatchJobKeeps

LEMMA WatchSendKeeps ==
  ASSUME JobsParts, NEW x \in Subjects, NEW arrives \in BOOLEAN, WatchSend(x, arrives)
  PROVE  JobsParts'
<1>1. /\ watch.at = "send" /\ x \in watch.todo
      /\ UNCHANGED <<alert, sent, processed, price, news, asked, faults>>
  BY DEF WatchSend
<1>2. /\ WatchSound /\ AgesSound /\ ToldRows /\ sent \in [Subjects -> 0 .. Window]
      /\ WatchLock /\ watch \in WatchRecord
  BY DEF JobsParts, RowsTyped, RunsTyped, LockSound, WatchLock, WatchRecord
<1>3. /\ (watch.done # {} /\ writer' = "watch") \/ writer' = writer
      /\ writer' = "news" => writer = "news"
  BY DEF WatchSend, Flush
<1>4. CASE watch' = [watch EXCEPT !.todo = @ \ {x}] /\ last' = last
  <2>1. /\ watch' \in WatchRecord /\ watch'.at = watch.at /\ watch'.todo = watch.todo \ {x}
        /\ watch'.done = watch.done
    BY <1>2, <1>4 DEF WatchRecord
  <2>2. WatchSound' /\ AgesSound' /\ ToldRows' /\ WatchLock'
    BY <1>1, <1>2, <1>3, <1>4, <2>1 DEF WatchSound, AgesSound, ToldRows, WatchLock
  <2> QED BY <1>1, <1>2, <1>3, <1>4, <2>1, <2>2, WatchJobKeeps
<1>5. CASE /\ watch' = [watch EXCEPT !.todo = @ \ {x}, !.done = @ \cup {x}]
           /\ Message(x, arrives)
  <2>1. /\ watch' \in WatchRecord /\ watch'.at = watch.at /\ watch'.todo = watch.todo \ {x}
        /\ watch'.done = watch.done \cup {x}
    BY <1>2, <1>5 DEF WatchRecord
  <2>2. /\ ToldRows' /\ \A y \in Subjects : y # x => last'[y] = last[y]
        /\ last'[x] = last[x] \/ last'[x].run = "open"
    <3>1. CASE arrives
      <4>1. last' = [last EXCEPT ![x] = [age |-> 0, run |-> "open"]]
        BY <1>5, <3>1 DEF Message
      <4> QED BY <1>2, <4>1, Told, JobsSettings
    <3>2. CASE ~arrives
      <4>1. last' = last
        BY <1>5, <3>2 DEF Message
      <4> QED BY <1>2, <4>1 DEF ToldRows
    <3> QED BY <3>1, <3>2
  <2>3. x.job = "watch"
    BY <1>1, <1>2 DEF WatchSound
  <2>4. WatchSound'
    <3>1. \A y \in Subjects : y.job = "watch" /\ last'[y].run = "open" => y \in watch'.done
      BY <1>2, <2>1, <2>2 DEF WatchSound
    <3>2. \A y \in watch'.todo \cup watch'.done : y.job = "watch"
      BY <1>2, <2>1, <2>3 DEF WatchSound
    <3>3. watch'.todo \cap watch'.done = {}
      BY <1>2, <2>1 DEF WatchSound
    <3> QED BY <1>1, <2>1, <3>1, <3>2, <3>3 DEF WatchSound
  <2>5. AgesSound'
    <3>1. \A y \in Subjects : last'[y].run = "committed" => last'[y] = last[y]
      BY <2>2
    <3> QED BY <1>1, <1>2, <3>1, AgesKept
  <2>6. WatchLock' /\ \A y \in Subjects : y.job # "watch" => last'[y] = last[y]
    BY <1>2, <1>3, <2>1, <2>2, <2>3 DEF WatchLock
  <2> QED BY <1>1, <1>2, <1>3, <2>1, <2>2, <2>4, <2>5, <2>6, WatchJobKeeps
<1> QED BY <1>4, <1>5 DEF WatchSend

\* The rows of the run's own subjects are stamped when it commits.
LEMMA AgesCommitted ==
  ASSUME AgesSound, ToldRows, ToldRows', sent \in [Subjects -> 0 .. Window], NEW job, NEW done,
         \A x \in Subjects : x.job = job /\ last[x].run = "open" => x \in done,
         sent' = Stamp(done), last' = Settle(job, "committed")
  PROVE  AgesSound' /\ sent' \in [Subjects -> 0 .. Window]
<1>1. \A x \in Subjects : /\ sent'[x] = (IF x \in done THEN 0 ELSE sent[x])
                         /\ sent[x] \in 0 .. Window /\ last[x].age \in Nat /\ last'[x].age \in Nat
  BY JobsSettings DEF Stamp, ToldRows
<1>2. sent' \in [Subjects -> 0 .. Window]
  <2>1. \A x \in Subjects : (IF x \in done THEN 0 ELSE sent[x]) \in 0 .. Window
    BY <1>1, JobsSettings
  <2> QED BY <2>1 DEF Stamp
<1>3. /\ \A x \in Subjects : x.job # job => last'[x] = last[x]
      /\ \A x \in Subjects : last[x].run # "open" => last'[x] = last[x]
  BY Settled
<1>4. ASSUME NEW x \in Subjects, x.job # "price", last'[x].run = "committed"
      PROVE  sent'[x] <= last'[x].age
  <2>1. CASE x \in done
    BY <1>1, <1>4, <2>1
  <2>2. CASE x \notin done
    <3>1. last'[x] = last[x]
      BY <1>3, <1>4, <2>2
    <3>2. sent[x] <= last[x].age
      BY <1>4, <3>1 DEF AgesSound
    <3> QED BY <1>1, <1>4, <2>2, <3>1, <3>2
  <2> QED BY <2>1, <2>2
<1> QED BY <1>2, <1>4 DEF AgesSound

LEMMA WatchCommitKeeps ==
  ASSUME JobsParts, WatchCommit
  PROVE  JobsParts'
<1>1. /\ sent' = Stamp(watch.done) /\ last' = Settle("watch", "committed") /\ watch' = NoRun
      /\ writer' = (IF writer = "watch" THEN "none" ELSE writer)
      /\ UNCHANGED <<alert, processed, price, news, asked, faults>>
  BY DEF WatchCommit, Release
<1>2. /\ WatchSound /\ AgesSound /\ ToldRows /\ sent \in [Subjects -> 0 .. Window]
      /\ WatchLock
  BY DEF JobsParts, RowsTyped, LockSound, WatchLock
<1>3. /\ ToldRows'
      /\ \A x \in Subjects : x.job # "watch" => last'[x] = last[x]
      /\ \A x \in Subjects : last[x].run # "open" => last'[x] = last[x]
      /\ \A x \in Subjects : x.job = "watch" /\ last[x].run = "open" => last'[x].run = "committed"
  BY <1>1, <1>2, Settled
<1>4. watch' \in WatchRecord /\ watch'.at = "idle" /\ watch'.todo = {} /\ watch'.done = {}
  BY <1>1 DEF WatchRecord, NoRun
<1>5. WatchSound'
  BY <1>3, <1>4 DEF WatchSound
<1>6. AgesSound' /\ sent' \in [Subjects -> 0 .. Window]
  <2>1. \A x \in Subjects : x.job = "watch" /\ last[x].run = "open" => x \in watch.done
    BY <1>2 DEF WatchSound
  <2> QED BY <1>1, <1>2, <1>3, <2>1, AgesCommitted
<1>7. WatchLock' /\ (writer' = "news" => writer = "news")
  BY <1>1, <1>2 DEF WatchLock
<1> QED BY <1>1, <1>3, <1>4, <1>5, <1>6, <1>7, WatchJobKeeps

\* The run is lost, to the lock or to a restart.
LEMMA WatchRunLost ==
  ASSUME watch' = NoRun, \A x \in Subjects : x.job = "watch" => last'[x].run # "open"
  PROVE  WatchSound'
BY DEF WatchSound, NoRun

LEMMA WatchFailsKeeps ==
  ASSUME JobsParts, WatchFails
  PROVE  JobsParts'
<1>1. /\ last' = Settle("watch", "lost") /\ watch' = NoRun /\ writer # "watch"
      /\ UNCHANGED <<alert, sent, processed, writer, price, news, asked, faults>>
  BY DEF WatchFails, CanWrite
<1>2. /\ WatchSound /\ AgesSound /\ ToldRows /\ sent \in [Subjects -> 0 .. Window]
      /\ WatchLock
  BY DEF JobsParts, RowsTyped, LockSound, WatchLock
<1>3. /\ ToldRows'
      /\ \A x \in Subjects : x.job # "watch" => last'[x] = last[x]
      /\ \A x \in Subjects : last[x].run # "open" => last'[x] = last[x]
      /\ \A x \in Subjects : x.job = "watch" /\ last[x].run = "open" => last'[x].run = "lost"
  BY <1>1, <1>2, Settled
<1>4. watch' \in WatchRecord
  BY <1>1 DEF WatchRecord, NoRun
<1>5. WatchSound'
  BY <1>1, <1>3, WatchRunLost
<1>6. AgesSound'
  BY <1>1, <1>2, <1>3, AgesKept
<1>7. WatchLock'
  BY <1>1, <1>2 DEF WatchLock
<1> QED BY <1>1, <1>2, <1>3, <1>4, <1>5, <1>6, <1>7, WatchJobKeeps

-----------------------------------------------------------------------------
(* The news job *)

NewsRecord ==
  [at : {"idle", "ticker", "item", "model", "send"}, left : SUBSET Tickers,
   ticker : Tickers \cup {"none"}, items : SUBSET Urls, url : Urls \cup {"none"},
   todo : SUBSET {w.user : w \in Watched}, seen : SUBSET ProcessedRows, done : SUBSET Subjects]

NewsLock == (writer = "news" => NewsPending) /\ writer # "price"

LEMMA NewsJobKeeps ==
  ASSUME JobsParts, UNCHANGED <<alert, price, watch>>, faults' \in 0 .. MaxFaults,
         news' \in NewsRecord, sent' \in [Subjects -> 0 .. Window], processed' \subseteq ProcessedRows,
         ToldRows', AskedRows', \A x \in Subjects : x.job # "news" => last'[x] = last[x],
         NewsLock', writer' = "watch" => writer = "watch", NewsSound', AgesSound', AskedSound'
  PROVE  JobsParts'
<1>1. RowsTyped' /\ RunsTyped' /\ LockSound'
  BY DEF JobsParts, RowsTyped, RunsTyped, LockSound, NewsRecord, NewsLock
<1>2. PriceSound' /\ WatchSound'
  <2>1. /\ \A a \in Alerts : last'[PriceSubject(a)] = last[PriceSubject(a)]
        /\ \A x \in Subjects : x.job = "watch" => last'[x] = last[x]
    BY SubjectsAre DEF SubjectShapes
  <2> QED BY <2>1, PriceKept, WatchKept DEF JobsParts
<1> QED BY <1>1, <1>2 DEF JobsParts

LEMMA NewsFacts ==
  ASSUME JobsParts
  PROVE  /\ NewsSound /\ AgesSound /\ AskedSound /\ ToldRows /\ AskedRows /\ NewsLock
         /\ sent \in [Subjects -> 0 .. Window] /\ processed \subseteq ProcessedRows
         /\ faults \in 0 .. MaxFaults /\ news \in NewsRecord
BY DEF JobsParts, RowsTyped, RunsTyped, LockSound, NewsLock, NewsRecord

\* A step that only moves the run on, without a word to anybody.
LEMMA NewsMoves ==
  ASSUME JobsParts, UNCHANGED <<alert, sent, processed, price, watch, last, asked, faults>>,
         news' \in NewsRecord, news'.done = news.done, news'.seen = news.seen,
         NewsLock', writer' = "watch" => writer = "watch", NewsSound'
  PROVE  JobsParts'
<1>1. AgesSound' /\ AskedSound' /\ ToldRows' /\ AskedRows'
  BY NewsFacts DEF AgesSound, AskedSound, ToldRows, AskedRows
<1> QED BY <1>1, NewsFacts, NewsJobKeeps

LEMMA NewsStartKeeps ==
  ASSUME JobsParts, NewsStart
  PROVE  JobsParts'
<1>1. /\ news.at = "idle"
      /\ news' = [at |-> "ticker", left |-> Tickers, ticker |-> "none", items |-> {},
                  url |-> "none", todo |-> {}, seen |-> {}, done |-> {}]
      /\ UNCHANGED <<alert, sent, processed, writer, price, watch, last, asked, faults>>
  BY DEF NewsStart, NoNews
<1>2. news' \in NewsRecord /\ NewsSound /\ NewsLock
  BY <1>1, NewsFacts DEF NewsRecord
<1>3. news = NoNews /\ news.done = {} /\ news.seen = {}
  BY <1>1, <1>2 DEF NewsSound, NoNews
<1>4. NewsSound'
  BY <1>1, <1>2, <1>3 DEF NewsSound
<1>5. NewsLock'
  BY <1>1, <1>2, <1>3 DEF NewsLock, NewsPending
<1> QED BY <1>1, <1>2, <1>3, <1>4, <1>5, NewsMoves

LEMMA FetchNewsKeeps ==
  ASSUME JobsParts, NEW t \in Tickers, FetchNews(t)
  PROVE  JobsParts'
<1>1. /\ news.at = "ticker" /\ t \in news.left
      /\ UNCHANGED <<alert, sent, processed, writer, price, watch, last, asked, faults>>
  BY DEF FetchNews
<1>2. PICK got \in Found :
        news' = [news EXCEPT !.left = @ \ {t}, !.ticker = t, !.items = got,
                             !.at = IF got = {} THEN "ticker" ELSE "item"]
  BY DEF FetchNews
<1>3. NewsSound /\ NewsLock /\ news \in NewsRecord
  BY NewsFacts
<1>4. /\ news' \in NewsRecord /\ news'.at \in {"ticker", "item"} /\ news'.ticker = t
      /\ news'.left = news.left \ {t} /\ news'.done = news.done /\ news'.seen = news.seen
  BY <1>2, <1>3 DEF NewsRecord, Found
<1>5. \A x \in news.done : x.job = "news" /\ x.ticker \notin news.left
  BY <1>3 DEF NewsSound
<1>6. NewsSound'
  <2>1. \A x \in news'.done : x.job = "news" /\ x.ticker \notin news'.left /\ x.ticker # news'.ticker
    BY <1>1, <1>4, <1>5
  <2>2. \A x \in Subjects : x.job = "news" /\ last'[x].run = "open" => x \in news'.done
    BY <1>1, <1>3, <1>4 DEF NewsSound
  <2> QED BY <1>4, <2>1, <2>2 DEF NewsSound
<1>7. NewsLock'
  BY <1>1, <1>3, <1>4 DEF NewsLock, NewsPending
<1> QED BY <1>1, <1>4, <1>6, <1>7, NewsMoves

\* What each subject a run has told requires of where it is.
Behind(x, n) ==
  /\ x.job = "news" /\ x.ticker \notin n.left
  /\ x.ticker = n.ticker =>
       /\ n.at \in {"item", "model", "send"} => x.url \notin n.items
       /\ x.url = n.url => /\ n.at # "model"
                           /\ n.at = "send" => x.user \notin n.todo

LEMMA NewsPast == NewsSound => \A x \in news.done : Behind(x, news)
BY DEF NewsSound, Behind

\* An item's verdict is in: the run goes to its watchers, or on.
LEMMA Proceeds ==
  ASSUME NEW n \in NewsRecord, NEW s, n.ticker \in Tickers \ n.left, n.url \in Urls \ n.items
  PROVE  LET m == Proceed(n, s) IN
         /\ m \in NewsRecord /\ m.at \in {"ticker", "item", "send"}
         /\ m.left = n.left /\ m.ticker = n.ticker /\ m.items = n.items /\ m.url = n.url
         /\ m.seen = n.seen /\ m.done = n.done /\ (m.at = "send" => m.todo = Watchers(m.ticker))
<1>1. Watchers(n.ticker) \subseteq {w.user : w \in Watched}
  BY DEF Watchers
<1>2. CASE Pushed(s)
  BY <1>1, <1>2 DEF Proceed, NewsRecord
<1>3. CASE ~Pushed(s)
  BY <1>3 DEF Proceed, NewsRecord
<1> QED BY <1>2, <1>3

\* Once an item's url is nobody's, the run may be anywhere but asking the model.
LEMMA NewsProceeds ==
  ASSUME NewsSound, NEW n \in NewsRecord, NEW s, news' = Proceed(n, s),
         n.ticker \in Tickers \ n.left, n.url \in Urls \ n.items, n.done = news.done,
         \A x \in n.done : /\ x.job = "news" /\ x.ticker \notin n.left
                           /\ x.ticker = n.ticker => x.url \notin n.items /\ x.url # n.url,
         \A x \in Subjects : x.job = "news" /\ last'[x].run = "open" => x \in n.done
  PROVE  NewsSound' /\ news' \in NewsRecord /\ news'.seen = n.seen /\ news'.done = n.done
<1>1. /\ news' \in NewsRecord /\ news'.at \in {"ticker", "item", "send"}
      /\ news'.left = n.left /\ news'.ticker = n.ticker /\ news'.items = n.items
      /\ news'.url = n.url /\ news'.seen = n.seen /\ news'.done = n.done
      /\ news'.at = "send" => news'.todo = Watchers(news'.ticker)
  BY Proceeds
<1>2. NewsSound'
  BY <1>1 DEF NewsSound
<1> QED BY <1>1, <1>2

LEMMA TakeItemKeeps ==
  ASSUME JobsParts, NEW url \in Urls, TakeItem(url)
  PROVE  JobsParts'
<1> DEFINE n == [news EXCEPT !.items = @ \ {url}, !.url = url]
<1>1. /\ news.at = "item" /\ url \in news.items
      /\ UNCHANGED <<alert, sent, processed, price, watch, last, asked, faults>>
      /\ (NewsPending /\ writer' = "news") \/ writer' = writer
      /\ \/ Known(url) = {} /\ news' = [n EXCEPT !.at = "model"]
         \/ \E p \in Known(url) : news' = Proceed(n, p.sentiment)
  BY DEF TakeItem, Flush
<1>2. NewsSound /\ NewsLock /\ news \in NewsRecord
  BY NewsFacts
<1>3. /\ n \in NewsRecord /\ n.at = "item" /\ n.left = news.left /\ n.ticker = news.ticker
      /\ n.items = news.items \ {url} /\ n.url = url /\ n.seen = news.seen /\ n.done = news.done
  BY <1>1, <1>2 DEF NewsRecord
<1>4. n.ticker \in Tickers \ n.left /\ n.url \in Urls \ n.items
  BY <1>1, <1>2, <1>3 DEF NewsSound
<1>5. \A x \in n.done : /\ x.job = "news" /\ x.ticker \notin n.left
                        /\ x.ticker = n.ticker => x.url \notin n.items /\ x.url # n.url
  BY <1>1, <1>2, <1>3, NewsPast DEF Behind
<1>6. \A x \in Subjects : x.job = "news" /\ last'[x].run = "open" => x \in n.done
  BY <1>1, <1>2, <1>3 DEF NewsSound
<1> HIDE DEF n
<1>7. NewsSound' /\ news' \in NewsRecord /\ news'.seen = news.seen /\ news'.done = news.done
  <2>1. CASE Known(url) = {} /\ news' = [n EXCEPT !.at = "model"]
    <3>1. /\ news' \in NewsRecord /\ news'.at = "model" /\ news'.left = n.left
          /\ news'.ticker = n.ticker /\ news'.items = n.items /\ news'.url = n.url
          /\ news'.seen = news.seen /\ news'.done = n.done
      BY <1>3, <2>1 DEF NewsRecord
    <3>2. Known(news.url)' = {}
      <4>1. Known(news.url)' = {p \in processed' \cup news'.seen : p.url = news'.url}
        BY DEF Known
      <4>2. Known(url) = {p \in processed \cup news.seen : p.url = url}
        BY DEF Known
      <4> QED BY <1>1, <1>3, <2>1, <3>1, <4>1, <4>2
    <3>3. NewsSound'
      BY <1>4, <1>5, <1>6, <3>1, <3>2 DEF NewsSound
    <3> QED BY <1>3, <3>1, <3>3
  <2>2. CASE \E p \in Known(url) : news' = Proceed(n, p.sentiment)
    <3>1. PICK p \in Known(url) : news' = Proceed(n, p.sentiment)
      BY <2>2
    <3> QED BY <1>2, <1>3, <1>4, <1>5, <1>6, <3>1, NewsProceeds
  <2> QED BY <1>1, <2>1, <2>2 DEF n
<1>8. NewsLock' /\ (writer' = "watch" => writer = "watch")
  BY <1>1, <1>2, <1>7 DEF NewsLock, NewsPending
<1> QED BY <1>1, <1>7, <1>8, NewsMoves

LEMMA ClassifyKeeps ==
  ASSUME JobsParts, NEW s \in Sentiments, Classify(s)
  PROVE  JobsParts'
<1> DEFINE r == [url |-> news.url, sentiment |-> s]
           n == [news EXCEPT !.seen = @ \cup {r}]
<1>1. /\ news.at = "model" /\ news' = Proceed(n, s) /\ writer' = "news"
      /\ asked' = [asked EXCEPT ![news.url] = "open"]
      /\ UNCHANGED <<alert, sent, processed, price, watch, last, faults>>
  BY DEF Classify
<1>2. NewsSound /\ NewsLock /\ news \in NewsRecord /\ AskedRows /\ AskedSound
  BY NewsFacts
<1>3. news.url \in Urls \ news.items /\ news.ticker \in Tickers \ news.left
  BY <1>1, <1>2 DEF NewsSound
<1>4. r \in ProcessedRows
  BY <1>3 DEF ProcessedRows
<1>5. /\ n \in NewsRecord /\ n.left = news.left /\ n.ticker = news.ticker /\ n.items = news.items
      /\ n.url = news.url /\ n.seen = news.seen \cup {r} /\ n.done = news.done
  BY <1>2, <1>4 DEF NewsRecord
<1>6. \A x \in n.done : /\ x.job = "news" /\ x.ticker \notin n.left
                        /\ x.ticker = n.ticker => x.url \notin n.items /\ x.url # n.url
  BY <1>1, <1>2, <1>5, NewsPast DEF Behind
<1>7. \A x \in Subjects : x.job = "news" /\ last'[x].run = "open" => x \in n.done
  BY <1>1, <1>2, <1>5 DEF NewsSound
<1>10. r.url = news.url
  OBVIOUS
<1> HIDE DEF n, r
<1>8. NewsSound' /\ news' \in NewsRecord /\ news'.seen = n.seen /\ news'.done = n.done
  BY <1>1, <1>2, <1>3, <1>5, <1>6, <1>7, NewsProceeds
<1>9. NewsLock'
  BY <1>1, <1>5, <1>8 DEF NewsLock, NewsPending
<1>11. AskedRows' /\ \A url \in Urls : asked'[url] = IF url = news.url THEN "open" ELSE asked[url]
  BY <1>1, <1>2, <1>3 DEF AskedRows, Fates
<1>12. AskedSound'
  <2>1. r \in news'.seen /\ news.seen \subseteq news'.seen
    BY <1>5, <1>8
  <2>2. ASSUME NEW url \in Urls
        PROVE  /\ asked'[url] = "open" => \E p \in news'.seen : p.url = url
               /\ asked'[url] = "committed" => \E p \in processed' : p.url = url
    <3>1. CASE url = news.url
      BY <1>10, <1>11, <2>1, <3>1
    <3>2. CASE url # news.url
      BY <1>1, <1>2, <1>11, <2>1, <3>2 DEF AskedSound
    <3> QED BY <3>1, <3>2
  <2> QED BY <2>2 DEF AskedSound
<1>13. AgesSound' /\ ToldRows'
  BY <1>1, NewsFacts DEF AgesSound, ToldRows
<1> QED BY <1>1, <1>8, <1>9, <1>11, <1>12, <1>13, NewsFacts, NewsJobKeeps

LEMMA NewsSendKeeps ==
  ASSUME JobsParts, NEW u, NEW arrives \in BOOLEAN, NewsSend(u, arrives)
  PROVE  JobsParts'
<1> DEFINE x == NewsSubject(u, news.ticker, news.url)
           n == [news EXCEPT !.todo = @ \ {u}]
<1>1. /\ news.at = "send" /\ u \in news.todo
      /\ UNCHANGED <<alert, sent, processed, price, watch, asked, faults>>
      /\ (NewsPending /\ writer' = "news") \/ writer' = writer
      /\ \/ news' = n /\ last' = last
         \/ news' = [n EXCEPT !.done = @ \cup {x}] /\ Message(x, arrives)
  BY DEF NewsSend, Flush
<1>2. NewsSound /\ NewsLock /\ news \in NewsRecord /\ ToldRows /\ AgesSound
  BY NewsFacts
<1>3. /\ news.url \in Urls \ news.items /\ news.ticker \in Tickers \ news.left
      /\ u \in Watchers(news.ticker)
  BY <1>1, <1>2 DEF NewsSound
<1>4. /\ x \in Subjects /\ x.job = "news" /\ x.ticker = news.ticker /\ x.url = news.url
      /\ x.user = u
  BY <1>3, NewsSubjectIs
<1>5. /\ n \in NewsRecord /\ n.at = "send" /\ n.left = news.left /\ n.ticker = news.ticker
      /\ n.items = news.items /\ n.url = news.url /\ n.todo = news.todo \ {u}
      /\ n.seen = news.seen /\ n.done = news.done
  BY <1>1, <1>2 DEF NewsRecord
<1> HIDE DEF n, x
<1>6. /\ news' \in NewsRecord /\ news'.at = "send" /\ news'.left = news.left
      /\ news'.ticker = news.ticker /\ news'.items = news.items /\ news'.url = news.url
      /\ news'.todo = news.todo \ {u} /\ news'.seen = news.seen
      /\ news.done \subseteq news'.done /\ news'.done \subseteq news.done \cup {x}
      /\ last' # last => x \in news'.done
  <2>1. CASE news' = n /\ last' = last
    BY <1>5, <2>1
  <2>2. CASE news' = [n EXCEPT !.done = @ \cup {x}]
    BY <1>4, <1>5, <2>2 DEF NewsRecord
  <2> QED BY <1>1, <2>1, <2>2 DEF n, x
<1>7. /\ ToldRows' /\ \A y \in Subjects : y # x => last'[y] = last[y]
      /\ last'[x] = last[x] \/ last'[x].run = "open"
  <2>1. CASE last' = [last EXCEPT ![x] = [age |-> 0, run |-> "open"]]
    BY <1>2, <1>4, <2>1, Told, JobsSettings
  <2>2. CASE last' = last
    BY <1>2, <2>2 DEF ToldRows
  <2>3. last' = [last EXCEPT ![x] = [age |-> 0, run |-> "open"]] \/ last' = last
    BY <1>1 DEF Message, x
  <2> QED BY <2>1, <2>2, <2>3
<1>8. NewsSound'
  <2>1. ASSUME NEW y \in news'.done PROVE Behind(y, news)'
    <3>1. CASE y = x
      BY <1>3, <1>4, <1>6, <3>1 DEF Behind
    <3>2. CASE y # x
      <4>1. Behind(y, news)
        BY <1>2, <1>6, <2>1, <3>2, NewsPast
      <4> QED BY <1>1, <1>6, <4>1 DEF Behind
    <3> QED BY <3>1, <3>2
  <2>2. \A y \in Subjects : y.job = "news" /\ last'[y].run = "open" => y \in news'.done
    <3>1. \A y \in Subjects : y.job = "news" /\ last[y].run = "open" => y \in news.done
      BY <1>2 DEF NewsSound
    <3>2. \A y \in Subjects : last'[y] = last[y] \/ y \in news'.done
      BY <1>6, <1>7
    <3> QED BY <1>6, <3>1, <3>2
  <2>3. news'.todo \subseteq Watchers(news'.ticker)
    BY <1>1, <1>2, <1>6 DEF NewsSound
  <2> QED BY <1>3, <1>6, <2>1, <2>2, <2>3 DEF NewsSound, Behind
<1>9. NewsLock' /\ (writer' = "watch" => writer = "watch")
  BY <1>1, <1>2, <1>6 DEF NewsLock, NewsPending
<1>10. AgesSound'
  <2>1. \A y \in Subjects : last'[y].run = "committed" => last'[y] = last[y]
    BY <1>7
  <2> QED BY <1>1, <1>2, <2>1, AgesKept
<1>11. AskedSound' /\ AskedRows'
  BY <1>1, <1>6, NewsFacts DEF AskedSound, AskedRows
<1>12. \A y \in Subjects : y.job # "news" => last'[y] = last[y]
  BY <1>4, <1>7
<1> QED BY <1>1, <1>6, <1>7, <1>8, <1>9, <1>10, <1>11, <1>12, NewsFacts, NewsJobKeeps

LEMMA ItemDoneKeeps ==
  ASSUME JobsParts, ItemDone
  PROVE  JobsParts'
<1>1. /\ news.at = "send" /\ news.todo = {}
      /\ news' = [news EXCEPT !.at = IF news.items = {} THEN "ticker" ELSE "item"]
      /\ UNCHANGED <<alert, sent, processed, writer, price, watch, last, asked, faults>>
  BY DEF ItemDone
<1>2. NewsSound /\ NewsLock /\ news \in NewsRecord
  BY NewsFacts
<1>3. /\ news' \in NewsRecord /\ news'.at \in {"ticker", "item"} /\ news'.left = news.left
      /\ news'.ticker = news.ticker /\ news'.items = news.items /\ news'.url = news.url
      /\ news'.todo = news.todo /\ news'.seen = news.seen /\ news'.done = news.done
  BY <1>1, <1>2 DEF NewsRecord
<1>4. NewsSound'
  <2>1. \A x \in news'.done : Behind(x, news)'
    BY <1>1, <1>2, <1>3, NewsPast DEF Behind
  <2>2. \A x \in Subjects : x.job = "news" /\ last'[x].run = "open" => x \in news'.done
    BY <1>1, <1>2, <1>3 DEF NewsSound
  <2>3. news'.ticker \in Tickers \ news'.left
    BY <1>1, <1>2, <1>3 DEF NewsSound
  <2> QED BY <1>3, <2>1, <2>2, <2>3 DEF NewsSound, Behind
<1>5. NewsLock'
  BY <1>1, <1>2, <1>3 DEF NewsLock, NewsPending
<1> QED BY <1>1, <1>3, <1>4, <1>5, NewsMoves

\* The run is over, and nothing it told is open any more.
LEMMA NewsRunOver ==
  ASSUME news' = NoNews, \A x \in Subjects : x.job = "news" => last'[x].run # "open"
  PROVE  NewsSound' /\ news' \in NewsRecord
<1>1. /\ news'.at = "idle" /\ news'.done = {} /\ news' \in NewsRecord
  BY DEF NoNews, NewsRecord
<1> QED BY <1>1 DEF NewsSound

LEMMA NewsCommitKeeps ==
  ASSUME JobsParts, NewsCommit
  PROVE  JobsParts'
<1>1. /\ processed' = processed \cup news.seen /\ sent' = Stamp(news.done)
      /\ last' = Settle("news", "committed") /\ asked' = SettleUrls("committed")
      /\ news' = NoNews /\ writer' = (IF writer = "news" THEN "none" ELSE writer)
      /\ UNCHANGED <<alert, price, watch, faults>>
  BY DEF NewsCommit, Release
<1>2. /\ NewsSound /\ NewsLock /\ news \in NewsRecord /\ ToldRows /\ AgesSound /\ AskedRows
      /\ AskedSound /\ sent \in [Subjects -> 0 .. Window] /\ processed \subseteq ProcessedRows
  BY NewsFacts
<1>3. /\ ToldRows'
      /\ \A x \in Subjects : x.job # "news" => last'[x] = last[x]
      /\ \A x \in Subjects : last[x].run # "open" => last'[x] = last[x]
      /\ \A x \in Subjects : x.job = "news" /\ last[x].run = "open" => last'[x].run = "committed"
  BY <1>1, <1>2, Settled
<1>4. NewsSound' /\ news' \in NewsRecord
  BY <1>1, <1>3, NewsRunOver
<1>5. AgesSound' /\ sent' \in [Subjects -> 0 .. Window]
  <2>1. \A x \in Subjects : x.job = "news" /\ last[x].run = "open" => x \in news.done
    BY <1>2 DEF NewsSound
  <2> QED BY <1>1, <1>2, <1>3, <2>1, AgesCommitted
<1>6. /\ AskedRows'
      /\ \A url \in Urls : asked'[url] = IF asked[url] = "open" THEN "committed" ELSE asked[url]
  BY <1>1, <1>2, UrlsSettled
<1>7. AskedSound'
  BY <1>1, <1>2, <1>6 DEF AskedSound
<1>8. NewsLock' /\ (writer' = "watch" => writer = "watch")
  BY <1>1, <1>2 DEF NewsLock, NewsPending
<1>9. processed' \subseteq ProcessedRows
  BY <1>1, <1>2 DEF NewsRecord
<1> QED BY <1>1, <1>3, <1>4, <1>5, <1>6, <1>7, <1>8, <1>9, NewsFacts, NewsJobKeeps

LEMMA NewsAbortsKeeps ==
  ASSUME JobsParts, NewsAborts, UNCHANGED <<alert, sent, processed, price, watch>>,
         faults' \in 0 .. MaxFaults
  PROVE  JobsParts'
<1>1. /\ last' = Settle("news", "lost") /\ asked' = SettleUrls("lost")
      /\ news' = NoNews /\ writer' = (IF writer = "news" THEN "none" ELSE writer)
  BY DEF NewsAborts, Release
<1>2. /\ NewsSound /\ NewsLock /\ ToldRows /\ AgesSound /\ AskedRows /\ AskedSound
      /\ sent \in [Subjects -> 0 .. Window] /\ processed \subseteq ProcessedRows
  BY NewsFacts
<1>3. /\ ToldRows'
      /\ \A x \in Subjects : x.job # "news" => last'[x] = last[x]
      /\ \A x \in Subjects : last[x].run # "open" => last'[x] = last[x]
      /\ \A x \in Subjects : x.job = "news" /\ last[x].run = "open" => last'[x].run = "lost"
  BY <1>1, <1>2, Settled
<1>4. NewsSound' /\ news' \in NewsRecord
  BY <1>1, <1>3, NewsRunOver
<1>5. AgesSound'
  BY <1>2, <1>3, AgesKept
<1>6. /\ AskedRows'
      /\ \A url \in Urls : asked'[url] = IF asked[url] = "open" THEN "lost" ELSE asked[url]
  BY <1>1, <1>2, UrlsSettled
<1>7. AskedSound'
  BY <1>2, <1>6 DEF AskedSound
<1>8. NewsLock' /\ (writer' = "watch" => writer = "watch")
  BY <1>1, <1>2 DEF NewsLock, NewsPending
<1> QED BY <1>2, <1>3, <1>4, <1>5, <1>6, <1>7, <1>8, NewsJobKeeps

LEMMA NewsEndsBadly ==
  ASSUME JobsParts, NewsFails \/ ModelRaises
  PROVE  JobsParts'
<1>1. NewsAborts /\ UNCHANGED <<alert, sent, processed, price, watch>>
  BY DEF NewsFails, ModelRaises
<1>2. faults' \in 0 .. MaxFaults
  <2>1. faults \in 0 .. MaxFaults
    BY NewsFacts
  <2>2. faults' = faults \/ (faults < MaxFaults /\ faults' = faults + 1)
    BY DEF NewsFails, ModelRaises
  <2> QED BY <2>1, <2>2, JobsSettings
<1> QED BY <1>1, <1>2, NewsAbortsKeeps

-----------------------------------------------------------------------------
(* All of them *)

LEMMA JobsStart ==
  ASSUME JobsInit
  PROVE  JobsParts
<1>1. /\ last = [x \in Subjects |-> [age |-> Window, run |-> "none"]]
      /\ \A x \in Subjects : last[x].run = "none"
      /\ alert = [a \in Alerts |-> "unborn"] /\ asked = [url \in Urls |-> "none"]
      /\ price = NoRun /\ watch = NoRun /\ news = NoNews /\ processed = {} /\ writer = "none"
      /\ sent = [x \in Subjects |-> Window] /\ faults = 0
  BY DEF JobsInit
<1>2. RowsTyped /\ ToldRows /\ AskedRows /\ LockSound
  BY <1>1, JobsSettings DEF RowsTyped, ToldRows, AskedRows, LockSound, AlertStates, Fates
<1>3. RunsTyped
  BY <1>1 DEF RunsTyped, NoRun, NoNews
<1>4. PriceSound
  <2>1. \A a \in Alerts : last[PriceSubject(a)].run = "none" /\ alert[a] = "unborn"
    BY <1>1, SubjectsAre DEF SubjectShapes
  <2> QED BY <1>1, <2>1 DEF PriceSound, NoRun
<1>5. WatchSound /\ NewsSound
  BY <1>1 DEF WatchSound, NewsSound, NoRun, NoNews
<1>6. AgesSound /\ AskedSound
  BY <1>1 DEF AgesSound, AskedSound
<1> QED BY <1>2, <1>3, <1>4, <1>5, <1>6 DEF JobsParts

LEMMA RestartKeeps ==
  ASSUME JobsParts, Restart
  PROVE  JobsParts'
<1>1. /\ faults < MaxFaults /\ faults' = faults + 1
      /\ price' = NoRun /\ watch' = NoRun /\ news' = NoNews /\ writer' = "none"
      /\ last' = [x \in Subjects |-> IF last[x].run = "open" THEN [last[x] EXCEPT !.run = "lost"]
                                     ELSE last[x]]
      /\ asked' = SettleUrls("lost") /\ UNCHANGED <<alert, sent, processed>>
  BY DEF Restart
<1>2. /\ PriceSound /\ ToldRows /\ AgesSound /\ AskedRows /\ AskedSound /\ RowsTyped
  BY DEF JobsParts
<1>3. /\ ToldRows'
      /\ \A x \in Subjects : last[x].run # "open" => last'[x] = last[x]
      /\ \A x \in Subjects : last[x].run = "open" => last'[x].run = "lost"
  <2>1. \A x \in Subjects : last[x] \in [age : 0 .. Window, run : Fates]
    BY <1>2 DEF ToldRows
  <2>2. \A x \in Subjects : [last[x] EXCEPT !.run = "lost"] = [age |-> last[x].age, run |-> "lost"]
    BY <2>1
  <2> QED BY <1>1, <2>1, <2>2 DEF ToldRows, Fates
<1>4. /\ AskedRows'
      /\ \A url \in Urls : asked'[url] = IF asked[url] = "open" THEN "lost" ELSE asked[url]
  BY <1>1, <1>2, UrlsSettled
<1>5. RowsTyped' /\ RunsTyped' /\ LockSound'
  <2>1. faults' \in 0 .. MaxFaults
    BY <1>1, <1>2, JobsSettings DEF RowsTyped
  <2> QED BY <1>1, <1>2, <2>1 DEF RowsTyped, RunsTyped, LockSound, NoRun, NoNews
<1>6. PriceSound'
  BY <1>1, <1>2, <1>3, SubjectsAre, PriceRunLost DEF SubjectShapes
<1>7. \A x \in Subjects : last'[x].run # "open"
  BY <1>3
<1>8. WatchSound' /\ NewsSound'
  BY <1>1, <1>7, WatchRunLost, NewsRunOver
<1>9. AgesSound'
  BY <1>1, <1>2, <1>3, AgesKept
<1>10. AskedSound'
  BY <1>1, <1>2, <1>4 DEF AskedSound
<1> QED BY <1>3, <1>4, <1>5, <1>6, <1>8, <1>9, <1>10 DEF JobsParts

LEMMA TimePassesKeeps ==
  ASSUME JobsParts, TimePasses
  PROVE  /\ JobsParts'
         /\ \A x \in Subjects : last'[x].run = last[x].run /\ last'[x].age # 0
<1>1. /\ sent' = [x \in Subjects |-> Aged(sent[x])]
      /\ last' = [x \in Subjects |-> [last[x] EXCEPT !.age = Aged(@)]]
      /\ UNCHANGED <<alert, processed, writer, price, watch, news, asked, faults>>
  BY DEF TimePasses
<1>2. /\ RowsTyped /\ RunsTyped /\ ToldRows /\ AskedRows /\ LockSound
      /\ PriceSound /\ WatchSound /\ NewsSound /\ AgesSound /\ AskedSound
  BY DEF JobsParts
<1>3. \A m \in 0 .. Window : Aged(m) \in 0 .. Window /\ Aged(m) # 0
  BY JobsSettings DEF Aged
<1>4. \A x \in Subjects : /\ last[x] \in [age : 0 .. Window, run : Fates]
                         /\ last[x].age \in 0 .. Window /\ sent[x] \in 0 .. Window
  BY <1>2 DEF ToldRows, RowsTyped
<1>5. \A x \in Subjects : [last[x] EXCEPT !.age = Aged(@)] = [age |-> Aged(last[x].age),
                                                              run |-> last[x].run]
  BY <1>4
<1>6. \A x \in Subjects : /\ last'[x].run = last[x].run /\ last'[x].age = Aged(last[x].age)
                         /\ sent'[x] = Aged(sent[x])
  BY <1>1, <1>5
<1>7. ToldRows' /\ RowsTyped'
  <2>1. \A x \in Subjects : [last[x] EXCEPT !.age = Aged(@)] \in [age : 0 .. Window, run : Fates]
    BY <1>3, <1>4, <1>5
  <2>2. \A x \in Subjects : Aged(sent[x]) \in 0 .. Window
    BY <1>3, <1>4
  <2> QED BY <1>1, <1>2, <2>1, <2>2 DEF ToldRows, RowsTyped
<1>8. RunsTyped' /\ AskedRows' /\ LockSound'
  BY <1>1, <1>2 DEF RunsTyped, AskedRows, LockSound, NewsPending
<1>9. PriceSound'
  <2>1. \A a \in Alerts : last'[PriceSubject(a)].run = last[PriceSubject(a)].run
    BY <1>6, SubjectsAre DEF SubjectShapes
  <2> QED BY <1>1, <1>2, <2>1 DEF PriceSound
<1>10. WatchSound'
  BY <1>1, <1>2, <1>6 DEF WatchSound
<1>11. NewsSound'
  BY <1>1, <1>2, <1>6 DEF NewsSound, Known
<1>12. AgesSound'
  <2>1. \A m, k \in 0 .. Window : m <= k => Aged(m) <= Aged(k)
    BY JobsSettings DEF Aged
  <2> QED BY <1>2, <1>4, <1>6, <2>1 DEF AgesSound
<1>13. AskedSound'
  BY <1>1, <1>2 DEF AskedSound
<1>14. \A x \in Subjects : last'[x].run = last[x].run /\ last'[x].age # 0
  BY <1>3, <1>4, <1>6
<1> QED BY <1>7, <1>8, <1>9, <1>10, <1>11, <1>12, <1>13, <1>14 DEF JobsParts

LEMMA JobsStutterKeeps ==
  ASSUME JobsParts, UNCHANGED jobVars
  PROVE  JobsParts'
<1>1. UNCHANGED <<alert, sent, processed, writer, price, watch, news, last, asked, faults>>
  BY DEF jobVars
<1>2. /\ RowsTyped /\ RunsTyped /\ ToldRows /\ AskedRows /\ LockSound
      /\ PriceSound /\ WatchSound /\ NewsSound /\ AgesSound /\ AskedSound
  BY DEF JobsParts
<1>3. RowsTyped' /\ RunsTyped' /\ ToldRows' /\ AskedRows' /\ LockSound'
  BY <1>1, <1>2 DEF RowsTyped, RunsTyped, ToldRows, AskedRows, LockSound, NewsPending
<1>4. PriceSound' /\ WatchSound' /\ NewsSound' /\ AgesSound' /\ AskedSound'
  BY <1>1, <1>2, PriceKept, WatchKept, NewsKept, AgesKept, AskedKept
<1> QED BY <1>3, <1>4 DEF JobsParts

LEMMA JobsStepKeeps ==
  ASSUME JobsParts, [JobsNext]_jobVars
  PROVE  JobsParts'
<1>1. ASSUME PriceStep PROVE JobsParts'
  BY <1>1, PriceStartKeeps, PriceCommitKeeps, PriceCommitFailsKeeps, FetchPricesKeeps, FireKeeps
     DEF PriceStep
<1>2. ASSUME WatchStep PROVE JobsParts'
  BY <1>2, WatchStartKeeps, FetchSnapshotsKeeps, WatchCommitKeeps, WatchFailsKeeps, WatchSendKeeps
     DEF WatchStep
<1>3. ASSUME NewsStep PROVE JobsParts'
  BY <1>3, NewsStartKeeps, ItemDoneKeeps, NewsCommitKeeps, NewsEndsBadly, FetchNewsKeeps,
     TakeItemKeeps, ClassifyKeeps, NewsSendKeeps
     DEF NewsStep
<1> QED BY <1>1, <1>2, <1>3, AlertHandlersKeep, RestartKeeps, TimePassesKeeps, JobsStutterKeeps
        DEF JobsNext

\* The three jobs that message users keep the invariant, whatever fails, is
\* locked out or restarted in the middle of a run.
THEOREM JobsInductive == JobsSpec => []JobsInv
<1>1. JobsInit => JobsParts
  BY JobsStart
<1>2. JobsParts /\ [JobsNext]_jobVars => JobsParts'
  BY JobsStepKeeps
<1>3. JobsParts => JobsInv
  BY JobsInvParts
<1> QED BY <1>1, <1>2, <1>3, PTL DEF JobsSpec

\* A price alert that is off was delivered (telegram/jobs/price_alerts.py:107).
THEOREM AlertsEndDelivered == JobsSpec => []AlertEndsDelivered
<1>1. JobsInv => AlertEndsDelivered
  <2> SUFFICES ASSUME JobsInv PROVE AlertEndsDelivered
    OBVIOUS
  <2>1. RowsTyped /\ RunsTyped /\ LockSound /\ PriceSound
    BY DEF JobsInv
  <2>2. JobsTypeOK
    BY <2>1 DEF RowsTyped, RunsTyped, LockSound, JobsTypeOK
  <2>3. \A a \in Alerts : alert[a] = "fired" => last[PriceSubject(a)].run = "committed"
    BY <2>1 DEF PriceSound
  <2> QED BY <2>2, <2>3 DEF AlertEndsDelivered
<1> QED BY <1>1, JobsInductive, PTL

\* What a repeat would need.
Repeats(x) ==
  Arrives(x) /\ ~(last[x].run \in {"none", "lost"} \/ (x.job # "price" /\ last[x].age >= Window))

AsksAgain(url) ==
  asked'[url] = "open" /\ asked[url] # "open" /\ asked[url] \notin {"none", "lost"}

LEMMA SettlingTellsNobody ==
  ASSUME ToldRows, NEW job, NEW outcome \in {"committed", "lost"}, last' = Settle(job, outcome),
         NEW x \in Subjects
  PROVE  ~Arrives(x)
<1>1. last'[x] = last[x] \/ last'[x].run = outcome
  BY Settled
<1> QED BY <1>1 DEF Arrives

LEMMA FireTellsAnew ==
  ASSUME JobsParts, NEW a \in Alerts, NEW arrives \in BOOLEAN, Fire(a, arrives), NEW x \in Subjects
  PROVE  ~Repeats(x)
<1>1. SUFFICES ASSUME Arrives(x) PROVE last[x].run \in {"none", "lost"}
  BY DEF Repeats
<1>2. a \in price.todo /\ PriceSound /\ ToldRows
  BY DEF Fire, JobsParts
<1>3. last' = [last EXCEPT ![PriceSubject(a)] = [age |-> 0, run |-> "open"]] \/ last' = last
  BY DEF Fire, Message
<1>4. x = PriceSubject(a)
  BY <1>1, <1>2, <1>3 DEF Arrives, ToldRows
<1>5. a \notin price.done /\ last[PriceSubject(a)].run \in {"none", "open", "lost"}
  BY <1>2 DEF PriceSound
<1> QED BY <1>2, <1>4, <1>5 DEF PriceSound

\* Of the watchlist and the news: not sent within the window, not in this run.
LEMMA SendTellsAnew ==
  ASSUME ToldRows, AgesSound, sent \in [Subjects -> 0 .. Window], NEW x \in Subjects,
         x.job # "price", ~WasRecentlySent(x), last[x].run # "open"
  PROVE  last[x].run \in {"none", "lost"} \/ last[x].age >= Window
<1>1. /\ sent[x] >= Window /\ sent[x] \in Nat /\ last[x].age \in Nat /\ last[x].run \in Fates
      /\ Window \in Nat
  BY JobsSettings DEF WasRecentlySent, ToldRows
<1>2. CASE last[x].run = "committed"
  BY <1>1, <1>2 DEF AgesSound
<1> QED BY <1>1, <1>2 DEF Fates

LEMMA WatchTellsAnew ==
  ASSUME JobsParts, NEW y \in Subjects, NEW arrives \in BOOLEAN, WatchSend(y, arrives),
         NEW x \in Subjects
  PROVE  ~Repeats(x)
<1>1. SUFFICES ASSUME Arrives(x)
               PROVE  last[x].run \in {"none", "lost"} \/ (x.job # "price" /\ last[x].age >= Window)
  BY DEF Repeats
<1>2. /\ WatchSound /\ ToldRows /\ AgesSound /\ sent \in [Subjects -> 0 .. Window]
      /\ y \in watch.todo
  BY DEF WatchSend, JobsParts, RowsTyped
<1>3. \/ last' = last
      \/ ~WasRecentlySent(y) /\ last' = [last EXCEPT ![y] = [age |-> 0, run |-> "open"]]
  BY DEF WatchSend, Message
<1>4. x = y /\ ~WasRecentlySent(x)
  BY <1>1, <1>2, <1>3 DEF Arrives, ToldRows
<1>5. x.job = "watch" /\ last[x].run # "open"
  BY <1>2, <1>4 DEF WatchSound
<1> QED BY <1>2, <1>4, <1>5, SendTellsAnew

LEMMA NewsTellsAnew ==
  ASSUME JobsParts, NEW u, NEW arrives \in BOOLEAN, NewsSend(u, arrives), NEW x \in Subjects
  PROVE  ~Repeats(x)
<1> DEFINE y == NewsSubject(u, news.ticker, news.url)
<1>1. SUFFICES ASSUME Arrives(x)
               PROVE  last[x].run \in {"none", "lost"} \/ (x.job # "price" /\ last[x].age >= Window)
  BY DEF Repeats
<1>2. /\ NewsSound /\ ToldRows /\ AgesSound /\ sent \in [Subjects -> 0 .. Window]
  BY DEF JobsParts, RowsTyped
<1>3. /\ news.at = "send" /\ u \in news.todo
      /\ \/ last' = last
         \/ ~WasRecentlySent(y) /\ last' = [last EXCEPT ![y] = [age |-> 0, run |-> "open"]]
  BY DEF NewsSend, Message
<1>4. news.url \in Urls /\ u \in Watchers(news.ticker)
  BY <1>2, <1>3 DEF NewsSound
<1>5. y.job = "news" /\ y.ticker = news.ticker /\ y.url = news.url /\ y.user = u
  BY <1>4, NewsSubjectIs
<1>6. x = y /\ ~WasRecentlySent(x)
  BY <1>1, <1>2, <1>3 DEF Arrives, ToldRows
<1> HIDE DEF y
<1>7. last[x].run # "open"
  <2>1. SUFFICES ASSUME last[x].run = "open" PROVE FALSE
    OBVIOUS
  <2>2. x \in news.done
    BY <1>2, <1>5, <1>6, <2>1 DEF NewsSound
  <2> QED BY <1>2, <1>3, <1>5, <1>6, <2>2, NewsPast DEF Behind
<1> QED BY <1>2, <1>5, <1>6, <1>7, SendTellsAnew

LEMMA ClassifyAsksAnew ==
  ASSUME JobsParts, NEW s \in Sentiments, Classify(s), NEW url \in Urls
  PROVE  ~AsksAgain(url)
<1>1. SUFFICES ASSUME asked'[url] = "open", asked[url] # "open"
               PROVE  asked[url] \in {"none", "lost"}
  BY DEF AsksAgain
<1>2. NewsSound /\ AskedSound /\ AskedRows /\ news.at = "model"
  BY DEF Classify, JobsParts
<1>3. url = news.url
  BY <1>1, <1>2 DEF Classify, AskedRows
<1>4. asked[url] # "committed"
  <2>1. Known(url) = {}
    BY <1>2, <1>3 DEF NewsSound
  <2> QED BY <1>2, <2>1 DEF AskedSound, Known
<1> QED BY <1>1, <1>2, <1>4 DEF AskedRows, Fates

LEMMA JobsStepTellsAnew ==
  ASSUME JobsParts, [JobsNext]_jobVars
  PROVE  /\ \A x \in Subjects : ~Repeats(x)
         /\ \A url \in Urls : ~AsksAgain(url)
<1> DEFINE Silent == /\ \A x \in Subjects : ~Repeats(x)
                    /\ \A url \in Urls : ~AsksAgain(url)
<1>0. ToldRows /\ AskedRows
  BY DEF JobsParts
<1>1. ASSUME last' = last PROVE \A x \in Subjects : ~Repeats(x)
  BY <1>1 DEF Repeats, Arrives
<1>2. ASSUME NEW job, NEW outcome \in {"committed", "lost"}, last' = Settle(job, outcome)
      PROVE  \A x \in Subjects : ~Repeats(x)
  BY <1>0, <1>2, SettlingTellsNobody DEF Repeats
<1>3. ASSUME asked' = asked PROVE \A url \in Urls : ~AsksAgain(url)
  BY <1>3 DEF AsksAgain
<1>4. ASSUME NEW outcome \in {"committed", "lost"}, asked' = SettleUrls(outcome)
      PROVE  \A url \in Urls : ~AsksAgain(url)
  BY <1>0, <1>4, UrlsSettled DEF AsksAgain
<1>5. ASSUME PriceStep PROVE Silent
  <2>1. \A url \in Urls : ~AsksAgain(url)
    BY <1>3, <1>5 DEF PriceStep, PriceStart, PriceCommit, PriceCommitFails, FetchPrices, Fire
  <2>2. \A x \in Subjects : ~Repeats(x)
    <3>1. CASE PriceStart \/ \E p \in Quotes : FetchPrices(p)
      BY <1>1, <3>1 DEF PriceStart, FetchPrices
    <3>2. CASE PriceCommit \/ PriceCommitFails
      BY <1>2, <3>2 DEF PriceCommit, PriceCommitFails
    <3>3. CASE \E a \in Alerts, arrives \in BOOLEAN : Fire(a, arrives)
      BY <3>3, FireTellsAnew
    <3> QED BY <1>5, <3>1, <3>2, <3>3 DEF PriceStep
  <2> QED BY <2>1, <2>2
<1>6. ASSUME WatchStep PROVE Silent
  <2>1. \A url \in Urls : ~AsksAgain(url)
    BY <1>3, <1>6 DEF WatchStep, WatchStart, FetchSnapshots, WatchCommit, WatchFails, WatchSend
  <2>2. \A x \in Subjects : ~Repeats(x)
    <3>1. CASE WatchStart \/ FetchSnapshots
      BY <1>1, <3>1 DEF WatchStart, FetchSnapshots
    <3>2. CASE WatchCommit \/ WatchFails
      BY <1>2, <3>2 DEF WatchCommit, WatchFails
    <3>3. CASE \E x \in Subjects, arrives \in BOOLEAN : WatchSend(x, arrives)
      BY <3>3, WatchTellsAnew
    <3> QED BY <1>6, <3>1, <3>2, <3>3 DEF WatchStep
  <2> QED BY <2>1, <2>2
<1>7. ASSUME NewsStep PROVE Silent
  <2>1. CASE NewsStart \/ ItemDone \/ (\E t \in Tickers : FetchNews(t)) \/ (\E url \in Urls : TakeItem(url))
    BY <1>1, <1>3, <2>1 DEF NewsStart, ItemDone, FetchNews, TakeItem
  <2>2. CASE NewsCommit \/ NewsFails \/ ModelRaises
    <3>1. \E outcome \in {"committed", "lost"} :
            last' = Settle("news", outcome) /\ asked' = SettleUrls(outcome)
      BY <2>2 DEF NewsCommit, NewsFails, ModelRaises, NewsAborts
    <3> QED BY <1>2, <1>4, <3>1
  <2>3. CASE \E s \in Sentiments : Classify(s)
    <3>1. last' = last
      BY <2>3 DEF Classify
    <3> QED BY <1>1, <2>3, <3>1, ClassifyAsksAnew
  <2>4. CASE \E w \in Watched, arrives \in BOOLEAN : NewsSend(w.user, arrives)
    <3>1. asked' = asked
      BY <2>4 DEF NewsSend
    <3> QED BY <1>3, <2>4, <3>1, NewsTellsAnew
  <2> QED BY <1>7, <2>1, <2>2, <2>3, <2>4 DEF NewsStep
<1>8. ASSUME NEW a \in Alerts, CreateAlert(a) \/ DeleteAlert(a) PROVE Silent
  BY <1>1, <1>3, <1>8 DEF CreateAlert, DeleteAlert
<1>9. ASSUME Restart PROVE Silent
  <2>1. asked' = SettleUrls("lost")
    BY <1>9 DEF Restart
  <2>2. \A x \in Subjects : last'[x] = last[x] \/ last'[x].run = "lost"
    <3>1. \A x \in Subjects : last[x] \in [age : 0 .. Window, run : Fates]
      BY <1>0 DEF ToldRows
    <3>2. \A x \in Subjects : [last[x] EXCEPT !.run = "lost"].run = "lost"
      BY <3>1
    <3> QED BY <1>9, <3>2 DEF Restart
  <2>3. \A x \in Subjects : ~Repeats(x)
    BY <2>2 DEF Repeats, Arrives
  <2> QED BY <1>4, <2>1, <2>3
<1>10. ASSUME TimePasses PROVE Silent
  <2>1. asked' = asked
    BY <1>10 DEF TimePasses
  <2>2. \A x \in Subjects : last'[x].age # 0
    BY <1>10, TimePassesKeeps
  <2>3. \A x \in Subjects : ~Repeats(x)
    BY <2>2 DEF Repeats, Arrives
  <2> QED BY <1>3, <2>1, <2>3
<1>11. ASSUME UNCHANGED jobVars PROVE Silent
  BY <1>1, <1>3, <1>11 DEF jobVars
<1> QED BY <1>5, <1>6, <1>7, <1>8, <1>9, <1>10, <1>11 DEF JobsNext

\* A message that is repeated within its window, and a url that the model is
\* asked about again, follow a run that was lost (price_alerts.py:55,
\* watchlist_monitor.py:63, news_monitor.py:85 and :117).
THEOREM RepeatsFollowLostRuns == JobsSpec => RepeatsNeedALostRun
<1> DEFINE A == /\ \A x \in Subjects : ~Repeats(x)
                /\ \A url \in Urls : ~AsksAgain(url)
           B == /\ \A x \in Subjects : Arrives(x) =>
                     \/ last[x].run \in {"none", "lost"}
                     \/ x.job # "price" /\ last[x].age >= Window
                /\ \A url \in Urls : asked'[url] = "open" /\ asked[url] # "open" =>
                     asked[url] \in {"none", "lost"}
<1>1. JobsParts /\ [JobsNext]_jobVars => A
  BY JobsStepTellsAnew
<1>2. A => B
  BY DEF Repeats, AsksAgain
<1>3. JobsInv => JobsParts
  BY JobsInvParts
<1>4. JobsSpec => [][B]_jobVars
  <2> HIDE DEF A, B
  <2> QED BY <1>1, <1>2, <1>3, JobsInductive, PTL DEF JobsSpec
<1> QED BY <1>4 DEF RepeatsNeedALostRun

===============================================================================
