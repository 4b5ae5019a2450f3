------------------------- MODULE RequestGuardsProofs -------------------------
(***************************************************************************)
(* The limits hold for any addresses, routes, limits, ttl and number of       *)
(* requests: theorems about RequestGuards.                                  *)
(***************************************************************************)
EXTENDS RequestGuards, TableTheorems, FiniteSetTheorems

\* The requests of key k that reached their handler in life l within the ttl
\* before b.
Passed(k, l, b) ==
  {p \in DOMAIN request :
     /\ request[p].pc = "handler"
     /\ <<request[p].from, request[p].route>> = k
     /\ request[p].life = l
     /\ b - Ttl < request[p].at /\ request[p].at <= b}

\* A request that waits belongs to the life that goes on.
WaitingIsCurrent ==
  \A q \in DOMAIN request : request[q].pc \in {"jwt", "throttler"} => request[q].life = life

NothingFromLater ==
  \A q \in DOMAIN request : request[q].at <= now /\ request[q].life <= life

\* What a counter holds did pass, by its key and in this life.
HitsPassed ==
  \A k \in DOMAIN counter : \A h \in counter[k].hits :
    request[h].pc = "handler" /\ Key(h) = k /\ request[h].life = life

\* What passed in this life and the last ttl is in its counter, and a block
\* outlasts the ttl of everything before it.
PassedIsCounted ==
  \A p \in DOMAIN request :
    request[p].pc = "handler" /\ request[p].life = life =>
      /\ Key(p) \in DOMAIN counter
      /\ request[p].at + Ttl > now => p \in counter[Key(p)].hits
      /\ counter[Key(p)].until # 0 => request[p].at + Ttl <= counter[Key(p)].until

\* A block began when the limit was used up.
BlockEarned ==
  \A k \in DOMAIN counter :
    counter[k].until # 0 =>
      /\ counter[k].until - Ttl \in Time /\ counter[k].until - Ttl <= now
      /\ Cardinality(Passed(k, life, counter[k].until - Ttl)) >= Limit[k[2]]

WithinLimit ==
  \A k \in Address \X Route, l \in 0..MaxLife, b \in Time :
    Cardinality(Passed(k, l, b)) <= Limit[k[2]]

RefusalEarned ==
  \A q \in DOMAIN request :
    request[q].pc = "429" =>
      \E b \in Time :
        /\ b <= request[q].at /\ request[q].at < b + Ttl
        /\ Cardinality(Passed(Key(q), request[q].life, b)) = Limit[request[q].route]

\* The limit of a route is the one promised.
LEMMA LimitsAsPromised ==
  /\ Limit \in [Route -> Nat \ {0}]
  /\ \A r \in Route : Limit[r] = Promised(r)
  BY GuardsAssumption DEF Limit, Promised

GuardInv ==
  /\ TypeOK
  /\ IsFiniteSet(DOMAIN request)
  /\ WaitingIsCurrent /\ NothingFromLater
  /\ HitsPassed /\ PassedIsCounted /\ BlockEarned
  /\ WithinLimit /\ RefusalEarned

-----------------------------------------------------------------------------
(* What a step leaves of the requests that passed.                           *)

\* No request changes what it is, and one that passed stays where it is.
Kept ==
  \A p \in DOMAIN request :
    /\ p \in DOMAIN request'
    /\ request'[p].from = request[p].from /\ request'[p].route = request[p].route
    /\ request'[p].life = request[p].life
    /\ request[p].pc \in {"handler", "429"} => request'[p] = request[p]

\* No request passes.
NoneNew ==
  \A p \in DOMAIN request' :
    request'[p].pc = "handler" => p \in DOMAIN request /\ request[p].pc = "handler"

\* Both sets are finite, and a step that keeps the requests only adds.
LEMMA PassedGrows ==
  ASSUME Kept, NEW k, NEW l, NEW b
  PROVE  Passed(k, l, b) \subseteq Passed(k, l, b)'
  BY DEF Kept, Passed

LEMMA PassedSame ==
  ASSUME Kept, NoneNew, NEW k, NEW l, NEW b
  PROVE  Passed(k, l, b)' = Passed(k, l, b)
  BY DEF Kept, NoneNew, Passed

LEMMA PassedFinite ==
  ASSUME IsFiniteSet(DOMAIN request), NEW k, NEW l, NEW b
  PROVE  IsFiniteSet(Passed(k, l, b)) /\ Cardinality(Passed(k, l, b)) \in Nat
<1>1. Passed(k, l, b) \in SUBSET DOMAIN request
  BY DEF Passed
<1>2. IsFiniteSet(Passed(k, l, b))
  BY <1>1, FS_Subset
<1> QED
  BY <1>2, FS_CardinalityType

\* Where nothing passes the limits stay.
LEMMA LimitsStay ==
  ASSUME WithinLimit, Kept, NoneNew
  PROVE  WithinLimit'
  BY PassedSame DEF WithinLimit

\* The reason of a refusal stays: the set it counts only grows, and not past
\* the limit.
LEMMA ReasonStays ==
  ASSUME TypeOK, IsFiniteSet(DOMAIN request), IsFiniteSet(DOMAIN request'),
         RefusalEarned, Kept, WithinLimit',
         NEW q \in DOMAIN request, request[q].pc = "429"
  PROVE  \E b \in Time :
           /\ b <= request'[q].at /\ request'[q].at < b + Ttl
           /\ Cardinality(Passed(Key(q), request[q].life, b))' = Limit[request'[q].route]
<1>1. PICK k, l : k = Key(q) /\ l = request[q].life
  OBVIOUS
<1>2. PICK b \in Time :
        /\ b <= request[q].at /\ request[q].at < b + Ttl
        /\ Cardinality(Passed(k, l, b)) = Limit[request[q].route]
  BY <1>1 DEF RefusalEarned
<1>3. request[q] \in RequestState
  BY TableValue DEF TypeOK
<1>4. k \in Address \X Route /\ l \in 0..MaxLife /\ k[2] = request[q].route
  BY <1>1, <1>3 DEF RequestState, Key
<1>5. Cardinality(Passed(k, l, b)') <= Limit[k[2]]
  BY <1>4 DEF WithinLimit
<1>6. Passed(k, l, b) \subseteq Passed(k, l, b)'
  BY PassedGrows
<1>7. Passed(k, l, b)' \in SUBSET DOMAIN request'
  BY DEF Passed
<1>8. IsFiniteSet(Passed(k, l, b)')
  BY <1>7, FS_Subset
<1>9. Cardinality(Passed(k, l, b)) <= Cardinality(Passed(k, l, b)')
  BY <1>6, <1>8, FS_Subset
<1>10. Cardinality(Passed(k, l, b)) \in Nat /\ Cardinality(Passed(k, l, b)') \in Nat
  BY <1>8, FS_CardinalityType, PassedFinite
<1>11. Limit[k[2]] \in Nat
  BY <1>4, LimitsAsPromised
<1>12. Cardinality(Passed(k, l, b)') = Limit[request[q].route]
  BY <1>2, <1>4, <1>5, <1>9, <1>10, <1>11
<1>13. request'[q] = request[q]
  BY DEF Kept
<1>14. k = Key(q)' /\ l = request'[q].life
  BY <1>1, <1>13 DEF Key
<1>15. Passed(Key(q), request[q].life, b)' = Passed(k, l, b)'
  BY <1>14 DEF Passed
<1> QED
  BY <1>2, <1>12, <1>13, <1>15

\* So where nobody is refused the reasons stay.
LEMMA ReasonsStay ==
  ASSUME TypeOK, IsFiniteSet(DOMAIN request), IsFiniteSet(DOMAIN request'),
         RefusalEarned, Kept, WithinLimit',
         \A q \in DOMAIN request' :
           request'[q].pc = "429" => q \in DOMAIN request /\ request[q].pc = "429"
  PROVE  RefusalEarned'
  BY ReasonStays DEF RefusalEarned

-----------------------------------------------------------------------------
(* The counters.                                                            *)

LEMMA InitOK == Init => GuardInv
<1> SUFFICES ASSUME Init PROVE GuardInv
  OBVIOUS
<1>1. request = Empty /\ counter = Empty /\ now = 0 /\ life = 0
  BY DEF Init
<1>2. DOMAIN request = {} /\ DOMAIN counter = {}
  BY <1>1 DEF Empty
<1>3. TypeOK
  BY <1>1, <1>2, EmptyTable, GuardsAssumption DEF TypeOK, Time
<1>4. IsFiniteSet(DOMAIN request)
  BY <1>2, FS_EmptySet
<1>5. \A k, l, b : Passed(k, l, b) = {}
  BY <1>2 DEF Passed
<1>6. WithinLimit
  BY <1>5, FS_EmptySet, LimitsAsPromised DEF WithinLimit
<1> QED
  BY <1>2, <1>3, <1>4, <1>6
     DEF GuardInv, WaitingIsCurrent, NothingFromLater, HitsPassed, PassedIsCounted,
         BlockEarned, RefusalEarned

\* A counter, stored or not, has its type, and its live hits are among it.
LEMMA StoredType ==
  ASSUME TypeOK, NEW k
  PROVE  /\ Stored(k) \in Counter
         /\ Stored(k).hits \subseteq DOMAIN request
         /\ Live(k) \in SUBSET Request /\ Live(k) \subseteq DOMAIN request
<1>1. CASE k \in DOMAIN counter
  <2>1. counter[k] \in Counter /\ counter[k].hits \subseteq DOMAIN request
    BY <1>1, TableValue DEF TypeOK
  <2> QED
    BY <1>1, <2>1 DEF Stored, Live, Counter
<1>2. CASE k \notin DOMAIN counter
  BY <1>2, GuardsAssumption DEF Stored, Live, Counter
<1> QED
  BY <1>1, <1>2

\* What passed within the last ttl is live, if its route is not blocked.
LEMMA PassedIsLive ==
  ASSUME TypeOK, PassedIsCounted, NEW k, ~Blocked(k),
         NEW p \in DOMAIN request, request[p].pc = "handler", request[p].life = life,
         Key(p) = k, request[p].at + Ttl > now
  PROVE  p \in Live(k)
<1>1. k \in DOMAIN counter /\ p \in counter[k].hits
  BY DEF PassedIsCounted
<1>2. counter[k].until # 0 => request[p].at + Ttl <= counter[k].until
  BY DEF PassedIsCounted
<1>3. counter[k] \in Counter /\ request[p] \in RequestState
  BY <1>1, TableValue DEF TypeOK
<1>4. counter[k].until \in Int /\ request[p].at \in Int /\ now \in Int /\ Ttl \in Int
  BY <1>3, GuardsAssumption DEF Counter, RequestState, Time, TypeOK
<1>5. counter[k].until <= now
  BY <1>1, <1>4 DEF Blocked, Stored
<1>6. counter[k].until = 0
  BY <1>2, <1>4, <1>5
<1> QED
  BY <1>1, <1>6 DEF Live, Stored

\* Live hits passed by the key, in this life and within the last ttl.
LEMMA LivePassed ==
  ASSUME TypeOK, HitsPassed, NothingFromLater, NEW k, NEW p \in Live(k)
  PROVE  /\ p \in DOMAIN request /\ request[p].pc = "handler"
         /\ Key(p) = k /\ request[p].life = life
         /\ now - Ttl < request[p].at /\ request[p].at <= now
<1>1. k \in DOMAIN counter /\ p \in counter[k].hits /\ request[p].at + Ttl > now
  BY DEF Live, Stored
<1>2. p \in DOMAIN request
  BY <1>1 DEF TypeOK
<1>3. request[p] \in RequestState
  BY <1>2, TableValue DEF TypeOK
<1>4. request[p].at \in Int /\ now \in Int /\ Ttl \in Int
  BY <1>3, GuardsAssumption DEF RequestState, Time, TypeOK
<1> QED
  BY <1>1, <1>2, <1>4 DEF HitsPassed, NothingFromLater

-----------------------------------------------------------------------------
(* The type.                                                                *)

\* Moving a request on keeps the table of requests.
LEMMA MoveType ==
  ASSUME TypeOK, NEW q \in DOMAIN request, NEW t \in Time,
         NEW pc \in {"jwt", "throttler", "handler", "401", "429", "500", "lost"}
  PROVE  Table([request EXCEPT ![q].pc = pc, ![q].at = t], Request, RequestState)
<1>1. request[q] \in RequestState
  BY TableValue DEF TypeOK
<1>2. [request[q] EXCEPT !.pc = pc, !.at = t] \in RequestState
  BY <1>1 DEF RequestState
<1>3. Table([request EXCEPT ![q] = [request[q] EXCEPT !.pc = pc, !.at = t]],
            Request, RequestState)
  BY <1>2, ExceptTable DEF TypeOK
<1> QED
  BY <1>3

LEMMA MovePcType ==
  ASSUME TypeOK, NEW q \in DOMAIN request,
         NEW pc \in {"jwt", "throttler", "handler", "401", "429", "500", "lost"}
  PROVE  Table([request EXCEPT ![q].pc = pc], Request, RequestState)
<1>1. request[q] \in RequestState
  BY TableValue DEF TypeOK
<1>2. [request[q] EXCEPT !.pc = pc] \in RequestState
  BY <1>1 DEF RequestState
<1>3. Table([request EXCEPT ![q] = [request[q] EXCEPT !.pc = pc]], Request, RequestState)
  BY <1>2, ExceptTable DEF TypeOK
<1> QED
  BY <1>3

\* The type of the counters under Put.
LEMMA CountType ==
  ASSUME TypeOK, NEW k \in Address \X Route, NEW c \in Counter,
         c.hits \subseteq DOMAIN request, c.until <= now + Ttl
  PROVE  /\ Table(Put(counter, k, c), Address \X Route, Counter)
         /\ \A j \in DOMAIN Put(counter, k, c) :
              /\ Put(counter, k, c)[j].hits \subseteq DOMAIN request
              /\ Put(counter, k, c)[j].until <= now + Ttl
<1>1. Table(Put(counter, k, c), Address \X Route, Counter)
  BY PutTable DEF TypeOK
<1>2. \A j \in DOMAIN Put(counter, k, c) :
        \/ j = k /\ Put(counter, k, c)[j] = c
        \/ j \in DOMAIN counter /\ Put(counter, k, c)[j] = counter[j]
  BY DEF Put
<1> QED
  BY <1>1, <1>2 DEF TypeOK

\* The key of a request is one.
LEMMA KeyType ==
  ASSUME TypeOK, NEW q \in DOMAIN request
  PROVE  Key(q) \in Address \X Route /\ Key(q)[2] = request[q].route
<1>1. request[q] \in RequestState
  BY TableValue DEF TypeOK
<1> QED
  BY <1>1 DEF Key, RequestState

LEMMA TypeStep == TypeOK /\ [Next]_vars => TypeOK'
<1> SUFFICES ASSUME TypeOK, [Next]_vars PROVE TypeOK'
  OBVIOUS
<1> USE GuardsAssumption
<1>1. CASE Tick
  <2>1. now' \in Time /\ now + 1 = now'
    BY <1>1 DEF Tick, TypeOK, Time
  <2>2. \A k \in DOMAIN counter : counter[k] \in Counter
    BY TableValue DEF TypeOK
  <2> QED
    BY <1>1, <2>1, <2>2 DEF Tick, TypeOK, Time, Counter
<1>2. CASE Restart
  <2>1. life' \in 0..MaxLife
    BY <1>2 DEF Restart, TypeOK
  <2>2. Table(counter', Address \X Route, Counter) /\ DOMAIN counter' = {}
    BY <1>2, EmptyTable DEF Restart, Empty
  <2>3. \A q \in DOMAIN request : request'[q] \in RequestState
    <3> TAKE q \in DOMAIN request
    <3>1. request[q] \in RequestState
      BY TableValue DEF TypeOK
    <3> QED
      BY <1>2, <3>1 DEF Restart, RequestState
  <2>4. Table(request', Request, RequestState)
    BY <1>2, <2>3 DEF Restart, Table, TypeOK
  <2> QED
    BY <1>2, <2>1, <2>2, <2>4 DEF Restart, TypeOK
<1>3. ASSUME NEW q \in Request, NEW a \in Address, NEW r \in Route, Arrive(q, a, r)
      PROVE  TypeOK'
  <2>1. [from |-> a, route |-> r, at |-> 0, life |-> life, pc |-> "jwt"] \in RequestState
    BY DEF RequestState, TypeOK, Time
  <2>2. Table(request', Request, RequestState)
    BY <1>3, <2>1, PutTable DEF Arrive, TypeOK
  <2>3. DOMAIN request \subseteq DOMAIN request'
    BY <1>3 DEF Arrive, Put
  <2> QED
    BY <1>3, <2>2, <2>3 DEF Arrive, TypeOK
<1>4. ASSUME NEW q \in Request, JwtGuard(q)
      PROVE  TypeOK'
  <2>1. PICK pc \in {"throttler", "401", "500"} : request' = [request EXCEPT ![q].pc = pc]
    BY <1>4 DEF JwtGuard
  <2>2. q \in DOMAIN request
    BY <1>4 DEF JwtGuard, At
  <2>3. Table(request', Request, RequestState)
    BY <2>1, <2>2, MovePcType
  <2> QED
    BY <1>4, <2>1, <2>3 DEF JwtGuard, TypeOK
<1>5. ASSUME NEW q \in Request, Pass(q)
      PROVE  TypeOK'
  <2> DEFINE c == [hits |-> Live(Key(q)) \cup {q}, until |-> 0]
  <2>1. q \in DOMAIN request
    BY <1>5 DEF Pass, At
  <2>2. counter' = Put(counter, Key(q), c) /\ Key(q) \in Address \X Route
    BY <1>5, <2>1, KeyType DEF Pass
  <2>3. c \in Counter /\ c.hits \subseteq DOMAIN request /\ c.until <= now + Ttl
    BY <2>1, StoredType DEF Counter, TypeOK, Time
  <2>4. Table(request', Request, RequestState) /\ DOMAIN request' = DOMAIN request
    BY <1>5, <2>1, MoveType DEF Pass, Decide, TypeOK
  <2> QED
    BY <1>5, <2>2, <2>3, <2>4, CountType DEF Pass, TypeOK
<1>6. ASSUME NEW q \in Request, Refuse(q)
      PROVE  TypeOK'
  <2> DEFINE c == [hits |-> Live(Key(q)), until |-> now + BlockDuration]
  <2>1. q \in DOMAIN request
    BY <1>6 DEF Refuse, At
  <2>2. Table(request', Request, RequestState) /\ DOMAIN request' = DOMAIN request
    BY <1>6, <2>1, MoveType DEF Refuse, Decide, TypeOK
  <2>3. c \in Counter /\ c.hits \subseteq DOMAIN request /\ c.until <= now + Ttl
    BY <2>1, StoredType DEF Counter, TypeOK, Time, BlockDuration
  <2>4. CASE counter' = Put(counter, Key(q), c)
    BY <1>6, <2>1, <2>2, <2>3, <2>4, KeyType, CountType DEF Refuse, TypeOK
  <2>5. CASE UNCHANGED counter
    BY <1>6, <2>2, <2>5 DEF Refuse, TypeOK
  <2> QED
    BY <1>6, <2>4, <2>5 DEF Refuse
<1>7. CASE UNCHANGED vars
  BY <1>7 DEF vars, TypeOK
<1> QED
  BY <1>1, <1>2, <1>3, <1>4, <1>5, <1>6, <1>7 DEF Next, Guards

\* Tables and counters keep their types.
THEOREM Typing == Spec => []TypeOK
<1>1. Init => TypeOK
  BY InitOK DEF GuardInv
<1> QED
  BY <1>1, TypeStep, PTL DEF Spec

-----------------------------------------------------------------------------
(* What each action does to the requests.                                   *)

\* A step in which nobody passes or is refused leaves the limits, the reasons
\* and, in the same life, the counts behind the blocks.
LEMMA QuietStep ==
  ASSUME GuardInv, TypeOK', Kept, NoneNew, IsFiniteSet(DOMAIN request'),
         \A q \in DOMAIN request' :
           request'[q].pc = "429" => q \in DOMAIN request /\ request[q].pc = "429"
  PROVE  WithinLimit' /\ RefusalEarned'
<1>1. WithinLimit'
  BY LimitsStay DEF GuardInv
<1> QED
  BY <1>1, ReasonsStay DEF GuardInv

\* A block stays earned: what passed before it began still did.
LEMMA BlockStays ==
  ASSUME GuardInv, Kept, IsFiniteSet(DOMAIN request'), life' = life, now' \in Time, now <= now',
         NEW k \in DOMAIN counter, counter[k].until # 0, counter'[k].until = counter[k].until
  PROVE  /\ counter'[k].until - Ttl \in Time /\ counter'[k].until - Ttl <= now'
         /\ Cardinality(Passed(k, life, counter[k].until - Ttl))' >= Limit[k[2]]
<1>1. PICK l, b : l = life /\ b = counter[k].until - Ttl
  OBVIOUS
<1>2. b \in Time /\ b <= now /\ Cardinality(Passed(k, l, b)) >= Limit[k[2]]
  BY <1>1 DEF GuardInv, BlockEarned
<1>3. Passed(k, l, b) \subseteq Passed(k, l, b)'
  BY PassedGrows
<1>4. Passed(k, l, b)' \in SUBSET DOMAIN request'
  BY DEF Passed
<1>5. IsFiniteSet(Passed(k, l, b)')
  BY <1>4, FS_Subset
<1>6. Cardinality(Passed(k, l, b)) <= Cardinality(Passed(k, l, b)')
  BY <1>3, <1>5, FS_Subset
<1>7. Cardinality(Passed(k, l, b)) \in Nat /\ Cardinality(Passed(k, l, b)') \in Nat
  BY <1>5, FS_CardinalityType, PassedFinite DEF GuardInv
<1>8. k \in Address \X Route
  BY DEF GuardInv, TypeOK, Table
<1>9. Limit[k[2]] \in Nat
  BY <1>8, LimitsAsPromised
<1>10. Cardinality(Passed(k, l, b)') >= Limit[k[2]]
  BY <1>2, <1>6, <1>7, <1>9
<1>11. l = life' /\ b = counter'[k].until - Ttl
  BY <1>1
<1>12. Passed(k, life, counter[k].until - Ttl)' = Passed(k, l, b)'
  BY <1>11 DEF Passed
<1>13. b <= now'
  BY <1>2, GuardsAssumption DEF Time, GuardInv, TypeOK
<1> QED
  BY <1>2, <1>10, <1>11, <1>12, <1>13

\* The counters of a step that leaves them alone.
LEMMA CountersSame ==
  ASSUME GuardInv, TypeOK', Kept, NoneNew, IsFiniteSet(DOMAIN request'),
         life' = life, now <= now', counter' = counter
  PROVE  HitsPassed' /\ PassedIsCounted' /\ BlockEarned'
<1> USE DEF GuardInv
<1>1. HitsPassed'
  BY DEF HitsPassed, Kept, TypeOK, Key
<1>2. PassedIsCounted'
  <2> SUFFICES ASSUME NEW p \in DOMAIN request', request'[p].pc = "handler", request'[p].life = life
               PROVE  /\ Key(p)' \in DOMAIN counter
                      /\ request'[p].at + Ttl > now' => p \in counter[Key(p)'].hits
                      /\ counter[Key(p)'].until # 0 => request'[p].at + Ttl <= counter[Key(p)'].until
    BY DEF PassedIsCounted
  <2>1. p \in DOMAIN request /\ request[p].pc = "handler"
    BY DEF NoneNew
  <2>2. request'[p] = request[p] /\ Key(p)' = Key(p)
    BY <2>1 DEF Kept, Key
  <2>3. request[p] \in RequestState
    BY <2>1, TableValue DEF TypeOK
  <2>4. request[p].at + Ttl > now' => request[p].at + Ttl > now
    BY <2>3, GuardsAssumption DEF TypeOK, RequestState, Time
  <2> QED
    BY <2>1, <2>2, <2>4 DEF PassedIsCounted
<1>3. BlockEarned'
  BY BlockStays DEF BlockEarned, TypeOK
<1> QED
  BY <1>1, <1>2, <1>3

LEMMA TickStep ==
  ASSUME GuardInv, Tick
  PROVE  GuardInv'
<1> USE DEF GuardInv
<1>1. TypeOK'
  BY TypeStep DEF Next
<1>2. request' = request /\ life' = life /\ counter' = counter /\ now' = now + 1
  BY DEF Tick
<1>3. now <= now'
  BY <1>2 DEF TypeOK, Time
<1>4. Kept /\ NoneNew
  BY <1>2 DEF Kept, NoneNew
<1>5. NothingFromLater'
  <2>1. \A q \in DOMAIN request : request[q] \in RequestState
    BY TableValue DEF TypeOK
  <2> QED
    BY <1>2, <2>1 DEF NothingFromLater, TypeOK, Time, RequestState
<1>6. WaitingIsCurrent' /\ IsFiniteSet(DOMAIN request')
  BY <1>2 DEF WaitingIsCurrent
<1> QED
  BY <1>1, <1>2, <1>3, <1>4, <1>5, <1>6, QuietStep, CountersSame

LEMMA ArriveStep ==
  ASSUME GuardInv, NEW q \in Request, NEW a \in Address, NEW r \in Route, Arrive(q, a, r)
  PROVE  GuardInv'
<1> USE DEF GuardInv
<1> DEFINE new == [from |-> a, route |-> r, at |-> 0, life |-> life, pc |-> "jwt"]
<1>1. TypeOK'
  BY TypeStep DEF Next
<1>2. life' = life /\ counter' = counter /\ now' = now /\ now <= now'
  BY DEF Arrive, TypeOK, Time
<1>3. DOMAIN request' = DOMAIN request \cup {q} /\ q \notin DOMAIN request
  BY DEF Arrive, Put
<1>4. request'[q] = new /\ \A p \in DOMAIN request : request'[p] = request[p]
  BY DEF Arrive, Put
<1>5. Kept /\ NoneNew
  BY <1>3, <1>4 DEF Kept, NoneNew
<1>6. IsFiniteSet(DOMAIN request')
  BY <1>3, FS_AddElement
<1>7. NothingFromLater' /\ WaitingIsCurrent'
  BY <1>2, <1>3, <1>4 DEF NothingFromLater, WaitingIsCurrent, TypeOK, Time
<1>8. \A p \in DOMAIN request' :
        request'[p].pc = "429" => p \in DOMAIN request /\ request[p].pc = "429"
  BY <1>3, <1>4
<1> QED
  BY <1>1, <1>2, <1>5, <1>6, <1>7, <1>8, QuietStep, CountersSame

LEMMA JwtStep ==
  ASSUME GuardInv, NEW q \in Request, JwtGuard(q)
  PROVE  GuardInv'
<1> USE DEF GuardInv
<1>1. TypeOK'
  BY TypeStep DEF Next, Guards
<1>2. life' = life /\ counter' = counter /\ now' = now /\ now <= now'
  BY DEF JwtGuard, TypeOK, Time
<1>3. PICK pc \in {"throttler", "401", "500"} : request' = [request EXCEPT ![q].pc = pc]
  BY DEF JwtGuard
<1>4. q \in DOMAIN request /\ request[q].pc = "jwt" /\ request[q] \in RequestState
  BY TableValue DEF JwtGuard, At, TypeOK
<1>5. DOMAIN request' = DOMAIN request
  BY <1>3
<1>6. \A p \in DOMAIN request :
        /\ p # q => request'[p] = request[p]
        /\ request'[p].from = request[p].from /\ request'[p].route = request[p].route
        /\ request'[p].life = request[p].life /\ request'[p].at = request[p].at
  BY <1>3, <1>4 DEF RequestState, TypeOK, Table
<1>7. request'[q].pc = pc
  BY <1>3, <1>4 DEF RequestState
<1>8. Kept /\ NoneNew
  BY <1>4, <1>5, <1>6, <1>7 DEF Kept, NoneNew
<1>9. NothingFromLater' /\ WaitingIsCurrent'
  BY <1>2, <1>4, <1>5, <1>6 DEF NothingFromLater, WaitingIsCurrent
<1>10. \A p \in DOMAIN request' :
        request'[p].pc = "429" => p \in DOMAIN request /\ request[p].pc = "429"
  BY <1>5, <1>6, <1>7
<1> QED
  BY <1>1, <1>2, <1>5, <1>8, <1>9, <1>10, QuietStep, CountersSame

LEMMA RestartStep ==
  ASSUME GuardInv, Restart
  PROVE  GuardInv'
<1> USE DEF GuardInv
<1>1. TypeOK'
  BY TypeStep DEF Next
<1>2. life' = life + 1 /\ now' = now /\ DOMAIN counter' = {}
  BY DEF Restart, Empty
<1>3. DOMAIN request' = DOMAIN request
  BY DEF Restart
<1>4. ASSUME NEW q \in DOMAIN request
      PROVE  /\ request[q] \in RequestState
             /\ request'[q].from = request[q].from /\ request'[q].route = request[q].route
             /\ request'[q].life = request[q].life /\ request'[q].at = request[q].at
             /\ request'[q].pc \notin {"jwt", "throttler"}
             /\ request'[q].pc # "lost" => request'[q] = request[q]
             /\ request[q].pc \notin {"jwt", "throttler"} => request'[q] = request[q]
  <2>1. request[q] \in RequestState
    BY TableValue DEF TypeOK
  <2> QED
    BY <2>1 DEF Restart, RequestState
<1>5. Kept /\ NoneNew
  BY <1>3, <1>4 DEF Kept, NoneNew
<1>6. WaitingIsCurrent'
  BY <1>3, <1>4 DEF WaitingIsCurrent
<1>7. NothingFromLater' /\ \A q \in DOMAIN request' : request'[q].life # life'
  BY <1>2, <1>3, <1>4 DEF NothingFromLater, TypeOK, RequestState
<1>8. HitsPassed' /\ BlockEarned'
  BY <1>2 DEF HitsPassed, BlockEarned
<1>9. PassedIsCounted'
  BY <1>7 DEF PassedIsCounted
<1>10. \A p \in DOMAIN request' :
        request'[p].pc = "429" => p \in DOMAIN request /\ request[p].pc = "429"
  BY <1>3, <1>4
<1> QED
  BY <1>1, <1>3, <1>5, <1>6, <1>7, <1>8, <1>9, <1>10, QuietStep

\* The throttler's decision on q: nobody else changes, and q keeps what it is.
LEMMA Decided ==
  ASSUME GuardInv, NEW q \in Request, At(q, "throttler"),
         NEW pc \in {"handler", "429"}, Decide(q, pc),
         now' = now, life' = life, TypeOK'
  PROVE  /\ q \in DOMAIN request /\ DOMAIN request' = DOMAIN request
         /\ \A p \in DOMAIN request :
              /\ p # q => request'[p] = request[p]
              /\ Key(p)' = Key(p) /\ request'[p].life = request[p].life
              /\ request'[p].from = request[p].from /\ request'[p].route = request[p].route
         /\ request[q].pc = "throttler" /\ request[q].life = life
         /\ request'[q].pc = pc /\ request'[q].at = now /\ now \in Int
         /\ Kept /\ WaitingIsCurrent' /\ NothingFromLater'
<1> USE DEF GuardInv
<1>1. q \in DOMAIN request /\ request[q] \in RequestState /\ request[q].pc = "throttler"
  BY TableValue DEF At, TypeOK
<1>2. DOMAIN request' = DOMAIN request /\ request[q].life = life
  BY <1>1 DEF Decide, WaitingIsCurrent
<1>3. \A p \in DOMAIN request :
        /\ p # q => request'[p] = request[p]
        /\ request'[p].life = request[p].life
        /\ request'[p].from = request[p].from /\ request'[p].route = request[p].route
  BY <1>1 DEF Decide, RequestState
<1>4. request'[q].pc = pc /\ request'[q].at = now /\ now \in Int
  <2>1. request'[q] = [request[q] EXCEPT !.pc = pc, !.at = now]
    BY <1>1 DEF Decide
  <2> QED
    BY <1>1, <2>1 DEF RequestState, TypeOK, Time
<1>5. Kept
  BY <1>1, <1>2, <1>3 DEF Kept
<1>6. WaitingIsCurrent' /\ NothingFromLater'
  BY <1>1, <1>2, <1>3, <1>4 DEF WaitingIsCurrent, NothingFromLater, TypeOK
<1> QED
  BY <1>1, <1>2, <1>3, <1>4, <1>5, <1>6 DEF Key

\* A new block begins with as many live hits as the limit allows, each of which
\* passed in the last ttl.
LEMMA LimitUsedUp ==
  ASSUME GuardInv, NEW k \in Address \X Route, Cardinality(Live(k)) >= Limit[k[2]]
  PROVE  Cardinality(Passed(k, life, now)) = Limit[k[2]]
<1> USE DEF GuardInv
<1>1. Live(k) \subseteq Passed(k, life, now)
  BY LivePassed DEF Passed, Key
<1>2. IsFiniteSet(Passed(k, life, now)) /\ Cardinality(Passed(k, life, now)) \in Nat
  BY PassedFinite
<1>3. /\ Cardinality(Live(k)) <= Cardinality(Passed(k, life, now))
      /\ IsFiniteSet(Live(k))
  BY <1>1, <1>2, FS_Subset
<1>4. Cardinality(Passed(k, life, now)) <= Limit[k[2]]
  BY DEF WithinLimit, TypeOK
<1> QED
  BY <1>2, <1>3, <1>4, FS_CardinalityType, LimitsAsPromised

\* The counters after a block has begun.
LEMMA BlockBegins ==
  ASSUME GuardInv, TypeOK', Kept, NoneNew, IsFiniteSet(DOMAIN request'),
         now' = now, life' = life,
         NEW q \in DOMAIN request, Key(q) \in Address \X Route,
         Key(q)[2] = request[q].route,
         ~Blocked(Key(q)), Cardinality(Live(Key(q))) >= Limit[request[q].route],
         counter' = Put(counter, Key(q), [hits |-> Live(Key(q)), until |-> now + BlockDuration])
  PROVE  HitsPassed' /\ PassedIsCounted' /\ BlockEarned'
<1> USE DEF GuardInv
<1>1. PICK k, l : k = Key(q) /\ l = life
  OBVIOUS
<1>2. DOMAIN counter' = DOMAIN counter \cup {k}
  BY <1>1 DEF Put
<1>3. /\ counter'[k].hits = Live(k) /\ counter'[k].until = now + Ttl
      /\ \A j \in DOMAIN counter : j # k => counter'[j] = counter[j]
  BY <1>1 DEF Put, BlockDuration
<1>4. now \in Time /\ now \in Int /\ Ttl \in Int
  BY GuardsAssumption DEF TypeOK, Time
<1>5. HitsPassed'
  <2> SUFFICES ASSUME NEW j \in DOMAIN counter', NEW h \in counter'[j].hits
               PROVE  request'[h].pc = "handler" /\ Key(h)' = j /\ request'[h].life = life
    BY DEF HitsPassed
  <2>1. h \in DOMAIN request /\ request[h].pc = "handler" /\ Key(h) = j /\ request[h].life = life
    BY <1>2, <1>3, LivePassed DEF HitsPassed, TypeOK
  <2> QED
    BY <2>1 DEF Kept, Key
<1>6. PassedIsCounted'
  <2> SUFFICES ASSUME NEW p \in DOMAIN request', request'[p].pc = "handler", request'[p].life = life
               PROVE  /\ Key(p)' \in DOMAIN counter'
                      /\ request'[p].at + Ttl > now => p \in counter'[Key(p)'].hits
                      /\ counter'[Key(p)'].until # 0 => request'[p].at + Ttl <= counter'[Key(p)'].until
    BY DEF PassedIsCounted
  <2>1. p \in DOMAIN request /\ request[p].pc = "handler"
    BY DEF NoneNew
  <2>2. request'[p] = request[p] /\ Key(p)' = Key(p)
    BY <2>1 DEF Kept, Key
  <2>3. request[p].at <= now /\ request[p] \in RequestState
    BY <2>1, TableValue DEF NothingFromLater, TypeOK
  <2>4. CASE Key(p) = k
    <3>1. request[p].at + Ttl > now => p \in Live(k)
      BY <1>1, <2>1, <2>2, <2>4, PassedIsLive
    <3>2. request[p].at + Ttl <= now + Ttl
      BY <1>4, <2>3 DEF RequestState, Time
    <3> QED
      BY <1>2, <1>3, <2>2, <2>4, <3>1, <3>2
  <2>5. CASE Key(p) # k
    BY <1>2, <1>3, <2>1, <2>2, <2>5 DEF PassedIsCounted
  <2> QED
    BY <2>4, <2>5
<1>7. BlockEarned'
  <2> SUFFICES ASSUME NEW j \in DOMAIN counter', counter'[j].until # 0
               PROVE  /\ counter'[j].until - Ttl \in Time /\ counter'[j].until - Ttl <= now'
                      /\ Cardinality(Passed(j, life, counter[j].until - Ttl))' >= Limit[j[2]]
    BY DEF BlockEarned
  <2>1. CASE j = k
    <3>1. PICK b : b = now
      OBVIOUS
    <3>2. Cardinality(Passed(k, l, b)) = Limit[k[2]]
      BY <1>1, <3>1, LimitUsedUp
    <3>3. counter'[k].until - Ttl = b /\ l = life'
      BY <1>1, <1>3, <1>4, <3>1
    <3>4. Passed(j, life, counter[j].until - Ttl)' = Passed(k, l, b)'
      BY <2>1, <3>3 DEF Passed
    <3>5. Passed(k, l, b)' = Passed(k, l, b)
      BY PassedSame
    <3>6. Limit[k[2]] \in Nat
      BY <1>1, LimitsAsPromised
    <3>7. Cardinality(Passed(j, life, counter[j].until - Ttl))' >= Limit[j[2]]
      BY <2>1, <3>2, <3>4, <3>5, <3>6
    <3> QED
      BY <1>4, <2>1, <3>1, <3>3, <3>7
  <2>2. CASE j # k
    <3>1. j \in DOMAIN counter /\ counter'[j] = counter[j]
      BY <1>2, <1>3, <2>2
    <3>2. Cardinality(Passed(j, life, counter[j].until - Ttl))' >= Limit[j[2]]
      BY <1>4, <3>1, BlockStays
    <3> QED
      BY <1>4, <3>1, <3>2 DEF BlockEarned
  <2> QED
    BY <2>1, <2>2
<1> QED
  BY <1>5, <1>6, <1>7

LEMMA RefuseStep ==
  ASSUME GuardInv, NEW q \in Request, Refuse(q)
  PROVE  GuardInv'
<1> USE DEF GuardInv
<1>1. TypeOK'
  BY TypeStep DEF Next, Guards
<1>2. At(q, "throttler") /\ Decide(q, "429") /\ now' = now /\ life' = life
  BY DEF Refuse
<1>3. /\ q \in DOMAIN request /\ DOMAIN request' = DOMAIN request
      /\ \A p \in DOMAIN request : p # q => request'[p] = request[p]
      /\ \A p \in DOMAIN request : Key(p)' = Key(p) /\ request'[p].life = request[p].life
      /\ request[q].life = life /\ request'[q].pc = "429" /\ request'[q].at = now
      /\ request'[q].route = request[q].route /\ now \in Int
      /\ Kept /\ WaitingIsCurrent' /\ NothingFromLater'
  BY <1>1, <1>2, Decided
<1>4. NoneNew /\ IsFiniteSet(DOMAIN request')
  BY <1>3 DEF NoneNew
<1>5. WithinLimit'
  BY <1>4, <1>3, LimitsStay
<1>6. Key(q) \in Address \X Route /\ Key(q)[2] = request[q].route
  BY <1>3, KeyType
\* Either way there is a moment at which the limit was used up.
<1>7. \E b \in Time :
        /\ b <= now /\ now < b + Ttl
        /\ Cardinality(Passed(Key(q), life, b)) = Limit[request[q].route]
  <2>1. CASE Blocked(Key(q))
    <3> DEFINE b == counter[Key(q)].until - Ttl
    <3>1. Key(q) \in DOMAIN counter /\ counter[Key(q)].until > now
      BY <2>1 DEF Blocked, Stored, TypeOK, Time
    <3>2. counter[Key(q)] \in Counter
      BY <3>1, TableValue DEF TypeOK
    <3>3. counter[Key(q)].until # 0 /\ now < b + Ttl
      BY <3>1, <3>2, GuardsAssumption DEF Counter, TypeOK, Time
    <3>4. b \in Time /\ b <= now /\ Cardinality(Passed(Key(q), life, b)) >= Limit[request[q].route]
      BY <1>6, <3>1, <3>3 DEF BlockEarned
    <3>5. Cardinality(Passed(Key(q), life, b)) <= Limit[request[q].route]
      BY <1>6, <3>4 DEF WithinLimit, TypeOK
    <3>6. Cardinality(Passed(Key(q), life, b)) \in Nat
      BY PassedFinite
    <3>7. Limit[request[q].route] \in Nat
      BY <1>6, LimitsAsPromised
    <3> HIDE DEF b
    <3>8. Cardinality(Passed(Key(q), life, b)) = Limit[request[q].route]
      BY <3>4, <3>5, <3>6, <3>7
    <3> QED
      BY <3>3, <3>4, <3>8
  <2>2. CASE ~Blocked(Key(q))
    <3>1. Cardinality(Live(Key(q))) >= Limit[Key(q)[2]]
      BY <1>6, <2>2 DEF Refuse
    <3> QED
      BY <1>6, <3>1, LimitUsedUp, GuardsAssumption DEF TypeOK, Time
  <2> QED
    BY <2>1, <2>2
<1>8. RefusalEarned'
  <2> SUFFICES ASSUME NEW p \in DOMAIN request', request'[p].pc = "429"
               PROVE  \E b \in Time :
                        /\ b <= request'[p].at /\ request'[p].at < b + Ttl
                        /\ Cardinality(Passed(Key(p), request[p].life, b))' = Limit[request'[p].route]
    BY DEF RefusalEarned
  <2>1. CASE p = q
    <3>1. PICK k, l : k = Key(q) /\ l = life
      OBVIOUS
    <3>2. PICK b \in Time :
            b <= now /\ now < b + Ttl /\ Cardinality(Passed(k, l, b)) = Limit[request[q].route]
      BY <1>7, <3>1
    <3>3. Passed(k, l, b)' = Passed(k, l, b)
      BY <1>3, <1>4, PassedSame
    <3>4. Passed(Key(q), request[q].life, b)' = Passed(k, l, b)'
      BY <1>3, <3>1 DEF Passed
    <3> QED
      BY <1>3, <2>1, <3>2, <3>3, <3>4
  <2>2. CASE p # q
    <3>1. p \in DOMAIN request /\ request[p].pc = "429"
      BY <1>3, <2>2
    <3> QED
      BY <1>3, <1>4, <1>5, <3>1, ReasonStays
  <2> QED
    BY <2>1, <2>2
<1>9. HitsPassed' /\ PassedIsCounted' /\ BlockEarned'
  <2>1. CASE UNCHANGED counter
    BY <1>1, <1>2, <1>3, <1>4, <2>1, CountersSame DEF TypeOK, Time
  <2>2. CASE /\ ~Blocked(Key(q)) /\ Cardinality(Live(Key(q))) >= Limit[request[q].route]
             /\ counter' = Put(counter, Key(q), [hits |-> Live(Key(q)), until |-> now + BlockDuration])
    BY <2>2, <1>1, <1>2, <1>3, <1>4, <1>6, BlockBegins
  <2> QED
    BY <2>1, <2>2 DEF Refuse
<1> QED
  BY <1>1, <1>3, <1>4, <1>5, <1>8, <1>9

\* A request that passes joins the live ones, which are fewer than the limit:
\* whatever passed in a window that holds it is among them.
LEMMA PassKeepsLimit ==
  ASSUME GuardInv, TypeOK', Kept, IsFiniteSet(DOMAIN request'), life' = life,
         NEW q \in DOMAIN request, Key(q) \in Address \X Route,
         Key(q)[2] = request[q].route, DOMAIN request' = DOMAIN request,
         ~Blocked(Key(q)), Cardinality(Live(Key(q))) < Limit[request[q].route],
         \A p \in DOMAIN request : p # q => request'[p] = request[p],
         Key(q)' = Key(q), request'[q].life = life, request'[q].at = now,
         request[q].pc # "handler"
  PROVE  WithinLimit'
<1> USE DEF GuardInv
<1> SUFFICES ASSUME NEW k \in Address \X Route, NEW l \in 0..MaxLife, NEW b \in Time
             PROVE  Cardinality(Passed(k, l, b)') <= Limit[k[2]]
  BY DEF WithinLimit
<1>1. now \in Int /\ b \in Int /\ Ttl \in Int
  BY GuardsAssumption DEF TypeOK, Time
<1>2. CASE q \in Passed(k, l, b)'
  <2>1. k = Key(q) /\ l = life /\ b - Ttl < now
    BY <1>2 DEF Passed, Key
  <2>2. Passed(k, l, b)' \subseteq Live(k) \cup {q}
    <3> SUFFICES ASSUME NEW p \in Passed(k, l, b)', p # q
                 PROVE  p \in Live(k)
      OBVIOUS
    <3>1. p \in DOMAIN request /\ request'[p] = request[p]
      BY DEF Passed
    <3>2. /\ request[p].pc = "handler" /\ Key(p) = k /\ request[p].life = life
          /\ b - Ttl < request[p].at /\ request[p].at <= b
      BY <3>1, <2>1 DEF Passed, Key
    <3>3. now <= b
      BY <1>2 DEF Passed
    <3>4. request[p] \in RequestState
      BY <3>1, TableValue DEF TypeOK
    <3>5. request[p].at + Ttl > now
      BY <1>1, <3>2, <3>3, <3>4 DEF RequestState, Time
    <3> QED
      BY <2>1, <3>1, <3>2, <3>5, PassedIsLive
  <2>3. IsFiniteSet(Live(k)) /\ Cardinality(Live(k)) \in Nat
    BY StoredType, FS_Subset, FS_CardinalityType
  <2>4. /\ IsFiniteSet(Live(k) \cup {q})
        /\ Cardinality(Live(k) \cup {q}) <= Cardinality(Live(k)) + 1
    <3>1. Cardinality(Live(k) \cup {q}) \in {Cardinality(Live(k)), Cardinality(Live(k)) + 1}
      BY <2>3, FS_AddElement
    <3> QED
      BY <2>3, <3>1, FS_AddElement
  <2>5. /\ IsFiniteSet(Passed(k, l, b)')
        /\ Cardinality(Passed(k, l, b)') <= Cardinality(Live(k) \cup {q})
    BY <2>2, <2>4, FS_Subset
  <2>6. Cardinality(Passed(k, l, b)') \in Nat /\ Cardinality(Live(k) \cup {q}) \in Nat
    BY <2>4, <2>5, FS_CardinalityType
  <2>7. Limit[k[2]] \in Nat /\ Cardinality(Live(k)) < Limit[k[2]]
    BY <2>1, LimitsAsPromised
  <2> QED
    BY <2>3, <2>4, <2>5, <2>6, <2>7
<1>3. CASE q \notin Passed(k, l, b)'
  <2>1. Passed(k, l, b)' \subseteq Passed(k, l, b)
    BY <1>3 DEF Passed
  <2>2. Passed(k, l, b)' = Passed(k, l, b)
    BY <2>1, PassedGrows
  <2> QED
    BY <2>2 DEF WithinLimit
<1> QED
  BY <1>2, <1>3

LEMMA PassStep ==
  ASSUME GuardInv, NEW q \in Request, Pass(q)
  PROVE  GuardInv'
<1> USE DEF GuardInv
<1>1. TypeOK'
  BY TypeStep DEF Next, Guards
<1>2. At(q, "throttler") /\ Decide(q, "handler") /\ now' = now /\ life' = life
  BY DEF Pass
<1>3. /\ q \in DOMAIN request /\ DOMAIN request' = DOMAIN request
      /\ \A p \in DOMAIN request : p # q => request'[p] = request[p]
      /\ \A p \in DOMAIN request : Key(p)' = Key(p) /\ request'[p].life = request[p].life
      /\ request[q].life = life /\ request'[q].pc = "handler" /\ request'[q].at = now
      /\ request[q].pc = "throttler" /\ now \in Int
      /\ Kept /\ WaitingIsCurrent' /\ NothingFromLater'
  BY <1>1, <1>2, Decided
<1>4. IsFiniteSet(DOMAIN request')
  BY <1>3
<1>5. Key(q) \in Address \X Route /\ Key(q)[2] = request[q].route
  BY <1>3, KeyType
<1>6. ~Blocked(Key(q)) /\ Cardinality(Live(Key(q))) < Limit[request[q].route]
  BY DEF Pass
<1>7. WithinLimit'
  BY <1>1, <1>2, <1>3, <1>4, <1>5, <1>6, PassKeepsLimit
<1>8. RefusalEarned'
  BY <1>3, <1>4, <1>7, ReasonsStay
<1>9. PICK k : k = Key(q)
  OBVIOUS
<1>10. /\ DOMAIN counter' = DOMAIN counter \cup {k}
       /\ counter'[k].hits = Live(k) \cup {q} /\ counter'[k].until = 0
       /\ \A j \in DOMAIN counter : j # k => counter'[j] = counter[j]
  BY <1>9 DEF Pass, Put
<1>11. HitsPassed'
  <2> SUFFICES ASSUME NEW j \in DOMAIN counter', NEW h \in counter'[j].hits
               PROVE  request'[h].pc = "handler" /\ Key(h)' = j /\ request'[h].life = life
    BY <1>2 DEF HitsPassed
  <2>1. CASE h = q /\ j = k
    BY <1>3, <1>9, <2>1
  <2>2. CASE h \in Live(k) /\ j = k
    <3>1. h \in DOMAIN request /\ request[h].pc = "handler" /\ Key(h) = j /\ request[h].life = life
      BY <2>2, LivePassed
    <3> QED
      BY <1>3, <3>1
  <2>3. CASE j \in DOMAIN counter /\ j # k /\ h \in counter[j].hits
    <3>1. h \in DOMAIN request /\ request[h].pc = "handler" /\ Key(h) = j /\ request[h].life = life
      BY <2>3 DEF HitsPassed, TypeOK
    <3> QED
      BY <1>3, <3>1
  <2> QED
    BY <1>10, <2>1, <2>2, <2>3
<1>12. PassedIsCounted'
  <2> SUFFICES ASSUME NEW p \in DOMAIN request', request'[p].pc = "handler", request'[p].life = life
               PROVE  /\ Key(p)' \in DOMAIN counter'
                      /\ request'[p].at + Ttl > now => p \in counter'[Key(p)'].hits
                      /\ counter'[Key(p)'].until # 0 => request'[p].at + Ttl <= counter'[Key(p)'].until
    BY <1>2 DEF PassedIsCounted
  <2>1. CASE p = q
    BY <1>3, <1>9, <1>10, <2>1
  <2>2. CASE p # q
    <3>1. p \in DOMAIN request /\ request'[p] = request[p] /\ Key(p)' = Key(p)
      BY <1>3, <2>2
    <3>2. CASE Key(p) = k
      BY <1>6, <1>9, <1>10, <3>1, <3>2, PassedIsLive
    <3>3. CASE Key(p) # k
      BY <1>10, <3>1, <3>3 DEF PassedIsCounted
    <3> QED
      BY <3>2, <3>3
  <2> QED
    BY <2>1, <2>2
<1>13. BlockEarned'
  <2> SUFFICES ASSUME NEW j \in DOMAIN counter', counter'[j].until # 0
               PROVE  /\ counter'[j].until - Ttl \in Time /\ counter'[j].until - Ttl <= now'
                      /\ Cardinality(Passed(j, life, counter[j].until - Ttl))' >= Limit[j[2]]
    BY DEF BlockEarned
  <2>1. j \in DOMAIN counter /\ counter'[j] = counter[j]
    BY <1>10
  <2>2. now \in Time /\ now <= now'
    BY <1>2, <1>3 DEF TypeOK
  <2> QED
    BY <1>2, <1>3, <1>4, <2>1, <2>2, BlockStays
<1> QED
  BY <1>1, <1>3, <1>4, <1>7, <1>8, <1>11, <1>12, <1>13

-----------------------------------------------------------------------------
(* The theorems.                                                            *)

LEMMA GuardStep == GuardInv /\ [Next]_vars => GuardInv'
<1> SUFFICES ASSUME GuardInv, [Next]_vars PROVE GuardInv'
  OBVIOUS
<1>1. CASE UNCHANGED vars
  <2>1. request' = request /\ counter' = counter /\ now' = now /\ life' = life
    BY <1>1 DEF vars
  <2>2. TypeOK' /\ now <= now' /\ IsFiniteSet(DOMAIN request')
    BY <2>1, TypeStep DEF GuardInv, TypeOK, Time
  <2>3. Kept /\ NoneNew /\ WaitingIsCurrent' /\ NothingFromLater'
    BY <2>1 DEF Kept, NoneNew, GuardInv, WaitingIsCurrent, NothingFromLater
  <2> QED
    BY <2>1, <2>2, <2>3, QuietStep, CountersSame DEF GuardInv
<1> QED
  BY <1>1, TickStep, RestartStep, ArriveStep, JwtStep, PassStep, RefuseStep DEF Next, Guards

\* The burst of a request is what passed by its key and in its life.
LEMMA BurstIsPassed ==
  ASSUME NEW q \in DOMAIN request, NEW b
  PROVE  Burst(q, b) = Passed(Key(q), request[q].life, b)
  BY DEF Burst, Passed, Key

\* No address gets more than the limit of a route through in any ttl of one
\* life of the process.
THEOREM RateHolds == Spec => []RatePerAddress
<1>1. GuardInv => RatePerAddress
  <2> SUFFICES ASSUME GuardInv, NEW q \in DOMAIN request, NEW b \in Time
               PROVE  Cardinality(Burst(q, b)) <= Promised(request[q].route)
    BY DEF RatePerAddress
  <2>1. Key(q) \in Address \X Route /\ Key(q)[2] = request[q].route
    BY KeyType DEF GuardInv
  <2>2. request[q] \in RequestState
    BY TableValue DEF GuardInv, TypeOK
  <2> QED
    BY <2>1, <2>2, BurstIsPassed, LimitsAsPromised DEF GuardInv, WithinLimit, RequestState
<1> QED
  BY <1>1, InitOK, GuardStep, PTL DEF Spec

\* Who is refused had used the limit up, with requests that were authenticated,
\* less than a ttl before.
THEOREM RefusalsHaveReason == Spec => []RefusedAfterBurst
<1>1. GuardInv => RefusedAfterBurst
  <2> SUFFICES ASSUME GuardInv, NEW q \in DOMAIN request, request[q].pc = "429"
               PROVE  \E b \in Time :
                        /\ b <= request[q].at /\ request[q].at < b + Ttl
                        /\ Cardinality(Burst(q, b)) = Promised(request[q].route)
    BY DEF RefusedAfterBurst
  <2>1. request[q] \in RequestState
    BY TableValue DEF GuardInv, TypeOK
  <2>2. request[q].route \in Route
    BY <2>1 DEF RequestState
  <2> QED
    BY <2>2, BurstIsPassed, LimitsAsPromised DEF GuardInv, RefusalEarned
<1> QED
  BY <1>1, InitOK, GuardStep, PTL DEF Spec
==============================================================================
