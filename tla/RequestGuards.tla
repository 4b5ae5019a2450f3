---------------------------- MODULE RequestGuards ----------------------------
(***************************************************************************)
(* What every request passes before its handler: JwtAuthGuard, which looks    *)
(* the user of a token up in Postgres unless the route is @Public(), then     *)
(* ThrottlerGuard, which counts by address and route in the memory of the     *)
(* process.                                                                 *)
(*                                                                         *)
(* Requests of several addresses are between the two guards at once, time    *)
(* goes on while the first one queries, and a restart forgets the counters.  *)
(* The storage of @nestjs/throttler is not in the repository: it is modelled  *)
(* by what the code relies on, limits over a sliding ttl and, past a limit,  *)
(* a block as long as the ttl.                                              *)
(***************************************************************************)
EXTENDS Integers, FiniteSets, Tables

CONSTANTS
  Address,       \* the addresses requests come from
  Route,         \* the handlers
  Public,        \* those marked @Public()
  Throttled,     \* those with a @Throttle of their own: login
  DefaultLimit,  \* limit: 100
  LoginLimit,    \* limit: 5
  Ttl,           \* ttl: 60_000, the window the limits are for
  Request,       \* the requests of a behaviour
  MaxTime,       \* bound on the clock
  MaxLife        \* bound on the number of restarts

ASSUME GuardsAssumption ==
  /\ Public \subseteq Route /\ Throttled \subseteq Route
  /\ DefaultLimit \in Nat \ {0} /\ LoginLimit \in Nat \ {0}
  /\ Ttl \in Nat \ {0} /\ MaxTime \in Nat /\ MaxLife \in Nat

VARIABLES
  now,      \* the clock
  life,     \* how often the process was restarted
  request,  \* the requests and where they are
  counter   \* the throttler's storage, by address and route

vars == <<now, life, request, counter>>

-----------------------------------------------------------------------------
Time == 0..MaxTime

\* Mutant: the override is for a throttler of another name than 'default'.
LimitNotOverridden == [r \in Route |-> DefaultLimit]

\* What ThrottlerModule is configured with, and what @Throttle overrides.
Limit == [r \in Route |-> IF r \in Throttled THEN LoginLimit ELSE DefaultLimit]

\* Mutant: a block of its own length.
BlockDurationLonger == Ttl + 1

\* blockDuration is not configured: the ttl takes its place.
BlockDuration == Ttl

\* "handler" is where a request is past both guards; at and life are history:
\* when the throttler decided, and in which life of the process it arrived.
RequestState ==
  [from: Address, route: Route, at: Time, life: 0..MaxLife,
   pc: {"jwt", "throttler", "handler", "401", "429", "500", "lost"}]

\* The hits that count, and the end of a block; 0 when there is none.
Counter == [hits: SUBSET Request, until: 0..(MaxTime + Ttl)]

TypeOK ==
  /\ now \in Time /\ life \in 0..MaxLife
  /\ Table(request, Request, RequestState)
  /\ Table(counter, Address \X Route, Counter)
  /\ \A k \in DOMAIN counter :
       /\ counter[k].hits \subseteq DOMAIN request
       /\ counter[k].until <= now + Ttl

Init ==
  /\ now = 0 /\ life = 0
  /\ request = Empty
  /\ counter = Empty

Tick ==
  /\ now < MaxTime
  /\ now' = now + 1
  /\ UNCHANGED <<life, request, counter>>

Arrive(q, a, r) ==
  /\ q \notin DOMAIN request
  /\ request' = Put(request, q, [from |-> a, route |-> r, at |-> 0, life |-> life, pc |-> "jwt"])
  /\ UNCHANGED <<now, life, counter>>

At(q, pc) == q \in DOMAIN request /\ request[q].pc = pc

-----------------------------------------------------------------------------
(* The counters and the two guards.                                         *)

Key(q) == <<request[q].from, request[q].route>>

Stored(k) == IF k \in DOMAIN counter THEN counter[k] ELSE [hits |-> {}, until |-> 0]

Blocked(k) == Stored(k).until > now

\* The hits of the last ttl; the end of a block starts a new count.
Live(k) ==
  {h \in Stored(k).hits : Stored(k).until = 0 /\ request[h].at + Ttl > now}

\* Mutant: the throttler is the first of the two guards.
JwtGuardSecond(q) ==
  /\ At(q, "jwt")
  /\ request' \in {[request EXCEPT ![q].pc = pc, ![q].at = now] :
                     pc \in IF request[q].route \in Public THEN {"throttler"}
                            ELSE {"throttler", "401", "500"}}
  /\ counter' = IF request'[q].pc = "throttler" THEN counter
                ELSE Put(counter, Key(q), [Stored(Key(q)) EXCEPT !.hits = @ \cup {q}])
  /\ UNCHANGED <<now, life>>

\* canActivate of JwtAuthGuard: the token and its user are good or not, or the
\* lookup fails.
JwtGuard(q) ==
  /\ At(q, "jwt")
  /\ request' \in {[request EXCEPT ![q].pc = pc] :
                     pc \in IF request[q].route \in Public THEN {"throttler"}
                            ELSE {"throttler", "401", "500"}}
  /\ UNCHANGED <<now, life, counter>>

Decide(q, pc) == request' = [request EXCEPT ![q].pc = pc, ![q].at = now]

\* Below the limit a request is counted and goes on to its handler.
Pass(q) ==
  LET k == Key(q) IN
  /\ At(q, "throttler")
  /\ ~Blocked(k) /\ Cardinality(Live(k)) < Limit[request[q].route]
  /\ counter' = Put(counter, k, [hits |-> Live(k) \cup {q}, until |-> 0])
  /\ Decide(q, "handler")
  /\ UNCHANGED <<now, life>>

\* 429: the route is blocked for the address, or from now on.
Refuse(q) ==
  LET k == Key(q) IN
  /\ At(q, "throttler")
  /\ \/ Blocked(k) /\ UNCHANGED counter
     \/ /\ ~Blocked(k) /\ Cardinality(Live(k)) >= Limit[request[q].route]
        /\ counter' = Put(counter, k, [hits |-> Live(k), until |-> now + BlockDuration])
  /\ Decide(q, "429")
  /\ UNCHANGED <<now, life>>

\* The process dies and is started again.
Restart ==
  /\ life < MaxLife
  /\ life' = life + 1
  /\ counter' = Empty
  /\ request' = [q \in DOMAIN request |->
                   IF request[q].pc \in {"jwt", "throttler"}
                   THEN [request[q] EXCEPT !.pc = "lost"] ELSE request[q]]
  /\ UNCHANGED now

\* The guards in the order AppModule declares them.
Guards(q) ==
  \/ JwtGuard(q)
  \/ Pass(q)
  \/ Refuse(q)

Next ==
  \/ Tick
  \/ Restart
  \/ \E q \in Request :
       Guards(q) \/ \E a \in Address, r \in Route : Arrive(q, a, r)

Spec == Init /\ [][Next]_vars

-----------------------------------------------------------------------------
(* Properties.                                                              *)

\* The requests like q that reached their handler within the ttl before b.
Burst(q, b) ==
  {p \in DOMAIN request :
     /\ request[p].pc = "handler"
     /\ request[p].from = request[q].from /\ request[p].route = request[q].route
     /\ request[p].life = request[q].life
     /\ b - Ttl < request[p].at /\ request[p].at <= b}

\* What the comments promise: "5/min per IP on this endpoint", "100 requests /
\* minute / IP by default".
Promised(r) == IF r \in Throttled THEN LoginLimit ELSE DefaultLimit

\* The promise is kept: in one life of the process no window of the ttl,
\* wherever it begins, lets more than the limit of a route through for an
\* address, although requests pile up between the guards, blocks end in the
\* middle of windows, and counts start again after a block.
RatePerAddress ==
  \A q \in DOMAIN request : \A b \in Time :
    Cardinality(Burst(q, b)) <= Promised(request[q].route)

\* Nobody is refused for less: a 429 comes within a ttl of the moment the
\* address had used the limit up on that very route, with requests that were
\* authenticated.  So requests that failed authentication cost nothing, refused
\* ones do not keep a block alive, and login and the rest do not spend each
\* other's slots.
RefusedAfterBurst ==
  \A q \in DOMAIN request :
    request[q].pc = "429" =>
      \E b \in Time :
        /\ b <= request[q].at /\ request[q].at < b + Ttl
        /\ Cardinality(Burst(q, b)) = Promised(request[q].route)
=============================================================================
