--------------------------- MODULE BootstrapProofs ---------------------------
(***************************************************************************)
(* Proofs about Bootstrap, for any environments the supervisor may give the *)
(* process and any contents of .env.                                        *)
(*                                                                         *)
(* register() reads process.env and main.ts asks ConfigService.  That both  *)
(* switches follow one reading rests on what ConfigModule.forRoot leaves    *)
(* behind: from then on process.env says of every variable what             *)
(* ConfigService says (ReadOnce), whatever becomes of .env.                  *)
(***************************************************************************)
EXTENDS Bootstrap, TableTheorems

\* The phases of a process that has read its environment and accepted it.
Reading == {"register", "create", "init", "listen", "up", "failed"}

\* One reading of the environment, valid and with its defaults.
ReadOnce ==
  phase \in Reading => "NODE_ENV" \in DOMAIN config /\ processEnv = config

ReadInv == ReadOnce /\ SwitchesAsRead

\* Of two tables of one type Over makes a third.
LEMMA OverTable ==
  ASSUME NEW S, NEW T, NEW f, NEW g, Table(f, S, T), Table(g, S, T)
  PROVE  Table(Over(f, g), S, T)
  BY DEF Over, Table

\* The defaults are a table and what the schema accepts.
LEMMA DefaultTable ==
  /\ Table(Default, Var, Value)
  /\ \A v \in DOMAIN Default : Default[v] \in Accepted(v)
<1>1. DOMAIN Default = {"NODE_ENV", "PORT"}
  BY DEF Default
<1>2. Default["NODE_ENV"] = "development" /\ Default["PORT"] = "3000"
  BY DEF Default
<1>3. Default = [v \in DOMAIN Default |-> Default[v]]
  BY DEF Default
<1> QED
  BY <1>1, <1>2, <1>3 DEF Table, Var, Value, Accepted

\* What process.env lacks is added to it from a table that has everything
\* process.env has: that makes the two the same.
LEMMA OverOfOver ==
  ASSUME NEW f, NEW g, NEW h, f = [v \in DOMAIN f |-> f[v]]
  PROVE  Over(f, Over(Over(f, g), h)) = Over(Over(f, g), h)
<1> DEFINE env == Over(f, g)
           all == Over(env, h)
<1>1. /\ DOMAIN env = DOMAIN f \cup DOMAIN g
      /\ \A v \in DOMAIN f : env[v] = f[v]
  BY DEF Over
<1>2. /\ all = [v \in DOMAIN all |-> all[v]]
      /\ DOMAIN all = DOMAIN env \cup DOMAIN h
      /\ \A v \in DOMAIN env : all[v] = env[v]
  BY DEF Over
<1>3. DOMAIN f \subseteq DOMAIN all /\ \A v \in DOMAIN f : all[v] = f[v]
  BY <1>1, <1>2
<1> HIDE DEF all
<1>4. Over(f, all) = [v \in DOMAIN all |-> all[v]]
  BY <1>3 DEF Over
<1> QED
  BY <1>2, <1>4 DEF all

-----------------------------------------------------------------------------
(* Type correctness.                                                        *)

\* Over the defaults, a valid environment is accepted in every variable.
LEMMA ValidOverDefault ==
  ASSUME NEW env, Table(env, Var, Value), Valid(env)
  PROVE  /\ Table(Over(env, Default), Var, Value)
         /\ \A v \in DOMAIN Over(env, Default) : Over(env, Default)[v] \in Accepted(v)
         /\ "NODE_ENV" \in DOMAIN Over(env, Default)
<1>1. Table(Over(env, Default), Var, Value)
  BY OverTable, DefaultTable
<1>2. ASSUME NEW v \in DOMAIN Over(env, Default)
      PROVE  Over(env, Default)[v] \in Accepted(v)
  BY <1>2, DefaultTable DEF Over, Valid
<1>3. "NODE_ENV" \in DOMAIN Over(env, Default)
  BY DEF Over, Default
<1> QED
  BY <1>1, <1>2, <1>3

LEMMA TypeInit == Init => TypeOK
<1>1. Table(Empty, Var, Value)
  BY EmptyTable
<1> QED
  BY <1>1 DEF Init, TypeOK, Phase

\* What LoadConfig does, in terms of the environment it merges.
LEMMA LoadConfigReads ==
  ASSUME TypeOK, LoadConfig
  PROVE  \/ /\ phase' = "register"
            /\ Table(config', Var, Value)
            /\ \A v \in DOMAIN config' : config'[v] \in Accepted(v)
            /\ "NODE_ENV" \in DOMAIN config'
            /\ processEnv' = config'
         \/ phase' = "refused" /\ UNCHANGED <<config, processEnv>>
<1> DEFINE env == Over(processEnv, file)
<1>1. CASE Valid(env)
  <2>1. Table(processEnv, Var, Value) /\ Table(file, Var, Value)
    BY BootstrapAssumption DEF TypeOK
  <2>2. Table(env, Var, Value)
    BY <2>1, OverTable
  <2>3. /\ config' = Over(env, Default)
        /\ processEnv' = Over(processEnv, config')
        /\ phase' = "register"
    BY <1>1 DEF LoadConfig
  <2>4. processEnv = [v \in DOMAIN processEnv |-> processEnv[v]]
    BY <2>1 DEF Table
  <2>5. processEnv' = config'
    BY <2>3, <2>4, OverOfOver
  <2> QED
    BY <1>1, <2>2, <2>3, <2>5, ValidOverDefault
<1>2. CASE ~Valid(env)
  BY <1>2 DEF LoadConfig
<1> QED
  BY <1>1, <1>2

LEMMA TypeInductive ==
  ASSUME TypeOK, [Next]_vars
  PROVE  TypeOK'
<1>1. CASE Start
  BY <1>1, BootstrapAssumption DEF Start, TypeOK, Phase, world
<1>2. CASE LoadConfig
  <2>1. UNCHANGED <<board, swagger, connected, shell, file, database, port>>
    BY <1>2 DEF LoadConfig, world
  <2> QED
    BY <1>2, <2>1, LoadConfigReads DEF TypeOK, Phase
<1>3. CASE Register
  BY <1>3 DEF Register, TypeOK, Phase, world, BullBoardEnabled
<1>4. CASE Create
  BY <1>4 DEF Create, TypeOK, Phase, world, SwaggerEnabled
<1>5. CASE Connect
  BY <1>5 DEF Connect, TypeOK, Phase, world
<1>6. CASE Listen
  BY <1>6 DEF Listen, TypeOK, Phase, world
<1>7. CASE Exit \/ Stop
  <2>1. Table(Empty, Var, Value)
    BY EmptyTable
  <2> QED
    BY <1>7, <2>1 DEF Exit, Stop, Nothing, TypeOK, Phase, world
<1>8. CASE EditFile \/ DatabaseTurns \/ PortTurns \/ UNCHANGED vars
  BY <1>8 DEF EditFile, DatabaseTurns, PortTurns, TypeOK, vars, world, process
<1> QED
  BY <1>1, <1>2, <1>3, <1>4, <1>5, <1>6, <1>7, <1>8 DEF Next, Boot

\* The type invariant: with it, that a process that listens has connected to
\* Postgres, and that one that was not refused runs on accepted values.
THEOREM Typing == Spec => []TypeOK
<1>1. Spec => Init /\ [][Next]_vars
  BY DEF Spec
<1> QED
  BY <1>1, TypeInit, TypeInductive, PTL

-----------------------------------------------------------------------------
(* The switches.                                                            *)

\* The two rules, written apart in the code, agree on a valid environment.
LEMMA RulesAgree ==
  ASSUME "NODE_ENV" \in DOMAIN config,
         \A v \in DOMAIN config : config[v] \in Accepted(v)
  PROVE  /\ BullBoardEnabled(config) = Wanted("BULL_BOARD_ENABLED")
         /\ SwaggerEnabled(config) = Wanted("SWAGGER_ENABLED")
<1>1. "BULL_BOARD_ENABLED" \in DOMAIN config =>
        config["BULL_BOARD_ENABLED"] \in {"true", "false"}
  BY DEF Accepted
<1>2. BullBoardEnabled(config) \in BOOLEAN /\ Wanted("BULL_BOARD_ENABLED") \in BOOLEAN
  BY DEF BullBoardEnabled, Wanted
<1>3. BullBoardEnabled(config) <=> Wanted("BULL_BOARD_ENABLED")
  BY <1>1 DEF BullBoardEnabled, IsUnset, Wanted
<1>4. SwaggerEnabled(config) = Wanted("SWAGGER_ENABLED")
  BY DEF SwaggerEnabled, IsUnset, Wanted
<1> QED
  BY <1>2, <1>3, <1>4

LEMMA ReadInvInductive ==
  ASSUME TypeOK, ReadInv, [Next]_vars
  PROVE  ReadInv'
<1> USE DEF ReadInv, ReadOnce, SwitchesAsRead, Reading
<1>1. CASE Start
  BY <1>1 DEF Start
<1>2. CASE LoadConfig
  BY <1>2, LoadConfigReads
<1>3. CASE Register
  <2>1. phase = "register" /\ board' = BullBoardEnabled(config)
    BY <1>3 DEF Register
  <2>2. board' = Wanted("BULL_BOARD_ENABLED")
    BY <2>1, RulesAgree DEF TypeOK
  <2> QED
    BY <1>3, <2>2 DEF Register, Wanted
<1>4. CASE Create
  <2>1. swagger' = Wanted("SWAGGER_ENABLED")
    BY <1>4, RulesAgree DEF Create, TypeOK
  <2> QED
    BY <1>4, <2>1 DEF Create, Wanted
<1>5. CASE Connect \/ Listen
  BY <1>5 DEF Connect, Listen, Wanted
<1>6. CASE Exit \/ Stop
  BY <1>6 DEF Exit, Stop
<1>7. CASE EditFile \/ DatabaseTurns \/ PortTurns \/ UNCHANGED vars
  BY <1>7 DEF EditFile, DatabaseTurns, PortTurns, vars, process, Wanted
<1> QED
  BY <1>1, <1>2, <1>3, <1>4, <1>5, <1>6, <1>7 DEF Next, Boot

\* Bull Board and Swagger UI follow one rule and one reading of the
\* environment, in every process that has decided on them, although register()
\* reads the raw process.env, main.ts asks ConfigService later, .env may change
\* in between, and the two rules are written apart.
THEOREM SwitchesFollow == Spec => []SwitchesAsRead
<1>1. Init => ReadInv
  BY DEF Init, ReadInv, ReadOnce, SwitchesAsRead, Reading
<1>2. ReadInv => SwitchesAsRead
  BY DEF ReadInv
<1>3. Spec => Init /\ [][Next]_vars
  BY DEF Spec
<1> QED
  BY <1>1, <1>2, <1>3, Typing, ReadInvInductive, PTL
==============================================================================
