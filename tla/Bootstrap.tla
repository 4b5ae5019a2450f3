------------------------------ MODULE Bootstrap ------------------------------
(***************************************************************************)
(* The life of the API process: a supervisor starts it, AppModule reads and  *)
(* validates the environment while it is imported, bootstrap() builds the    *)
(* application, connects to Postgres and listens, and any failure on the way *)
(* exits, to be started again.                                              *)
(*                                                                         *)
(* Meanwhile an operator edits .env, Postgres comes and goes, the port is    *)
(* taken and freed, and the process is stopped.  What the process serves is  *)
(* decided by the environment as it was read, which reaches the two switches *)
(* (Swagger UI, Bull Board) along different ways.                           *)
(***************************************************************************)
EXTENDS Tables

CONSTANTS
  Shell,  \* the environments the supervisor may start the process with
  File    \* the contents .env may have

VARIABLES
  shell,       \* the environment the supervisor starts the process with
  file,        \* what .env says
  database,    \* whether Postgres can be reached
  port,        \* whether the port is free
  phase,       \* how far the process is
  processEnv,  \* process.env
  config,      \* what ConfigService answers from
  board,       \* whether Bull Board is mounted
  swagger,     \* whether Swagger UI is mounted
  connected    \* whether PrismaService has connected

world == <<shell, file, database, port>>
process == <<phase, processEnv, config, board, swagger, connected>>
vars == <<world, process>>

-----------------------------------------------------------------------------
(* The environment.  JWT_SECRET stands for the variables without a default,  *)
(* PORT for the numbers; a value no schema accepts is "junk", the empty       *)
(* string included.                                                         *)

Var   == {"NODE_ENV", "PORT", "JWT_SECRET", "SWAGGER_ENABLED", "BULL_BOARD_ENABLED"}
Value == {"development", "test", "production", "3000", "0", "secret", "true", "false", "junk"}

\* An environment and an .env say something of some of the variables.
ASSUME BootstrapAssumption == \A env \in Shell \cup File : Table(env, Var, Value)

\* envSchema: what each variable may be, and the defaults.
Accepted(v) ==
  CASE v = "NODE_ENV"   -> {"development", "test", "production"}
    [] v = "PORT"       -> {"3000"}
    [] v = "JWT_SECRET" -> {"secret"}
    [] OTHER            -> {"true", "false"}

Default == [NODE_ENV |-> "development", PORT |-> "3000"]

\* Both tables; where they disagree the first.
Over(f, g) == [v \in DOMAIN f \cup DOMAIN g |-> IF v \in DOMAIN f THEN f[v] ELSE g[v]]

Valid(env) ==
  /\ "JWT_SECRET" \in DOMAIN env
  /\ \A v \in DOMAIN env : env[v] \in Accepted(v)

Phase == {"down", "import", "register", "create", "init", "listen", "up",
          "refused", "failed"}

TypeOK ==
  /\ shell \in Shell /\ file \in File
  /\ database \in BOOLEAN /\ port \in BOOLEAN
  /\ phase \in Phase
  /\ Table(processEnv, Var, Value)
  /\ Table(config, Var, Value)
  /\ phase \notin {"down", "import", "refused"} =>
       \A v \in DOMAIN config : config[v] \in Accepted(v)
  /\ board \in BOOLEAN /\ swagger \in BOOLEAN /\ connected \in BOOLEAN
  /\ phase \in {"listen", "up"} => connected

Nothing ==
  /\ processEnv' = Empty
  /\ config' = Empty
  /\ board' = FALSE
  /\ swagger' = FALSE
  /\ connected' = FALSE

Init ==
  /\ shell \in Shell /\ file \in File
  /\ database \in BOOLEAN /\ port \in BOOLEAN
  /\ phase = "down"
  /\ processEnv = Empty /\ config = Empty
  /\ board = FALSE /\ swagger = FALSE /\ connected = FALSE

-----------------------------------------------------------------------------
(* The process.                                                             *)

\* The supervisor starts it.
Start ==
  /\ phase = "down"
  /\ phase' = "import"
  /\ processEnv' = shell
  /\ UNCHANGED <<config, board, swagger, connected, world>>

\* ConfigModule.forRoot, first of AppModule's imports: .env below process.env,
\* validateEnv, and what process.env lacks is added to it.
LoadConfig ==
  LET env == Over(processEnv, file) IN
  /\ phase = "import"
  /\ \/ /\ Valid(env)
        /\ config' = Over(env, Default)
        /\ processEnv' = Over(processEnv, config')
        /\ phase' = "register"
     \/ /\ ~Valid(env)
        /\ phase' = "refused"
        /\ UNCHANGED <<config, processEnv>>
  /\ UNCHANGED <<board, swagger, connected, world>>

IsUnset(env, v) == v \notin DOMAIN env

\* bullBoardEnabledFromEnv.
BullBoardEnabled(env) ==
  \/ ~IsUnset(env, "BULL_BOARD_ENABLED") /\ env["BULL_BOARD_ENABLED"] = "true"
  \/ /\ IsUnset(env, "BULL_BOARD_ENABLED") \/ env["BULL_BOARD_ENABLED"] \notin {"true", "false"}
     /\ IsUnset(env, "NODE_ENV") \/ env["NODE_ENV"] # "production"

\* Mutant: QueueModule.register() runs before ConfigModule.forRoot().
RegisterFirst ==
  /\ phase = "register"
  /\ phase' = "create"
  /\ board' = BullBoardEnabled(shell)
  /\ UNCHANGED <<processEnv, config, swagger, connected, world>>

\* QueueModule.register reads process.env: there is no ConfigService yet.
Register ==
  /\ phase = "register"
  /\ phase' = "create"
  /\ board' = BullBoardEnabled(processEnv)
  /\ UNCHANGED <<processEnv, config, swagger, connected, world>>

SwaggerEnabled(cfg) ==
  IF IsUnset(cfg, "SWAGGER_ENABLED") THEN cfg["NODE_ENV"] # "production"
  ELSE cfg["SWAGGER_ENABLED"] = "true"

\* NestFactory.create, the middleware, and Swagger as ConfigService has it.
Create ==
  /\ phase = "create"
  /\ phase' = "init"
  /\ swagger' = SwaggerEnabled(config)
  /\ UNCHANGED <<processEnv, config, board, connected, world>>

\* Mutant: the promise of $connect is not awaited.
ConnectUnawaited ==
  /\ phase = "init"
  /\ phase' = "listen"
  /\ connected' = database
  /\ UNCHANGED <<processEnv, config, board, swagger, world>>

\* app.listen first runs PrismaService.onModuleInit.
Connect ==
  /\ phase = "init"
  /\ phase' = IF database THEN "listen" ELSE "failed"
  /\ connected' = database
  /\ UNCHANGED <<processEnv, config, board, swagger, world>>

\* Then it binds the port.
Listen ==
  /\ phase = "listen"
  /\ phase' = IF port THEN "up" ELSE "failed"
  /\ UNCHANGED <<processEnv, config, board, swagger, connected, world>>

\* Mutant: a failed bootstrap is logged and nothing else.
ExitNever ==
  /\ phase = "refused"
  /\ phase' = "down"
  /\ Nothing
  /\ UNCHANGED world

\* process.exit(1), or the exception of an import that nothing catches.
Exit ==
  /\ phase \in {"refused", "failed"}
  /\ phase' = "down"
  /\ Nothing
  /\ UNCHANGED world

\* A signal or a crash, at any moment.
Stop ==
  /\ phase # "down"
  /\ phase' = "down"
  /\ Nothing
  /\ UNCHANGED world

-----------------------------------------------------------------------------
(* The world around it.                                                     *)

EditFile ==
  /\ file' \in File
  /\ UNCHANGED <<shell, database, port, process>>

DatabaseTurns ==
  /\ database' = ~database
  /\ UNCHANGED <<shell, file, port, process>>

\* Another process takes the port or frees it; while this one holds it nobody
\* else can.
PortTurns ==
  /\ phase # "up"
  /\ port' = ~port
  /\ UNCHANGED <<shell, file, database, process>>

Boot ==
  \/ Start
  \/ LoadConfig
  \/ Register
  \/ Create
  \/ Connect
  \/ Listen
  \/ Exit

Next ==
  \/ Boot
  \/ Stop
  \/ EditFile
  \/ DatabaseTurns
  \/ PortTurns

\* The supervisor starts what is down and the process runs on.
Fairness == WF_vars(Boot)

Spec == Init /\ [][Next]_vars /\ Fairness

-----------------------------------------------------------------------------
(* Properties.                                                              *)

\* What a switch should be: as set, else on unless in production.
Wanted(v) ==
  IF v \in DOMAIN config THEN config[v] = "true" ELSE config["NODE_ENV"] # "production"

\* Bull Board and Swagger UI are mounted by one rule and one reading of the
\* environment, wherever a variable was set: although register() reads the raw
\* process.env before there is a ConfigService, although .env may be edited at
\* any time, and although the two rules are written apart.
SwitchesAsRead ==
  /\ phase \in {"create", "init", "listen", "up"} => board = Wanted("BULL_BOARD_ENABLED")
  /\ phase \in {"init", "listen", "up"} => swagger = Wanted("SWAGGER_ENABLED")

\* "Process supervisors restart us instead of silently hanging": once the
\* environment is right, Postgres reachable and the port free, the process gets
\* to listen, again after every stop, however many boots failed before; only
\* one that is stopped for ever again while it boots never does.
ComesUp ==
  <>[](Valid(Over(shell, file)) /\ database /\ port) =>
    []<>(phase = "up") \/ []<><<Stop /\ phase # "up">>_vars

\* The environment test/setup.ts prepares for the e2e tests lets the
\* application start.
TestSetup ==
  [NODE_ENV |-> "test", PORT |-> "0", JWT_SECRET |-> "secret", BULL_BOARD_ENABLED |-> "false"]

TestSetupAccepted == shell = TestSetup => phase # "refused"
=============================================================================
