------------------------------ MODULE Accounts ------------------------------
(***************************************************************************)
(* Accounts and sessions: POST /auth/register and POST /auth/login issue      *)
(* tokens, JwtStrategy.validate turns a token into the user of a request.     *)
(*                                                                         *)
(* Between the lookup of an email and what is done with it lie a bcrypt call  *)
(* and another query, during which other requests register the same email     *)
(* and an operator deletes users.  A token outlives all of that.              *)
(***************************************************************************)
EXTENDS Tables

CONSTANTS
  User,      \* the user ids Prisma may generate
  Email,     \* email addresses
  Password,  \* passwords, as far as bcrypt tells them apart (its first 72 bytes)
  Call,      \* the register and login requests of a behaviour
  Session,   \* the requests with a token of a behaviour
  None

ASSUME AccountsAssumption == None \notin User \cup Email \cup Password

VARIABLES
  account,  \* Postgres: the User table, the hash told apart by its password
  used,     \* the user ids generated so far (they are never used twice)
  call,     \* the register and login requests and their answers
  session   \* the requests with a token and whom they were taken for

vars == <<account, used, call, session>>

-----------------------------------------------------------------------------
Account == [email: Email, password: Password]

\* The JWT payload, and what the holder proved when it was signed.
Token == [sub: User, email: Email, password: Password]

CallState == [op: {"register", "login"}, email: Email, password: Password,
              pc: {"find", "hash", "create", "compare", "200", "201", "401", "409"},
              found: User \cup {None}, hash: Password \cup {None},
              token: Token \cup {None}]

SessionState == [token: Token, pc: {"validate", "handler", "401"}, as: User \cup {None}]

TypeOK ==
  /\ Table(account, User, Account)
  /\ DOMAIN account \subseteq used /\ used \subseteq User
  /\ Table(call, Call, CallState)
  /\ Table(session, Session, SessionState)

Holders(email) == {u \in DOMAIN account : account[u].email = email}

Init ==
  /\ account = Empty
  /\ used = {}
  /\ call = Empty
  /\ session = Empty

\* A validated request reaches AuthService.
Arrive(c, op, email, password) ==
  /\ c \notin DOMAIN call
  /\ call' = Put(call, c, [op |-> op, email |-> email, password |-> password,
                           pc |-> "find", found |-> None, hash |-> None, token |-> None])
  /\ UNCHANGED <<account, used, session>>

At(c, op, pc) == c \in DOMAIN call /\ call[c].op = op /\ call[c].pc = pc

Reply(c, pc) == call' = [call EXCEPT ![c].pc = pc]

\* signToken, and the answer with the token for user u.
SignedToken(c, pc, u) ==
  call' = [call EXCEPT ![c].pc = pc,
             ![c].token = [sub |-> u, email |-> call[c].email,
                           password |-> call[c].password]]

-----------------------------------------------------------------------------
(* AuthService.register.                                                    *)

\* The lookup up front.
RegisterFind(c) ==
  /\ At(c, "register", "find")
  /\ Reply(c, IF Holders(call[c].email) # {} THEN "409" ELSE "hash")
  /\ UNCHANGED <<account, used, session>>

\* Mutant: the hash is not stored.
RegisterHashLost(c) ==
  /\ At(c, "register", "hash")
  /\ Reply(c, "create")
  /\ UNCHANGED <<account, used, session>>

\* bcrypt.hash.
RegisterHash(c) ==
  /\ At(c, "register", "hash")
  /\ call' = [call EXCEPT ![c].pc = "create", ![c].hash = call[c].password]
  /\ UNCHANGED <<account, used, session>>

\* Mutant: the lookup is relied upon, there is no unique index.
RegisterCreateUnchecked(c) ==
  /\ At(c, "register", "create")
  /\ \E u \in User \ used :
       /\ account' = Put(account, u, [email |-> call[c].email, password |-> call[c].hash])
       /\ used' = used \cup {u}
       /\ SignedToken(c, "201", u)
  /\ UNCHANGED session

\* user.create: the unique index on the email answers 409 (P2002) to a second
\* registration that was past the lookup.
RegisterCreate(c) ==
  /\ At(c, "register", "create")
  /\ IF Holders(call[c].email) # {}
     THEN Reply(c, "409") /\ UNCHANGED <<account, used>>
     ELSE \E u \in User \ used :
            /\ account' = Put(account, u, [email |-> call[c].email, password |-> call[c].hash])
            /\ used' = used \cup {u}
            /\ SignedToken(c, "201", u)
  /\ UNCHANGED session

-----------------------------------------------------------------------------
(* AuthService.login.                                                       *)

\* The account is read once, with its hash.
LoginFind(c) ==
  /\ At(c, "login", "find")
  /\ \/ /\ Holders(call[c].email) = {}
        /\ Reply(c, "401")
     \/ \E u \in Holders(call[c].email) :
          call' = [call EXCEPT ![c].pc = "compare", ![c].found = u,
                               ![c].hash = account[u].password]
  /\ UNCHANGED <<account, used, session>>

\* Mutant: the promise of bcrypt.compare is not awaited, so it is truthy.
LoginCompareUnawaited(c) ==
  /\ At(c, "login", "compare")
  /\ SignedToken(c, "200", call[c].found)
  /\ UNCHANGED <<account, used, session>>

\* bcrypt.compare with the hash read before.
LoginCompare(c) ==
  /\ At(c, "login", "compare")
  /\ IF call[c].hash = call[c].password
     THEN SignedToken(c, "200", call[c].found) ELSE Reply(c, "401")
  /\ UNCHANGED <<account, used, session>>

-----------------------------------------------------------------------------
(* The token in use.                                                        *)

\* A request with a token that was issued, at any time before its expiry.
Present(s, c) ==
  /\ s \notin DOMAIN session
  /\ c \in DOMAIN call /\ call[c].token # None
  /\ session' = Put(session, s, [token |-> call[c].token, pc |-> "validate", as |-> None])
  /\ UNCHANGED <<account, used, call>>

\* Mutant: the user is looked up by the email of the token.
ValidateByEmail(s) ==
  /\ s \in DOMAIN session /\ session[s].pc = "validate"
  /\ \/ /\ Holders(session[s].token.email) = {}
        /\ session' = [session EXCEPT ![s].pc = "401"]
     \/ \E u \in Holders(session[s].token.email) :
          session' = [session EXCEPT ![s].pc = "handler", ![s].as = u]
  /\ UNCHANGED <<account, used, call>>

\* JwtStrategy.validate: the user is looked up by the sub of the token.
Validate(s) ==
  /\ s \in DOMAIN session /\ session[s].pc = "validate"
  /\ session' = IF session[s].token.sub \in DOMAIN account
                THEN [session EXCEPT ![s].pc = "handler", ![s].as = session[s].token.sub]
                ELSE [session EXCEPT ![s].pc = "401"]
  /\ UNCHANGED <<account, used, call>>

\* An operator deletes a user in the database; nothing in the API does.
DeleteUser(u) ==
  /\ u \in DOMAIN account
  /\ account' = Drop(account, u)
  /\ UNCHANGED <<used, call, session>>

Serve(c) ==
  \/ RegisterFind(c)
  \/ RegisterHash(c)
  \/ RegisterCreate(c)
  \/ LoginFind(c)
  \/ LoginCompare(c)

Next ==
  \/ \E c \in Call : Serve(c)
  \/ \E c \in Call, op \in {"register", "login"}, email \in Email, password \in Password :
       Arrive(c, op, email, password)
  \/ \E s \in Session : Validate(s) \/ \E c \in Call : Present(s, c)
  \/ \E u \in User : DeleteUser(u)

Spec == Init /\ [][Next]_vars

-----------------------------------------------------------------------------
(* Properties.                                                              *)

\* An email has one account at most, although a registration looks the email up
\* one bcrypt call and one query before it creates the account.
EmailUnique ==
  \A u, v \in DOMAIN account : account[u].email = account[v].email => u = v

\* A token is proof: whoever holds it presented the email and the password of
\* the account it names, although the account may have been deleted, and the
\* email registered again, between the lookup and the comparison.
TokenIsProof ==
  \A c \in DOMAIN call :
    call[c].token # None /\ call[c].token.sub \in DOMAIN account =>
      /\ account[call[c].token.sub].email = call[c].email
      /\ account[call[c].token.sub].password = call[c].password

\* A request with a token acts as the account the token was issued for, or is
\* answered 401: never as a later account with the same email ("email is not
\* trusted, we always re-look-up the user by id").
SessionOfHolder ==
  \A s \in DOMAIN session :
    session[s].pc = "handler" =>
      /\ session[s].as = session[s].token.sub
      /\ session[s].as \in DOMAIN account =>
           account[session[s].as] = [email |-> session[s].token.email,
                                     password |-> session[s].token.password]
=============================================================================
