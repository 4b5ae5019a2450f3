---------------------------- MODULE AccountsProofs ----------------------------
(***************************************************************************)
(* Tokens prove what they say, for any users, emails, passwords, calls and    *)
(* sessions: theorems about Accounts.                                       *)
(*                                                                         *)
(* The argument is that an id, once generated, names one account: a row is    *)
(* never changed, and an id whose row is gone is not generated again.        *)
(***************************************************************************)
EXTENDS Accounts, TableTheorems

\* If there is an account u, it has this email and this password; and there
\* will be no other.
Names(u, email, password) ==
  /\ u \in used
  /\ u \in DOMAIN account => account[u] = [email |-> email, password |-> password]

\* What a call knows: the hash a registration is about to store, the account a
\* login is about to compare with, and what a token says.
CallOK(v) ==
  /\ v.op = "register" /\ v.pc = "create" => v.hash = v.password
  /\ v.op = "login" /\ v.pc = "compare" => Names(v.found, v.email, v.hash)
  /\ v.token # None =>
       /\ v.token.email = v.email /\ v.token.password = v.password
       /\ Names(v.token.sub, v.email, v.password)

SessionOK(v) ==
  /\ Names(v.token.sub, v.token.email, v.token.password)
  /\ v.pc = "handler" => v.as = v.token.sub

CallsOK    == \A c \in DOMAIN call : CallOK(call[c])
SessionsOK == \A s \in DOMAIN session : SessionOK(session[s])

AccountsInv == TypeOK /\ EmailUnique /\ CallsOK /\ SessionsOK

-----------------------------------------------------------------------------
(* The type.                                                                *)

LEMMA CallType ==
  ASSUME TypeOK, NEW c \in DOMAIN call
  PROVE  call[c] \in CallState /\ c \in Call
  BY TableValue DEF TypeOK

\* A call that goes on, with whatever it learns, keeps its type.
LEMMA CallMoves ==
  ASSUME TypeOK, NEW c \in DOMAIN call, NEW v \in CallState
  PROVE  Table([call EXCEPT ![c] = v], Call, CallState)
  BY ExceptTable DEF TypeOK

\* An answer is a state of a call, with or without a token.
LEMMA ReplyType ==
  ASSUME TypeOK, NEW c \in DOMAIN call,
         NEW pc \in {"find", "hash", "create", "compare", "200", "201", "401", "409"},
         Reply(c, pc)
  PROVE  Table(call', Call, CallState)
<1>1. [call[c] EXCEPT !.pc = pc] \in CallState
  BY CallType DEF CallState
<1>2. call' = [call EXCEPT ![c] = [call[c] EXCEPT !.pc = pc]]
  BY DEF Reply
<1> QED
  BY <1>1, <1>2, CallMoves

LEMMA SignedType ==
  ASSUME TypeOK, NEW c \in DOMAIN call, NEW pc \in {"200", "201"}, NEW u \in User,
         SignedToken(c, pc, u)
  PROVE  /\ Table(call', Call, CallState)
         /\ DOMAIN call' = DOMAIN call
         /\ \A x \in DOMAIN call : x # c => call'[x] = call[x]
         /\ call'[c] = [call[c] EXCEPT !.pc = pc,
                          !.token = [sub |-> u, email |-> call[c].email,
                                     password |-> call[c].password]]
<1> DEFINE t == [sub |-> u, email |-> call[c].email, password |-> call[c].password]
           v == [call[c] EXCEPT !.pc = pc, !.token = t]
<1>1. t \in Token
  BY CallType DEF CallState, Token
<1>2. v \in CallState
  BY <1>1, CallType DEF CallState
<1>3. call' = [call EXCEPT ![c] = v]
  BY DEF SignedToken
<1>4. Table(call', Call, CallState)
  BY <1>2, <1>3, CallMoves
<1> QED
  BY <1>3, <1>4

-----------------------------------------------------------------------------
(* What stays.                                                              *)

\* An id that was used keeps its account, or loses it.
Kept ==
  /\ used \subseteq used'
  /\ \A u \in used : u \in DOMAIN account' => u \in DOMAIN account /\ account'[u] = account[u]

LEMMA NamesStay ==
  ASSUME Kept, NEW u, NEW e, NEW p, Names(u, e, p)
  PROVE  Names(u, e, p)'
  BY DEF Kept, Names

LEMMA CallStays ==
  ASSUME Kept, NEW v, CallOK(v)
  PROVE  CallOK(v)'
  BY NamesStay DEF CallOK

LEMMA SessionStays ==
  ASSUME Kept, NEW v, SessionOK(v)
  PROVE  SessionOK(v)'
  BY NamesStay DEF SessionOK

LEMMA SessionsStay ==
  ASSUME Kept, SessionsOK, session' = session
  PROVE  SessionsOK'
<1> SUFFICES ASSUME NEW s \in DOMAIN session
             PROVE  SessionOK(session[s])'
  BY DEF SessionsOK
<1>1. PICK v : v = session[s]
  OBVIOUS
<1>2. SessionOK(v)'
  BY <1>1, SessionStays DEF SessionsOK
<1> QED
  BY <1>1, <1>2

\* A step of one call, or none: the others know what they knew.
LEMMA CallsStay ==
  ASSUME Kept, CallsOK, NEW c, NEW v, CallOK(v)',
         \A x \in DOMAIN call' : \/ x = c /\ call'[x] = v
                                 \/ x \in DOMAIN call /\ call'[x] = call[x]
  PROVE  CallsOK'
<1> SUFFICES ASSUME NEW x \in DOMAIN call'
             PROVE  CallOK(call[x])'
  BY DEF CallsOK
<1>1. PICK w : w = call'[x]
  OBVIOUS
<1>2. CallOK(w)'
  <2>1. CASE x = c /\ w = v
    BY <2>1
  <2>2. CASE x \in DOMAIN call /\ w = call[x]
    BY <2>2, CallStays DEF CallsOK
  <2> QED
    BY <1>1, <2>1, <2>2
<1> QED
  BY <1>1, <1>2

\* What a step that changes one call only leaves.
LEMMA OneCall ==
  ASSUME AccountsInv, account' = account, used' = used, session' = session,
         Table(call', Call, CallState), NEW c, NEW v, CallOK(v),
         \A x \in DOMAIN call' : \/ x = c /\ call'[x] = v
                                 \/ x \in DOMAIN call /\ call'[x] = call[x]
  PROVE  AccountsInv'
<1>1. Kept
  BY DEF Kept
<1>2. CallOK(v)'
  BY <1>1, CallStays
<1>3. CallsOK' /\ SessionsOK'
  BY <1>1, <1>2, CallsStay, SessionsStay DEF AccountsInv
<1> QED
  BY <1>3 DEF AccountsInv, TypeOK, EmailUnique

-----------------------------------------------------------------------------
(* Each action keeps the invariant.                                          *)

LEMMA InitOK == Init => AccountsInv
<1> SUFFICES ASSUME Init PROVE AccountsInv
  OBVIOUS
<1>1. DOMAIN account = {} /\ DOMAIN call = {} /\ DOMAIN session = {} /\ used = {}
  BY DEF Init, Empty
<1>2. TypeOK
  BY <1>1, EmptyTable DEF Init, TypeOK
<1> QED
  BY <1>1, <1>2 DEF AccountsInv, EmailUnique, CallsOK, SessionsOK

LEMMA ArriveStep ==
  ASSUME AccountsInv, NEW c \in Call, NEW op \in {"register", "login"}, NEW email \in Email,
         NEW password \in Password, Arrive(c, op, email, password)
  PROVE  AccountsInv'
<1> DEFINE v == [op |-> op, email |-> email, password |-> password,
                 pc |-> "find", found |-> None, hash |-> None, token |-> None]
<1>1. v \in CallState /\ CallOK(v)
  BY DEF CallState, CallOK
<1>2. call' = Put(call, c, v)
  BY DEF Arrive
<1>3. Table(call', Call, CallState)
  BY <1>1, <1>2, PutTable DEF AccountsInv, TypeOK
<1>4. \A x \in DOMAIN call' : \/ x = c /\ call'[x] = v
                              \/ x \in DOMAIN call /\ call'[x] = call[x]
  BY <1>2 DEF Put
<1>5. account' = account /\ used' = used /\ session' = session
  BY DEF Arrive
<1> QED
  BY <1>1, <1>3, <1>4, <1>5, OneCall

\* An answer without a token, or the next step of a call that knows no more.
LEMMA ReplyStep ==
  ASSUME AccountsInv, NEW c \in DOMAIN call, NEW pc \in {"hash", "401", "409"},
         Reply(c, pc), account' = account, used' = used, session' = session
  PROVE  AccountsInv'
<1> DEFINE v == [call[c] EXCEPT !.pc = pc]
<1>1. call[c] \in CallState /\ CallOK(call[c])
  BY CallType DEF AccountsInv, CallsOK
<1>2. CallOK(v)
  BY <1>1 DEF CallOK, CallState
<1>3. call' = [call EXCEPT ![c] = v]
  BY DEF Reply
<1>4. Table(call', Call, CallState)
  BY ReplyType DEF AccountsInv
<1> QED
  BY <1>2, <1>3, <1>4, OneCall

LEMMA RegisterHashStep ==
  ASSUME AccountsInv, NEW c \in Call, RegisterHash(c)
  PROVE  AccountsInv'
<1> DEFINE v == [call[c] EXCEPT !.pc = "create", !.hash = call[c].password]
<1>1. c \in DOMAIN call /\ call[c].op = "register"
  BY DEF RegisterHash, At
<1>2. call[c] \in CallState /\ CallOK(call[c])
  BY <1>1, CallType DEF AccountsInv, CallsOK
<1>3. v \in CallState /\ CallOK(v)
  BY <1>1, <1>2 DEF CallOK, CallState
<1>4. call' = [call EXCEPT ![c] = v]
  BY DEF RegisterHash
<1>5. Table(call', Call, CallState)
  BY <1>1, <1>3, <1>4, CallMoves DEF AccountsInv
<1>6. account' = account /\ used' = used /\ session' = session
  BY DEF RegisterHash
<1> QED
  BY <1>3, <1>4, <1>5, <1>6, OneCall

LEMMA LoginFindStep ==
  ASSUME AccountsInv, NEW c \in Call, LoginFind(c)
  PROVE  AccountsInv'
<1>1. c \in DOMAIN call /\ call[c].op = "login"
  BY DEF LoginFind, At
<1>2. account' = account /\ used' = used /\ session' = session
  BY DEF LoginFind
<1>3. CASE Reply(c, "401")
  BY <1>1, <1>2, <1>3, ReplyStep
<1>4. ASSUME NEW u \in Holders(call[c].email),
             call' = [call EXCEPT ![c].pc = "compare", ![c].found = u,
                                  ![c].hash = account[u].password]
      PROVE  AccountsInv'
  <2> DEFINE v == [call[c] EXCEPT !.pc = "compare", !.found = u, !.hash = account[u].password]
  <2>1. u \in DOMAIN account /\ account[u].email = call[c].email
    BY DEF Holders
  <2>2. account[u] \in Account /\ u \in User /\ u \in used
    BY <2>1, TableValue DEF AccountsInv, TypeOK
  <2>3. account[u] = [email |-> call[c].email, password |-> account[u].password]
    BY <2>1, <2>2 DEF Account
  <2>4. call[c] \in CallState /\ CallOK(call[c])
    BY <1>1, CallType DEF AccountsInv, CallsOK
  <2>5. v \in CallState
    BY <2>2, <2>4 DEF CallState, Account
  <2>6. CallOK(v)
    BY <1>1, <2>2, <2>3, <2>4 DEF CallOK, CallState, Names
  <2>7. call' = [call EXCEPT ![c] = v]
    BY <1>4
  <2>8. Table(call', Call, CallState)
    BY <1>1, <2>5, <2>7, CallMoves DEF AccountsInv
  <2> QED
    BY <1>2, <2>6, <2>7, <2>8, OneCall
<1> QED
  BY <1>3, <1>4 DEF LoginFind

LEMMA LoginCompareStep ==
  ASSUME AccountsInv, NEW c \in Call, LoginCompare(c)
  PROVE  AccountsInv'
<1>1. c \in DOMAIN call /\ call[c].op = "login" /\ call[c].pc = "compare"
  BY DEF LoginCompare, At
<1>2. account' = account /\ used' = used /\ session' = session
  BY DEF LoginCompare
<1>3. call[c] \in CallState /\ CallOK(call[c])
  BY <1>1, CallType DEF AccountsInv, CallsOK
<1>4. CASE call[c].hash = call[c].password
  <2> DEFINE u == call[c].found
             v == [call[c] EXCEPT !.pc = "200",
                     !.token = [sub |-> u, email |-> call[c].email,
                                password |-> call[c].password]]
  <2>1. Names(u, call[c].email, call[c].password)
    BY <1>1, <1>3, <1>4 DEF CallOK
  <2>2. u \in User /\ SignedToken(c, "200", u)
    BY <1>4, <2>1 DEF Names, AccountsInv, TypeOK, LoginCompare
  <2>3. /\ Table(call', Call, CallState) /\ DOMAIN call' = DOMAIN call
        /\ \A x \in DOMAIN call : x # c => call'[x] = call[x]
        /\ call'[c] = v
    BY <1>1, <2>2, SignedType DEF AccountsInv
  <2>4. CallOK(v)
    BY <1>3, <2>1 DEF CallOK, CallState
  <2> HIDE DEF v
  <2> QED
    BY <1>2, <2>3, <2>4, OneCall
<1>5. CASE call[c].hash # call[c].password
  BY <1>1, <1>2, <1>5, ReplyStep DEF LoginCompare
<1> QED
  BY <1>4, <1>5

LEMMA RegisterFindStep ==
  ASSUME AccountsInv, NEW c \in Call, RegisterFind(c)
  PROVE  AccountsInv'
  BY ReplyStep DEF RegisterFind, At

\* The account that is inserted has an id that was never used and an email
\* nobody holds.
LEMMA RegisterCreateStep ==
  ASSUME AccountsInv, NEW c \in Call, RegisterCreate(c)
  PROVE  AccountsInv'
<1>1. c \in DOMAIN call /\ call[c].op = "register" /\ call[c].pc = "create"
  BY DEF RegisterCreate, At
<1>2. call[c] \in CallState /\ CallOK(call[c]) /\ call[c].hash = call[c].password
  BY <1>1, CallType DEF AccountsInv, CallsOK, CallOK
<1>3. session' = session
  BY DEF RegisterCreate
<1>4. CASE Holders(call[c].email) # {}
  BY <1>1, <1>3, <1>4, ReplyStep DEF RegisterCreate
<1>5. CASE Holders(call[c].email) = {}
  <2> DEFINE a == [email |-> call[c].email, password |-> call[c].password]
  <2>1. PICK u \in User \ used :
          /\ account' = Put(account, u, a) /\ used' = used \cup {u}
          /\ SignedToken(c, "201", u)
    BY <1>2, <1>5 DEF RegisterCreate
  <2>2. a \in Account
    BY <1>2 DEF Account, CallState
  <2>3. Table(account', User, Account)
    BY <2>1, <2>2, PutTable DEF AccountsInv, TypeOK
  <2>4. /\ DOMAIN account' = DOMAIN account \cup {u} /\ account'[u] = a
        /\ \A x \in DOMAIN account : x # u => account'[x] = account[x]
        /\ u \notin DOMAIN account
    BY <2>1 DEF Put, AccountsInv, TypeOK
  <2>5. Kept
    BY <2>1, <2>4 DEF Kept
  <2>6. EmailUnique'
    <3>1. \A x \in DOMAIN account : account[x].email # call[c].email
      BY <1>5 DEF Holders
    <3> QED
      BY <2>4, <3>1 DEF EmailUnique, AccountsInv
  <2> DEFINE v == [call[c] EXCEPT !.pc = "201",
                     !.token = [sub |-> u, email |-> call[c].email,
                                password |-> call[c].password]]
  <2>7. /\ Table(call', Call, CallState) /\ DOMAIN call' = DOMAIN call
        /\ \A x \in DOMAIN call : x # c => call'[x] = call[x]
        /\ call'[c] = v
    BY <1>1, <2>1, SignedType DEF AccountsInv
  <2>8. PICK w, e, p : w = call'[c] /\ e = call[c].email /\ p = call[c].password
    OBVIOUS
  <2>9. Names(u, e, p)'
    BY <2>1, <2>4, <2>8 DEF Names
  <2>10. /\ w.op = "register" /\ w.pc = "201" /\ w.email = e /\ w.password = p
         /\ w.token = [sub |-> u, email |-> e, password |-> p]
    BY <1>1, <1>2, <2>7, <2>8 DEF CallState
  <2>11. CallOK(w)'
    BY <2>9, <2>10 DEF CallOK
  <2>12. CallsOK' /\ SessionsOK'
    BY <1>3, <2>5, <2>7, <2>8, <2>11, CallsStay, SessionsStay DEF AccountsInv
  <2>13. DOMAIN account' \subseteq used' /\ used' \subseteq User
    BY <2>1, <2>4 DEF AccountsInv, TypeOK
  <2> QED
    BY <1>3, <2>3, <2>6, <2>7, <2>12, <2>13 DEF AccountsInv, TypeOK
<1> QED
  BY <1>4, <1>5

\* A session takes its token from a call.
LEMMA PresentStep ==
  ASSUME AccountsInv, NEW s \in Session, NEW c \in Call, Present(s, c)
  PROVE  AccountsInv'
<1> DEFINE v == [token |-> call[c].token, pc |-> "validate", as |-> None]
<1>1. c \in DOMAIN call /\ call[c].token # None
  BY DEF Present
<1>2. call[c] \in CallState /\ CallOK(call[c])
  BY <1>1, CallType DEF AccountsInv, CallsOK
<1>3. v \in SessionState /\ SessionOK(v)
  BY <1>1, <1>2 DEF SessionState, SessionOK, CallOK, CallState
<1>4. session' = Put(session, s, v)
  BY DEF Present
<1>5. account' = account /\ used' = used /\ call' = call
  BY DEF Present
<1>6. Table(session', Session, SessionState)
  BY <1>3, <1>4, PutTable DEF AccountsInv, TypeOK
<1> HIDE DEF v
<1>7. \A x \in DOMAIN session' : \/ x = s /\ session'[x] = v
                                 \/ x \in DOMAIN session /\ session'[x] = session[x]
  BY <1>4 DEF Put
<1>8. SessionsOK'
  BY <1>3, <1>5, <1>7 DEF SessionsOK, AccountsInv, SessionOK, Names
<1> QED
  BY <1>5, <1>6, <1>8 DEF AccountsInv, TypeOK, EmailUnique, CallsOK, CallOK, Names

\* The user of a session is the one of its token.
LEMMA ValidateStep ==
  ASSUME AccountsInv, NEW s \in Session, Validate(s)
  PROVE  AccountsInv'
<1>1. s \in DOMAIN session /\ account' = account /\ used' = used /\ call' = call
  BY DEF Validate
<1>2. session[s] \in SessionState /\ SessionOK(session[s])
  BY <1>1, TableValue DEF AccountsInv, TypeOK, SessionsOK
<1>3. PICK v : v = session'[s]
  OBVIOUS
<1>4. /\ v \in SessionState /\ SessionOK(v) /\ session' = [session EXCEPT ![s] = v]
  <2>1. CASE session' = [session EXCEPT ![s].pc = "handler", ![s].as = session[s].token.sub]
    <3>1. v = [session[s] EXCEPT !.pc = "handler", !.as = session[s].token.sub]
      BY <1>1, <1>3, <2>1
    <3> QED
      BY <1>2, <2>1, <3>1 DEF SessionState, SessionOK, Token
  <2>2. CASE session' = [session EXCEPT ![s].pc = "401"]
    <3>1. v = [session[s] EXCEPT !.pc = "401"]
      BY <1>1, <1>3, <2>2
    <3> QED
      BY <1>2, <2>2, <3>1 DEF SessionState, SessionOK, Token
  <2> QED
    BY <2>1, <2>2 DEF Validate
<1>5. Table(session', Session, SessionState)
  BY <1>1, <1>4, ExceptTable DEF AccountsInv, TypeOK
<1>6. SessionsOK'
  BY <1>1, <1>4 DEF SessionsOK, AccountsInv, SessionOK, Names
<1> QED
  BY <1>1, <1>5, <1>6 DEF AccountsInv, TypeOK, EmailUnique, CallsOK, CallOK, Names

\* The id of a deleted user stays used.
LEMMA DeleteUserStep ==
  ASSUME AccountsInv, NEW u \in User, DeleteUser(u)
  PROVE  AccountsInv'
<1>1. account' = Drop(account, u) /\ used' = used /\ call' = call /\ session' = session
  BY DEF DeleteUser
<1>2. /\ DOMAIN account' = DOMAIN account \ {u}
      /\ \A x \in DOMAIN account' : account'[x] = account[x]
  BY <1>1 DEF Drop, Restrict
<1>3. Kept
  BY <1>1, <1>2 DEF Kept
<1>4. TypeOK'
  BY <1>1, <1>2, DropTable DEF AccountsInv, TypeOK
<1>5. EmailUnique'
  BY <1>2 DEF AccountsInv, EmailUnique
<1>6. SessionsOK'
  BY <1>1, <1>3, SessionsStay DEF AccountsInv
<1>7. CallsOK'
  <2> SUFFICES ASSUME NEW c \in DOMAIN call
               PROVE  CallOK(call[c])'
    BY <1>1 DEF CallsOK
  <2>1. PICK v : v = call[c]
    OBVIOUS
  <2>2. CallOK(v)'
    BY <1>3, <2>1, CallStays DEF AccountsInv, CallsOK
  <2> QED
    BY <1>1, <2>1, <2>2
<1> QED
  BY <1>4, <1>5, <1>6, <1>7 DEF AccountsInv

LEMMA AccountsStep == AccountsInv /\ [Next]_vars => AccountsInv'
<1> SUFFICES ASSUME AccountsInv, [Next]_vars PROVE AccountsInv'
  OBVIOUS
<1>1. CASE UNCHANGED vars
  BY <1>1 DEF vars, AccountsInv, TypeOK, EmailUnique, CallsOK, CallOK, SessionsOK, SessionOK, Names
<1> QED
  BY <1>1, ArriveStep, RegisterFindStep, RegisterHashStep, RegisterCreateStep, LoginFindStep,
     LoginCompareStep, PresentStep, ValidateStep, DeleteUserStep DEF Next, Serve

-----------------------------------------------------------------------------
(* The theorems.                                                            *)

\* The invariant, of every behaviour.
LEMMA Invariant == Spec => []AccountsInv
  BY InitOK, AccountsStep, PTL DEF Spec

\* Accounts, calls and sessions keep their types.
THEOREM Typing == Spec => []TypeOK
<1>1. AccountsInv => TypeOK
  BY DEF AccountsInv
<1> QED
  BY <1>1, Invariant, PTL

\* However many registrations race, an email has one account at most.
THEOREM EmailsUnique == Spec => []EmailUnique
<1>1. AccountsInv => EmailUnique
  BY DEF AccountsInv
<1> QED
  BY <1>1, Invariant, PTL

\* A token names an account whose email and password its holder presented.
THEOREM TokensProve == Spec => []TokenIsProof
<1>1. AccountsInv => TokenIsProof
  <2> SUFFICES ASSUME AccountsInv, NEW c \in DOMAIN call, call[c].token # None,
                      call[c].token.sub \in DOMAIN account
               PROVE  /\ account[call[c].token.sub].email = call[c].email
                      /\ account[call[c].token.sub].password = call[c].password
    BY DEF TokenIsProof
  <2>1. CallOK(call[c])
    BY DEF AccountsInv, CallsOK
  <2> QED
    BY <2>1 DEF CallOK, Names
<1> QED
  BY <1>1, Invariant, PTL

\* A request with a token acts as the account of the token.
THEOREM SessionsHold == Spec => []SessionOfHolder
<1>1. AccountsInv => SessionOfHolder
  BY DEF AccountsInv, SessionsOK, SessionOK, Names, SessionOfHolder
<1> QED
  BY <1>1, Invariant, PTL
==============================================================================
