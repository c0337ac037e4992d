-------------------------------- MODULE IAM --------------------------------
(***************************************************************************)
(* The IAM service: accounts in PostgreSQL, sessions in Redis.             *)
(*                                                                         *)
(* Register, Login and Whoami (which ext_authz Check calls for the gateway)*)
(* are cut at each call to a store, and at the look at the clock, because  *)
(* other requests run in between.  Redis holds a key for every session,    *)
(* which its time to live removes, and a set of sessions for every user,   *)
(* which nothing ever shrinks.                                             *)
(*                                                                         *)
(* Assumed of the stores: PostgreSQL keeps logins unique; Redis keeps what *)
(* it has acknowledged until its time to live, which starts after ExpiresAt*)
(* was computed, so that a key outlives the session it holds.              *)
(***************************************************************************)
CONSTANTS Logins,
          Users,      \* user UUIDs; bounds how many accounts are made
          Sessions,   \* session UUIDs; bounds how many logins succeed
          Procs,      \* request goroutines
          NoLogin, NoUser, NoSession,
          Faults      \* the failures the environment may produce

FaultKinds == {"db",      \* a statement fails; an INSERT may have been applied
               "redis",   \* a command fails; it may have been applied
               "crash"}   \* the service stops and starts again

ASSUME IAMConstants ==
  /\ Faults \subseteq FaultKinds
  /\ NoLogin \notin Logins /\ NoUser \notin Users /\ NoSession \notin Sessions

VARIABLES
  users,      \* the table: the login of each user, NoLogin for no row
  stored,     \* Redis, session:<uuid>: the session's user, NoUser for no key
  listed,     \* Redis, user_sessions:<uuid>: the user's sessions
  lapsed,     \* sessions whose ExpiresAt has passed
  pc, call, user, session,   \* the goroutines; user and session are locals
  reply,      \* a goroutine's last answer
  opened,     \* history: sessions that a Login has started to store
  granted,    \* history: what a Login answered with, for which login
  abandoned,  \* history: sessions whose Login ended with an error
  refused     \* history: sessions a Whoami called expired or unknown

redis   == <<stored, listed>>
locals  == <<pc, call, user, session, reply>>
history == <<opened, granted, abandoned, refused>>
vars == <<users, stored, listed, lapsed, pc, call, user, session, reply,
          opened, granted, abandoned, refused>>

Call == [op : {"none", "register", "login", "whoami"},
         login : Logins \cup {NoLogin},
         right : BOOLEAN,                      \* the password is the account's
         session : Sessions \cup {NoSession},  \* Whoami's argument
         late : BOOLEAN]                       \* it was refused before

NoCall == [op |-> "none", login |-> NoLogin, right |-> FALSE,
           session |-> NoSession, late |-> FALSE]

Init ==
  /\ users = [u \in Users |-> NoLogin]
  /\ stored = [s \in Sessions |-> NoUser]
  /\ listed = [u \in Users |-> {}]
  /\ lapsed = {}
  /\ pc = [p \in Procs |-> "idle"]
  /\ call = [p \in Procs |-> NoCall]
  /\ user = [p \in Procs |-> NoUser]
  /\ session = [p \in Procs |-> NoSession]
  /\ reply = [p \in Procs |-> "none"]
  /\ opened = {} /\ granted = {} /\ abandoned = {} /\ refused = {}

-----------------------------------------------------------------------------
Serve(p, c, l) ==
  /\ pc[p] = "idle"
  /\ pc' = [pc EXCEPT ![p] = l]
  /\ call' = [call EXCEPT ![p] = c]
  /\ user' = [user EXCEPT ![p] = NoUser]
  /\ session' = [session EXCEPT ![p] = NoSession]
  /\ reply' = [reply EXCEPT ![p] = "none"]
  /\ UNCHANGED <<users, redis, lapsed, history>>

Goto(p, l) == pc' = [pc EXCEPT ![p] = l] /\ UNCHANGED <<call, reply>>

\* The handler ends; what it was called with matters for "allowed" only.
Reply(p, r) ==
  /\ pc' = [pc EXCEPT ![p] = "idle"]
  /\ reply' = [reply EXCEPT ![p] = r]
  /\ IF r = "allowed" THEN UNCHANGED <<call, user>>
     ELSE /\ call' = [call EXCEPT ![p] = NoCall]
          /\ user' = [user EXCEPT ![p] = NoUser]
  /\ session' = [session EXCEPT ![p] = NoSession]

\* GetByLogin finds this user.
Has(l, u) == u \in Users /\ users[u] = l
Taken(l) == \E u \in Users : Has(l, u)

-----------------------------------------------------------------------------
(* UserService.Register                                                    *)

StartRegister(p) ==
  \E l \in Logins :
    Serve(p, [NoCall EXCEPT !.op = "register", !.login = l], "lookup")

\* The login is looked up; then the password is hashed, which takes a while.
RegisterLookup(p) ==
  /\ pc[p] = "lookup" /\ call[p].op = "register"
  /\ \/ Taken(call[p].login) /\ Reply(p, "exists")
     \/ ~Taken(call[p].login) /\ Goto(p, "insert") /\ UNCHANGED <<user, session>>
     \/ "db" \in Faults /\ Reply(p, "error")
  /\ UNCHANGED <<users, redis, lapsed, history>>

NotUnique(l) == l \in Logins

\* login VARCHAR(255) NOT NULL UNIQUE.
LoginAccepted(l) == ~Taken(l)

InsertUser(p) ==
  /\ pc[p] = "insert"
  /\ \/ \E u \in Users :
          /\ users[u] = NoLogin
          /\ LoginAccepted(call[p].login)
          /\ users' = [users EXCEPT ![u] = call[p].login]
          /\ \/ Reply(p, "registered")
             \/ "db" \in Faults /\ Reply(p, "error")
     \/ /\ ~LoginAccepted(call[p].login) \/ "db" \in Faults
        /\ Reply(p, "error")
        /\ UNCHANGED users
  /\ UNCHANGED <<redis, lapsed, history>>

-----------------------------------------------------------------------------
(* AuthService.Login                                                       *)

StartLogin(p) ==
  \E l \in Logins, right \in BOOLEAN :
    Serve(p, [NoCall EXCEPT !.op = "login", !.login = l, !.right = right], "lookup")

PasswordIgnored(p) == call[p].right \in BOOLEAN

\* bcrypt.CompareHashAndPassword, against the hash that was read.
PasswordMatches(p) == call[p].right

\* The account is read and the password compared.
LoginLookup(p) ==
  /\ pc[p] = "lookup" /\ call[p].op = "login"
  /\ \/ \E u \in Users :
          /\ Has(call[p].login, u) /\ PasswordMatches(p)
          /\ user' = [user EXCEPT ![p] = u]
          /\ Goto(p, "store")
          /\ UNCHANGED session
     \/ /\ ~Taken(call[p].login) \/ ~PasswordMatches(p)
        /\ Reply(p, "invalid")
     \/ "db" \in Faults /\ Reply(p, "error")
  /\ UNCHANGED <<users, redis, lapsed, history>>

\* uuid.New(): never used before.
FreshSession(s) == s \in Sessions \ opened

Abandon(s) ==
  /\ abandoned' = abandoned \cup {s}
  /\ UNCHANGED <<granted, refused>>

\* sessionRepo.Create: SET session:<uuid> with the time to live.  ExpiresAt is
\* a time in the future.
StoreSession(p) ==
  /\ pc[p] = "store"
  /\ \E s \in Sessions :
       /\ FreshSession(s)
       /\ opened' = opened \cup {s}
       /\ lapsed' = lapsed \ {s}
       /\ \/ /\ stored' = [stored EXCEPT ![s] = user[p]]
             /\ session' = [session EXCEPT ![p] = s]
             /\ Goto(p, "index")
             /\ UNCHANGED <<user, granted, abandoned, refused>>
          \/ /\ "redis" \in Faults
             /\ stored' \in {stored, [stored EXCEPT ![s] = user[p]]}
             /\ Reply(p, "error")
             /\ Abandon(s)
  /\ UNCHANGED <<users, listed>>

IndexErrorIgnored(p) ==
  /\ pc[p] = "index"
  /\ \/ listed' = [listed EXCEPT ![user[p]] = @ \cup {session[p]}]
     \/ "redis" \in Faults /\ UNCHANGED listed
  /\ granted' = granted \cup {[session |-> session[p], login |-> call[p].login,
                              right |-> call[p].right]}
  /\ Reply(p, "session")
  /\ UNCHANGED <<users, stored, lapsed, opened, abandoned, refused>>

\* AddSessionToUserSet: SADD; its error ends the login, and the session that
\* was stored before stays.
IndexSession(p) ==
  LET added == [listed EXCEPT ![user[p]] = @ \cup {session[p]}] IN
  /\ pc[p] = "index"
  /\ \/ /\ listed' = added
        /\ granted' = granted \cup
             {[session |-> session[p], login |-> call[p].login,
               right |-> call[p].right]}
        /\ Reply(p, "session")
        /\ UNCHANGED <<abandoned, refused>>
     \/ /\ "redis" \in Faults
        /\ listed' \in {listed, added}
        /\ Reply(p, "error")
        /\ Abandon(session[p])
  /\ UNCHANGED <<users, stored, lapsed, opened>>

-----------------------------------------------------------------------------
(* AuthService.Whoami, by itself or for ext_authz Check.                   *)

\* A session somebody was given, or a UUID nobody was.
StartWhoami(p) ==
  \E s \in {g.session : g \in granted} \cup {NoSession} :
    Serve(p, [NoCall EXCEPT !.op = "whoami", !.session = s,
                            !.late = (s \in refused)], "get")

Refuse(p, r) ==
  /\ Reply(p, r)
  /\ refused' = refused \cup ({call[p].session} \ {NoSession})
  /\ UNCHANGED <<opened, granted, abandoned>>

NotFoundIgnored(s) == s \in Sessions

KeyExists(s) == s \in Sessions /\ stored[s] # NoUser

\* GET session:<uuid>.
GetSession(p) ==
  LET s == call[p].session IN
  /\ pc[p] = "get"
  /\ \/ /\ KeyExists(s)
        /\ user' = [user EXCEPT ![p] = stored[s]]
        /\ Goto(p, "judge")
        /\ UNCHANGED <<session, history>>
     \/ /\ ~KeyExists(s)
        /\ Refuse(p, "unknown")
     \/ "redis" \in Faults /\ Reply(p, "error") /\ UNCHANGED history
  /\ UNCHANGED <<users, redis, lapsed>>

JudgeByKeyOnly(p) ==
  /\ pc[p] = "judge"
  /\ Goto(p, "account")
  /\ UNCHANGED <<users, redis, lapsed, user, session, history>>

\* time.Now().After(session.ExpiresAt), with the session as it was read.
Judge(p) ==
  /\ pc[p] = "judge"
  /\ IF call[p].session \in lapsed THEN Goto(p, "delete") ELSE Goto(p, "account")
  /\ UNCHANGED <<users, redis, lapsed, user, session, history>>

\* DEL session:<uuid>, and the session is called expired.
DeleteExpired(p) ==
  LET deleted == [stored EXCEPT ![call[p].session] = NoUser] IN
  /\ pc[p] = "delete"
  /\ \/ stored' = deleted /\ Refuse(p, "expired")
     \/ /\ "redis" \in Faults
        /\ stored' \in {stored, deleted}
        /\ Reply(p, "error")
        /\ UNCHANGED history
  /\ UNCHANGED <<users, listed, lapsed>>

\* GetByID: the account of the session's user.
GetAccount(p) ==
  /\ pc[p] = "account"
  /\ \/ users[user[p]] # NoLogin /\ Reply(p, "allowed")
     \/ "db" \in Faults /\ Reply(p, "error")
  /\ UNCHANGED <<users, redis, lapsed, history>>

-----------------------------------------------------------------------------
(* Time and restarts.                                                      *)

\* ExpiresAt passes; later the key's time to live ends.
Lapse(s) ==
  /\ s \in opened \ lapsed
  /\ lapsed' = lapsed \cup {s}
  /\ UNCHANGED <<users, redis, locals, history>>

Vanish(s) ==
  /\ s \in lapsed /\ KeyExists(s)
  /\ stored' = [stored EXCEPT ![s] = NoUser]
  /\ UNCHANGED <<users, listed, lapsed, locals, history>>

Crash ==
  /\ "crash" \in Faults
  /\ pc' = [p \in Procs |-> "idle"]
  /\ call' = [p \in Procs |-> NoCall]
  /\ user' = [p \in Procs |-> NoUser]
  /\ session' = [p \in Procs |-> NoSession]
  /\ reply' = [p \in Procs |-> "none"]
  /\ abandoned' = abandoned \cup ({session[p] : p \in Procs} \ {NoSession})
  /\ UNCHANGED <<users, redis, lapsed, opened, granted, refused>>

-----------------------------------------------------------------------------
Request(p) ==
  \/ StartRegister(p) \/ RegisterLookup(p) \/ InsertUser(p)
  \/ StartLogin(p) \/ LoginLookup(p) \/ StoreSession(p) \/ IndexSession(p)
  \/ StartWhoami(p) \/ GetSession(p) \/ Judge(p) \/ DeleteExpired(p)
  \/ GetAccount(p)

Next ==
  \/ \E p \in Procs : Request(p)
  \/ \E s \in Sessions : Lapse(s) \/ Vanish(s)
  \/ Crash

Spec == Init /\ [][Next]_vars

-----------------------------------------------------------------------------
(* Properties.                                                             *)

\* Every variable has its type, and a goroutine has what its next step needs.
TypeOK ==
  /\ users \in [Users -> Logins \cup {NoLogin}]
  /\ stored \in [Sessions -> Users \cup {NoUser}]
  /\ listed \in [Users -> SUBSET Sessions]
  /\ lapsed \subseteq Sessions
  /\ pc \in [Procs -> {"idle", "lookup", "insert", "store", "index", "get",
                       "judge", "delete", "account"}]
  /\ call \in [Procs -> Call]
  /\ user \in [Procs -> Users \cup {NoUser}]
  /\ session \in [Procs -> Sessions \cup {NoSession}]
  /\ reply \in [Procs -> {"none", "registered", "exists", "invalid", "session",
                          "unknown", "expired", "allowed", "error"}]
  /\ opened \subseteq Sessions /\ abandoned \subseteq Sessions
  /\ refused \subseteq Sessions
  /\ granted \subseteq [session : Sessions, login : Logins, right : BOOLEAN]
  /\ \A p \in Procs :
       /\ pc[p] \in {"store", "index", "judge", "account"} => user[p] # NoUser
       /\ pc[p] = "index" => session[p] # NoSession
       /\ pc[p] = "delete" => call[p].session # NoSession

\* Registrations of one login race between the lookup and the insert: still,
\* at most one account has it.
OneAccountPerLogin ==
  \A u, v \in Users : users[u] # NoLogin /\ users[u] = users[v] => u = v

\* A session in Redis is in its user's set, so that it can be found from the
\* user, unless its login is still at work or ended with an error.
SessionsAreListed ==
  \A s \in Sessions :
    stored[s] # NoUser =>
      \/ s \in listed[stored[s]]
      \/ s \in abandoned
      \/ \E p \in Procs : pc[p] = "index" /\ session[p] = s

\* Whoever shows a session is taken for the account whose login and password
\* opened it, however registrations, logins and expiries interleave.
AllowedIsOwner ==
  \A p \in Procs :
    reply[p] = "allowed" =>
      \E g \in granted :
        /\ g.session = call[p].session
        /\ g.right /\ g.login = users[user[p]]

\* A session that was refused as expired or unknown stays refused: no request
\* that starts later is allowed with it, though a request that judged it
\* before may still be.
RefusedForGood ==
  \A p \in Procs : reply[p] = "allowed" => ~call[p].late

\* How far a question about a session has got, to whoever asked it.
Asking(p) == pc[p] \in {"get", "judge", "delete"}
Vouched(p) == pc[p] = "account" \/ reply[p] = "allowed"

Phase(p) == CASE Asking(p) -> "asked"
              [] Vouched(p) -> "vouched"
              [] reply[p] \in {"unknown", "expired"} /\ pc[p] = "idle" -> "refused"
              [] OTHER -> "idle"

About(p) == IF Asking(p) \/ Vouched(p) THEN call[p].session ELSE NoSession

Authority ==
  INSTANCE SessionAuthority WITH alive <- opened \ lapsed, ended <- lapsed,
                                 Askers <- Procs,
                                 phase <- [p \in Procs |-> Phase(p)],
                                 about <- [p \in Procs |-> About(p)]

\* Whoami's calls of both stores and its look at the clock amount to a decision
\* at one moment, whatever expires, logs in, fails or restarts in between: only
\* a session that is not expired at that moment is vouched for, and only one
\* that is expired is refused, for good.
ImplementsAuthority == Authority!Spec
=============================================================================
