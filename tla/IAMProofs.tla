----------------------------- MODULE IAMProofs -----------------------------
(***************************************************************************)
(* Proofs about IAM for every set of logins, users, sessions and requests  *)
(* and every set of faults: accounts are unique, and a session stands for  *)
(* the account that opened it.                                             *)
(***************************************************************************)
EXTENDS IAM, TLAPS

\* Session s was granted to the account u.
Owned(s, u) == \E g \in granted : /\ g.session = s
                                  /\ g.right /\ g.login = users[u]

\* A grant was earned, and what Redis holds under its session is its account.
GrantInv(g) ==
  /\ g.right
  /\ g.session \in opened
  /\ stored[g.session] # NoUser => users[stored[g.session]] = g.login

\* A refused session was opened before and has no key any more.
RefusedInv == \A s \in refused : s \in opened /\ stored[s] = NoUser

\* What a request knows between two of its calls.
LoginInv(p) ==
  /\ pc[p] \in {"lookup", "insert"} => call[p].login \in Logins
  /\ pc[p] \in {"store", "index"} =>
       call[p].right /\ call[p].login \in Logins /\ users[user[p]] = call[p].login
  /\ pc[p] = "index" => /\ session[p] \in opened
                        /\ stored[session[p]] \in {NoUser, user[p]}

WhoamiInv(p) ==
  /\ pc[p] = "get" => \/ call[p].session = NoSession
                      \/ \E g \in granted : g.session = call[p].session
  /\ pc[p] = "delete" => \E g \in granted : g.session = call[p].session
  /\ pc[p] = "get" /\ call[p].late => call[p].session \in refused
  /\ pc[p] \in {"judge", "account"} =>
       ~call[p].late /\ Owned(call[p].session, user[p])
  /\ reply[p] = "allowed" =>
       /\ pc[p] = "idle" /\ ~call[p].late
       /\ user[p] # NoUser /\ Owned(call[p].session, user[p])

IInv == /\ TypeOK
        /\ OneAccountPerLogin
        /\ SessionsAreListed
        /\ RefusedInv
        /\ \A g \in granted : GrantInv(g)
        /\ \A p \in Procs : LoginInv(p)
        /\ \A p \in Procs : WhoamiInv(p)

\* What every step does to the shared state, and all another request needs to
\* know of it: rows, grants and refusals stay, an opened session only vanishes.
Grows ==
  /\ \A u \in Users : users[u] # NoLogin => users'[u] = users[u]
  /\ \A s \in opened : stored'[s] \in {stored[s], NoUser}
  /\ opened \subseteq opened' /\ granted \subseteq granted'
  /\ refused \subseteq refused'

\* Request q is where it was.
Unmoved(q) == /\ pc'[q] = pc[q] /\ call'[q] = call[q] /\ user'[q] = user[q]
              /\ session'[q] = session[q] /\ reply'[q] = reply[q]

-----------------------------------------------------------------------------
LEMMA InitIInv == ASSUME IAMConstants, Init PROVE IInv
<1>1. TypeOK
  BY DEF IAMConstants, Init, TypeOK, Call, NoCall
<1>2. OneAccountPerLogin /\ SessionsAreListed /\ RefusedInv
  BY DEF Init, OneAccountPerLogin, SessionsAreListed, RefusedInv
<1>3. \A g \in granted : GrantInv(g)
  BY DEF Init
<1>4. \A p \in Procs : LoginInv(p) /\ WhoamiInv(p)
  BY DEF Init, LoginInv, WhoamiInv
<1>5. QED
  BY <1>1, <1>2, <1>3, <1>4 DEF IInv

\* The request that moves leaves the others alone.
LEMMA OneMoves ==
  ASSUME TypeOK, NEW p \in Procs, Request(p)
  PROVE  \A q \in Procs \ {p} : Unmoved(q)
<1> USE DEF TypeOK, Unmoved, Goto, Reply, Serve, locals, history
<1>1. CASE StartRegister(p)
  BY <1>1 DEF StartRegister
<1>2. CASE RegisterLookup(p)
  BY <1>2 DEF RegisterLookup
<1>3. CASE InsertUser(p)
  BY <1>3 DEF InsertUser
<1>4. CASE StartLogin(p)
  BY <1>4 DEF StartLogin
<1>5. CASE LoginLookup(p)
  BY <1>5 DEF LoginLookup
<1>6. CASE StoreSession(p)
  BY <1>6 DEF StoreSession
<1>7. CASE IndexSession(p)
  BY <1>7 DEF IndexSession
<1>8. CASE StartWhoami(p)
  BY <1>8 DEF StartWhoami
<1>9. CASE GetSession(p)
  BY <1>9 DEF GetSession, Refuse
<1>10. CASE Judge(p)
  BY <1>10 DEF Judge
<1>11. CASE DeleteExpired(p)
  BY <1>11 DEF DeleteExpired, Refuse
<1>12. CASE GetAccount(p)
  BY <1>12 DEF GetAccount
<1>13. QED
  BY <1>1, <1>2, <1>3, <1>4, <1>5, <1>6, <1>7, <1>8, <1>9, <1>10, <1>11, <1>12
     DEF Request

-----------------------------------------------------------------------------
(* Types, in three parts: the stores and the history, the locals of the    *)
(* requests, and what a request at some point has found.                   *)

Labels == {"idle", "lookup", "insert", "store", "index", "get",
           "judge", "delete", "account"}

Replies == {"none", "registered", "exists", "invalid", "session",
            "unknown", "expired", "allowed", "error"}

StoreTypes ==
  /\ users \in [Users -> Logins \cup {NoLogin}]
  /\ stored \in [Sessions -> Users \cup {NoUser}]
  /\ listed \in [Users -> SUBSET Sessions]
  /\ lapsed \subseteq Sessions
  /\ opened \subseteq Sessions /\ abandoned \subseteq Sessions
  /\ refused \subseteq Sessions
  /\ granted \subseteq [session : Sessions, login : Logins, right : BOOLEAN]

LocalTypes ==
  /\ pc \in [Procs -> Labels]
  /\ call \in [Procs -> Call]
  /\ user \in [Procs -> Users \cup {NoUser}]
  /\ session \in [Procs -> Sessions \cup {NoSession}]
  /\ reply \in [Procs -> Replies]

Ready(p) ==
  /\ pc[p] \in {"store", "index", "judge", "account"} => user[p] # NoUser
  /\ pc[p] = "index" => session[p] # NoSession
  /\ pc[p] = "delete" => call[p].session # NoSession

LEMMA TypeParts ==
  /\ TypeOK <=> StoreTypes /\ LocalTypes /\ \A p \in Procs : Ready(p)
  /\ TypeOK' <=> StoreTypes' /\ LocalTypes' /\ \A p \in Procs : Ready(p)'
BY DEF TypeOK, StoreTypes, LocalTypes, Ready, Labels, Replies

LEMMA NoCallTyped == NoCall \in Call
BY DEF NoCall, Call

LEMMA ServeMoves ==
  ASSUME LocalTypes, NEW p \in Procs, NEW c \in Call, NEW l \in Labels,
         Serve(p, c, l)
  PROVE  /\ LocalTypes' /\ pc[p] = "idle" /\ pc'[p] = l /\ call'[p] = c
         /\ user'[p] = NoUser /\ session'[p] = NoSession /\ reply'[p] = "none"
BY DEF LocalTypes, Serve, Replies

LEMMA GotoMoves ==
  ASSUME LocalTypes, NEW p \in Procs, NEW l \in Labels, Goto(p, l),
         user' \in [Procs -> Users \cup {NoUser}],
         session' \in [Procs -> Sessions \cup {NoSession}]
  PROVE  LocalTypes' /\ pc'[p] = l /\ call'[p] = call[p] /\ reply'[p] = reply[p]
BY DEF LocalTypes, Goto

LEMMA ReplyMoves ==
  ASSUME LocalTypes, NEW p \in Procs, NEW r \in Replies, Reply(p, r)
  PROVE  /\ LocalTypes' /\ pc'[p] = "idle" /\ reply'[p] = r
         /\ r = "allowed" => call'[p] = call[p] /\ user'[p] = user[p]
<1>1. pc' \in [Procs -> Labels] /\ pc'[p] = "idle"
  BY DEF LocalTypes, Reply, Labels
<1>2. reply' \in [Procs -> Replies] /\ reply'[p] = r
  BY DEF LocalTypes, Reply
<1>3. /\ call' \in [Procs -> Call]
      /\ user' \in [Procs -> Users \cup {NoUser}]
      /\ session' \in [Procs -> Sessions \cup {NoSession}]
  BY NoCallTyped DEF LocalTypes, Reply
<1>4. r = "allowed" => call' = call /\ user' = user
  BY DEF Reply
<1>5. QED
  BY <1>1, <1>2, <1>3, <1>4 DEF LocalTypes

LEMMA ReplyIsReady ==
  ASSUME NEW p \in Procs, pc'[p] = "idle" PROVE Ready(p)'
BY DEF Ready

\* What each action leaves of the types.
LEMMA RequestTypes ==
  ASSUME IAMConstants, IInv, NEW p \in Procs, Request(p)
  PROVE  StoreTypes' /\ LocalTypes' /\ Ready(p)'
<1>a. StoreTypes /\ LocalTypes /\ Ready(p) /\ LoginInv(p) /\ WhoamiInv(p)
  BY TypeParts DEF IInv
<1>b. Labels = {"idle", "lookup", "insert", "store", "index", "get",
                "judge", "delete", "account"}
  BY DEF Labels
<1>c. Replies = {"none", "registered", "exists", "invalid", "session",
                 "unknown", "expired", "allowed", "error"}
  BY DEF Replies
<1>d. UNCHANGED <<users, redis, lapsed, history>> => StoreTypes'
  BY <1>a DEF StoreTypes, redis, history
<1>1. CASE StartRegister(p)
  <2>1. PICK l \in Logins :
          Serve(p, [NoCall EXCEPT !.op = "register", !.login = l], "lookup")
    BY <1>1 DEF StartRegister
  <2>2. [NoCall EXCEPT !.op = "register", !.login = l] \in Call
    BY DEF NoCall, Call
  <2>3. QED
    BY <2>1, <2>2, <1>a, <1>b, <1>d, ServeMoves DEF Serve, Ready
<1>2. CASE RegisterLookup(p)
  <2>1. CASE \E r \in Replies : Reply(p, r)
    BY <2>1, <1>2, <1>a, <1>d, ReplyMoves, ReplyIsReady DEF RegisterLookup
  <2>2. CASE Goto(p, "insert") /\ UNCHANGED <<user, session>>
    BY <2>2, <1>2, <1>a, <1>b, <1>d, GotoMoves DEF RegisterLookup, Ready, LocalTypes
  <2>3. QED
    BY <2>1, <2>2, <1>2, <1>c DEF RegisterLookup
<1>3. CASE InsertUser(p)
  <2>1. \E r \in Replies : Reply(p, r)
    BY <1>3, <1>c DEF InsertUser
  <2>2. call[p].login \in Logins
    BY <1>3, <1>a DEF InsertUser, LoginInv
  <2>3. StoreTypes'
    BY <1>3, <2>2, <1>a DEF InsertUser, StoreTypes, redis, history
  <2>4. QED
    BY <2>1, <2>3, <1>a, ReplyMoves, ReplyIsReady
<1>4. CASE StartLogin(p)
  <2>1. PICK l \in Logins, b \in BOOLEAN :
          Serve(p, [NoCall EXCEPT !.op = "login", !.login = l, !.right = b], "lookup")
    BY <1>4 DEF StartLogin
  <2>2. [NoCall EXCEPT !.op = "login", !.login = l, !.right = b] \in Call
    BY DEF NoCall, Call
  <2>3. QED
    BY <2>1, <2>2, <1>a, <1>b, <1>d, ServeMoves DEF Serve, Ready
<1>5. CASE LoginLookup(p)
  <2>1. CASE \E r \in Replies : Reply(p, r)
    BY <2>1, <1>5, <1>a, <1>d, ReplyMoves, ReplyIsReady DEF LoginLookup
  <2>2. ASSUME NEW u \in Users, user' = [user EXCEPT ![p] = u],
               Goto(p, "store"), UNCHANGED session
        PROVE  LocalTypes' /\ Ready(p)'
    <3>1. user' \in [Procs -> Users \cup {NoUser}] /\ user'[p] = u
      BY <2>2, <1>a DEF LocalTypes
    <3>2. LocalTypes' /\ pc'[p] = "store"
      BY <2>2, <3>1, <1>a, <1>b, GotoMoves DEF LocalTypes
    <3>3. QED
      BY <3>1, <3>2 DEF Ready, IAMConstants
  <2>3. QED
    BY <2>1, <2>2, <1>5, <1>c, <1>d DEF LoginLookup
<1>6. CASE StoreSession(p)
  <2>0. user[p] \in Users
    BY <1>6, <1>a DEF StoreSession, LocalTypes, Ready
  <2>1. PICK s \in Sessions \ opened :
          /\ opened' = opened \cup {s} /\ lapsed' = lapsed \ {s}
          /\ \/ /\ stored' = [stored EXCEPT ![s] = user[p]]
                /\ session' = [session EXCEPT ![p] = s]
                /\ Goto(p, "index")
                /\ UNCHANGED <<user, granted, abandoned, refused>>
             \/ /\ stored' \in {stored, [stored EXCEPT ![s] = user[p]]}
                /\ Reply(p, "error")
                /\ Abandon(s)
    BY <1>6 DEF StoreSession, FreshSession
  <2>2. UNCHANGED <<users, listed>>
    BY <1>6 DEF StoreSession
  <2>3. StoreTypes'
    BY <2>0, <2>1, <2>2, <1>a DEF StoreTypes, Abandon
  <2>4. CASE session' = [session EXCEPT ![p] = s] /\ Goto(p, "index") /\ user' = user
    <3>1. session' \in [Procs -> Sessions \cup {NoSession}] /\ session'[p] = s
      BY <2>4, <1>a DEF LocalTypes
    <3>2. LocalTypes' /\ pc'[p] = "index"
      BY <2>4, <3>1, <1>a, <1>b, GotoMoves DEF LocalTypes
    <3>3. QED
      BY <2>3, <2>4, <2>0, <3>1, <3>2 DEF Ready, IAMConstants
  <2>5. CASE Reply(p, "error")
    BY <2>3, <2>5, <1>a, <1>c, ReplyMoves, ReplyIsReady
  <2>6. QED
    BY <2>1, <2>4, <2>5
<1>7. CASE IndexSession(p)
  <2>0. /\ user[p] \in Users /\ session[p] \in Sessions
        /\ call[p].login \in Logins /\ call[p].right \in BOOLEAN
    BY <1>7, <1>a DEF IndexSession, LocalTypes, Ready, LoginInv, Call
  <2>1. \E r \in Replies : Reply(p, r)
    BY <1>7, <1>c DEF IndexSession
  <2>2. /\ listed' \in {listed, [listed EXCEPT ![user[p]] = @ \cup {session[p]}]}
        /\ \/ /\ granted' = granted \cup
                   {[session |-> session[p], login |-> call[p].login,
                     right |-> call[p].right]}
              /\ UNCHANGED <<abandoned, refused>>
           \/ Abandon(session[p])
        /\ UNCHANGED <<users, stored, lapsed, opened>>
    BY <1>7 DEF IndexSession
  <2>3. listed' \in [Users -> SUBSET Sessions]
    BY <2>0, <2>2, <1>a DEF StoreTypes
  <2>4. StoreTypes'
    BY <2>0, <2>2, <2>3, <1>a DEF StoreTypes, Abandon
  <2>5. QED
    BY <2>1, <2>4, <1>a, ReplyMoves, ReplyIsReady
<1>8. CASE StartWhoami(p)
  <2>1. PICK s \in {g.session : g \in granted} \cup {NoSession} :
          Serve(p, [NoCall EXCEPT !.op = "whoami", !.session = s,
                                  !.late = (s \in refused)], "get")
    BY <1>8 DEF StartWhoami
  <2>2. s \in Sessions \cup {NoSession}
    BY <2>1, <1>a DEF StoreTypes
  <2>3. \A b \in BOOLEAN :
          [NoCall EXCEPT !.op = "whoami", !.session = s, !.late = b] \in Call
    BY <2>2 DEF NoCall, Call
  <2>4. PICK c \in Call : Serve(p, c, "get")
    <3>1. (s \in refused) \in BOOLEAN
      OBVIOUS
    <3>2. QED
      BY ONLY <2>1, <2>3, <3>1, Zenon
  <2>5. QED
    BY <2>4, <1>a, <1>b, <1>d, ServeMoves DEF Serve, Ready
<1>9. CASE GetSession(p)
  <2>0. call[p].session \in Sessions \cup {NoSession}
    BY <1>a DEF LocalTypes, Call
  <2>1. StoreTypes'
    BY <1>9, <1>a, <2>0 DEF GetSession, Refuse, StoreTypes, redis, history
  <2>2. CASE \E r \in Replies : Reply(p, r)
    BY <2>1, <2>2, <1>a, ReplyMoves, ReplyIsReady
  <2>3. CASE /\ KeyExists(call[p].session)
             /\ user' = [user EXCEPT ![p] = stored[call[p].session]]
             /\ Goto(p, "judge") /\ UNCHANGED session
    <3>1. stored[call[p].session] \in Users
      BY <2>3, <1>a DEF KeyExists, StoreTypes
    <3>2. user' \in [Procs -> Users \cup {NoUser}] /\ user'[p] # NoUser
      BY <2>3, <3>1, <1>a DEF LocalTypes, IAMConstants
    <3>3. LocalTypes' /\ pc'[p] = "judge"
      BY <2>3, <3>2, <1>a, <1>b, GotoMoves DEF LocalTypes
    <3>4. QED
      BY <2>1, <3>2, <3>3 DEF Ready
  <2>4. QED
    BY <1>9, <2>2, <2>3, <1>c DEF GetSession, Refuse
<1>10. CASE Judge(p)
  <2>1. call[p].session # NoSession
    BY <1>10, <1>a DEF Judge, WhoamiInv, Owned, StoreTypes, IAMConstants
  <2>2. PICK l \in {"delete", "account"} : Goto(p, l)
    BY <1>10 DEF Judge
  <2>3. /\ pc[p] = "judge"
        /\ UNCHANGED <<users, redis, lapsed, user, session, history>>
    BY <1>10 DEF Judge
  <2>4. LocalTypes' /\ pc'[p] = l /\ call'[p] = call[p]
    BY <2>2, <2>3, <1>a, <1>b, GotoMoves DEF LocalTypes
  <2>5. QED
    BY <2>1, <2>2, <2>3, <2>4, <1>a, <1>d DEF Ready
<1>11. CASE DeleteExpired(p)
  <2>1. \E r \in Replies : Reply(p, r)
    BY <1>11, <1>c DEF DeleteExpired, Refuse
  <2>2. call[p].session \in Sessions \cup {NoSession}
    BY <1>a DEF LocalTypes, Call
  <2>3. StoreTypes'
    BY <1>11, <2>2, <1>a DEF DeleteExpired, Refuse, StoreTypes, history
  <2>4. QED
    BY <2>1, <2>3, <1>a, ReplyMoves, ReplyIsReady
<1>12. CASE GetAccount(p)
  <2>1. \E r \in Replies : Reply(p, r)
    BY <1>12, <1>c DEF GetAccount
  <2>2. QED
    BY <2>1, <1>12, <1>a, <1>d, ReplyMoves, ReplyIsReady DEF GetAccount
<1>13. QED
  BY <1>1, <1>2, <1>3, <1>4, <1>5, <1>6, <1>7, <1>8, <1>9, <1>10, <1>11, <1>12
     DEF Request

LEMMA TypeStep == ASSUME IAMConstants, IInv, [Next]_vars PROVE TypeOK'
<1>a. StoreTypes /\ LocalTypes /\ \A q \in Procs : Ready(q)
  BY TypeParts DEF IInv
<1>1. ASSUME NEW p \in Procs, Request(p) PROVE TypeOK'
  <2>1. StoreTypes' /\ LocalTypes' /\ Ready(p)'
    BY <1>1, RequestTypes
  <2>2. \A q \in Procs \ {p} : Unmoved(q)
    BY <1>1, OneMoves DEF IInv
  <2>3. \A q \in Procs \ {p} : Ready(q)'
    BY <2>2, <1>a DEF Unmoved, Ready
  <2>4. QED
    BY <2>1, <2>3, TypeParts
<1>2. ASSUME NEW s \in Sessions, Lapse(s) \/ Vanish(s) PROVE TypeOK'
  BY <1>a, <1>2, TypeParts
     DEF StoreTypes, LocalTypes, Ready, Lapse, Vanish, redis, locals, history
<1>3. CASE Crash
  <2>1. StoreTypes'
    BY <1>a, <1>3 DEF Crash, StoreTypes, LocalTypes, redis
  <2>2. LocalTypes'
    BY <1>a, <1>3, NoCallTyped DEF Crash, LocalTypes, Labels, Replies
  <2>3. \A q \in Procs : Ready(q)'
    BY <1>3 DEF Crash, Ready
  <2>4. QED
    BY <2>1, <2>2, <2>3, TypeParts
<1>4. CASE UNCHANGED vars
  BY <1>a, <1>4, TypeParts DEF StoreTypes, LocalTypes, Ready, vars
<1>5. QED
  BY <1>1, <1>2, <1>3, <1>4 DEF Next

-----------------------------------------------------------------------------
(* The stores.                                                             *)

LEMMA RequestGrows ==
  ASSUME IAMConstants, IInv, NEW p \in Procs, Request(p)
  PROVE  Grows
<1>a. StoreTypes /\ LocalTypes
  BY TypeParts DEF IInv
<1>b. UNCHANGED <<users, stored, opened, granted, refused>> => Grows
  BY DEF Grows
<1>1. CASE StartRegister(p) \/ StartLogin(p) \/ StartWhoami(p)
  BY <1>1, <1>b
     DEF StartRegister, StartLogin, StartWhoami, Serve, redis, history
<1>2. CASE RegisterLookup(p) \/ LoginLookup(p) \/ Judge(p) \/ GetAccount(p)
  BY <1>2, <1>b DEF RegisterLookup, LoginLookup, Judge, GetAccount, redis, history
<1>3. CASE InsertUser(p)
  BY <1>3, <1>a DEF InsertUser, Grows, StoreTypes, redis, history
<1>4. CASE StoreSession(p)
  BY <1>4, <1>a DEF StoreSession, FreshSession, Abandon, Grows, StoreTypes
<1>5. CASE IndexSession(p)
  BY <1>5 DEF IndexSession, Abandon, Grows
<1>6. CASE GetSession(p)
  BY <1>6 DEF GetSession, Refuse, Grows, redis, history
<1>7. CASE DeleteExpired(p)
  <2>1. stored' \in {stored, [stored EXCEPT ![call[p].session] = NoUser]}
    BY <1>7 DEF DeleteExpired
  <2>2. \A s \in opened : stored'[s] \in {stored[s], NoUser}
    BY <2>1, <1>a DEF StoreTypes
  <2>3. QED
    BY <1>7, <2>2 DEF DeleteExpired, Refuse, Grows, history
<1>8. QED
  BY <1>1, <1>2, <1>3, <1>4, <1>5, <1>6, <1>7 DEF Request

\* A request that is not moved still knows what it knew.
LEMMA KnownStays ==
  ASSUME IAMConstants, IInv, Grows, NEW q \in Procs, Unmoved(q)
  PROVE  LoginInv(q)' /\ WhoamiInv(q)'
<1>a. LoginInv(q) /\ WhoamiInv(q) /\ Ready(q) /\ StoreTypes /\ LocalTypes
  BY TypeParts DEF IInv
<1>1. user[q] # NoUser => user[q] \in Users
  BY <1>a DEF LocalTypes
<1>2. LoginInv(q)'
  BY <1>a, <1>1 DEF LoginInv, Ready, Grows, Unmoved, IAMConstants
<1>3. user[q] # NoUser /\ Owned(call[q].session, user[q])
      => Owned(call[q].session, user[q])'
  <2> SUFFICES ASSUME user[q] # NoUser, Owned(call[q].session, user[q])
               PROVE  Owned(call[q].session, user[q])'
    OBVIOUS
  <2>1. PICK g \in granted : /\ g.session = call[q].session
                             /\ g.right /\ g.login = users[user[q]]
    BY DEF Owned
  <2>2. users[user[q]] # NoLogin
    BY <2>1, <1>a DEF StoreTypes, IAMConstants
  <2>3. users'[user'[q]] = users[user[q]] /\ g \in granted'
    BY <2>1, <2>2, <1>1 DEF Grows, Unmoved
  <2>4. QED
    BY <2>1, <2>3 DEF Owned, Unmoved
<1>4. QED
  BY <1>a, <1>2, <1>3 DEF WhoamiInv, Ready, Grows, Unmoved

\* The request that moves knows what it says it knows.
LEMMA ReplyKnows ==
  ASSUME LocalTypes, NEW p \in Procs, NEW r \in Replies \ {"allowed"}, Reply(p, r)
  PROVE  LoginInv(p)' /\ WhoamiInv(p)'
<1>1. pc'[p] = "idle" /\ reply'[p] # "allowed"
  BY ReplyMoves
<1>2. QED
  BY <1>1 DEF LoginInv, WhoamiInv

LEMMA KnownByMover ==
  ASSUME IAMConstants, IInv, NEW p \in Procs, Request(p)
  PROVE  LoginInv(p)' /\ WhoamiInv(p)'
<1>a. /\ LoginInv(p) /\ WhoamiInv(p) /\ Ready(p) /\ StoreTypes /\ LocalTypes
      /\ Grows /\ StoreTypes' /\ LocalTypes' /\ Ready(p)'
  BY TypeParts, RequestGrows, RequestTypes DEF IInv
<1>b. (\E r \in Replies \ {"allowed"} : Reply(p, r)) => LoginInv(p)' /\ WhoamiInv(p)'
  BY <1>a, ReplyKnows
<1>c. Replies \ {"allowed"} = {"none", "registered", "exists", "invalid", "session",
                               "unknown", "expired", "error"}
  BY DEF Replies
<1>1. CASE StartRegister(p)
  <2>1. PICK l \in Logins :
          Serve(p, [NoCall EXCEPT !.op = "register", !.login = l], "lookup")
    BY <1>1 DEF StartRegister
  <2>2. pc'[p] = "lookup" /\ call'[p].login = l /\ reply'[p] = "none"
    BY <2>1, <1>a DEF Serve, LocalTypes, NoCall
  <2>3. QED
    BY <2>2 DEF LoginInv, WhoamiInv
<1>2. CASE RegisterLookup(p)
  <2>1. CASE Goto(p, "insert")
    <3>1. /\ pc'[p] = "insert" /\ call'[p] = call[p]
          /\ pc[p] = "lookup" /\ reply'[p] = reply[p]
      BY <2>1, <1>2, <1>a DEF RegisterLookup, Goto, LocalTypes
    <3>2. QED
      BY <3>1, <1>a DEF LoginInv, WhoamiInv
  <2>2. QED
    BY <2>1, <1>2, <1>b, <1>c DEF RegisterLookup
<1>3. CASE InsertUser(p)
  BY <1>3, <1>b, <1>c DEF InsertUser
<1>4. CASE StartLogin(p)
  <2>1. PICK l \in Logins, b \in BOOLEAN :
          Serve(p, [NoCall EXCEPT !.op = "login", !.login = l, !.right = b], "lookup")
    BY <1>4 DEF StartLogin
  <2>2. pc'[p] = "lookup" /\ call'[p].login = l /\ reply'[p] = "none"
    BY <2>1, <1>a DEF Serve, LocalTypes, NoCall
  <2>3. QED
    BY <2>2 DEF LoginInv, WhoamiInv
<1>5. CASE LoginLookup(p)
  <2>1. ASSUME NEW u \in Users, Has(call[p].login, u), PasswordMatches(p),
               user' = [user EXCEPT ![p] = u], Goto(p, "store")
        PROVE  LoginInv(p)' /\ WhoamiInv(p)'
    <3>1. /\ pc'[p] = "store" /\ call'[p] = call[p] /\ user'[p] = u
          /\ pc[p] = "lookup" /\ reply'[p] = reply[p]
      BY <2>1, <1>5, <1>a DEF LoginLookup, Goto, LocalTypes
    <3>2. call[p].right /\ users'[u] = call[p].login
      BY <2>1, <1>5 DEF LoginLookup, PasswordMatches, Has
    <3>3. QED
      BY <3>1, <3>2, <1>a DEF LoginInv, WhoamiInv
  <2>2. QED
    BY <2>1, <1>5, <1>b, <1>c DEF LoginLookup
<1>6. CASE StoreSession(p)
  <2>1. ASSUME NEW s \in Sessions, opened' = opened \cup {s},
               stored' = [stored EXCEPT ![s] = user[p]],
               session' = [session EXCEPT ![p] = s],
               Goto(p, "index"), user' = user
        PROVE  LoginInv(p)' /\ WhoamiInv(p)'
    <3>1. /\ pc'[p] = "index" /\ call'[p] = call[p] /\ user'[p] = user[p]
          /\ session'[p] = s /\ stored'[s] = user[p] /\ s \in opened'
          /\ pc[p] = "store" /\ reply'[p] = reply[p]
      BY <2>1, <1>6, <1>a DEF StoreSession, Goto, LocalTypes, StoreTypes
    <3>2. users' = users
      BY <1>6 DEF StoreSession
    <3>3. QED
      BY <3>1, <3>2, <1>a DEF LoginInv, WhoamiInv
  <2>2. QED
    BY <2>1, <1>6, <1>b, <1>c DEF StoreSession, FreshSession
<1>7. CASE IndexSession(p)
  BY <1>7, <1>b, <1>c DEF IndexSession
<1>8. CASE StartWhoami(p)
  <2>1. PICK s \in {g.session : g \in granted} \cup {NoSession} :
          Serve(p, [NoCall EXCEPT !.op = "whoami", !.session = s,
                                  !.late = (s \in refused)], "get")
    BY <1>8 DEF StartWhoami
  <2>2. /\ pc'[p] = "get" /\ reply'[p] = "none"
        /\ call'[p].session = s /\ (call'[p].late => s \in refused)
        /\ UNCHANGED <<granted, refused>>
    BY <2>1, <1>a DEF Serve, LocalTypes, NoCall, history
  <2>3. s = NoSession \/ \E g \in granted : g.session = s
    BY <2>1
  <2>4. QED
    BY <2>2, <2>3 DEF LoginInv, WhoamiInv
<1>9. CASE GetSession(p)
  <2>1. ASSUME KeyExists(call[p].session),
               user' = [user EXCEPT ![p] = stored[call[p].session]],
               Goto(p, "judge")
        PROVE  LoginInv(p)' /\ WhoamiInv(p)'
    <3>1. /\ pc'[p] = "judge" /\ call'[p] = call[p]
          /\ user'[p] = stored[call[p].session]
          /\ pc[p] = "get" /\ reply'[p] = reply[p]
      BY <2>1, <1>9, <1>a DEF GetSession, Goto, LocalTypes
    <3>2. PICK g \in granted : g.session = call[p].session
      BY <2>1, <3>1, <1>a DEF KeyExists, WhoamiInv, IAMConstants
    <3>3. g.right /\ users[stored[call[p].session]] = g.login
      BY <2>1, <3>2 DEF IInv, GrantInv, KeyExists
    <3>4. users' = users /\ g \in granted'
      BY <1>9, <3>2, <1>a DEF GetSession, Grows
    <3>5. Owned(call[p].session, user[p])'
      BY <3>1, <3>2, <3>3, <3>4 DEF Owned
    <3>6. ~call[p].late
      BY <2>1, <3>1, <1>a DEF WhoamiInv, KeyExists, IInv, RefusedInv
    <3>7. QED
      BY <3>1, <3>5, <3>6, <1>a DEF LoginInv, WhoamiInv
  <2>2. QED
    BY <2>1, <1>9, <1>b, <1>c DEF GetSession, Refuse
<1>10. CASE Judge(p)
  <2>1. /\ pc'[p] \in {"delete", "account"} /\ call'[p] = call[p]
        /\ pc[p] = "judge" /\ reply'[p] = reply[p]
        /\ UNCHANGED <<users, user, granted>>
    BY <1>10, <1>a DEF Judge, Goto, LocalTypes, history
  <2>2. QED
    BY <2>1, <1>a DEF LoginInv, WhoamiInv, Owned
<1>11. CASE DeleteExpired(p)
  BY <1>11, <1>b, <1>c DEF DeleteExpired, Refuse
<1>12. CASE GetAccount(p)
  <2>1. CASE Reply(p, "allowed")
    <3>1. /\ pc'[p] = "idle" /\ call'[p] = call[p] /\ user'[p] = user[p]
          /\ pc[p] = "account" /\ UNCHANGED <<users, granted>>
      BY <2>1, <1>12, <1>a, ReplyMoves DEF GetAccount, history, Replies
    <3>2. QED
      BY <3>1, <1>a DEF LoginInv, WhoamiInv, Owned, Ready
  <2>2. QED
    BY <2>1, <1>12, <1>b, <1>c DEF GetAccount
<1>13. QED
  BY <1>1, <1>2, <1>3, <1>4, <1>5, <1>6, <1>7, <1>8, <1>9, <1>10, <1>11, <1>12
     DEF Request

-----------------------------------------------------------------------------
(* The promises.                                                           *)

\* What was granted or refused before the step stays so.
LEMMA OldGrantsStay ==
  ASSUME IAMConstants, IInv, Grows
  PROVE  /\ \A g \in granted : GrantInv(g)'
         /\ \A s \in refused : s \in opened' /\ stored'[s] = NoUser
<1>a. StoreTypes
  BY TypeParts DEF IInv
<1>1. ASSUME NEW g \in granted PROVE GrantInv(g)'
  <2>1. g.right /\ g.session \in opened /\ g.session \in Sessions /\ g.login \in Logins
    BY <1>a DEF IInv, GrantInv, StoreTypes
  <2>2. ASSUME stored'[g.session] # NoUser
        PROVE  users'[stored'[g.session]] = g.login
    <3>1. stored'[g.session] = stored[g.session] /\ stored[g.session] # NoUser
      BY <2>1, <2>2 DEF Grows
    <3>2. users[stored[g.session]] = g.login /\ stored[g.session] \in Users
      BY <2>1, <3>1, <1>a DEF IInv, GrantInv, StoreTypes
    <3>3. QED
      BY <3>1, <3>2, <2>1 DEF Grows, IAMConstants
  <2>3. QED
    BY <2>1, <2>2 DEF GrantInv, Grows
<1>2. \A s \in refused : s \in opened' /\ stored'[s] = NoUser
  BY DEF IInv, RefusedInv, Grows
<1>3. QED
  BY <1>1, <1>2

LEMMA GrantStep ==
  ASSUME IAMConstants, IInv, NEW p \in Procs, Request(p)
  PROVE  (\A g \in granted : GrantInv(g))'
<1>a. LoginInv(p) /\ Ready(p) /\ StoreTypes /\ LocalTypes /\ Grows
  BY TypeParts, RequestGrows DEF IInv
<1>1. CASE granted' = granted
  BY <1>1, <1>a, OldGrantsStay
<1>2. CASE IndexSession(p)
  <2>0. PICK g : g = [session |-> session[p], login |-> call[p].login,
                      right |-> call[p].right]
    OBVIOUS
  <2>1. /\ pc[p] = "index" /\ UNCHANGED <<users, stored, opened>>
        /\ granted' \in {granted, granted \cup {g}}
    BY <1>2, <2>0 DEF IndexSession, Abandon
  <2>2. GrantInv(g)'
    <3>1. g.right = call[p].right /\ g.session = session[p] /\ g.login = call[p].login
      BY <2>0
    <3>2. call[p].right /\ users[user[p]] = call[p].login
      BY <2>1, <1>a DEF LoginInv
    <3>3. session[p] \in opened /\ stored[session[p]] \in {NoUser, user[p]}
      BY <2>1, <1>a DEF LoginInv
    <3>4. g.right
      BY <3>1, <3>2
    <3>5. QED
      BY <2>1, <3>1, <3>2, <3>3, <3>4 DEF GrantInv
  <2>3. QED
    BY <2>1, <2>2, <1>a, OldGrantsStay
<1>3. QED
  BY <1>1, <1>2
     DEF Request, StartRegister, RegisterLookup, InsertUser, StartLogin,
         LoginLookup, StoreSession, StartWhoami, GetSession, Judge,
         DeleteExpired, GetAccount, Serve, Refuse, Abandon, history

LEMMA RefusedStep ==
  ASSUME IAMConstants, IInv, NEW p \in Procs, Request(p)
  PROVE  RefusedInv'
<1>a. WhoamiInv(p) /\ Ready(p) /\ StoreTypes /\ LocalTypes /\ Grows
  BY TypeParts, RequestGrows DEF IInv
<1>1. CASE refused' = refused
  BY <1>1, <1>a, OldGrantsStay DEF RefusedInv
<1>2. ASSUME Refuse(p, "unknown") \/ Refuse(p, "expired"),
             \E g \in granted : g.session = call[p].session,
             stored'[call[p].session] = NoUser
      PROVE  RefusedInv'
  <2>1. /\ refused' = refused \cup ({call[p].session} \ {NoSession})
        /\ call[p].session \in opened /\ opened' = opened
    BY <1>2 DEF Refuse, IInv, GrantInv
  <2>2. QED
    BY <2>1, <1>2, <1>a, OldGrantsStay DEF RefusedInv
<1>3. CASE GetSession(p)
  <2>1. CASE call[p].session = NoSession
    BY <2>1, <1>1, <1>3 DEF GetSession, Refuse, history
  <2>2. CASE call[p].session # NoSession
    <3>1. \E g \in granted : g.session = call[p].session
      BY <2>2, <1>3, <1>a DEF GetSession, WhoamiInv
    <3>2. UNCHANGED stored /\ call[p].session \in Sessions
      BY <3>1, <1>3, <1>a DEF GetSession, redis, StoreTypes
    <3>3. QED
      BY <3>1, <3>2, <1>1, <1>2, <1>3 DEF GetSession, KeyExists, history
  <2>3. QED
    BY <2>1, <2>2
<1>4. CASE DeleteExpired(p)
  <2>1. \E g \in granted : g.session = call[p].session
    BY <1>4, <1>a DEF DeleteExpired, WhoamiInv
  <2>2. call[p].session \in Sessions
    BY <2>1, <1>a DEF StoreTypes
  <2>3. stored' = [stored EXCEPT ![call[p].session] = NoUser]
        => stored'[call[p].session] = NoUser
    BY <2>2, <1>a DEF StoreTypes
  <2>4. QED
    BY <2>1, <2>3, <1>1, <1>2, <1>4 DEF DeleteExpired, history
<1>5. QED
  BY <1>1, <1>3, <1>4
     DEF Request, StartRegister, RegisterLookup, InsertUser, StartLogin,
         LoginLookup, StoreSession, IndexSession, StartWhoami, Judge,
         GetAccount, Serve, Abandon, history

LEMMA AccountStep ==
  ASSUME IAMConstants, IInv, NEW p \in Procs, Request(p)
  PROVE  OneAccountPerLogin'
<1>a. StoreTypes /\ OneAccountPerLogin
  BY TypeParts DEF IInv
<1>1. CASE users' = users
  BY <1>1, <1>a DEF OneAccountPerLogin
<1>2. CASE InsertUser(p)
  BY <1>1, <1>2, <1>a
     DEF InsertUser, LoginAccepted, Taken, Has, OneAccountPerLogin, StoreTypes
<1>3. QED
  BY <1>1, <1>2
     DEF Request, StartRegister, RegisterLookup, StartLogin, LoginLookup,
         StoreSession, IndexSession, StartWhoami, GetSession, Judge,
         DeleteExpired, GetAccount, Serve

\* One session, in one state.
Found(s) == stored[s] # NoUser =>
              \/ s \in listed[stored[s]]
              \/ s \in abandoned
              \/ \E p \in Procs : pc[p] = "index" /\ session[p] = s

LEMMA ListedStep ==
  ASSUME IAMConstants, IInv, NEW p \in Procs, Request(p)
  PROVE  SessionsAreListed'
<1>a. /\ LoginInv(p) /\ WhoamiInv(p) /\ Ready(p) /\ StoreTypes /\ LocalTypes
      /\ \A s \in Sessions : Found(s)
  BY TypeParts DEF IInv, SessionsAreListed, Found
<1>b. \A q \in Procs \ {p} : Unmoved(q)
  BY OneMoves DEF IInv
<1>c. ASSUME NEW s \in Sessions, stored'[s] \in {stored[s], NoUser},
             \A u \in Users : listed[u] \subseteq listed'[u],
             abandoned \subseteq abandoned',
             ~(pc[p] = "index" /\ session[p] = s)
      PROVE  Found(s)'
  <2> SUFFICES ASSUME stored'[s] # NoUser
               PROVE  \/ s \in listed'[stored'[s]]
                      \/ s \in abandoned'
                      \/ \E q \in Procs : pc'[q] = "index" /\ session'[q] = s
    BY DEF Found
  <2>1. stored'[s] = stored[s] /\ stored[s] \in Users
    BY <1>c, <1>a DEF StoreTypes
  <2>2. CASE \E q \in Procs : pc[q] = "index" /\ session[q] = s
    BY <2>2, <1>b, <1>c DEF Unmoved
  <2>3. QED
    BY <2>1, <2>2, <1>a, <1>c DEF Found
<1>1. CASE StoreSession(p)
  <2>1. PICK s \in Sessions \ opened :
          \/ /\ stored' = [stored EXCEPT ![s] = user[p]]
             /\ session' = [session EXCEPT ![p] = s] /\ Goto(p, "index")
             /\ UNCHANGED abandoned
          \/ /\ stored' \in {stored, [stored EXCEPT ![s] = user[p]]}
             /\ Abandon(s)
    BY <1>1 DEF StoreSession, FreshSession
  <2>2. Found(s)'
    BY <2>1, <1>a DEF Found, Abandon, Goto, LocalTypes
  <2>3. ASSUME NEW t \in Sessions \ {s} PROVE Found(t)'
    <3>1. stored'[t] = stored[t]
      BY <2>1, <1>a DEF StoreTypes
    <3>2. pc[p] = "store" /\ listed' = listed /\ abandoned \subseteq abandoned'
      BY <1>1, <2>1 DEF StoreSession, Abandon
    <3>3. QED
      BY <3>1, <3>2, <1>c
  <2>4. QED
    BY <2>2, <2>3 DEF SessionsAreListed, Found
<1>2. CASE IndexSession(p)
  <2>0. PICK s : s = session[p]
    OBVIOUS
  <2>1. /\ pc[p] = "index" /\ UNCHANGED stored
        /\ \/ listed' = [listed EXCEPT ![user[p]] = @ \cup {s}]
              /\ UNCHANGED abandoned
           \/ listed' \in {listed, [listed EXCEPT ![user[p]] = @ \cup {s}]}
              /\ Abandon(s)
    BY <1>2, <2>0 DEF IndexSession
  <2>2. user[p] \in Users /\ s \in Sessions
    BY <2>0, <2>1, <1>a DEF Ready, LocalTypes
  <2>3. Found(s)'
    BY <2>0, <2>1, <2>2, <1>a DEF Found, Abandon, LoginInv, StoreTypes
  <2>4. ASSUME NEW t \in Sessions \ {s} PROVE Found(t)'
    <3>1. \A u \in Users : listed[u] \subseteq listed'[u]
      BY <2>1, <2>2, <1>a DEF StoreTypes
    <3>2. abandoned \subseteq abandoned'
      BY <2>1 DEF Abandon
    <3>3. QED
      BY <3>1, <3>2, <2>0, <2>1, <1>c
  <2>5. QED
    BY <2>3, <2>4 DEF SessionsAreListed, Found
<1>3. ASSUME UNCHANGED <<listed, abandoned>>, pc[p] # "index",
             \A s \in Sessions : stored'[s] \in {stored[s], NoUser}
      PROVE  SessionsAreListed'
  BY <1>3, <1>c DEF SessionsAreListed, Found
<1>4. CASE DeleteExpired(p)
  <2>1. /\ stored' \in {stored, [stored EXCEPT ![call[p].session] = NoUser]}
        /\ UNCHANGED <<listed, abandoned>> /\ pc[p] = "delete"
    BY <1>4 DEF DeleteExpired, Refuse, history
  <2>2. \A s \in Sessions : stored'[s] \in {stored[s], NoUser}
    BY <2>1, <1>a DEF StoreTypes
  <2>3. QED
    BY <2>1, <2>2, <1>3
<1>5. CASE UNCHANGED <<stored, listed, abandoned>> /\ pc[p] # "index"
  BY <1>5, <1>3
<1>6. QED
  BY <1>1, <1>2, <1>4, <1>5
     DEF Request, StartRegister, RegisterLookup, InsertUser, StartLogin,
         LoginLookup, StartWhoami, GetSession, Judge, GetAccount, Serve,
         Refuse, redis, history

-----------------------------------------------------------------------------
(* The invariant and what follows from it.                                 *)

LEMMA RequestStep ==
  ASSUME IAMConstants, IInv, NEW p \in Procs, Request(p)
  PROVE  IInv'
<1>1. TypeOK'
  BY TypeStep DEF Next
<1>2. \A q \in Procs : LoginInv(q)' /\ WhoamiInv(q)'
  BY KnownByMover, KnownStays, RequestGrows, OneMoves DEF IInv
<1>3. QED
  BY <1>1, <1>2, GrantStep, RefusedStep, AccountStep, ListedStep DEF IInv

\* Time and a restart: keys vanish and requests end, nothing else.
LEMMA OtherStep ==
  ASSUME IAMConstants, IInv,
         \/ \E s \in Sessions : Lapse(s) \/ Vanish(s)
         \/ Crash
         \/ UNCHANGED vars
  PROVE  IInv'
<1>a. StoreTypes /\ LocalTypes /\ \A q \in Procs : Ready(q)
  BY TypeParts DEF IInv
<1>1. TypeOK'
  BY TypeStep DEF Next
<1>2. /\ users' = users /\ listed' = listed /\ opened' = opened
      /\ granted' = granted /\ refused' = refused
      /\ \A s \in Sessions : stored'[s] \in {stored[s], NoUser}
  BY <1>a DEF StoreTypes, Lapse, Vanish, Crash, redis, locals, history, vars
<1>3. Grows
  BY <1>2, <1>a DEF Grows, StoreTypes
<1>4. OneAccountPerLogin' /\ RefusedInv' /\ (\A g \in granted : GrantInv(g))'
  BY <1>2, <1>3, OldGrantsStay DEF IInv, OneAccountPerLogin, RefusedInv
<1>5. CASE Crash
  <2>1. \A q \in Procs : pc'[q] = "idle" /\ reply'[q] = "none"
    BY <1>5 DEF Crash
  <2>2. \A q \in Procs : LoginInv(q)' /\ WhoamiInv(q)'
    BY <2>1 DEF LoginInv, WhoamiInv
  <2>3. \A q \in Procs : pc[q] = "index" => session[q] \in abandoned'
    BY <1>5, <1>a DEF Crash, Ready
  <2>4. SessionsAreListed'
    BY <1>2, <1>5, <2>3, <1>a DEF IInv, SessionsAreListed, Crash, StoreTypes
  <2>5. QED
    BY <1>1, <1>4, <2>2, <2>4 DEF IInv
<1>6. CASE UNCHANGED locals /\ abandoned' = abandoned
  <2>1. \A q \in Procs : Unmoved(q)
    BY <1>6 DEF locals, Unmoved
  <2>2. \A q \in Procs : LoginInv(q)' /\ WhoamiInv(q)'
    BY <2>1, <1>3, KnownStays
  <2>3. SessionsAreListed'
    BY <1>2, <1>6, <1>a DEF IInv, SessionsAreListed, locals, StoreTypes
  <2>4. QED
    BY <1>1, <1>4, <2>2, <2>3 DEF IInv
<1>7. QED
  BY <1>5, <1>6 DEF Lapse, Vanish, locals, history, vars

\* The invariant of every behaviour, from which the theorems below follow.
THEOREM Invariance == ASSUME IAMConstants PROVE Spec => []IInv
<1>1. Init => IInv
  BY InitIInv
<1>2. IInv /\ [Next]_vars => IInv'
  BY RequestStep, OtherStep DEF Next
<1>3. QED
  BY <1>1, <1>2, PTL DEF Spec

\* Every variable has its type, and no request takes a step (of InsertUser,
\* StoreSession, IndexSession, DeleteExpired, GetAccount) without what it needs.
THEOREM TypeCorrect == ASSUME IAMConstants PROVE Spec => []TypeOK
<1>1. IInv => TypeOK
  BY DEF IInv
<1>2. QED
  BY <1>1, Invariance, PTL

\* Registrations that race between GetByLogin and Create leave one account.
THEOREM UniqueLogins == ASSUME IAMConstants PROVE Spec => []OneAccountPerLogin
<1>1. IInv => OneAccountPerLogin
  BY DEF IInv
<1>2. QED
  BY <1>1, Invariance, PTL

\* The two writes of Login leave no session that its user's set lacks, but for
\* those of a login that is between them or that ended with an error.
THEOREM NoLostSession == ASSUME IAMConstants PROVE Spec => []SessionsAreListed
<1>1. IInv => SessionsAreListed
  BY DEF IInv
<1>2. QED
  BY <1>1, Invariance, PTL

\* Whoami answers with the account whose password opened the session.
THEOREM WhoamiIsRight == ASSUME IAMConstants PROVE Spec => []AllowedIsOwner
<1>1. IInv => AllowedIsOwner
  BY DEF IInv, WhoamiInv, Owned, AllowedIsOwner
<1>2. QED
  BY <1>1, Invariance, PTL

\* Whoami allows no request that starts after its session was refused.
THEOREM RefusalIsFinal == ASSUME IAMConstants PROVE Spec => []RefusedForGood
<1>1. IInv => RefusedForGood
  BY DEF IInv, WhoamiInv, RefusedForGood
<1>2. QED
  BY <1>1, Invariance, PTL

-----------------------------------------------------------------------------
(* Whoami is one decision: what the key, the clock and the question have   *)
(* to do with each other between the calls.                                *)

\* A session's key is there until the session has expired.
Kept(s) == s \in lapsed \/ stored[s] # NoUser

AInv == /\ lapsed \subseteq opened
        /\ \A g \in granted : Kept(g.session)
        /\ \A p \in Procs : pc[p] = "index" => Kept(session[p])
        /\ \A p \in Procs : pc[p] = "delete" => call[p].session \in lapsed

\* What a step does to the keys and the clock.
LEMMA KeyWriters ==
  ASSUME [Next]_vars
  PROVE  \/ UNCHANGED <<stored, lapsed, opened>>
         \/ \E p \in Procs : StoreSession(p) \/ DeleteExpired(p)
         \/ \E s \in Sessions : Lapse(s) \/ Vanish(s)
<1>1. ASSUME NEW p \in Procs, Request(p)
      PROVE  \/ UNCHANGED <<stored, lapsed, opened>>
             \/ StoreSession(p) \/ DeleteExpired(p)
  <2>1. CASE \/ StartRegister(p) \/ RegisterLookup(p) \/ InsertUser(p)
             \/ StartLogin(p) \/ LoginLookup(p) \/ IndexSession(p)
    BY <2>1 DEF StartRegister, RegisterLookup, InsertUser, StartLogin,
                LoginLookup, IndexSession, Serve, redis, history
  <2>2. CASE StartWhoami(p) \/ GetSession(p) \/ Judge(p) \/ GetAccount(p)
    BY <2>2 DEF StartWhoami, GetSession, Judge, GetAccount, Refuse, Serve,
                redis, history
  <2> QED BY <1>1, <2>1, <2>2 DEF Request
<1>2. CASE Crash \/ UNCHANGED vars
  BY <1>2 DEF Crash, vars, redis
<1> QED BY <1>1, <1>2 DEF Next

\* Nothing but its expiry takes the key of an opened session away.
LEMMA KeptStays ==
  ASSUME IAMConstants, IInv, AInv, [Next]_vars
  PROVE  /\ lapsed \subseteq lapsed' /\ lapsed' \subseteq opened'
         /\ \A s \in opened : Kept(s) => Kept(s)'
<1>a. StoreTypes /\ LocalTypes
  BY TypeParts DEF IInv
<1>1. CASE UNCHANGED <<stored, lapsed, opened>>
  BY <1>1 DEF AInv, Kept
<1>2. ASSUME NEW p \in Procs, StoreSession(p)
      PROVE  /\ lapsed \subseteq lapsed' /\ lapsed' \subseteq opened'
             /\ \A s \in opened : Kept(s) => Kept(s)'
  <2>1. PICK s \in Sessions :
          /\ s \notin opened /\ opened' = opened \cup {s}
          /\ lapsed' = lapsed \ {s}
          /\ stored' \in {stored, [stored EXCEPT ![s] = user[p]]}
    BY <1>2 DEF StoreSession, FreshSession
  <2>2. lapsed' = lapsed
    BY <2>1 DEF AInv
  <2>3. \A r \in opened : stored'[r] = stored[r]
    BY <2>1, <1>a DEF StoreTypes
  <2> QED BY <2>1, <2>2, <2>3 DEF AInv, Kept
<1>3. ASSUME NEW s \in lapsed, UNCHANGED <<lapsed, opened>>,
             stored' \in {stored, [stored EXCEPT ![s] = NoUser]}
      PROVE  /\ lapsed \subseteq lapsed' /\ lapsed' \subseteq opened'
             /\ \A r \in opened : Kept(r) => Kept(r)'
  <2>1. \A r \in opened : stored'[r] = stored[r] \/ r = s
    BY <1>3, <1>a DEF StoreTypes
  <2> QED BY <1>3, <2>1 DEF AInv, Kept
<1>4. ASSUME NEW p \in Procs, DeleteExpired(p)
      PROVE  \E s \in lapsed : /\ UNCHANGED <<lapsed, opened>>
                               /\ stored' \in {stored, [stored EXCEPT ![s] = NoUser]}
  BY <1>4 DEF DeleteExpired, Refuse, AInv, history
<1>5. ASSUME NEW s \in Sessions, Lapse(s)
      PROVE  /\ lapsed \subseteq lapsed' /\ lapsed' \subseteq opened'
             /\ \A r \in opened : Kept(r) => Kept(r)'
  BY <1>5 DEF Lapse, AInv, Kept, redis, history
<1>6. ASSUME NEW s \in Sessions, Vanish(s)
      PROVE  \E r \in lapsed : /\ UNCHANGED <<lapsed, opened>>
                               /\ stored' \in {stored, [stored EXCEPT ![r] = NoUser]}
  BY <1>6 DEF Vanish, history
<1> QED BY <1>1, <1>2, <1>3, <1>4, <1>5, <1>6, KeyWriters

LEMMA AInvStep ==
  ASSUME IAMConstants, IInv, AInv, [Next]_vars
  PROVE  AInv'
<1>a. StoreTypes /\ LocalTypes
  BY TypeParts DEF IInv
<1>b. /\ lapsed \subseteq lapsed' /\ lapsed' \subseteq opened'
      /\ \A s \in opened : Kept(s) => Kept(s)'
  BY KeptStays
<1>c. \A g \in granted : Kept(g.session)'
  BY <1>b DEF IInv, GrantInv, AInv
<1>d. ASSUME NEW q \in Procs, Unmoved(q)
      PROVE  /\ pc'[q] = "index" => Kept(session[q])'
             /\ pc'[q] = "delete" => call'[q].session \in lapsed'
  BY <1>b, <1>d DEF IInv, LoginInv, AInv, Unmoved, Kept
<1>1. ASSUME NEW p \in Procs, Request(p) PROVE AInv'
  <2>1. \A q \in Procs \ {p} : Unmoved(q)
    BY <1>1, OneMoves DEF IInv
  <2>2. \A g \in granted' : Kept(g.session)'
    <3>1. CASE IndexSession(p)
      <4>1. pc[p] = "index" /\ session[p] \in opened
        BY <1>1, <3>1 DEF IndexSession, IInv, LoginInv
      <4>2. \A g \in granted' : g \in granted \/ g.session = session[p]
        BY <3>1 DEF IndexSession, Abandon
      <4> QED BY <1>b, <1>c, <4>1, <4>2 DEF AInv
    <3>2. CASE granted' = granted
      BY <1>c, <3>2
    <3> QED BY <1>1, <3>1, <3>2
            DEF Request, StartRegister, RegisterLookup, InsertUser, StartLogin,
                LoginLookup, StoreSession, Abandon, StartWhoami, GetSession,
                Judge, DeleteExpired, GetAccount, Refuse, Serve, history
  <2>3. pc'[p] = "index" => Kept(session[p])'
    <3>1. ASSUME StoreSession(p), pc'[p] = "index"
          PROVE  Kept(session[p])'
      <4>1. user[p] \in Users \cup {NoUser} /\ user[p] # NoUser
        BY <1>a, <3>1 DEF StoreSession, IInv, TypeOK
      <4>2. PICK s \in Sessions :
              /\ stored' = [stored EXCEPT ![s] = user[p]]
              /\ session' = [session EXCEPT ![p] = s]
        BY <1>a, <3>1 DEF StoreSession, Reply, LocalTypes
      <4> QED BY <1>a, <4>1, <4>2 DEF Kept, StoreTypes, LocalTypes
    <3>2. CASE ~StoreSession(p)
      <4>1. pc'[p] # "index"
        BY <1>1, <1>a, <3>2
           DEF Request, StartRegister, RegisterLookup, InsertUser, StartLogin,
               LoginLookup, IndexSession, StartWhoami, GetSession, Judge,
               DeleteExpired, GetAccount, Refuse, Serve, Reply, Goto, LocalTypes
      <4> QED BY <4>1
    <3> QED BY <3>1, <3>2
  <2>4. pc'[p] = "delete" => call'[p].session \in lapsed'
    <3>1. CASE Judge(p)
      BY <1>a, <3>1 DEF Judge, Goto, LocalTypes
    <3>2. CASE ~Judge(p)
      <4>1. pc'[p] # "delete"
        BY <1>1, <1>a, <3>2
           DEF Request, StartRegister, RegisterLookup, InsertUser, StartLogin,
               LoginLookup, StoreSession, IndexSession, StartWhoami, GetSession,
               DeleteExpired, GetAccount, Refuse, Serve, Reply, Goto, LocalTypes
      <4> QED BY <4>1
    <3> QED BY <3>1, <3>2
  <2> QED BY <1>b, <1>d, <2>1, <2>2, <2>3, <2>4 DEF AInv
<1>2. CASE Crash
  BY <1>2, <1>b, <1>c DEF Crash, AInv
<1>3. CASE (\E s \in Sessions : Lapse(s) \/ Vanish(s)) \/ UNCHANGED vars
  <2>1. granted' = granted /\ \A q \in Procs : Unmoved(q)
    BY <1>3 DEF Lapse, Vanish, vars, locals, history, Unmoved
  <2> QED BY <1>b, <1>c, <1>d, <2>1 DEF AInv
<1> QED BY <1>1, <1>2, <1>3 DEF Next

-----------------------------------------------------------------------------
(* Each step is a step of the authority, or none.                          *)

\* Where a request stands, to whoever asked, is its own affair.
LEMMA AskersApart ==
  ASSUME NEW p \in Procs, \A q \in Procs \ {p} : Unmoved(q)
  PROVE  /\ [q \in Procs |-> Phase(q)]' =
              [[q \in Procs |-> Phase(q)] EXCEPT ![p] = Phase(p)']
         /\ [q \in Procs |-> About(q)]' =
              [[q \in Procs |-> About(q)] EXCEPT ![p] = About(p)']
<1>1. \A q \in Procs \ {p} : Phase(q)' = Phase(q) /\ About(q)' = About(q)
  BY DEF Unmoved, Phase, About, Asking, Vouched
<1> QED BY <1>1, Zenon

\* A request that asks nothing, or not any more.
LEMMA Forgotten ==
  ASSUME NEW p \in Procs, \A q \in Procs \ {p} : Unmoved(q),
         UNCHANGED <<lapsed, opened>>,
         Phase(p)' = "idle", About(p)' = NoSession
  PROVE  [Authority!Next]_(Authority!vars)
<1>1. CASE Phase(p) = "idle"
  <2>1. About(p) = NoSession
    BY <1>1 DEF Phase, About
  <2> QED BY <1>1, <2>1, AskersApart DEF Authority!vars
<1>2. CASE Phase(p) # "idle"
  <2>1. Authority!Forget(p)
    BY <1>2, AskersApart DEF Authority!Forget
  <2> QED BY <2>1 DEF Authority!Next
<1> QED BY <1>1, <1>2

\* A request that stays where it was, for whoever asked.
LEMMA StillThere ==
  ASSUME NEW p \in Procs, \A q \in Procs \ {p} : Unmoved(q),
         UNCHANGED <<lapsed, opened>>,
         Phase(p)' = Phase(p), About(p)' = About(p)
  PROVE  UNCHANGED Authority!vars
BY AskersApart DEF Authority!vars

\* Where an answer leaves its request.
LEMMA AnswerEnds ==
  ASSUME LocalTypes, NEW p \in Procs, NEW r \in Replies, Reply(p, r)
  PROVE  /\ r \notin {"unknown", "expired", "allowed"} => Phase(p)' = "idle"
         /\ r \in {"unknown", "expired"} => Phase(p)' = "refused"
         /\ r # "allowed" => About(p)' = NoSession
         /\ r = "allowed" => Phase(p)' = "vouched" /\ About(p)' = call[p].session
<1>1. /\ pc'[p] = "idle" /\ reply'[p] = r
      /\ r = "allowed" => call'[p] = call[p]
  BY ReplyMoves
<1> QED BY <1>1 DEF Phase, About, Asking, Vouched

\* A login, or a registration, asks nothing of the authority.
LEMMA NoQuestion ==
  ASSUME IAMConstants, IInv, NEW p \in Procs,
         \/ StartRegister(p) \/ RegisterLookup(p) \/ InsertUser(p)
         \/ StartLogin(p) \/ LoginLookup(p) \/ IndexSession(p)
  PROVE  /\ Phase(p)' = "idle" /\ About(p)' = NoSession
         /\ UNCHANGED <<lapsed, opened>>
<1>a. LocalTypes /\ WhoamiInv(p)
  BY TypeParts DEF IInv
<1>b. UNCHANGED <<lapsed, opened>>
  BY Zenon DEF StartRegister, RegisterLookup, InsertUser, StartLogin, LoginLookup,
         IndexSession, Serve, history
<1>c. SUFFICES Phase(p)' = "idle" /\ About(p)' = NoSession
  BY <1>b
<1>1. ASSUME NEW r \in {"registered", "exists", "invalid", "session", "error"},
             Reply(p, r)
      PROVE  Phase(p)' = "idle" /\ About(p)' = NoSession
  <2>1. r \in Replies
    BY DEF Replies
  <2> QED BY <1>1, <1>a, <2>1, AnswerEnds
<1>2. ASSUME NEW l \in {"insert", "store"}, Goto(p, l), pc[p] = "lookup"
      PROVE  Phase(p)' = "idle" /\ About(p)' = NoSession
  <2>1. pc'[p] = l /\ reply'[p] # "allowed"
    BY <1>2, <1>a DEF Goto, LocalTypes, WhoamiInv
  <2> QED BY <1>2, <2>1 DEF Phase, About, Asking, Vouched
<1>3. ASSUME NEW c, Serve(p, c, "lookup")
      PROVE  Phase(p)' = "idle" /\ About(p)' = NoSession
  <2>1. pc'[p] = "lookup" /\ reply'[p] = "none"
    BY <1>3, <1>a DEF Serve, LocalTypes
  <2> QED BY <2>1 DEF Phase, About, Asking, Vouched
<1>4. CASE StartRegister(p) \/ StartLogin(p)
  <2>1. \E c : Serve(p, c, "lookup")
    BY <1>4, Zenon DEF StartRegister, StartLogin
  <2> QED BY <1>3, <2>1, Zenon
<1>5. CASE RegisterLookup(p)
  <2>1. \/ Reply(p, "exists") \/ Reply(p, "error")
        \/ pc[p] = "lookup" /\ Goto(p, "insert")
    BY <1>5 DEF RegisterLookup
  <2> QED BY <1>1, <1>2, <2>1
<1>6. CASE InsertUser(p)
  BY <1>1, <1>6 DEF InsertUser
<1>7. CASE LoginLookup(p)
  <2>1. \/ Reply(p, "invalid") \/ Reply(p, "error")
        \/ pc[p] = "lookup" /\ Goto(p, "store")
    BY <1>7 DEF LoginLookup
  <2> QED BY <1>1, <1>2, <2>1
<1>8. CASE IndexSession(p)
  BY <1>1, <1>8 DEF IndexSession
<1> QED BY <1>4, <1>5, <1>6, <1>7, <1>8

\* The new session is granted, and the login goes on or fails.
LEMMA StoreGrants ==
  ASSUME IAMConstants, IInv, AInv, NEW p \in Procs, StoreSession(p)
  PROVE  Authority!Next
<1>a. LocalTypes /\ WhoamiInv(p)
  BY TypeParts DEF IInv
<1>1. PICK s \in Sessions :
        /\ s \notin opened /\ opened' = opened \cup {s}
        /\ lapsed' = lapsed \ {s}
        /\ Goto(p, "index") \/ Reply(p, "error")
  BY DEF StoreSession, FreshSession
<1>2. lapsed' = lapsed /\ s \notin lapsed
  BY <1>1 DEF AInv
<1>3. \A q \in Procs \ {p} : Unmoved(q)
  <2>1. Request(p)
    BY DEF Request
  <2> QED BY <2>1, OneMoves DEF IInv
<1>4. Phase(p) = "idle" /\ About(p) = NoSession
  BY <1>a DEF StoreSession, WhoamiInv, Phase, About, Asking, Vouched
<1>5. Phase(p)' = "idle" /\ About(p)' = NoSession
  <2>1. CASE Reply(p, "error")
    <3>1. "error" \in Replies
      BY DEF Replies
    <3> QED BY <1>a, <2>1, <3>1, AnswerEnds
  <2>2. CASE Goto(p, "index")
    BY <1>a, <2>2
       DEF StoreSession, Goto, LocalTypes, WhoamiInv, Phase, About, Asking,
           Vouched
  <2> QED BY <1>1, <2>1, <2>2
<1>6. Authority!Grant(s)
  BY <1>1, <1>2, <1>3, <1>4, <1>5, AskersApart DEF Authority!Grant
<1> QED BY <1>6 DEF Authority!Next

\* What a request shows was granted, or is nothing that was.
LEMMA ShownIsKnown ==
  ASSUME IInv, AInv, NEW p \in Procs, WhoamiInv(p)
  PROVE  /\ pc[p] = "get" => \/ call[p].session = NoSession
                             \/ /\ call[p].session \in opened
                                /\ Kept(call[p].session)
         /\ pc[p] = "judge" => call[p].session \in opened
BY DEF IInv, AInv, GrantInv, WhoamiInv, Owned

\* Whoami starts with a question about a session that was granted, or none.
LEMMA WhoamiAsks ==
  ASSUME IAMConstants, IInv, AInv, NEW p \in Procs, StartWhoami(p)
  PROVE  Authority!Next
<1>a. LocalTypes /\ WhoamiInv(p) /\ StoreTypes
  BY TypeParts DEF IInv
<1>1. PICK s \in {g.session : g \in granted} \cup {NoSession} :
        Serve(p, [NoCall EXCEPT !.op = "whoami", !.session = s,
                                !.late = (s \in refused)], "get")
  BY Zenon DEF StartWhoami
<1>2. s \in opened \cup {NoSession} /\ s \in Sessions \cup {NoSession}
  BY <1>a DEF IInv, GrantInv, StoreTypes
<1>3. /\ pc[p] = "idle" /\ pc'[p] = "get" /\ call'[p].session = s
      /\ reply'[p] = "none"
  BY <1>1, <1>a DEF Serve, LocalTypes, NoCall
<1>4. UNCHANGED <<lapsed, opened>>
  BY <1>1 DEF Serve, history
<1>5. \A q \in Procs \ {p} : Unmoved(q)
  <2>1. Request(p)
    BY DEF Request
  <2> QED BY <2>1, OneMoves DEF IInv
<1>6. Phase(p) # "asked"
  BY <1>3 DEF Phase, Asking, Vouched
<1>7. Phase(p)' = "asked" /\ About(p)' = s
  BY <1>3 DEF Phase, About, Asking, Vouched
<1>8. s \in (opened \ lapsed) \cup lapsed \cup {NoSession}
  BY <1>2
<1>9. Authority!Ask(p, s)
  BY <1>4, <1>5, <1>6, <1>7, <1>8, AskersApart DEF Authority!Ask
<1> QED BY <1>2, <1>9 DEF Authority!Next

\* A session that has no key, while a granted one keeps its key until it
\* expires, has expired or was none: its refusal is the authority's.
LEMMA RefusalIsRight ==
  ASSUME IAMConstants, IInv, AInv, NEW p \in Procs,
         NEW r \in {"unknown", "expired"}, Reply(p, r),
         Asking(p), call[p].session \in lapsed \cup {NoSession},
         UNCHANGED <<lapsed, opened>>,
         \A q \in Procs \ {p} : Unmoved(q)
  PROVE  Authority!Next
<1>a. LocalTypes /\ WhoamiInv(p)
  BY TypeParts DEF IInv
<1>1. Phase(p) = "asked" /\ About(p) = call[p].session
  BY <1>a DEF WhoamiInv, Phase, About, Asking, Vouched
<1>2. Phase(p)' = "refused" /\ About(p)' = NoSession
  <2>1. r \in Replies
    BY DEF Replies
  <2> QED BY <1>a, <2>1, AnswerEnds
<1>3. Authority!Refuse(p)
  BY <1>1, <1>2, AskersApart DEF Authority!Refuse
<1> QED BY <1>3 DEF Authority!Next

\* An error ends a question, or an answer that was not given yet.
LEMMA ErrorForgets ==
  ASSUME IAMConstants, IInv, NEW p \in Procs, Reply(p, "error"),
         UNCHANGED <<lapsed, opened>>,
         \A q \in Procs \ {p} : Unmoved(q)
  PROVE  [Authority!Next]_(Authority!vars)
<1>1. "error" \in Replies /\ LocalTypes
  BY TypeParts DEF Replies, IInv
<1>2. Phase(p)' = "idle" /\ About(p)' = NoSession
  BY <1>1, AnswerEnds
<1> QED BY <1>2, Forgotten

\* GetSession refuses what has no key and otherwise decides nothing yet.
LEMMA GetDecides ==
  ASSUME IAMConstants, IInv, AInv, NEW p \in Procs, GetSession(p)
  PROVE  [Authority!Next]_(Authority!vars)
<1>a. LocalTypes /\ WhoamiInv(p) /\ StoreTypes
  BY TypeParts DEF IInv
<1>b. pc[p] = "get" /\ UNCHANGED <<lapsed, opened>>
  BY DEF GetSession, history, Refuse
<1>c. \A q \in Procs \ {p} : Unmoved(q)
  <2>1. Request(p)
    BY DEF Request
  <2> QED BY <2>1, OneMoves DEF IInv
<1>1. CASE Goto(p, "judge")
  <2>1. pc'[p] = "judge" /\ call'[p] = call[p] /\ reply'[p] # "allowed"
    BY <1>b, <1>1, <1>a DEF Goto, LocalTypes, WhoamiInv
  <2>2. Phase(p)' = Phase(p) /\ About(p)' = About(p)
    BY <1>a, <1>b, <2>1 DEF WhoamiInv, Phase, About, Asking, Vouched
  <2> QED BY <1>b, <1>c, <2>2, StillThere
<1>2. CASE ~KeyExists(call[p].session) /\ Reply(p, "unknown")
  <2>1. call[p].session \in lapsed \cup {NoSession}
    BY <1>2, <1>a, <1>b, ShownIsKnown DEF KeyExists, Kept, StoreTypes
  <2> QED BY <1>2, <1>b, <1>c, <2>1, RefusalIsRight DEF Asking
<1>3. CASE Reply(p, "error")
  BY <1>3, <1>b, <1>c, ErrorForgets
<1> QED BY <1>1, <1>2, <1>3 DEF GetSession, Refuse

\* The look at the clock vouches for a session that has not expired.
LEMMA JudgeDecides ==
  ASSUME IAMConstants, IInv, AInv, NEW p \in Procs, Judge(p)
  PROVE  [Authority!Next]_(Authority!vars)
<1>a. LocalTypes /\ WhoamiInv(p)
  BY TypeParts DEF IInv
<1>b. pc[p] = "judge" /\ UNCHANGED <<lapsed, opened, call, reply>>
  BY DEF Judge, Goto, history
<1>c. \A q \in Procs \ {p} : Unmoved(q)
  <2>1. Request(p)
    BY DEF Request
  <2> QED BY <2>1, OneMoves DEF IInv
<1>1. CASE call[p].session \in lapsed
  <2>1. pc'[p] = "delete"
    BY <1>1, <1>a DEF Judge, Goto, LocalTypes
  <2>2. Phase(p)' = Phase(p) /\ About(p)' = About(p)
    BY <1>a, <1>b, <2>1 DEF WhoamiInv, Phase, About, Asking, Vouched
  <2> QED BY <1>b, <1>c, <2>2, StillThere
<1>2. CASE call[p].session \notin lapsed
  <2>1. pc'[p] = "account"
    BY <1>2, <1>a DEF Judge, Goto, LocalTypes
  <2>2. Phase(p) = "asked" /\ About(p) = call[p].session
    BY <1>a, <1>b DEF WhoamiInv, Phase, About, Asking, Vouched
  <2>3. Phase(p)' = "vouched" /\ About(p)' = About(p)
    BY <1>b, <2>1 DEF Phase, About, Asking, Vouched
  <2>4. About(p) \in opened \ lapsed
    BY <1>2, <1>a, <1>b, <2>2, ShownIsKnown
  <2>5. Authority!Vouch(p)
    <3>1. [q \in Procs |-> About(q)]' = [q \in Procs |-> About(q)]
      BY <1>c, <2>3, AskersApart
    <3> QED BY <1>b, <1>c, <2>2, <2>3, <2>4, <3>1, AskersApart
            DEF Authority!Vouch
  <2> QED BY <2>5 DEF Authority!Next
<1> QED BY <1>1, <1>2

\* DeleteExpired answers the question, as the clock was read before.
LEMMA DeleteDecides ==
  ASSUME IAMConstants, IInv, AInv, NEW p \in Procs, DeleteExpired(p)
  PROVE  [Authority!Next]_(Authority!vars)
<1>a. WhoamiInv(p)
  BY DEF IInv
<1>b. pc[p] = "delete" /\ UNCHANGED <<lapsed, opened>>
  BY DEF DeleteExpired, history, Refuse
<1>c. \A q \in Procs \ {p} : Unmoved(q)
  <2>1. Request(p)
    BY DEF Request
  <2> QED BY <2>1, OneMoves DEF IInv
<1>1. CASE Reply(p, "expired")
  <2>1. call[p].session \in lapsed
    BY <1>b DEF AInv
  <2> QED BY <1>1, <1>b, <1>c, <2>1, RefusalIsRight DEF Asking
<1>2. CASE Reply(p, "error")
  BY <1>2, <1>b, <1>c, ErrorForgets
<1> QED BY <1>1, <1>2 DEF DeleteExpired, Refuse

\* GetAccount changes nothing about the decision; an error takes it back.
LEMMA AccountDecides ==
  ASSUME IAMConstants, IInv, AInv, NEW p \in Procs, GetAccount(p)
  PROVE  [Authority!Next]_(Authority!vars)
<1>a. LocalTypes
  BY TypeParts DEF IInv
<1>b. pc[p] = "account" /\ UNCHANGED <<lapsed, opened>>
  BY DEF GetAccount, history
<1>c. \A q \in Procs \ {p} : Unmoved(q)
  <2>1. Request(p)
    BY DEF Request
  <2> QED BY <2>1, OneMoves DEF IInv
<1>1. CASE Reply(p, "allowed")
  <2>1. "allowed" \in Replies
    BY DEF Replies
  <2>2. Phase(p)' = "vouched" /\ About(p)' = call[p].session
    BY <1>1, <1>a, <2>1, AnswerEnds
  <2>3. Phase(p) = "vouched" /\ About(p) = call[p].session
    BY <1>b DEF Phase, About, Asking, Vouched
  <2> QED BY <1>b, <1>c, <2>2, <2>3, StillThere
<1>2. CASE Reply(p, "error")
  BY <1>2, <1>b, <1>c, ErrorForgets
<1> QED BY <1>1, <1>2 DEF GetAccount

\* Expiry ends a session, a key that vanishes decides nothing, and a restart
\* ends every question.
LEMMA TimeDecides ==
  ASSUME IAMConstants, IInv, AInv,
         \/ \E s \in Sessions : Lapse(s) \/ Vanish(s)
         \/ Crash
         \/ UNCHANGED vars
  PROVE  [Authority!Next]_(Authority!vars)
<1>1. ASSUME UNCHANGED locals
      PROVE  /\ [q \in Procs |-> Phase(q)]' = [q \in Procs |-> Phase(q)]
             /\ [q \in Procs |-> About(q)]' = [q \in Procs |-> About(q)]
  <2>1. \A q \in Procs : Phase(q)' = Phase(q) /\ About(q)' = About(q)
    BY <1>1 DEF locals, Phase, About, Asking, Vouched
  <2> QED BY <2>1, Zenon
<1>2. ASSUME NEW s \in Sessions, Lapse(s)
      PROVE  Authority!Next
  <2>1. /\ s \in opened \ lapsed
        /\ (opened \ lapsed)' = (opened \ lapsed) \ {s}
        /\ lapsed' = lapsed \cup {s}
        /\ UNCHANGED locals
    BY <1>2 DEF Lapse, history
  <2>2. Authority!End(s)
    BY <1>1, <2>1 DEF Authority!End
  <2> QED BY <2>2 DEF Authority!Next
<1>3. CASE (\E s \in Sessions : Vanish(s)) \/ UNCHANGED vars
  <2>1. UNCHANGED <<lapsed, opened>> /\ UNCHANGED locals
    BY <1>3 DEF Vanish, history, vars, locals
  <2> QED BY <1>1, <2>1 DEF Authority!vars
<1>4. CASE Crash
  <2>1. UNCHANGED <<lapsed, opened>>
        /\ \A q \in Procs : pc'[q] = "idle" /\ reply'[q] = "none"
    BY <1>4 DEF Crash
  <2>2. \A q \in Procs : Phase(q)' = "idle" /\ About(q)' = NoSession
    BY <2>1 DEF Phase, About, Asking, Vouched
  <2>3. /\ [q \in Procs |-> Phase(q)]' = [q \in Procs |-> "idle"]
        /\ [q \in Procs |-> About(q)]' = [q \in Procs |-> NoSession]
    BY <2>2, Zenon
  <2>4. Authority!ForgetAll
    BY <2>1, <2>3 DEF Authority!ForgetAll
  <2> QED BY <2>4 DEF Authority!Next
<1> QED BY <1>2, <1>3, <1>4

\* Every step is one of the authority's, or changes nothing it knows of.
LEMMA AuthorityStep ==
  ASSUME IAMConstants, IInv, AInv, [Next]_vars
  PROVE  [Authority!Next]_(Authority!vars)
<1>1. ASSUME NEW p \in Procs, Request(p)
      PROVE  [Authority!Next]_(Authority!vars)
  <2>1. CASE \/ StartRegister(p) \/ RegisterLookup(p) \/ InsertUser(p)
             \/ StartLogin(p) \/ LoginLookup(p) \/ IndexSession(p)
    <3>1. /\ Phase(p)' = "idle" /\ About(p)' = NoSession
          /\ UNCHANGED <<lapsed, opened>>
      BY <2>1, NoQuestion
    <3>2. \A q \in Procs \ {p} : Unmoved(q)
      BY <1>1, OneMoves DEF IInv
    <3> QED BY <3>1, <3>2, Forgotten
  <2> QED BY <1>1, <2>1, StoreGrants, WhoamiAsks, GetDecides, JudgeDecides,
             DeleteDecides, AccountDecides DEF Request
<1> QED BY <1>1, TimeDecides DEF Next

\* The keys and the clock, in every behaviour.
THEOREM SessionsKept == ASSUME IAMConstants PROVE Spec => [](IInv /\ AInv)
<1>1. Init => IInv /\ AInv
  BY InitIInv DEF Init, AInv
<1>2. IInv /\ AInv /\ [Next]_vars => IInv' /\ AInv'
  BY RequestStep, OtherStep, AInvStep DEF Next
<1>3. QED
  BY <1>1, <1>2, PTL DEF Spec

\* Whoami, cut at its calls of both stores and of the clock, with expiries,
\* logins, faults and restarts in between, implements one decision at one
\* moment: it vouches for a session only while it is alive, and refuses it
\* only when it has ended.
THEOREM Implements == ASSUME IAMConstants PROVE Spec => ImplementsAuthority
<1>1. Init => Authority!Init
  <2>1. ASSUME Init
        PROVE  /\ [q \in Procs |-> Phase(q)] = [q \in Procs |-> "idle"]
               /\ [q \in Procs |-> About(q)] = [q \in Procs |-> NoSession]
    <3>1. \A q \in Procs : Phase(q) = "idle" /\ About(q) = NoSession
      BY <2>1 DEF Init, Phase, About, Asking, Vouched
    <3> QED BY <3>1, Zenon
  <2> QED BY <2>1 DEF Init, Authority!Init
<1>2. IInv /\ AInv /\ [Next]_vars => [Authority!Next]_(Authority!vars)
  BY AuthorityStep
<1>3. QED
  BY <1>1, <1>2, SessionsKept, PTL DEF Spec, ImplementsAuthority, Authority!Spec
=============================================================================
