--------------------------- MODULE Identity_proofs -----------------------------
(***************************************************************************)
(* Proofs about the sessions of people (HumanSessions) and the exchanges   *)
(* with their identity provider (IdentityProvider), for any number of      *)
(* requests, logins, tokens and hours, of exchanges, keys and rotations.   *)
(***************************************************************************)
EXTENDS HumanSessions, IdentityProvider, FiniteSetTheorems, TLAPS


-------------------------------------------------------------------------------
(***************************************************************************)
(* HumanSessions                                                           *)
(***************************************************************************)

Phases == {"consume", "claim", "exchange", "resolve", "create", "authenticate", "prove",
           "replace", "revoke", "record", "undo", "ended"}
CallRow ==
  [op : {Bootstrap, Rotation, Logout, Callback}, phase : Phases,
   now : Nat, state : Login \cup {Nobody}, binding : Login \cup {Nobody},
   code : Login \cup {Nobody}, token : Nat, seen : Nat, proof : BOOLEAN, new : Nat]
LoginRow == [state : {"open", "consumed", "deleted"}, until : Nat]
SessionRow == [login : Login, issued : Nat, until : Nat, generation : Nat, revoked : BOOLEAN, next : Nat]

(***************************************************************************)
(* The inductive invariant, in parts                                       *)
(***************************************************************************)
\* The rows have their columns, and sessions are numbered as they are inserted.
Shapes ==
  /\ http \in [DOMAIN http -> CallRow] /\ DOMAIN http \subseteq HumanRequest
  /\ logins \in [DOMAIN logins -> LoginRow] /\ DOMAIN logins \subseteq Login
  /\ sessions \in [DOMAIN sessions -> SessionRow]
  /\ \E n \in 0..MaxToken : DOMAIN sessions = 1..n
  /\ sent \subseteq DOMAIN sessions
  /\ \A c \in codes : c.code \in Login
  /\ member \in BOOLEAN /\ tick \in 0..LastTick

\* What a request carries was begun or inserted before, and each kind of request
\* has phases of its own.
CallFits(r) ==
  LET c == http[r]
  IN  /\ c.now <= tick
      /\ c.op = Callback => {c.state, c.binding, c.code} \subseteq DOMAIN logins
      /\ c.op # Callback => c.token \in DOMAIN sessions
      /\ c.phase \in {"consume", "claim", "exchange", "resolve", "create"} => c.op = Callback
      /\ c.phase \in {"authenticate", "prove", "replace", "revoke"} => c.op # Callback
      /\ c.phase = "revoke" => c.op = Logout
      /\ c.phase \in {"replace", "undo"} => c.op # Logout
      /\ c.new \in DOMAIN sessions \cup {0}
      /\ c.phase \in {"record", "undo"} /\ c.op # Logout => c.new \in DOMAIN sessions
Calls == \A r \in DOMAIN http : CallFits(r)

\* A session belongs to a login that was consumed, and the one that replaced it
\* to the same login, one generation on.
Chain ==
  \A t \in DOMAIN sessions :
    /\ sessions[t].login \in DOMAIN logins /\ logins[sessions[t].login].state # "open"
    /\ sessions[t].generation \in 1..t
    /\ sessions[t].next # 0 =>
         /\ sessions[t].revoked /\ sessions[t].next \in DOMAIN sessions
         /\ sessions[sessions[t].next].login = sessions[t].login
         /\ sessions[sessions[t].next].generation = sessions[t].generation + 1

\* The last session of a login.
OneLast ==
  \A t, u \in DOMAIN sessions :
    sessions[t].next = 0 /\ sessions[u].next = 0 /\ sessions[t].login = sessions[u].login => t = u

\* A callback that consumed its login, and no other one, is going to insert the
\* first session of it.
Starting(r) == http[r].phase \in {"claim", "exchange", "resolve", "create"}
Starts ==
  \A r \in DOMAIN http : Starting(r) =>
    /\ logins[http[r].state].state # "open"
    /\ \A t \in DOMAIN sessions : sessions[t].login # http[r].state
    /\ \A q \in DOMAIN http : Starting(q) /\ http[q].state = http[r].state => q = r

\* After a logout no session of the login is left.
AllRevoked(l) == \A u \in DOMAIN sessions : sessions[u].login = l => sessions[u].revoked
LoggedOut ==
  /\ \A r \in DOMAIN http :
       http[r].op = Logout /\ http[r].phase = "record" => AllRevoked(sessions[http[r].token].login)
  /\ \A e \in trail : e.event = Logout =>
       e.token \in DOMAIN sessions /\ AllRevoked(sessions[e.token].login)

SessionInv == Shapes /\ Calls /\ Chain /\ OneLast /\ Starts /\ LoggedOut
-----------------------------------------------------------------------------
(***************************************************************************)
(* What a step does                                                        *)
(***************************************************************************)
\* The next token is the number behind the inserted ones.
LEMMA Numbered ==
  ASSUME Shapes
  PROVE  /\ NewToken \in Nat /\ NewToken > 0 /\ NewToken \notin DOMAIN sessions
         /\ DOMAIN sessions = 1 .. NewToken - 1
<1>1. PICK n \in 0..MaxToken : DOMAIN sessions = 1..n
  BY DEF Shapes
<1>2. n \in Nat /\ Cardinality(1..n) = n
  BY SessionConstants, FS_Interval
<1> QED
  BY <1>1, <1>2 DEF NewToken

\* The fields of a request, a login and a session.
LEMMA Fields ==
  ASSUME Shapes
  PROVE  /\ \A r \in DOMAIN http : http[r] \in CallRow
         /\ \A l \in DOMAIN logins : logins[l] \in LoginRow
         /\ \A t \in DOMAIN sessions : sessions[t] \in SessionRow
  BY DEF Shapes

\* The way of a request from phase to phase.
Goes(r, c) ==
  \/ c.phase = "ended" /\ c.new = http[r].new
  \/ /\ http[r].phase = "consume" /\ c.phase = "claim" /\ c.new = http[r].new
     /\ logins[http[r].state].state = "open"
     /\ logins' = [logins EXCEPT ![http[r].state].state = "consumed"]
  \/ /\ http[r].phase \in {"claim", "exchange", "resolve"}
     /\ c.phase \in {"exchange", "resolve", "create"} /\ c.new = http[r].new
  \/ /\ http[r].phase \in {"create", "replace"} /\ c.phase = "record" /\ c.new = NewToken
     /\ NewToken \in DOMAIN sessions'
  \/ http[r].phase = "authenticate" /\ c.phase = "prove" /\ c.new = http[r].new
  \/ /\ http[r].phase = "prove" /\ c.new = http[r].new
     /\ c.phase = IF http[r].op = Logout THEN "revoke" ELSE "replace"
  \/ /\ http[r].phase = "revoke" /\ c.phase = "record" /\ c.new = http[r].new
     /\ ~sessions[http[r].token].revoked
     /\ sessions' = [sessions EXCEPT ![http[r].token].revoked = TRUE]
  \/ /\ http[r].phase = "record" /\ c.phase = "undo" /\ c.new = http[r].new
     /\ http[r].op # Logout

SameCall(c, d) ==
  /\ d.op = c.op /\ d.now = c.now /\ d.state = c.state /\ d.binding = c.binding
  /\ d.code = c.code /\ d.token = c.token /\ d.proof = c.proof

\* The three ways to write it.
LEMMA MovedOn ==
  ASSUME NEW c \in CallRow, NEW p \in Phases
  PROVE  /\ [c EXCEPT !.phase = p] \in CallRow /\ SameCall(c, [c EXCEPT !.phase = p])
         /\ [c EXCEPT !.phase = p].phase = p /\ [c EXCEPT !.phase = p].new = c.new
  BY DEF CallRow, SameCall

\* A request moved on with the token of the session it inserted.
LEMMA MovedWithToken ==
  ASSUME NEW c \in CallRow, NEW p \in Phases, NEW n \in Nat
  PROVE  /\ [c EXCEPT !.phase = p, !.new = n] \in CallRow
         /\ SameCall(c, [c EXCEPT !.phase = p, !.new = n])
         /\ [c EXCEPT !.phase = p, !.new = n].phase = p
         /\ [c EXCEPT !.phase = p, !.new = n].new = n
  BY DEF CallRow, SameCall

\* A request moved on with the generation it saw.
LEMMA MovedWithSeen ==
  ASSUME NEW c \in CallRow, NEW p \in Phases, NEW m \in Nat
  PROVE  /\ [c EXCEPT !.phase = p, !.seen = m] \in CallRow
         /\ SameCall(c, [c EXCEPT !.phase = p, !.seen = m])
         /\ [c EXCEPT !.phase = p, !.seen = m].phase = p
         /\ [c EXCEPT !.phase = p, !.seen = m].new = c.new
  BY DEF CallRow, SameCall

\* A handler moves its own request on.
LEMMA CallGoes ==
  ASSUME SessionInv, NEW r \in HumanRequest, Handle(r)
  PROVE  /\ r \in DOMAIN http
         /\ \E c \in CallRow : /\ http' = [http EXCEPT ![r] = c]
                               /\ SameCall(http[r], c) /\ Goes(r, c)
<1>1. r \in DOMAIN http
  BY DEF Handle, Consume, Claim, Exchange, ResolveMembership, CreateSession, Authenticate, Prove,
         Replace, Revoke, Record, Undo, Broken, At
<1>2. http[r] \in CallRow
  BY <1>1, Fields DEF SessionInv
<1> DEFINE Moved(p) == [http[r] EXCEPT !.phase = p]
<1>3. ASSUME NEW p, MovesTo(r, p)
      PROVE  http' = [http EXCEPT ![r] = Moved(p)]
  BY <1>3 DEF MovesTo
<1>4. \A p \in Phases :
        /\ Moved(p) \in CallRow /\ SameCall(http[r], Moved(p))
        /\ Moved(p).phase = p /\ Moved(p).new = http[r].new
  BY <1>2, MovedOn
<1>5. ASSUME NEW p \in Phases,
             MovesTo(r, p), \A c : c.phase = p /\ c.new = http[r].new => Goes(r, c)
      PROVE  \E c \in CallRow : /\ http' = [http EXCEPT ![r] = c]
                                /\ SameCall(http[r], c) /\ Goes(r, c)
  <2> HIDE DEF Moved
  <2> QED
    BY <1>3, <1>4, <1>5
<1>6. CASE Rejects(r)
  BY <1>1, <1>5, <1>6 DEF Rejects, Goes, Phases
<1>7. CASE Consume(r)
  BY <1>1, <1>5, <1>6, <1>7 DEF Consume, Consumable, At, Goes, Phases
<1>8. CASE Claim(r)
  BY <1>1, <1>5, <1>6, <1>8 DEF Claim, At, Goes, Phases
<1>9. CASE Exchange(r)
  BY <1>1, <1>5, <1>6, <1>9 DEF Exchange, At, Goes, Phases
<1>10. CASE ResolveMembership(r)
  BY <1>1, <1>5, <1>6, <1>10 DEF ResolveMembership, At, Goes, Phases
<1>12. ASSUME http' = [http EXCEPT ![r].phase = "record", ![r].new = NewToken],
              NewToken \in DOMAIN sessions', http[r].phase \in {"create", "replace"}
       PROVE  \E c \in CallRow : /\ http' = [http EXCEPT ![r] = c]
                                 /\ SameCall(http[r], c) /\ Goes(r, c)
  <2> DEFINE c == [http[r] EXCEPT !.phase = "record", !.new = NewToken]
  <2>1. http' = [http EXCEPT ![r] = c]
    BY <1>1, <1>12
  <2>2. c \in CallRow /\ SameCall(http[r], c) /\ c.phase = "record" /\ c.new = NewToken
    BY <1>2, Numbered, MovedWithToken, ZenonT(60) DEF SessionInv, Phases
  <2> HIDE DEF c
  <2>3. Goes(r, c)
    BY <1>12, <2>2 DEF Goes
  <2> QED
    BY <2>1, <2>2, <2>3
<1>13. CASE CreateSession(r)
  <2>1. CASE Rejects(r)
    BY <1>1, <1>6, <2>1
  <2>2. CASE ~Rejects(r)
    <3>1. /\ http[r].phase = "create"
          /\ http' = [http EXCEPT ![r].phase = "record", ![r].new = NewToken]
          /\ sessions' = With(sessions, NewToken, Inserted(NewToken, http[r].state, http[r].now, 1))
      BY <1>13, <2>2 DEF CreateSession, At
    <3>2. NewToken \in DOMAIN sessions'
      BY <3>1 DEF With
    <3> QED
      BY <1>1, <1>12, <3>1, <3>2
  <2> QED
    BY <2>1, <2>2
<1>14. CASE Replace(r)
  <2>1. CASE Rejects(r)
    BY <1>1, <1>6, <2>1
  <2>2. CASE ~Rejects(r)
    <3>1. /\ http[r].phase = "replace"
          /\ http' = [http EXCEPT ![r].phase = "record", ![r].new = NewToken]
          /\ \E f, x : sessions' = With(f, NewToken, x)
      BY <1>14, <2>2 DEF Replace, At
    <3>2. NewToken \in DOMAIN sessions'
      BY <3>1 DEF With
    <3> QED
      BY <1>1, <1>12, <3>1, <3>2
  <2> QED
    BY <2>1, <2>2
<1>15. CASE Authenticate(r)
  <2>1. CASE Rejects(r)
    BY <1>1, <1>6, <2>1
  <2>2. CASE ~Rejects(r)
    <3>1. /\ http[r].phase = "authenticate" /\ http[r].token \in DOMAIN sessions
          /\ http' = [http EXCEPT ![r].phase = "prove",
                                  ![r].seen = sessions[http[r].token].generation]
      BY <1>15, <2>2 DEF Authenticate, At, Fresh
    <3>2. PICK m \in Nat : m = sessions[http[r].token].generation
      BY <3>1, Fields DEF SessionInv, SessionRow
    <3> DEFINE c == [http[r] EXCEPT !.phase = "prove", !.seen = m]
    <3>3. http' = [http EXCEPT ![r] = c]
      BY <1>1, <3>1, <3>2
    <3>4. c \in CallRow /\ SameCall(http[r], c) /\ c.phase = "prove" /\ c.new = http[r].new
      <4>1. PICK d \in CallRow : d = http[r]
        BY <1>2
      <4>2. "prove" \in Phases /\ m \in Nat
        BY <3>2 DEF Phases
      <4>3. /\ [d EXCEPT !.phase = "prove", !.seen = m] \in CallRow
            /\ SameCall(d, [d EXCEPT !.phase = "prove", !.seen = m])
            /\ [d EXCEPT !.phase = "prove", !.seen = m].phase = "prove"
            /\ [d EXCEPT !.phase = "prove", !.seen = m].new = d.new
        BY <4>2, MovedWithSeen, ZenonT(60)
      <4> QED
        BY <4>1, <4>3
    <3> HIDE DEF c
    <3>5. Goes(r, c)
      BY <3>1, <3>4 DEF Goes
    <3> QED
      BY <1>1, <3>3, <3>4, <3>5
  <2> QED
    BY <2>1, <2>2
<1>16. CASE Prove(r)
  BY <1>1, <1>5, <1>6, <1>16 DEF Prove, At, Goes, Phases
<1>17. CASE Revoke(r)
  BY <1>1, <1>5, <1>6, <1>17 DEF Revoke, At, Goes, Phases
<1>18. CASE Record(r)
  BY <1>1, <1>5, <1>6, <1>18 DEF Record, At, Goes, Phases
<1>19. CASE Undo(r) \/ Broken(r)
  BY <1>1, <1>6, <1>19 DEF Undo, Broken
<1> QED
  BY <1>1, <1>7, <1>8, <1>9, <1>10, <1>13, <1>14, <1>15, <1>16, <1>17, <1>18, <1>19 DEF Handle

\* A session stays one when it keeps its login, its generation and its successor,
\* and is not taken back once revoked.
Stays(t) ==
  /\ t \in DOMAIN sessions' /\ sessions'[t] \in SessionRow
  /\ sessions'[t].login = sessions[t].login
  /\ sessions'[t].generation = sessions[t].generation
  /\ sessions'[t].next = sessions[t].next
  /\ sessions[t].revoked => sessions'[t].revoked

NewSession(l, g) ==
  /\ DOMAIN sessions' = DOMAIN sessions \cup {NewToken}
  /\ sessions'[NewToken] \in SessionRow
  /\ sessions'[NewToken].login = l /\ sessions'[NewToken].generation = g
  /\ sessions'[NewToken].next = 0

\* What a handler does to the sessions: it leaves or revokes them, inserts the
\* first one of its login, or inserts the successor of a fresh one.
Keeps == DOMAIN sessions' = DOMAIN sessions /\ \A t \in DOMAIN sessions : Stays(t)
Creates(r) ==
  /\ At(r, "create") /\ NewToken \in Token
  /\ NewSession(http[r].state, 1)
  /\ \A t \in DOMAIN sessions : Stays(t)
Succeeds(r) ==
  LET t == http[r].token
  IN  /\ At(r, "replace") /\ NewToken \in Token /\ t \in DOMAIN sessions
      /\ NewSession(sessions[t].login, sessions[t].generation + 1)
      /\ ~sessions[t].revoked
      /\ sessions'[t] \in SessionRow /\ sessions'[t].revoked /\ sessions'[t].next = NewToken
      /\ sessions'[t].login = sessions[t].login
      /\ sessions'[t].generation = sessions[t].generation
      /\ \A u \in DOMAIN sessions \ {t} : Stays(u)
SessionsGo(r) ==
  /\ sessions' = [t \in DOMAIN sessions' |-> sessions'[t]]
  /\ Keeps \/ Creates(r) \/ Succeeds(r)

\* A session whose flag alone is written.
LEMMA Flagged ==
  ASSUME NEW s \in SessionRow, NEW b \in BOOLEAN
  PROVE  /\ [s EXCEPT !.revoked = b] \in SessionRow
         /\ [s EXCEPT !.revoked = b].login = s.login
         /\ [s EXCEPT !.revoked = b].generation = s.generation
         /\ [s EXCEPT !.revoked = b].next = s.next
         /\ [s EXCEPT !.revoked = b].revoked = b
  BY DEF SessionRow

\* A session that is replaced.
LEMMA Replaced ==
  ASSUME NEW s \in SessionRow, NEW n \in Nat
  PROVE  /\ [s EXCEPT !.revoked = TRUE, !.next = n] \in SessionRow
         /\ [s EXCEPT !.revoked = TRUE, !.next = n].login = s.login
         /\ [s EXCEPT !.revoked = TRUE, !.next = n].generation = s.generation
         /\ [s EXCEPT !.revoked = TRUE, !.next = n].next = n
         /\ [s EXCEPT !.revoked = TRUE, !.next = n].revoked
  BY DEF SessionRow

\* Writing the flag of one session keeps them all.
LEMMA FlagKeeps ==
  ASSUME Shapes, NEW t \in DOMAIN sessions, NEW b \in BOOLEAN,
         sessions[t].revoked => b,
         sessions' = [sessions EXCEPT ![t].revoked = b]
  PROVE  Keeps /\ sessions' = [u \in DOMAIN sessions' |-> sessions'[u]]
<1>1. PICK s \in SessionRow : s = sessions[t]
  BY Fields
<1>2. PICK x : x = [s EXCEPT !.revoked = b]
  OBVIOUS
<1>3. sessions' = [sessions EXCEPT ![t] = x]
  BY <1>1, <1>2
<1>4. /\ x \in SessionRow /\ x.login = s.login /\ x.generation = s.generation
      /\ x.next = s.next /\ x.revoked = b
  <2>1. /\ [s EXCEPT !.revoked = b] \in SessionRow
        /\ [s EXCEPT !.revoked = b].login = s.login
        /\ [s EXCEPT !.revoked = b].generation = s.generation
        /\ [s EXCEPT !.revoked = b].next = s.next
        /\ [s EXCEPT !.revoked = b].revoked = b
    BY Flagged
  <2> QED
    BY <1>2, <2>1
<1>5. DOMAIN sessions' = DOMAIN sessions /\ sessions'[t] = x
      /\ \A u \in DOMAIN sessions \ {t} : sessions'[u] = sessions[u]
  BY <1>3, Shapes DEF Shapes
<1>6. Stays(t)
  BY <1>1, <1>4, <1>5 DEF Stays
<1>7. ASSUME NEW u \in DOMAIN sessions \ {t} PROVE Stays(u)
  BY <1>5, Fields DEF Stays
<1>8. Keeps
  BY <1>5, <1>6, <1>7 DEF Keeps
<1> QED
  BY <1>3, <1>8, Shapes DEF Shapes

\* The row that is inserted.
LEMMA InsertedRow ==
  ASSUME NEW n, NEW l \in Login, NEW now \in Nat, NEW g \in Nat
  PROVE  /\ Inserted(n, l, now, g) \in SessionRow /\ Inserted(n, l, now, g).login = l
         /\ Inserted(n, l, now, g).generation = g /\ Inserted(n, l, now, g).next = 0
  BY SessionConstants DEF Inserted, SessionRow

\* The steps of the handlers on the sessions.
LEMMA SessionsMove ==
  ASSUME SessionInv, NEW r \in HumanRequest, Handle(r)
  PROVE  SessionsGo(r)
<1>1. /\ Shapes /\ Calls
      /\ sessions = [t \in DOMAIN sessions |-> sessions[t]]
  BY DEF SessionInv, Shapes
<1>2. CASE sessions' = sessions
  BY <1>1, <1>2, Fields DEF SessionsGo, Keeps, Stays
<1>3. CASE CreateSession(r)
  <2>1. CASE ~(member /\ Current(r))
    BY <1>2, <1>3, <2>1 DEF CreateSession
  <2>2. CASE member /\ Current(r)
    <3>1. /\ At(r, "create") /\ NewToken \in Token
          /\ sessions' = With(sessions, NewToken, Inserted(NewToken, http[r].state, http[r].now, 1))
      BY <1>3, <2>2 DEF CreateSession
    <3>2. r \in DOMAIN http /\ http[r].op = Callback /\ http[r].state \in DOMAIN logins
      BY <1>1, <3>1 DEF At, Calls, CallFits
    <3>3. http[r].state \in Login /\ http[r].now \in Nat
      BY <1>1, <3>2, Fields DEF Shapes, CallRow
    <3>4. PICK x \in SessionRow : /\ x = Inserted(NewToken, http[r].state, http[r].now, 1)
                                  /\ x.login = http[r].state /\ x.generation = 1 /\ x.next = 0
      BY <3>3, InsertedRow, 1 \in Nat
    <3>5. NewToken \notin DOMAIN sessions
      BY <1>1, Numbered
    <3>6. /\ DOMAIN sessions' = DOMAIN sessions \cup {NewToken} /\ sessions'[NewToken] = x
          /\ \A t \in DOMAIN sessions : sessions'[t] = sessions[t]
          /\ sessions' = [t \in DOMAIN sessions' |-> sessions'[t]]
      BY <3>1, <3>4, <3>5 DEF With
    <3>7. NewSession(http[r].state, 1)
      BY <3>4, <3>6 DEF NewSession
    <3>8. \A t \in DOMAIN sessions : Stays(t)
      BY <1>1, <3>6, Fields DEF Stays
    <3> QED
      BY <3>1, <3>6, <3>7, <3>8 DEF SessionsGo, Creates
  <2> QED
    BY <2>1, <2>2
<1>4. CASE Replace(r)
  <2>1. CASE ~Replaceable(r)
    BY <1>2, <1>4, <2>1 DEF Replace
  <2>2. CASE Replaceable(r)
    <3>1. PICK t : t = http[r].token
      OBVIOUS
    <3>2. /\ At(r, "replace") /\ NewToken \in Token
          /\ sessions' =
                  With([sessions EXCEPT ![t].revoked = TRUE, ![t].next = NewToken],
                       NewToken, Inserted(NewToken, sessions[t].login, http[r].now, http[r].seen + 1))
      BY <1>4, <2>2, <3>1 DEF Replace, HandedOn
    <3>3. /\ t \in DOMAIN sessions /\ ~sessions[t].revoked
          /\ sessions[t].generation = http[r].seen /\ r \in DOMAIN http
      BY <2>2, <3>1, <3>2 DEF Replaceable, Fresh, At
    <3>4. PICK s \in SessionRow : s = sessions[t]
      BY <1>1, <3>3, Fields
    <3>5. http[r].now \in Nat /\ s.login \in Login /\ s.generation \in Nat
      BY <1>1, <3>3, Fields DEF SessionRow, CallRow
    <3>6. PICK x \in SessionRow :
            /\ x = Inserted(NewToken, sessions[t].login, http[r].now, http[r].seen + 1)
            /\ x.login = s.login /\ x.generation = s.generation + 1 /\ x.next = 0
      <4>1. http[r].seen + 1 = s.generation + 1 /\ s.generation + 1 \in Nat
        BY <3>3, <3>4, <3>5
      <4> QED
        BY <3>4, <3>5, <4>1, InsertedRow
    <3>7. PICK y : y = [s EXCEPT !.revoked = TRUE, !.next = NewToken]
      OBVIOUS
    <3>8. NewToken \notin DOMAIN sessions /\ NewToken \in Nat
      BY <1>1, Numbered
    <3>9. /\ y \in SessionRow /\ y.login = s.login /\ y.generation = s.generation
          /\ y.next = NewToken /\ y.revoked
      <4>1. PICK n \in Nat : n = NewToken
        BY <3>8
      <4>2. /\ [s EXCEPT !.revoked = TRUE, !.next = n] \in SessionRow
            /\ [s EXCEPT !.revoked = TRUE, !.next = n].login = s.login
            /\ [s EXCEPT !.revoked = TRUE, !.next = n].generation = s.generation
            /\ [s EXCEPT !.revoked = TRUE, !.next = n].next = n
            /\ [s EXCEPT !.revoked = TRUE, !.next = n].revoked
        BY Replaced
      <4>3. y = [s EXCEPT !.revoked = TRUE, !.next = n]
        BY <3>7, <4>1
      <4> QED
        BY <4>1, <4>2, <4>3
    <3>10. [sessions EXCEPT ![t].revoked = TRUE, ![t].next = NewToken] = [sessions EXCEPT ![t] = y]
      BY <1>1, <3>3, <3>4, <3>7
    <3>11. sessions' = With([sessions EXCEPT ![t] = y], NewToken, x)
      BY <3>2, <3>6, <3>10
    <3>12. /\ DOMAIN sessions' = DOMAIN sessions \cup {NewToken} /\ sessions'[NewToken] = x
           /\ \A u \in DOMAIN sessions \ {t} : sessions'[u] = sessions[u]
           /\ sessions'[t] = y
           /\ sessions' = [u \in DOMAIN sessions' |-> sessions'[u]]
      BY <1>1, <3>3, <3>8, <3>11 DEF With
    <3>13. NewSession(sessions[t].login, sessions[t].generation + 1)
      BY <3>4, <3>6, <3>12 DEF NewSession
    <3>14. \A u \in DOMAIN sessions \ {t} : Stays(u)
      BY <1>1, <3>12, Fields DEF Stays
    <3> QED
      BY <3>1, <3>2, <3>3, <3>4, <3>9, <3>12, <3>13, <3>14 DEF SessionsGo, Succeeds
  <2> QED
    BY <2>1, <2>2
<1>5. CASE Revoke(r)
  <2>1. CASE ~(~sessions[http[r].token].revoked /\ Current(r))
    BY <1>2, <1>5, <2>1 DEF Revoke
  <2>2. CASE ~sessions[http[r].token].revoked /\ Current(r)
    <3>1. /\ http[r].token \in DOMAIN sessions
          /\ sessions' = [sessions EXCEPT ![http[r].token].revoked = TRUE]
      BY <1>1, <1>5, <2>2 DEF Revoke, At, Calls, CallFits
    <3> QED
      BY <1>1, <3>1, FlagKeeps DEF SessionsGo
  <2> QED
    BY <2>1, <2>2
<1>6. CASE Undo(r)
  <2>1. r \in DOMAIN http /\ http[r].phase = "undo"
    BY <1>6 DEF Undo, At
  <2>2. http[r].new \in DOMAIN sessions
    BY <1>1, <2>1 DEF Calls, CallFits
  <2>3. PICK t \in DOMAIN sessions : t = http[r].new
    BY <2>2
  <2>4. PICK b \in BOOLEAN : b = (sessions[t].revoked \/ Current(r))
    OBVIOUS
  <2>5. sessions' = [sessions EXCEPT ![t].revoked = b]
    BY <1>6, <2>3, <2>4 DEF Undo
  <2>6. sessions[t].revoked => b
    BY <2>4
  <2> QED
    BY <1>1, <2>5, <2>6, FlagKeeps DEF SessionsGo
<1> QED
  BY <1>2, <1>3, <1>4, <1>5, <1>6
     DEF Handle, Consume, Claim, Exchange, ResolveMembership, Authenticate, Prove, Record, Broken

\* What a handler and the start of a login do to the transactions.
LoginsGo ==
  /\ logins' \in [DOMAIN logins' -> LoginRow] /\ DOMAIN logins' \subseteq Login
  /\ \A l \in DOMAIN logins :
       l \in DOMAIN logins' /\ (logins[l].state # "open" => logins'[l].state # "open")

\* A callback consumes its login; no other handler writes a transaction.
LEMMA LoginsMove ==
  ASSUME SessionInv, NEW r \in HumanRequest, Handle(r)
  PROVE  LoginsGo
<1>1. Shapes /\ Calls
  BY DEF SessionInv
<1>2. CASE logins' = logins
  BY <1>1, <1>2 DEF Shapes, LoginsGo
<1>3. CASE Consume(r) /\ Consumable(r)
  <2>1. r \in DOMAIN http /\ http[r].state \in DOMAIN logins
    BY <1>1, <1>3 DEF Consume, At, Calls, CallFits
  <2>2. PICK l \in DOMAIN logins : l = http[r].state
    BY <2>1
  <2>3. logins' = [logins EXCEPT ![l].state = "consumed"]
    BY <1>3, <2>2 DEF Consume
  <2>4. PICK g \in LoginRow : g = logins[l]
    BY <1>1, Fields
  <2>5. PICK x : x = [g EXCEPT !.state = "consumed"]
    OBVIOUS
  <2>6. x \in LoginRow /\ x.state # "open"
    BY <2>5 DEF LoginRow
  <2>7. logins' = [logins EXCEPT ![l] = x]
    BY <2>3, <2>4, <2>5
  <2> QED
    BY <1>1, <2>6, <2>7 DEF Shapes, LoginsGo
<1> QED
  BY <1>2, <1>3
     DEF Handle, Consume, Claim, Exchange, ResolveMembership, CreateSession, Authenticate, Prove,
         Replace, Revoke, Record, Undo, Broken

\* A login that begins opens its own transaction and deletes expired ones.
LEMMA LoginBegins ==
  ASSUME SessionInv, NEW l \in Login, BeginLogin(l)
  PROVE  LoginsGo
<1>1. /\ \A k \in DOMAIN logins : logins[k] \in LoginRow /\ k \in Login
      /\ tick \in Nat /\ LoginTTL \in Nat
  BY Fields, SessionConstants DEF SessionInv, Shapes
<1>2. [state |-> "open", until |-> tick + LoginTTL] \in LoginRow
  BY <1>1 DEF LoginRow
<1>3. \A g \in LoginRow : /\ [g EXCEPT !.state = "deleted"] \in LoginRow
                          /\ [g EXCEPT !.state = "deleted"].state # "open"
  BY DEF LoginRow
<1>4. DOMAIN logins' = DOMAIN logins \cup {l}
  BY DEF BeginLogin
<1>5. /\ logins' = [k \in DOMAIN logins' |-> logins'[k]]
      /\ logins'[l] = [state |-> "open", until |-> tick + LoginTTL]
      /\ \A k \in DOMAIN logins : \/ logins'[k] = [logins[k] EXCEPT !.state = "deleted"]
                                  \/ logins'[k] = logins[k]
  BY <1>4 DEF BeginLogin
<1>6. \A k \in DOMAIN logins :
        logins'[k] \in LoginRow /\ (logins[k].state # "open" => logins'[k].state # "open")
  <2>1. TAKE k \in DOMAIN logins
  <2>2. PICK g \in LoginRow : g = logins[k]
    BY <1>1
  <2>3. logins'[k] = [g EXCEPT !.state = "deleted"] \/ logins'[k] = g
    BY <1>5, <2>2
  <2> QED
    BY <1>3, <2>2, <2>3
<1>7. \A k \in DOMAIN logins' : logins'[k] \in LoginRow /\ k \in Login
  BY <1>1, <1>2, <1>4, <1>5, <1>6
<1>8. logins' \in [DOMAIN logins' -> LoginRow] /\ DOMAIN logins' \subseteq Login
  BY <1>5, <1>7
<1> QED
  BY <1>4, <1>6, <1>8 DEF LoginsGo

\* What a handler does to the codes, the trail, the answered tokens, the clock.
RestGoes(r) ==
  /\ member' = member /\ tick' = tick
  /\ \A c \in codes' : c.code \in Login
  /\ \A t \in sent' : t \in sent \/ t \in DOMAIN sessions
  /\ \A e \in trail' : \/ e \in trail \/ e.event # Logout
                       \/ /\ http[r].phase = "record" /\ http[r].op = Logout
                          /\ e.token = http[r].token

\* What the handlers do to the codes, the trail, the answered tokens and the clock.
LEMMA RestMoves ==
  ASSUME SessionInv, NEW r \in HumanRequest, Handle(r)
  PROVE  RestGoes(r)
<1>1. Shapes /\ Calls /\ r \in DOMAIN http
  BY CallGoes DEF SessionInv
<1>2. /\ \A c \in codes : c.code \in Login
      /\ CallFits(r)
      /\ http[r] \in CallRow /\ DOMAIN logins \subseteq Login
  BY <1>1, Fields DEF Shapes, Calls
<1>3. member' = member /\ tick' = tick
  BY DEF Handle, Consume, Claim, Exchange, ResolveMembership, CreateSession, Authenticate, Prove,
         Replace, Revoke, Record, Undo, Broken
<1>4. \A c \in codes' : c.code \in Login
  <2>1. CASE Claim(r)
    <3>1. http[r].code \in Login
      BY <1>2, <2>1 DEF Claim, At, CallFits
    <3> QED
      BY <1>2, <2>1, <3>1 DEF Claim
  <2>2. CASE codes' = codes
    BY <1>2, <2>2
  <2> QED
    BY <2>1, <2>2
       DEF Handle, Consume, Exchange, ResolveMembership, CreateSession, Authenticate, Prove,
           Replace, Revoke, Record, Undo, Broken
<1>5. \A t \in sent' : t \in sent \/ t \in DOMAIN sessions
  <2>1. CASE Record(r)
    BY <1>2, <2>1 DEF Record, At, CallFits
  <2>2. CASE sent' = sent
    BY <2>2
  <2> QED
    BY <2>1, <2>2
       DEF Handle, Consume, Claim, Exchange, ResolveMembership, CreateSession, Authenticate, Prove,
           Replace, Revoke, Undo, Broken
<1>6. \A e \in trail' : \/ e \in trail \/ e.event # Logout
                        \/ /\ http[r].phase = "record" /\ http[r].op = Logout
                           /\ e.token = http[r].token
  <2>1. CASE trail' = trail
    BY <2>1
  <2>2. CASE Prove(r)
    BY <2>2 DEF Prove, Logout
  <2>3. CASE Record(r)
    <3>1. CASE http[r].op = Logout
      BY <2>1, <2>3, <3>1 DEF Record, At, EventOf
    <3>2. CASE http[r].op # Logout
      BY <2>1, <2>3, <3>2 DEF Record, EventOf, Logout
    <3> QED
      BY <3>1, <3>2
  <2> QED
    BY <2>1, <2>2, <2>3
       DEF Handle, Consume, Claim, Exchange, ResolveMembership, CreateSession, Authenticate,
           Replace, Revoke, Undo, Broken
<1> QED
  BY <1>3, <1>4, <1>5, <1>6 DEF RestGoes
-----------------------------------------------------------------------------
(***************************************************************************)
(* Each part of the invariant is kept by a handler                         *)
(***************************************************************************)
LEMMA ShapesKept ==
  ASSUME SessionInv, NEW r \in HumanRequest, Handle(r)
  PROVE  Shapes'
<1>1. Shapes /\ SessionsGo(r) /\ LoginsGo /\ RestGoes(r)
  BY SessionsMove, LoginsMove, RestMoves DEF SessionInv
<1>2. PICK c \in CallRow : r \in DOMAIN http /\ http' = [http EXCEPT ![r] = c]
  BY CallGoes
<1>3. http' \in [DOMAIN http' -> CallRow] /\ DOMAIN http' \subseteq HumanRequest
  BY <1>1, <1>2 DEF Shapes
<1>4. \A t \in DOMAIN sessions' : sessions'[t] \in SessionRow
  BY <1>1 DEF SessionsGo, Keeps, Creates, Succeeds, NewSession, Stays
<1>5. sessions' \in [DOMAIN sessions' -> SessionRow]
  BY <1>1, <1>4 DEF SessionsGo
<1>6. \E n \in 0..MaxToken : DOMAIN sessions' = 1..n
  <2>1. CASE DOMAIN sessions' = DOMAIN sessions
    BY <1>1, <2>1 DEF Shapes
  <2>2. CASE DOMAIN sessions' = DOMAIN sessions \cup {NewToken} /\ NewToken \in Token
    <3>1. PICK n \in Nat : n = NewToken
      BY <1>1, Numbered
    <3>2. DOMAIN sessions = 1 .. n - 1 /\ n > 0 /\ n \in 1..MaxToken
      BY <1>1, <2>2, <3>1, Numbered DEF Token
    <3>3. DOMAIN sessions' = 1..n /\ n \in 0..MaxToken
      BY <2>2, <3>1, <3>2, SessionConstants
    <3> QED
      BY <3>3
  <2> QED
    BY <1>1, <2>1, <2>2 DEF SessionsGo, Keeps, Creates, Succeeds, NewSession
<1>7. DOMAIN sessions \subseteq DOMAIN sessions'
  BY <1>1 DEF SessionsGo, Keeps, Creates, Succeeds, NewSession
<1>8. sent' \subseteq DOMAIN sessions'
  BY <1>1, <1>7 DEF RestGoes, Shapes
<1> QED
  BY <1>1, <1>3, <1>5, <1>6, <1>8 DEF Shapes, LoginsGo, RestGoes

\* A handler keeps what requests carry, and the phases of each kind.
LEMMA CallsKept ==
  ASSUME SessionInv, NEW r \in HumanRequest, Handle(r)
  PROVE  Calls'
<1>1. Shapes /\ Calls /\ SessionsGo(r) /\ LoginsGo /\ RestGoes(r)
  BY SessionsMove, LoginsMove, RestMoves DEF SessionInv
<1>2. PICK c \in CallRow : /\ r \in DOMAIN http /\ http' = [http EXCEPT ![r] = c]
                           /\ SameCall(http[r], c) /\ Goes(r, c)
  BY CallGoes
<1>3. /\ DOMAIN sessions \subseteq DOMAIN sessions' /\ DOMAIN logins \subseteq DOMAIN logins'
      /\ tick' = tick /\ 0 \notin DOMAIN sessions
  <2>1. DOMAIN sessions \subseteq DOMAIN sessions' /\ DOMAIN logins \subseteq DOMAIN logins'
    BY <1>1 DEF SessionsGo, Keeps, Creates, Succeeds, NewSession, LoginsGo
  <2>2. 0 \notin DOMAIN sessions
    BY <1>1 DEF Shapes
  <2> QED
    BY <1>1, <2>1, <2>2 DEF RestGoes
<1>4. ASSUME NEW q \in DOMAIN http', q # r
      PROVE  CallFits(q)'
  <2>1. q \in DOMAIN http /\ http'[q] = http[q] /\ CallFits(q)
    BY <1>1, <1>2, <1>4 DEF Calls
  <2> QED
    BY <1>3, <2>1 DEF CallFits
<1>5. CallFits(r)'
  <2>1. http'[r] = c /\ CallFits(r)
    BY <1>1, <1>2 DEF Calls, Shapes
  <2>2. /\ c.op = http[r].op /\ c.now = http[r].now /\ c.state = http[r].state
        /\ c.binding = http[r].binding /\ c.code = http[r].code /\ c.token = http[r].token
    BY <1>2 DEF SameCall
  <2>3. c.new \in DOMAIN sessions' \cup {0}
    BY <1>2, <1>3, <2>1 DEF Goes, CallFits
  <2>4. /\ c.phase \in {"consume", "claim", "exchange", "resolve", "create"} => c.op = Callback
        /\ c.phase \in {"authenticate", "prove", "replace", "revoke"} => c.op # Callback
        /\ c.phase = "revoke" => c.op = Logout
        /\ c.phase \in {"replace", "undo"} => c.op # Logout
    BY <1>2, <2>1, <2>2 DEF Goes, CallFits
  <2>5. c.phase \in {"record", "undo"} /\ c.op # Logout => c.new \in DOMAIN sessions'
    BY <1>2, <1>3, <2>1, <2>2 DEF Goes, CallFits
  <2> QED
    BY <1>3, <2>1, <2>2, <2>3, <2>4, <2>5 DEF CallFits
<1> QED
  BY <1>4, <1>5 DEF Calls

\* The sessions of a behaviour only grow, and what is written in them never
\* moves one to another login.
LEMMA Grows ==
  ASSUME SessionInv, NEW r \in HumanRequest, SessionsGo(r)
  PROVE  /\ DOMAIN sessions \subseteq DOMAIN sessions'
         /\ \A t \in DOMAIN sessions :
              /\ sessions'[t].login = sessions[t].login
              /\ sessions'[t].generation = sessions[t].generation
              /\ sessions[t].revoked => sessions'[t].revoked
         /\ DOMAIN sessions' # DOMAIN sessions =>
              /\ DOMAIN sessions' = DOMAIN sessions \cup {NewToken}
              /\ NewToken \notin DOMAIN sessions /\ NewToken \in Nat /\ NewToken > 0
              /\ Creates(r) \/ Succeeds(r)
<1>1. NewToken \notin DOMAIN sessions /\ NewToken \in Nat /\ NewToken > 0
  BY Numbered DEF SessionInv
<1>2. CASE Keeps
  BY <1>2 DEF Keeps, Stays
<1>3. CASE Creates(r)
  BY <1>1, <1>3 DEF Creates, NewSession, Stays
<1>4. CASE Succeeds(r)
  <2>1. PICK t \in DOMAIN sessions : t = http[r].token
    BY <1>4 DEF Succeeds
  <2>2. /\ DOMAIN sessions' = DOMAIN sessions \cup {NewToken}
        /\ sessions'[t].login = sessions[t].login /\ ~sessions[t].revoked
        /\ sessions'[t].generation = sessions[t].generation
        /\ \A u \in DOMAIN sessions \ {t} : Stays(u)
    BY <1>4, <2>1 DEF Succeeds, NewSession
  <2> QED
    BY <1>1, <1>4, <2>2 DEF Stays
<1> QED
  BY <1>2, <1>3, <1>4 DEF SessionsGo

\* A handler keeps the chain of the sessions of each login.
LEMMA ChainKept ==
  ASSUME SessionInv, NEW r \in HumanRequest, Handle(r)
  PROVE  Chain'
<1>1. Shapes /\ Calls /\ Chain /\ Starts /\ SessionsGo(r) /\ LoginsGo
  BY SessionsMove, LoginsMove DEF SessionInv
<1>2. /\ DOMAIN sessions \subseteq DOMAIN sessions'
      /\ \A t \in DOMAIN sessions :
           /\ sessions'[t].login = sessions[t].login
           /\ sessions'[t].generation = sessions[t].generation
           /\ sessions[t].revoked => sessions'[t].revoked
  BY <1>1, Grows
<1>3. \A t \in DOMAIN sessions : t \in Nat /\ t # 0 /\ sessions[t] \in SessionRow
  BY <1>1, Fields DEF Shapes
<1>4. NewToken \in Nat /\ NewToken > 0 /\ NewToken \notin DOMAIN sessions
      /\ DOMAIN sessions = 1 .. NewToken - 1
  BY <1>1, Numbered
<1>5. ASSUME NEW t \in DOMAIN sessions, sessions'[t].next = sessions[t].next
      PROVE  /\ sessions'[t].login \in DOMAIN logins' /\ logins'[sessions'[t].login].state # "open"
             /\ sessions'[t].generation \in 1..t
             /\ sessions'[t].next # 0 =>
                  /\ sessions'[t].revoked /\ sessions'[t].next \in DOMAIN sessions'
                  /\ sessions'[sessions'[t].next].login = sessions'[t].login
                  /\ sessions'[sessions'[t].next].generation = sessions'[t].generation + 1
  BY <1>1, <1>2, <1>5 DEF Chain, LoginsGo
<1>6. CASE Keeps
  <2>1. DOMAIN sessions' = DOMAIN sessions /\ \A t \in DOMAIN sessions : sessions'[t].next = sessions[t].next
    BY <1>6 DEF Keeps, Stays
  <2> QED
    BY <1>5, <2>1 DEF Chain
<1>7. CASE Creates(r)
  <2>1. PICK n \in Nat : n = NewToken
    BY <1>4
  <2>2. /\ DOMAIN sessions' = DOMAIN sessions \cup {n}
        /\ \A t \in DOMAIN sessions : sessions'[t].next = sessions[t].next
        /\ sessions'[n].login = http[r].state /\ sessions'[n].generation = 1
        /\ sessions'[n].next = 0
    BY <1>7, <2>1 DEF Creates, NewSession, Stays
  <2>3. /\ http[r].state \in DOMAIN logins /\ logins[http[r].state].state # "open"
    <3>1. r \in DOMAIN http /\ Starting(r) /\ http[r].op = Callback
      BY <1>1, <1>7 DEF Creates, At, Starting, Calls, CallFits
    <3> QED
      BY <1>1, <3>1 DEF Starts, Calls, CallFits
  <2>4. http[r].state \in DOMAIN logins' /\ logins'[http[r].state].state # "open"
    BY <1>1, <2>3 DEF LoginsGo
  <2> QED
    BY <1>4, <1>5, <2>1, <2>2, <2>4 DEF Chain
<1>8. CASE Succeeds(r)
  <2>1. PICK n \in Nat : n = NewToken
    BY <1>4
  <2>2. PICK t \in DOMAIN sessions : t = http[r].token
    BY <1>8 DEF Succeeds
  <2>3. /\ DOMAIN sessions' = DOMAIN sessions \cup {n}
        /\ \A u \in DOMAIN sessions \ {t} : sessions'[u].next = sessions[u].next
        /\ sessions'[n].login = sessions[t].login
        /\ sessions'[n].generation = sessions[t].generation + 1
        /\ sessions'[n].next = 0
        /\ sessions'[t].next = n /\ sessions'[t].revoked
    BY <1>8, <2>1, <2>2 DEF Succeeds, NewSession, Stays
  <2>4. /\ sessions[t].login \in DOMAIN logins' /\ logins'[sessions[t].login].state # "open"
        /\ sessions[t].generation \in 1..t
    BY <1>1 DEF Chain, LoginsGo
  <2>5. t \in Nat /\ t < n /\ n > 0
    BY <1>4, <2>1
  <2>6. sessions[t].generation + 1 \in 1..n
    BY <2>4, <2>5
  <2>7. ASSUME NEW u \in DOMAIN sessions', u # t, u # n
        PROVE  /\ u \in DOMAIN sessions /\ sessions'[u].next = sessions[u].next
    BY <2>3, <2>7
  <2> QED
    BY <1>2, <1>5, <2>3, <2>4, <2>6, <2>7 DEF Chain
<1> QED
  BY <1>1, <1>6, <1>7, <1>8 DEF SessionsGo

\* A handler leaves a login one last session at most.
LEMMA OneLastKept ==
  ASSUME SessionInv, NEW r \in HumanRequest, Handle(r)
  PROVE  OneLast'
<1>1. Shapes /\ Calls /\ Chain /\ OneLast /\ Starts /\ SessionsGo(r)
  BY SessionsMove DEF SessionInv
<1>2. \A t \in DOMAIN sessions : sessions'[t].login = sessions[t].login
  BY <1>1, Grows
<1>3. NewToken \in Nat /\ NewToken > 0 /\ NewToken \notin DOMAIN sessions
  BY <1>1, Numbered
<1>4. CASE Keeps
  <2>1. DOMAIN sessions' = DOMAIN sessions /\ \A t \in DOMAIN sessions : sessions'[t].next = sessions[t].next
    BY <1>4 DEF Keeps, Stays
  <2> QED
    BY <1>1, <1>2, <2>1 DEF OneLast
<1>5. CASE Creates(r)
  <2>1. PICK n \in Nat : n = NewToken
    BY <1>3
  <2>2. /\ DOMAIN sessions' = DOMAIN sessions \cup {n}
        /\ \A t \in DOMAIN sessions : sessions'[t].next = sessions[t].next
        /\ sessions'[n].login = http[r].state
    BY <1>5, <2>1 DEF Creates, NewSession, Stays
  <2>3. \A t \in DOMAIN sessions : sessions[t].login # http[r].state
    <3>1. r \in DOMAIN http /\ Starting(r)
      BY <1>5 DEF Creates, At, Starting
    <3> QED
      BY <1>1, <3>1 DEF Starts
  <2> QED
    BY <1>1, <1>2, <2>2, <2>3 DEF OneLast
<1>6. CASE Succeeds(r)
  <2>1. PICK n \in Nat : n = NewToken
    BY <1>3
  <2>2. PICK t \in DOMAIN sessions : t = http[r].token
    BY <1>6 DEF Succeeds
  <2>3. /\ DOMAIN sessions' = DOMAIN sessions \cup {n}
        /\ \A u \in DOMAIN sessions \ {t} : sessions'[u].next = sessions[u].next
        /\ sessions'[n].login = sessions[t].login
        /\ sessions'[t].next = n /\ n # 0 /\ ~sessions[t].revoked
    BY <1>3, <1>6, <2>1, <2>2 DEF Succeeds, NewSession, Stays
  <2>4. sessions[t].next = 0
    BY <1>1, <2>3 DEF Chain
  <2> QED
    BY <1>1, <1>2, <2>3, <2>4 DEF OneLast
<1> QED
  BY <1>1, <1>4, <1>5, <1>6 DEF SessionsGo

\* A handler leaves a login to the one callback that consumed it.
LEMMA StartsKept ==
  ASSUME SessionInv, NEW r \in HumanRequest, Handle(r)
  PROVE  Starts'
<1>1. Shapes /\ Calls /\ Chain /\ Starts /\ SessionsGo(r) /\ LoginsGo
  BY SessionsMove, LoginsMove DEF SessionInv
<1>2. PICK c \in CallRow : /\ r \in DOMAIN http /\ http' = [http EXCEPT ![r] = c]
                           /\ SameCall(http[r], c) /\ Goes(r, c)
  BY CallGoes
<1>3. /\ DOMAIN http' = DOMAIN http /\ http'[r] = c /\ c.state = http[r].state
      /\ \A q \in DOMAIN http \ {r} : http'[q] = http[q]
  BY <1>1, <1>2 DEF Shapes, SameCall
<1>4. \A t \in DOMAIN sessions : sessions'[t].login = sessions[t].login
  BY <1>1, Grows
\* A request that starts afterwards did so before, or consumes its login now.
<1>5. ASSUME NEW q \in DOMAIN http', Starting(q)'
      PROVE  /\ http'[q].state = http[q].state /\ http[q].op = Callback
             /\ http[q].state \in DOMAIN logins
             /\ \/ Starting(q) /\ (q = r => http[r].phase # "create")
                \/ q = r /\ http[r].phase = "consume" /\ logins[http[r].state].state = "open"
  <2>1. CASE q # r
    BY <1>1, <1>3, <1>5, <2>1 DEF Starting, Calls, CallFits
  <2>2. CASE q = r
    <3>1. c.phase \in {"claim", "exchange", "resolve", "create"}
      BY <1>3, <1>5, <2>2 DEF Starting
    <3>2. \/ http[r].phase \in {"claim", "exchange", "resolve"}
          \/ http[r].phase = "consume" /\ logins[http[r].state].state = "open"
      BY <1>2, <3>1 DEF Goes
    <3> QED
      BY <1>1, <1>2, <1>3, <2>2, <3>2 DEF Starting, Calls, CallFits
  <2> QED
    BY <2>1, <2>2
<1>6. ASSUME NEW q \in DOMAIN http', Starting(q)'
      PROVE  logins'[http[q].state].state # "open"
  <2>1. CASE Starting(q)
    BY <1>1, <1>3, <1>5, <1>6, <2>1 DEF Starts, LoginsGo
  <2>2. CASE ~Starting(q)
    <3>1. /\ q = r /\ http[r].phase = "consume" /\ c.phase # "ended" /\ http[r].state \in DOMAIN logins
      BY <1>3, <1>5, <1>6, <2>2 DEF Starting
    <3>2. logins' = [logins EXCEPT ![http[r].state].state = "consumed"]
      BY <1>2, <3>1 DEF Goes
    <3>3. logins[http[r].state] \in LoginRow
      BY <1>1, <3>1, Fields
    <3> QED
      BY <1>1, <3>1, <3>2, <3>3 DEF LoginRow, Shapes
  <2> QED
    BY <2>1, <2>2
\* No session is inserted for a login that somebody else is starting.
<1>7. ASSUME NEW q \in DOMAIN http', Starting(q)'
      PROVE  \A t \in DOMAIN sessions : sessions[t].login # http[q].state
  BY <1>1, <1>3, <1>5, <1>7 DEF Starts, Chain
<1>8. ASSUME NEW q \in DOMAIN http', Starting(q)', NEW t \in DOMAIN sessions'
      PROVE  sessions'[t].login # http[q].state
  <2>1. CASE t \in DOMAIN sessions
    BY <1>4, <1>7, <1>8, <2>1
  <2>2. CASE t \notin DOMAIN sessions
    <3>1. t = NewToken /\ (Creates(r) \/ Succeeds(r))
      BY <1>1, <1>8, <2>2, Grows
    <3>2. CASE Creates(r)
      <4>1. /\ sessions'[t].login = http[r].state /\ http[r].phase = "create" /\ Starting(r)
        BY <3>1, <3>2 DEF Creates, NewSession, At, Starting
      <4>2. q # r
        <5>1. ASSUME q = r PROVE FALSE
          BY <1>5, <1>8, <4>1, <5>1
        <5> QED
          BY <5>1
      <4>3. Starting(q)
        BY <1>5, <1>8, <4>2
      <4> QED
        BY <1>1, <1>2, <1>3, <4>1, <4>2, <4>3 DEF Starts
    <3>3. CASE Succeeds(r)
      <4>1. \E u \in DOMAIN sessions : sessions'[t].login = sessions[u].login
        BY <3>1, <3>3 DEF Succeeds, NewSession
      <4> QED
        BY <1>7, <1>8, <4>1
    <3> QED
      BY <3>1, <3>2, <3>3
  <2> QED
    BY <2>1, <2>2
<1>9. ASSUME NEW q \in DOMAIN http', NEW p \in DOMAIN http', Starting(q)', Starting(p)',
             http[p].state = http[q].state
      PROVE  p = q
  <2>1. CASE Starting(p) /\ Starting(q)
    BY <1>1, <1>3, <1>9, <2>1 DEF Starts
  <2>2. CASE ~Starting(p)
    <3>1. p = r /\ logins[http[r].state].state = "open"
      BY <1>5, <1>9, <2>2
    <3>2. ~Starting(q)
      BY <1>1, <1>3, <1>9, <3>1 DEF Starts
    <3> QED
      BY <1>5, <1>9, <3>1, <3>2
  <2>3. CASE ~Starting(q)
    <3>1. q = r /\ logins[http[r].state].state = "open"
      BY <1>5, <1>9, <2>3
    <3>2. ~Starting(p)
      BY <1>1, <1>3, <1>9, <3>1 DEF Starts
    <3> QED
      BY <1>5, <1>9, <3>1, <3>2
  <2> QED
    BY <2>1, <2>2, <2>3
<1> QED
  <2>1. ASSUME NEW q \in DOMAIN http', Starting(q)'
        PROVE  http'[q].state = http[q].state
    BY <1>5, <2>1
  <2> QED
    BY <1>6, <1>8, <1>9, <2>1 DEF Starts

\* A login whose sessions are all revoked stays so: the first session of a login
\* is inserted once, and only a fresh session has a successor.
LEMMA RevokedStays ==
  ASSUME SessionInv, NEW r \in HumanRequest, SessionsGo(r),
         NEW t \in DOMAIN sessions, AllRevoked(sessions[t].login)
  PROVE  \A u \in DOMAIN sessions' : sessions'[u].login = sessions[t].login => sessions'[u].revoked
<1>1. Starts
  BY DEF SessionInv
<1>2. SUFFICES ASSUME NEW u \in DOMAIN sessions', sessions'[u].login = sessions[t].login
               PROVE  sessions'[u].revoked
  OBVIOUS
<1>3. CASE u \in DOMAIN sessions
  BY <1>2, <1>3, Grows DEF AllRevoked
<1>4. CASE u \notin DOMAIN sessions
  <2>1. u = NewToken /\ (Creates(r) \/ Succeeds(r))
    BY <1>2, <1>4, Grows
  <2>2. CASE Creates(r)
    BY <1>1, <1>2, <2>1, <2>2 DEF Creates, NewSession, At, Starts, Starting
  <2>3. CASE Succeeds(r)
    BY <1>2, <2>1, <2>3 DEF Succeeds, NewSession, AllRevoked
  <2> QED
    BY <2>1, <2>2, <2>3
<1> QED
  BY <1>3, <1>4

\* A handler leaves the logins that logged out without a session.
LEMMA LoggedOutKept ==
  ASSUME SessionInv, NEW r \in HumanRequest, Handle(r)
  PROVE  LoggedOut'
<1>1. /\ Shapes /\ Calls /\ Chain /\ OneLast /\ LoggedOut
      /\ SessionsGo(r) /\ LoginsGo /\ RestGoes(r)
  BY SessionsMove, LoginsMove, RestMoves DEF SessionInv
<1>2. PICK c \in CallRow : /\ r \in DOMAIN http /\ http' = [http EXCEPT ![r] = c]
                           /\ SameCall(http[r], c) /\ Goes(r, c)
  BY CallGoes
<1>3. /\ DOMAIN http' = DOMAIN http /\ http'[r] = c
      /\ c.token = http[r].token /\ c.op = http[r].op
      /\ \A q \in DOMAIN http \ {r} : http'[q] = http[q]
  BY <1>1, <1>2 DEF Shapes, SameCall
<1>4. /\ DOMAIN sessions \subseteq DOMAIN sessions'
      /\ \A t \in DOMAIN sessions : sessions'[t].login = sessions[t].login
  BY <1>1, Grows
<1>5. \A t \in DOMAIN sessions : AllRevoked(sessions[t].login) =>
        \A u \in DOMAIN sessions' : sessions'[u].login = sessions[t].login => sessions'[u].revoked
  BY RevokedStays, <1>1
\* The logout itself: the session was the last one of its login.
<1>6. ASSUME http[r].phase = "revoke", c.phase = "record"
      PROVE  \A u \in DOMAIN sessions' :
               sessions'[u].login = sessions[http[r].token].login => sessions'[u].revoked
  <2>1. PICK t \in DOMAIN sessions : t = http[r].token
    BY <1>1, <1>2, <1>6 DEF Calls, CallFits
  <2>2. ~sessions[t].revoked /\ sessions' = [sessions EXCEPT ![t].revoked = TRUE]
    BY <1>2, <1>6, <2>1 DEF Goes
  <2>3. sessions[t].next = 0 /\ sessions[t] \in SessionRow
    BY <1>1, <2>2, Fields DEF Chain
  <2>4. DOMAIN sessions' = DOMAIN sessions /\ sessions'[t].revoked
        /\ \A u \in DOMAIN sessions \ {t} : sessions'[u] = sessions[u]
    BY <1>1, <2>2, <2>3 DEF Shapes, SessionRow
  <2>5. \A u \in DOMAIN sessions \ {t} : sessions[u].login = sessions[t].login => sessions[u].revoked
    BY <1>1, <2>3 DEF Chain, OneLast
  <2> QED
    BY <2>1, <2>4, <2>5
<1>7. ASSUME NEW q \in DOMAIN http', http'[q].op = Logout, http'[q].phase = "record"
      PROVE  \A u \in DOMAIN sessions' :
               sessions'[u].login = sessions'[http'[q].token].login => sessions'[u].revoked
  <2>1. http'[q].token \in DOMAIN sessions /\ http'[q].token = http[q].token /\ http[q].op = Logout
    BY <1>1, <1>2, <1>3, <1>7 DEF Calls, CallFits, Logout, Callback
  <2>2. CASE http[q].phase = "record" /\ q # r
    <3>1. AllRevoked(sessions[http[q].token].login)
      BY <1>1, <1>3, <1>7, <2>1, <2>2 DEF LoggedOut
    <3> QED
      BY <1>4, <1>5, <2>1, <3>1
  <2>3. CASE q = r
    <3>1. http[r].phase = "revoke" /\ c.phase = "record"
      BY <1>1, <1>2, <1>3, <1>7, <2>1, <2>3 DEF Goes, Calls, CallFits, Logout, Callback
    <3> QED
      BY <1>4, <1>6, <2>1, <2>3, <3>1
  <2> QED
    BY <1>3, <1>7, <2>2, <2>3
<1>8. ASSUME NEW e \in trail', e.event = Logout
      PROVE  /\ e.token \in DOMAIN sessions'
             /\ \A u \in DOMAIN sessions' :
                  sessions'[u].login = sessions'[e.token].login => sessions'[u].revoked
  <2>1. e.token \in DOMAIN sessions /\ AllRevoked(sessions[e.token].login)
    <3>1. CASE e \in trail
      BY <1>1, <1>8, <3>1 DEF LoggedOut
    <3>2. CASE e \notin trail
      BY <1>1, <1>2, <1>8, <3>2 DEF LoggedOut, RestGoes, Calls, CallFits, Logout, Callback
    <3> QED
      BY <3>1, <3>2
  <2> QED
    BY <1>4, <1>5, <2>1
<1> QED
  BY <1>7, <1>8 DEF LoggedOut, AllRevoked
-----------------------------------------------------------------------------
(***************************************************************************)
(* The invariant                                                           *)
(***************************************************************************)
\* A request that begins or is asked for touches no session.
LEMMA BeginKeeps ==
  ASSUME SessionInv, NEW l \in Login, BeginLogin(l)
  PROVE  SessionInv'
<1>1. /\ Shapes /\ Calls /\ Chain /\ OneLast /\ Starts /\ LoggedOut
      /\ LoginsGo /\ http' = http /\ sessions' = sessions /\ codes' = codes
      /\ trail' = trail /\ sent' = sent /\ member' = member /\ tick' = tick
  BY LoginBegins DEF SessionInv, BeginLogin
<1>2. Shapes'
  BY <1>1 DEF Shapes, LoginsGo
<1>3. Calls'
  BY <1>1 DEF Calls, CallFits, LoginsGo
<1>4. Chain' /\ OneLast'
  BY <1>1 DEF Chain, OneLast, LoginsGo
<1>5. Starts'
  <2>1. \A q \in DOMAIN http : Starting(q) => http[q].state \in DOMAIN logins
    BY <1>1 DEF Calls, CallFits, Starting
  <2> QED
    BY <1>1, <2>1 DEF Starts, Starting, LoginsGo
<1>6. LoggedOut'
  BY <1>1 DEF LoggedOut, AllRevoked
<1> QED
  BY <1>2, <1>3, <1>4, <1>5, <1>6 DEF SessionInv

\* A new request waits for its first step.
LEMMA AskKeeps ==
  ASSUME SessionInv, NEW r \in HumanRequest, r \notin DOMAIN http, NEW c \in CallRow,
         http' = With(http, r, c),
         c.now = tick, c.new = 0,
         \/ c.op = Callback /\ c.phase = "consume" /\ {c.state, c.binding, c.code} \subseteq DOMAIN logins
         \/ c.op # Callback /\ c.phase = "authenticate" /\ c.token \in DOMAIN sessions,
         UNCHANGED <<logins, codes, sessions, trail, sent, member, tick>>
  PROVE  SessionInv'
<1>1. Shapes /\ Calls /\ Chain /\ OneLast /\ Starts /\ LoggedOut /\ tick \in Nat
  BY DEF SessionInv, Shapes
<1>2. /\ DOMAIN http' = DOMAIN http \cup {r} /\ http'[r] = c
      /\ \A q \in DOMAIN http : http'[q] = http[q]
      /\ http' = [q \in DOMAIN http' |-> http'[q]]
  BY DEF With
<1>3. Shapes'
  <2>1. \A q \in DOMAIN http' : http'[q] \in CallRow /\ q \in HumanRequest
    BY <1>1, <1>2, Fields DEF Shapes
  <2>2. http' \in [DOMAIN http' -> CallRow] /\ DOMAIN http' \subseteq HumanRequest
    BY <1>2, <2>1
  <2> QED
    BY <1>1, <2>2 DEF Shapes
<1>4. Calls'
  <2>1. CallFits(r)'
    BY <1>1, <1>2 DEF CallFits
  <2>2. \A q \in DOMAIN http : CallFits(q)'
    BY <1>1, <1>2 DEF Calls, CallFits
  <2> QED
    BY <1>2, <2>1, <2>2 DEF Calls
<1>5. Chain' /\ OneLast'
  BY <1>1 DEF Chain, OneLast
<1>6. Starts'
  <2>1. \A q \in DOMAIN http' : Starting(q)' => q \in DOMAIN http /\ Starting(q)
    BY <1>2 DEF Starting
  <2> QED
    BY <1>1, <1>2, <2>1 DEF Starts
<1>7. LoggedOut'
  BY <1>1, <1>2 DEF LoggedOut, AllRevoked
<1> QED
  BY <1>3, <1>4, <1>5, <1>6, <1>7 DEF SessionInv

\* Every step keeps the invariant, and it holds at the start.
LEMMA Invariant == HumanSpec => []SessionInv
<1>1. HumanInit => SessionInv
  <2> SUFFICES ASSUME HumanInit PROVE SessionInv
    OBVIOUS
  <2>1. DOMAIN http = {} /\ DOMAIN logins = {} /\ DOMAIN sessions = {} /\ 1..0 = {}
    BY DEF HumanInit
  <2>2. Shapes
    BY <2>1, SessionConstants DEF HumanInit, Shapes
  <2> QED
    BY <2>1, <2>2 DEF HumanInit, SessionInv, Calls, Chain, OneLast, Starts, LoggedOut
<1>2. SessionInv /\ [HumanNext]_humanVars => SessionInv'
  <2> SUFFICES ASSUME SessionInv, [HumanNext]_humanVars
               PROVE  SessionInv'
    OBVIOUS
  <2>1. ASSUME NEW l \in Login, BeginLogin(l) PROVE SessionInv'
    BY <2>1, BeginKeeps
  <2>2. ASSUME NEW r \in HumanRequest, Handle(r) PROVE SessionInv'
    BY <2>2, ShapesKept, CallsKept, ChainKept, OneLastKept, StartsKept, LoggedOutKept DEF SessionInv
  <2>3. ASSUME NEW r \in HumanRequest, NEW s \in Login, NEW b \in Login, NEW d \in Login,
               AskCallback(r, s, b, d)
        PROVE  SessionInv'
    <3>1. PICK c : c = [op |-> Callback, phase |-> "consume", now |-> tick, state |-> s,
                        binding |-> b, code |-> d, token |-> 0, seen |-> 0,
                        proof |-> FALSE, new |-> 0]
      OBVIOUS
    <3>2. /\ r \notin DOMAIN http /\ {s, b, d} \subseteq DOMAIN logins /\ http' = With(http, r, c)
          /\ UNCHANGED <<logins, codes, sessions, trail, sent, member, tick>>
      BY <2>3, <3>1 DEF AskCallback
    <3>3. tick \in Nat
      BY DEF SessionInv, Shapes
    <3>4. c \in CallRow /\ c.now = tick /\ c.new = 0 /\ c.op = Callback /\ c.phase = "consume"
          /\ c.state = s /\ c.binding = b /\ c.code = d
      BY <3>1, <3>3 DEF CallRow, Phases
    <3> QED
      BY <3>2, <3>4, AskKeeps
  <2>4. ASSUME NEW r \in HumanRequest, NEW op \in {Bootstrap, Rotation, Logout}, NEW t \in sent,
               NEW proof \in BOOLEAN, AskSession(r, op, t, proof)
        PROVE  SessionInv'
    <3>1. PICK c : c = [op |-> op, phase |-> "authenticate", now |-> tick, state |-> Nobody,
                        binding |-> Nobody, code |-> Nobody, token |-> t, seen |-> 0,
                        proof |-> proof, new |-> 0]
      OBVIOUS
    <3>2. /\ r \notin DOMAIN http /\ http' = With(http, r, c)
          /\ UNCHANGED <<logins, codes, sessions, trail, sent, member, tick>>
      BY <2>4, <3>1 DEF AskSession
    <3>3. tick \in Nat /\ t \in DOMAIN sessions /\ t \in Nat
      BY DEF SessionInv, Shapes
    <3>4. c \in CallRow /\ c.now = tick /\ c.new = 0 /\ c.op # Callback /\ c.phase = "authenticate"
          /\ c.token = t
      BY <3>1, <3>3 DEF CallRow, Phases, Bootstrap, Rotation, Logout, Callback
    <3> QED
      BY <3>2, <3>3, <3>4, AskKeeps
  <2>5. ASSUME UNCHANGED <<http, logins, codes, sessions, trail, sent>>,
               member' \in BOOLEAN, tick' \in 0..LastTick, tick' >= tick
        PROVE  SessionInv'
    <3>1. Shapes /\ Calls /\ Chain /\ OneLast /\ Starts /\ LoggedOut
      BY DEF SessionInv
    <3>2. Shapes' /\ Chain' /\ OneLast' /\ Starts' /\ LoggedOut'
      BY <2>5, <3>1 DEF Shapes, Chain, OneLast, Starts, Starting, LoggedOut, AllRevoked
    <3>3. tick \in Nat /\ tick' \in Nat /\ \A q \in DOMAIN http : http[q].now \in Nat
      BY <2>5, <3>1, Fields, SessionConstants DEF Shapes, CallRow
    <3>4. Calls'
      BY <2>5, <3>1, <3>3 DEF Calls, CallFits
    <3> QED
      BY <3>2, <3>4 DEF SessionInv
  <2>6. CASE Suspend \/ Tick
    <3>1. member \in BOOLEAN /\ tick \in 0..LastTick
      BY DEF SessionInv, Shapes
    <3>2. CASE Suspend
      <4>1. /\ UNCHANGED <<http, logins, codes, sessions, trail, sent>>
            /\ member' \in BOOLEAN /\ tick' = tick
        BY <3>2 DEF Suspend
      <4>2. tick' \in 0..LastTick /\ tick' >= tick
        BY <3>1, <4>1, SessionConstants
      <4> QED
        BY <2>5, <4>1, <4>2
    <3>3. CASE Tick
      <4>1. /\ UNCHANGED <<http, logins, codes, sessions, trail, sent>>
            /\ member' = member /\ tick < LastTick /\ tick' = tick + 1
        BY <3>3 DEF Tick
      <4>2. tick' \in 0..LastTick /\ tick' >= tick /\ member' \in BOOLEAN
        BY <3>1, <4>1, SessionConstants
      <4> QED
        BY <2>5, <4>1, <4>2
    <3> QED
      BY <2>6, <3>2, <3>3
  <2>7. CASE UNCHANGED humanVars
    <3>1. member \in BOOLEAN /\ tick \in 0..LastTick
      BY DEF SessionInv, Shapes
    <3> QED
      BY <2>5, <2>7, <3>1, SessionConstants DEF humanVars
  <2> QED
    BY <2>1, <2>2, <2>3, <2>4, <2>6, <2>7 DEF HumanNext
<1> QED
  BY <1>1, <1>2, PTL DEF HumanSpec

\* Every session, login and request has its columns: HumanTypeOK.
THEOREM Types == HumanSpec => []HumanTypeOK
<1>1. SessionInv => HumanTypeOK
  <2> SUFFICES ASSUME SessionInv PROVE HumanTypeOK
    OBVIOUS
  <2>1. Shapes /\ Calls /\ Chain
    BY DEF SessionInv
  <2>2. PICK n \in 0..MaxToken : DOMAIN sessions = 1..n
    BY <2>1 DEF Shapes
  <2>3. DOMAIN sessions \subseteq Token /\ MaxToken \in Nat
    BY <2>2, SessionConstants DEF Token
  <2>4. ASSUME NEW r \in DOMAIN http
        PROVE  /\ http[r].op \in {Bootstrap, Rotation, Logout, Callback}
               /\ http[r].phase \in Phases
               /\ http[r].new \in Token \cup {0} /\ http[r].now \in 0..tick
    <3>1. http[r] \in CallRow /\ CallFits(r) /\ tick \in Nat
      BY <2>1, Fields DEF Calls, Shapes
    <3> QED
      BY <2>3, <3>1 DEF CallRow, CallFits
  <2>5. \A l \in DOMAIN logins : logins[l].state \in {"open", "consumed", "deleted"}
    BY <2>1, Fields DEF LoginRow
  <2>6. ASSUME NEW t \in DOMAIN sessions
        PROVE  /\ sessions[t].login \in DOMAIN logins /\ sessions[t].generation \in 1..MaxToken
               /\ sessions[t].next \in Token \cup {0} /\ sessions[t].revoked \in BOOLEAN
    <3>1. t \in 1..MaxToken /\ sessions[t].generation \in 1..t /\ sessions[t].login \in DOMAIN logins
          /\ sessions[t].next \in DOMAIN sessions \cup {0}
      BY <2>1, <2>3 DEF Chain, Token
    <3>2. sessions[t].generation \in 1..MaxToken
      BY <2>3, <3>1
    <3>3. sessions[t].revoked \in BOOLEAN
      BY <2>1, Fields DEF SessionRow
    <3> QED
      BY <2>3, <3>1, <3>2, <3>3
  <2> QED
    BY <2>1, <2>3, <2>4, <2>5, <2>6 DEF HumanTypeOK, Shapes, Phases
<1> QED
  BY <1>1, Invariant, PTL

\* However the callback of a login and its rotations overlap, are repeated or
\* fail, the login has one session at a time, and none once its logout is recorded:
\* OneSessionPerLogin.
THEOREM Sessions == HumanSpec => []OneSessionPerLogin
<1>1. SessionInv => OneSessionPerLogin
  <2> SUFFICES ASSUME SessionInv, NEW l \in DOMAIN logins
               PROVE  /\ Cardinality({t \in SessionsOf(l) : sessions[t].next = 0}) <= 1
                      /\ \A t \in SessionsOf(l) :
                           /\ sessions[t].next # 0 =>
                                /\ sessions[t].revoked
                                /\ sessions[sessions[t].next].login = l
                                /\ sessions[sessions[t].next].generation = sessions[t].generation + 1
                           /\ [event |-> Logout, token |-> t] \in trail =>
                                \A u \in SessionsOf(l) : sessions[u].revoked
    BY DEF OneSessionPerLogin
  <2>1. Chain /\ OneLast /\ LoggedOut
    BY DEF SessionInv
  <2>2. Cardinality({t \in SessionsOf(l) : sessions[t].next = 0}) <= 1
    <3>1. PICK S : S = {t \in SessionsOf(l) : sessions[t].next = 0}
      OBVIOUS
    <3>2. \A t, u \in S : t = u
      BY <2>1, <3>1 DEF OneLast, SessionsOf
    <3>3. CASE S = {}
      BY <3>1, <3>3, FS_EmptySet
    <3>4. CASE S # {}
      <4>1. PICK t \in S : TRUE
        BY <3>4
      <4>2. S = {t}
        BY <3>2, <4>1
      <4>3. Cardinality(S) = 1
        BY <4>2, FS_Singleton
      <4> QED
        BY <3>1, <4>3
    <3> QED
      BY <3>3, <3>4
  <2>3. ASSUME NEW t \in SessionsOf(l), sessions[t].next # 0
        PROVE  /\ sessions[t].revoked /\ sessions[sessions[t].next].login = l
               /\ sessions[sessions[t].next].generation = sessions[t].generation + 1
    BY <2>1, <2>3 DEF Chain, SessionsOf
  <2>4. ASSUME NEW t \in SessionsOf(l), [event |-> Logout, token |-> t] \in trail,
               NEW u \in SessionsOf(l)
        PROVE  sessions[u].revoked
    <3>1. PICK e \in trail : e = [event |-> Logout, token |-> t]
      BY <2>4
    <3>2. e.event = Logout /\ e.token = t
      BY <3>1
    <3>3. AllRevoked(sessions[t].login)
      BY <2>1, <3>2 DEF LoggedOut
    <3> QED
      BY <3>3 DEF AllRevoked, SessionsOf
  <2> QED
    BY <2>2, <2>3, <2>4
<1> QED
  BY <1>1, Invariant, PTL

-------------------------------------------------------------------------------
(***************************************************************************)
(* IdentityProvider                                                        *)
(***************************************************************************)

ExchangePhases == {"none", "discovering", "calling", "fetching", "discovered", "called", "fetched",
                   "verifying", "identified", "refused", "unavailable"}
ExchangeRow ==
  [phase : ExchangePhases, asked : Nat, took : 0..LastMoment, answer : SUBSET (Key \cup Algorithms),
   algorithms : SUBSET Algorithms, token : Tokens \cup {NoToken}, retried : BOOLEAN, steady : BOOLEAN]
CachedDiscovery == [algorithms : SUBSET Algorithms, expires : 0..(LastMoment + DiscoveryTTL)]
CachedKeys == [keys : SUBSET Key, expires : 0..(LastMoment + JwksTTL), took : 0..LastMoment]

\* The rows have their columns, and the clock is one of the run's.
ProviderShapes ==
  /\ keys \in (SUBSET Key) \ {{}} /\ lastKept \in [Key -> 0..LastMoment] /\ moment \in 0..LastMoment
  /\ rotations \in 0..MaxRotations
  /\ discoveryCache \in CachedDiscovery
  /\ jwksCache \in CachedKeys
  /\ exchanges \in [TokenExchange -> ExchangeRow]

\* What the cache holds was published no longer before it expires than its lifetime
\* and the request that brought it, and it was filled no later than now.
CacheHonest ==
  /\ jwksCache.expires <= moment + JwksTTL
  /\ \A k \in jwksCache.keys : k \in keys \/ lastKept[k] + JwksTTL + jwksCache.took >= jwksCache.expires

\* What an exchange waits for was asked in the past, and the keys whose body it reads
\* were published when it asked, or later.
ExchangeTimed(e) ==
  /\ e.asked <= moment
  /\ e.phase = "discovered" => e.answer \subseteq Algorithms
  /\ e.phase = "fetched" =>
       /\ e.answer \subseteq Key
       /\ \A k \in e.answer : k \in keys \/ lastKept[k] >= e.asked
ExchangesTimed == \A x \in TokenExchange : ExchangeTimed(exchanges[x])

\* A token that is verified is there, and its key, if it is one of the provider's,
\* is among those it is verified by unless the provider dropped it meanwhile.
ExchangeSteady(e) ==
  /\ e.phase \in {"called", "verifying", "fetching", "fetched", "identified"} => e.token \in Tokens
  /\ e.phase \in {"called", "verifying", "fetching"} /\ e.steady => e.token.key \in keys \cup {Stranger}
  /\ e.phase = "fetched" /\ e.steady => e.token.key \in e.answer \cup {Stranger}
  /\ e.phase \in {"fetching", "fetched"} => HeaderHolds(e)
ExchangesSteady == \A x \in TokenExchange : ExchangeSteady(exchanges[x])

ExchangeConcluded(e) ==
  /\ e.phase = "identified" =>
       /\ e.token.claims /\ e.token.key # Stranger /\ e.token.key \in Key
       /\ e.token.key \in keys \/ lastKept[e.token.key] + JwksTTL + e.took >= e.asked
  /\ (e.phase = "refused" /\ e.token # NoToken /\ e.steady) =>
       \/ ~e.token.claims \/ e.token.key = Stranger
       \/ AlgorithmOf[e.token.key] \notin e.algorithms
ExchangesConcluded == \A x \in TokenExchange : ExchangeConcluded(exchanges[x])

ProviderInv == ProviderShapes /\ CacheHonest /\ ExchangesTimed /\ ExchangesSteady /\ ExchangesConcluded

\* One exchange changes, and nothing outside: what holds of its new row and of the
\* others holds of all.
LEMMA OneExchange ==
  ASSUME ProviderInv, NEW x \in TokenExchange, NEW r \in ExchangeRow,
         exchanges' = [exchanges EXCEPT ![x] = r], Outside,
         ExchangeTimed(r), ExchangeSteady(r), ExchangeConcluded(r)
  PROVE  /\ exchanges' \in [TokenExchange -> ExchangeRow]
         /\ ExchangesTimed' /\ ExchangesSteady' /\ ExchangesConcluded'
<1>1. exchanges \in [TokenExchange -> ExchangeRow]
  BY DEF ProviderInv, ProviderShapes
<1>2. /\ exchanges' \in [TokenExchange -> ExchangeRow]
      /\ \A y \in TokenExchange : exchanges'[y] = IF y = x THEN r ELSE exchanges[y]
  BY <1>1
<1>3. ASSUME NEW y \in TokenExchange
      PROVE  ExchangeTimed(exchanges[y])' /\ ExchangeSteady(exchanges[y])' /\ ExchangeConcluded(exchanges[y])'
  <2>1. ExchangeTimed(exchanges'[y]) /\ ExchangeSteady(exchanges'[y]) /\ ExchangeConcluded(exchanges'[y])
    <3>1. CASE y = x
      BY <1>2, <3>1
    <3>2. CASE y # x
      BY <1>2, <3>2 DEF ProviderInv, ExchangesTimed, ExchangesSteady, ExchangesConcluded
    <3>3. QED  BY <3>1, <3>2
  <2>2. QED  BY <2>1 DEF ExchangeTimed, ExchangeSteady, ExchangeConcluded, Outside, HeaderHolds
<1>4. QED  BY <1>2, <1>3 DEF ExchangesTimed, ExchangesSteady, ExchangesConcluded

\* The new row of an exchange that the invariant holds of, where the caches stay.
LEMMA ExchangeMoves ==
  ASSUME ProviderInv, NEW x \in TokenExchange, NEW r \in ExchangeRow, Becomes(x, r), Outside,
         ExchangeTimed(r), ExchangeSteady(r), ExchangeConcluded(r),
         UNCHANGED <<discoveryCache, jwksCache>>
  PROVE  ProviderInv'
<1>1. exchanges' = [exchanges EXCEPT ![x] = r]
  BY DEF Becomes
<1>2. /\ exchanges' \in [TokenExchange -> ExchangeRow]
      /\ ExchangesTimed' /\ ExchangesSteady' /\ ExchangesConcluded'
  BY <1>1, OneExchange
<1>3. ProviderShapes' /\ CacheHonest'
  BY <1>2 DEF ProviderInv, ProviderShapes, CacheHonest, Outside
<1>4. QED  BY <1>2, <1>3 DEF ProviderInv

\* What the invariant says of one exchange.
LEMMA OfOneExchange ==
  ASSUME ProviderInv, NEW x \in TokenExchange
  PROVE  /\ exchanges[x] \in ExchangeRow
         /\ ExchangeTimed(exchanges[x]) /\ ExchangeSteady(exchanges[x]) /\ ExchangeConcluded(exchanges[x])
         /\ moment \in Nat
BY ProviderConstants DEF ProviderInv, ProviderShapes, ExchangesTimed, ExchangesSteady, ExchangesConcluded

\* What an exchange may become: the phase, what it waits for and by which keys.
LEMMA RowsTyped ==
  ASSUME NEW e \in ExchangeRow
  PROVE  /\ \A phase \in ExchangePhases : [e EXCEPT !.phase = phase] \in ExchangeRow
         /\ \A phase \in ExchangePhases, asked \in Nat :
              [e EXCEPT !.phase = phase, !.asked = asked] \in ExchangeRow
         /\ \A phase \in ExchangePhases, answer \in SUBSET (Key \cup Algorithms), asked \in Nat :
              /\ [e EXCEPT !.phase = phase, !.answer = answer, !.asked = asked] \in ExchangeRow
              /\ [e EXCEPT !.phase = phase, !.answer = answer] \in ExchangeRow
         /\ \A phase \in ExchangePhases, algorithms \in SUBSET Algorithms, asked \in Nat :
              /\ [e EXCEPT !.phase = phase, !.algorithms = algorithms, !.asked = asked] \in ExchangeRow
              /\ [e EXCEPT !.phase = phase, !.algorithms = algorithms, !.asked = asked, !.answer = {}]
                   \in ExchangeRow
         /\ \A phase \in ExchangePhases, token \in Tokens, asked \in Nat :
              [e EXCEPT !.phase = phase, !.token = token, !.asked = asked] \in ExchangeRow
         /\ \A phase \in ExchangePhases, retried \in BOOLEAN :
              [e EXCEPT !.phase = phase, !.retried = retried] \in ExchangeRow
         /\ [e EXCEPT !.answer = {}, !.asked = 0] \in ExchangeRow
         /\ \A phase \in ExchangePhases : [NoExchange EXCEPT !.phase = phase] \in ExchangeRow
         /\ \A phase \in ExchangePhases, token \in Tokens, took \in 0..LastMoment, asked \in Nat :
              [NoExchange EXCEPT !.phase = phase, !.token = token, !.took = took, !.asked = asked] \in ExchangeRow
         /\ [e EXCEPT !.steady = FALSE] \in ExchangeRow
<1>1. NoExchange \in ExchangeRow
  BY ProviderConstants DEF ExchangeRow, NoExchange, ExchangePhases
<1>2. QED  BY <1>1 DEF ExchangeRow

\* The row of an exchange that has read the answer it waited for.
LEMMA ReadRow ==
  ASSUME NEW e \in ExchangeRow
  PROVE  LET read == [e EXCEPT !.answer = {}, !.asked = 0]
         IN  /\ read \in ExchangeRow /\ read.asked = 0 /\ read.token = e.token /\ read.steady = e.steady
             /\ read.algorithms = e.algorithms
BY DEF ExchangeRow

\* A request to the provider that times out or is refused ends its exchange.
LEMMA UnavailableStep ==
  ASSUME ProviderInv, NEW x \in TokenExchange, ProviderUnavailable(x)
  PROVE  ProviderInv'
<1> DEFINE r == [NoExchange EXCEPT !.phase = "unavailable"]
<1>1. r \in ExchangeRow
  BY OfOneExchange, RowsTyped DEF ExchangePhases
<1>2. r.phase = "unavailable" /\ r.asked = 0
  BY DEF NoExchange
<1> HIDE DEF r
<1>3. ExchangeTimed(r) /\ ExchangeSteady(r) /\ ExchangeConcluded(r)
  BY <1>2, OfOneExchange DEF ExchangeTimed, ExchangeSteady, ExchangeConcluded
<1>4. Becomes(x, r) /\ Outside /\ UNCHANGED <<discoveryCache, jwksCache>>
  BY DEF ProviderUnavailable, r
<1>5. QED  BY <1>1, <1>3, <1>4, ExchangeMoves

\* The token endpoint refuses the code, and the exchange ends without a token.
LEMMA TokenRefusedStep ==
  ASSUME ProviderInv, NEW x \in TokenExchange, TokenRefused(x)
  PROVE  ProviderInv'
<1> DEFINE r == [NoExchange EXCEPT !.phase = "refused"]
<1>1. r \in ExchangeRow
  BY OfOneExchange, RowsTyped DEF ExchangePhases
<1>2. r.phase = "refused" /\ r.asked = 0 /\ r.token = NoToken
  BY DEF NoExchange
<1> HIDE DEF r
<1>3. ExchangeTimed(r) /\ ExchangeSteady(r) /\ ExchangeConcluded(r)
  BY <1>2, OfOneExchange DEF ExchangeTimed, ExchangeSteady, ExchangeConcluded
<1>4. Becomes(x, r) /\ Outside /\ UNCHANGED <<discoveryCache, jwksCache>>
  BY DEF TokenRefused, r
<1>5. QED  BY <1>1, <1>3, <1>4, ExchangeMoves

\* exchangeAuthorizationCode begins, with the cached discovery document or a
\* request for it.
LEMMA StartsStep ==
  ASSUME ProviderInv, NEW x \in TokenExchange, ExchangeStarts(x)
  PROVE  ProviderInv'
<1>1. /\ exchanges[x] \in ExchangeRow /\ moment \in Nat
      /\ discoveryCache.algorithms \in SUBSET Algorithms
  BY OfOneExchange DEF ProviderInv, ProviderShapes, CachedDiscovery
<1>2. CASE DiscoveryFresh
  <2> DEFINE r == [exchanges[x] EXCEPT !.phase = "calling", !.algorithms = discoveryCache.algorithms,
                                       !.asked = moment]
  <2>1. r \in ExchangeRow
    BY <1>1, RowsTyped DEF ExchangePhases
  <2>2. r.phase = "calling" /\ r.asked = moment
    BY <1>1 DEF ExchangeRow
  <2>3. Becomes(x, r) /\ Outside /\ UNCHANGED <<discoveryCache, jwksCache>>
    BY <1>2 DEF ExchangeStarts
  <2> HIDE DEF r
  <2>4. ExchangeTimed(r) /\ ExchangeSteady(r) /\ ExchangeConcluded(r)
    BY <1>1, <2>2, ProviderConstants DEF ExchangeTimed, ExchangeSteady, ExchangeConcluded
  <2>5. QED  BY <2>1, <2>3, <2>4, ExchangeMoves
<1>3. CASE ~DiscoveryFresh
  <2> DEFINE r == [exchanges[x] EXCEPT !.phase = "discovering", !.asked = moment]
  <2>1. r \in ExchangeRow
    BY <1>1, RowsTyped DEF ExchangePhases
  <2>2. r.phase = "discovering" /\ r.asked = moment
    BY <1>1 DEF ExchangeRow
  <2>3. Becomes(x, r) /\ Outside /\ UNCHANGED <<discoveryCache, jwksCache>>
    BY <1>3 DEF ExchangeStarts, AsksProvider
  <2> HIDE DEF r
  <2>4. ExchangeTimed(r) /\ ExchangeSteady(r) /\ ExchangeConcluded(r)
    BY <1>1, <2>2, ProviderConstants DEF ExchangeTimed, ExchangeSteady, ExchangeConcluded
  <2>5. QED  BY <2>1, <2>3, <2>4, ExchangeMoves
<1>4. QED  BY <1>2, <1>3

\* The headers of an answer come: it is what the provider has now, and a token is
\* signed by a key that is published now, or a stranger's.
LEMMA HeadersComeStep ==
  ASSUME ProviderInv, NEW x \in TokenExchange, HeadersCome(x)
  PROVE  ProviderInv'
<1> DEFINE e == exchanges[x]
<1>1. e \in ExchangeRow /\ moment \in Nat /\ ExchangeTimed(e) /\ ExchangeSteady(e)
  BY OfOneExchange
<1>2. Outside /\ UNCHANGED <<discoveryCache, jwksCache>> /\ keys \in SUBSET Key
  BY DEF HeadersCome, ProviderInv, ProviderShapes
<1>3. CASE e.phase = "discovering"
  <2> DEFINE a == {AlgorithmOf[k] : k \in keys}
             r == [e EXCEPT !.phase = "discovered", !.answer = a, !.asked = 0]
  <2>1. a \in SUBSET Algorithms
    BY <1>2 DEF Algorithms
  <2>2. r \in ExchangeRow
    BY <1>1, <2>1, RowsTyped DEF ExchangePhases
  <2>3. r.phase = "discovered" /\ r.asked = 0 /\ r.answer = a
    BY <1>1 DEF ExchangeRow
  <2>4. Becomes(x, r)
    BY <1>3 DEF HeadersCome, Is
  <2> HIDE DEF r, a, e
  <2>5. ExchangeTimed(r) /\ ExchangeSteady(r) /\ ExchangeConcluded(r)
    BY <1>1, <2>1, <2>3 DEF ExchangeTimed, ExchangeSteady, ExchangeConcluded
  <2>6. QED  BY <1>2, <2>2, <2>4, <2>5, ExchangeMoves
<1>4. CASE e.phase = "calling"
  <2>1. PICK token \in Tokens : /\ token.key \in keys \cup {Stranger}
                                /\ Becomes(x, [e EXCEPT !.phase = "called", !.token = token, !.asked = 0])
    BY <1>4 DEF HeadersCome, Is
  <2> DEFINE r == [e EXCEPT !.phase = "called", !.token = token, !.asked = 0]
  <2>2. r \in ExchangeRow
    BY <1>1, RowsTyped DEF ExchangePhases
  <2>3. r.phase = "called" /\ r.asked = 0 /\ r.token = token
    BY <1>1 DEF ExchangeRow
  <2>4. Becomes(x, r)
    BY <2>1
  <2> HIDE DEF r, e
  <2>5. ExchangeTimed(r) /\ ExchangeSteady(r) /\ ExchangeConcluded(r)
    BY <1>1, <2>1, <2>3 DEF ExchangeTimed, ExchangeSteady, ExchangeConcluded
  <2>6. QED  BY <1>2, <2>2, <2>4, <2>5, ExchangeMoves
<1>5. CASE e.phase = "fetching"
  <2> DEFINE r == [e EXCEPT !.phase = "fetched", !.answer = keys]
  <2>1. r \in ExchangeRow
    BY <1>1, <1>2, RowsTyped DEF ExchangePhases
  <2>2. /\ r.phase = "fetched" /\ r.asked = e.asked /\ r.answer = keys /\ r.token = e.token
        /\ r.steady = e.steady /\ r.algorithms = e.algorithms
    BY <1>1 DEF ExchangeRow
  <2>3. Becomes(x, r)
    BY <1>5 DEF HeadersCome, Is
  <2> HIDE DEF r
  <2>4. ExchangeTimed(r)
    BY <1>1, <1>2, <2>2 DEF ExchangeTimed
  <2>5. ExchangeSteady(r) /\ ExchangeConcluded(r)
    BY <1>1, <1>5, <2>2 DEF ExchangeSteady, ExchangeConcluded, HeaderHolds
  <2>6. QED  BY <1>2, <2>1, <2>3, <2>4, <2>5, ExchangeMoves
<1>6. QED  BY <1>3, <1>4, <1>5 DEF HeadersCome, Is

\* The discovery document arrives and is cached, its algorithms those that are allowed.
LEMMA DiscoversStep ==
  ASSUME ProviderInv, NEW x \in TokenExchange, Discovers(x)
  PROVE  ProviderInv'
<1> DEFINE usable == exchanges[x].answer \cap AllowedAlgorithms
           r == [exchanges[x] EXCEPT !.phase = "calling", !.algorithms = usable, !.asked = moment, !.answer = {}]
<1>1. /\ exchanges[x] \in ExchangeRow /\ moment \in Nat
      /\ usable \in SUBSET Algorithms
  BY OfOneExchange DEF Discovers, Is, ExchangeTimed
<1>2. r \in ExchangeRow
  BY <1>1, RowsTyped DEF ExchangePhases
<1>3. r.phase = "calling" /\ r.asked = moment
  BY <1>1 DEF ExchangeRow
<1>4. /\ exchanges' = [exchanges EXCEPT ![x] = r] /\ Outside /\ UNCHANGED jwksCache
      /\ discoveryCache' = [algorithms |-> usable, expires |-> moment + DiscoveryTTL]
  BY DEF Discovers, Becomes
<1> HIDE DEF r
<1>5. ExchangeTimed(r) /\ ExchangeSteady(r) /\ ExchangeConcluded(r)
  BY <1>1, <1>3, ProviderConstants DEF ExchangeTimed, ExchangeSteady, ExchangeConcluded
<1>6. /\ exchanges' \in [TokenExchange -> ExchangeRow]
      /\ ExchangesTimed' /\ ExchangesSteady' /\ ExchangesConcluded'
  BY <1>2, <1>4, <1>5, OneExchange
<1>7. discoveryCache' \in CachedDiscovery
  BY <1>1, <1>4, ProviderConstants DEF CachedDiscovery, ProviderInv, ProviderShapes
<1>8. ProviderShapes' /\ CacheHonest'
  BY <1>4, <1>6, <1>7 DEF ProviderInv, ProviderShapes, CacheHonest, Outside
<1>9. QED  BY <1>6, <1>8 DEF ProviderInv

\* The body of the token endpoint's answer is read.
LEMMA ReceivesStep ==
  ASSUME ProviderInv, NEW x \in TokenExchange, Receives(x)
  PROVE  ProviderInv'
<1> DEFINE e == exchanges[x]
           r == [e EXCEPT !.phase = "verifying"]
<1>1. e \in ExchangeRow /\ ExchangeTimed(e) /\ ExchangeSteady(e)
  BY OfOneExchange
<1>2. r \in ExchangeRow
  BY <1>1, RowsTyped DEF ExchangePhases
<1>3. r.phase = "verifying" /\ r.asked = e.asked /\ r.token = e.token /\ r.steady = e.steady
  BY <1>1 DEF ExchangeRow
<1>4. Becomes(x, r) /\ Outside /\ UNCHANGED <<discoveryCache, jwksCache>> /\ e.phase = "called"
  BY DEF Receives, Is
<1> HIDE DEF r, e
<1>5. ExchangeTimed(r) /\ ExchangeSteady(r) /\ ExchangeConcluded(r)
  BY <1>1, <1>3, <1>4 DEF ExchangeTimed, ExchangeSteady, ExchangeConcluded
<1>6. QED  BY <1>2, <1>4, <1>5, ExchangeMoves

\* A token whose algorithm was not discovered is refused before a key is looked for.
LEMMA RefusesHeaderStep ==
  ASSUME ProviderInv, NEW x \in TokenExchange, RefusesHeader(x)
  PROVE  ProviderInv'
<1> DEFINE e == exchanges[x]
           r == [e EXCEPT !.phase = "refused", !.retried = FALSE]
<1>1. e \in ExchangeRow /\ ExchangeTimed(e)
  BY OfOneExchange
<1>2. r \in ExchangeRow
  BY <1>1, RowsTyped DEF ExchangePhases
<1>3. r.phase = "refused" /\ r.asked = e.asked /\ r.token = e.token /\ r.algorithms = e.algorithms
  BY <1>1 DEF ExchangeRow
<1>4. Becomes(x, r) /\ Outside /\ UNCHANGED <<discoveryCache, jwksCache>> /\ ~HeaderHolds(e)
  BY DEF RefusesHeader
<1> HIDE DEF r, e
<1>5. ExchangeTimed(r) /\ ExchangeSteady(r) /\ ExchangeConcluded(r)
  BY <1>1, <1>3, <1>4 DEF ExchangeTimed, ExchangeSteady, ExchangeConcluded, HeaderHolds
<1>6. QED  BY <1>2, <1>4, <1>5, ExchangeMoves

\* The key set is asked for, for a token whose header is in order.
LEMMA AsksKeysStep ==
  ASSUME ProviderInv, NEW x \in TokenExchange, AsksKeys(x)
  PROVE  ProviderInv'
<1> DEFINE e == exchanges[x]
           r == [e EXCEPT !.phase = "fetching", !.asked = moment]
<1>1. /\ e \in ExchangeRow /\ moment \in Nat /\ ExchangeSteady(e)
  BY OfOneExchange
<1>2. r \in ExchangeRow
  BY <1>1, RowsTyped DEF ExchangePhases
<1>3. /\ r.phase = "fetching" /\ r.asked = moment /\ r.token = e.token
      /\ r.algorithms = e.algorithms /\ r.steady = e.steady
  BY <1>1 DEF ExchangeRow
<1>4. /\ Becomes(x, r) /\ Outside /\ UNCHANGED <<discoveryCache, jwksCache>>
      /\ HeaderHolds(e) /\ e.phase = "verifying"
  BY DEF AsksKeys, AsksProvider, Is
<1> HIDE DEF r, e
<1>5. ExchangeTimed(r)
  BY <1>1, <1>3, ProviderConstants DEF ExchangeTimed
<1>6. ExchangeSteady(r) /\ ExchangeConcluded(r)
  BY <1>1, <1>3, <1>4 DEF ExchangeSteady, ExchangeConcluded, HeaderHolds
<1>7. QED  BY <1>2, <1>4, <1>5, <1>6, ExchangeMoves

\* The row of an exchange that judges its token by some keys, whether they came from the
\* cache or from the provider: each was published at most a lifetime and a request ago,
\* and the cached ones do not refuse a key that they lack.
LEMMA Judged ==
  ASSUME ProviderInv, NEW x \in TokenExchange, NEW known \in SUBSET Key, NEW took \in 0..LastMoment,
         Concludes(x, known, took),
         exchanges[x].phase \in {"verifying", "fetched"}, HeaderHolds(exchanges[x]),
         \A k \in known : k \in keys \/ lastKept[k] + JwksTTL + took >= moment,
         exchanges[x].phase = "verifying" => ~exchanges[x].retried,
         exchanges[x].phase = "fetched" => known = exchanges[x].answer
  PROVE  \E r \in ExchangeRow :
           /\ Becomes(x, r)
           /\ ExchangeTimed(r) /\ ExchangeSteady(r) /\ ExchangeConcluded(r)
<1> DEFINE e == exchanges[x]
           read == [e EXCEPT !.answer = {}, !.asked = 0]
           verdict == Verdict(e, known)
<1>1. e \in ExchangeRow /\ moment \in Nat /\ ExchangeTimed(e) /\ ExchangeSteady(e)
  BY OfOneExchange
<1>2. e.token \in Tokens /\ e.token.key \in Key \cup {Stranger}
  BY <1>1, ProviderConstants DEF ExchangeSteady
<1>3. e.phase \in {"verifying", "fetched"} /\ HeaderHolds(e)
  OBVIOUS
<1>7. /\ read \in ExchangeRow /\ read.asked = 0 /\ read.token = e.token /\ read.steady = e.steady
      /\ read.algorithms = e.algorithms
  BY <1>1, ReadRow
<1>8. verdict \in {"retry", "identified", "refused"}
  BY DEF Verdict
<1>9. Becomes(x, CASE verdict = "retry" -> [read EXCEPT !.phase = "verifying", !.retried = TRUE]
                   [] verdict = "identified" ->
                        [NoExchange EXCEPT !.phase = "identified", !.token = read.token, !.took = took,
                                           !.asked = moment]
                   [] verdict = "refused" -> [read EXCEPT !.phase = "refused", !.retried = FALSE])
  BY DEF Concludes
<1> HIDE DEF read
<1>4. CASE verdict = "retry"
  <2> DEFINE r == [read EXCEPT !.phase = "verifying", !.retried = TRUE]
  <2>1. r \in ExchangeRow
    BY <1>7, RowsTyped DEF ExchangePhases
  <2>2. r.phase = "verifying" /\ r.asked = 0 /\ r.token = e.token /\ r.steady = e.steady
    BY <1>7 DEF ExchangeRow
  <2>3. Becomes(x, r)
    BY <1>4, <1>9
  <2>4. e.token.key \notin known
    BY <1>4 DEF Verdict
  <2>5. e.phase = "fetched" => known = e.answer
    OBVIOUS
  <2> HIDE DEF r, e
  <2>6. ExchangeTimed(r)
    BY <1>1, <2>2 DEF ExchangeTimed
  <2>7. ExchangeSteady(r) /\ ExchangeConcluded(r)
    BY <1>1, <1>2, <1>3, <2>2, <2>4, <2>5 DEF ExchangeSteady, ExchangeConcluded
  <2>8. QED  BY <2>1, <2>3, <2>6, <2>7
<1>5. CASE verdict = "identified"
  <2> DEFINE r == [NoExchange EXCEPT !.phase = "identified", !.token = read.token, !.took = took, !.asked = moment]
  <2>1. r \in ExchangeRow
    BY <1>1, <1>2, <1>7, RowsTyped DEF ExchangePhases
  <2>2. r.phase = "identified" /\ r.asked = moment /\ r.token = e.token /\ r.took = took
    BY <1>7 DEF NoExchange
  <2>3. Becomes(x, r)
    BY <1>5, <1>9
  <2>4. e.token.key \in known /\ e.token.claims
    BY <1>5 DEF Verdict
  <2>5. e.token.key \in keys \/ lastKept[e.token.key] + JwksTTL + took >= moment
    BY <2>4
  <2> HIDE DEF r, e
  <2>6. ExchangeTimed(r)
    BY <1>1, <2>2 DEF ExchangeTimed
  <2>7. ExchangeSteady(r) /\ ExchangeConcluded(r)
    BY <1>2, <2>2, <2>4, <2>5, ProviderConstants DEF ExchangeSteady, ExchangeConcluded
  <2>8. QED  BY <2>1, <2>3, <2>6, <2>7
<1>6. CASE verdict = "refused"
  <2> DEFINE r == [read EXCEPT !.phase = "refused", !.retried = FALSE]
  <2>1. r \in ExchangeRow
    BY <1>7, RowsTyped DEF ExchangePhases
  <2>2. r.phase = "refused" /\ r.asked = 0 /\ r.token = e.token /\ r.steady = e.steady
    BY <1>7 DEF ExchangeRow
  <2>3. Becomes(x, r)
    BY <1>6, <1>9
  <2>4. \/ ~e.token.claims
        \/ e.retried /\ e.token.key \notin known
    BY <1>6 DEF Verdict, Refreshes
  <2>5. /\ e.phase = "verifying" => ~e.retried
        /\ e.phase = "fetched" => known = e.answer
    OBVIOUS
  <2> HIDE DEF r, e
  <2>6. ExchangeTimed(r)
    BY <1>1, <2>2 DEF ExchangeTimed
  <2>7. ExchangeSteady(r) /\ ExchangeConcluded(r)
    BY <1>1, <1>3, <2>2, <2>4, <2>5 DEF ExchangeSteady, ExchangeConcluded
  <2>8. QED  BY <2>1, <2>3, <2>6, <2>7
<1>10. QED  BY <1>4, <1>5, <1>6, <1>8

\* A token is verified with the cached keys, which are not older than their lifetime.
LEMMA VerifiesFromCacheStep ==
  ASSUME ProviderInv, NEW x \in TokenExchange, VerifiesFromCache(x)
  PROVE  ProviderInv'
<1>1. /\ jwksCache.keys \in SUBSET Key /\ jwksCache.expires \in Nat /\ moment \in Nat
      /\ jwksCache.took \in 0..LastMoment /\ jwksCache.took \in Nat
  BY ProviderConstants DEF ProviderInv, ProviderShapes, CachedKeys
<1>2. \A k \in jwksCache.keys : lastKept[k] \in Nat
  BY <1>1, ProviderConstants DEF ProviderInv, ProviderShapes
<1>3. \A k \in jwksCache.keys : k \in keys \/ lastKept[k] + JwksTTL + jwksCache.took >= moment
  BY <1>1, <1>2, ProviderConstants DEF VerifiesFromCache, JwksFresh, ProviderInv, CacheHonest
<1>4. /\ Concludes(x, jwksCache.keys, jwksCache.took) /\ Outside /\ UNCHANGED <<discoveryCache, jwksCache>>
      /\ exchanges[x].phase = "verifying" /\ HeaderHolds(exchanges[x]) /\ ~exchanges[x].retried
  BY DEF VerifiesFromCache, Is
<1>5. PICK r \in ExchangeRow :
        /\ Becomes(x, r)
        /\ ExchangeTimed(r) /\ ExchangeSteady(r) /\ ExchangeConcluded(r)
  BY <1>1, <1>3, <1>4, Judged
<1>6. QED  BY <1>4, <1>5, ExchangeMoves

\* The key set arrives, is cached, and verifies the token that waited for it.
LEMMA VerifiesFetchedStep ==
  ASSUME ProviderInv, NEW x \in TokenExchange, VerifiesFetched(x)
  PROVE  ProviderInv'
<1> DEFINE e == exchanges[x]
           known == e.answer
           took == moment - e.asked
<1>1. /\ moment \in 0..LastMoment /\ moment \in Nat /\ ExchangeTimed(e) /\ ExchangeSteady(e) /\ e \in ExchangeRow
      /\ lastKept \in [Key -> 0..LastMoment]
  BY OfOneExchange DEF ProviderInv, ProviderShapes
<1>2. /\ e.phase = "fetched" /\ Concludes(x, known, took) /\ Outside /\ UNCHANGED discoveryCache
      /\ jwksCache' = [keys |-> known, expires |-> moment + JwksTTL, took |-> took]
  BY DEF VerifiesFetched, Is
<1>3. known \in SUBSET Key /\ e.asked \in Nat /\ HeaderHolds(e) /\ e.asked <= moment
  BY <1>1, <1>2 DEF ExchangeTimed, ExchangeSteady, ExchangeRow
<1>4. took \in 0..LastMoment /\ took \in Nat /\ e.asked + took = moment
  BY <1>1, <1>3, ProviderConstants
<1>5. \A k \in known : k \in keys \/ lastKept[k] + JwksTTL + took >= moment + JwksTTL
  <2>1. \A k \in known : (k \in keys \/ lastKept[k] >= e.asked) /\ lastKept[k] \in Nat
    BY <1>1, <1>2, <1>3, ProviderConstants DEF ExchangeTimed
  <2> HIDE DEF took, known
  <2>2. QED  BY <1>1, <1>3, <1>4, <2>1, ProviderConstants
<1>6. \A k \in known : k \in keys \/ lastKept[k] + JwksTTL + took >= moment
  <2>1. \A k \in known : lastKept[k] \in Nat
    BY <1>1, <1>3, ProviderConstants
  <2> HIDE DEF took, known
  <2>2. QED  BY <1>1, <1>4, <1>5, <2>1, ProviderConstants
<1>7. PICK r \in ExchangeRow :
        /\ Becomes(x, r)
        /\ ExchangeTimed(r) /\ ExchangeSteady(r) /\ ExchangeConcluded(r)
  BY <1>2, <1>3, <1>4, <1>6, Judged
<1>8. /\ exchanges' \in [TokenExchange -> ExchangeRow]
      /\ ExchangesTimed' /\ ExchangesSteady' /\ ExchangesConcluded'
  BY <1>2, <1>7, OneExchange DEF Becomes
<1>9. jwksCache' \in CachedKeys
  BY <1>1, <1>2, <1>3, <1>4, ProviderConstants DEF CachedKeys
<1>10. CacheHonest'
  BY <1>1, <1>2, <1>5, ProviderConstants DEF CacheHonest, Outside
<1>11. ProviderShapes'
  BY <1>2, <1>8, <1>9 DEF ProviderInv, ProviderShapes, Outside
<1>12. QED  BY <1>8, <1>10, <1>11 DEF ProviderInv

\* A key that was published at a moment, or later, still was after a rotation now.
LEMMA StillKept ==
  ASSUME ProviderInv, NEW new \in SUBSET Key, Rotates(new), NEW k \in Key, NEW since \in Nat, NEW n \in Nat,
         since <= moment + n,
         k \in keys \/ lastKept[k] + n >= since
  PROVE  k \in keys' \/ lastKept'[k] + n >= since
<1>1. lastKept'[k] = IF k \in keys THEN moment ELSE lastKept[k]
  BY DEF Rotates
<1>2. moment \in Nat
  BY OfOneExchange, ProviderConstants DEF ProviderInv, ProviderShapes
<1>3. QED  BY <1>1, <1>2

\* The provider changes its keys: those it drops were last published now.
LEMMA RotatesStep ==
  ASSUME ProviderInv, NEW new \in (SUBSET Key) \ {{}}, Rotates(new)
  PROVE  ProviderInv'
<1>1. /\ keys' = new /\ UNCHANGED <<moment, discoveryCache, jwksCache>>
      /\ rotations < MaxRotations /\ rotations' = rotations + 1
      /\ lastKept' = [k \in Key |-> IF k \in keys THEN moment ELSE lastKept[k]]
  BY DEF Rotates
<1>2. /\ keys \in SUBSET Key /\ lastKept \in [Key -> 0..LastMoment] /\ moment \in 0..LastMoment /\ moment \in Nat
      /\ rotations \in 0..MaxRotations
      /\ jwksCache.keys \subseteq Key /\ jwksCache.expires \in Nat /\ jwksCache.expires <= moment + JwksTTL
      /\ jwksCache.took \in Nat
      /\ exchanges \in [TokenExchange -> ExchangeRow]
  BY ProviderConstants DEF ProviderInv, ProviderShapes, CacheHonest, CachedKeys
<1>3. CacheHonest'
  <2>1. JwksTTL + jwksCache.took \in Nat /\ jwksCache.expires <= moment + (JwksTTL + jwksCache.took)
    BY <1>2, ProviderConstants
  <2>2. \A k \in jwksCache.keys : lastKept[k] \in Nat /\ lastKept'[k] \in Nat
    BY <1>1, <1>2, ProviderConstants
  <2>3. \A k \in jwksCache.keys : k \in keys \/ lastKept[k] + (JwksTTL + jwksCache.took) >= jwksCache.expires
    BY <1>2, <2>2, ProviderConstants DEF ProviderInv, CacheHonest
  <2>4. \A k \in jwksCache.keys : k \in keys' \/ lastKept'[k] + (JwksTTL + jwksCache.took) >= jwksCache.expires
    BY <1>2, <2>1, <2>3, StillKept
  <2>5. \A k \in jwksCache.keys : k \in keys' \/ lastKept'[k] + JwksTTL + jwksCache.took >= jwksCache.expires
    BY <1>2, <2>2, <2>4, ProviderConstants
  <2>6. QED  BY <1>1, <1>2, <2>5 DEF CacheHonest
<1>4. ASSUME NEW x \in TokenExchange
      PROVE  /\ exchanges'[x] \in ExchangeRow
             /\ ExchangeTimed(exchanges[x])' /\ ExchangeSteady(exchanges[x])' /\ ExchangeConcluded(exchanges[x])'
  <2> DEFINE e == exchanges[x]
             f == exchanges'[x]
             drops == e.token # NoToken /\ e.token.key \notin new /\ e.phase \in {"called", "verifying", "fetching"}
  <2>1. e \in ExchangeRow /\ ExchangeTimed(e) /\ ExchangeSteady(e) /\ ExchangeConcluded(e)
    BY OfOneExchange
  <2>2. f = IF drops THEN [e EXCEPT !.steady = FALSE] ELSE e
    BY DEF Rotates
  <2>3. f \in ExchangeRow
    BY <2>1, <2>2, RowsTyped
  <2>4. /\ f.phase = e.phase /\ f.asked = e.asked /\ f.answer = e.answer /\ f.token = e.token
        /\ f.algorithms = e.algorithms /\ f.took = e.took
        /\ f.steady => e.steady
        /\ f.steady /\ f.phase \in {"called", "verifying", "fetching"} /\ f.token # NoToken => f.token.key \in new
    BY <2>1, <2>2 DEF ExchangeRow
  <2>5. e.asked \in Nat /\ e.took \in Nat
    BY <2>1, ProviderConstants DEF ExchangeRow
  <2> HIDE DEF e, f, drops
  <2>6. /\ f.asked <= moment
        /\ f.phase = "discovered" => f.answer \subseteq Algorithms
    BY <2>1, <2>4 DEF ExchangeTimed
  <2>7. ASSUME f.phase = "fetched"
        PROVE  f.answer \subseteq Key /\ \A k \in f.answer : k \in keys' \/ lastKept'[k] >= f.asked
    <3>1. e.answer \subseteq Key /\ \A k \in e.answer : k \in keys \/ lastKept[k] >= e.asked
      BY <2>1, <2>4, <2>7 DEF ExchangeTimed
    <3>2. \A k \in e.answer : lastKept[k] \in Nat /\ lastKept'[k] \in Nat
      BY <1>1, <1>2, <3>1, ProviderConstants
    <3>3. \A k \in e.answer : k \in keys \/ lastKept[k] + 0 >= e.asked
      BY <3>1, <3>2
    <3>4. e.asked <= moment + 0
      BY <1>2, <2>4, <2>6
    <3>5. \A k \in e.answer : k \in keys' \/ lastKept'[k] + 0 >= e.asked
      BY <2>5, <3>1, <3>3, <3>4, StillKept
    <3>6. QED  BY <2>4, <3>1, <3>2, <3>5
  <2>8. ExchangeTimed(exchanges[x])'
    BY <1>1, <2>6, <2>7 DEF ExchangeTimed, f
  <2>9. ExchangeSteady(exchanges[x])'
    <3>1. HeaderHolds(e) => HeaderHolds(f)
      BY <2>4 DEF HeaderHolds
    <3>2. /\ f.phase \in {"called", "verifying", "fetching", "fetched", "identified"} => f.token \in Tokens
          /\ f.phase = "fetched" /\ f.steady => f.token.key \in f.answer \cup {Stranger}
          /\ f.phase \in {"fetching", "fetched"} => HeaderHolds(f)
      BY <2>1, <2>4, <3>1 DEF ExchangeSteady
    <3>3. f.phase \in {"called", "verifying", "fetching"} /\ f.steady => f.token.key \in keys' \cup {Stranger}
      BY <1>1, <2>4, <3>2, ProviderConstants
    <3>4. QED  BY <3>2, <3>3 DEF ExchangeSteady, f, HeaderHolds
  <2>10. ExchangeConcluded(exchanges[x])'
    <3>1. ASSUME f.phase = "identified"
          PROVE  /\ f.token.claims /\ f.token.key # Stranger /\ f.token.key \in Key
                 /\ f.token.key \in keys' \/ lastKept'[f.token.key] + JwksTTL + f.took >= f.asked
      <4>1. /\ e.token.claims /\ e.token.key # Stranger /\ e.token.key \in Key
            /\ e.token.key \in keys \/ lastKept[e.token.key] + JwksTTL + e.took >= e.asked
        BY <2>1, <2>4, <3>1 DEF ExchangeConcluded
      <4>2. lastKept[e.token.key] \in Nat /\ lastKept'[e.token.key] \in Nat
        BY <1>1, <1>2, <4>1, ProviderConstants
      <4>3. e.token.key \in keys \/ lastKept[e.token.key] + (JwksTTL + e.took) >= e.asked
        BY <2>5, <4>1, <4>2, ProviderConstants
      <4>4. JwksTTL + e.took \in Nat /\ e.asked <= moment + (JwksTTL + e.took)
        BY <1>2, <2>4, <2>5, <2>6, ProviderConstants
      <4>5. e.token.key \in keys' \/ lastKept'[e.token.key] + (JwksTTL + e.took) >= e.asked
        BY <2>5, <4>1, <4>3, <4>4, StillKept
      <4>6. QED  BY <2>4, <2>5, <4>1, <4>2, <4>5, ProviderConstants
    <3>2. (f.phase = "refused" /\ f.token # NoToken /\ f.steady) =>
            \/ ~f.token.claims \/ f.token.key = Stranger
            \/ AlgorithmOf[f.token.key] \notin f.algorithms
      BY <2>1, <2>4 DEF ExchangeConcluded
    <3>3. QED  BY <3>1, <3>2 DEF ExchangeConcluded, f
  <2>11. QED  BY <2>3, <2>8, <2>9, <2>10 DEF f
<1>5. ExchangesTimed' /\ ExchangesSteady' /\ ExchangesConcluded'
  BY <1>4 DEF ExchangesTimed, ExchangesSteady, ExchangesConcluded
<1>6. exchanges' \in [TokenExchange -> ExchangeRow]
  <2>1. exchanges' = [x \in TokenExchange |-> exchanges'[x]]
    BY DEF Rotates
  <2>2. QED  BY <1>4, <2>1
<1>7. keys' \in (SUBSET Key) \ {{}} /\ lastKept' \in [Key -> 0..LastMoment] /\ rotations' \in 0..MaxRotations
  BY <1>1, <1>2, ProviderConstants
<1>8. ProviderShapes'
  BY <1>1, <1>6, <1>7 DEF ProviderInv, ProviderShapes
<1>9. QED  BY <1>3, <1>5, <1>8 DEF ProviderInv

\* Time passes, however long a body is awaited.
LEMMA MomentStep ==
  ASSUME ProviderInv, MomentPasses
  PROVE  ProviderInv'
<1>1. /\ UNCHANGED <<keys, rotations, lastKept, discoveryCache, jwksCache, exchanges>>
      /\ moment' = moment + 1 /\ moment < LastMoment
      /\ moment \in Nat /\ moment \in 0..LastMoment
      /\ jwksCache.expires \in Nat
  BY OfOneExchange, ProviderConstants DEF MomentPasses, ProviderInv, ProviderShapes, CachedKeys
<1>2. ProviderShapes' /\ CacheHonest'
  BY <1>1, ProviderConstants DEF ProviderInv, ProviderShapes, CacheHonest
<1>3. ASSUME NEW x \in TokenExchange
      PROVE  ExchangeTimed(exchanges[x])' /\ ExchangeSteady(exchanges[x])' /\ ExchangeConcluded(exchanges[x])'
  <2> DEFINE e == exchanges[x]
  <2>1. e \in ExchangeRow /\ ExchangeTimed(e) /\ ExchangeSteady(e) /\ ExchangeConcluded(e) /\ e.asked \in Nat
    BY OfOneExchange DEF ExchangeRow
  <2> HIDE DEF e
  <2>3. ExchangeTimed(e)'
    BY <1>1, <2>1 DEF ExchangeTimed, e
  <2>4. ExchangeSteady(e)' /\ ExchangeConcluded(e)'
    BY <1>1, <2>1 DEF ExchangeSteady, ExchangeConcluded, HeaderHolds, e
  <2>5. QED  BY <2>3, <2>4 DEF e
<1>4. QED  BY <1>2, <1>3 DEF ProviderInv, ExchangesTimed, ExchangesSteady, ExchangesConcluded

\* Nothing is cached and no exchange has begun.
LEMMA ProviderInitially == ProviderInit => ProviderInv
<1> SUFFICES ASSUME ProviderInit PROVE ProviderInv
  OBVIOUS
<1>1. NoExchange \in ExchangeRow /\ NoExchange.phase = "none" /\ NoExchange.asked = 0
  BY ProviderConstants DEF NoExchange, ExchangeRow, ExchangePhases
<1>2. ProviderShapes
  BY <1>1, ProviderConstants DEF ProviderInit, ProviderShapes, CachedDiscovery, CachedKeys
<1>3. CacheHonest
  BY ProviderConstants DEF ProviderInit, CacheHonest
<1>4. \A x \in TokenExchange : exchanges[x] = NoExchange
  BY DEF ProviderInit
<1>5. ExchangeTimed(NoExchange) /\ ExchangeSteady(NoExchange) /\ ExchangeConcluded(NoExchange)
  BY <1>1 DEF ProviderInit, ExchangeTimed, ExchangeSteady, ExchangeConcluded
<1>6. QED  BY <1>2, <1>3, <1>4, <1>5 DEF ProviderInv, ExchangesTimed, ExchangesSteady, ExchangesConcluded

\* Every step of the provider, of an exchange or of the clock keeps the invariant.
LEMMA ProviderStep == ProviderInv /\ [ProviderNext]_providerVars => ProviderInv'
<1> SUFFICES ASSUME ProviderInv, [ProviderNext]_providerVars PROVE ProviderInv'
  OBVIOUS
<1>1. ASSUME NEW x \in TokenExchange,
             \/ ExchangeStarts(x) \/ Discovers(x) \/ ProviderUnavailable(x) \/ TokenRefused(x)
             \/ RefusesHeader(x) \/ VerifiesFromCache(x) \/ AsksKeys(x) \/ VerifiesFetched(x)
             \/ HeadersCome(x) \/ Receives(x)
      PROVE  ProviderInv'
  BY <1>1, StartsStep, DiscoversStep, UnavailableStep, TokenRefusedStep, RefusesHeaderStep,
     VerifiesFromCacheStep, AsksKeysStep, VerifiesFetchedStep, HeadersComeStep, ReceivesStep
<1>2. ASSUME NEW new \in (SUBSET Key) \ {{}}, Rotates(new) PROVE ProviderInv'
  BY <1>2, RotatesStep
<1>3. CASE MomentPasses
  BY <1>3, MomentStep
<1>4. CASE UNCHANGED providerVars
  BY <1>4 DEF providerVars, ProviderInv, ProviderShapes, CacheHonest, ExchangesTimed, ExchangesSteady,
              ExchangesConcluded, ExchangeTimed, ExchangeSteady, ExchangeConcluded, HeaderHolds
<1>5. QED  BY <1>1, <1>2, <1>3, <1>4 DEF ProviderNext

\* The invariant holds of every behaviour of the adapter and its provider.
THEOREM ProviderInvariant == ProviderSpec => []ProviderInv
<1>1. ProviderInit => ProviderInv
  BY ProviderInitially
<1>2. ProviderInv /\ [ProviderNext]_providerVars => ProviderInv'
  BY ProviderStep
<1>3. QED  BY <1>1, <1>2, PTL DEF ProviderSpec

\* Keys, caches and exchanges have their types in every behaviour.
THEOREM ProviderTypes == ProviderSpec => []ProviderTypeOK
<1>1. ProviderInv => ProviderTypeOK
  <2> SUFFICES ASSUME ProviderInv  PROVE ProviderTypeOK
    OBVIOUS
  <2>1. ASSUME NEW x \in TokenExchange
        PROVE  /\ exchanges[x].phase \in HeadersAwaited \cup BodyAwaited
                                            \cup {"none", "verifying", "identified", "refused", "unavailable"}
               /\ exchanges[x].took \in 0..LastMoment
               /\ exchanges[x].token \in Tokens \cup {NoToken}
    BY <2>1, OfOneExchange DEF ExchangeRow, ExchangePhases, HeadersAwaited, BodyAwaited
  <2>2. QED
    BY <2>1 DEF ProviderInv, ProviderShapes, ProviderTypeOK, CachedDiscovery, CachedKeys
<1>2. QED  BY <1>1, ProviderInvariant, PTL

\* An identity comes of a token with claims in order, signed by a key that the provider
\* published no longer ago than the key cache lives and the request took that brought
\* the key, its body included, for which nothing sets a limit (#request, readBoundedJson,
\* #loadJwks, #verifyIdToken); and no token in order is refused because a cache lacks
\* its key.
THEOREM ProviderKeys == ProviderSpec => []ProviderKeysHold
<1>1. ProviderInv => ProviderKeysHold
  BY DEF ProviderInv, ExchangesConcluded, ExchangeConcluded, ProviderKeysHold, Is
<1>2. QED  BY <1>1, ProviderInvariant, PTL
===============================================================================
