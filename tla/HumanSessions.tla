----------------------------- MODULE HumanSessions ----------------------------
(***************************************************************************)
(* Sign-in and sessions of people in the browser (src/src/humanSession and *)
(* db/migrations/017_human_session_bff.sql).  A login transaction is begun *)
(* by GET /auth/login, consumed by GET /auth/callback together with the    *)
(* provider's authorization code, and starts a chain of sessions, each     *)
(* token replaced by the next in POST /auth/session and                    *)
(* /auth/session/rotate, until POST /auth/logout or expiry.  Every         *)
(* repository call is a statement of its own: there is no transaction      *)
(* around a handler.                                                       *)
(*                                                                         *)
(* A state, its browser binding, its nonce and the code the provider       *)
(* issues for it are named by the login; a session token, its session and  *)
(* its CSRF token by a number, in order of insertion.  A request may carry *)
(* any token ever sent to the browser: tabs overlap and requests are       *)
(* delayed and sent twice.                                                 *)
(***************************************************************************)
EXTENDS Naturals, FiniteSets

CONSTANTS HumanRequest, Login,
          LoginTTL, SessionTTL, CodeTTL,
          Skew,          \* how far a handler's clock may be from the database's
          MaxToken,      \* bound on the sessions of a behaviour
          LastTick,      \* bound on the clock
          Nobody

ASSUME SessionConstants ==
  /\ MaxToken \in Nat /\ LastTick \in Nat
  /\ LoginTTL \in Nat /\ SessionTTL \in Nat

Token == 1..MaxToken
Bootstrap == "bootstrap"
Rotation == "rotate"
Logout == "logout"
Callback == "callback"

VARIABLES http,      \* the requests that came, and how far their handlers are
          logins,    \* human_login_transactions of the logins begun
          codes,     \* human_authorization_code_claims
          sessions,  \* human_sessions, by token
          trail,     \* audit.events: what happened to a session
          sent,      \* the session tokens that answers carried
          member,    \* the subject, the principal, the tenant and a membership are active
          tick
humanVars == <<http, logins, codes, sessions, trail, sent, member, tick>>

HumanTypeOK ==
  /\ DOMAIN http \subseteq HumanRequest
  /\ \A r \in DOMAIN http :
       /\ http[r].op \in {Bootstrap, Rotation, Logout, Callback}
       /\ http[r].phase \in {"consume", "claim", "exchange", "resolve", "create", "authenticate", "prove",
                             "replace", "revoke", "record", "undo", "ended"}
       /\ http[r].new \in Token \cup {0} /\ http[r].now \in 0..tick
  /\ DOMAIN logins \subseteq Login
  /\ \A l \in DOMAIN logins : logins[l].state \in {"open", "consumed", "deleted"}
  /\ \A c \in codes : c.code \in Login
  /\ DOMAIN sessions \subseteq Token
  /\ \A t \in DOMAIN sessions :
       /\ sessions[t].login \in DOMAIN logins /\ sessions[t].generation \in 1..MaxToken
       /\ sessions[t].next \in Token \cup {0} /\ sessions[t].revoked \in BOOLEAN
  /\ sent \subseteq DOMAIN sessions
  /\ member \in BOOLEAN /\ tick \in 0..LastTick

HumanInit ==
  /\ http = [r \in {} |-> Nobody] /\ logins = [l \in {} |-> Nobody] /\ sessions = [t \in {} |-> Nobody]
  /\ codes = {} /\ trail = {} /\ sent = {}
  /\ member = TRUE /\ tick = 0

With(f, x, v) == [y \in DOMAIN f \cup {x} |-> IF y = x THEN v ELSE f[y]]
At(r, phase) == r \in DOMAIN http /\ http[r].phase = phase
MovesTo(r, phase) == http' = [http EXCEPT ![r].phase = phase]
Rejects(r) == MovesTo(r, "ended")
(* requested_now BETWEEN statement_timestamp() - 5 min AND + 5 min *)
Current(r) == tick - http[r].now <= Skew
Fresh(t, now) == t \in DOMAIN sessions /\ ~sessions[t].revoked /\ sessions[t].until > now
NewToken == Cardinality(DOMAIN sessions) + 1
Inserted(t, l, now, generation) ==
  [login |-> l, issued |-> now, until |-> now + SessionTTL, generation |-> generation,
   revoked |-> FALSE, next |-> 0]

-------------------------------------------------------------------------------
(* GET /auth/login.  Creating a transaction deletes what has expired or    *)
(* was consumed long ago.                                                  *)
BeginLogin(l) ==
  /\ l \notin DOMAIN logins
  /\ logins' = [k \in DOMAIN logins \cup {l} |->
                  IF k = l THEN [state |-> "open", until |-> tick + LoginTTL]
                  ELSE IF logins[k].until <= tick THEN [logins[k] EXCEPT !.state = "deleted"]
                  ELSE logins[k]]
  /\ UNCHANGED <<http, codes, sessions, trail, sent, member, tick>>

(* GET /auth/callback with a state, the binding in the login cookie and a  *)
(* code.  The browser may have begun another login meanwhile.              *)
AskCallback(r, state, binding, code) ==
  /\ r \notin DOMAIN http
  /\ {state, binding, code} \subseteq DOMAIN logins
  /\ http' = With(http, r, [op |-> Callback, phase |-> "consume", now |-> tick, state |-> state,
                            binding |-> binding, code |-> code, token |-> 0, seen |-> 0,
                            proof |-> FALSE, new |-> 0])
  /\ UNCHANGED <<logins, codes, sessions, trail, sent, member, tick>>

(* POST of a session token.  A CSRF token is answered by the bootstrap and *)
(* by the rotation, not by the callback: only a session that one of these  *)
(* issued can prove a rotation or a logout.                                *)
AskSession(r, op, t, proof) ==
  /\ r \notin DOMAIN http
  /\ t \in sent
  /\ proof /\ op # Bootstrap => sessions[t].generation > 1
  /\ http' = With(http, r, [op |-> op, phase |-> "authenticate", now |-> tick, state |-> Nobody,
                            binding |-> Nobody, code |-> Nobody, token |-> t, seen |-> 0,
                            proof |-> proof, new |-> 0])
  /\ UNCHANGED <<logins, codes, sessions, trail, sent, member, tick>>

-------------------------------------------------------------------------------
(* The callback. *)
Consumable(r) ==
  /\ http[r].binding = http[r].state
  /\ logins[http[r].state].state = "open"
  /\ logins[http[r].state].until > http[r].now
  /\ Current(r)

Consume(r) ==
  /\ At(r, "consume")
  /\ IF Consumable(r)
     THEN MovesTo(r, "claim") /\ logins' = [logins EXCEPT ![http[r].state].state = "consumed"]
     ELSE Rejects(r) /\ UNCHANGED logins
  /\ UNCHANGED <<codes, sessions, trail, sent, member, tick>>

Claim(r) ==
  LET kept == {c \in codes : c.until > tick}
  IN /\ At(r, "claim")
     /\ IF http[r].now + CodeTTL <= tick
        THEN Rejects(r) /\ UNCHANGED codes
        ELSE IF \E c \in kept : c.code = http[r].code
             THEN Rejects(r) /\ codes' = kept
             ELSE MovesTo(r, "exchange")
                  /\ codes' = kept \cup {[code |-> http[r].code, until |-> http[r].now + CodeTTL]}
     /\ UNCHANGED <<logins, sessions, trail, sent, member, tick>>

(* The provider answers with the nonce of the login it issued the code for, *)
(* refuses the code or is unavailable.                                      *)
Exchange(r) ==
  /\ At(r, "exchange")
  /\ \/ http[r].code = http[r].state /\ MovesTo(r, "resolve")
     \/ Rejects(r)
  /\ UNCHANGED <<logins, codes, sessions, trail, sent, member, tick>>

ResolveMembership(r) ==
  /\ At(r, "resolve")
  /\ IF member THEN MovesTo(r, "create") ELSE Rejects(r)
  /\ UNCHANGED <<logins, codes, sessions, trail, sent, member, tick>>

CreateSession(r) ==
  /\ At(r, "create")
  /\ NewToken \in Token
  /\ IF member /\ Current(r)
     THEN /\ sessions' = With(sessions, NewToken, Inserted(NewToken, http[r].state, http[r].now, 1))
          /\ http' = [http EXCEPT ![r].phase = "record", ![r].new = NewToken]
     ELSE Rejects(r) /\ UNCHANGED sessions
  /\ UNCHANGED <<logins, codes, trail, sent, member, tick>>

-------------------------------------------------------------------------------
(* The requests of a session. *)
Authenticate(r) ==
  /\ At(r, "authenticate")
  /\ IF Fresh(http[r].token, http[r].now) /\ member /\ Current(r)
     THEN http' = [http EXCEPT ![r].phase = "prove", ![r].seen = sessions[http[r].token].generation]
     ELSE Rejects(r)
  /\ UNCHANGED <<logins, codes, sessions, trail, sent, member, tick>>

(* The origin, and the CSRF token or the bootstrap header.  The refusal    *)
(* stands even when it cannot be recorded.                                 *)
Prove(r) ==
  /\ At(r, "prove")
  /\ IF http[r].proof
     THEN MovesTo(r, IF http[r].op = Logout THEN "revoke" ELSE "replace") /\ UNCHANGED trail
     ELSE Rejects(r) /\ trail' \in {trail, trail \cup {[event |-> "denied", token |-> http[r].token]}}
  /\ UNCHANGED <<logins, codes, sessions, sent, member, tick>>

(* rotate_human_session locks the row and checks it again.  It does not    *)
(* look at the membership.                                                 *)
Replaceable(r) ==
  /\ Current(r)
  /\ Fresh(http[r].token, http[r].now)
  /\ sessions[http[r].token].generation = http[r].seen

(* A mutant: the session that is replaced stays valid. *)
HandedOnAlive(t, next) == [sessions EXCEPT ![t].next = next]
HandedOn(t, next) == [sessions EXCEPT ![t].revoked = TRUE, ![t].next = next]

Replace(r) ==
  LET t == http[r].token
  IN /\ At(r, "replace")
     /\ NewToken \in Token
     /\ IF Replaceable(r)
        THEN /\ sessions' =
                  With(HandedOn(t, NewToken), NewToken,
                       Inserted(NewToken, sessions[t].login, http[r].now, http[r].seen + 1))
             /\ http' = [http EXCEPT ![r].phase = "record", ![r].new = NewToken]
        ELSE Rejects(r) /\ UNCHANGED sessions
     /\ UNCHANGED <<logins, codes, trail, sent, member, tick>>

(* The UPDATE revokes; the row it returns needs a role of the principal.   *)
Revoke(r) ==
  LET t == http[r].token
  IN /\ At(r, "revoke")
     /\ IF ~sessions[t].revoked /\ Current(r)
        THEN /\ sessions' = [sessions EXCEPT ![t].revoked = TRUE]
             /\ IF member THEN MovesTo(r, "record") ELSE MovesTo(r, "record") \/ Rejects(r)
        ELSE Rejects(r) /\ UNCHANGED sessions
     /\ UNCHANGED <<logins, codes, trail, sent, member, tick>>

-------------------------------------------------------------------------------
(* The event is recorded before the answer carries the token; when it      *)
(* cannot be, the new session is revoked.                                  *)
EventOf(r) ==
  [event |-> IF http[r].op \in {Bootstrap, Rotation} THEN "rotated" ELSE http[r].op,
   token |-> IF http[r].op = Logout THEN http[r].token ELSE http[r].new]

Record(r) ==
  /\ At(r, "record")
  /\ \/ /\ trail' = trail \cup {EventOf(r)}
        /\ sent' = IF http[r].op = Logout THEN sent ELSE sent \cup {http[r].new}
        /\ Rejects(r)
     \/ /\ MovesTo(r, IF http[r].op = Logout THEN "ended" ELSE "undo")
        /\ UNCHANGED <<trail, sent>>
  /\ UNCHANGED <<logins, codes, sessions, member, tick>>

Undo(r) ==
  /\ At(r, "undo")
  /\ Rejects(r)
  /\ sessions' = [sessions EXCEPT ![http[r].new].revoked = @ \/ Current(r)]
  /\ UNCHANGED <<logins, codes, trail, sent, member, tick>>

(* Any call of the repository throws, or the process ends: no answer       *)
(* carries a token.                                                        *)
Broken(r) ==
  /\ r \in DOMAIN http /\ http[r].phase # "ended"
  /\ Rejects(r)
  /\ UNCHANGED <<logins, codes, sessions, trail, sent, member, tick>>

(* The tenant's administration suspends and restores the person. *)
Suspend == member' = ~member /\ UNCHANGED <<http, logins, codes, sessions, trail, sent, tick>>
Tick == tick < LastTick /\ tick' = tick + 1
        /\ UNCHANGED <<http, logins, codes, sessions, trail, sent, member>>

Handle(r) ==
  \/ Consume(r) \/ Claim(r) \/ Exchange(r) \/ ResolveMembership(r) \/ CreateSession(r)
  \/ Authenticate(r) \/ Prove(r) \/ Replace(r) \/ Revoke(r) \/ Record(r) \/ Undo(r) \/ Broken(r)

HumanNext ==
  \/ \E l \in Login : BeginLogin(l)
  \/ \E r \in HumanRequest :
       \/ Handle(r)
       \/ \E s, b, c \in Login : AskCallback(r, s, b, c)
       \/ \E op \in {Bootstrap, Rotation, Logout}, t \in sent, proof \in BOOLEAN : AskSession(r, op, t, proof)
  \/ Suspend \/ Tick

HumanSpec == HumanInit /\ [][HumanNext]_humanVars

-------------------------------------------------------------------------------
SessionsOf(l) == {t \in DOMAIN sessions : sessions[t].login = l}

(* However its callback and its rotations overlap, are repeated or fail,   *)
(* a login has one session at a time: its sessions follow one another, all *)
(* but the last one are revoked, and once a logout is recorded the last    *)
(* one is too and no rotation that was under way adds another.             *)
OneSessionPerLogin ==
  \A l \in DOMAIN logins :
    /\ Cardinality({t \in SessionsOf(l) : sessions[t].next = 0}) <= 1
    /\ \A t \in SessionsOf(l) :
         /\ sessions[t].next # 0 => /\ sessions[t].revoked
                                   /\ sessions[sessions[t].next].login = l
                                   /\ sessions[sessions[t].next].generation = sessions[t].generation + 1
         /\ [event |-> Logout, token |-> t] \in trail =>
              \A u \in SessionsOf(l) : sessions[u].revoked
===============================================================================
