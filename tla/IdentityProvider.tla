---------------------------- MODULE IdentityProvider ----------------------------
(***************************************************************************)
(* The adapter of the OpenID Connect provider                              *)
(* (src/src/humanSession/oidcAdapter.ts): the exchange of a code for an    *)
(* identity, with the cached discovery document and the cached key set,    *)
(* which the exchanges under way share.  The provider rotates its keys,    *)
(* answers late or not at all, and the tokens of others look like its own. *)
(*                                                                         *)
(* A request has a timer, but only until the headers of its answer come:   *)
(* #request clears it when fetch resolves, and readBoundedJson then waits  *)
(* for the body without a limit.  An answer is what the provider has when  *)
(* its headers come, and may be read any time later.                       *)
(*                                                                         *)
(* A token is the key that signed it and whether its claims are in order;  *)
(* what an answer of the provider may be refused for (its status, media    *)
(* type, size, form) makes the provider unavailable.                       *)
(***************************************************************************)
EXTENDS Naturals

CONSTANTS TokenExchange, Key, Stranger,  \* a key the provider never had
          AlgorithmOf,              \* of a key
          Tokens,                   \* that are received: a key, and whether the claims are in order
          AllowedAlgorithms,        \* of the adapter's configuration
          DiscoveryTTL, JwksTTL,
          Slow,                     \* requestTimeoutMs, in ticks: how long headers are waited for
          LastMoment, MaxRotations, NoToken  \* bounds, and no token

ASSUME ProviderConstants ==
  /\ Key # {} /\ Stranger \notin Key
  /\ Tokens \subseteq [key : Key \cup {Stranger}, claims : BOOLEAN] /\ NoToken \notin Tokens
  /\ DiscoveryTTL \in Nat /\ JwksTTL \in Nat /\ Slow \in Nat
  /\ LastMoment \in Nat /\ MaxRotations \in Nat

VARIABLES keys,      \* the provider publishes now
          rotations, \* history: how often it changed them
          lastKept,  \* history: the last moment at which it published each key
          moment,
          discoveryCache, jwksCache,
          exchanges
providerVars == <<keys, rotations, lastKept, moment, discoveryCache, jwksCache, exchanges>>

Algorithms == {AlgorithmOf[k] : k \in Key}
NoExchange == [phase |-> "none", asked |-> 0, took |-> 0, answer |-> {}, algorithms |-> {}, token |-> NoToken,
               retried |-> FALSE, steady |-> TRUE]
(* The phases of a request: its headers are awaited, then its body is.     *)
HeadersAwaited == {"discovering", "calling", "fetching"}
BodyAwaited == {"discovered", "called", "fetched"}

ProviderTypeOK ==
  /\ keys \in (SUBSET Key) \ {{}} /\ lastKept \in [Key -> 0..LastMoment] /\ moment \in 0..LastMoment
  /\ rotations \in 0..MaxRotations
  /\ discoveryCache \in [algorithms : SUBSET Algorithms, expires : 0..(LastMoment + DiscoveryTTL)]
  /\ jwksCache \in [keys : SUBSET Key, expires : 0..(LastMoment + JwksTTL), took : 0..LastMoment]
  /\ \A x \in TokenExchange :
       /\ exchanges[x].phase \in HeadersAwaited \cup BodyAwaited
                                   \cup {"none", "verifying", "identified", "refused", "unavailable"}
       /\ exchanges[x].took \in 0..LastMoment
       /\ exchanges[x].token \in Tokens \cup {NoToken}

ProviderInit ==
  /\ keys = {CHOOSE k \in Key : TRUE}
  /\ lastKept = [k \in Key |-> 0] /\ moment = 0 /\ rotations = 0
  /\ discoveryCache = [algorithms |-> {}, expires |-> 0]
  /\ jwksCache = [keys |-> {}, expires |-> 0, took |-> 0]
  /\ exchanges = [x \in TokenExchange |-> NoExchange]

-------------------------------------------------------------------------------
Is(x, phase) == exchanges[x].phase = phase
Becomes(x, exchange) == exchanges' = [exchanges EXCEPT ![x] = exchange]
Outside == UNCHANGED <<keys, rotations, lastKept, moment>>

(* #request: a request to the provider.                                    *)
AsksProvider(x, phase) ==
  Becomes(x, [exchanges[x] EXCEPT !.phase = phase, !.asked = moment])
(* The headers come, in time, of what the provider has now; a token is     *)
(* signed by a key it publishes, or what passes for the endpoint has one   *)
(* of its own.                                                             *)
HeadersCome(x) ==
  /\ \/ /\ Is(x, "discovering")
        /\ Becomes(x, [exchanges[x] EXCEPT !.phase = "discovered", !.answer = {AlgorithmOf[k] : k \in keys},
                                           !.asked = 0])
     \/ /\ Is(x, "calling")
        /\ \E token \in {t \in Tokens : t.key \in keys \cup {Stranger}} :
             Becomes(x, [exchanges[x] EXCEPT !.phase = "called", !.token = token, !.asked = 0])
     \/ Is(x, "fetching") /\ Becomes(x, [exchanges[x] EXCEPT !.phase = "fetched", !.answer = keys])
  /\ Outside /\ UNCHANGED <<discoveryCache, jwksCache>>
(* The timer ends the wait for the headers; an answer is refused for its   *)
(* status, or at any time for its body.                                    *)
ProviderUnavailable(x) ==
  /\ exchanges[x].phase \in HeadersAwaited \cup BodyAwaited
  /\ Becomes(x, [NoExchange EXCEPT !.phase = "unavailable"])
  /\ Outside /\ UNCHANGED <<discoveryCache, jwksCache>>

(* exchangeAuthorizationCode; #loadDiscovery from the cache or not.        *)
DiscoveryFresh == discoveryCache.expires > moment
ExchangeStarts(x) ==
  /\ Is(x, "none")
  /\ IF DiscoveryFresh
     THEN Becomes(x, [exchanges[x] EXCEPT !.phase = "calling", !.algorithms = discoveryCache.algorithms,
                                          !.asked = moment])
     ELSE AsksProvider(x, "discovering")
  /\ Outside /\ UNCHANGED <<discoveryCache, jwksCache>>
Discovers(x) ==
  LET usable == exchanges[x].answer \cap AllowedAlgorithms
  IN /\ Is(x, "discovered") /\ usable # {}
     /\ discoveryCache' = [algorithms |-> usable, expires |-> moment + DiscoveryTTL]
     /\ Becomes(x, [exchanges[x] EXCEPT !.phase = "calling", !.algorithms = usable, !.asked = moment,
                                        !.answer = {}])
     /\ Outside /\ UNCHANGED jwksCache

(* The token endpoint's answer is read, or refused for its status or form. *)
Receives(x) ==
  /\ Is(x, "called")
  /\ Becomes(x, [exchanges[x] EXCEPT !.phase = "verifying"])
  /\ Outside /\ UNCHANGED <<discoveryCache, jwksCache>>
TokenRefused(x) ==
  /\ exchanges[x].phase \in {"calling", "called"}
  /\ Becomes(x, [NoExchange EXCEPT !.phase = "refused"])
  /\ Outside /\ UNCHANGED <<discoveryCache, jwksCache>>

(* #verifyIdToken: the header, whose algorithm must have been discovered   *)
(* (that of another's token is one of them); the keys, from the cache or   *)
(* not; the signature, and then the claims.                                *)
HeaderHolds(exchange) ==
  exchange.token.key # Stranger => AlgorithmOf[exchange.token.key] \in exchange.algorithms
Refreshes(exchange) == ~exchange.retried
Verdict(exchange, known) ==
  IF exchange.token.key \notin known
  THEN IF Refreshes(exchange) THEN "retry" ELSE "refused"
  ELSE IF exchange.token.claims THEN "identified" ELSE "refused"
Concludes(x, known, took) ==
  LET read == [exchanges[x] EXCEPT !.answer = {}, !.asked = 0]
  IN Becomes(x, CASE Verdict(exchanges[x], known) = "retry" ->
                       [read EXCEPT !.phase = "verifying", !.retried = TRUE]
                  [] Verdict(exchanges[x], known) = "identified" ->
                       [NoExchange EXCEPT !.phase = "identified", !.token = read.token, !.took = took,
                                          !.asked = moment]
                  [] Verdict(exchanges[x], known) = "refused" ->
                       [read EXCEPT !.phase = "refused", !.retried = FALSE])

RefusesHeader(x) ==
  /\ Is(x, "verifying") /\ ~HeaderHolds(exchanges[x])
  /\ Becomes(x, [exchanges[x] EXCEPT !.phase = "refused", !.retried = FALSE])
  /\ Outside /\ UNCHANGED <<discoveryCache, jwksCache>>

(* A mutant: the key set is never too old.                                 *)
JwksKept == jwksCache.keys # {}

(* #loadJwks: the second attempt, after a key was unknown or a signature   *)
(* failed, never takes the cache.                                          *)
JwksFresh == jwksCache.expires > moment
VerifiesFromCache(x) ==
  /\ Is(x, "verifying") /\ HeaderHolds(exchanges[x]) /\ ~exchanges[x].retried /\ JwksFresh
  /\ Concludes(x, jwksCache.keys, jwksCache.took)
  /\ Outside /\ UNCHANGED <<discoveryCache, jwksCache>>
AsksKeys(x) ==
  /\ Is(x, "verifying") /\ HeaderHolds(exchanges[x]) /\ (exchanges[x].retried \/ ~JwksFresh)
  /\ AsksProvider(x, "fetching")
  /\ Outside /\ UNCHANGED <<discoveryCache, jwksCache>>
(* The key set lives from the moment its body was read, however long that  *)
(* took.                                                                   *)
VerifiesFetched(x) ==
  LET took == moment - exchanges[x].asked
  IN /\ Is(x, "fetched")
     /\ jwksCache' = [keys |-> exchanges[x].answer, expires |-> moment + JwksTTL, took |-> took]
     /\ Concludes(x, exchanges[x].answer, took)
     /\ Outside /\ UNCHANGED discoveryCache

-------------------------------------------------------------------------------
(* The provider publishes other keys.  History: of each token whose key is *)
(* gone before the keys it is verified with were composed.                 *)
Rotates(new) ==
  /\ new # keys /\ rotations < MaxRotations
  /\ rotations' = rotations + 1
  /\ keys' = new
  /\ lastKept' = [k \in Key |-> IF k \in keys THEN moment ELSE lastKept[k]]
  /\ exchanges' = [x \in TokenExchange |->
       IF /\ exchanges[x].token # NoToken /\ exchanges[x].token.key \notin new
          /\ exchanges[x].phase \in {"called", "verifying", "fetching"}
       THEN [exchanges[x] EXCEPT !.steady = FALSE] ELSE exchanges[x]]
  /\ UNCHANGED <<moment, discoveryCache, jwksCache>>

(* Time passes; no request waits longer for its headers than its timer.    *)
MomentPasses ==
  /\ moment < LastMoment
  /\ \A x \in TokenExchange : exchanges[x].phase \in HeadersAwaited => moment - exchanges[x].asked < Slow
  /\ moment' = moment + 1
  /\ UNCHANGED <<keys, rotations, lastKept, discoveryCache, jwksCache, exchanges>>

ProviderNext ==
  \/ \E x \in TokenExchange :
       \/ ExchangeStarts(x) \/ Discovers(x) \/ ProviderUnavailable(x) \/ TokenRefused(x) \/ RefusesHeader(x)
       \/ VerifiesFromCache(x) \/ AsksKeys(x) \/ VerifiesFetched(x) \/ HeadersCome(x) \/ Receives(x)
  \/ \E new \in (SUBSET Key) \ {{}} : Rotates(new)
  \/ MomentPasses

ProviderSpec == ProviderInit /\ [][ProviderNext]_providerVars

-------------------------------------------------------------------------------
(* An identity comes of a token with claims in order that was signed by a  *)
(* key of the provider, one it published not longer ago than the key       *)
(* cache lives and the request took that brought the keys, whichever       *)
(* exchange made it, whatever the provider published since, and however    *)
(* late an older answer replaced a newer one.  That request may have taken *)
(* any time: no timer bounds the age of a key.                             *)
(* A token in order, whose key stays published until the keys it is        *)
(* verified with are composed, is not refused for a cache that does not    *)
(* have the key: only its algorithm, if the cached discovery document      *)
(* lacks that one, has it refused.                                         *)
ProviderKeysHold ==
  \A x \in TokenExchange :
    LET token == exchanges[x].token
    IN /\ Is(x, "identified") =>
            /\ token.claims /\ token.key # Stranger
            /\ token.key \in keys \/ lastKept[token.key] + JwksTTL + exchanges[x].took >= exchanges[x].asked
       /\ (Is(x, "refused") /\ token # NoToken /\ exchanges[x].steady) =>
            \/ ~token.claims \/ token.key = Stranger
            \/ AlgorithmOf[token.key] \notin exchanges[x].algorithms
===============================================================================
