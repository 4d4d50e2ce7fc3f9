----------------------------- MODULE TokenService -----------------------------
(***************************************************************************)
(* Bearer tokens: issued with a lifetime, checked by the middleware on     *)
(* every request, and revoked through a key in Redis that lapses by        *)
(* itself.  Every action takes the whole call; a module that composes this *)
(* one says when the calls are made.                                       *)
(*                                                                         *)
(* Redis is external: while it is down a call of it fails, and a SET that  *)
(* fails may have been executed.  Signatures are taken to be right.        *)
(***************************************************************************)
EXTENDS Integers

CONSTANTS
  Token,
  Life,             \* the lifetime Register and Login ask for
  MaxTtl,           \* bound: lifetimes of a revocation key
  MaxTime,          \* bound: the clock
  RedisConfigured   \* the service was given a Redis client

ASSUME TimesAssumption == {Life, MaxTtl, MaxTime} \subseteq Nat \ {0}
ASSUME RedisAssumption == RedisConfigured \in BOOLEAN

VARIABLES
  clock,
  expiry,   \* expiry[t]: the token's expiration, 0 before it is issued
  lapse,    \* lapse[t]: when the revocation key of t lapses, 0 without one
  redis,    \* "up" or "down"
  covered   \* history. covered[t]: the last RevokeToken of t reported success,
            \* for as long as t had to live

tokenVars == <<clock, expiry, lapse, redis, covered>>

Issued(t) == expiry[t] > 0
\* SET without an expiration keeps the key for ever.
Never == MaxTime + 1

TokenInit ==
  /\ clock = 1
  /\ expiry = [t \in Token |-> 0]
  /\ lapse = [t \in Token |-> 0]
  /\ redis = "up"
  /\ covered = [t \in Token |-> FALSE]

GenerateToken(t) ==
  /\ ~Issued(t)
  /\ expiry' = [expiry EXCEPT ![t] = clock + Life]
  /\ UNCHANGED <<clock, lapse, redis, covered>>

IsTokenRevoked(t) == clock < lapse[t]

\* The signature and the expiration are checked, then the block list; an error
\* of Redis lets the token pass.
ValidateToken(t) ==
  /\ Issued(t) /\ clock < expiry[t]
  /\ ~(RedisConfigured /\ redis = "up" /\ IsTokenRevoked(t))

\* Mutant: SET NX leaves a key there is with its own lifetime.
RevokeTokenOnce(t, ttl) ==
  /\ Issued(t) /\ RedisConfigured /\ redis = "up"
  /\ lapse' = [lapse EXCEPT ![t] = IF IsTokenRevoked(t) THEN @
                                  ELSE IF ttl = 0 THEN Never ELSE clock + ttl]
  /\ covered' = [covered EXCEPT ![t] = ttl = 0 \/ clock + ttl >= expiry[t]]
  /\ UNCHANGED <<clock, expiry, redis>>

\* The caller chooses the lifetime of the key; it replaces that of a key there
\* is.  Without a client nothing is done and success reported.
RevokeToken(t, ttl) ==
  LET set == [lapse EXCEPT ![t] = IF ttl = 0 THEN Never ELSE clock + ttl]
  IN
  /\ Issued(t)
  /\ IF RedisConfigured /\ redis = "up" THEN lapse' = set
     ELSE lapse' = lapse \/ (RedisConfigured /\ lapse' = set)
  /\ covered' = [covered EXCEPT ![t] =
                   RedisConfigured /\ redis = "up"
                     /\ (ttl = 0 \/ clock + ttl >= expiry[t])]
  /\ UNCHANGED <<clock, expiry, redis>>

Tick ==
  /\ clock < MaxTime
  /\ clock' = clock + 1
  /\ UNCHANGED <<expiry, lapse, redis, covered>>

RedisFailsOrReturns ==
  /\ redis' = IF redis = "up" THEN "down" ELSE "up"
  /\ UNCHANGED <<clock, expiry, lapse, covered>>

TokenTypeOK ==
  /\ clock \in 1 .. MaxTime
  /\ expiry \in [Token -> 0 .. MaxTime + Life]
  /\ lapse \in [Token -> 0 .. MaxTime + MaxTtl]
  /\ redis \in {"up", "down"}
  /\ covered \in [Token -> BOOLEAN]
=============================================================================
