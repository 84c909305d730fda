----------------------------- MODULE Dashboard -----------------------------
(***************************************************************************)
(* api.Server: who is let in, and how often the LLM is asked.              *)
(*                                                                         *)
(* A login with the right password puts a fresh random token in the        *)
(* session map; a request shows its token to the auth middleware, and      *)
(* POST /api/ask then takes a token of the rate limiter's bucket.  Each    *)
(* look at the map and at the bucket is one critical section, time.Now()   *)
(* included; between the two a request holds nothing, so logouts, other    *)
(* requests and the clock come in between.  Sessions and bucket are        *)
(* memory: a restart forgets them.  (The triggers' busy flag is in         *)
(* ScanService.)                                                           *)
(*                                                                         *)
(* A password is configured: with an empty one, auth lets every request    *)
(* pass and looks at no session.                                           *)
(***************************************************************************)
EXTENDS Integers, FiniteSets

CONSTANTS
    Requests,    \* requests that can be in the server at the same time
    MaxLogins,   \* bound: sessions issued in one behaviour
    TTL,         \* sessionTTL, in ticks
    MaxSessions, \* maxSessions
    Capacity,    \* tokens of the full bucket
    Refill,      \* ticks to regain one
    MaxClock,    \* bound: ticks in one behaviour
    MaxRestarts  \* bound: restarts in one behaviour

ASSUME DashboardAssumption ==
    /\ MaxLogins \in Nat /\ MaxClock \in Nat /\ MaxRestarts \in Nat
    /\ TTL \in Nat \ {0}
    /\ MaxSessions \in Nat
    /\ Capacity \in Nat \ {0}
    /\ Refill \in Nat \ {0}

Tokens == 1..MaxLogins

VARIABLES
    clock,      \* the monotonic clock
    sessions,   \* Server.sessions: expiry per token, 0 for one that is not in the map
    bucket,     \* tokenBucket: tokens and last
    pc, cookie, \* where each request is, and the token it shows
    issued,     \* history: when each token was issued, 0 for never
    revoked,    \* history: tokens that are dead for good: logged out, or of an earlier process
    mark,       \* history: a moment somebody began to count, or -1
    grants,     \* history: requests let through to the LLM since then
    restarts    \* bound

gate == <<pc, cookie>>
history == <<issued, revoked>>
meter == <<mark, grants>>
vars == <<clock, sessions, bucket, gate, history, meter, restarts>>

FullBucket == [tokens |-> Capacity, last |-> clock]

Init ==
    /\ clock = 1
    /\ sessions = [t \in Tokens |-> 0]
    /\ bucket = FullBucket
    /\ pc = [r \in Requests |-> "idle"]
    /\ cookie = [r \in Requests |-> 0]
    /\ issued = [t \in Tokens |-> 0]
    /\ revoked = {}
    /\ mark = -1 /\ grants = 0
    /\ restarts = 0

Tick ==
    /\ clock < MaxClock
    /\ clock' = clock + 1
    /\ UNCHANGED <<sessions, bucket, gate, history, meter, restarts>>

----------------------------------------------------------------------------
(* Sessions.                                                               *)

Held == {t \in Tokens : sessions[t] # 0}

\* now.After(exp)
Expired(t) == clock > sessions[t]

\* Mutant: at the cap the whole map is thrown away.
SweptAll == [t \in Tokens |-> 0]

\* Mutant: nothing is swept at the cap.
SweptNone == sessions

\* The sweep of newSession, done only when the map has reached maxSessions.
Swept == IF Cardinality(Held) >= MaxSessions
         THEN [t \in Tokens |-> IF Expired(t) THEN 0 ELSE sessions[t]]
         ELSE sessions

\* POST /login with the right password; a wrong one changes nothing.
Login ==
    \E t \in Tokens :
        /\ issued[t] = 0
        /\ sessions' = [Swept EXCEPT ![t] = clock + TTL]
        /\ issued' = [issued EXCEPT ![t] = clock]
        /\ UNCHANGED <<clock, bucket, gate, revoked, meter, restarts>>

\* Mutant: the cookie is cleared, the session stays.
LogoutClientSide(t) ==
    /\ issued[t] # 0
    /\ revoked' = revoked \cup {t}
    /\ UNCHANGED <<clock, sessions, bucket, gate, issued, meter, restarts>>

\* /logout needs no session: it deletes whatever token the cookie names.
Logout(t) ==
    /\ issued[t] # 0
    /\ sessions' = [sessions EXCEPT ![t] = 0]
    /\ revoked' = revoked \cup {t}
    /\ UNCHANGED <<clock, bucket, gate, issued, meter, restarts>>

\* The handler returns.
Leave(r) ==
    /\ pc' = [pc EXCEPT ![r] = "idle"]
    /\ cookie' = [cookie EXCEPT ![r] = 0]

\* POST /api/ask arrives with the cookie of some session, or with none (0).
Arrive(r) ==
    /\ pc[r] = "idle"
    /\ \E t \in {0} \cup {u \in Tokens : issued[u] # 0} : cookie' = [cookie EXCEPT ![r] = t]
    /\ pc' = [pc EXCEPT ![r] = "auth"]
    /\ UNCHANGED <<clock, sessions, bucket, history, meter, restarts>>

\* auth, validSession: a session that has expired is deleted on sight.
Admit(r) ==
    /\ pc[r] = "auth"
    /\ cookie[r] \in Held
    /\ ~Expired(cookie[r])
    /\ pc' = [pc EXCEPT ![r] = "admitted"]
    /\ UNCHANGED <<clock, sessions, bucket, cookie, history, meter, restarts>>

Reject(r) ==
    /\ pc[r] = "auth"
    /\ \/ cookie[r] \notin Held /\ UNCHANGED sessions
       \/ /\ cookie[r] \in Held /\ Expired(cookie[r])
          /\ sessions' = [sessions EXCEPT ![cookie[r]] = 0]
    /\ Leave(r)
    /\ UNCHANGED <<clock, bucket, history, meter, restarts>>

----------------------------------------------------------------------------
(* The rate limiter.                                                       *)

Least(a, b) == IF a < b THEN a ELSE b

\* Mutant: the time that did not make a whole token is forgotten.
RefilledForgetful ==
    LET add == (clock - bucket.last) \div Refill
    IN  [tokens |-> Least(bucket.tokens + add, Capacity),
         last   |-> IF add > 0 THEN clock ELSE bucket.last]

\* Mutant: the bucket fills above its capacity.
RefilledUnbounded ==
    LET add == (clock - bucket.last) \div Refill
    IN  [tokens |-> bucket.tokens + add, last |-> bucket.last + add * Refill]

\* What Take finds: the tokens regained since last, the remainder kept for later.
Refilled ==
    LET add == (clock - bucket.last) \div Refill
    IN  [tokens |-> Least(bucket.tokens + add, Capacity), last |-> bucket.last + add * Refill]

\* Take returns true: the question goes to the LLM.
Ask(r) ==
    /\ pc[r] = "admitted"
    /\ Refilled.tokens > 0
    /\ bucket' = [Refilled EXCEPT !.tokens = @ - 1]
    /\ grants' = IF mark = -1 THEN 0 ELSE grants + 1
    /\ pc' = [pc EXCEPT ![r] = "asking"]
    /\ UNCHANGED <<clock, sessions, cookie, history, mark, restarts>>

\* Take returns false: 429.
Limited(r) ==
    /\ pc[r] = "admitted"
    /\ Refilled.tokens <= 0
    /\ bucket' = Refilled
    /\ Leave(r)
    /\ UNCHANGED <<clock, sessions, history, meter, restarts>>

\* The LLM answers, fails or times out.
Answered(r) ==
    /\ pc[r] = "asking"
    /\ Leave(r)
    /\ UNCHANGED <<clock, sessions, bucket, history, meter, restarts>>

\* Somebody begins to count at an arbitrary moment; no code does.
StartCounting ==
    /\ mark = -1
    /\ mark' = clock
    /\ UNCHANGED <<clock, sessions, bucket, gate, history, grants, restarts>>

\* A new process: no sessions, a full bucket, and a new count.
Restart ==
    /\ restarts < MaxRestarts
    /\ restarts' = restarts + 1
    /\ sessions' = [t \in Tokens |-> 0]
    /\ bucket' = FullBucket
    /\ pc' = [r \in Requests |-> "idle"]
    /\ cookie' = [r \in Requests |-> 0]
    /\ revoked' = {t \in Tokens : issued[t] # 0}
    /\ mark' = -1 /\ grants' = 0
    /\ UNCHANGED <<clock, issued>>

Next ==
    \/ Tick \/ Login \/ StartCounting \/ Restart
    \/ \E t \in Tokens : Logout(t)
    \/ \E r \in Requests : \/ Arrive(r) \/ Admit(r) \/ Reject(r)
                           \/ Ask(r) \/ Limited(r) \/ Answered(r)

Spec == Init /\ [][Next]_vars

----------------------------------------------------------------------------
\* The shape of the state.
TypeOK ==
    /\ clock \in Nat
    /\ sessions \in [Tokens -> Nat]
    /\ bucket \in [tokens : 0..Capacity, last : Nat]
    /\ pc \in [Requests -> {"idle", "auth", "admitted", "asking"}]
    /\ cookie \in [Requests -> Tokens \cup {0}]
    /\ issued \in [Tokens -> Nat]
    /\ revoked \subseteq Tokens
    /\ mark \in Nat \cup {-1}
    /\ grants \in Nat
    /\ restarts \in Nat

\* A session lets in until it expires, is logged out or the process ends, and then
\* never again, in whatever order requests, logouts and logins of others come.
OnlyLiveSessionsEnter ==
    [][ \A r \in Requests : pc[r] = "auth" /\ pc'[r] = "admitted"
            => /\ cookie[r] \in Tokens \ revoked
               /\ clock <= issued[cookie[r]] + TTL ]_vars

\* "30 days": a session that is neither expired nor revoked is not swept away by the
\* logins of others.
LiveSessionsStay ==
    \A t \in Tokens \ revoked : issued[t] # 0 /\ clock <= issued[t] + TTL => t \in Held

\* The map "never grows unbounded": above maxSessions it holds no two sessions
\* issued more than one TTL apart.
OverflowSpansOneTTL ==
    Cardinality(Held) > MaxSessions =>
        \A t, u \in Held : sessions[t] <= sessions[u] + TTL

\* "Short bursts (5 questions back-to-back) but cap long-term rate at one every
\* 10s": from any moment on, at most a bucket, one token already under way, and one
\* per Refill since.
RateIsCapped ==
    mark # -1 => (grants - Capacity - 1) * Refill <= clock - mark

\* Sessions and bucket are looked at now and then and brought up to date on sight; yet
\* every answer of the door and of the gate is the one that Reception gives, which sees
\* every session end and every token fall at its moment: a session that has ended and
\* lingers in the map lets nobody in, one swept was of no use, and the bucket is counted
\* out of the remainder that Take carries over, through any order of requests, logins,
\* logouts and restarts.
Until == [t \in Tokens |-> IF issued[t] = 0 THEN -1
                           ELSE IF t \in revoked THEN 0
                           ELSE issued[t] + TTL]

Front == INSTANCE Reception
         WITH Sessions <- Tokens, until <- Until, tokens <- Refilled.tokens,
              phase <- (clock - bucket.last) % Refill, place <- pc, shown <- cookie

ImplementsReception == Front!Spec
=============================================================================
