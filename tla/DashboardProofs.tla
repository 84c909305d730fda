-------------------------- MODULE DashboardProofs --------------------------
(***************************************************************************)
(* The sessions and the rate limiter, for any number of requests, any      *)
(* session TTL and cap, and any bucket.                                    *)
(*                                                                         *)
(* Sessions: what the map holds, and what it must hold, is a function of   *)
(* the history (SessionInv); the bound on an oversize map is inductive     *)
(* with it, for a login at the cap sweeps first.  Rate: every grant costs  *)
(* a token and every token costs Refill ticks of last (RateInv).           *)
(***************************************************************************)
EXTENDS Dashboard, FiniteSetTheorems, TLAPS

(* Arithmetic. *)

LEMMA DivBounds ==
    ASSUME NEW a \in Nat, NEW r \in Nat \ {0}
    PROVE  /\ a \div r \in Nat
           /\ (a \div r) * r <= a
           /\ a - (a \div r) * r < r
OBVIOUS

LEMMA TimesMonotone ==
    ASSUME NEW a \in Int, NEW b \in Int, NEW r \in Nat, a <= b
    PROVE  a * r <= b * r
OBVIOUS

LEMMA Distributes ==
    ASSUME NEW a \in Int, NEW b \in Int, NEW r \in Int
    PROVE  (a + b) * r = a * r + b * r /\ a * r \in Int /\ b * r \in Int
OBVIOUS

----------------------------------------------------------------------------
(* Types.  The bucket's last is never ahead of the clock, without which a  *)
(* refill could be negative; and the clock is past 0, which means never.   *)

Bucket == [tokens : 0..Capacity, last : Nat]
States == {"idle", "auth", "admitted", "asking"}

Timely == /\ clock > 0
          /\ bucket.last <= clock
          /\ mark <= clock
          /\ \A t \in Tokens : issued[t] <= clock

TypeInv == TypeOK /\ Timely

LEMMA RefilledType ==
    ASSUME TypeInv
    PROVE  /\ Refilled \in Bucket
           /\ Refilled.last <= clock
<1>1. DashboardAssumption
  BY DashboardAssumption
<1>. DEFINE add == (clock - bucket.last) \div Refill
<1>2. clock - bucket.last \in Nat /\ bucket.tokens \in 0..Capacity /\ bucket.last \in Nat
  BY <1>1 DEF TypeInv, TypeOK, Timely
<1>3. add \in Nat /\ add * Refill <= clock - bucket.last
  BY <1>1, <1>2, DivBounds
<1>4. add * Refill \in Nat
  BY <1>1, <1>3
<1>. HIDE DEF add
<1>5. Least(bucket.tokens + add, Capacity) \in 0..Capacity
  BY <1>1, <1>2, <1>3 DEF Least
<1>6. bucket.last + add * Refill \in Nat /\ bucket.last + add * Refill <= clock
  BY <1>2, <1>4, <1>3 DEF TypeInv, TypeOK
<1>7. Refilled = [tokens |-> Least(bucket.tokens + add, Capacity),
                  last |-> bucket.last + add * Refill]
  BY DEF Refilled, add
<1>. QED  BY <1>5, <1>6, <1>7 DEF Bucket

LEMMA InitType == ASSUME Init PROVE TypeInv
BY DashboardAssumption DEF Init, TypeInv, TypeOK, Timely, FullBucket, Tokens

LEMMA SweptType == ASSUME TypeInv PROVE Swept \in [Tokens -> Nat]
BY DEF TypeInv, TypeOK, Swept

LEMMA NextType == ASSUME TypeInv, [Next]_vars PROVE TypeInv'
<1>1. DashboardAssumption
  BY DashboardAssumption
<1>. USE DEF gate, history, meter
<1>2. CASE Tick
  BY <1>2 DEF Tick, TypeInv, TypeOK, Timely
<1>3. CASE Login
  <2>1. PICK t \in Tokens : /\ sessions' = [Swept EXCEPT ![t] = clock + TTL]
                            /\ issued' = [issued EXCEPT ![t] = clock]
                            /\ UNCHANGED <<clock, bucket, gate, revoked, meter, restarts>>
    BY <1>3 DEF Login
  <2>2. sessions' \in [Tokens -> Nat]
    BY <1>1, <2>1, SweptType DEF TypeInv, TypeOK
  <2>. QED  BY <2>1, <2>2 DEF TypeInv, TypeOK, Timely
<1>4. ASSUME NEW t \in Tokens, Logout(t) PROVE TypeInv'
  BY <1>4 DEF Logout, TypeInv, TypeOK, Timely
<1>5. ASSUME NEW r \in Requests, Arrive(r) PROVE TypeInv'
  BY <1>5 DEF Arrive, TypeInv, TypeOK, Timely
<1>6. ASSUME NEW r \in Requests, Admit(r) PROVE TypeInv'
  BY <1>6 DEF Admit, TypeInv, TypeOK, Timely
<1>7. ASSUME NEW r \in Requests, Reject(r) PROVE TypeInv'
  <2>1. sessions' \in [Tokens -> Nat]
    BY <1>7 DEF Reject, TypeInv, TypeOK
  <2>. QED  BY <1>7, <2>1 DEF Reject, Leave, TypeInv, TypeOK, Timely
<1>8. ASSUME NEW r \in Requests, Ask(r) PROVE TypeInv'
  <2>1. bucket' \in Bucket /\ bucket'.last <= clock
    BY <1>1, <1>8, RefilledType DEF Ask, Bucket
  <2>. QED  BY <1>8, <2>1 DEF Ask, TypeInv, TypeOK, Timely, Bucket
<1>9. ASSUME NEW r \in Requests, Limited(r) PROVE TypeInv'
  BY <1>9, RefilledType DEF Limited, Leave, TypeInv, TypeOK, Timely, Bucket
<1>10. ASSUME NEW r \in Requests, Answered(r) PROVE TypeInv'
  BY <1>10 DEF Answered, Leave, TypeInv, TypeOK, Timely
<1>11. CASE StartCounting
  BY <1>11 DEF StartCounting, TypeInv, TypeOK, Timely
<1>12. CASE Restart
  BY <1>1, <1>12 DEF Restart, FullBucket, TypeInv, TypeOK, Timely
<1>13. CASE UNCHANGED vars
  BY <1>13 DEF vars, TypeInv, TypeOK, Timely
<1>. QED  BY <1>2, <1>3, <1>4, <1>5, <1>6, <1>7, <1>8, <1>9, <1>10, <1>11, <1>12, <1>13 DEF Next

\* Every variable keeps its type; above all, the bucket never holds more tokens than
\* its capacity, nor less than none.
THEOREM TypeCorrect == Spec => []TypeOK
<1>1. TypeInv => TypeOK  BY DEF TypeInv
<1>. QED  BY <1>1, InitType, NextType, PTL DEF Spec

----------------------------------------------------------------------------
(* Rate.                                                                   *)

\* What was let through since the mark, with what the bucket still holds, was in a
\* full bucket at the mark or was refilled since, at one token per Refill of last.
RateInv ==
    /\ mark = -1 => grants = 0
    /\ grants # 0 => (grants + bucket.tokens - Capacity) * Refill <= bucket.last - mark + Refill

RateIInv == TypeInv /\ RateInv

\* A grant of the bucket keeps the account.
LEMMA GrantPays ==
    ASSUME RateIInv, mark # -1, NEW r \in Requests, Ask(r)
    PROVE  (grants' + bucket'.tokens - Capacity) * Refill <= bucket'.last - mark + Refill
<1>1. DashboardAssumption
  BY DashboardAssumption
<1>. DEFINE add == (clock - bucket.last) \div Refill
<1>2. /\ clock \in Nat /\ mark \in Nat /\ mark <= clock /\ grants \in Nat
      /\ bucket.last \in Nat /\ clock - bucket.last \in Nat /\ bucket.tokens \in 0..Capacity
  BY <1>1 DEF RateIInv, TypeInv, TypeOK, Timely
<1>3. /\ add \in Nat /\ add * Refill <= clock - bucket.last
      /\ clock - bucket.last - add * Refill < Refill
  BY <1>1, <1>2, DivBounds
<1>4. add * Refill \in Int
  BY <1>1, <1>3
<1>5. /\ grants' = grants + 1
      /\ bucket'.tokens = Least(bucket.tokens + add, Capacity) - 1
      /\ bucket'.last = bucket.last + add * Refill
  BY DEF Ask, Refilled
<1>. HIDE DEF add
<1>6. CASE grants = 0
  <2>1. grants' + bucket'.tokens - Capacity <= 0 /\ grants' + bucket'.tokens - Capacity \in Int
    BY <1>1, <1>2, <1>3, <1>5, <1>6 DEF Least
  <2>2. (grants' + bucket'.tokens - Capacity) * Refill <= 0 * Refill
    BY <1>1, <2>1, TimesMonotone
  <2>3. bucket'.last - mark + Refill > 0
    BY <1>1, <1>2, <1>3, <1>4, <1>5
  <2>4. (grants' + bucket'.tokens - Capacity) * Refill \in Int /\ 0 * Refill = 0
    BY <1>1, <2>1
  <2>. QED  BY <1>1, <1>2, <1>4, <1>5, <2>2, <2>3, <2>4
<1>7. CASE grants # 0
  <2>. DEFINE before == grants + bucket.tokens - Capacity
              after  == grants' + bucket'.tokens - Capacity
  <2>1. before \in Int /\ after \in Int /\ after <= before + add
    BY <1>1, <1>2, <1>3, <1>5 DEF Least
  <2>2. before * Refill <= bucket.last - mark + Refill
    BY <1>7 DEF RateIInv, RateInv
  <2>. HIDE DEF before, after
  <2>3. after * Refill <= (before + add) * Refill
    BY <1>1, <1>3, <2>1, TimesMonotone
  <2>4. (before + add) * Refill = before * Refill + add * Refill
    BY <1>1, <1>3, <2>1, Distributes
  <2>5. after * Refill \in Int /\ before * Refill \in Int
    BY <1>1, <2>1
  <2>6. after * Refill <= bucket'.last - mark + Refill
    BY <1>1, <1>2, <1>4, <1>5, <2>2, <2>3, <2>4, <2>5
  <2>. QED  BY <2>6 DEF after
<1>. QED  BY <1>6, <1>7

\* A refused request refills the bucket, and keeps the account too.
LEMMA RefusalPays ==
    ASSUME RateIInv, NEW r \in Requests, Limited(r)
    PROVE  RateInv'
<1>1. DashboardAssumption
  BY DashboardAssumption
<1>. DEFINE add == (clock - bucket.last) \div Refill
            before == grants + bucket.tokens - Capacity
            after  == grants + bucket'.tokens - Capacity
<1>2. /\ clock \in Nat /\ mark \in Nat \cup {-1} /\ grants \in Nat
      /\ bucket.last \in Nat /\ clock - bucket.last \in Nat /\ bucket.tokens \in 0..Capacity
  BY <1>1 DEF RateIInv, TypeInv, TypeOK, Timely
<1>3. add \in Nat
  BY <1>1, <1>2, DivBounds
<1>4. add * Refill \in Int
  BY <1>1, <1>3
<1>5. /\ grants' = grants /\ mark' = mark
      /\ bucket'.tokens = Least(bucket.tokens + add, Capacity)
      /\ bucket'.last = bucket.last + add * Refill
  BY DEF Limited, Refilled, meter
<1>6. before \in Int /\ after \in Int /\ after <= before + add
  BY <1>1, <1>2, <1>3, <1>5 DEF Least
<1>. HIDE DEF add
<1>7. ASSUME grants # 0
      PROVE  after * Refill <= bucket'.last - mark + Refill
  <2>1. before * Refill <= bucket.last - mark + Refill
    BY <1>7 DEF RateIInv, RateInv
  <2>. HIDE DEF before, after
  <2>2. after * Refill <= (before + add) * Refill
    BY <1>1, <1>3, <1>6, TimesMonotone
  <2>3. (before + add) * Refill = before * Refill + add * Refill
    BY <1>1, <1>3, <1>6, Distributes
  <2>4. after * Refill \in Int /\ before * Refill \in Int
    BY <1>1, <1>6
  <2>. QED  BY <1>1, <1>2, <1>4, <1>5, <2>1, <2>2, <2>3, <2>4
<1>. QED  BY <1>5, <1>7 DEF RateInv, RateIInv

LEMMA RateNext == ASSUME RateIInv, [Next]_vars PROVE RateIInv'
<1>1. TypeInv'
  BY NextType DEF RateIInv
<1>. USE DEF RateIInv, RateInv
<1>2. CASE \/ Tick \/ Login \/ (\E t \in Tokens : Logout(t))
           \/ \E r \in Requests : Arrive(r) \/ Admit(r) \/ Reject(r) \/ Answered(r)
           \/ UNCHANGED vars
  <2>1. UNCHANGED <<bucket, mark, grants>>
    BY <1>2 DEF Tick, Login, Logout, Arrive, Admit, Reject, Answered, vars, meter
  <2>. QED  BY <1>1, <2>1
<1>3. ASSUME NEW r \in Requests, Ask(r) PROVE RateIInv'
  <2>1. mark' = mark /\ (mark = -1 => grants' = 0)
    BY <1>3 DEF Ask
  <2>. QED  BY <1>1, <1>3, <2>1, GrantPays
<1>4. ASSUME NEW r \in Requests, Limited(r) PROVE RateIInv'
  BY <1>1, <1>4, RefusalPays
<1>5. CASE StartCounting \/ Restart
  BY <1>1, <1>5 DEF StartCounting, Restart
<1>. QED  BY <1>2, <1>3, <1>4, <1>5 DEF Next

LEMMA RateBound == ASSUME RateIInv PROVE RateIsCapped
<1>1. DashboardAssumption
  BY DashboardAssumption
<1>2. /\ clock \in Nat /\ mark \in Nat \cup {-1} /\ mark <= clock /\ grants \in Nat
      /\ bucket.last \in Nat /\ bucket.last <= clock /\ bucket.tokens \in 0..Capacity
  BY <1>1 DEF RateIInv, TypeInv, TypeOK, Timely
<1>. DEFINE over == grants - Capacity - 1
            account == grants + bucket.tokens - Capacity
<1>3. over \in Int /\ account \in Int /\ over + 1 <= account
  BY <1>1, <1>2
<1>4. CASE grants = 0
  <2>1. over <= 0
    BY <1>1, <1>2, <1>4
  <2>. HIDE DEF over
  <2>2. over * Refill <= 0 * Refill
    BY <1>1, <1>3, <2>1, TimesMonotone
  <2>3. over * Refill \in Int /\ 0 * Refill = 0
    BY <1>1, <1>3
  <2>4. mark # -1 => over * Refill <= clock - mark
    BY <1>2, <2>2, <2>3
  <2>. QED  BY <2>4 DEF over, RateIsCapped
<1>5. CASE grants # 0
  <2>1. account * Refill <= bucket.last - mark + Refill
    BY <1>5 DEF RateIInv, RateInv
  <2>. HIDE DEF over, account
  <2>2. (over + 1) * Refill <= account * Refill
    BY <1>1, <1>3, TimesMonotone
  <2>3. (over + 1) * Refill = over * Refill + 1 * Refill /\ 1 * Refill = Refill
    BY <1>1, <1>3, Distributes
  <2>4. over * Refill \in Int /\ account * Refill \in Int
    BY <1>1, <1>3
  <2>5. over * Refill <= clock - mark
    BY <1>1, <1>2, <2>1, <2>2, <2>3, <2>4
  <2>. QED  BY <2>5 DEF over, RateIsCapped
<1>. QED  BY <1>4, <1>5

\* From any moment on, questions reach the LLM at most at the promised rate.
THEOREM RateCapped == Spec => []RateIsCapped
<1>1. Init => RateIInv
  BY InitType DEF Init, RateIInv, RateInv
<1>. QED  BY <1>1, RateNext, RateBound, PTL DEF Spec

----------------------------------------------------------------------------
(* Sessions.                                                               *)

\* The map holds the unrevoked tokens that have not expired, each with the expiry its
\* login gave it; expired ones may linger.
SessionInv ==
    /\ \A t \in Tokens : sessions[t] # 0 =>
          t \notin revoked /\ issued[t] # 0 /\ sessions[t] = issued[t] + TTL
    /\ \A t \in revoked : issued[t] # 0
    /\ LiveSessionsStay

SessionIInv == TypeInv /\ SessionInv /\ OverflowSpansOneTTL

LEMMA HeldFinite ==
    IsFiniteSet(Held) /\ IsFiniteSet(Held') /\ Cardinality(Held) \in Nat
    /\ Cardinality(Held') \in Nat
<1>1. IsFiniteSet(Tokens)
  BY DashboardAssumption, FS_Interval DEF Tokens
<1>2. Held \subseteq Tokens /\ Held' \subseteq Tokens
  BY DEF Held
<1>. QED  BY <1>1, <1>2, FS_Subset, FS_CardinalityType

\* A map that only loses sessions stays within its bound.
LEMMA Shrinks ==
    ASSUME OverflowSpansOneTTL,
           \A t \in Tokens : sessions'[t] = 0 \/ sessions'[t] = sessions[t]
    PROVE  OverflowSpansOneTTL'
<1>1. Held' \subseteq Held
  BY DEF Held
<1>2. Cardinality(Held') <= Cardinality(Held)
  BY <1>1, HeldFinite, FS_Subset
<1>3. MaxSessions \in Nat
  BY DashboardAssumption
<1>4. CASE Cardinality(Held') > MaxSessions
  <2>1. Cardinality(Held) > MaxSessions
    BY <1>2, <1>3, <1>4, HeldFinite
  <2>2. \A t \in Held' : sessions'[t] = sessions[t]
    BY DEF Held
  <2>. QED  BY <1>1, <2>1, <2>2 DEF OverflowSpansOneTTL
<1>5. CASE ~(Cardinality(Held') > MaxSessions)
  BY <1>5 DEF OverflowSpansOneTTL
<1>. QED  BY <1>4, <1>5

LEMMA LoginKeeps == ASSUME SessionIInv, Login PROVE SessionInv' /\ OverflowSpansOneTTL'
<1>1. DashboardAssumption
  BY DashboardAssumption
<1>2. PICK n \in Tokens : /\ issued[n] = 0
                          /\ sessions' = [Swept EXCEPT ![n] = clock + TTL]
                          /\ issued' = [issued EXCEPT ![n] = clock]
                          /\ clock' = clock /\ revoked' = revoked
  BY DEF Login
<1>3. /\ clock \in Nat /\ issued \in [Tokens -> Nat] /\ sessions \in [Tokens -> Nat]
      /\ TTL \in Nat \ {0} /\ MaxSessions \in Nat
      /\ \A t \in Tokens : issued[t] <= clock
  BY <1>1 DEF SessionIInv, TypeInv, TypeOK, Timely
<1>4. Swept \in [Tokens -> Nat]
  BY SweptType DEF SessionIInv
<1>5. /\ \A t \in Tokens \ {n} : sessions'[t] = Swept[t] /\ issued'[t] = issued[t]
      /\ sessions'[n] = clock + TTL /\ issued'[n] = clock
  BY <1>2, <1>3, <1>4
<1>6. \A t \in Tokens : Swept[t] = 0 \/ Swept[t] = sessions[t]
  BY <1>3 DEF Swept
<1>7. \A t \in Tokens : sessions[t] # 0 /\ clock <= sessions[t] => Swept[t] = sessions[t]
  BY <1>3 DEF Swept, Expired
<1>8. sessions[n] = 0 /\ n \notin revoked
  BY <1>2 DEF SessionIInv, SessionInv
<1>9. \A t \in Tokens : sessions'[t] # 0 =>
          t \notin revoked' /\ issued'[t] # 0 /\ sessions'[t] = issued'[t] + TTL
  BY <1>2, <1>3, <1>5, <1>6, <1>8 DEF SessionIInv, SessionInv, TypeInv, Timely
<1>10. \A t \in revoked' : issued'[t] # 0
  BY <1>2, <1>3, <1>8 DEF SessionIInv, SessionInv, TypeInv, TypeOK
<1>11. LiveSessionsStay'
  <2>1. SUFFICES ASSUME NEW t \in Tokens \ revoked', issued'[t] # 0, clock <= issued'[t] + TTL
                 PROVE  sessions'[t] # 0
    BY <1>2 DEF LiveSessionsStay, Held
  <2>2. CASE t = n
    BY <1>3, <1>5, <2>2
  <2>3. CASE t # n
    <3>1. sessions[t] # 0 /\ clock <= sessions[t]
      BY <1>2, <1>5, <2>1, <2>3 DEF SessionIInv, SessionInv, LiveSessionsStay, Held
    <3>. QED  BY <1>5, <1>7, <2>3, <3>1
  <2>. QED  BY <2>2, <2>3
<1>12. OverflowSpansOneTTL'
  <2>1. CASE Cardinality(Held) >= MaxSessions
    <3>1. \A t \in Tokens : Swept[t] # 0 => Swept[t] >= clock
      BY <1>3, <2>1 DEF Swept, Expired
    <3>2. \A t \in Tokens : sessions[t] # 0 => sessions[t] <= clock + TTL
      BY <1>3 DEF SessionIInv, SessionInv
    <3>3. \A t \in Held' : sessions'[t] >= clock /\ sessions'[t] <= clock + TTL
      BY <1>3, <1>4, <1>5, <1>6, <3>1, <3>2 DEF Held
    <3>. QED  BY <1>3, <1>4, <1>5, <3>3 DEF OverflowSpansOneTTL, Held
  <2>2. CASE ~(Cardinality(Held) >= MaxSessions)
    <3>1. Held' \subseteq Held \cup {n}
      BY <1>5, <1>6 DEF Held
    <3>2. /\ IsFiniteSet(Held \cup {n})
          /\ Cardinality(Held \cup {n}) = Cardinality(Held) + 1
      BY <1>8, HeldFinite, FS_AddElement DEF Held
    <3>3. Cardinality(Held') <= Cardinality(Held) + 1
      BY <3>1, <3>2, FS_Subset
    <3>. QED  BY <1>3, <2>2, <3>3, HeldFinite DEF OverflowSpansOneTTL
  <2>. QED  BY <2>1, <2>2
<1>. QED  BY <1>9, <1>10, <1>11, <1>12 DEF SessionInv

LEMMA SessionNext == ASSUME SessionIInv, [Next]_vars PROVE SessionIInv'
<1>1. TypeInv'
  BY NextType DEF SessionIInv
<1>2. /\ clock \in Nat /\ issued \in [Tokens -> Nat] /\ sessions \in [Tokens -> Nat]
      /\ TTL \in Nat \ {0}
      /\ cookie \in [Requests -> Tokens \cup {0}]
  BY DashboardAssumption DEF SessionIInv, TypeInv, TypeOK
<1>. USE DEF SessionIInv
<1>3. CASE Login
  BY <1>1, <1>3, LoginKeeps
<1>4. ASSUME NEW t \in Tokens, Logout(t) PROVE SessionIInv'
  <2>1. /\ sessions' = [sessions EXCEPT ![t] = 0] /\ revoked' = revoked \cup {t}
        /\ clock' = clock /\ issued' = issued /\ issued[t] # 0
    BY <1>4 DEF Logout
  <2>2. OverflowSpansOneTTL'
    BY <1>2, <2>1, Shrinks
  <2>3. SessionInv'
    BY <1>2, <2>1 DEF SessionInv, LiveSessionsStay, Held
  <2>. QED  BY <1>1, <2>2, <2>3
<1>5. ASSUME NEW r \in Requests, Reject(r) PROVE SessionIInv'
  <2>1. clock' = clock /\ issued' = issued /\ revoked' = revoked
    BY <1>5 DEF Reject, history
  <2>2. \/ sessions' = sessions
        \/ /\ cookie[r] \in Tokens /\ Expired(cookie[r]) /\ sessions[cookie[r]] # 0
           /\ sessions' = [sessions EXCEPT ![cookie[r]] = 0]
    BY <1>5 DEF Reject, Held
  <2>3. OverflowSpansOneTTL'
    BY <1>2, <2>2, Shrinks
  <2>4. SessionInv'
    BY <1>2, <2>1, <2>2 DEF SessionInv, LiveSessionsStay, Held, Expired
  <2>. QED  BY <1>1, <2>3, <2>4
<1>6. CASE Restart
  <2>1. /\ \A t \in Tokens : sessions'[t] = 0
        /\ issued' = issued /\ revoked' = {t \in Tokens : issued[t] # 0}
    BY <1>6 DEF Restart
  <2>2. OverflowSpansOneTTL'
    BY <2>1, Shrinks
  <2>3. SessionInv'
    BY <2>1 DEF SessionInv, LiveSessionsStay
  <2>. QED  BY <1>1, <2>2, <2>3
<1>7. CASE Tick
  <2>1. clock' = clock + 1 /\ sessions' = sessions /\ issued' = issued /\ revoked' = revoked
    BY <1>7 DEF Tick, history
  <2>2. OverflowSpansOneTTL'
    BY <1>2, <2>1, Shrinks
  <2>3. SessionInv'
    BY <1>2, <2>1 DEF SessionInv, LiveSessionsStay, Held
  <2>. QED  BY <1>1, <2>2, <2>3
<1>8. CASE \/ StartCounting \/ UNCHANGED vars
           \/ \E r \in Requests : Arrive(r) \/ Admit(r) \/ Ask(r) \/ Limited(r) \/ Answered(r)
  <2>1. UNCHANGED <<clock, sessions, issued, revoked>>
    BY <1>8 DEF StartCounting, vars, Arrive, Admit, Ask, Limited, Answered, history
  <2>2. OverflowSpansOneTTL'
    BY <2>1, Shrinks
  <2>3. SessionInv'
    BY <2>1 DEF SessionInv, LiveSessionsStay, Held
  <2>. QED  BY <1>1, <2>2, <2>3
<1>. QED  BY <1>3, <1>4, <1>5, <1>6, <1>7, <1>8 DEF Next

LEMMA SessionInit == ASSUME Init PROVE SessionIInv
<1>1. Held = {}
  BY DEF Init, Held
<1>2. OverflowSpansOneTTL
  BY <1>1 DEF OverflowSpansOneTTL
<1>3. SessionInv
  BY DEF Init, SessionInv, LiveSessionsStay
<1>. QED  BY <1>2, <1>3, InitType DEF SessionIInv

LEMMA SessionInvariant == Spec => []SessionIInv
BY SessionInit, SessionNext, PTL DEF Spec

\* No live session is swept away.
THEOREM LiveSessionsKept == Spec => []LiveSessionsStay
<1>1. SessionIInv => LiveSessionsStay  BY DEF SessionIInv, SessionInv
<1>. QED  BY <1>1, SessionInvariant, PTL

\* An oversize map spans one TTL.
THEOREM OverflowBounded == Spec => []OverflowSpansOneTTL
<1>1. SessionIInv => OverflowSpansOneTTL  BY DEF SessionIInv
<1>. QED  BY <1>1, SessionInvariant, PTL

\* Nobody is let in on a session that is expired, logged out or of another process.
THEOREM OnlyLiveEnter == Spec => OnlyLiveSessionsEnter
<1>. DEFINE A == \A r \in Requests : pc[r] = "auth" /\ pc'[r] = "admitted"
                    => /\ cookie[r] \in Tokens \ revoked
                       /\ clock <= issued[cookie[r]] + TTL
<1>1. ASSUME SessionIInv, [Next]_vars PROVE A
  <2>1. SUFFICES ASSUME NEW r \in Requests, pc[r] = "auth", pc'[r] = "admitted"
                 PROVE  /\ cookie[r] \in Tokens \ revoked
                        /\ clock <= issued[cookie[r]] + TTL
    OBVIOUS
  <2>2. pc \in [Requests -> States] /\ clock \in Nat /\ sessions \in [Tokens -> Nat]
    BY <1>1 DEF SessionIInv, TypeInv, TypeOK, States
  <2>3. Admit(r)
    BY <1>1, <2>1, <2>2 DEF Next, Tick, Login, StartCounting, Restart, Logout, Arrive, Admit,
       Reject, Ask, Limited, Answered, Leave, gate, vars
  <2>4. cookie[r] \in Tokens /\ sessions[cookie[r]] # 0 /\ clock <= sessions[cookie[r]]
    BY <2>2, <2>3 DEF Admit, Held, Expired
  <2>. QED  BY <1>1, <2>4 DEF SessionIInv, SessionInv
<1>2. ASSUME SessionIInv, [Next]_vars PROVE [A]_vars
  BY <1>1, <1>2
<1>. HIDE DEF A
<1>3. Spec => [][A]_vars
  BY <1>2, SessionInvariant, PTL DEF Spec
<1>. QED  BY <1>3 DEF OnlyLiveSessionsEnter, A

----------------------------------------------------------------------------
(* The reception.  Refilled is what the bucket would be, were every token  *)
(* put in at its moment; what the map holds and nobody has swept is, of    *)
(* the sessions that let in, all of them.                                  *)

\* A tick more is a whole interval more, or a part of one.
LEMMA OneMoreTick ==
    ASSUME NEW a \in Nat, NEW r \in Nat \ {0}
    PROVE  /\ a % r \in 0..r - 1
           /\ (a % r) + 1 = r => (a + 1) \div r = a \div r + 1 /\ (a + 1) % r = 0
           /\ (a % r) + 1 # r => (a + 1) \div r = a \div r /\ (a + 1) % r = (a % r) + 1
OBVIOUS

\* What is left of the time when the whole intervals are taken off.
LEMMA CarriedOver ==
    ASSUME NEW a \in Nat, NEW r \in Nat \ {0}
    PROVE  LET rest == a - (a \div r) * r
           IN  rest \in Nat /\ rest \div r = 0 /\ rest % r = a % r
OBVIOUS

Elapsed == clock - bucket.last

LEMMA GateType ==
    ASSUME TypeInv
    PROVE  /\ clock \in Nat /\ Elapsed \in Nat
           /\ Refill \in Nat \ {0} /\ Capacity \in Nat \ {0}
           /\ bucket.tokens \in 0..Capacity /\ bucket.last \in Nat
           /\ Elapsed \div Refill \in Nat
           /\ Refilled.tokens = Least(bucket.tokens + (Elapsed \div Refill), Capacity)
           /\ Refilled.last = bucket.last + (Elapsed \div Refill) * Refill
<1>1. DashboardAssumption
  BY DashboardAssumption
<1>2. /\ clock \in Nat /\ Elapsed \in Nat /\ bucket.tokens \in 0..Capacity
      /\ bucket.last \in Nat
  BY <1>1 DEF TypeInv, TypeOK, Timely, Elapsed
<1>3. Elapsed \div Refill \in Nat
  BY <1>1, <1>2, DivBounds
<1>. QED  BY <1>1, <1>2, <1>3 DEF Refilled, Elapsed

\* A bucket that was just brought up to date is what it is.
LEMMA UpToDate ==
    ASSUME TypeInv, clock' = clock, bucket'.last = Refilled.last,
           bucket'.tokens \in 0..Capacity
    PROVE  Refilled'.tokens = bucket'.tokens /\ Elapsed' % Refill = Elapsed % Refill
<1>. DEFINE rest == Elapsed - (Elapsed \div Refill) * Refill
<1>1. rest \in Nat /\ rest \div Refill = 0 /\ rest % Refill = Elapsed % Refill
  BY GateType, CarriedOver
<1>2. Elapsed' = rest
  <2>1. Elapsed' = clock - Refilled.last
    BY DEF Elapsed
  <2>2. (Elapsed \div Refill) * Refill \in Int
    BY GateType
  <2>. QED  BY <2>1, <2>2, GateType DEF Elapsed
<1>. HIDE DEF rest
<1>3. Refilled'.tokens = Least(bucket'.tokens + (Elapsed' \div Refill), Capacity)
  BY DEF Refilled, Elapsed
<1>4. Capacity \in Nat
  BY GateType
<1>. QED  BY <1>1, <1>2, <1>3, <1>4 DEF Least

LEMMA FrontTick == ASSUME TypeInv, Tick PROVE Front!Tick
<1>. DEFINE phase == (clock - bucket.last) % Refill
            add == Elapsed \div Refill
            addNext == Elapsed' \div Refill
<1>1. clock' = clock + 1 /\ bucket' = bucket
  BY DEF Tick
<1>2. Elapsed' = Elapsed + 1
  BY <1>1, GateType DEF Elapsed
<1>3. /\ phase + 1 = Refill => addNext = add + 1 /\ phase' = 0
      /\ phase + 1 # Refill => addNext = add /\ phase' = phase + 1
      /\ phase \in 0..Refill - 1
  <2>. DEFINE a == Elapsed
  <2>1. /\ (a % Refill) + 1 = Refill
              => (a + 1) \div Refill = a \div Refill + 1 /\ (a + 1) % Refill = 0
        /\ (a % Refill) + 1 # Refill
              => (a + 1) \div Refill = a \div Refill /\ (a + 1) % Refill = (a % Refill) + 1
        /\ a % Refill \in 0..Refill - 1
    BY GateType, OneMoreTick
  <2>2. phase = a % Refill /\ phase' = Elapsed' % Refill
    BY DEF Elapsed
  <2>. HIDE DEF phase
  <2>. QED  BY <1>2, <2>1, <2>2
<1>4. /\ Refilled.tokens = Least(bucket.tokens + add, Capacity)
      /\ Refilled'.tokens = Least(bucket.tokens + addNext, Capacity)
  BY <1>1, GateType DEF Refilled, Elapsed
<1>5. add \in Nat /\ bucket.tokens \in 0..Capacity /\ Capacity \in Nat
      /\ Refill \in Nat \ {0}
  BY GateType
<1>6. UNCHANGED <<Until, pc, cookie>>
  BY DEF Tick, Until, history, gate
<1>. HIDE DEF phase, add, addNext
<1>7. phase' = IF phase + 1 = Refill THEN 0 ELSE phase + 1
  BY <1>3
<1>8. Refilled'.tokens = IF phase' = 0 /\ Refilled.tokens < Capacity
                         THEN Refilled.tokens + 1 ELSE Refilled.tokens
  BY <1>3, <1>4, <1>5 DEF Least
<1>. QED  BY <1>1, <1>6, <1>7, <1>8 DEF Front!Tick, Front!visitors, phase

\* What the steps leave alone.
LEMMA FrontSame ==
    /\ UNCHANGED <<clock, bucket>> =>
          UNCHANGED <<clock, Refilled.tokens, (clock - bucket.last) % Refill>>
    /\ UNCHANGED <<issued, revoked>> => UNCHANGED Until
BY DEF Refilled, Until

\* The sessions that let in are in the map, and no other that has time left.
LEMMA LetsInExactly ==
    ASSUME SessionIInv, NEW t \in Tokens \cup {0}
    PROVE  Front!LetsIn(t) <=> t \in Held /\ ~Expired(t)
<1>1. /\ clock \in Nat /\ clock > 0 /\ sessions \in [Tokens -> Nat] /\ TTL \in Nat
      /\ issued \in [Tokens -> Nat] /\ 0 \notin Tokens
  BY DashboardAssumption DEF SessionIInv, TypeInv, TypeOK, Timely, Tokens
<1>2. CASE t = 0
  BY <1>1, <1>2 DEF Front!LetsIn, Held
<1>3. CASE t \in Tokens
  <2>1. Front!LetsIn(t) <=> clock <= Until[t]
    BY <1>3 DEF Front!LetsIn
  <2>2. Until[t] = IF issued[t] = 0 THEN -1 ELSE IF t \in revoked THEN 0 ELSE issued[t] + TTL
    BY <1>3 DEF Until
  <2>3. clock <= Until[t] <=> issued[t] # 0 /\ t \notin revoked /\ clock <= issued[t] + TTL
    BY <1>1, <1>3, <2>2
  <2>4. ASSUME issued[t] # 0, t \notin revoked, clock <= issued[t] + TTL
        PROVE  t \in Held /\ ~Expired(t)
    <3>1. t \in Held
      BY <1>3, <2>4 DEF SessionIInv, SessionInv, LiveSessionsStay
    <3>. QED  BY <1>1, <1>3, <2>4, <3>1 DEF SessionIInv, SessionInv, Held, Expired
  <2>5. ASSUME t \in Held, ~Expired(t)
        PROVE  issued[t] # 0 /\ t \notin revoked /\ clock <= issued[t] + TTL
    BY <1>1, <1>3, <2>5 DEF SessionIInv, SessionInv, Held, Expired
  <2>. QED  BY <2>1, <2>3, <2>4, <2>5
<1>. QED  BY <1>2, <1>3

\* A session was opened when its token was issued.
LEMMA OpenedExactly ==
    ASSUME SessionIInv
    PROVE  /\ Until \in [Tokens -> Int]
           /\ \A t \in Tokens : Until[t] = -1 <=> issued[t] = 0
<1>1. TTL \in Nat /\ issued \in [Tokens -> Nat]
  BY DashboardAssumption DEF SessionIInv, TypeInv, TypeOK
<1>. QED  BY <1>1 DEF Until

LEMMA FrontInit == ASSUME Init PROVE Front!Init
<1>1. TypeInv
  BY InitType
<1>2. Elapsed = 0 /\ Refill \in Nat \ {0} /\ Capacity \in Nat
  BY <1>1, GateType DEF Init, FullBucket, Elapsed
<1>3. 0 \div Refill = 0 /\ 0 % Refill = 0
  BY <1>2
<1>4. Refilled.tokens = Capacity /\ (clock - bucket.last) % Refill = 0
  <2>1. bucket.tokens = Capacity
    BY DEF Init, FullBucket
  <2>2. Refilled.tokens = Least(Capacity + 0, Capacity)
    BY <1>1, <1>2, <1>3, <2>1, GateType
  <2>3. (clock - bucket.last) % Refill = 0
    BY <1>2, <1>3 DEF Elapsed
  <2>. QED  BY <1>2, <2>2, <2>3 DEF Least
<1>5. Until = [t \in Tokens |-> -1]
  BY DEF Init, Until
<1>. QED  BY <1>4, <1>5 DEF Init, Front!Init, Front!Fresh, Front!Never

LEMMA FrontRestart == ASSUME SessionIInv, Restart PROVE Front!Restart
<1>1. TypeInv
  BY DEF SessionIInv
<1>2. /\ bucket' = [tokens |-> Capacity, last |-> clock] /\ clock' = clock /\ issued' = issued
      /\ revoked' = {t \in Tokens : issued[t] # 0}
      /\ pc' = [r \in Requests |-> "idle"] /\ cookie' = [r \in Requests |-> 0]
  BY DEF Restart, FullBucket
<1>3. Elapsed' = 0 /\ Refill \in Nat \ {0} /\ Capacity \in Nat
  BY <1>1, <1>2, GateType DEF Elapsed
<1>4. 0 \div Refill = 0 /\ 0 % Refill = 0
  BY <1>3
<1>5. Refilled'.tokens = Capacity /\ (clock' - bucket'.last) % Refill = 0
  <2>1. Refilled'.tokens = Least(bucket'.tokens + (Elapsed' \div Refill), Capacity)
    BY DEF Refilled, Elapsed
  <2>. QED  BY <1>2, <1>3, <1>4, <2>1 DEF Elapsed, Least
<1>6. Until' = [t \in Tokens |-> IF t \in Front!Opened THEN 0 ELSE -1]
  BY <1>2, OpenedExactly DEF Until, Front!Opened, Front!Never
<1>. QED  BY <1>2, <1>5, <1>6 DEF Front!Restart, Front!Fresh, Front!Over, Front!Never

LEMMA FrontServed ==
    ASSUME SessionIInv, NEW r \in Requests, Ask(r) PROVE Front!Served(r)
<1>1. TypeInv
  BY DEF SessionIInv
<1>2. Refilled \in Bucket /\ Refilled.tokens > 0
  BY <1>1, RefilledType DEF Ask
<1>3. bucket'.tokens = Refilled.tokens - 1 /\ bucket'.last = Refilled.last /\ clock' = clock
  BY <1>2 DEF Ask, Bucket
<1>4. bucket'.tokens \in 0..Capacity
  BY <1>1, <1>2, <1>3, GateType DEF Bucket
<1>5. Refilled'.tokens = Refilled.tokens - 1
      /\ (clock' - bucket'.last) % Refill = (clock - bucket.last) % Refill
  BY <1>1, <1>3, <1>4, UpToDate DEF Elapsed
<1>. QED  BY <1>2, <1>3, <1>5, FrontSame DEF Ask, Front!Served, history

LEMMA FrontRefused ==
    ASSUME SessionIInv, NEW r \in Requests, Limited(r) PROVE Front!Refused(r)
<1>1. TypeInv
  BY DEF SessionIInv
<1>2. Refilled \in Bucket /\ Refilled.tokens <= 0
  BY <1>1, RefilledType DEF Limited
<1>3. bucket' = Refilled /\ clock' = clock
  BY DEF Limited
<1>4. Refilled'.tokens = Refilled.tokens
      /\ (clock' - bucket'.last) % Refill = (clock - bucket.last) % Refill
  BY <1>1, <1>2, <1>3, UpToDate DEF Elapsed, Bucket
<1>5. Refilled.tokens = 0
  BY <1>2 DEF Bucket
<1>. QED  BY <1>3, <1>4, <1>5, FrontSame
          DEF Limited, Leave, Front!Refused, Front!Leaves, history

LEMMA FrontNext == ASSUME SessionIInv, [Next]_vars PROVE [Front!Next]_(Front!reception)
<1>. USE DEF Front!Next, Front!reception, Front!visitors
<1>1. CASE Tick
  BY <1>1, FrontTick DEF SessionIInv
<1>2. CASE Login
  <2>1. PICK t \in Tokens : /\ issued[t] = 0 /\ issued' = [issued EXCEPT ![t] = clock]
                            /\ UNCHANGED <<clock, bucket, pc, cookie, revoked>>
    BY <1>2 DEF Login, gate
  <2>2. Until' = [Until EXCEPT ![t] = clock + TTL]
    <3>1. t \notin revoked /\ clock # 0 /\ issued \in [Tokens -> Nat]
      BY <2>1 DEF SessionIInv, SessionInv, TypeInv, TypeOK, Timely
    <3>. QED  BY <2>1, <3>1 DEF Until
  <2>3. Front!Open(t)
    BY <2>1, <2>2, OpenedExactly, FrontSame DEF Front!Open, Front!Opened, Front!Never
  <2>. QED  BY <2>3
<1>3. ASSUME NEW t \in Tokens, Logout(t) PROVE Front!Close(t)
  <2>1. /\ issued[t] # 0 /\ revoked' = revoked \cup {t}
        /\ UNCHANGED <<clock, bucket, pc, cookie, issued>>
    BY <1>3 DEF Logout, gate
  <2>2. Until' = [Until EXCEPT ![t] = 0]
    BY <2>1 DEF Until
  <2>. QED  BY <2>1, <2>2, OpenedExactly, FrontSame
            DEF Front!Close, Front!Opened, Front!Never, Front!Over
<1>4. ASSUME NEW r \in Requests, Arrive(r) PROVE Front!Come(r)
  <2>1. {u \in Tokens : issued[u] # 0} = Front!Opened
    BY OpenedExactly DEF Front!Opened, Front!Never
  <2>. QED  BY <1>4, <2>1, FrontSame DEF Arrive, Front!Come, history
<1>5. ASSUME NEW r \in Requests, Admit(r) PROVE Front!Enter(r)
  <2>1. cookie[r] \in Tokens \cup {0}
    BY DEF SessionIInv, TypeInv, TypeOK
  <2>. QED  BY <1>5, <2>1, LetsInExactly, FrontSame DEF Admit, Front!Enter, history
<1>6. ASSUME NEW r \in Requests, Reject(r) PROVE Front!TurnedAway(r)
  <2>1. cookie[r] \in Tokens \cup {0}
    BY DEF SessionIInv, TypeInv, TypeOK
  <2>2. ~Front!LetsIn(cookie[r])
    BY <1>6, <2>1, LetsInExactly DEF Reject
  <2>. QED  BY <1>6, <2>2, FrontSame
            DEF Reject, Leave, Front!TurnedAway, Front!Leaves, history
<1>7. ASSUME NEW r \in Requests, Ask(r) PROVE Front!Served(r)
  BY <1>7, FrontServed
<1>8. ASSUME NEW r \in Requests, Limited(r) PROVE Front!Refused(r)
  BY <1>8, FrontRefused
<1>9. ASSUME NEW r \in Requests, Answered(r) PROVE Front!Answered(r)
  BY <1>9, FrontSame DEF Answered, Leave, Front!Answered, Front!Leaves, history
<1>10. CASE StartCounting \/ UNCHANGED vars
  BY <1>10, FrontSame DEF StartCounting, vars, gate, history
<1>11. CASE Restart
  BY <1>11, FrontRestart
<1>. QED  BY <1>1, <1>2, <1>3, <1>4, <1>5, <1>6, <1>7, <1>8, <1>9, <1>10, <1>11 DEF Next

\* Lazy sweeps, a capped map and a bucket that is filled when it is looked at give every
\* request the answer that Reception gives: for any number of requests and sessions, any
\* TTL, cap, capacity and interval, and through restarts.
THEOREM DashboardImplementsReception == Spec => ImplementsReception
BY SessionInit, SessionNext, FrontInit, FrontNext, PTL
   DEF Spec, ImplementsReception, Front!Spec
=============================================================================
