----------------------------- MODULE Reception -----------------------------
(***************************************************************************)
(* What the dashboard promises at its door and at the gate to the LLM,     *)
(* without maps, caps, sweeps and elapsed times.  A session lets in until  *)
(* its time is over, it is closed or the process ends, and never again.    *)
(* Every Refill ticks of the process's life a token falls into a bucket,   *)
(* or is lost if it is full, and each question takes one.  Whoever comes   *)
(* is let in exactly if the session lets in at that moment, and whoever is *)
(* in is served exactly if there is a token at that moment.                *)
(***************************************************************************)
EXTENDS Integers

CONSTANTS Requests, Sessions, TTL, Capacity, Refill

Never == -1     \* a session that was not opened yet
Over == 0       \* one that was closed

VARIABLES
    clock,
    until,          \* per session, the last moment it lets in
    tokens, phase,  \* the bucket, and the ticks since a token fell
    place, shown    \* where each request is, and the session it comes with, 0 for none

visitors == <<place, shown>>
reception == <<clock, until, tokens, phase, visitors>>

Opened == {s \in Sessions : until[s] # Never}
LetsIn(s) == s \in Sessions /\ clock <= until[s]

Fresh ==
    /\ tokens = Capacity /\ phase = 0
    /\ place = [r \in Requests |-> "idle"]
    /\ shown = [r \in Requests |-> 0]

Init ==
    /\ clock = 1
    /\ until = [s \in Sessions |-> Never]
    /\ Fresh

Tick ==
    /\ clock' = clock + 1
    /\ phase' = IF phase + 1 = Refill THEN 0 ELSE phase + 1
    /\ tokens' = IF phase' = 0 /\ tokens < Capacity THEN tokens + 1 ELSE tokens
    /\ UNCHANGED <<until, visitors>>

Open(s) ==
    /\ s \notin Opened
    /\ until' = [until EXCEPT ![s] = clock + TTL]
    /\ UNCHANGED <<clock, tokens, phase, visitors>>

Close(s) ==
    /\ s \in Opened
    /\ until' = [until EXCEPT ![s] = Over]
    /\ UNCHANGED <<clock, tokens, phase, visitors>>

Come(r) ==
    /\ place[r] = "idle"
    /\ \E s \in Opened \cup {0} : shown' = [shown EXCEPT ![r] = s]
    /\ place' = [place EXCEPT ![r] = "auth"]
    /\ UNCHANGED <<clock, until, tokens, phase>>

Leaves(r) ==
    /\ place' = [place EXCEPT ![r] = "idle"]
    /\ shown' = [shown EXCEPT ![r] = 0]
    /\ UNCHANGED <<clock, until, tokens, phase>>

Enter(r) ==
    /\ place[r] = "auth"
    /\ LetsIn(shown[r])
    /\ place' = [place EXCEPT ![r] = "admitted"]
    /\ UNCHANGED <<clock, until, tokens, phase, shown>>

TurnedAway(r) == place[r] = "auth" /\ ~LetsIn(shown[r]) /\ Leaves(r)

Served(r) ==
    /\ place[r] = "admitted"
    /\ tokens > 0
    /\ tokens' = tokens - 1
    /\ place' = [place EXCEPT ![r] = "asking"]
    /\ UNCHANGED <<clock, until, phase, shown>>

Refused(r) == place[r] = "admitted" /\ tokens = 0 /\ Leaves(r)

Answered(r) == place[r] = "asking" /\ Leaves(r)

\* The process ends, and the next one begins.
Restart ==
    /\ until' = [s \in Sessions |-> IF s \in Opened THEN Over ELSE Never]
    /\ Fresh'
    /\ UNCHANGED clock

Next ==
    \/ Tick \/ Restart
    \/ \E s \in Sessions : Open(s) \/ Close(s)
    \/ \E r \in Requests : \/ Come(r) \/ Enter(r) \/ TurnedAway(r)
                           \/ Served(r) \/ Refused(r) \/ Answered(r)

Spec == Init /\ [][Next]_reception
=============================================================================
