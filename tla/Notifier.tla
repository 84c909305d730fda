------------------------------ MODULE Notifier ------------------------------
(***************************************************************************)
(* alert.Telegram: the one sender every part of the daemon posts through.  *)
(*                                                                         *)
(* Scans, rules, the AI review, the digest, the dashboard's triggers and   *)
(* the bot's replies call Send from goroutines of their own.  A message    *)
(* has a key; a key accepted less than DedupeWindow ago is dropped, and    *)
(* Send returns nil.  The time is read before the mutex is taken, so a     *)
(* goroutine may decide with a time that others have already overtaken.    *)
(* The map is swept only when it outgrows maxDedupeEntries.                *)
(*                                                                         *)
(* One life of the process: the map is memory, a restart forgets it.       *)
(***************************************************************************)
EXTENDS Integers, FiniteSets

CONSTANTS
    Senders,    \* goroutines that can be inside Send at the same time
    Keys,       \* dedupe keys
    Window,     \* DedupeWindow, in ticks
    MaxEntries, \* maxDedupeEntries
    MaxStall,   \* the longest a goroutine takes from time.Now() to the mutex
    MaxClock    \* bound: ticks in one behaviour

ASSUME NotifierAssumption ==
    /\ Keys # {}
    /\ Window \in Nat \ {0}
    /\ MaxEntries \in Nat
    /\ MaxStall \in Nat
    /\ MaxClock \in Nat

VARIABLES
    clock,      \* the monotonic clock
    last,       \* Telegram.last; 0 stands for a key that is not in the map
    pc,         \* where each goroutine is in Send
    call,       \* its key and the time it read, while they matter
    accepted    \* history: when each key was last accepted for posting, 0 for never

vars == <<clock, last, pc, call, accepted>>

Idle == [key |-> CHOOSE k \in Keys : TRUE, now |-> 0]

Init ==
    /\ clock = 1
    /\ last = [k \in Keys |-> 0]
    /\ pc = [s \in Senders |-> "idle"]
    /\ call = [s \in Senders |-> Idle]
    /\ accepted = [k \in Keys |-> 0]

----------------------------------------------------------------------------
\* The keys a map holds.
Present(map) == {k \in Keys : map[k] # 0}

\* Time passes; nobody is kept from the mutex longer than MaxStall.
Tick ==
    /\ clock < MaxClock
    /\ \A s \in Senders : pc[s] = "deciding" => clock < call[s].now + MaxStall
    /\ clock' = clock + 1
    /\ UNCHANGED <<last, pc, call, accepted>>

\* now := time.Now()
Begin(s, k) ==
    /\ pc[s] = "idle"
    /\ pc' = [pc EXCEPT ![s] = "deciding"]
    /\ call' = [call EXCEPT ![s] = [key |-> k, now |-> clock]]
    /\ UNCHANGED <<clock, last, accepted>>

\* Mutant: an entry suppresses for as long as it is in the map.
InWindowForever(k, now) == last[k] # 0

\* The entry is there and now.Sub(last) < DedupeWindow, which a negative age is too.
InWindow(k, now) == last[k] # 0 /\ now - last[k] < Window

\* Under the mutex: a repeat returns nil, and nothing is posted.
Suppress(s) ==
    /\ pc[s] = "deciding"
    /\ InWindow(call[s].key, call[s].now)
    /\ pc' = [pc EXCEPT ![s] = "idle"]
    /\ call' = [call EXCEPT ![s] = Idle]
    /\ UNCHANGED <<clock, last, accepted>>

\* Mutant: an oversize map is emptied.
SweptAll(map, now) == [k \in Keys |-> 0]

\* Mutant: an oversize map is left as it is.
SweptNothing(map, now) == map

\* sweepLocked: entries before now - DedupeWindow go.
Swept(map, now) == [k \in Keys |-> IF map[k] < now - Window THEN 0 ELSE map[k]]

\* Mutant: an entry holds the cutoff of its sweep instead of its time.
MarkedCutoff(k, now) == [last EXCEPT ![k] = now - Window]

Marked(k, now) == [last EXCEPT ![k] = now]

\* Under the mutex: the key is marked before the POST, so a POST that fails still
\* suppresses the next attempts.
Accept(s) ==
    LET now    == call[s].now
        marked == Marked(call[s].key, now)
    IN  /\ pc[s] = "deciding"
        /\ ~InWindow(call[s].key, now)
        /\ last' = IF Cardinality(Present(marked)) > MaxEntries THEN Swept(marked, now) ELSE marked
        /\ accepted' = [accepted EXCEPT ![call[s].key] = clock]
        /\ pc' = [pc EXCEPT ![s] = "posting"]
        /\ call' = [call EXCEPT ![s] = Idle]
        /\ UNCHANGED clock

\* The POST comes back, with a 2xx, an error status or no answer for 15 s: the map
\* is not touched again.
Finish(s) ==
    /\ pc[s] = "posting"
    /\ pc' = [pc EXCEPT ![s] = "idle"]
    /\ UNCHANGED <<clock, last, call, accepted>>

Next ==
    \/ Tick
    \/ \E s \in Senders : \/ \E k \in Keys : Begin(s, k)
                          \/ Suppress(s) \/ Accept(s) \/ Finish(s)

Spec == Init /\ [][Next]_vars

----------------------------------------------------------------------------
\* The shape of the state.
TypeOK ==
    /\ clock \in Nat
    /\ last \in [Keys -> Nat]
    /\ pc \in [Senders -> {"idle", "deciding", "posting"}]
    /\ call \in [Senders -> [key : Keys, now : Nat]]
    /\ accepted \in [Keys -> Nat]

\* "Dedupes identical messages within DedupeWindow": two messages of one key are
\* accepted a full window apart, less the time a goroutine can lag behind, however
\* calls interleave and whatever other keys make the map overflow meanwhile.
OncePerWindow ==
    [][ \A k \in Keys : accepted[k] # 0 /\ accepted'[k] # accepted[k]
            => accepted'[k] + MaxStall >= accepted[k] + Window ]_vars

\* A dropped message is dropped for a recent one of its key: nothing is silenced on
\* account of an attempt, failed or not, more than a window and a stall ago.
SilenceIsBounded ==
    [][ \A s \in Senders : pc[s] = "deciding" /\ pc'[s] = "idle"
            => /\ accepted[call[s].key] # 0
               /\ clock < accepted[call[s].key] + Window + MaxStall ]_vars

\* maxDedupeEntries keeps a long life from accumulating "one entry per unique key
\* forever": a map above the cap holds no two entries further apart than one window.
OverflowSpansOneWindow ==
    LET kept == Present(last)
    IN  Cardinality(kept) > MaxEntries =>
            \A j, k \in kept : last[j] <= last[k] + Window + MaxStall
=============================================================================
