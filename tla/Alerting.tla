------------------------------ MODULE Alerting ------------------------------
(***************************************************************************)
(* alert.Evaluate over the gate of Notifier: which scan wakes the chat.    *)
(*                                                                         *)
(* After a scan, its goroutine goes through the samples in order.  For a   *)
(* file system that is nearly full it sends a message, waits for Send to   *)
(* return, drops the error and goes on.  The two levels of one file system *)
(* have keys of their own.  Big items and orphan volumes are recorded, and *)
(* not sent.  Scans overlap, and share the gate with all the other senders *)
(* (review, digest, report, bot), whose keys are not those of the rules.   *)
(***************************************************************************)
EXTENDS Notifier

CONSTANTS
    FSCount,        \* number of fs samples of a scan
    Capacities,     \* what Statfs can say of one: [total, avail]; one that fails is like a quiet one
    WarnPct,        \* Rules.FSWarnPct
    CritPct,        \* Rules.FSCritPct
    MaxRounds       \* bound: scans with something to tell, and other messages, in one behaviour

FS == 1..FSCount
Levels == {"fs-warn", "fs-crit"}

\* Mutant: the two levels of a file system have one key.
KeyOfFS(level, f) == <<"fs-warn", f>>

\* "fs-crit:"+s.Key, "fs-warn:"+s.Key
Key(level, f) == <<level, f>>

RuleKeys == {Key(level, f) : level \in Levels, f \in FS}

ASSUME AlertingAssumption ==
    /\ FSCount \in Nat
    /\ Capacities # {} /\ Capacities \subseteq [total : Nat, avail : Nat]
    /\ WarnPct \in Nat /\ CritPct \in Nat
    /\ MaxRounds \in Nat
    /\ Levels \X FS \subseteq Keys

VARIABLES
    batch,      \* the fs samples of the scan each goroutine evaluates
    pos,        \* the sample Evaluate tells of, 0 outside of it
    since,      \* history: when that Evaluate began
    told,       \* history: when a message on a level of a file system was last accepted, or 0
    rounds      \* bound

rules == <<batch, pos, since, told, rounds>>
alertVars == <<vars, rules>>

Empty == [f \in FS |-> CHOOSE c \in Capacities : TRUE]

AlertInit ==
    /\ Init
    /\ batch = [s \in Senders |-> Empty]
    /\ pos = [s \in Senders |-> 0]
    /\ since = [s \in Senders |-> 0]
    /\ told = [m \in Levels \X FS |-> 0]
    /\ rounds = 0

----------------------------------------------------------------------------
\* fsPercent(s) >= pct: a file system of size 0 counts as 0 %.
Reaches(c, pct) ==
    IF c.total = 0 THEN pct <= 0 ELSE 100 * (c.total - c.avail) >= pct * c.total

LevelOf(c) ==
    IF Reaches(c, CritPct) THEN "fs-crit" ELSE IF Reaches(c, WarnPct) THEN "fs-warn" ELSE "ok"

\* The samples after the one at i that are to be told of.
Due(b, i) == {f \in FS : f > i /\ LevelOf(b[f]) # "ok"}

\* Evaluate returns, or was never entered; the samples go.
Return(s) ==
    /\ pos' = [pos EXCEPT ![s] = 0]
    /\ batch' = [batch EXCEPT ![s] = Empty]
    /\ since' = [since EXCEPT ![s] = 0]

\* The loop goes on to the next sample to be told of: the others take no step that
\* anybody could notice.
GoOn(s, b) ==
    \/ Due(b, pos[s]) = {} /\ Return(s)
    \/ \E f \in Due(b, pos[s]) :
          /\ \A g \in Due(b, pos[s]) : f <= g
          /\ pos' = [pos EXCEPT ![s] = f]
          /\ batch' = [batch EXCEPT ![s] = b]
          /\ since' = [since EXCEPT ![s] = IF pos[s] = 0 THEN clock ELSE @]

Round == rounds < MaxRounds /\ rounds' = rounds + 1

\* A scan is over, its samples are inserted, and Evaluate begins.
BeginEvaluate(s) ==
    /\ pos[s] = 0
    /\ pc[s] = "idle"
    /\ \E b \in [FS -> Capacities] :
          /\ \/ Due(b, 0) # {} /\ Round
             \/ Due(b, 0) = {} /\ UNCHANGED rounds
          /\ GoOn(s, b)
    /\ UNCHANGED <<vars, told>>

\* n.Send(ctx, "fs-...:"+s.Key, msg) is entered.
Raise(s) ==
    /\ pos[s] # 0
    /\ Begin(s, Key(LevelOf(batch[s][pos[s]]), pos[s]))
    /\ UNCHANGED rules

\* Another part of the daemon sends something.
SendOther(s) ==
    /\ pos[s] = 0
    /\ \E k \in Keys \ RuleKeys : Begin(s, k)
    /\ Round
    /\ UNCHANGED <<batch, pos, since, told>>

\* The gate lets the message pass.
Passes(s) ==
    /\ Accept(s)
    /\ told' = IF pos[s] = 0 THEN told
               ELSE [told EXCEPT ![<<LevelOf(batch[s][pos[s]]), pos[s]>>] = clock]
    /\ UNCHANGED <<batch, pos, since, rounds>>

\* Mutant: the loop ends with the first message that is not posted.
ReturnsEarly(s) ==
    /\ Suppress(s) \/ Finish(s)
    /\ IF pos[s] = 0 \/ pc[s] = "deciding" THEN Return(s) ELSE GoOn(s, batch[s])
    /\ UNCHANGED <<told, rounds>>

\* Send returns, with or without an error, and the loop goes on.
Returns(s) ==
    /\ Suppress(s) \/ Finish(s)
    /\ IF pos[s] = 0 THEN UNCHANGED <<pos, batch, since>> ELSE GoOn(s, batch[s])
    /\ UNCHANGED <<told, rounds>>

AlertNext ==
    \/ Tick /\ UNCHANGED rules
    \/ \E s \in Senders :
          BeginEvaluate(s) \/ Raise(s) \/ SendOther(s) \/ Passes(s) \/ Returns(s)

AlertSpec == AlertInit /\ [][AlertNext]_alertVars

----------------------------------------------------------------------------
\* The shape of the state.
AlertTypeOK ==
    /\ TypeOK
    /\ batch \in [Senders -> [FS -> Capacities]]
    /\ pos \in [Senders -> 0..FSCount]
    /\ since \in [Senders -> Nat]
    /\ told \in [Levels \X FS -> Nat]
    /\ rounds \in 0..MaxRounds

\* When Evaluate is done, the gate has accepted a message on every file system of its
\* scan that is critical, as critical, and on every one to be warned of, as that: by this
\* scan, or at most a window and a stall before it began.  So a message of the lower level
\* never silences the escalation to the higher one, and no failing or suppressed message
\* takes the rest of the samples with it, whatever other scans and senders do to the gate.
\* (Accepted, before the POST: one that Telegram then refuses counts, and is not repeated.)
EveryLevelIsTold ==
    [][ \A s \in Senders : pos[s] # 0 /\ pos'[s] = 0 =>
            \A f \in Due(batch[s], 0) :
                LET at == told'[<<LevelOf(batch[s][f]), f>>]
                IN  at # 0 /\ since[s] < at + Window + MaxStall ]_alertVars
=============================================================================
