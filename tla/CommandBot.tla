----------------------------- MODULE CommandBot -----------------------------
(***************************************************************************)
(* alert.CommandBot: the loop that polls Telegram for commands.            *)
(*                                                                         *)
(* Telegram (external) keeps the updates of the chat in a queue until a    *)
(* getUpdates with a higher offset confirms them.  A negative offset asks  *)
(* for the end of the queue and makes Telegram forget what is before it.   *)
(* The bot's offset is memory only: every boot starts with -1, to skip     *)
(* what was sent while the daemon was down.                                *)
(*                                                                         *)
(* An update is its number; Telegram numbers them in order, and forgets    *)
(* them in order, so that its queue is always an end of what was sent.     *)
(* A command is "long" (/scan and /review by runAsync: acknowledged, a     *)
(* goroutine replies with what its handler returns), "digest" (the same,   *)
(* but its handler returns text only of an error: a digest has been sent   *)
(* by RunDigest itself), "quick" (run and answered in the loop) or         *)
(* "ignored" (another chat, or no text).                                   *)
(*                                                                         *)
(* A reply is a call of Telegram.Send.  The code drops its error, so that  *)
(* nothing here says that a reply arrives.                                 *)
(***************************************************************************)
EXTENDS Integers, Sequences

CONSTANTS
    MaxUpdates, \* bound: updates sent in one behaviour
    MaxDeaths,  \* bound: ends of the process in one behaviour
    MaxErrors,  \* bound: failed polls in one behaviour
    Limit       \* updates getUpdates returns at most (100)

ASSUME BotAssumption ==
    /\ MaxUpdates \in Nat /\ MaxDeaths \in Nat /\ MaxErrors \in Nat
    /\ Limit \in Nat \ {0}

VARIABLES
    first,      \* Telegram: the oldest update not confirmed and not forgotten
    kind,       \* Telegram: what each update sent so far asks for
    loop,       \* where Run is
    offset,     \* CommandBot.offset
    batch,      \* updates of the last answer, not handled yet
    jobs,       \* long commands whose goroutine is running
    booted,     \* history: updates that had been sent when this process booted
    polled,     \* history: updates sent by the first answer of this process, or -1
    handled,    \* history: updates handled by this process, in order
    answered,   \* history: commands this process replied to with their result
    deaths, errors \* bounds

bounds == <<deaths, errors>>
vars == <<first, kind, loop, offset, batch, jobs, booted, polled, handled, answered, bounds>>

Kinds == {"long", "digest", "quick", "ignored"}
Sent == 1..Len(kind)
Queue == first..Len(kind)

Init ==
    /\ first = 1 /\ kind = <<>>
    /\ loop = "down"
    /\ offset = -1
    /\ batch = <<>> /\ jobs = {}
    /\ booted = 0 /\ polled = -1
    /\ handled = <<>> /\ answered = {}
    /\ deaths = 0 /\ errors = 0

----------------------------------------------------------------------------
\* Somebody writes to the bot.
Send(k) ==
    /\ Len(kind) < MaxUpdates
    /\ kind' = Append(kind, k)
    /\ UNCHANGED <<first, loop, offset, batch, jobs, booted, polled, handled, answered, bounds>>

\* Mutant: the loop starts at 0, from the oldest update Telegram has.
BootFromZero ==
    /\ loop = "down"
    /\ loop' = "polling"
    /\ offset' = 0
    /\ booted' = Len(kind)
    /\ UNCHANGED <<first, kind, batch, jobs, polled, handled, answered, bounds>>

\* Run: b.offset = -1
Boot ==
    /\ loop = "down"
    /\ loop' = "polling"
    /\ offset' = -1
    /\ booted' = Len(kind)
    /\ UNCHANGED <<first, kind, batch, jobs, polled, handled, answered, bounds>>

\* The oldest update Telegram keeps when it is asked from offset o on.
FirstKept(o) ==
    IF Queue = {} THEN first
    ELSE IF o = -1 THEN Len(kind)
    ELSE IF o > first THEN o ELSE first

\* And what it answers: the oldest Limit of these, in order.
Answer(o) ==
    LET n == Len(kind) + 1 - FirstKept(o)
    IN  [i \in 1..(IF n < Limit THEN n ELSE Limit) |-> FirstKept(o) + i - 1]

\* poll succeeds.  The first answer that holds an update ends the skipping of the
\* backlog; an empty one leaves the offset at -1.
Poll ==
    /\ loop = "polling"
    /\ first' = FirstKept(offset)
    /\ batch' = Answer(offset)
    /\ offset' = IF offset = -1 /\ batch' # <<>> THEN batch'[Len(batch')] + 1 ELSE offset
    /\ polled' = IF polled = -1 THEN Len(kind) ELSE polled
    /\ loop' = "handling"
    /\ UNCHANGED <<kind, jobs, booted, handled, answered, bounds>>

\* poll fails, before Telegram saw the request or after it: Run backs off.
PollError ==
    /\ loop = "polling"
    /\ errors < MaxErrors
    /\ errors' = errors + 1
    /\ first' \in {first, FirstKept(offset)}
    /\ loop' = "backoff"
    /\ UNCHANGED <<kind, offset, batch, jobs, booted, polled, handled, answered, deaths>>

\* Mutant: a failed poll asks again from one update earlier.
RetryRewound ==
    /\ loop = "backoff"
    /\ loop' = "polling"
    /\ offset' = offset - 1
    /\ UNCHANGED <<first, kind, batch, jobs, booted, polled, handled, answered, bounds>>

\* Ten seconds later.
Retry ==
    /\ loop = "backoff"
    /\ loop' = "polling"
    /\ UNCHANGED <<first, kind, offset, batch, jobs, booted, polled, handled, answered, bounds>>

\* Mutant: the offset is the number of the update, not the one after it.
NextOffsetShort(u) == IF u >= offset THEN u ELSE offset

\* Mutant: the update after the handled one is confirmed with it.
NextOffsetLong(u) == IF u >= offset THEN u + 2 ELSE offset

NextOffset(u) == IF u >= offset THEN u + 1 ELSE offset

\* handle one update of the answer, then move the offset past it.
Handle ==
    /\ loop = "handling"
    /\ batch # <<>>
    /\ LET u == Head(batch)
       IN  /\ handled' = Append(handled, u)
           /\ jobs' = IF kind[u] \in {"long", "digest"} THEN jobs \cup {u} ELSE jobs
           /\ answered' = IF kind[u] = "quick" THEN answered \cup {u} ELSE answered
           /\ offset' = NextOffset(u)
    /\ batch' = Tail(batch)
    /\ UNCHANGED <<first, kind, loop, booted, polled, bounds>>

\* The answer is used up: the next turn of the loop.
PollAgain ==
    /\ loop = "handling"
    /\ batch = <<>>
    /\ loop' = "polling"
    /\ UNCHANGED <<first, kind, offset, batch, jobs, booted, polled, handled, answered, bounds>>

\* Mutant: no command is told how its job ended.
JobSilent(u) ==
    /\ u \in jobs
    /\ jobs' = jobs \ {u}
    /\ UNCHANGED <<first, kind, loop, offset, batch, booted, polled, handled, answered, bounds>>

\* The handler returns in the goroutine of runAsync, which replies with the text unless
\* it is empty, as OnDigest's is when RunDigest did not fail.
JobDone(u) ==
    /\ u \in jobs
    /\ jobs' = jobs \ {u}
    /\ \/ answered' = answered \cup {u}
       \/ kind[u] = "digest" /\ UNCHANGED answered
    /\ UNCHANGED <<first, kind, loop, offset, batch, booted, polled, handled, bounds>>

\* SIGTERM or a crash: nobody waits for the loop or for its goroutines.
Die ==
    /\ loop # "down"
    /\ deaths < MaxDeaths
    /\ deaths' = deaths + 1
    /\ loop' = "down"
    /\ offset' = -1
    /\ batch' = <<>> /\ jobs' = {}
    /\ booted' = 0 /\ polled' = -1
    /\ handled' = <<>> /\ answered' = {}
    /\ UNCHANGED <<first, kind, errors>>

Next ==
    \/ \E k \in Kinds : Send(k)
    \/ Boot \/ Poll \/ PollError \/ Retry \/ Handle \/ PollAgain \/ Die
    \/ \E u \in Sent : JobDone(u)

Spec == Init /\ [][Next]_vars

\* The loop turns and its goroutines end; a poll that is retried often enough is
\* answered (errors are transient, as the comment on Run has it).
FairSpec ==
    /\ Spec
    /\ SF_vars(Poll)
    /\ WF_vars(Retry) /\ WF_vars(Handle) /\ WF_vars(PollAgain)
    /\ \A u \in 1..MaxUpdates : WF_vars(JobDone(u))

----------------------------------------------------------------------------
\* The shape of the state.
TypeOK ==
    /\ first \in Nat \ {0}
    /\ kind \in Seq(Kinds)
    /\ loop \in {"down", "polling", "backoff", "handling"}
    /\ offset \in Nat \cup {-1}
    /\ batch \in Seq(Nat)
    /\ jobs \subseteq Sent
    /\ booted \in Nat /\ polled \in Nat \cup {-1}
    /\ handled \in Seq(Nat)
    /\ answered \subseteq Sent

\* What a user can rely on (see Inbox): one process handles no update twice and none out
\* of order, skips nothing once it has handled one, and the one it begins with is at
\* most one update old, through failed polls, answers that never arrived and restarts.
At == IF handled = <<>> THEN 0 ELSE handled[Len(handled)]

Mailbox == INSTANCE Inbox WITH sent <- Len(kind), since <- booted, at <- At, count <- Len(handled)

ImplementsInbox == Mailbox!Spec

\* No "flood of stale commands" after a redeploy: of the updates sent while no
\* process, or an earlier one, was there, only the first that is handled can be one.
NoStaleFlood ==
    \A i \in DOMAIN handled : i > 1 => handled[i] > booted

\* Once an update was received, none that is sent later is lost: it is handled, or
\* it waits in Telegram's queue for the next poll.
NoLossOnceSynced ==
    handled # <<>> =>
        \A u \in Sent : u > handled[1] => u \in Queue \/ \E i \in DOMAIN handled : handled[i] = u

\* "After the startup skip-backlog request, switch back to 'from where we left off'":
\* what is sent after the first answered request is not forgotten.
LeftOffAfterFirstPoll ==
    polled # -1 =>
        \A u \in Sent : u > polled => u \in Queue \/ \E i \in DOMAIN handled : handled[i] = u

\* A digest that was asked for is over.
DigestOver(u) ==
    /\ \E i \in DOMAIN handled : handled[i] = u
    /\ kind[u] = "digest" /\ u \notin jobs

\* "Empty return means started, will report when done": a command that arrives while the
\* loop is in sync is run and replied to with its result, through failed polls and answers
\* that never arrived, unless the process ends first; of a digest, whose handler reports
\* by itself, only that it ends.
CommandIsAnswered ==
    \A u \in 1..MaxUpdates :
        (u \in Queue /\ kind[u] # "ignored" /\ handled # <<>> /\ u > handled[1])
            ~> (u \in answered \/ DigestOver(u) \/ loop = "down")
=============================================================================
