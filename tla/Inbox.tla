------------------------------- MODULE Inbox -------------------------------
(***************************************************************************)
(* What the command bot promises the people in the chat, without polls,    *)
(* offsets, batches and retries: of the messages of a chat, numbered as    *)
(* they were sent, a process handles one that is not older than the last   *)
(* one sent before it came up, and from then on every one, in order and    *)
(* once.  Nothing is remembered from one process to the next.              *)
(***************************************************************************)
EXTENDS Naturals

VARIABLES
    sent,       \* messages sent so far
    since,      \* messages that had been sent when the process came up, 0 while none is up
    at,         \* the last message this process handled, 0 for none
    count       \* messages this process handled

inbox == <<sent, since, at, count>>

Init == sent = 0 /\ since = 0 /\ at = 0 /\ count = 0

Send ==
    /\ sent' = sent + 1
    /\ UNCHANGED <<since, at, count>>

\* A process comes up.
Start ==
    /\ count = 0
    /\ since' = sent
    /\ UNCHANGED <<sent, at, count>>

\* The first message it handles: what is older than the last one before it is skipped.
Sync ==
    /\ count = 0
    /\ at' \in since..sent
    /\ count' = 1
    /\ UNCHANGED <<sent, since>>

\* The next one.
Take ==
    /\ count > 0
    /\ at < sent
    /\ at' = at + 1
    /\ count' = count + 1
    /\ UNCHANGED <<sent, since>>

\* The process ends.
End ==
    /\ since' = 0 /\ at' = 0 /\ count' = 0
    /\ UNCHANGED sent

Next == Send \/ Start \/ Sync \/ Take \/ End

Spec == Init /\ [][Next]_inbox
=============================================================================
