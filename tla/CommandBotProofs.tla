-------------------------- MODULE CommandBotProofs --------------------------
(***************************************************************************)
(* The command bot's bookkeeping, for any number of updates, failed polls  *)
(* and restarts, and any limit of an answer.  The invariant says where the *)
(* offset stands: what was handled and what waits in the batch are one     *)
(* gapless run of updates, the offset is the next one to handle, and       *)
(* Telegram has forgotten nothing from the offset on.  From it follow the  *)
(* invariants of the module and that the bot implements Inbox.             *)
(***************************************************************************)
EXTENDS CommandBot, TLAPS

Count == Len(kind)

\* A run of consecutive numbers.
Gapless(seq) == \A i \in 1..Len(seq) : seq[i] = seq[1] + i - 1

Bounds ==
    /\ first <= Count + 1
    /\ booted <= Count
    /\ offset # -1 => offset >= 1 /\ offset <= Count + 1 /\ first <= offset

\* The answer being handled.
Received ==
    /\ Gapless(batch)
    /\ batch # <<>> =>
          /\ loop = "handling" /\ offset # -1
          /\ batch[1] >= 1 /\ batch[1] + Len(batch) <= Count + 1
          /\ handled = <<>> => Len(batch) = 1 /\ offset = batch[1] + 1 /\ batch[1] >= booted

\* The run of handled updates goes on at the offset.
Contiguous ==
    /\ Gapless(handled)
    /\ handled # <<>> =>
          /\ offset = handled[1] + Len(handled)
          /\ handled[1] >= 1 /\ handled[1] >= booted
          /\ batch # <<>> => batch[1] = offset
    /\ handled = <<>> /\ batch = <<>> => offset = -1

Down == loop = "down" => booted = 0 /\ handled = <<>> /\ batch = <<>>

BotInv == TypeOK /\ Bounds /\ Received /\ Contiguous /\ Down

LEMMA BotInit == ASSUME Init PROVE BotInv
<1>. USE DEF Init
<1>1. TypeOK
  BY DEF TypeOK, Kinds, Sent
<1>2. Bounds /\ Received /\ Contiguous /\ Down
  BY DEF Bounds, Received, Contiguous, Down, Gapless, Count
<1>. QED  BY <1>1, <1>2 DEF BotInv

\* What an answer holds.
LEMMA AnswerIs ==
    ASSUME BotInv, NEW o, o = offset
    PROVE  /\ FirstKept(o) \in Nat /\ FirstKept(o) >= 1 /\ FirstKept(o) <= Count + 1
           /\ Answer(o) \in Seq(Nat) /\ Gapless(Answer(o))
           /\ Answer(o) # <<>> => /\ Answer(o)[1] = FirstKept(o)
                                  /\ FirstKept(o) + Len(Answer(o)) <= Count + 1
           /\ o = -1 /\ Answer(o) # <<>> => FirstKept(o) = Count /\ Len(Answer(o)) = 1
           /\ o # -1 => FirstKept(o) <= o /\ (Answer(o) # <<>> => FirstKept(o) = o)
<1>1. /\ Count \in Nat /\ first \in Nat /\ first >= 1 /\ first <= Count + 1
      /\ Limit \in Nat /\ Limit >= 1 /\ offset \in Nat \cup {-1}
      /\ offset # -1 => offset >= 1 /\ offset <= Count + 1 /\ first <= offset
  BY BotAssumption DEF BotInv, TypeOK, Bounds, Count
<1>2. /\ FirstKept(o) \in Nat /\ FirstKept(o) >= 1 /\ FirstKept(o) <= Count + 1
      /\ o = -1 => FirstKept(o) \in {Count, Count + 1}
      /\ o # -1 => FirstKept(o) <= o /\ FirstKept(o) \in {o, Count + 1}
  BY <1>1 DEF FirstKept, Queue, Count
<1>. DEFINE n == Count + 1 - FirstKept(o)
            m == IF n < Limit THEN n ELSE Limit
<1>3. m \in Nat /\ m <= n /\ (n = 1 => m = 1)
  BY <1>1, <1>2
<1>4. Answer(o) = [i \in 1..m |-> FirstKept(o) + i - 1]
  BY DEF Answer, Count
<1>. HIDE DEF m
<1>5. Answer(o) \in Seq(Nat) /\ Len(Answer(o)) = m /\ \A i \in 1..m : Answer(o)[i] = FirstKept(o) + i - 1
  BY <1>2, <1>3, <1>4
<1>6. Gapless(Answer(o))
  BY <1>2, <1>3, <1>5 DEF Gapless
<1>7. Answer(o) # <<>> => m >= 1 /\ Answer(o)[1] = FirstKept(o)
  BY <1>2, <1>3, <1>5
<1>. QED  BY <1>1, <1>2, <1>3, <1>5, <1>6, <1>7

\* What handling the head of the batch does to the two runs.
LEMMA HandleRuns ==
    ASSUME BotInv, Handle
    PROVE  /\ batch' \in Seq(Nat) /\ Gapless(batch') /\ Len(batch') = Len(batch) - 1
           /\ batch' # <<>> => batch'[1] = batch[1] + 1
           /\ handled' \in Seq(Nat) /\ Gapless(handled') /\ Len(handled') = Len(handled) + 1
           /\ handled'[1] = (IF handled = <<>> THEN batch[1] ELSE handled[1])
           /\ handled'[Len(handled')] = batch[1]
           /\ batch[1] \in Sent
           /\ offset' = batch[1] + 1
<1>1. /\ batch \in Seq(Nat) /\ batch # <<>> /\ Gapless(batch)
      /\ handled \in Seq(Nat) /\ Gapless(handled)
      /\ batch' = Tail(batch) /\ handled' = Append(handled, batch[1])
      /\ offset' = NextOffset(batch[1])
      /\ offset \in Nat /\ batch[1] \in Nat /\ Count \in Nat
  BY DEF BotInv, TypeOK, Received, Contiguous, Handle, Count
<1>2. /\ batch' \in Seq(Nat) /\ Len(batch') = Len(batch) - 1
      /\ \A i \in 1..Len(batch') : batch'[i] = batch[i + 1]
  BY <1>1
<1>3. Gapless(batch') /\ (batch' # <<>> => batch'[1] = batch[1] + 1)
  BY <1>1, <1>2 DEF Gapless
<1>4. /\ handled' \in Seq(Nat) /\ Len(handled') = Len(handled) + 1
      /\ handled'[Len(handled) + 1] = batch[1]
      /\ \A i \in 1..Len(handled) : handled'[i] = handled[i]
  BY <1>1
<1>5. CASE handled = <<>>
  <2>1. Gapless(handled') /\ handled'[1] = batch[1]
    <3>1. Len(handled) = 0
      BY <1>5
    <3>2. Len(handled') = 1 /\ handled'[1] = batch[1]
      BY <1>4, <3>1
    <3>3. \A i \in 1..1 : i = 1
      OBVIOUS
    <3>. QED  BY <1>1, <3>2, <3>3 DEF Gapless
  <2>2. offset' = batch[1] + 1
    BY <1>1, <1>5 DEF BotInv, Received, NextOffset
  <2>3. batch[1] \in Sent
    BY <1>1 DEF BotInv, Received, Sent, Count
  <2>. QED  BY <1>2, <1>3, <1>4, <1>5, <2>1, <2>2, <2>3
<1>6. CASE handled # <<>>
  <2>1. batch[1] = offset /\ offset = handled[1] + Len(handled)
    BY <1>1, <1>6 DEF BotInv, Contiguous
  <2>2. Len(handled) >= 1 /\ handled'[1] = handled[1] /\ handled[1] \in Nat
    BY <1>1, <1>4, <1>6
  <2>3. Gapless(handled')
    <3>1. ASSUME NEW i \in 1..Len(handled') PROVE handled'[i] = handled'[1] + i - 1
      <4>1. CASE i \in 1..Len(handled)
        BY <1>1, <1>4, <2>2, <4>1 DEF Gapless
      <4>2. CASE i = Len(handled) + 1
        BY <1>1, <1>4, <2>1, <2>2, <4>2
      <4>3. Len(handled) \in Nat /\ i \in 1..Len(handled) + 1
        BY <1>1, <1>4
      <4>. QED  BY <4>1, <4>2, <4>3
    <3>. QED  BY <3>1 DEF Gapless
  <2>4. offset' = batch[1] + 1
    BY <1>1, <2>1 DEF NextOffset
  <2>5. batch[1] \in Sent
    BY <1>1 DEF BotInv, Received, Sent, Count
  <2>. QED  BY <1>2, <1>3, <1>4, <1>6, <2>2, <2>3, <2>4, <2>5
<1>. QED  BY <1>5, <1>6

LEMMA BotNext == ASSUME BotInv, [Next]_vars PROVE BotInv'
<1>. USE DEF BotInv
<1>0. Count \in Nat /\ first \in Nat /\ booted \in Nat
  BY DEF TypeOK, Count
<1>1. ASSUME NEW k \in Kinds, Send(k) PROVE BotInv'
  <2>1. /\ kind' \in Seq(Kinds) /\ Count' = Count + 1
        /\ UNCHANGED <<first, loop, offset, batch, jobs, booted, polled, handled, answered>>
    BY <1>1 DEF Send, TypeOK, Count
  <2>2. TypeOK'
    BY <1>0, <2>1 DEF TypeOK, Sent, Count
  <2>. QED  BY <1>0, <2>1, <2>2 DEF Bounds, Received, Contiguous, Down, Gapless, TypeOK
<1>2. CASE Boot
  BY <1>0, <1>2 DEF Boot, TypeOK, Sent, Count, Bounds, Received, Contiguous, Down, Gapless
<1>3. CASE Poll
  <2>1. /\ UNCHANGED <<kind, jobs, booted, handled, answered>>
        /\ batch = <<>> /\ loop = "polling" /\ loop' = "handling"
        /\ first' = FirstKept(offset) /\ batch' = Answer(offset)
        /\ offset' = IF offset = -1 /\ batch' # <<>> THEN batch'[Len(batch')] + 1 ELSE offset
        /\ polled' \in Nat \cup {-1}
    BY <1>0, <1>3 DEF Poll, Received, TypeOK, Count
  <2>2. Count' = Count /\ offset \in Nat \cup {-1}
    BY <2>1 DEF Count, TypeOK
  <2>3. CASE offset # -1
    <3>1. offset' = offset
      BY <2>1, <2>3
    <3>2. TypeOK'
      BY <2>1, <2>2, <3>1, AnswerIs DEF TypeOK, Sent
    <3>3. Bounds'
      BY <2>1, <2>2, <2>3, <3>1, AnswerIs DEF Bounds
    <3>4. handled # <<>>
      BY <2>1, <2>3 DEF Contiguous
    <3>5. Received'
      BY <2>1, <2>2, <2>3, <3>1, <3>4, AnswerIs DEF Received
    <3>6. Contiguous'
      BY <2>1, <2>2, <2>3, <3>1, <3>4, AnswerIs DEF Contiguous
    <3>. QED  BY <2>1, <3>2, <3>3, <3>5, <3>6 DEF Down
  <2>4. CASE offset = -1
    <3>1. handled = <<>>
      <4>1. ASSUME handled # <<>> PROVE FALSE
        <5>1. offset = handled[1] + Len(handled) /\ handled[1] >= 1 /\ handled[1] \in Nat
          BY <4>1 DEF Contiguous, TypeOK
        <5>. QED  BY <2>4, <5>1 DEF TypeOK
      <4>. QED  BY <4>1
    <3>2. CASE batch' = <<>>
      BY <1>0, <2>1, <2>2, <2>4, <3>1, <3>2, AnswerIs
      DEF TypeOK, Sent, Bounds, Received, Contiguous, Gapless, Down
    <3>3. CASE batch' # <<>>
      <4>1. /\ Len(batch') = 1 /\ batch'[1] = Count /\ first' = Count
            /\ Count >= 1 /\ batch' \in Seq(Nat) /\ Gapless(batch')
        BY <2>1, <2>4, <3>3, AnswerIs
      <4>2. offset' = Count + 1
        BY <2>1, <2>4, <3>3, <4>1
      <4>3. TypeOK'
        BY <1>0, <2>1, <2>2, <4>1, <4>2 DEF TypeOK, Sent
      <4>4. Bounds'
        BY <1>0, <2>1, <2>2, <4>1, <4>2 DEF Bounds
      <4>. QED  BY <1>0, <2>1, <2>2, <3>1, <4>1, <4>2, <4>3, <4>4
                DEF Bounds, Received, Contiguous, Gapless, Down
    <3>. QED  BY <3>2, <3>3
  <2>. QED  BY <2>3, <2>4
<1>4. CASE PollError
  <2>1. /\ UNCHANGED <<kind, offset, batch, jobs, booted, polled, handled, answered>>
        /\ loop = "polling" /\ loop' = "backoff" /\ batch = <<>>
        /\ first' \in {first, FirstKept(offset)} /\ Count' = Count
    BY <1>4 DEF PollError, Received, Count
  <2>2. first' \in Nat \ {0} /\ first' <= Count + 1 /\ (offset # -1 => first' <= offset)
    BY <1>0, <2>1, AnswerIs DEF TypeOK, Bounds
  <2>. QED  BY <2>1, <2>2 DEF TypeOK, Sent, Bounds, Received, Contiguous, Gapless, Down
<1>5. CASE Retry \/ PollAgain
  BY <1>5 DEF Retry, PollAgain, TypeOK, Sent, Count, Bounds, Received, Contiguous, Gapless, Down
<1>6. CASE Handle
  <2>1. /\ UNCHANGED <<first, kind, loop, booted, polled>> /\ Count' = Count
        /\ loop = "handling" /\ batch # <<>>
        /\ jobs' \subseteq jobs \cup {batch[1]} /\ answered' \subseteq answered \cup {batch[1]}
    BY <1>6 DEF Handle, Count
  <2>2. /\ batch[1] \in Nat /\ Len(batch) \in Nat /\ Len(batch) >= 1
        /\ handled' # <<>> /\ batch[1] + Len(batch) <= Count + 1 /\ batch[1] >= 1
    <3>1. batch \in Seq(Nat) /\ Len(batch) \in Nat /\ Len(batch) >= 1 /\ batch[1] \in Nat
      BY <2>1 DEF TypeOK
    <3>2. handled' \in Seq(Nat) /\ Len(handled') = Len(handled) + 1 /\ Len(handled) \in Nat
      BY <1>6, HandleRuns DEF TypeOK
    <3>3. handled' # <<>>
      BY <3>2
    <3>. QED  BY <2>1, <3>1, <3>3 DEF Received
  <2>3. TypeOK'
    <3>1. batch' \in Seq(Nat) /\ handled' \in Seq(Nat) /\ batch[1] \in Sent /\ offset' \in Nat
      BY <1>6, <2>2, HandleRuns
    <3>2. Sent' = Sent
      BY <2>1 DEF Sent
    <3>. QED  BY <2>1, <3>1, <3>2 DEF TypeOK
  <2>4. Bounds'
    BY <1>0, <1>6, <2>1, <2>2, HandleRuns DEF Bounds, Received, Contiguous, NextOffset
  <2>5. Received'
    <3>1. /\ batch' \in Seq(Nat) /\ Gapless(batch') /\ Len(batch') = Len(batch) - 1
          /\ batch' # <<>> => batch'[1] = batch[1] + 1
          /\ offset' = batch[1] + 1
      BY <1>6, HandleRuns
    <3>. QED  BY <1>0, <2>1, <2>2, <3>1 DEF Received
  <2>6. Contiguous'
    <3>1. /\ Gapless(handled') /\ Len(handled') = Len(handled) + 1
          /\ batch' # <<>> => batch'[1] = batch[1] + 1
          /\ offset' = batch[1] + 1
          /\ handled'[1] = (IF handled = <<>> THEN batch[1] ELSE handled[1])
      BY <1>6, HandleRuns
    <3>2. CASE handled = <<>>
      BY <1>0, <2>1, <2>2, <3>1, <3>2 DEF Contiguous, Received
    <3>3. CASE handled # <<>>
      <4>1. batch[1] = offset /\ offset = handled[1] + Len(handled)
            /\ handled[1] \in Nat /\ Len(handled) \in Nat
        BY <2>1, <3>3 DEF Contiguous, TypeOK
      <4>2. handled'[1] = handled[1] /\ handled[1] >= 1 /\ handled[1] >= booted
        BY <3>1, <3>3 DEF Contiguous
      <4>3. offset' = handled'[1] + Len(handled')
        BY <3>1, <4>1, <4>2
      <4>4. batch' # <<>> => batch'[1] = offset'
        BY <3>1
      <4>. QED  BY <2>1, <2>2, <3>1, <4>2, <4>3, <4>4 DEF Contiguous
    <3>. QED  BY <3>2, <3>3
  <2>. QED  BY <2>1, <2>3, <2>4, <2>5, <2>6 DEF Down
<1>7. CASE Die
  BY <1>0, <1>7 DEF Die, TypeOK, Sent, Count, Bounds, Received, Contiguous, Gapless, Down
<1>8. ASSUME NEW u \in Sent, JobDone(u) PROVE BotInv'
  BY <1>8 DEF JobDone, TypeOK, Sent, Count, Bounds, Received, Contiguous, Gapless, Down
<1>9. CASE UNCHANGED vars
  BY <1>9 DEF vars, TypeOK, Sent, Count, Bounds, Received, Contiguous, Gapless, Down
<1>. QED  BY <1>1, <1>2, <1>3, <1>4, <1>5, <1>6, <1>7, <1>8, <1>9 DEF Next

----------------------------------------------------------------------------
\* Every variable keeps its type.
THEOREM TypeCorrect == Spec => []TypeOK
<1>1. BotInv => TypeOK  BY DEF BotInv
<1>. QED  BY <1>1, BotInit, BotNext, PTL DEF Spec

\* Only the first update a process handles can be older than the process.
THEOREM NoFlood == Spec => []NoStaleFlood
<1>1. ASSUME BotInv PROVE NoStaleFlood
  <2>1. ASSUME NEW i \in DOMAIN handled, i > 1 PROVE handled[i] > booted
    <3>1. i \in 1..Len(handled) /\ handled # <<>> /\ handled[1] \in Nat /\ booted \in Nat
      BY <1>1, <2>1 DEF BotInv, TypeOK
    <3>. QED  BY <1>1, <2>1, <3>1 DEF BotInv, Contiguous, Gapless
  <2>. QED  BY <2>1 DEF NoStaleFlood
<1>. QED  BY <1>1, BotInit, BotNext, PTL DEF Spec

\* What comes after the first handled update was handled too, or is still in the queue.
THEOREM NothingLost == Spec => []NoLossOnceSynced
<1>1. ASSUME BotInv PROVE NoLossOnceSynced
  <2>1. ASSUME handled # <<>>, NEW u \in Sent, u > handled[1], u \notin Queue
        PROVE  \E i \in DOMAIN handled : handled[i] = u
    <3>1. /\ u \in Nat /\ u < first /\ first \in Nat /\ handled[1] \in Nat /\ Len(handled) \in Nat
          /\ offset = handled[1] + Len(handled) /\ first <= offset
      <4>1. u \in Nat /\ u <= Len(kind) /\ first \in Nat /\ handled \in Seq(Nat)
        BY <1>1, <2>1 DEF BotInv, TypeOK, Sent
      <4>2. u < first
        BY <2>1, <4>1 DEF Queue
      <4>3. handled[1] \in Nat /\ Len(handled) \in Nat /\ offset = handled[1] + Len(handled)
        BY <1>1, <2>1, <4>1 DEF BotInv, Contiguous
      <4>. QED  BY <1>1, <4>1, <4>2, <4>3 DEF BotInv, Bounds
    <3>2. u - handled[1] + 1 \in 1..Len(handled)
      BY <2>1, <3>1
    <3>3. handled[u - handled[1] + 1] = u
      BY <1>1, <3>1, <3>2 DEF BotInv, Contiguous, Gapless
    <3>4. DOMAIN handled = 1..Len(handled)
      BY <1>1 DEF BotInv, TypeOK
    <3>. QED  BY <3>2, <3>3, <3>4
  <2>. QED  BY <2>1 DEF NoLossOnceSynced
<1>. QED  BY <1>1, BotInit, BotNext, PTL DEF Spec

----------------------------------------------------------------------------
LEMMA InboxInit == ASSUME Init PROVE Mailbox!Init
BY DEF Init, Mailbox!Init, At

\* Handling an update is the inbox's first message, or its next one; everything else but
\* a new update, a boot and the end of the process is invisible.
LEMMA InboxNext == ASSUME BotInv, [Next]_vars PROVE [Mailbox!Next]_(Mailbox!inbox)
<1>. USE DEF Mailbox!Next, Mailbox!inbox
<1>1. ASSUME NEW k \in Kinds, Send(k) PROVE Mailbox!Send
  <2>1. Len(kind') = Len(kind) + 1
    BY <1>1 DEF Send, BotInv, TypeOK
  <2>. QED  BY <1>1, <2>1 DEF Send, Mailbox!Send, At
<1>2. CASE Boot
  <2>1. handled = <<>>
    BY <1>2 DEF Boot, BotInv, Down
  <2>2. Len(handled) = 0
    BY <2>1
  <2>. QED  BY <1>2, <2>1, <2>2 DEF Boot, Mailbox!Start, At
<1>3. CASE Handle
  <2>1. /\ UNCHANGED <<kind, booted>>
        /\ Len(handled') = Len(handled) + 1 /\ Len(handled) \in Nat
        /\ handled' # <<>> /\ handled'[Len(handled')] = batch[1]
        /\ batch # <<>> /\ batch[1] \in 1..Len(kind) /\ Len(kind) \in Nat /\ booted \in Nat
    <3>1. handled' \in Seq(Nat) /\ Len(handled') = Len(handled) + 1 /\ Len(handled) \in Nat
      BY <1>3, HandleRuns DEF BotInv, TypeOK
    <3>2. handled' # <<>>
      BY <3>1
    <3>3. handled'[Len(handled')] = batch[1] /\ batch[1] \in 1..Len(kind)
      BY <1>3, HandleRuns DEF Sent
    <3>4. UNCHANGED <<kind, booted>> /\ batch # <<>>
      BY <1>3 DEF Handle
    <3>5. Len(kind) \in Nat /\ booted \in Nat
      BY DEF BotInv, TypeOK
    <3>. QED  BY <3>1, <3>2, <3>3, <3>4, <3>5
  <2>2. At' = batch[1]
    BY <2>1 DEF At
  <2>3. CASE handled = <<>>
    <3>1. batch[1] >= booted /\ Len(handled) = 0
      BY <2>1, <2>3 DEF BotInv, Received
    <3>. QED  BY <2>1, <2>2, <3>1 DEF Mailbox!Sync
  <2>4. CASE handled # <<>>
    <3>1. /\ batch[1] = handled[1] + Len(handled) /\ handled \in Seq(Nat) /\ Len(handled) >= 1
          /\ handled[1] \in Nat
      BY <2>1, <2>4 DEF BotInv, TypeOK, Contiguous
    <3>2. handled[Len(handled)] = handled[1] + Len(handled) - 1
      BY <2>1, <3>1 DEF BotInv, Contiguous, Gapless
    <3>3. At = batch[1] - 1 /\ At \in Nat
      BY <2>1, <2>4, <3>1, <3>2 DEF At
    <3>. QED  BY <2>1, <2>2, <3>1, <3>3 DEF Mailbox!Take
  <2>. QED  BY <2>3, <2>4
<1>4. CASE Die
  <2>1. Len(handled') = 0
    BY <1>4 DEF Die
  <2>. QED  BY <1>4, <2>1 DEF Die, Mailbox!End, At
<1>5. CASE Poll \/ PollError \/ Retry \/ PollAgain
  BY <1>5 DEF Poll, PollError, Retry, PollAgain, At
<1>6. ASSUME NEW u \in Sent, JobDone(u) PROVE UNCHANGED Mailbox!inbox
  BY <1>6 DEF JobDone, At
<1>7. CASE UNCHANGED vars
  BY <1>7 DEF vars, At
<1>. QED  BY <1>1, <1>2, <1>3, <1>4, <1>5, <1>6, <1>7 DEF Next

\* The bot implements the inbox.
THEOREM BotImplementsInbox == Spec => ImplementsInbox
BY BotInit, BotNext, InboxInit, InboxNext, PTL DEF Spec, ImplementsInbox, Mailbox!Spec

=============================================================================
