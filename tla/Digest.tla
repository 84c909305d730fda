------------------------------- MODULE Digest -------------------------------
(***************************************************************************)
(* aireview.Reviewer.RunDigest beside the reviews, over the same history.  *)
(*                                                                         *)
(* A digest asks the store what grew in the last day, has the LLM (as      *)
(* unreliable as Review's) put it into words, and sends one message.       *)
(* Digests touch nothing but the chat, so one at a time is enough to see   *)
(* what scans, prunes and reviews do to it.  Whether the message is        *)
(* dropped as a repeat of the hour's is the Notifier's part, and the       *)
(* numbers above the text (the disk's usage, from LatestScan) are left     *)
(* out: all that matters here is whether there are any.                    *)
(***************************************************************************)
EXTENDS Review

\* The bound MaxReviews counts reviews and digests together: they share nothing that
\* both write to.
VARIABLES
    telling,    \* where RunDigest is
    asked,      \* when it read time.Now() for since
    growers,    \* the items it names to the LLM
    digests,    \* history: what was sent: the items named, and when since was read
    told        \* bound

digest == <<telling, asked, growers, digests, told>>
digestVars == <<vars, digest>>

Message == [since : Nat, items : SUBSET Items]

DigestInit ==
    /\ Init
    /\ telling = "idle"
    /\ asked = 0
    /\ growers = {}
    /\ digests = {}
    /\ told = 0

----------------------------------------------------------------------------
(* RunDigest.                                                              *)

Telling == telling \notin {"idle", "killed"}

Forget ==
    /\ asked' = 0
    /\ growers' = {}

\* since := time.Now().Add(-24 * time.Hour)
BeginDigest ==
    /\ ~Telling
    /\ reviews + told < MaxReviews
    /\ told' = told + 1
    /\ telling' = "growth"
    /\ asked' = clock
    /\ UNCHANGED <<growers, digests>>

\* Mutant: an item that did not change is a grower too.
GrewOrStayed(rows) == {g \in rows : g.delta >= 0}

\* if row.DeltaBytes <= 0 { continue }
Grew(rows) == {g \in rows : g.delta > 0}

\* The top growers; a failed query adds none.  Without any the LLM is not asked, and
\* without numbers of the disk nothing is sent.
QueryGrowers ==
    /\ telling = "growth"
    /\ \E rows \in GrowthSince(asked - Day) \cup {{}} :
          LET items == {g.item : g \in Grew(rows)}
          IN  \/ /\ items # {}
                 /\ telling' = "asking"
                 /\ growers' = items
                 /\ UNCHANGED asked
              \/ /\ items = {}
                 /\ telling' = "sending"
                 /\ UNCHANGED <<growers, asked>>
              \/ /\ items = {}
                 /\ telling' = "idle"
                 /\ Forget
    /\ UNCHANGED <<digests, told>>

\* The LLM answers something.
DigestAnswered ==
    /\ telling = "asking"
    /\ telling' = "sending"
    /\ UNCHANGED <<asked, growers, digests, told>>

\* The call fails: the error goes to the caller, and nothing to the chat.
DigestFails ==
    /\ telling = "asking"
    /\ telling' = "idle"
    /\ Forget
    /\ UNCHANGED <<digests, told>>

\* r.Notifier.Send, whose error is dropped.
SendDigest ==
    /\ telling = "sending"
    /\ telling' = "idle"
    /\ digests' = digests \cup {[since |-> asked, items |-> growers]}
    /\ Forget
    /\ UNCHANGED told

RunDigest == BeginDigest \/ QueryGrowers \/ DigestAnswered \/ DigestFails \/ SendDigest

\* The process ends, under a digest, a review or both.
DigestCrash ==
    /\ \/ Crash
       \/ Telling /\ (\A r \in Reviewers : ~Working(r)) /\ UNCHANGED vars
    /\ telling' = "killed"
    /\ Forget
    /\ UNCHANGED <<digests, told>>

\* The bounds are spent.
DigestSpent ==
    /\ clock = MaxClock
    /\ reviews + told = MaxReviews
    /\ ~Telling /\ \A r \in Reviewers : ~Working(r)
    /\ UNCHANGED digestVars

DigestNext ==
    \/ (Tick \/ Scan) /\ UNCHANGED digest
    \/ (\E r \in Reviewers : RunReview(r)) /\ reviews' + told <= MaxReviews /\ UNCHANGED digest
    \/ RunDigest /\ UNCHANGED vars
    \/ DigestCrash \/ DigestSpent

DigestSpec == DigestInit /\ [][DigestNext]_digestVars

----------------------------------------------------------------------------
\* The shape of the state.
DigestTypeOK ==
    /\ TypeOK
    /\ telling \in {"idle", "killed", "growth", "asking", "sending"}
    /\ asked \in Nat
    /\ growers \subseteq Items
    /\ digests \subseteq Message
    /\ told \in Nat

\* "Top growers per kind over the last 24 hours": an item that a digest names was
\* measured twice in the day before the digest began, so that what is merely new, or was
\* last seen long ago, or lost its older rows to a prune, is never told as growth,
\* whatever scans and prunes come between the parts of the digest.
DigestsNameGrowth ==
    \A d \in digests : \A i \in d.items :
        \E m, n \in measured :
            /\ m[1] = i /\ n[1] = i
            /\ d.since - Day <= m[2] /\ m[2] < n[2]
=============================================================================
