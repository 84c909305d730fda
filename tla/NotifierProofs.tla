--------------------------- MODULE NotifierProofs ---------------------------
(***************************************************************************)
(* The dedupe gate for any number of senders, keys and ticks, any window,  *)
(* cap and stall.  The invariant ties the map to what was accepted: an     *)
(* entry lags behind the acceptance it stands for by at most a stall, and  *)
(* a key with no entry was accepted a window, less a stall, ago.           *)
(***************************************************************************)
EXTENDS Notifier, TLAPS

LEMMA IdleType == Idle \in [key : Keys, now : Nat]
BY NotifierAssumption DEF Idle

LEMMA InitType == ASSUME Init PROVE TypeOK
BY IdleType DEF Init, TypeOK

\* What the mutex section writes to the map.
LEMMA MapType ==
    ASSUME NEW map \in [Keys -> Nat], NEW k \in Keys, NEW now \in Nat
    PROVE  /\ [map EXCEPT ![k] = now] \in [Keys -> Nat]
           /\ Swept(map, now) \in [Keys -> Nat]
BY DEF Swept

LEMMA NextType == ASSUME TypeOK, [Next]_vars PROVE TypeOK'
<1>. USE DEF TypeOK
<1>1. CASE Tick  BY <1>1 DEF Tick
<1>2. ASSUME NEW s \in Senders, NEW k \in Keys, Begin(s, k) PROVE TypeOK'
  BY <1>2 DEF Begin
<1>3. ASSUME NEW s \in Senders, Suppress(s) \/ Finish(s) PROVE TypeOK'
  BY <1>3, IdleType DEF Suppress, Finish
<1>4. ASSUME NEW s \in Senders, Accept(s) PROVE TypeOK'
  <2>1. call[s].key \in Keys /\ call[s].now \in Nat
    OBVIOUS
  <2>2. Marked(call[s].key, call[s].now) \in [Keys -> Nat]
    BY <2>1, MapType DEF Marked
  <2>3. last' \in [Keys -> Nat]
    BY <1>4, <2>1, <2>2, MapType DEF Accept
  <2>. QED  BY <1>4, <2>1, <2>3, IdleType DEF Accept
<1>5. CASE UNCHANGED vars  BY <1>5 DEF vars
<1>. QED  BY <1>1, <1>2, <1>3, <1>4, <1>5 DEF Next

\* Every variable of the gate keeps its type.
THEOREM TypeCorrect == Spec => []TypeOK
BY InitType, NextType, PTL DEF Spec

----------------------------------------------------------------------------
Timely ==
    \A s \in Senders :
        pc[s] = "deciding" => /\ call[s].now >= 1 /\ call[s].now <= clock
                              /\ clock <= call[s].now + MaxStall

Faithful ==
    \A k \in Keys :
        /\ accepted[k] <= clock
        /\ last[k] # 0 => last[k] <= accepted[k] /\ accepted[k] <= last[k] + MaxStall
        /\ last[k] = 0 /\ accepted[k] # 0 => accepted[k] + Window <= clock + MaxStall

GateInv == TypeOK /\ clock >= 1 /\ Timely /\ Faithful /\ OverflowSpansOneWindow

LEMMA GateInit == ASSUME Init PROVE GateInv
<1>1. clock >= 1 /\ Timely /\ Faithful /\ OverflowSpansOneWindow
  BY NotifierAssumption DEF Init, Timely, Faithful, OverflowSpansOneWindow, Present
<1>. QED  BY <1>1, InitType DEF GateInv

\* The one step that writes the map.
LEMMA AcceptKeeps ==
    ASSUME GateInv, NEW s \in Senders, Accept(s)
    PROVE  Faithful' /\ OverflowSpansOneWindow'
<1>. DEFINE key    == call[s].key
            now    == call[s].now
            marked == Marked(key, now)
<1>1. /\ key \in Keys /\ now \in Nat /\ clock \in Nat
      /\ last \in [Keys -> Nat] /\ accepted \in [Keys -> Nat]
  BY DEF GateInv, TypeOK
<1>2. now >= 1 /\ now <= clock /\ clock <= now + MaxStall
  BY DEF GateInv, Timely, Accept
<1>3. /\ clock' = clock
      /\ accepted' = [accepted EXCEPT ![key] = clock]
      /\ last' = IF Cardinality(Present(marked)) > MaxEntries THEN Swept(marked, now) ELSE marked
  BY DEF Accept
<1>4. /\ marked[key] = now
      /\ \A k \in Keys \ {key} : marked[k] = last[k]
      /\ marked \in [Keys -> Nat]
  BY <1>1 DEF Marked
<1>5. /\ Swept(marked, now) \in [Keys -> Nat]
      /\ \A k \in Keys : \/ Swept(marked, now)[k] = marked[k] /\ marked[k] >= now - Window
                         \/ Swept(marked, now)[k] = 0 /\ marked[k] < now - Window
  BY <1>1, <1>4, NotifierAssumption DEF Swept
<1>. HIDE DEF key, now, marked
<1>6. \A k \in Keys :
         /\ accepted'[k] <= clock
         /\ marked[k] # 0 => marked[k] <= accepted'[k] /\ accepted'[k] <= marked[k] + MaxStall
         /\ marked[k] = 0 /\ accepted'[k] # 0 => accepted'[k] + Window <= clock + MaxStall
  BY <1>1, <1>2, <1>3, <1>4, NotifierAssumption DEF GateInv, Faithful
<1>7. CASE Cardinality(Present(marked)) > MaxEntries
  <2>1. last' = Swept(marked, now)
    BY <1>3, <1>7
  <2>2. Faithful'
    BY <1>1, <1>2, <1>3, <1>4, <1>5, <1>6, <2>1, NotifierAssumption DEF Faithful
  <2>3. \A k \in Keys : last'[k] # 0 => last'[k] >= now - Window /\ last'[k] <= clock
    BY <1>1, <1>3, <1>4, <1>5, <1>6, <2>1
  <2>4. OverflowSpansOneWindow'
    BY <1>1, <1>2, <1>5, <2>1, <2>3, NotifierAssumption DEF OverflowSpansOneWindow, Present
  <2>. QED  BY <2>2, <2>4
<1>8. CASE ~(Cardinality(Present(marked)) > MaxEntries)
  <2>1. last' = marked
    BY <1>3, <1>8
  <2>2. Faithful'
    BY <1>3, <1>6, <2>1 DEF Faithful
  <2>3. OverflowSpansOneWindow'
    BY <1>8, <2>1 DEF OverflowSpansOneWindow
  <2>. QED  BY <2>2, <2>3
<1>. QED  BY <1>7, <1>8

LEMMA GateNext == ASSUME GateInv, [Next]_vars PROVE GateInv'
<1>1. TypeOK /\ TypeOK'
  BY NextType DEF GateInv
<1>2. CASE Tick
  BY <1>1, <1>2, NotifierAssumption
     DEF Tick, GateInv, TypeOK, Timely, Faithful, OverflowSpansOneWindow, Present
<1>3. ASSUME NEW s \in Senders, NEW k \in Keys, Begin(s, k) PROVE GateInv'
  <2>1. Timely'
    BY <1>1, <1>3, NotifierAssumption DEF Begin, GateInv, TypeOK, Timely
  <2>. QED  BY <1>1, <1>3, <2>1 DEF Begin, GateInv, Faithful, OverflowSpansOneWindow, Present
<1>4. ASSUME NEW s \in Senders, Suppress(s) \/ Finish(s) PROVE GateInv'
  <2>1. Timely'
    BY <1>1, <1>4 DEF Suppress, Finish, GateInv, TypeOK, Timely
  <2>. QED  BY <1>1, <1>4, <2>1
            DEF Suppress, Finish, GateInv, Faithful, OverflowSpansOneWindow, Present
<1>5. ASSUME NEW s \in Senders, Accept(s) PROVE GateInv'
  <2>1. Timely' /\ clock' >= 1
    BY <1>1, <1>5 DEF Accept, GateInv, TypeOK, Timely
  <2>. QED  BY <1>1, <1>5, <2>1, AcceptKeeps DEF GateInv
<1>6. CASE UNCHANGED vars
  BY <1>1, <1>6 DEF vars, GateInv, Timely, Faithful, OverflowSpansOneWindow, Present
<1>. QED  BY <1>2, <1>3, <1>4, <1>5, <1>6 DEF Next

\* An oversize map spans one window.
THEOREM OverflowBounded == Spec => []OverflowSpansOneWindow
<1>1. GateInv => OverflowSpansOneWindow  BY DEF GateInv
<1>. QED  BY <1>1, GateInit, GateNext, PTL DEF Spec

\* Two messages of one key are a window, less a stall, apart.
THEOREM DedupedPerWindow == Spec => OncePerWindow
<1>1. ASSUME GateInv, [Next]_vars, NEW k \in Keys, accepted[k] # 0, accepted'[k] # accepted[k]
      PROVE  accepted'[k] + MaxStall >= accepted[k] + Window
  <2>1. PICK s \in Senders : Accept(s)
    BY <1>1 DEF Next, Tick, Begin, Suppress, Finish, vars
  <2>2. call[s].key = k /\ accepted'[k] = clock
    BY <1>1, <2>1 DEF Accept, GateInv, TypeOK
  <2>3. last[k] = 0 \/ call[s].now - last[k] >= Window
    <3>1. ~InWindow(k, call[s].now)
      BY <2>1, <2>2 DEF Accept
    <3>2. call[s].now \in Nat /\ last[k] \in Nat
      BY <1>1 DEF GateInv, TypeOK
    <3>. QED  BY <3>1, <3>2, NotifierAssumption DEF InWindow
  <2>. QED  BY <1>1, <2>1, <2>2, <2>3, NotifierAssumption
            DEF Accept, GateInv, TypeOK, Timely, Faithful
<1>2. GateInv /\ [Next]_vars
      => [ \A k \in Keys : accepted[k] # 0 /\ accepted'[k] # accepted[k]
              => accepted'[k] + MaxStall >= accepted[k] + Window ]_vars
  BY <1>1
<1>. QED  BY <1>2, GateInit, GateNext, PTL DEF Spec, OncePerWindow

\* Nothing is silenced by an attempt more than a window and a stall ago.
THEOREM SilenceBounded == Spec => SilenceIsBounded
<1>1. ASSUME GateInv, [Next]_vars, NEW s \in Senders, pc[s] = "deciding", pc'[s] = "idle"
      PROVE  /\ accepted[call[s].key] # 0
             /\ clock < accepted[call[s].key] + Window + MaxStall
  <2>1. Suppress(s)
    BY <1>1 DEF GateInv, TypeOK, Next, Tick, Begin, Suppress, Accept, Finish, vars
  <2>. QED  BY <1>1, <2>1, NotifierAssumption
            DEF Suppress, InWindow, GateInv, TypeOK, Timely, Faithful
<1>2. GateInv /\ [Next]_vars
      => [ \A s \in Senders : pc[s] = "deciding" /\ pc'[s] = "idle"
              => /\ accepted[call[s].key] # 0
                 /\ clock < accepted[call[s].key] + Window + MaxStall ]_vars
  BY <1>1
<1>. QED  BY <1>2, GateInit, GateNext, PTL DEF Spec, SilenceIsBounded

=============================================================================
