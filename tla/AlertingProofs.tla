--------------------------- MODULE AlertingProofs ---------------------------
(***************************************************************************)
(* The rules over the gate, for any number of scans, senders and file      *)
(* systems, any capacities and thresholds.  First, that what the rules do  *)
(* to the gate is what Notifier says a sender may do, so that everything   *)
(* proved of the gate holds here.  Then the invariant of the loop: the     *)
(* samples behind it have been told of, and what the history says was told *)
(* of a level of a file system is what the gate accepted under its key.    *)
(***************************************************************************)
EXTENDS Alerting, NotifierProofs

LEMMA KeyType ==
    ASSUME NEW level \in Levels, NEW f \in FS
    PROVE  Key(level, f) \in Keys /\ Key(level, f) \in RuleKeys
BY AlertingAssumption DEF Key, RuleKeys

LEMMA DueLevel ==
    ASSUME NEW b, NEW i, NEW f \in Due(b, i)
    PROVE  f \in FS /\ f > i /\ LevelOf(b[f]) \in Levels
BY DEF Due, LevelOf, Levels

LEMMA DueOrder ==
    ASSUME NEW b, NEW i \in Nat
    PROVE  /\ \A f \in Due(b, 0) : f \in Nat /\ f > 0 /\ (f \in Due(b, i) <=> f > i)
           /\ Due(b, i) \subseteq Due(b, 0)
<1>1. FS \subseteq Nat /\ \A f \in FS : f > 0
  BY AlertingAssumption DEF FS
<1>2. \A f : f \in Due(b, i) <=> f \in FS /\ f > i /\ LevelOf(b[f]) # "ok"
  BY DEF Due
<1>3. \A f : f \in Due(b, 0) <=> f \in FS /\ f > 0 /\ LevelOf(b[f]) # "ok"
  BY DEF Due
<1>. QED  BY <1>1, <1>2, <1>3

\* Where a loop can be: outside, or at a sample that is to be told of.
Placed ==
    \A s \in Senders : pos[s] # 0 => pos[s] \in Due(batch[s], 0)

\* What a step of the rules does to the gate.
LEMMA GateStep == ASSUME Placed, [AlertNext]_alertVars PROVE [Next]_vars
<1>1. ASSUME NEW s \in Senders, Raise(s) PROVE Next
  <2>1. Key(LevelOf(batch[s][pos[s]]), pos[s]) \in Keys
    BY <1>1, DueLevel, KeyType DEF Raise, Placed
  <2>. QED  BY <1>1, <2>1 DEF Raise, Next
<1>2. ASSUME NEW s \in Senders, BeginEvaluate(s) PROVE UNCHANGED vars
  BY <1>2 DEF BeginEvaluate
<1>3. ASSUME NEW s \in Senders, SendOther(s) \/ Passes(s) \/ Returns(s) PROVE Next
  BY <1>3 DEF SendOther, Passes, Returns, Next
<1>4. CASE Tick
  BY <1>4 DEF Next
<1>5. CASE UNCHANGED alertVars
  BY <1>5 DEF alertVars
<1>. QED  BY <1>1, <1>2, <1>3, <1>4, <1>5 DEF AlertNext

----------------------------------------------------------------------------
LEMMA EmptyType == Empty \in [FS -> Capacities]
BY AlertingAssumption DEF Empty

\* Where the loop goes.
LEMMA GoOnPlaces ==
    ASSUME NEW s \in Senders, NEW b \in [FS -> Capacities], AlertTypeOK, GoOn(s, b)
    PROVE  /\ batch' \in [Senders -> [FS -> Capacities]]
           /\ pos' \in [Senders -> 0..FSCount]
           /\ since' \in [Senders -> Nat]
           /\ pos'[s] # 0 =>
                 /\ batch'[s] = b
                 /\ pos'[s] \in Due(b, pos[s])
                 /\ \A g \in Due(b, pos[s]) : pos'[s] <= g
                 /\ since'[s] = IF pos[s] = 0 THEN clock ELSE since[s]
           /\ pos'[s] = 0 => Due(b, pos[s]) = {}
           /\ \A t \in Senders \ {s} : batch'[t] = batch[t] /\ pos'[t] = pos[t] /\ since'[t] = since[t]
<1>. USE DEF AlertTypeOK
<1>1. FSCount \in Nat /\ FS \subseteq Nat \ {0} /\ clock \in Nat
  BY AlertingAssumption DEF FS, TypeOK
<1>2. CASE Due(b, pos[s]) = {} /\ Return(s)
  BY <1>1, <1>2, EmptyType DEF Return
<1>3. CASE \E f \in Due(b, pos[s]) :
              /\ \A g \in Due(b, pos[s]) : f <= g
              /\ pos' = [pos EXCEPT ![s] = f]
              /\ batch' = [batch EXCEPT ![s] = b]
              /\ since' = [since EXCEPT ![s] = IF pos[s] = 0 THEN clock ELSE @]
  <2>1. PICK f \in Due(b, pos[s]) :
           /\ \A g \in Due(b, pos[s]) : f <= g
           /\ pos' = [pos EXCEPT ![s] = f]
           /\ batch' = [batch EXCEPT ![s] = b]
           /\ since' = [since EXCEPT ![s] = IF pos[s] = 0 THEN clock ELSE @]
    BY <1>3
  <2>2. f \in FS /\ f \in 0..FSCount /\ f # 0
    BY <1>1, <2>1, DueLevel DEF FS
  <2>. QED  BY <1>1, <2>1, <2>2
<1>. QED  BY <1>2, <1>3 DEF GoOn

LEMMA AlertInitType == ASSUME AlertInit PROVE AlertTypeOK
<1>1. TypeOK
  BY InitType DEF AlertInit
<1>. QED  BY <1>1, EmptyType, AlertingAssumption DEF AlertInit, AlertTypeOK

LEMMA AlertNextType ==
    ASSUME AlertTypeOK, Placed, [AlertNext]_alertVars
    PROVE  AlertTypeOK'
<1>1. TypeOK'
  BY GateStep, NextType DEF AlertTypeOK
<1>. USE DEF AlertTypeOK
<1>2. ASSUME NEW s \in Senders, BeginEvaluate(s) PROVE AlertTypeOK'
  <2>1. PICK b \in [FS -> Capacities] :
           /\ (Due(b, 0) # {} /\ Round) \/ (Due(b, 0) = {} /\ UNCHANGED rounds)
           /\ GoOn(s, b)
    BY <1>2 DEF BeginEvaluate
  <2>2. rounds' \in 0..MaxRounds
    BY <2>1, AlertingAssumption DEF Round
  <2>3. told' = told
    BY <1>2 DEF BeginEvaluate
  <2>4. batch' \in [Senders -> [FS -> Capacities]] /\ pos' \in [Senders -> 0..FSCount]
        /\ since' \in [Senders -> Nat]
    BY <2>1, GoOnPlaces
  <2>. QED  BY <1>1, <2>2, <2>3, <2>4
<1>3. ASSUME NEW s \in Senders, SendOther(s) PROVE AlertTypeOK'
  BY <1>1, <1>3, AlertingAssumption DEF SendOther, Round
<1>4. ASSUME NEW s \in Senders, Passes(s) PROVE AlertTypeOK'
  <2>1. CASE pos[s] = 0
    BY <1>1, <1>4, <2>1 DEF Passes
  <2>2. CASE pos[s] # 0
    <3>1. <<LevelOf(batch[s][pos[s]]), pos[s]>> \in Levels \X FS
      BY <2>2, DueLevel DEF Placed
    <3>. QED  BY <1>1, <1>4, <2>2, <3>1 DEF Passes, TypeOK
  <2>. QED  BY <2>1, <2>2
<1>5. ASSUME NEW s \in Senders, Returns(s) PROVE AlertTypeOK'
  <2>1. CASE pos[s] = 0
    BY <1>1, <1>5, <2>1 DEF Returns
  <2>2. CASE pos[s] # 0
    BY <1>1, <1>5, <2>2, GoOnPlaces DEF Returns
  <2>. QED  BY <2>1, <2>2
<1>6. CASE UNCHANGED rules
  BY <1>1, <1>6 DEF rules
<1>. QED  BY <1>2, <1>3, <1>4, <1>5, <1>6 DEF AlertNext, Raise, alertVars

----------------------------------------------------------------------------
\* The history of what was told is the history of the gate, under the rules' keys.
ToldByKey ==
    \A level \in Levels, f \in FS : told[<<level, f>>] = accepted[Key(level, f)]

\* A level of a file system was told of, by this Evaluate or shortly before it.
ToldOf(s, f) ==
    LET at == told[<<LevelOf(batch[s][f]), f>>]
    IN  at # 0 /\ since[s] < at + Window + MaxStall

\* What a goroutine in the loop has done so far, and what it is about.
Doing(s) ==
    pos[s] # 0 =>
        /\ since[s] <= clock
        /\ \A f \in Due(batch[s], 0) : f < pos[s] => ToldOf(s, f)
        /\ pc[s] = "posting" => ToldOf(s, pos[s])
        /\ pc[s] = "deciding" => call[s].key = Key(LevelOf(batch[s][pos[s]]), pos[s])

Progress == \A s \in Senders : Doing(s)

\* Everybody else uses other keys.
Apart ==
    \A s \in Senders : pos[s] = 0 /\ pc[s] = "deciding" => call[s].key \notin RuleKeys

RuleInv == GateInv /\ AlertTypeOK /\ Placed /\ ToldByKey /\ Progress /\ Apart

LEMMA RuleInit == ASSUME AlertInit PROVE RuleInv
<1>1. GateInv
  BY GateInit DEF AlertInit
<1>2. Placed /\ Progress /\ Apart
  BY DEF AlertInit, Init, Placed, Progress, Doing, Apart
<1>3. ToldByKey
  BY KeyType DEF AlertInit, Init, ToldByKey
<1>. QED  BY <1>1, <1>2, <1>3, AlertInitType DEF RuleInv

\* A message that passes makes both histories the younger, in the same place.
LEMMA PassesTells ==
    ASSUME RuleInv, NEW s \in Senders, Passes(s)
    PROVE  /\ ToldByKey'
           /\ \A m \in Levels \X FS : told'[m] = told[m] \/ (told'[m] = clock /\ told[m] <= clock)
           /\ pos[s] # 0 => told'[<<LevelOf(batch[s][pos[s]]), pos[s]>>] = clock
<1>. USE DEF RuleInv, AlertTypeOK, TypeOK
<1>1. /\ accepted' = [accepted EXCEPT ![call[s].key] = clock]
      /\ clock \in Nat /\ \A k \in Keys : accepted[k] <= clock
      /\ \A level \in Levels, f \in FS : Key(level, f) = <<level, f>> /\ <<level, f>> \in Keys
  BY KeyType DEF Passes, Accept, GateInv, Faithful, Key
<1>2. CASE pos[s] = 0
  <2>1. call[s].key \notin RuleKeys /\ told' = told
    BY <1>2 DEF Passes, Accept, Apart
  <2>2. \A level \in Levels, f \in FS : accepted'[Key(level, f)] = accepted[Key(level, f)]
    BY <1>1, <2>1, KeyType
  <2>. QED  BY <1>2, <2>1, <2>2 DEF ToldByKey
<1>3. CASE pos[s] # 0
  <2>. DEFINE m == <<LevelOf(batch[s][pos[s]]), pos[s]>>
  <2>1. m \in Levels \X FS
    BY <1>3, DueLevel DEF Placed
  <2>2. call[s].key = m
    BY <1>1, <1>3, <2>1 DEF Passes, Accept, Progress, Doing, Key
  <2>3. told' = [told EXCEPT ![m] = clock] /\ told'[m] = clock
    BY <1>3, <2>1 DEF Passes
  <2>. HIDE DEF m
  <2>4. accepted' = [accepted EXCEPT ![m] = clock] /\ \A n \in Levels \X FS : told[n] = accepted[n] /\ n \in Keys
    <3>1. accepted' = [accepted EXCEPT ![m] = clock]
      BY <1>1, <2>2
    <3>2. \A level \in Levels, f \in FS : told[<<level, f>>] = accepted[<<level, f>>]
      BY DEF ToldByKey, Key
    <3>3. ASSUME NEW n \in Levels \X FS PROVE told[n] = accepted[n] /\ n \in Keys
      <4>1. PICK level \in Levels, f \in FS : n = <<level, f>>
        OBVIOUS
      <4>. QED  BY <1>1, <3>2, <4>1
    <3>. QED  BY <3>1, <3>3
  <2>5. \A n \in Levels \X FS : told'[n] = accepted'[n]
    BY <2>3, <2>4
  <2>6. ToldByKey'
    BY <1>1, <2>5 DEF ToldByKey, Key
  <2>7. \A n \in Levels \X FS : told'[n] = told[n] \/ (told'[n] = clock /\ told[n] <= clock)
    BY <1>1, <2>3, <2>4
  <2>. QED  BY <2>3, <2>6, <2>7 DEF m
<1>. QED  BY <1>2, <1>3

\* Whoever stays where he is keeps what he has told.
LEMMA StaysTold ==
    ASSUME RuleInv, NEW t \in Senders, NEW f \in Due(batch[t], 0), ToldOf(t, f),
           batch'[t] = batch[t], since'[t] = since[t],
           \A m \in Levels \X FS : told'[m] = told[m] \/ (told'[m] = clock /\ told[m] <= clock)
    PROVE  ToldOf(t, f)'
<1>1. <<LevelOf(batch[t][f]), f>> \in Levels \X FS
  BY DueLevel
<1>2. /\ \A m \in Levels \X FS : told[m] \in Nat
      /\ since[t] \in Nat /\ clock \in Nat
  BY DEF RuleInv, AlertTypeOK, TypeOK
<1>. QED  BY <1>1, <1>2, NotifierAssumption DEF ToldOf

\* A message of the loop that the gate drops was told of shortly before.
LEMMA SuppressedWasTold ==
    ASSUME RuleInv, NEW s \in Senders, pos[s] # 0, Suppress(s)
    PROVE  ToldOf(s, pos[s])
<1>. DEFINE m == <<LevelOf(batch[s][pos[s]]), pos[s]>>
<1>1. m \in Levels \X FS /\ m \in Keys
  BY DueLevel, KeyType DEF RuleInv, Placed, Key
<1>2. call[s].key = m /\ told[m] = accepted[m]
  BY <1>1 DEF RuleInv, Progress, Doing, Suppress, ToldByKey, Key
<1>3. last[m] # 0 /\ call[s].now - last[m] < Window
  BY <1>2 DEF Suppress, InWindow
<1>4. since[s] <= clock /\ since[s] \in Nat /\ told[m] \in Nat
  BY <1>1 DEF RuleInv, AlertTypeOK, Progress, Doing
<1>. HIDE DEF m
<1>5. told[m] # 0 /\ clock < told[m] + Window + MaxStall
  BY <1>1, <1>2, <1>3, NotifierAssumption DEF RuleInv, GateInv, TypeOK, Timely, Faithful, Suppress
<1>6. clock \in Nat
  BY DEF RuleInv, GateInv, TypeOK
<1>. QED  BY <1>4, <1>5, <1>6, NotifierAssumption DEF ToldOf, m

LEMMA RuleNext == ASSUME RuleInv, [AlertNext]_alertVars PROVE RuleInv'
<1>1. GateInv'
  BY GateStep, GateNext DEF RuleInv
<1>2. AlertTypeOK'
  BY AlertNextType DEF RuleInv
<1>3. clock \in Nat /\ FSCount \in Nat /\ FS \subseteq Nat
  BY AlertingAssumption DEF RuleInv, GateInv, TypeOK, FS
<1>4. CASE Tick /\ UNCHANGED rules
  <2>1. Progress'
    <3>1. clock <= clock' /\ UNCHANGED <<batch, pos, since, told, pc, call>> /\ clock' \in Nat
      BY <1>3, <1>4 DEF Tick, rules
    <3>2. \A s \in Senders : since[s] \in Nat
      BY DEF RuleInv, AlertTypeOK
    <3>3. ASSUME NEW s \in Senders PROVE Doing(s)'
      BY <1>3, <3>1, <3>2 DEF RuleInv, Progress, Doing, ToldOf
    <3>. QED  BY <3>3 DEF Progress
  <2>. QED  BY <1>1, <1>2, <1>4, <2>1 DEF RuleInv, Placed, ToldByKey, Apart, Tick, rules
<1>5. ASSUME NEW s \in Senders, BeginEvaluate(s) PROVE RuleInv'
  <2>1. PICK b \in [FS -> Capacities] : GoOn(s, b)
    BY <1>5 DEF BeginEvaluate
  <2>2. pos[s] = 0 /\ pc[s] = "idle" /\ told' = told /\ UNCHANGED vars
    BY <1>5 DEF BeginEvaluate
  <2>3. /\ pos'[s] # 0 => /\ batch'[s] = b /\ pos'[s] \in Due(b, 0)
                          /\ \A g \in Due(b, 0) : pos'[s] <= g
                          /\ since'[s] = clock
        /\ \A t \in Senders \ {s} : batch'[t] = batch[t] /\ pos'[t] = pos[t] /\ since'[t] = since[t]
    BY <2>1, <2>2, GoOnPlaces DEF RuleInv
  <2>4. Placed'
    BY <2>3 DEF RuleInv, Placed
  <2>5. Progress'
    <3>1. ASSUME NEW t \in Senders, t # s PROVE Doing(t)'
      BY <2>2, <2>3, <3>1 DEF RuleInv, Progress, Doing, vars, ToldOf
    <3>2. Doing(s)'
      <4>1. pos'[s] # 0 => Due(batch'[s], 0) = Due(b, 0)
        BY <2>3
      <4>2. \A f \in Due(b, 0) : pos'[s] # 0 => ~(f < pos'[s])
        BY <2>3, DueOrder
      <4>3. pc'[s] = "idle" /\ clock' = clock
        BY <2>2 DEF vars
      <4>. QED  BY <1>3, <2>3, <4>1, <4>2, <4>3 DEF Doing
    <3>. QED  BY <3>1, <3>2 DEF Progress
  <2>6. Apart'
    BY <2>2, <2>3 DEF RuleInv, Apart, vars
  <2>. QED  BY <1>1, <1>2, <2>2, <2>4, <2>5, <2>6 DEF RuleInv, ToldByKey, vars
<1>6. ASSUME NEW s \in Senders, Raise(s) PROVE RuleInv'
  <2>1. /\ pos[s] # 0 /\ pc[s] = "idle" /\ UNCHANGED rules /\ clock' = clock /\ accepted' = accepted
        /\ \A t \in Senders \ {s} : pc'[t] = pc[t] /\ call'[t] = call[t]
        /\ pc'[s] = "deciding" /\ call'[s].key = Key(LevelOf(batch[s][pos[s]]), pos[s])
    BY <1>6 DEF Raise, Begin, RuleInv, GateInv, TypeOK
  <2>2. Progress'
    BY <2>1 DEF RuleInv, Progress, Doing, rules, ToldOf
  <2>. QED  BY <1>1, <1>2, <2>1, <2>2 DEF RuleInv, Placed, ToldByKey, Apart, rules
<1>7. ASSUME NEW s \in Senders, SendOther(s) PROVE RuleInv'
  <2>1. /\ pos[s] = 0 /\ UNCHANGED <<batch, pos, since, told, clock, accepted>>
        /\ \A t \in Senders \ {s} : pc'[t] = pc[t] /\ call'[t] = call[t]
        /\ call'[s].key \notin RuleKeys
    BY <1>7 DEF SendOther, Begin, RuleInv, GateInv, TypeOK
  <2>2. Progress'
    BY <2>1 DEF RuleInv, Progress, Doing, ToldOf
  <2>. QED  BY <1>1, <1>2, <2>1, <2>2 DEF RuleInv, Placed, ToldByKey, Apart
<1>8. ASSUME NEW s \in Senders, Passes(s) PROVE RuleInv'
  <2>1. /\ UNCHANGED <<batch, pos, since, clock>>
        /\ \A t \in Senders \ {s} : pc'[t] = pc[t] /\ call'[t] = call[t]
        /\ pc'[s] = "posting"
    BY <1>8 DEF Passes, Accept, RuleInv, GateInv, TypeOK
  <2>2. ASSUME NEW t \in Senders PROVE Doing(t)'
    <3>1. \A f \in Due(batch[t], 0) : ToldOf(t, f) => ToldOf(t, f)'
      BY <1>8, <2>1, PassesTells, StaysTold
    <3>2. t = s /\ pos[s] # 0 => ToldOf(s, pos[s])'
      <4>. SUFFICES ASSUME t = s, pos[s] # 0 PROVE ToldOf(s, pos[s])'
        OBVIOUS
      <4>1. told'[<<LevelOf(batch[s][pos[s]]), pos[s]>>] = clock
        BY <1>8, PassesTells
      <4>2. since[s] <= clock /\ since[s] \in Nat /\ clock # 0
        BY <1>3 DEF RuleInv, Progress, Doing, AlertTypeOK, GateInv
      <4>. QED  BY <1>3, <2>1, <4>1, <4>2, NotifierAssumption DEF ToldOf
    <3>. QED  BY <2>1, <2>2, <3>1, <3>2 DEF RuleInv, Progress, Doing, Placed
  <2>3. Progress'
    BY <2>2 DEF Progress
  <2>. QED  BY <1>1, <1>2, <1>8, <2>1, <2>3, PassesTells DEF RuleInv, Placed, Apart
<1>9. ASSUME NEW s \in Senders, Returns(s) PROVE RuleInv'
  <2>1. /\ UNCHANGED <<told, clock, accepted>>
        /\ \A t \in Senders \ {s} : pc'[t] = pc[t] /\ call'[t] = call[t]
        /\ pc'[s] = "idle"
    BY <1>9 DEF Returns, Suppress, Finish, RuleInv, GateInv, TypeOK
  <2>2. CASE pos[s] = 0
    BY <1>1, <1>2, <1>9, <2>1, <2>2 DEF Returns, RuleInv, Placed, ToldByKey, Progress, Doing, ToldOf, Apart
  <2>3. CASE pos[s] # 0
    <3>1. ToldOf(s, pos[s])
      BY <1>9, <2>3, SuppressedWasTold DEF Returns, RuleInv, Progress, Doing, Finish
    <3>2. batch[s] \in [FS -> Capacities] /\ GoOn(s, batch[s]) /\ pos[s] \in Due(batch[s], 0)
      BY <1>9, <2>3 DEF Returns, RuleInv, AlertTypeOK, Placed
    <3>3. /\ pos'[s] # 0 => /\ batch'[s] = batch[s] /\ pos'[s] \in Due(batch[s], pos[s])
                            /\ \A g \in Due(batch[s], pos[s]) : pos'[s] <= g
                            /\ since'[s] = since[s]
          /\ \A t \in Senders \ {s} : batch'[t] = batch[t] /\ pos'[t] = pos[t] /\ since'[t] = since[t]
      BY <2>3, <3>2, GoOnPlaces DEF RuleInv
    <3>4. Placed'
      BY <3>2, <3>3, DueOrder DEF RuleInv, Placed
    <3>5. ASSUME NEW t \in Senders, t # s PROVE Doing(t)'
      BY <2>1, <3>3, <3>5 DEF RuleInv, Progress, Doing, ToldOf
    <3>6. Doing(s)'
      <4>1. ASSUME pos'[s] # 0, NEW f \in Due(batch[s], 0), f < pos'[s] PROVE ToldOf(s, f)'
        <5>1. f <= pos[s]
          BY <3>2, <3>3, <4>1, DueOrder
        <5>2. ToldOf(s, f)
          BY <2>3, <3>1, <3>2, <4>1, <5>1, DueOrder DEF RuleInv, Progress, Doing
        <5>3. batch'[s] = batch[s] /\ since'[s] = since[s] /\ told' = told
          BY <2>1, <3>3, <4>1
        <5>. QED  BY <5>2, <5>3 DEF ToldOf
      <4>. QED  BY <2>1, <2>3, <3>3, <4>1 DEF RuleInv, Progress, Doing
    <3>7. Apart'
      BY <2>1, <3>3 DEF RuleInv, Apart
    <3>8. Progress'
      BY <3>5, <3>6 DEF Progress
    <3>. QED  BY <1>1, <1>2, <2>1, <3>4, <3>7, <3>8 DEF RuleInv, ToldByKey
  <2>. QED  BY <2>2, <2>3
<1>10. CASE UNCHANGED alertVars
  BY <1>1, <1>2, <1>10
     DEF alertVars, vars, rules, RuleInv, Placed, ToldByKey, Progress, Doing, ToldOf, Apart
<1>. QED  BY <1>4, <1>5, <1>6, <1>7, <1>8, <1>9, <1>10 DEF AlertNext

\* Every variable of the rules keeps its type.
THEOREM AlertTypeCorrect == AlertSpec => []AlertTypeOK
<1>1. RuleInv => AlertTypeOK  BY DEF RuleInv
<1>. QED  BY <1>1, RuleInit, RuleNext, PTL DEF AlertSpec

\* The rules use the gate as Notifier lets its senders use it.
THEOREM RulesKeepTheGate == AlertSpec => Spec
<1>1. AlertInit => Init  BY DEF AlertInit
<1>2. RuleInv /\ [AlertNext]_alertVars => [Next]_vars
  BY GateStep DEF RuleInv
<1>. QED  BY <1>1, <1>2, RuleInit, RuleNext, PTL DEF AlertSpec, Spec

\* Whatever is to be told of has been told of when Evaluate is done.
THEOREM LevelsAreTold == AlertSpec => EveryLevelIsTold
<1>1. ASSUME RuleInv, [AlertNext]_alertVars, NEW s \in Senders, pos[s] # 0, pos'[s] = 0,
             NEW f \in Due(batch[s], 0)
      PROVE  LET at == told'[<<LevelOf(batch[s][f]), f>>]
             IN  at # 0 /\ since[s] < at + Window + MaxStall
  <2>1. Returns(s)
    <3>1. ASSUME NEW t \in Senders, BeginEvaluate(t) PROVE FALSE
      <4>1. pos[t] = 0 /\ \E b \in [FS -> Capacities] : GoOn(t, b)
        BY <3>1 DEF BeginEvaluate
      <4>2. t # s
        BY <1>1, <4>1
      <4>. QED  BY <1>1, <4>1, <4>2, GoOnPlaces DEF RuleInv
    <3>2. ASSUME NEW t \in Senders, Returns(t) PROVE t = s
      <4>1. CASE pos[t] = 0
        BY <1>1, <3>2, <4>1 DEF Returns
      <4>2. CASE pos[t] # 0
        BY <1>1, <3>2, <4>2, GoOnPlaces DEF Returns, RuleInv, AlertTypeOK
      <4>. QED  BY <4>1, <4>2
    <3>. QED  BY <1>1, <3>1, <3>2 DEF AlertNext, Raise, SendOther, Passes, alertVars, rules
  <2>2. told' = told /\ batch[s] \in [FS -> Capacities] /\ GoOn(s, batch[s])
    BY <1>1, <2>1 DEF Returns, RuleInv, AlertTypeOK
  <2>3. Due(batch[s], pos[s]) = {}
    BY <1>1, <2>2, GoOnPlaces DEF RuleInv
  <2>4. f \in Nat /\ pos[s] \in Nat /\ f <= pos[s]
    <3>1. pos[s] \in Nat
      BY <1>1, AlertingAssumption DEF RuleInv, AlertTypeOK
    <3>2. f \in Nat /\ (f \in Due(batch[s], pos[s]) <=> f > pos[s])
      BY <1>1, <3>1, DueOrder
    <3>. QED  BY <2>3, <3>1, <3>2
  <2>5. ToldOf(s, pos[s])
    BY <1>1, <2>1, SuppressedWasTold DEF Returns, RuleInv, Progress, Doing, Finish
  <2>6. ToldOf(s, f)
    BY <1>1, <2>4, <2>5 DEF RuleInv, Progress, Doing
  <2>. QED  BY <2>2, <2>6 DEF ToldOf
<1>2. RuleInv /\ [AlertNext]_alertVars
      => [ \A s \in Senders : pos[s] # 0 /\ pos'[s] = 0 =>
             \A f \in Due(batch[s], 0) :
                LET at == told'[<<LevelOf(batch[s][f]), f>>]
                IN  at # 0 /\ since[s] < at + Window + MaxStall ]_alertVars
  BY <1>1
<1>. QED  BY <1>2, RuleInit, RuleNext, PTL DEF AlertSpec, EveryLevelIsTold

\* What was proved of the gate holds of the daemon's alarms.
THEOREM AlarmsAreDeduped == AlertSpec => OncePerWindow /\ SilenceIsBounded /\ []OverflowSpansOneWindow
BY RulesKeepTheGate, DedupedPerWindow, SilenceBounded, OverflowBounded, PTL

=============================================================================
