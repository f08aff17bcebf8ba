------------------------------- MODULE WaitProofs -------------------------------
(***************************************************************************)
(* Proofs about the two waits of pkg/blockchain/mpe.go.                    *)
(*                                                                         *)
(* First EventWait, for any number of past events, any capacity of the     *)
(* channel they are read from, and any number of events that the node      *)
(* sends and of subscriptions that break.  Then ApproveWait, the wait      *)
(* between the two, for any number of attempts, amounts, backoffs and      *)
(* deadlines.  The two specifications share no variable.                   *)
(***************************************************************************)
EXTENDS EventWait, ApproveWait, Integers, SequenceTheorems, FiniteSetTheorems, TLAPS

-----------------------------------------------------------------------------
(* The events: the inductive invariant. *)

Scanning == [events : Seq(Opening), put : Nat, taken : Nat, ended : BOOLEAN,
             done : BOOLEAN, filtered : Nat]

EventTypes ==
    /\ pc \in {"filter", "subscribe", "report", "submit", "wait", "unsubscribe", "drain",
               "returned"}
    /\ scan \in Scanning
    /\ plan \in OpenPlans \cup TopUpPlans
    /\ stage \in Nat
    /\ subscribed \in Seq(Event)
    /\ result \in {"none", "ok", "error"}
    /\ producer \in [Event -> {"none", "reading", "delivering", "quitting", "ended"}]
    /\ failure \in [Event -> BOOLEAN]
    /\ forwarder \in [Event -> {"none", "listening", "sending", "done"}]
    /\ waiter \in [Event -> {"none", "waiting", "event", "error"}]

\* What the iterator has taken out of the channel is a prefix of the events, none
\* of it is garbled, and the last own event of it is the one to be returned.
Found(s) ==
    /\ s.taken <= s.put /\ s.put <= Len(s.events)
    /\ s.ended => s.put = Len(s.events)
    /\ s.done => s.ended
    /\ \A k \in 1..s.taken : s.events[k] # "garbled"
    /\ \A k \in 1..s.taken : s.events[k] = "own" => k <= s.filtered
    /\ s.filtered # 0 => s.filtered <= s.taken /\ s.events[s.filtered] = "own"

\* Before the plan is known nothing has begun; then the call is in one of its
\* stages, of which it has not returned yet.
Planned ==
    /\ pc = "filter" =>
         /\ plan = <<>> /\ stage = 1 /\ subscribed = <<>> /\ result = "none"
         /\ \A e \in Event : producer[e] = "none" /\ waiter[e] = "none"
    /\ pc \in {"subscribe", "report", "submit", "wait"} =>
         stage \in 1..Len(plan) /\ result = "none"

\* A stage is subscribed to in order, and the later ones not at all yet.
Ahead ==
    /\ pc = "subscribe" => producer[plan[stage][Len(plan[stage])]] = "none"
    /\ pc \in {"subscribe", "report", "submit", "wait"} =>
         \A k \in (stage + 1)..Len(plan) : \A e \in Events(k) : producer[e] = "none"

\* A producer that runs is one the call still has to unsubscribe.
Held ==
    /\ \A e \in Event : Running(e) => \E i \in 1..Len(subscribed) : subscribed[i] = e
    /\ pc = "drain" => subscribed # <<>>
    /\ pc = "returned" => subscribed = <<>>

\* Only the current stage waits; the ones behind it have their events.
Behind ==
    /\ \A e \in Event : waiter[e] = "waiting" => pc = "wait" /\ e \in Events(stage)
    /\ pc = "wait" => \A e \in Events(stage) : waiter[e] # "none"
    /\ pc \in {"subscribe", "report", "submit", "wait"} =>
         \A k \in 1..(stage - 1) : \A e \in Events(k) : waiter[e] = "event"

IInv ==
    /\ EventTypes
    /\ pc = "filter" => Found(scan)
    /\ Planned /\ Ahead /\ Held /\ Behind
    /\ SuccessMeansEvents

-----------------------------------------------------------------------------
(* The plans. *)

\* A plan names each event once, one or two in a stage.
Plan(p) ==
    /\ p \in Seq(Seq(Event))
    /\ \A k \in 1..Len(p) :
          /\ Len(p[k]) = 1 \/ (Len(p[k]) = 2 /\ p[k][1] # p[k][2])
          /\ \A j \in 1..Len(p) : j # k =>
                 \A i \in 1..Len(p[k]), h \in 1..Len(p[j]) : p[k][i] # p[j][h]

LEMMA OneStage ==
    ASSUME NEW a \in Seq(Event), Len(a) = 1 \/ (Len(a) = 2 /\ a[1] # a[2])
    PROVE  Plan(<<a>>)
  BY DEF Plan

LEMMA TwoStages ==
    ASSUME NEW a \in Event, NEW b \in Seq(Event), Len(b) = 1 \/ (Len(b) = 2 /\ b[1] # b[2]),
           \A i \in 1..Len(b) : b[i] # a
    PROVE  Plan(<<<<a>>, b>>)
  <1> DEFINE s == <<a>>
             p == <<s, b>>
  <1>1. s \in Seq(Event) /\ Len(s) = 1 /\ s[1] = a
    OBVIOUS
  <1> HIDE DEF s
  <1>2. p \in Seq(Seq(Event)) /\ Len(p) = 2 /\ p[1] = s /\ p[2] = b
    BY <1>1
  <1> HIDE DEF p
  <1>3. Plan(p)
    BY <1>1, <1>2 DEF Plan
  <1>4. QED BY <1>3 DEF p, s

LEMMA Plans ==
    ASSUME NEW p \in OpenPlans \cup TopUpPlans
    PROVE  Plan(p)
  <1>1. \/ p = <<>> \/ p = <<<<"open">>>> \/ p = <<<<"open", "deposit">>>>
        \/ p = <<<<"extend">>>> \/ p = <<<<"add">>>> \/ p = <<<<"add", "extend">>>>
        \/ p = <<<<"deposit">>, <<"add">>>> \/ p = <<<<"deposit">>, <<"add", "extend">>>>
    BY DEF OpenPlans, TopUpPlans
  <1>2. \A e \in Event : <<e>> \in Seq(Event) /\ Len(<<e>>) = 1
    OBVIOUS
  <1>3. \A e, f \in Event :
           /\ <<e, f>> \in Seq(Event) /\ Len(<<e, f>>) = 2
           /\ <<e, f>>[1] = e /\ <<e, f>>[2] = f
    OBVIOUS
  <1>4. {"open", "deposit", "add", "extend"} \subseteq Event
    BY DEF Event
  <1>5. CASE p = <<>>
    BY <1>5 DEF Plan
  <1>6. CASE p = <<<<"open">>>>
    BY <1>2, <1>4, <1>6, OneStage
  <1>7. CASE p = <<<<"extend">>>>
    BY <1>2, <1>4, <1>7, OneStage
  <1>8. CASE p = <<<<"add">>>>
    BY <1>2, <1>4, <1>8, OneStage
  <1>9. CASE p = <<<<"open", "deposit">>>>
    <2>1. <<"open", "deposit">>[1] # <<"open", "deposit">>[2]
      BY <1>3, <1>4
    <2>2. QED BY <1>3, <1>4, <1>9, <2>1, OneStage
  <1>10. CASE p = <<<<"add", "extend">>>>
    <2>1. <<"add", "extend">>[1] # <<"add", "extend">>[2]
      BY <1>3, <1>4
    <2>2. QED BY <1>3, <1>4, <1>10, <2>1, OneStage
  <1>11. CASE p = <<<<"deposit">>, <<"add">>>>
    BY <1>4, <1>11, TwoStages
  <1>12. CASE p = <<<<"deposit">>, <<"add", "extend">>>>
    <2> DEFINE b == <<"add", "extend">>
    <2>1. b \in Seq(Event) /\ Len(b) = 2 /\ b[1] = "add" /\ b[2] = "extend"
      BY <1>3, <1>4
    <2> HIDE DEF b
    <2>2. b[1] # b[2] /\ \A i \in 1..Len(b) : b[i] # "deposit"
      BY <2>1
    <2>3. Plan(<<<<"deposit">>, b>>)
      BY <1>4, <2>1, <2>2, TwoStages
    <2>4. QED BY <1>12, <2>3 DEF b
  <1>13. QED BY <1>1, <1>5, <1>6, <1>7, <1>8, <1>9, <1>10, <1>11, <1>12

\* A plan that opens a channel is none that tops one up.
LEMMA PlansDiffer == OpenPlans \cap TopUpPlans = {} /\ <<>> \in TopUpPlans
  <1>1. \A p \in TopUpPlans :
           p # <<>> => \E e \in {"extend", "add", "deposit"} : p[1][1] = e
    BY DEF TopUpPlans
  <1>2. \A p \in OpenPlans : p # <<>> /\ p[1][1] = "open"
    BY DEF OpenPlans
  <1>3. <<>> \in TopUpPlans
    BY DEF TopUpPlans
  <1>4. QED BY <1>1, <1>2, <1>3

\* The stages of a plan.
LEMMA Stages ==
    ASSUME NEW p \in OpenPlans \cup TopUpPlans, NEW k \in 1..Len(p)
    PROVE  /\ Len(p) \in Nat
           /\ Len(p[k]) \in Nat /\ (Len(p[k]) = 1 \/ Len(p[k]) = 2)
           /\ \A i \in 1..Len(p[k]) : p[k][i] \in Event
           /\ Len(p[k]) = 2 => p[k][1] # p[k][2]
           /\ \A j \in 1..Len(p) : j # k =>
                 \A i \in 1..Len(p[k]), h \in 1..Len(p[j]) : p[k][i] # p[j][h]
  <1>1. Plan(p)
    BY Plans
  <1>2. p[k] \in Seq(Event) /\ Len(p) \in Nat
    BY <1>1 DEF Plan
  <1>3. Len(p[k]) = 1 \/ (Len(p[k]) = 2 /\ p[k][1] # p[k][2])
    BY <1>1 DEF Plan
  <1>4. \A i \in 1..Len(p[k]) : p[k][i] \in Event
    BY <1>2, ElementOfSeq
  <1>5. \A j \in 1..Len(p) : j # k =>
           \A i \in 1..Len(p[k]), h \in 1..Len(p[j]) : p[k][i] # p[j][h]
    BY <1>1 DEF Plan
  <1>6. QED BY <1>2, <1>3, <1>4, <1>5

\* The events in the stages of the plan.
LEMMA StageFacts ==
    ASSUME EventTypes, NEW k \in 1..Len(plan)
    PROVE  /\ Len(plan) \in Nat
           /\ Len(plan[k]) \in Nat /\ (Len(plan[k]) = 1 \/ Len(plan[k]) = 2)
           /\ \A i \in 1..Len(plan[k]) : plan[k][i] \in Event
           /\ Len(plan[k]) = 2 => plan[k][1] # plan[k][2]
           /\ Events(k) \subseteq Event
           /\ \A j \in 1..Len(plan) : j # k => Events(j) \cap Events(k) = {}
  <1>1. plan \in OpenPlans \cup TopUpPlans
    BY DEF EventTypes
  <1>2. QED BY <1>1, Stages DEF Events

LEMMA WatchedEvents ==
    ASSUME EventTypes PROVE Watched \subseteq Event
  BY StageFacts DEF Watched

-----------------------------------------------------------------------------
(* FilterChannels. *)

\* The iterator moves, and nothing else.
LEMMA IteratorMoves ==
    ASSUME IInv, pc = "filter", UNCHANGED <<pc, result, plan, rest>>,
           scan' \in Scanning, Found(scan')
    PROVE  IInv'
  <1>1. EventTypes'
    BY DEF IInv, EventTypes, rest, subVars
  <1>2. Planned' /\ Ahead'
    BY DEF IInv, Planned, Ahead, rest, subVars
  <1>3. Held' /\ Behind'
    BY DEF IInv, Held, Behind, Planned, Running, rest, subVars
  <1>4. SuccessMeansEvents'
    BY DEF IInv, Planned, SuccessMeansEvents
  <1>5. QED BY <1>1, <1>2, <1>3, <1>4 DEF IInv

LEMMA ScanTypes ==
    ASSUME IInv
    PROVE  /\ scan.events \in Seq(Opening) /\ Len(scan.events) \in Nat
           /\ scan.put \in Nat /\ scan.taken \in Nat /\ scan.filtered \in Nat
           /\ scan.ended \in BOOLEAN /\ scan.done \in BOOLEAN
  BY DEF IInv, EventTypes, Scanning

LEMMA PutLogStep ==
    ASSUME IInv, PutLog
    PROVE  IInv'
  <1> DEFINE s == [scan EXCEPT !.put = @ + 1]
  <1>1. s \in Scanning
    BY ScanTypes DEF IInv, EventTypes, Scanning
  <1>2. /\ s.put = scan.put + 1 /\ s.events = scan.events /\ s.taken = scan.taken
        /\ s.ended = scan.ended /\ s.done = scan.done /\ s.filtered = scan.filtered
    BY DEF IInv, EventTypes, Scanning
  <1>3. pc = "filter" /\ scan.put < Len(scan.events) /\ Found(scan) /\ scan' = s
        /\ UNCHANGED <<pc, result, plan, rest>>
    BY DEF PutLog, IInv
  <1> HIDE DEF s
  <1>4. Found(s)
    BY <1>2, <1>3, ScanTypes DEF Found
  <1>5. QED BY <1>1, <1>3, <1>4, IteratorMoves

LEMMA EndLogsStep ==
    ASSUME IInv, EndLogs
    PROVE  IInv'
  <1> DEFINE s == [scan EXCEPT !.ended = TRUE]
  <1>1. s \in Scanning
    BY DEF IInv, EventTypes, Scanning
  <1>2. /\ s.put = scan.put /\ s.events = scan.events /\ s.taken = scan.taken
        /\ s.ended /\ s.done = scan.done /\ s.filtered = scan.filtered
    BY DEF IInv, EventTypes, Scanning
  <1>3. pc = "filter" /\ scan.put = Len(scan.events) /\ Found(scan) /\ scan' = s
        /\ UNCHANGED <<pc, result, plan, rest>>
    BY DEF EndLogs, IInv
  <1> HIDE DEF s
  <1>4. Found(s)
    BY <1>2, <1>3, ScanTypes DEF Found
  <1>5. QED BY <1>1, <1>3, <1>4, IteratorMoves

LEMMA SeeEndStep ==
    ASSUME IInv, SeeEnd
    PROVE  IInv'
  <1> DEFINE s == [scan EXCEPT !.done = TRUE]
  <1>1. s \in Scanning
    BY DEF IInv, EventTypes, Scanning
  <1>2. /\ s.put = scan.put /\ s.events = scan.events /\ s.taken = scan.taken
        /\ s.ended = scan.ended /\ s.done /\ s.filtered = scan.filtered
    BY DEF IInv, EventTypes, Scanning
  <1>3. pc = "filter" /\ scan.ended /\ Found(scan) /\ scan' = s
        /\ UNCHANGED <<pc, result, plan, rest>>
    BY DEF SeeEnd, IInv
  <1> HIDE DEF s
  <1>4. Found(s)
    BY <1>2, <1>3, ScanTypes DEF Found
  <1>5. QED BY <1>1, <1>3, <1>4, IteratorMoves

\* The query, an event that cannot be unpacked or what follows is an error.
LEMMA FailsStep ==
    ASSUME IInv, pc = "filter", Fails, UNCHANGED <<plan, rest>>
    PROVE  IInv'
  <1>1. NoScan \in Scanning
    BY DEF NoScan, Scanning
  <1>2. pc' = "returned" /\ result' = "error" /\ scan' = NoScan /\ plan' = <<>>
        /\ subscribed' = <<>>
    BY DEF Fails, IInv, Planned, rest
  <1>3. EventTypes'
    BY <1>1, <1>2 DEF IInv, EventTypes, rest, subVars
  <1>4. Planned' /\ Ahead'
    BY <1>2 DEF Planned, Ahead
  <1>5. Held' /\ Behind'
    BY <1>2 DEF IInv, Held, Behind, Planned, Running, rest, subVars
  <1>6. SuccessMeansEvents'
    BY <1>2 DEF SuccessMeansEvents
  <1>7. QED BY <1>2, <1>3, <1>4, <1>5, <1>6 DEF IInv

LEMMA NextLogStep ==
    ASSUME IInv, NextLog
    PROVE  IInv'
  <1> DEFINE k == scan.taken + 1
             s == [scan EXCEPT !.taken = k,
                     !.filtered = IF scan.events[k] = "own" THEN k ELSE @]
  <1>1. pc = "filter" /\ scan.taken < scan.put /\ Found(scan) /\ UNCHANGED <<plan, rest>>
    BY DEF NextLog, IInv
  <1>2. CASE scan.events[k] = "garbled"
    BY <1>1, <1>2, FailsStep DEF NextLog
  <1>3. CASE scan.events[k] # "garbled"
    <2>1. scan' = s /\ UNCHANGED <<pc, result>>
      BY <1>3 DEF NextLog
    <2>2. k \in Nat /\ k > 0 /\ k = scan.taken + 1
      BY ScanTypes
    <2> HIDE DEF k
    <2>3. s \in Scanning
      BY <2>2 DEF IInv, EventTypes, Scanning
    <2>4. /\ s.put = scan.put /\ s.events = scan.events /\ s.taken = k
          /\ s.ended = scan.ended /\ s.done = scan.done
          /\ s.filtered = IF scan.events[k] = "own" THEN k ELSE scan.filtered
      BY DEF IInv, EventTypes, Scanning
    <2> HIDE DEF s
    <2>5. \A i \in 1..k : i = k \/ i \in 1..scan.taken
      BY <2>2, ScanTypes
    <2>6. /\ s.taken <= s.put /\ s.put <= Len(s.events)
          /\ s.ended => s.put = Len(s.events)
          /\ s.done => s.ended
      BY <1>1, <2>2, <2>4, ScanTypes DEF Found
    <2>7. \A i \in 1..s.taken : s.events[i] # "garbled"
      BY <1>1, <1>3, <2>4, <2>5 DEF Found
    <2>8. \A i \in 1..s.taken : s.events[i] = "own" => i <= s.filtered
      <3> SUFFICES ASSUME NEW i \in 1..k, scan.events[i] = "own" PROVE i <= s.filtered
        BY <2>4
      <3>1. CASE scan.events[k] = "own"
        BY <2>2, <2>4, <3>1
      <3>2. CASE scan.events[k] # "own"
        BY <1>1, <2>4, <2>5, <3>2 DEF Found
      <3>3. QED BY <3>1, <3>2
    <2>9. s.filtered # 0 => s.filtered <= s.taken /\ s.events[s.filtered] = "own"
      BY <1>1, <2>2, <2>4, ScanTypes DEF Found
    <2>10. Found(s)
      BY <2>6, <2>7, <2>8, <2>9 DEF Found
    <2>11. QED BY <1>1, <2>1, <2>3, <2>10, IteratorMoves
  <1>4. QED BY <1>2, <1>3

LEMMA DecideStep ==
    ASSUME IInv, Decide
    PROVE  IInv'
  <1>1. NoScan \in Scanning
    BY DEF NoScan, Scanning
  <1>2. /\ plan' \in OpenPlans \cup TopUpPlans
        /\ pc = "filter" /\ UNCHANGED <<stage, subscribed, subVars, waiter>> /\ scan' = NoScan
        /\ \/ plan' = <<>> /\ pc' = "unsubscribe" /\ result' = "ok"
           \/ plan' # <<>> /\ pc' = "subscribe" /\ result' = result
    BY DEF Decide, rest
  <1>3. /\ stage = 1 /\ subscribed = <<>> /\ result = "none"
        /\ \A e \in Event : producer[e] = "none" /\ waiter[e] = "none"
    BY <1>2 DEF IInv, Planned
  <1>4. EventTypes'
    BY <1>1, <1>2 DEF IInv, EventTypes, subVars
  <1>5. plan' # <<>> => 1 \in 1..Len(plan')
    <2>1. Plan(plan')
      BY <1>2, Plans
    <2>2. QED BY <2>1, EmptySeq DEF Plan
  <1>6. Planned'
    BY <1>2, <1>3, <1>5 DEF Planned
  <1>7. ASSUME NEW k \in 1..Len(plan')
        PROVE  \A i \in 1..Len(plan'[k]) : producer[plan'[k][i]] = "none"
    BY <1>2, <1>3, Stages
  <1>8. Ahead'
    <2>1. ASSUME plan' # <<>>
          PROVE  producer'[plan'[stage'][Len(plan'[stage'])]] = "none"
      <3>1. 1 \in 1..Len(plan') /\ stage' = 1
        BY <1>2, <1>3, <1>5, <2>1
      <3>2. Len(plan'[1]) \in 1..Len(plan'[1])
        BY <1>2, <3>1, Stages
      <3>3. QED BY <1>2, <1>7, <3>1, <3>2 DEF subVars
    <2>2. \A k \in 2..Len(plan') : \A e \in Events(k)' : producer'[e] = "none"
      BY <1>2, <1>7 DEF Events, subVars
    <2>3. stage' + 1 = 2
      BY <1>2, <1>3
    <2>4. QED BY <1>2, <2>1, <2>2, <2>3 DEF Ahead
  <1>9. Held'
    BY <1>2, <1>3 DEF Held, Running, subVars
  <1>10. Behind'
    <2>1. 1..(stage' - 1) = {}
      BY <1>2, <1>3
    <2>2. QED BY <1>2, <1>3, <2>1 DEF Behind
  <1>11. SuccessMeansEvents'
    <2>1. plan' = <<>> => Watched' = {}
      BY DEF Watched
    <2>2. QED BY <1>2, <1>3, <2>1 DEF SuccessMeansEvents
  <1>12. QED BY <1>2, <1>4, <1>6, <1>8, <1>9, <1>10, <1>11 DEF IInv

LEMMA ScanStep ==
    ASSUME IInv, Scan \/ FilterFails
    PROVE  IInv'
  <1>1. CASE FilterFails
    BY <1>1, FailsStep DEF FilterFails
  <1>2. QED BY <1>1, PutLogStep, EndLogsStep, NextLogStep, SeeEndStep, DecideStep DEF Scan

-----------------------------------------------------------------------------
(* Producers, forwarders and waiters. *)

\* None of them starts a producer.
LEMMA ProducersMove ==
    ASSUME IInv, UNCHANGED <<scanVars, mainVars, waiter>>,
           producer' \in [Event -> {"none", "reading", "delivering", "quitting", "ended"}],
           \A e \in Event : /\ Running(e)' => Running(e)
                            /\ producer[e] = "none" => producer'[e] = "none",
           failure' \in [Event -> BOOLEAN],
           forwarder' \in [Event -> {"none", "listening", "sending", "done"}]
    PROVE  IInv'
  <1>1. EventTypes'
    BY DEF IInv, EventTypes, scanVars, mainVars
  <1>2. pc = "filter" => \A e \in Event : producer'[e] = "none"
    BY DEF IInv, Planned
  <1>3. Planned'
    BY <1>2 DEF IInv, Planned, scanVars, mainVars
  <1>4. Ahead'
    <2>1. ASSUME pc \in {"subscribe", "report", "submit", "wait"},
                 NEW k \in (stage + 1)..Len(plan), NEW e \in Events(k)
          PROVE  producer'[e] = "none"
      <3>1. producer[e] = "none" /\ k \in 1..Len(plan)
        BY <2>1 DEF IInv, EventTypes, Ahead
      <3>2. e \in Event
        BY <3>1, StageFacts DEF IInv
      <3>3. QED BY <3>1, <3>2
    <2>2. ASSUME pc = "subscribe"
          PROVE  producer'[plan[stage][Len(plan[stage])]] = "none"
      <3>1. stage \in 1..Len(plan) /\ producer[plan[stage][Len(plan[stage])]] = "none"
        BY <2>2 DEF IInv, Planned, Ahead
      <3>2. plan[stage][Len(plan[stage])] \in Event
        BY <3>1, StageFacts DEF IInv
      <3>3. QED BY <3>1, <3>2
    <2>3. QED BY <2>1, <2>2 DEF Ahead, Events, scanVars, mainVars
  <1>5. Held'
    BY DEF IInv, Held, scanVars, mainVars
  <1>6. Behind' /\ SuccessMeansEvents'
    BY DEF IInv, Behind, SuccessMeansEvents, Watched, Events, scanVars, mainVars
  <1>7. pc' = "filter" => Found(scan')
    BY DEF IInv, scanVars, mainVars
  <1>8. QED BY <1>1, <1>3, <1>4, <1>5, <1>6, <1>7 DEF IInv

\* A waiter gets its event or an error; the producer may be in the middle of it.
LEMMA WaiterMoves ==
    ASSUME IInv, UNCHANGED <<scanVars, mainVars>>,
           NEW w \in Event, waiter[w] = "waiting", NEW answer \in {"event", "error"},
           waiter' = [waiter EXCEPT ![w] = answer],
           producer' \in [Event -> {"none", "reading", "delivering", "quitting", "ended"}],
           \A e \in Event : /\ Running(e)' => Running(e)
                            /\ producer[e] = "none" => producer'[e] = "none",
           failure' \in [Event -> BOOLEAN],
           forwarder' \in [Event -> {"none", "listening", "sending", "done"}]
    PROVE  IInv'
  <1>1. EventTypes'
    BY DEF IInv, EventTypes, scanVars, mainVars
  <1>2. pc = "wait" /\ result = "none" /\ stage \in 1..Len(plan) /\ w \in Events(stage)
    BY DEF IInv, Planned, Behind
  <1>3. UNCHANGED <<pc, plan, stage, subscribed, result, scan>>
    BY DEF scanVars, mainVars
  <1>4. Planned'
    BY <1>2, <1>3 DEF Planned
  <1>5. Ahead'
    <2>1. ASSUME NEW k \in (stage + 1)..Len(plan), NEW e \in Events(k)
          PROVE  producer'[e] = "none"
      <3>1. producer[e] = "none" /\ k \in 1..Len(plan)
        BY <1>2, <2>1 DEF IInv, EventTypes, Ahead
      <3>2. e \in Event
        BY <3>1, StageFacts DEF IInv
      <3>3. QED BY <3>1, <3>2
    <2>2. QED BY <1>2, <1>3, <2>1 DEF Ahead, Events
  <1>6. Held'
    BY <1>2, <1>3 DEF IInv, Held
  <1>7. Behind'
    <2>1. \A e \in Event : waiter'[e] = IF e = w THEN answer ELSE waiter[e]
      BY DEF IInv, EventTypes
    <2>2. ASSUME NEW k \in 1..(stage - 1), NEW e \in Events(k) PROVE waiter'[e] = "event"
      <3>1. k \in 1..Len(plan) /\ k # stage /\ Len(plan) \in Nat
        BY <1>2, StageFacts DEF IInv
      <3>2. e \in Event /\ e # w
        BY <1>2, <3>1, StageFacts DEF IInv
      <3>3. waiter[e] = "event"
        BY <1>2 DEF IInv, Behind
      <3>4. QED BY <2>1, <3>2, <3>3
    <2>3. ASSUME NEW e \in Events(stage) PROVE waiter'[e] # "none"
      <3>1. e \in Event
        BY <1>2, StageFacts DEF IInv
      <3>2. waiter[e] # "none"
        BY <1>2 DEF IInv, Behind
      <3>3. QED BY <2>1, <3>1, <3>2
    <2>4. \A e \in Event : waiter'[e] = "waiting" => waiter[e] = "waiting"
      BY <2>1
    <2>5. \A e \in Event : waiter'[e] = "waiting" => e \in Events(stage)
      BY <2>4 DEF IInv, Behind
    <2>6. \A k : Events(k)' = Events(k)
      BY <1>3 DEF Events
    <2>7. QED BY <1>2, <1>3, <2>2, <2>3, <2>5, <2>6 DEF Behind
  <1>8. SuccessMeansEvents'
    BY <1>2, <1>3 DEF SuccessMeansEvents
  <1>9. QED BY <1>1, <1>2, <1>3, <1>4, <1>5, <1>6, <1>7, <1>8 DEF IInv

LEMMA ProducerStep ==
    ASSUME IInv, NEW e \in Watched, LogArrives(e) \/ Break(e) \/ Quit(e) \/ Forward(e)
    PROVE  IInv'
  <1>1. EventTypes /\ e \in Event
    BY WatchedEvents DEF IInv
  <1>2. CASE LogArrives(e)
    BY <1>1, <1>2, ProducersMove DEF LogArrives, Running, EventTypes
  <1>3. CASE Break(e)
    BY <1>1, <1>3, ProducersMove DEF Break, Running, EventTypes
  <1>4. CASE Quit(e)
    BY <1>1, <1>4, ProducersMove DEF Quit, Running, EventTypes
  <1>5. CASE Forward(e)
    BY <1>1, <1>5, ProducersMove DEF Forward, Running, EventTypes
  <1>6. QED BY <1>2, <1>3, <1>4, <1>5

LEMMA ReceiveStep ==
    ASSUME IInv, NEW w \in Watched, Receive(w)
    PROVE  IInv'
  <1>1. EventTypes /\ w \in Event
    BY WatchedEvents DEF IInv
  <1>2. CASE TimesOut(w)
    BY <1>1, <1>2, WaiterMoves DEF TimesOut, subVars, Running, EventTypes
  <1>3. CASE Deliver(w)
    BY <1>1, <1>3, WaiterMoves DEF Deliver, Running, EventTypes
  <1>4. ASSUME NEW s \in Watched \cup {"caller"}, TakeError(w, s) PROVE IInv'
    <2>1. waiter[w] = "waiting" /\ Sending(s) /\ UNCHANGED <<scanVars, stage, subscribed>>
      BY <1>4 DEF TakeError
    <2>2. pc = "wait"
      BY <1>1, <2>1 DEF IInv, Behind
    <2>3. s # "caller"
      BY <2>1, <2>2 DEF Sending
    <2>4. UNCHANGED <<scanVars, mainVars>>
      BY <1>4, <2>1, <2>3 DEF TakeError, mainVars
    <2>5. /\ producer' = producer /\ failure' = failure
          /\ waiter' = [waiter EXCEPT ![w] = "error"]
          /\ forwarder' \in [Event -> {"none", "listening", "sending", "done"}]
      BY <1>1, <1>4 DEF TakeError, EventTypes
    <2>6. QED BY <1>1, <2>1, <2>4, <2>5, WaiterMoves DEF Running, EventTypes
  <1>5. QED BY <1>2, <1>3, <1>4 DEF Receive

-----------------------------------------------------------------------------
(* The caller. *)

\* The next event to subscribe to is one of the stage.
LEMMA NextIndexFacts ==
    ASSUME EventTypes, stage \in 1..Len(plan), producer[plan[stage][Len(plan[stage])]] = "none"
    PROVE  /\ NextIndex \in 1..Len(plan[stage])
           /\ NextIndex # Len(plan[stage]) =>
                 plan[stage][NextIndex] # plan[stage][Len(plan[stage])]
  <1>1. Len(plan[stage]) = 1 \/ (Len(plan[stage]) = 2 /\ plan[stage][1] # plan[stage][2])
    BY StageFacts
  <1>2. \E i \in Missing : \A j \in Missing : i <= j
    <2>1. CASE Len(plan[stage]) = 1
      <3>1. 1 \in Missing /\ Missing \subseteq {1}
        BY <2>1 DEF Missing
      <3>2. QED BY <3>1
    <2>2. CASE Len(plan[stage]) = 2
      <3>1. 2 \in Missing /\ Missing \subseteq {1, 2}
        BY <2>2 DEF Missing
      <3>2. CASE 1 \in Missing
        BY <3>1, <3>2
      <3>3. CASE 1 \notin Missing
        BY <3>1, <3>3
      <3>4. QED BY <3>2, <3>3
    <2>3. QED BY <1>1, <2>1, <2>2
  <1>3. NextIndex \in Missing
    BY <1>2 DEF NextIndex
  <1>4. NextIndex \in 1..Len(plan[stage])
    BY <1>3 DEF Missing
  <1>5. QED BY <1>1, <1>4

LEMMA SubscribeStep ==
    ASSUME IInv, Subscribe
    PROVE  IInv'
  <1> DEFINE e == plan[stage][NextIndex]
             last == Len(plan[stage])
  <1>1. /\ pc = "subscribe" /\ stage \in 1..Len(plan) /\ result = "none" /\ EventTypes
        /\ producer[plan[stage][last]] = "none"
    BY DEF Subscribe, IInv, Planned, Ahead
  <1>2. NextIndex \in 1..last /\ (NextIndex # last => e # plan[stage][last])
    BY <1>1, NextIndexFacts
  <1>3. e \in Events(stage) /\ e \in Event
    <2>1. e \in Events(stage)
      BY <1>2 DEF Events
    <2>2. QED BY <1>1, <2>1, StageFacts
  <1>4. /\ producer' = [producer EXCEPT ![e] = "reading"]
        /\ forwarder' = [forwarder EXCEPT ![e] = "listening"]
        /\ subscribed' = Append(subscribed, e)
        /\ pc' = IF NextIndex = last THEN "submit" ELSE "subscribe"
        /\ UNCHANGED <<scan, plan, stage, result, failure, waiter>>
    BY DEF Subscribe, scanVars
  <1>5. plan[stage][last] \in Event
    BY <1>1, StageFacts
  <1> HIDE DEF e, last
  <1>6. EventTypes'
    BY <1>1, <1>3, <1>4 DEF EventTypes
  <1>7. Planned'
    BY <1>1, <1>4 DEF Planned
  <1>8. Ahead'
    <2>1. ASSUME NEW k \in (stage + 1)..Len(plan), NEW f \in Events(k)
          PROVE  producer'[f] = "none"
      <3>1. producer[f] = "none" /\ k \in 1..Len(plan) /\ k # stage
        BY <1>1, <2>1 DEF IInv, EventTypes, Ahead
      <3>2. f \in Event /\ f # e
        BY <1>1, <1>3, <3>1, StageFacts
      <3>3. QED BY <1>1, <1>4, <3>1, <3>2 DEF EventTypes
    <2>2. ASSUME NextIndex # last PROVE producer'[plan[stage][last]] = "none"
      BY <1>1, <1>2, <1>4, <1>5, <2>2 DEF EventTypes
    <2>3. QED BY <1>1, <1>4, <2>1, <2>2 DEF Ahead, Events, last
  <1>9. Held'
    <2>1. subscribed \in Seq(Event) /\ Len(subscribed) \in Nat
      BY <1>1 DEF EventTypes
    <2>2. /\ Len(subscribed') = Len(subscribed) + 1
          /\ subscribed'[Len(subscribed) + 1] = e
          /\ \A i \in 1..Len(subscribed) : subscribed'[i] = subscribed[i]
      BY <1>3, <1>4, <2>1, AppendProperties
    <2>3. ASSUME NEW f \in Event, Running(f)'
          PROVE  \E i \in 1..Len(subscribed') : subscribed'[i] = f
      <3>1. CASE f = e
        BY <2>1, <2>2, <3>1
      <3>2. CASE f # e
        <4>1. Running(f)
          BY <1>1, <1>4, <2>3, <3>2 DEF Running, EventTypes
        <4>2. PICK i \in 1..Len(subscribed) : subscribed[i] = f
          BY <4>1 DEF IInv, Held
        <4>3. i \in 1..Len(subscribed') /\ subscribed'[i] = f
          BY <2>1, <2>2, <4>2
        <4>4. QED BY <4>3
      <3>3. QED BY <3>1, <3>2
    <2>4. QED BY <1>4, <2>3 DEF Held
  <1>10. Behind'
    BY <1>1, <1>4 DEF IInv, Behind, Events
  <1>11. SuccessMeansEvents'
    BY <1>1, <1>4 DEF SuccessMeansEvents
  <1>12. QED BY <1>4, <1>6, <1>7, <1>8, <1>9, <1>10, <1>11 DEF IInv

LEMMA SubmitStep ==
    ASSUME IInv, Submit
    PROVE  IInv'
  <1>1. /\ pc = "submit" /\ pc' = "wait"
        /\ waiter' = [e \in Event |-> IF e \in Events(stage) THEN "waiting" ELSE waiter[e]]
        /\ UNCHANGED <<scan, plan, stage, subscribed, result, producer, failure, forwarder>>
    BY DEF Submit, scanVars, subVars
  <1>2. /\ stage \in 1..Len(plan) /\ result = "none" /\ EventTypes
        /\ Events(stage) \subseteq Event /\ Len(plan) \in Nat
    BY <1>1, StageFacts DEF IInv, Planned
  <1>3. EventTypes'
    BY <1>1, <1>2 DEF EventTypes
  <1>4. Planned' /\ Ahead' /\ Held' /\ SuccessMeansEvents'
    BY <1>1, <1>2 DEF IInv, Planned, Ahead, Held, SuccessMeansEvents, Running, Events
  <1>5. Behind'
    <2>1. ASSUME NEW k \in 1..(stage - 1), NEW e \in Events(k) PROVE waiter'[e] = "event"
      <3>1. k \in 1..Len(plan) /\ k # stage
        BY <1>2
      <3>2. e \in Event /\ e \notin Events(stage)
        BY <1>2, <3>1, StageFacts
      <3>3. waiter[e] = "event"
        BY <1>1 DEF IInv, Behind
      <3>4. QED BY <1>1, <3>2, <3>3
    <2>2. \A e \in Event : waiter[e] # "waiting"
      BY <1>1 DEF IInv, Behind
    <2>3. \A k : Events(k)' = Events(k)
      BY <1>1 DEF Events
    <2>4. QED BY <1>1, <1>2, <2>1, <2>2, <2>3 DEF Behind
  <1>6. QED BY <1>1, <1>3, <1>4, <1>5 DEF IInv

LEMMA WaitersDoneStep ==
    ASSUME IInv, WaitersDone
    PROVE  IInv'
  <1>1. /\ pc = "wait" /\ \A e \in Events(stage) : waiter[e] # "waiting"
        /\ UNCHANGED <<scan, plan, subscribed, producer, failure, forwarder, waiter>>
    BY DEF WaitersDone, scanVars, subVars
  <1>2. /\ stage \in 1..Len(plan) /\ result = "none" /\ EventTypes /\ stage \in Nat
        /\ Events(stage) \subseteq Event /\ Len(plan) \in Nat
    BY <1>1, StageFacts DEF IInv, Planned
  <1>3. \A e \in Event : waiter[e] # "waiting"
    BY <1>1 DEF IInv, Behind
  <1>4. ~WaitersErred => \A k \in 1..stage : \A e \in Events(k) : waiter[e] = "event"
    <2> SUFFICES ASSUME ~WaitersErred, NEW k \in 1..stage, NEW e \in Events(k)
                 PROVE  waiter[e] = "event"
      OBVIOUS
    <2>1. CASE k = stage
      <3>1. e \in Event /\ waiter[e] \notin {"waiting", "none", "error"}
        BY <1>1, <1>2, <2>1 DEF IInv, Behind, WaitersErred
      <3>2. QED BY <1>2, <3>1 DEF EventTypes
    <2>2. CASE k # stage
      <3>1. k \in 1..(stage - 1)
        BY <1>2, <2>2
      <3>2. QED BY <1>1, <3>1 DEF IInv, Behind
    <2>3. QED BY <2>1, <2>2
  <1>5. \A k : Events(k)' = Events(k)
    BY <1>1 DEF Events
  <1>6. CASE pc' = "unsubscribe" /\ result' = "error" /\ stage' = stage
    <2>1. EventTypes'
      BY <1>1, <1>2, <1>6 DEF EventTypes
    <2>2. Planned' /\ Ahead' /\ Held' /\ SuccessMeansEvents'
      BY <1>1, <1>6 DEF IInv, Planned, Ahead, Held, SuccessMeansEvents, Running
    <2>3. Behind'
      BY <1>1, <1>3, <1>6 DEF Behind
    <2>4. QED BY <1>6, <2>1, <2>2, <2>3 DEF IInv
  <1>7. CASE /\ ~WaitersErred /\ stage < Len(plan)
             /\ pc' = "subscribe" /\ stage' = stage + 1 /\ result' = result
    <2>1. EventTypes'
      BY <1>1, <1>2, <1>7 DEF EventTypes
    <2>2. Planned' /\ Held' /\ SuccessMeansEvents'
      BY <1>1, <1>2, <1>7 DEF IInv, Planned, Held, SuccessMeansEvents, Running
    <2>3. \A k \in (stage + 1)..Len(plan) : \A e \in Events(k) : producer[e] = "none"
      BY <1>1 DEF IInv, Ahead
    <2>4. Ahead'
      <3> DEFINE next == stage + 1
      <3>1. next \in 1..Len(plan) /\ next \in (stage + 1)..Len(plan)
        BY <1>2, <1>7
      <3>2. \A k \in (next + 1)..Len(plan) : k \in (stage + 1)..Len(plan)
        BY <1>2
      <3>3. stage' = next
        BY <1>7
      <3> HIDE DEF next
      <3>4. Len(plan[next]) \in 1..Len(plan[next])
        <4>1. Len(plan[next]) = 1 \/ Len(plan[next]) = 2
          BY <1>2, <3>1, StageFacts
        <4>2. \A l : l = 1 \/ l = 2 => l \in 1..l
          OBVIOUS
        <4>3. QED BY <4>1, <4>2, Zenon
      <3>5. plan[next][Len(plan[next])] \in Events(next)
        BY <3>4 DEF Events
      <3>6. producer[plan[next][Len(plan[next])]] = "none"
        BY <2>3, <3>1, <3>5
      <3>7. QED BY <1>1, <1>5, <2>3, <3>2, <3>3, <3>6 DEF Ahead
    <2>5. Behind'
      <3>1. stage' - 1 = stage
        BY <1>2, <1>7
      <3>2. QED BY <1>1, <1>3, <1>4, <1>5, <1>7, <3>1 DEF Behind
    <2>6. QED BY <1>7, <2>1, <2>2, <2>4, <2>5 DEF IInv
  <1>8. CASE /\ ~WaitersErred /\ stage = Len(plan)
             /\ pc' = "unsubscribe" /\ result' = "ok" /\ stage' = stage
    <2>1. EventTypes'
      BY <1>1, <1>2, <1>8 DEF EventTypes
    <2>2. Planned' /\ Ahead' /\ Held'
      BY <1>1, <1>8 DEF IInv, Planned, Ahead, Held, Running
    <2>3. Behind'
      BY <1>1, <1>3, <1>8 DEF Behind
    <2>4. SuccessMeansEvents'
      BY <1>1, <1>4, <1>5, <1>8 DEF SuccessMeansEvents, Watched
    <2>5. QED BY <1>8, <2>1, <2>2, <2>3, <2>4 DEF IInv
  <1>9. QED BY <1>6, <1>7, <1>8 DEF WaitersDone

\* The call returns its producers one by one.
LEMMA UnsubscribeStep ==
    ASSUME IInv, Unsubscribe
    PROVE  IInv'
  <1> DEFINE last == subscribed[Len(subscribed)]
  <1>1. /\ pc = "unsubscribe" /\ pc' = "drain" /\ subscribed # <<>>
        /\ producer' = [producer EXCEPT ![last] = IF Running(last) THEN "quitting" ELSE @]
        /\ UNCHANGED <<scan, plan, stage, subscribed, result, failure, forwarder, waiter>>
    BY DEF Unsubscribe, scanVars, Latest
  <1>2. EventTypes
    BY DEF IInv
  <1>3. \A e \in Event : producer'[e] \in {"reading", "delivering"} => producer'[e] = producer[e]
    BY <1>1, <1>2 DEF Running, EventTypes
  <1>4. EventTypes'
    BY <1>1, <1>2 DEF EventTypes
  <1>5. Planned' /\ Ahead' /\ SuccessMeansEvents'
    BY <1>1 DEF IInv, Planned, Ahead, SuccessMeansEvents, Watched, Events
  <1>6. Held'
    BY <1>1, <1>3 DEF IInv, Held, Running
  <1>7. Behind'
    BY <1>1 DEF IInv, Behind
  <1>8. QED BY <1>1, <1>4, <1>5, <1>6, <1>7 DEF IInv

LEMMA UnsubscribedStep ==
    ASSUME IInv, Unsubscribed
    PROVE  IInv'
  <1> DEFINE n == Len(subscribed)
  <1>1. /\ pc = "drain" /\ pc' = "unsubscribe"
        /\ producer[subscribed[n]] = "ended" /\ subscribed' = SubSeq(subscribed, 1, n - 1)
        /\ UNCHANGED <<scan, plan, stage, result, producer, failure, forwarder, waiter>>
    BY DEF Unsubscribed, scanVars, subVars, Latest
  <1>2. subscribed \in Seq(Event) /\ subscribed # <<>> /\ n \in Nat /\ n > 0
    <2>1. subscribed \in Seq(Event) /\ subscribed # <<>>
      BY <1>1 DEF IInv, EventTypes, Held
    <2>2. QED BY <2>1, EmptySeq
  <1> HIDE DEF n
  <1>3. \A i \in 1..(n - 1) : subscribed[i] \in Event
    BY <1>2, ElementOfSeq DEF n
  <1>4. /\ subscribed' \in Seq(Event) /\ Len(subscribed') = n - 1
        /\ \A i \in 1..(n - 1) : subscribed'[i] = subscribed[i]
    <2>1. /\ SubSeq(subscribed, 1, n - 1) \in Seq(Event)
          /\ Len(SubSeq(subscribed, 1, n - 1)) = IF 1 <= n - 1 THEN n - 1 - 1 + 1 ELSE 0
          /\ \A i \in 1..(n - 1 - 1 + 1) : SubSeq(subscribed, 1, n - 1)[i] = subscribed[1 + i - 1]
      BY <1>2, <1>3, SubSeqProperties
    <2>2. \A i \in 1..(n - 1) : 1 + i - 1 = i
      OBVIOUS
    <2>3. n - 1 - 1 + 1 = n - 1 /\ (~(1 <= n - 1) => n - 1 = 0)
      BY <1>2
    <2>4. QED BY <1>1, <2>1, <2>2, <2>3
  <1>5. EventTypes'
    BY <1>1, <1>4 DEF IInv, EventTypes
  <1>6. Planned' /\ Ahead' /\ SuccessMeansEvents' /\ Behind'
    BY <1>1 DEF IInv, Planned, Ahead, SuccessMeansEvents, Watched, Events, Behind
  <1>7. Held'
    <2>1. ASSUME NEW e \in Event, Running(e)
          PROVE  \E i \in 1..Len(subscribed') : subscribed'[i] = e
      <3>1. PICK i \in 1..n : subscribed[i] = e
        BY <2>1 DEF IInv, Held, n
      <3>2. i # n
        BY <1>1, <2>1, <3>1 DEF Running
      <3>3. i \in 1..(n - 1)
        BY <1>2, <3>1, <3>2
      <3>4. QED BY <1>4, <3>1, <3>3
    <2>2. QED BY <1>1, <2>1 DEF Held, Running
  <1>8. QED BY <1>1, <1>5, <1>6, <1>7 DEF IInv

\* The steps that move the call on and nothing else.
LEMMA CallerMoves ==
    ASSUME IInv, pc # "filter", pc # "wait", pc # "returned",
           UNCHANGED <<scan, plan, stage, subscribed, subVars, waiter>>,
           \/ pc = "subscribe" /\ pc' = "report" /\ result' = result
           \/ pc = "submit" /\ pc' = "unsubscribe" /\ result' = "error"
           \/ pc = "unsubscribe" /\ pc' = "returned" /\ result' = result /\ subscribed = <<>>
    PROVE  IInv'
  <1>1. EventTypes'
    BY DEF IInv, EventTypes, subVars
  <1>2. Planned' /\ Ahead'
    BY DEF IInv, Planned, Ahead, Events, subVars
  <1>3. Held' /\ Behind'
    BY DEF IInv, Held, Behind, Running, Events, subVars
  <1>4. SuccessMeansEvents'
    BY DEF IInv, SuccessMeansEvents, Watched, Events
  <1>5. QED BY <1>1, <1>2, <1>3, <1>4 DEF IInv

LEMMA MainStep ==
    ASSUME IInv, Main
    PROVE  IInv'
  <1>1. CASE SubscribeFails
    BY <1>1, CallerMoves DEF SubscribeFails, scanVars
  <1>2. CASE SubmitFails
    BY <1>2, CallerMoves DEF SubmitFails, scanVars
  <1>3. CASE Return
    BY <1>3, CallerMoves DEF Return, scanVars
  <1>4. QED BY <1>1, <1>2, <1>3, SubscribeStep, SubmitStep, WaitersDoneStep, UnsubscribeStep,
              UnsubscribedStep DEF Main

-----------------------------------------------------------------------------
(* The invariant holds. *)

LEMMA InitInv == Init => IInv
  <1> SUFFICES ASSUME Init PROVE IInv
    OBVIOUS
  <1> PICK n \in 0..MaxOpened :
        \E events \in [1..n -> Opening] : scan = [NoScan EXCEPT !.events = events]
    BY DEF Init
  <1>1. PICK events \in [1..n -> Opening] : scan = [NoScan EXCEPT !.events = events]
    OBVIOUS
  <1>2. events \in Seq(Opening)
    BY <1>1, EventAssumption
  <1>3. scan \in Scanning
    BY <1>1, <1>2 DEF Scanning, NoScan
  <1>4. /\ scan.put = 0 /\ scan.taken = 0 /\ scan.filtered = 0 /\ scan.events = events
        /\ ~scan.ended /\ ~scan.done
    BY <1>1 DEF NoScan
  <1>5. Found(scan)
    <2>1. Len(events) \in Nat
      BY <1>2
    <2>2. QED BY <1>4, <2>1 DEF Found
  <1>6. <<>> \in OpenPlans \cup TopUpPlans
    BY PlansDiffer
  <1>7. EventTypes
    BY <1>3, <1>6 DEF Init, EventTypes
  <1>8. Planned /\ Ahead /\ Held /\ Behind
    BY DEF Init, Planned, Ahead, Held, Behind, Running
  <1>9. SuccessMeansEvents
    BY DEF Init, SuccessMeansEvents
  <1>10. QED BY <1>5, <1>7, <1>8, <1>9 DEF IInv

LEMMA NextInv == IInv /\ [Next]_vars => IInv'
  <1> SUFFICES ASSUME IInv, [Next]_vars PROVE IInv'
    OBVIOUS
  <1>1. CASE Scan \/ FilterFails
    BY <1>1, ScanStep
  <1>2. CASE Main
    BY <1>2, MainStep
  <1>3. ASSUME NEW e \in Watched, LogArrives(e) \/ Break(e) \/ Quit(e) \/ Forward(e)
        PROVE  IInv'
    BY <1>3, ProducerStep
  <1>4. ASSUME NEW e \in Watched, Receive(e) PROVE IInv'
    BY <1>4, ReceiveStep
  <1>5. CASE ContextDone
    BY <1>5, ProducersMove DEF ContextDone, subVars, IInv, EventTypes, Running
  <1>6. CASE UNCHANGED vars
    BY <1>6, ProducersMove DEF vars, subVars, IInv, EventTypes, Running
  <1>7. QED BY <1>1, <1>2, <1>3, <1>4, <1>5, <1>6 DEF Next

LEMMA Invariant == Spec => []IInv
  BY InitInv, NextInv, PTL DEF Spec

-----------------------------------------------------------------------------
(* The theorems about EventWait. *)

\* EnsurePaymentChannel returns a channel only after every event that its
\* transactions were to emit has been received, whoever took an error from the
\* shared channel, and however the goroutines and the timers interleave.
THEOREM SuccessHasEvents == Spec => []SuccessMeansEvents
  <1>1. IInv => SuccessMeansEvents
    BY DEF IInv
  <1>2. QED BY <1>1, Invariant, PTL

\* On whatever path the call returns, none of its producers runs and none of
\* its waiters waits.
THEOREM NothingIsLeftSubscribed == Spec => []NothingLeftSubscribed
  <1>1. IInv => NothingLeftSubscribed
    <2> SUFFICES ASSUME IInv, pc = "returned", NEW e \in Watched
                 PROVE  ~Running(e) /\ waiter[e] # "waiting"
      BY DEF NothingLeftSubscribed
    <2>1. e \in Event
      BY WatchedEvents DEF IInv
    <2>2. Len(subscribed) = 0
      BY DEF IInv, Held
    <2>3. ~Running(e)
      BY <2>1, <2>2 DEF IInv, Held
    <2>4. waiter[e] # "waiting"
      BY <2>1 DEF IInv, Behind
    <2>5. QED BY <2>3, <2>4
  <1>2. QED BY <1>1, Invariant, PTL

\* FilterChannels finds the payer's latest channel, and one is opened exactly if
\* he has none: for any number of past events and any capacity of the channel
\* they come through, whichever channel the iterator's select reads first.
THEOREM LatestIsFound == Spec => FindsLatest
  <1> DEFINE own == {k \in DOMAIN scan.events : scan.events[k] = "own"}
             Right == /\ "garbled" \notin {scan.events[k] : k \in DOMAIN scan.events}
                      /\ \A k \in own : k <= scan.filtered
                      /\ plan' \in OpenPlans <=> own = {}
  <1>1. IInv /\ [Next]_vars => [pc = "filter" /\ pc' \in {"subscribe", "unsubscribe"} => Right]_vars
    <2> SUFFICES ASSUME IInv, Next, pc = "filter", pc' \in {"subscribe", "unsubscribe"}
                 PROVE  Right
      OBVIOUS
    <2>1. Decide
      <3>1. ~FilterFails /\ ~NextLog
        BY DEF FilterFails, NextLog, Fails
      <3>2. ~PutLog /\ ~EndLogs /\ ~SeeEnd
        BY DEF PutLog, EndLogs, SeeEnd
      <3>3. ~Main
        BY DEF Main, Subscribe, SubscribeFails, Submit, SubmitFails, WaitersDone, Unsubscribe,
               Unsubscribed, Return
      <3>4. Watched = {}
        BY DEF IInv, Planned, Watched
      <3>5. ~ContextDone
        BY DEF ContextDone, mainVars
      <3>6. QED BY <3>1, <3>2, <3>3, <3>4, <3>5 DEF Next, Scan
    <2>2. /\ Found(scan) /\ scan.done /\ scan.taken = scan.put
          /\ plan' \in IF scan.filtered = 0 THEN OpenPlans ELSE TopUpPlans
      BY <2>1 DEF Decide, Exhausted, IInv
    <2>3. DOMAIN scan.events = 1..scan.taken
      <3>1. DOMAIN scan.events = 1..Len(scan.events)
        BY ScanTypes, LenProperties
      <3>2. scan.taken = Len(scan.events)
        BY <2>2 DEF Found
      <3>3. QED BY <3>1, <3>2
    <2>4. "garbled" \notin {scan.events[k] : k \in DOMAIN scan.events}
      BY <2>2, <2>3 DEF Found
    <2>5. \A k \in own : k <= scan.filtered
      BY <2>2, <2>3 DEF Found
    <2>6. own = {} <=> scan.filtered = 0
      <3>1. ASSUME scan.filtered # 0 PROVE scan.filtered \in own
        BY <2>2, <2>3, <3>1, ScanTypes DEF Found
      <3>2. ASSUME NEW k \in own, scan.filtered = 0 PROVE FALSE
        <4>1. k \in 1..scan.taken /\ k <= 0
          BY <2>3, <2>5, <3>2
        <4>2. QED BY <4>1, ScanTypes
      <3>3. QED BY <3>1, <3>2
    <2>7. plan' \in OpenPlans <=> own = {}
      BY <2>2, <2>6, PlansDiffer
    <2>8. QED BY <2>4, <2>5, <2>7
  <1>2. QED BY <1>1, Invariant, PTL DEF Spec, FindsLatest

-----------------------------------------------------------------------------
(* ensureAllowance and WaitForTransaction: the inductive invariant.            *)

\* What a wait knows of the clock and of its approval.  Asleep, it has not
\* overslept, and an approval that came meanwhile came at most one backoff
\* before the end of the sleep; so polling finds it at most that late.
Timely(w) ==
    /\ w.pc = "sleep" =>
         /\ now <= w.wake
         /\ w.tx = "pending" => w.wake <= now + w.backoff
         /\ w.tx = "mined" => w.wake <= w.minedAt + w.backoff
    /\ w.pc = "poll" /\ w.tx = "mined" => now <= w.minedAt + w.backoff
    /\ w.pc = "timeout" =>
         /\ w.tx = "pending" => w.deadline <= now
         /\ w.tx = "mined" /\ w.minedAt < w.deadline => w.deadline <= w.minedAt + w.backoff

\* Attempts that know of an unlimited approval, of their own or of another.
Approved(w) ==
    \/ w.pc \in {"ok", "pulled"}
    \/ w.tx = "mined"
    \/ w.pc = "check" /\ w.seen >= MaxUint

Pulleds == {c \in Clients : At(c, "pulled")}

\* Once there was an unlimited approval, only pulls have taken from it.
Covered ==
    (\E c \in Clients : Approved(wait[c])) => allowance + Cardinality(Pulleds) * Pull >= MaxUint

AllowInv == /\ TypeOK
            /\ \A c \in Clients : Timely(wait[c])
            /\ Covered

LEMMA AllowConstants ==
    /\ IsFiniteSet(Clients) /\ Cardinality(Clients) \in Nat
    /\ MaxUint \in Nat /\ Pull \in Nat /\ Decrements \in BOOLEAN
    /\ Cardinality(Clients) * Pull <= MaxUint
    /\ \A m \in MaxBackoffs \cup {0} : m \in Nat
    /\ \A d \in Deadlines : d \in Nat
  <1>1. /\ IsFiniteSet(Clients) /\ Cardinality(Clients) * Pull <= MaxUint
        /\ MaxBackoffs \subseteq Nat /\ Deadlines \subseteq Nat
        /\ {MaxUint, Pull, MaxTime, MaxFailures} \subseteq Nat
        /\ Decrements \in BOOLEAN
    BY ApproveAssumption DEF ApproveAssumption
  <1>2. Cardinality(Clients) \in Nat
    BY <1>1, FS_CardinalityType
  <1>3. QED
    BY <1>1, <1>2

LEMMA WaitTypes ==
    ASSUME NEW w \in Wait
    PROVE  /\ w.pc \in PC /\ w.maxBackoff \in Nat /\ w.deadline \in Nat /\ w.seen \in Nat
           /\ w.tx \in {"none", "pending", "mined", "reverted"}
           /\ w.minedAt \in Nat /\ w.backoff \in Nat /\ w.wake \in Nat
  BY AllowConstants DEF Wait

LEMMA Counts ==
    /\ IsFiniteSet(Pulleds) /\ Cardinality(Pulleds) \in Nat
    /\ \A c \in Clients : ~At(c, "pulled") =>
          Cardinality(Pulleds) < Cardinality(Clients)
  <1>1. Pulleds \in SUBSET Clients
    BY DEF Pulleds
  <1>2. IsFiniteSet(Pulleds) /\ Cardinality(Pulleds) \in Nat
    BY <1>1, AllowConstants, FS_Subset, FS_CardinalityType
  <1>3. ASSUME NEW c \in Clients, ~At(c, "pulled")
        PROVE  Cardinality(Pulleds) < Cardinality(Clients)
    <2>1. Pulleds # Clients /\ Cardinality(Pulleds) <= Cardinality(Clients)
      BY <1>1, <1>3, AllowConstants, FS_Subset DEF Pulleds
    <2>2. Cardinality(Pulleds) # Cardinality(Clients)
      BY <1>1, <2>1, AllowConstants, FS_Subset
    <2>3. QED
      BY <1>2, <2>1, <2>2, AllowConstants
  <1>4. QED
    BY <1>2, <1>3

LEMMA IdleType == Idle \in Wait /\ ~Approved(Idle) /\ Timely(Idle)
  BY DEF Idle, Wait, PC, Approved, Timely

LEMMA AllowInit ==
    ASSUME ApproveInit
    PROVE  AllowInv
  <1>1. \A c \in Clients : wait[c] = Idle
    BY DEF ApproveInit
  <1>2. TypeOK
    BY <1>1, IdleType, AllowConstants DEF ApproveInit, TypeOK, Idle
  <1>3. (\A c \in Clients : Timely(wait[c])) /\ Covered
    BY <1>1, IdleType DEF Covered
  <1>4. QED
    BY <1>2, <1>3 DEF AllowInv

-----------------------------------------------------------------------------
(* Steps of one attempt. *)

\* An attempt that moves to w while neither the clock nor the allowance does.
LEMMA AttemptStep ==
    ASSUME AllowInv,
           NEW c \in Clients, NEW w \in Wait, Become(c, w),
           UNCHANGED <<now, allowance>>, failures' \in Nat,
           w.maxBackoff > 0 => w.backoff < 2 * w.maxBackoff,
           Timely(w),
           wait[c].pc # "pulled", w.pc # "pulled",
           Approved(w) => Approved(wait[c]) \/ allowance >= MaxUint
    PROVE  AllowInv'
  <1>1. \A d \in Clients : wait'[d] = IF d = c THEN w ELSE wait[d]
    BY DEF AllowInv, TypeOK, Become
  <1>2. TypeOK'
    BY <1>1 DEF AllowInv, TypeOK, Become
  <1>3. \A d \in Clients : Timely(wait[d])'
    BY <1>1 DEF AllowInv, Timely
  <1>4. Pulleds' = Pulleds
    BY <1>1 DEF Pulleds, At
  <1>5. Covered'
    <2> SUFFICES ASSUME NEW d \in Clients, Approved(wait'[d])
                 PROVE  allowance + Cardinality(Pulleds) * Pull >= MaxUint
      BY <1>4 DEF Covered, Approved
    <2>1. CASE \E e \in Clients : Approved(wait[e])
      BY <2>1 DEF AllowInv, Covered
    <2>2. CASE allowance >= MaxUint
      <3>1. allowance \in Nat /\ MaxUint \in Nat
        BY AllowConstants DEF AllowInv, TypeOK
      <3>2. \A k, p \in Nat : k * p \in Nat
        OBVIOUS
      <3>3. Cardinality(Pulleds) * Pull \in Nat
        BY <3>2, Counts, AllowConstants
      <3>4. \A n \in Nat : allowance + n >= MaxUint
        BY <2>2, <3>1
      <3>5. QED
        BY <3>3, <3>4
    <2>3. QED
      BY <1>1, <2>1, <2>2
  <1>6. QED
    BY <1>2, <1>3, <1>5 DEF AllowInv

LEMMA AttemptTypes ==
    ASSUME AllowInv, NEW c \in Clients
    PROVE  /\ now \in Nat /\ allowance \in Nat /\ allowance <= MaxUint /\ failures \in Nat
           /\ wait[c] \in Wait /\ Timely(wait[c])
           /\ wait[c].maxBackoff > 0 => wait[c].backoff < 2 * wait[c].maxBackoff
  BY AllowConstants DEF AllowInv, TypeOK

LEMMA StepBegin ==
    ASSUME AllowInv, NEW c \in Clients, Begin(c)
    PROVE  AllowInv'
  <1>1. PICK m \in MaxBackoffs, d \in Deadlines :
          Become(c, [Idle EXCEPT !.pc = "check", !.maxBackoff = m,
                        !.deadline = now + d, !.seen = allowance])
    BY DEF Begin
  <1> DEFINE w == [Idle EXCEPT !.pc = "check", !.maxBackoff = m,
                        !.deadline = now + d, !.seen = allowance]
  <1>2. m \in Nat /\ now + d \in Nat /\ allowance \in Nat
    BY AttemptTypes, AllowConstants
  <1>3. /\ w \in Wait /\ w.pc = "check" /\ w.maxBackoff = m /\ w.backoff = 0
        /\ w.tx = "none" /\ w.seen = allowance
    BY <1>2, IdleType DEF Idle, Wait, PC
  <1>4. UNCHANGED <<now, allowance, failures>> /\ wait[c].pc # "pulled" /\ Become(c, w)
    BY <1>1 DEF Begin, At
  <1> HIDE DEF w
  <1>5. w.maxBackoff > 0 => w.backoff < 2 * w.maxBackoff
    BY <1>2, <1>3
  <1>6. Timely(w) /\ (Approved(w) => allowance >= MaxUint)
    BY <1>3 DEF Timely, Approved
  <1>7. QED
    BY <1>3, <1>4, <1>5, <1>6, AttemptTypes, AttemptStep

\* An attempt that only changes its program counter, and not to sleep or poll.
LEMMA MoveStep ==
    ASSUME AllowInv, NEW c \in Clients,
           NEW next \in PC \ {"sleep", "poll", "pulled", "check"},
           Become(c, [wait[c] EXCEPT !.pc = next]),
           UNCHANGED <<now, allowance>>, failures' \in Nat,
           wait[c].pc # "pulled",
           next = "timeout" => wait[c].pc \in {"sleep", "poll"} /\ Done(c),
           next = "ok" => Approved(wait[c])
    PROVE  AllowInv'
  <1> DEFINE w == [wait[c] EXCEPT !.pc = next]
  <1>1. /\ wait[c] \in Wait /\ Timely(wait[c]) /\ now \in Nat
        /\ wait[c].maxBackoff > 0 => wait[c].backoff < 2 * wait[c].maxBackoff
    BY AttemptTypes
  <1>2. /\ w \in Wait /\ w.pc = next /\ w.maxBackoff = wait[c].maxBackoff
        /\ w.backoff = wait[c].backoff /\ w.tx = wait[c].tx /\ w.minedAt = wait[c].minedAt
        /\ w.deadline = wait[c].deadline /\ w.seen = wait[c].seen
    BY <1>1 DEF Wait
  <1>3. Become(c, w)
    OBVIOUS
  <1> HIDE DEF w
  <1>4. next = "timeout" =>
           /\ w.tx = "pending" => w.deadline <= now
           /\ w.tx = "mined" /\ w.minedAt < w.deadline => w.deadline <= w.minedAt + w.backoff
    BY <1>1, <1>2, WaitTypes DEF Timely, Done
  <1>5. Timely(w)
    BY <1>2, <1>4 DEF Timely
  <1>6. Approved(w) => Approved(wait[c])
    BY <1>2 DEF Approved
  <1>7. w.maxBackoff > 0 => w.backoff < 2 * w.maxBackoff
    BY <1>1, <1>2
  <1>8. QED
    BY <1>2, <1>3, <1>5, <1>6, <1>7, AttemptStep

LEMMA StepMoves ==
    ASSUME AllowInv, NEW c \in Clients,
           \/ CheckAllowance(c) \/ RequestFails(c) \/ Receipt(c)
           \/ ContextEnds(c) \/ PollFails(c)
    PROVE  AllowInv'
  <1>1. failures \in Nat /\ wait[c] \in Wait
    BY AttemptTypes
  <1>2. CASE CheckAllowance(c)
    BY <1>1, <1>2, MoveStep DEF CheckAllowance, At, Sufficient, Approved, PC
  <1>3. CASE RequestFails(c)
    <2>1. /\ Become(c, [wait[c] EXCEPT !.pc = "error"])
          /\ UNCHANGED <<now, allowance>> /\ failures' \in Nat /\ wait[c].pc # "pulled"
      BY <1>1, <1>3 DEF RequestFails
    <2>2. "error" \in PC \ {"sleep", "poll", "pulled", "check"}
      BY DEF PC
    <2>3. QED
      BY <2>1, <2>2, MoveStep
  <1>4. CASE Receipt(c)
    BY <1>1, <1>4, MoveStep DEF Receipt, At, Approved, PC
  <1>5. CASE ContextEnds(c)
    <2>1. /\ Become(c, [wait[c] EXCEPT !.pc = "timeout"])
          /\ UNCHANGED <<now, allowance>> /\ failures' \in Nat /\ wait[c].pc # "pulled"
          /\ wait[c].pc \in {"sleep", "poll"} /\ Done(c)
      BY <1>1, <1>5 DEF ContextEnds
    <2>2. "timeout" \in PC \ {"sleep", "poll", "pulled", "check"}
      BY DEF PC
    <2>3. QED
      BY <2>1, <2>2, MoveStep
  <1>6. CASE PollFails(c)
    BY <1>1, <1>6, MoveStep DEF PollFails, At, PC
  <1>7. QED
    BY <1>2, <1>3, <1>4, <1>5, <1>6

LEMMA StepApprove ==
    ASSUME AllowInv, NEW c \in Clients, Approve(c)
    PROVE  AllowInv'
  <1> DEFINE w == [wait[c] EXCEPT !.pc = "poll", !.tx = "pending", !.backoff = 1]
  <1>1. wait[c] \in Wait
    BY AttemptTypes
  <1>2. /\ w \in Wait /\ w.pc = "poll" /\ w.tx = "pending" /\ w.backoff = 1
        /\ w.maxBackoff = wait[c].maxBackoff
    BY <1>1 DEF Wait, PC
  <1>3. Become(c, w) /\ UNCHANGED <<now, allowance, failures>> /\ wait[c].pc # "pulled"
    BY DEF Approve, At
  <1> HIDE DEF w
  <1>4. Timely(w) /\ ~Approved(w)
    BY <1>2 DEF Timely, Approved
  <1>5. w.maxBackoff > 0 => w.backoff < 2 * w.maxBackoff
    BY <1>2, WaitTypes
  <1>6. QED
    BY <1>2, <1>3, <1>4, <1>5, AttemptTypes, AttemptStep

LEMMA StepNotFound ==
    ASSUME AllowInv, NEW c \in Clients, NotFound(c)
    PROVE  AllowInv'
  <1> DEFINE w == [wait[c] EXCEPT !.pc = "sleep", !.wake = now + wait[c].backoff]
  <1>1. /\ wait[c] \in Wait /\ now \in Nat /\ wait[c].backoff \in Nat
        /\ wait[c].maxBackoff > 0 => wait[c].backoff < 2 * wait[c].maxBackoff
    BY AttemptTypes, WaitTypes
  <1>2. /\ w \in Wait /\ w.pc = "sleep" /\ w.tx = wait[c].tx /\ w.backoff = wait[c].backoff
        /\ w.maxBackoff = wait[c].maxBackoff /\ w.wake = now + wait[c].backoff
    <2>1. \A n \in Nat : /\ [wait[c] EXCEPT !.pc = "sleep", !.wake = n] \in Wait
                         /\ [wait[c] EXCEPT !.pc = "sleep", !.wake = n].wake = n
      BY <1>1 DEF Wait, PC
    <2>2. now + wait[c].backoff \in Nat
      BY <1>1
    <2>3. QED
      BY <1>1, <2>1, <2>2 DEF Wait
  <1>3. Become(c, w) /\ UNCHANGED <<now, allowance, failures>> /\ wait[c].pc # "pulled"
    BY DEF NotFound, At
  <1> HIDE DEF w
  <1>4. w.tx = "pending"
    BY <1>2 DEF NotFound
  <1>5. Timely(w) /\ ~Approved(w)
    BY <1>1, <1>2, <1>4 DEF Timely, Approved
  <1>6. w.maxBackoff > 0 => w.backoff < 2 * w.maxBackoff
    BY <1>1, <1>2
  <1>7. QED
    BY <1>2, <1>3, <1>5, <1>6, AttemptTypes, AttemptStep

\* The next backoff is no smaller, and stays below twice the maximum.
LEMMA BackoffGrows ==
    ASSUME NEW b \in Nat, NEW m \in Nat
    PROVE  /\ NextBackoff(b, m) \in Nat /\ b <= NextBackoff(b, m)
           /\ m > 0 /\ b < 2 * m => NextBackoff(b, m) < 2 * m
  BY DEF NextBackoff

LEMMA StepWake ==
    ASSUME AllowInv, NEW c \in Clients, Wake(c)
    PROVE  AllowInv'
  <1> DEFINE next == NextBackoff(wait[c].backoff, wait[c].maxBackoff)
             w == [wait[c] EXCEPT !.pc = "poll", !.backoff = next]
  <1>1. /\ wait[c] \in Wait /\ now \in Nat /\ wait[c].backoff \in Nat
        /\ wait[c].maxBackoff \in Nat /\ wait[c].minedAt \in Nat /\ wait[c].wake \in Nat
        /\ wait[c].maxBackoff > 0 => wait[c].backoff < 2 * wait[c].maxBackoff
    BY AttemptTypes, WaitTypes
  <1>2. /\ next \in Nat /\ wait[c].backoff <= next
        /\ wait[c].maxBackoff > 0 => next < 2 * wait[c].maxBackoff
    BY <1>1, BackoffGrows
  <1>3. /\ now <= wait[c].wake /\ wait[c].wake <= now
        /\ wait[c].tx = "mined" => wait[c].wake <= wait[c].minedAt + wait[c].backoff
    BY <1>1, AttemptTypes DEF Timely, Wake, At
  <1>4. Become(c, w) /\ UNCHANGED <<now, allowance, failures>> /\ wait[c].pc = "sleep"
    BY DEF Wake, At
  <1> HIDE DEF next
  <1>5. /\ w \in Wait /\ w.pc = "poll" /\ w.tx = wait[c].tx /\ w.backoff = next
        /\ w.maxBackoff = wait[c].maxBackoff /\ w.minedAt = wait[c].minedAt
    BY <1>1, <1>2 DEF Wait, PC
  <1> HIDE DEF w
  <1>6. Timely(w)
    BY <1>1, <1>2, <1>3, <1>5 DEF Timely
  <1>7. Approved(w) => Approved(wait[c])
    BY <1>5 DEF Approved
  <1>8. w.maxBackoff > 0 => w.backoff < 2 * w.maxBackoff
    BY <1>2, <1>5
  <1>9. QED
    BY <1>4, <1>5, <1>6, <1>7, <1>8, AttemptTypes, AttemptStep

LEMMA StepAgain ==
    ASSUME AllowInv, NEW c \in Clients, Again(c)
    PROVE  AllowInv'
  <1>1. /\ Become(c, Idle) /\ UNCHANGED <<now, allowance, failures>>
        /\ wait[c].pc # "pulled"
        /\ Idle.pc = "idle" /\ Idle.maxBackoff = 0
    BY DEF Again, Idle
  <1>2. QED
    BY <1>1, IdleType, AttemptTypes, AttemptStep

-----------------------------------------------------------------------------
(* Steps that change the allowance, and time. *)

LEMMA StepMine ==
    ASSUME AllowInv, NEW c \in Clients, Mine(c)
    PROVE  AllowInv'
  <1>1. PICK tx \in {"mined", "reverted"} :
          /\ Become(c, [wait[c] EXCEPT !.tx = tx, !.minedAt = now])
          /\ tx = "mined" => allowance' = MaxUint
          /\ tx = "reverted" => allowance' = allowance
    BY DEF Mine
  <1> DEFINE w == [wait[c] EXCEPT !.tx = tx, !.minedAt = now]
  <1>2. /\ wait[c] \in Wait /\ now \in Nat /\ Timely(wait[c]) /\ wait[c].tx = "pending"
        /\ wait[c].backoff \in Nat /\ wait[c].deadline \in Nat /\ wait[c].wake \in Nat
    BY AttemptTypes, WaitTypes DEF Mine
  <1>3. /\ w \in Wait /\ w.pc = wait[c].pc /\ w.tx = tx /\ w.minedAt = now
        /\ w.backoff = wait[c].backoff /\ w.maxBackoff = wait[c].maxBackoff
        /\ w.deadline = wait[c].deadline /\ w.wake = wait[c].wake /\ w.seen = wait[c].seen
    BY <1>2 DEF Wait
  <1>4. Become(c, w) /\ UNCHANGED <<now, failures>>
    BY <1>1 DEF Mine
  <1> HIDE DEF w
  <1>5. \A d \in Clients : wait'[d] = IF d = c THEN w ELSE wait[d]
    BY <1>4 DEF AllowInv, TypeOK, Become
  <1>6. TypeOK'
    <2>1. allowance' \in 0..MaxUint
      BY <1>1, AllowConstants DEF AllowInv, TypeOK
    <2>2. wait' \in [Clients -> Wait]
      BY <1>3, <1>4 DEF AllowInv, TypeOK, Become
    <2>3. \A d \in Clients : wait'[d].maxBackoff > 0 => wait'[d].backoff < 2 * wait'[d].maxBackoff
      BY <1>3, <1>5 DEF AllowInv, TypeOK
    <2>4. QED
      BY <1>4, <2>1, <2>2, <2>3 DEF AllowInv, TypeOK
  <1>7. \A d \in Clients : Timely(wait[d])'
    <2>1. Timely(w)
      BY <1>1, <1>2, <1>3 DEF Timely
    <2>2. QED
      BY <1>4, <1>5, <2>1 DEF AllowInv, Timely
  <1>8. Covered'
    <2>1. Pulleds' = Pulleds
      BY <1>3, <1>5 DEF Pulleds, At
    <2>2. CASE tx = "mined"
      <3>1. \A k, p \in Nat : k * p \in Nat
        OBVIOUS
      <3>2. Cardinality(Pulleds) * Pull \in Nat
        BY <3>1, Counts, AllowConstants
      <3>3. \A n \in Nat : MaxUint + n >= MaxUint
        BY AllowConstants
      <3>4. allowance' = MaxUint
        BY <1>1, <2>2
      <3>5. QED
        BY <2>1, <3>2, <3>3, <3>4 DEF Covered
    <2>3. CASE tx = "reverted"
      <3>1. Approved(w) => Approved(wait[c])
        BY <1>3, <2>3 DEF Approved
      <3>2. \A d \in Clients : Approved(wait'[d]) => Approved(wait[d])
        BY <1>5, <3>1
      <3>3. allowance' = allowance
        BY <1>1, <2>3
      <3>4. QED
        BY <2>1, <3>2, <3>3 DEF AllowInv, Covered, Approved
    <2>4. QED
      BY <2>2, <2>3
  <1>9. QED
    BY <1>6, <1>7, <1>8 DEF AllowInv

LEMMA StepPullTokens ==
    ASSUME AllowInv, NEW c \in Clients, PullTokens(c)
    PROVE  AllowInv'
  <1> DEFINE w == [wait[c] EXCEPT !.pc = "pulled"]
  <1>1. /\ wait[c] \in Wait /\ wait[c].pc = "ok" /\ allowance \in Nat /\ allowance <= MaxUint
    BY AttemptTypes DEF PullTokens, At
  <1>2. /\ w \in Wait /\ w.pc = "pulled" /\ w.maxBackoff = wait[c].maxBackoff
        /\ w.backoff = wait[c].backoff
    BY <1>1 DEF Wait, PC
  <1>3. /\ Become(c, w) /\ UNCHANGED <<now, failures>> /\ Pull <= allowance
        /\ allowance' = IF Decrements THEN allowance - Pull ELSE allowance
    BY DEF PullTokens
  <1> HIDE DEF w
  <1>4. \A d \in Clients : wait'[d] = IF d = c THEN w ELSE wait[d]
    BY <1>3 DEF AllowInv, TypeOK, Become
  <1>5. allowance' \in Nat /\ allowance' + Pull >= allowance /\ allowance' <= MaxUint
    BY <1>1, <1>3, AllowConstants
  <1>6. TypeOK'
    <2>1. allowance' \in 0..MaxUint
      BY <1>5, AllowConstants
    <2>2. wait' \in [Clients -> Wait]
      BY <1>2, <1>3 DEF AllowInv, TypeOK, Become
    <2>3. \A d \in Clients : wait'[d].maxBackoff > 0 => wait'[d].backoff < 2 * wait'[d].maxBackoff
      BY <1>2, <1>4 DEF AllowInv, TypeOK
    <2>4. QED
      BY <1>3, <2>1, <2>2, <2>3 DEF AllowInv, TypeOK
  <1>7. \A d \in Clients : Timely(wait[d])'
    BY <1>2, <1>3, <1>4 DEF AllowInv, Timely
  <1>8. Covered'
    <2>1. allowance + Cardinality(Pulleds) * Pull >= MaxUint
      BY <1>1 DEF AllowInv, Covered, Approved
    <2>2. Pulleds' = Pulleds \cup {c} /\ c \notin Pulleds
      BY <1>1, <1>2, <1>4 DEF Pulleds, At
    <2>3. Cardinality(Pulleds') = Cardinality(Pulleds) + 1
      BY <2>2, Counts, FS_AddElement
    <2>4. \A k, p, a, b, m \in Nat : a + k * p >= m /\ b + p >= a => b + (k + 1) * p >= m
      <3> TAKE k, p, a, b, m \in Nat
      <3>1. (k + 1) * p = k * p + p /\ k * p \in Nat
        OBVIOUS
      <3>2. QED
        BY <3>1
    <2>5. allowance' + Cardinality(Pulleds') * Pull >= MaxUint
      BY <1>1, <1>5, <2>1, <2>3, <2>4, Counts, AllowConstants
    <2>6. QED
      BY <2>5 DEF Covered
  <1>9. QED
    BY <1>6, <1>7, <1>8 DEF AllowInv

LEMMA StepTick ==
    ASSUME AllowInv, Tick
    PROVE  AllowInv'
  <1>1. now \in Nat /\ now' = now + 1 /\ UNCHANGED <<allowance, wait, failures>>
    BY DEF Tick, AllowInv, TypeOK
  <1>2. ASSUME NEW c \in Clients PROVE Timely(wait[c])'
    <2>1. /\ Timely(wait[c]) /\ wait[c].wake \in Nat /\ wait[c].backoff \in Nat
          /\ wait[c].deadline \in Nat /\ wait[c].minedAt \in Nat
      BY AttemptTypes, WaitTypes
    <2>2. wait[c].pc # "poll" /\ (wait[c].pc = "sleep" => now < wait[c].wake)
      BY <1>1, <2>1 DEF Tick, Due, At
    <2>3. QED
      BY <1>1, <2>1, <2>2 DEF Timely
  <1>3. TypeOK' /\ Covered'
    BY <1>1 DEF AllowInv, TypeOK, Covered, Approved, Pulleds, At
  <1>4. QED
    BY <1>2, <1>3 DEF AllowInv

LEMMA AllowNext ==
    ASSUME AllowInv, [ApproveNext]_approveVars
    PROVE  AllowInv'
  <1>1. ASSUME NEW c \in Clients,
               \/ Begin(c) \/ Run(c) \/ Mine(c)
               \/ PullTokens(c) \/ Again(c)
        PROVE  AllowInv'
    BY <1>1, StepBegin, StepMoves, StepApprove, StepNotFound, StepWake, StepMine,
       StepPullTokens, StepAgain DEF Run
  <1>2. CASE Tick
    BY <1>2, StepTick
  <1>3. CASE UNCHANGED approveVars
    BY <1>3 DEF approveVars, AllowInv, TypeOK, Timely, Covered, Approved, Pulleds, At
  <1>4. QED
    BY <1>1, <1>2, <1>3 DEF ApproveNext

LEMMA AllowAlways == ApproveSpec => []AllowInv
  <1>1. ApproveInit => AllowInv
    BY AllowInit
  <1>2. AllowInv /\ [ApproveNext]_approveVars => AllowInv'
    BY AllowNext
  <1>3. QED
    BY <1>1, <1>2, PTL DEF ApproveSpec

-----------------------------------------------------------------------------
(* The theorems about ApproveWait. *)

\* Type correctness of ensureAllowance and WaitForTransaction: in particular no
\* pull drives the allowance below zero, and the backoff of WaitForTransaction
\* stays below twice its maximum.
THEOREM ApproveTyped == ApproveSpec => []TypeOK
  <1>1. AllowInv => TypeOK
    BY DEF AllowInv
  <1>2. ApproveSpec => []AllowInv
    BY AllowAlways
  <1>3. QED
    BY <1>1, <1>2, PTL

\* Whoever ensureAllowance tells that the contract may pull is right when it
\* pulls, however many attempts read, approve and pull in between, even where the
\* token counts an unlimited approval down.
THEOREM ApprovalLasts == ApproveSpec => []AllowanceSuffices
  <1>1. AllowInv => AllowanceSuffices
    <2> SUFFICES ASSUME AllowInv, NEW c \in Clients, At(c, "ok")
                 PROVE  allowance >= Pull
      BY DEF AllowanceSuffices
    <2>1. allowance + Cardinality(Pulleds) * Pull >= MaxUint
      BY DEF AllowInv, Covered, Approved, At
    <2>2. Cardinality(Pulleds) < Cardinality(Clients)
      BY Counts DEF At
    <2>3. \A k, n, p, a, m \in Nat : a + k * p >= m /\ k < n /\ n * p <= m => a >= p
      <3> SUFFICES ASSUME NEW k \in Nat, NEW n \in Nat, NEW p \in Nat, NEW a \in Nat,
                          NEW m \in Nat, a + k * p >= m, k < n, n * p <= m
                   PROVE  a >= p
        OBVIOUS
      <3>1. (n - k - 1) \in Nat
        OBVIOUS
      <3>2. \A x, y \in Nat : x * y \in Nat
        OBVIOUS
      <3>3. (n - k - 1) * p \in Nat /\ k * p \in Nat /\ n * p \in Nat
        BY <3>1, <3>2
      <3>4. n * p = (n - k - 1) * p + k * p + p
        OBVIOUS
      <3>5. QED
        BY <3>3, <3>4
    <2>4. allowance \in Nat
      BY AttemptTypes
    <2>5. QED
      BY <2>1, <2>2, <2>3, <2>4, Counts, AllowConstants
  <1>2. ApproveSpec => []AllowInv
    BY AllowAlways
  <1>3. QED
    BY <1>1, <1>2, PTL

\* WaitForTransaction gives up on an approval that was mined in time only if it
\* was mined during the last of its sleeps.
THEOREM NoEarlyMiss == ApproveSpec => []MissedOnlyAtTheEnd
  <1>1. AllowInv => MissedOnlyAtTheEnd
    BY DEF AllowInv, Timely, MissedOnlyAtTheEnd, At
  <1>2. ApproveSpec => []AllowInv
    BY AllowAlways
  <1>3. QED
    BY <1>1, <1>2, PTL
================================================================================
