----------------------------- MODULE SendPathProofs -----------------------------
(***************************************************************************)
(* Machine-checked proofs about the way of a bought wave and the signals   *)
(* that start a round (SendPath), for every number of lines, orders,       *)
(* players, requests and restarts.                                         *)
(***************************************************************************)
EXTENDS SendPath, FiniteSetTheorems, SequenceTheorems, TLAPS

-----------------------------------------------------------------------------
(* Rounds start because somebody asked.                                    *)

\* A round that began, or is about to, had an epoch the cycle has seen or a POST
\* /start of its own; the cycle sees no epoch the bridge has not reached.
SeenStart == IF seen.start = -1 THEN 0 ELSE seen.start
SignalTypes ==
  /\ epoch \in [start : Nat, reset : Nat, round : Nat]
  /\ seen \in [start : Nat \cup {-1}, reset : Nat, round : Nat]
  /\ signaled \in BOOLEAN /\ starts \in Nat /\ asked \in Nat
StartsAreSeen ==
  /\ starts <= SeenStart + seen.round + asked
  /\ signaled => starts + 1 <= SeenStart + seen.round + asked
  /\ SeenStart <= epoch.start /\ seen.round <= epoch.round
StartInv == "restart" \notin may => SignalTypes /\ StartsAreSeen


LEMMA StartInvStart == PathInit => StartInv
<1> SUFFICES ASSUME PathInit PROVE SignalTypes /\ StartsAreSeen
  BY DEF StartInv
<1>1. /\ epoch = [start |-> 0, reset |-> 0, round |-> 0] /\ seen = [start |-> -1, reset |-> 0, round |-> 0]
      /\ signaled = FALSE /\ starts = 0 /\ asked = 0
  BY DEF PathInit, Init, SignalsInit, CycleInit, Unseen
<1>2. SignalTypes
  BY <1>1 DEF SignalTypes
<1> QED BY <1>1, <1>2 DEF StartsAreSeen, SeenStart

LEMMA MayStays == [PathNext]_pathVars => may' = may
BY DEF PathNext, Cycle, File, Order, TailRestart, pathVars

\* The bridge raises an epoch; the cycle sees one, and notes it or begins a round.
LEMMA EpochsRise ==
  ASSUME SignalTypes, StartsAreSeen, NEW e \in {"start", "reset", "round"}, Raise(e),
         UNCHANGED <<seen, signaled, starts, asked>>
  PROVE  SignalTypes' /\ StartsAreSeen'
<1>1. /\ epoch' \in [start : Nat, reset : Nat, round : Nat]
      /\ epoch'.start >= epoch.start /\ epoch'.round >= epoch.round
  <2>1. CASE e = "start"
    BY <2>1 DEF Raise, SignalTypes
  <2>2. CASE e = "reset"
    BY <2>2 DEF Raise, SignalTypes
  <2>3. CASE e = "round"
    BY <2>3 DEF Raise, SignalTypes
  <2> QED BY <2>1, <2>2, <2>3
<1> QED BY <1>1 DEF SignalTypes, StartsAreSeen, SeenStart

LEMMA SignalsStay ==
  ASSUME SignalTypes, StartsAreSeen, UNCHANGED <<epoch, seen, signaled, starts, asked>>
  PROVE  SignalTypes' /\ StartsAreSeen'
BY DEF SignalTypes, StartsAreSeen, SeenStart

LEMMA LoopSees ==
  ASSUME SignalTypes, StartsAreSeen, LoopStep
  PROVE  SignalTypes' /\ StartsAreSeen'
<1>1. UNCHANGED <<epoch, asked>>
  BY DEF LoopStep, PollConfig, GateExpired, ApplyStart, EndWarmup, HqGone, Attack, NothingDue, FireNext, Fired,
         PollReset, PollRound, PassOver, signalVars, boundVars
<1>2. CASE PollConfig
  <2>1. UNCHANGED starts
    BY <1>2 DEF PollConfig, pastVars
  <2>2. CASE NewStart
    <3>1. seen' = [seen EXCEPT !.start = epoch.start] /\ signaled' = TRUE
      BY <1>2, <2>2 DEF PollConfig
    <3>2. seen' \in [start : Nat \cup {-1}, reset : Nat, round : Nat] /\ seen'.start = epoch.start /\ seen'.round = seen.round
      BY <3>1 DEF SignalTypes
    <3>3. SeenStart < epoch.start
      BY <2>2 DEF NewStart, StartsAreSeen, SeenStart, SignalTypes
    <3>4. SignalTypes'
      BY <1>1, <2>1, <3>1, <3>2 DEF SignalTypes
    <3>5. SeenStart' = epoch.start /\ epoch.start \in Nat /\ SeenStart \in Nat
      BY <1>1, <3>2 DEF SeenStart, SignalTypes
    <3> QED BY <1>1, <2>1, <3>1, <3>2, <3>3, <3>4, <3>5 DEF SignalTypes, StartsAreSeen
  <2>3. CASE ~NewStart
    <3>1. seen' = seen /\ (signaled' <=> signaled) /\ signaled' \in BOOLEAN
      BY <1>2, <2>3 DEF PollConfig, SignalTypes
    <3>2. signaled' = signaled
      BY <3>1 DEF SignalTypes
    <3> QED BY <1>1, <2>1, <3>1, <3>2, SignalsStay
  <2> QED BY <2>2, <2>3
<1>3. CASE ApplyStart
  <2>1. seen' = seen /\ signaled' = FALSE
    BY <1>3 DEF ApplyStart
  <2>2. CASE signaled
    <3>1. starts' = starts \/ starts' = starts + 1
      BY <1>3, <2>2 DEF ApplyStart, SignalStart, BeginWarmup
    <3>2. starts + 1 <= SeenStart + seen.round + asked
      BY <2>2 DEF StartsAreSeen
    <3>3. starts' <= SeenStart + seen.round + asked /\ starts' \in Nat
      BY <3>1, <3>2 DEF SignalTypes, SeenStart
    <3> QED BY <1>1, <2>1, <3>3 DEF SignalTypes, StartsAreSeen, SeenStart
  <2>3. CASE ~signaled
    <3>1. starts' = starts
      BY <1>3, <2>3 DEF ApplyStart
    <3>2. starts <= SeenStart + seen.round + asked
      BY <2>3 DEF StartsAreSeen, SignalTypes
    <3> QED BY <1>1, <2>1, <3>1, <3>2 DEF SignalTypes, StartsAreSeen, SeenStart
  <2> QED BY <2>2, <2>3
<1>4. CASE PollReset
  <2>1. seen' = [seen EXCEPT !.reset = epoch.reset] /\ UNCHANGED <<signaled, starts>>
    BY <1>4 DEF PollReset, ResetCycle
  <2>2. seen' \in [start : Nat \cup {-1}, reset : Nat, round : Nat] /\ seen'.start = seen.start /\ seen'.round = seen.round
    BY <2>1 DEF SignalTypes
  <2> QED BY <1>1, <2>1, <2>2 DEF SignalTypes, StartsAreSeen, SeenStart
<1>5. CASE PollRound
  <2>1. /\ seen' = [seen EXCEPT !.round = epoch.round] /\ UNCHANGED signaled /\ starts' = starts + 1
        /\ epoch.round # seen.round
    BY <1>5 DEF PollRound, NewRound, BeginWarmup
  <2>2. seen' \in [start : Nat \cup {-1}, reset : Nat, round : Nat] /\ seen'.start = seen.start /\ seen'.round = epoch.round
    BY <2>1 DEF SignalTypes
  <2>3. seen.round + 1 <= epoch.round
    BY <2>1 DEF StartsAreSeen, SeenStart, SignalTypes
  <2> QED BY <1>1, <2>1, <2>2, <2>3 DEF SignalTypes, StartsAreSeen, SeenStart
<1>6. CASE GateExpired \/ EndWarmup \/ HqGone \/ Attack \/ NothingDue \/ FireNext \/ Fired \/ PassOver
  <2>1. UNCHANGED <<seen, signaled, starts>>
    BY <1>6 DEF GateExpired, ResetCycle, EndWarmup, HqGone, Attack, NothingDue, FireNext, Fired, PassOver, flowVars, pastVars
  <2> QED BY <1>1, <2>1, SignalsStay
<1> QED BY <1>2, <1>3, <1>4, <1>5, <1>6 DEF LoopStep

LEMMA StartInvStep == StartInv /\ [PathNext]_pathVars => StartInv'
<1> SUFFICES ASSUME StartInv, [PathNext]_pathVars, "restart" \notin may PROVE SignalTypes' /\ StartsAreSeen'
  BY MayStays DEF StartInv
<1>1. SignalTypes /\ StartsAreSeen
  BY DEF StartInv
<1>2. ASSUME NEW e \in {"start", "reset", "round"}, Raise(e), UNCHANGED cycleVars PROVE SignalTypes' /\ StartsAreSeen'
  BY <1>1, <1>2, EpochsRise DEF cycleVars, flowVars, pastVars, boundVars
<1>3. CASE Cycle(PostStart /\ UNCHANGED cycleVars)
  BY <1>2, <1>3 DEF Cycle, PostStart
<1>4. CASE Cycle(PostReset("reset") /\ UNCHANGED cycleVars) \/ Cycle(PostReset("round") /\ UNCHANGED cycleVars)
  BY <1>2, <1>4 DEF Cycle, PostReset
<1>5. CASE Cycle(GateSignal)
  <2>1. UNCHANGED <<epoch, cycleVars>>
    BY <1>5 DEF Cycle, GateSignal, CountPlayers, ChatReady, GateTimesOut
  <2> QED BY <1>1, <2>1, SignalsStay DEF cycleVars, flowVars, pastVars, boundVars
<1>6. CASE Cycle(SignalStep)
  <2>1. CASE FireStart
    BY <1>2, <1>6, <2>1 DEF Cycle, SignalStep, FireStart
  <2>2. CASE ClearGate
    BY <1>1, <1>6, <2>2, SignalsStay DEF Cycle, SignalStep, ClearGate, cycleVars, flowVars, pastVars, boundVars
  <2> QED BY <1>6, <2>1, <2>2 DEF Cycle, SignalStep
<1>7. CASE Cycle(AskStart)
  <2>1. /\ UNCHANGED <<epoch, seen, signaled>> /\ asked' = asked + 1
        /\ starts' = starts \/ starts' = starts + 1
    BY <1>7 DEF Cycle, AskStart, SignalStart, BeginWarmup, signalVars
  <2> QED BY <1>1, <2>1 DEF SignalTypes, StartsAreSeen, SeenStart
<1>8. CASE Cycle(LoopStep)
  BY <1>1, <1>8, LoopSees DEF Cycle
<1>9. CASE Cycle(ResolverStep)
  <2>1. UNCHANGED <<epoch, seen, signaled, starts, asked>>
    BY <1>9 DEF Cycle, ResolverStep, TakeOrders, PayNext, signalVars, flowVars, pastVars, boundVars
  <2> QED BY <1>1, <2>1, SignalsStay
<1>10. CASE File(WriteLine) \/ File(TailStep) \/ File(WriteHead) \/ File(WriteTail) \/ File(BeginAnew)
  <2>1. UNCHANGED <<epoch, seen, signaled, starts, asked>>
    BY <1>10 DEF File, vars, signalVars, cycleVars, flowVars, pastVars, boundVars
  <2> QED BY <1>1, <2>1, SignalsStay
<1>11. CASE \E line \in Lines : Order(line)
  <2>1. UNCHANGED <<epoch, seen, signaled, starts, asked>>
    BY <1>11 DEF Order, signalVars, flowVars, pastVars, boundVars
  <2> QED BY <1>1, <2>1, SignalsStay
<1>12. CASE UNCHANGED pathVars
  <2>1. UNCHANGED <<epoch, seen, signaled, starts, asked>>
    BY <1>12 DEF pathVars, vars, signalVars, cycleVars, flowVars, pastVars, boundVars
  <2> QED BY <1>1, <2>1, SignalsStay
<1> QED BY <1>3, <1>4, <1>5, <1>6, <1>7, <1>8, <1>9, <1>10, <1>11, <1>12 DEF PathNext

\* A round starts because somebody asked for it, once: signals polled again, resets
\* and the gate's timeout start nothing (StartsAreAsked).
THEOREM StartsAlwaysAsked == PathSpec => []StartsAreAsked
<1>1. StartInv => StartsAreAsked
  BY DEF StartInv, SignalTypes, StartsAreSeen, SeenStart, StartsAreAsked
<1> QED BY <1>1, StartInvStart, StartInvStep, PTL DEF PathSpec

-----------------------------------------------------------------------------
(* A wave is paid before it goes out.                                      *)

\* How often a wave is in a list; the payments cover what went out and what is to.
Places(list, w) == {i \in DOMAIN list : list[i] = w}
Times(list, w) == Cardinality(Places(list, w))
WaveLists == Seq(Waves \cup Lines)
PaidTypes ==
  /\ orders \in WaveLists /\ paying \in WaveLists /\ bought \in WaveLists /\ sending \in WaveLists
  /\ paid \in [Waves -> Nat] /\ sent \in [Waves -> Nat]
PaymentsCover == \A w \in Waves : sent[w] + Times(sending, w) + Times(bought, w) <= paid[w]
PaidInv == PaidTypes /\ PaymentsCover

LEMMA NoneTimes == \A w : Times(<<>>, w) = 0
BY FS_EmptySet DEF Times, Places

LEMMA TimesCount ==
  ASSUME NEW list \in WaveLists, NEW w
  PROVE  IsFiniteSet(Places(list, w)) /\ Times(list, w) \in Nat
<1>1. IsFiniteSet(1 .. Len(list)) /\ Len(list) \in Nat
  BY FS_Interval DEF WaveLists
<1>2. Places(list, w) \in SUBSET (1 .. Len(list))
  BY DEF Places, WaveLists
<1>3. IsFiniteSet(Places(list, w))
  BY <1>1, <1>2, FS_Subset
<1> QED BY <1>3, FS_CardinalityType DEF Times

LEMMA TimesAppend ==
  ASSUME NEW list \in WaveLists, NEW v \in Waves \cup Lines, NEW w
  PROVE  /\ Append(list, v) \in WaveLists
         /\ Times(Append(list, v), w) = Times(list, w) + (IF v = w THEN 1 ELSE 0)
<1> DEFINE longer == Append(list, v)
<1>1. /\ longer \in WaveLists /\ Len(longer) = Len(list) + 1 /\ longer[Len(list) + 1] = v
      /\ \A i \in 1 .. Len(list) : longer[i] = list[i]
  BY AppendProperties DEF WaveLists
<1>2. DOMAIN longer = DOMAIN list \cup {Len(list) + 1} /\ Len(list) + 1 \notin DOMAIN list /\ DOMAIN list = 1 .. Len(list)
  BY <1>1 DEF WaveLists
<1> HIDE DEF longer
<1>3. CASE v = w
  <2>1. Places(longer, w) = Places(list, w) \cup {Len(list) + 1} /\ Len(list) + 1 \notin Places(list, w)
    BY <1>1, <1>2, <1>3 DEF Places
  <2>2. Times(longer, w) = Times(list, w) + 1
    BY <2>1, TimesCount, FS_AddElement DEF Times
  <2> QED BY <1>1, <1>3, <2>2 DEF longer
<1>4. CASE v # w
  <2>1. Places(longer, w) = Places(list, w)
    BY <1>1, <1>2, <1>4 DEF Places
  <2>2. Times(longer, w) = Times(list, w) /\ Times(list, w) \in Nat
    BY <2>1, TimesCount DEF Times
  <2> QED BY <1>1, <1>4, <2>2 DEF longer
<1> QED BY <1>3, <1>4

LEMMA TimesTail ==
  ASSUME NEW list \in WaveLists, list # <<>>, NEW w
  PROVE  /\ Tail(list) \in WaveLists /\ Head(list) \in Waves \cup Lines
         /\ Times(list, w) = Times(Tail(list), w) + (IF Head(list) = w THEN 1 ELSE 0)
<1> DEFINE rest == Tail(list)
           shift == [i \in Places(rest, w) |-> i + 1]
<1>1. /\ rest \in WaveLists /\ Head(list) \in Waves \cup Lines /\ Head(list) = list[1]
      /\ Len(rest) = Len(list) - 1 /\ \A i \in 1 .. Len(rest) : rest[i] = list[i + 1]
  BY HeadTailProperties DEF WaveLists
<1>2. DOMAIN rest = 1 .. Len(rest) /\ DOMAIN list = 1 .. Len(list) /\ Len(list) \in Nat /\ Len(rest) \in Nat
  BY <1>1 DEF WaveLists
<1> HIDE DEF rest
<1>3. /\ \A i \in Places(rest, w) : i \in Nat /\ i + 1 \in Places(list, w) \ {1}
      /\ \A j \in Places(list, w) \ {1} : j - 1 \in Places(rest, w) /\ j = (j - 1) + 1
  BY <1>1, <1>2 DEF Places
<1>4. shift \in [Places(rest, w) -> Places(list, w) \ {1}]
  BY <1>3
<1>5. \A i, j \in Places(rest, w) : shift[i] = shift[j] => i = j
  BY <1>3
<1>6. \A j \in Places(list, w) \ {1} : \E i \in Places(rest, w) : shift[i] = j
  BY <1>3
<1>7. shift \in Bijection(Places(rest, w), Places(list, w) \ {1})
  BY <1>4, <1>5, <1>6 DEF Bijection, Injection, Surjection, IsInjective
<1>8. IsFiniteSet(Places(rest, w)) /\ Cardinality(Places(list, w) \ {1}) = Times(rest, w)
  <2>1. ExistsBijection(Places(rest, w), Places(list, w) \ {1})
    BY <1>7 DEF ExistsBijection
  <2> QED BY <1>1, <2>1, TimesCount, FS_Bijection DEF Times
<1>9. IsFiniteSet(Places(list, w)) /\ Times(list, w) \in Nat /\ Times(rest, w) \in Nat
  BY <1>1, TimesCount
<1>10. 1 \in Places(list, w) <=> Head(list) = w
  BY <1>1, <1>2 DEF Places
<1>11. Times(list, w) = Times(rest, w) + (IF Head(list) = w THEN 1 ELSE 0)
  <2>1. Cardinality(Places(list, w) \ {1}) = IF 1 \in Places(list, w) THEN Times(list, w) - 1 ELSE Times(list, w)
    BY <1>9, FS_RemoveElement DEF Times
  <2> QED BY <2>1, <1>8, <1>9, <1>10
<1> QED BY <1>1, <1>11 DEF rest

LEMMA PaidInvStart == PathInit => PaidInv
<1> SUFFICES ASSUME PathInit PROVE PaidInv
  OBVIOUS
<1>1. /\ orders = <<>> /\ paying = <<>> /\ bought = <<>> /\ sending = <<>>
      /\ paid = [w \in Waves |-> 0] /\ sent = [w \in Waves |-> 0]
  BY DEF PathInit, Init, CycleInit
<1>2. <<>> \in WaveLists
  BY DEF WaveLists
<1> QED BY <1>1, <1>2, NoneTimes DEF PaidInv, PaidTypes, PaymentsCover

\* What a step does to the lists and the payments: nothing, or no more than drop
\* waves and add orders.
LEMMA PaidStays ==
  ASSUME PaidInv, orders' \in WaveLists, UNCHANGED <<paying, bought, sending, paid, sent>>
  PROVE  PaidInv'
BY DEF PaidInv, PaidTypes, PaymentsCover, Times, Places

LEMMA RoundClears ==
  ASSUME PaidInv, ClearRound, UNCHANGED <<paying, sending, paid, sent>>
  PROVE  PaidInv'
<1>1. orders' = <<>> /\ bought' = <<>> /\ <<>> \in WaveLists
  BY DEF ClearRound, WaveLists
<1>2. \A w \in Waves : Times(bought, w) \in Nat /\ Times(sending, w) \in Nat
  BY TimesCount DEF PaidInv, PaidTypes
<1>3. PaidTypes'
  BY <1>1 DEF PaidInv, PaidTypes
<1>4. ASSUME NEW w \in Waves PROVE sent'[w] + Times(sending', w) + Times(bought', w) <= paid'[w]
  <2>1. Times(bought', w) = 0
    BY <1>1, NoneTimes
  <2>2. sent[w] + Times(sending, w) + Times(bought, w) <= paid[w] /\ sent[w] \in Nat /\ paid[w] \in Nat
    BY DEF PaidInv, PaymentsCover, PaidTypes
  <2> QED BY <1>2, <2>1, <2>2
<1> QED BY <1>3, <1>4 DEF PaidInv, PaymentsCover, Times, Places

LEMMA AttackTakes == ASSUME PaidInv, Attack PROVE PaidInv'
<1>1. sending' = bought /\ bought' = <<>> /\ <<>> \in WaveLists /\ UNCHANGED <<orders, paying, paid, sent>>
  BY DEF Attack, TakeBought, WaveLists, pastVars
<1>2. \A w \in Waves : Times(bought, w) \in Nat /\ Times(sending, w) \in Nat
  BY TimesCount DEF PaidInv, PaidTypes
<1>3. PaidTypes'
  BY <1>1 DEF PaidInv, PaidTypes
<1>4. ASSUME NEW w \in Waves PROVE sent'[w] + Times(sending', w) + Times(bought', w) <= paid'[w]
  <2>1. Times(bought', w) = 0 /\ Times(sending', w) = Times(bought, w)
    BY <1>1, NoneTimes
  <2>2. sent[w] + Times(sending, w) + Times(bought, w) <= paid[w] /\ sent[w] \in Nat /\ paid[w] \in Nat
    BY DEF PaidInv, PaymentsCover, PaidTypes
  <2> QED BY <1>1, <1>2, <2>1, <2>2
<1> QED BY <1>3, <1>4 DEF PaidInv, PaymentsCover, Times, Places

LEMMA OnceMore ==
  ASSUME NEW count \in [Waves -> Nat], NEW v
  PROVE  /\ [count EXCEPT ![v] = @ + 1] \in [Waves -> Nat]
         /\ \A w \in Waves : [count EXCEPT ![v] = @ + 1][w] = count[w] + (IF v = w THEN 1 ELSE 0)
<1> DEFINE more == [count EXCEPT ![v] = @ + 1]
<1>1. more = [w \in Waves |-> IF w = v THEN count[w] + 1 ELSE count[w]]
  OBVIOUS
<1> HIDE DEF more
<1>2. more \in [Waves -> Nat]
  <2>1. \A w \in Waves : (IF w = v THEN count[w] + 1 ELSE count[w]) \in Nat
    OBVIOUS
  <2> QED BY <1>1, <2>1
<1>3. \A w \in Waves : more[w] = count[w] + (IF v = w THEN 1 ELSE 0)
  BY <1>1
<1> QED BY <1>2, <1>3 DEF more

LEMMA WaveFires == ASSUME PaidInv, FireNext PROVE PaidInv'
<1> DEFINE v == Head(sending)
<1>1. sending # <<>> /\ sending' = Tail(sending) /\ sent' = [sent EXCEPT ![v] = @ + 1] /\ UNCHANGED <<orders, paying, bought, paid>>
  BY DEF FireNext, Once
<1>2. sending' \in WaveLists
  BY <1>1, TimesTail DEF PaidInv, PaidTypes
<1>3. PaidTypes'
  <2>1. sent \in [Waves -> Nat]
    BY DEF PaidInv, PaidTypes
  <2>2. sent' \in [Waves -> Nat]
    BY <1>1, <2>1, OnceMore
  <2> QED BY <1>1, <1>2, <2>2 DEF PaidInv, PaidTypes
<1>4. ASSUME NEW w \in Waves PROVE sent'[w] + Times(sending', w) + Times(bought', w) <= paid'[w]
  <2>1. Times(sending, w) = Times(sending', w) + (IF v = w THEN 1 ELSE 0)
    BY <1>1, TimesTail DEF PaidInv, PaidTypes
  <2>2. sent'[w] = sent[w] + (IF v = w THEN 1 ELSE 0)
    BY <1>1 DEF PaidInv, PaidTypes
  <2>3. /\ sent[w] + Times(sending, w) + Times(bought, w) <= paid[w] /\ sent[w] \in Nat /\ paid[w] \in Nat
        /\ Times(bought, w) \in Nat /\ Times(sending', w) \in Nat
    BY <1>2, TimesCount DEF PaidInv, PaymentsCover, PaidTypes
  <2>4. Times(bought', w) = Times(bought, w) /\ paid'[w] = paid[w]
    BY <1>1
  <2> HIDE DEF v
  <2> QED BY <2>1, <2>2, <2>3, <2>4
<1> QED BY <1>3, <1>4 DEF PaidInv, PaymentsCover, Times, Places

LEMMA ResolverPays == ASSUME PaidInv, ResolverStep PROVE PaidInv'
<1>1. CASE TakeOrders
  <2>1. paying' = orders /\ orders' = <<>> /\ <<>> \in WaveLists /\ UNCHANGED <<bought, sending, paid, sent>>
    BY <1>1 DEF TakeOrders, pastVars, WaveLists
  <2> QED BY <2>1 DEF PaidInv, PaidTypes, PaymentsCover, Times, Places
<1>2. CASE PayNext
  <2> DEFINE v == Head(paying)
  <2>1. paying # <<>> /\ paying' = Tail(paying) /\ UNCHANGED <<orders, sending, sent>>
    BY <1>2 DEF PayNext
  <2>2. paying' \in WaveLists /\ v \in Waves \cup Lines
    BY <2>1, TimesTail DEF PaidInv, PaidTypes
  <2>3. /\ paid' = paid \/ paid' = [paid EXCEPT ![v] = @ + 1]
        /\ bought' = bought \/ (bought' = Append(bought, v) /\ paid' = [paid EXCEPT ![v] = @ + 1])
    BY <1>2 DEF PayNext, Once
  <2> HIDE DEF v
  <2>4. paid' \in [Waves -> Nat]
    BY <2>3 DEF PaidInv, PaidTypes
  <2>5. bought' \in WaveLists
    BY <2>2, <2>3, TimesAppend DEF PaidInv, PaidTypes
  <2>6. PaidTypes'
    BY <2>1, <2>2, <2>4, <2>5 DEF PaidInv, PaidTypes
  <2>7. ASSUME NEW w \in Waves PROVE sent'[w] + Times(sending', w) + Times(bought', w) <= paid'[w]
    <3>1. /\ sent[w] + Times(sending, w) + Times(bought, w) <= paid[w] /\ sent[w] \in Nat /\ paid[w] \in Nat
          /\ Times(bought, w) \in Nat /\ Times(sending, w) \in Nat
      BY TimesCount DEF PaidInv, PaymentsCover, PaidTypes
    <3>2. sent' = sent /\ Times(sending', w) = Times(sending, w)
      BY <2>1
    <3>3. CASE bought' = bought
      <4>1. paid'[w] >= paid[w]
        BY <2>3, <3>1 DEF PaidInv, PaidTypes
      <4> QED BY <3>1, <3>2, <3>3, <4>1, <2>4
    <3>4. CASE bought' # bought
      <4>1. bought' = Append(bought, v) /\ paid'[w] = paid[w] + (IF v = w THEN 1 ELSE 0)
        BY <2>3, <3>1, <3>4 DEF PaidInv, PaidTypes
      <4>2. Times(bought', w) = Times(bought, w) + (IF v = w THEN 1 ELSE 0)
        BY <2>2, <4>1, TimesAppend DEF PaidInv, PaidTypes
      <4> QED BY <3>1, <3>2, <4>1, <4>2
    <3> QED BY <3>3, <3>4
  <2> QED BY <2>6, <2>7 DEF PaidInv, PaymentsCover, Times, Places
<1> QED BY <1>1, <1>2 DEF ResolverStep

LEMMA LoopKeepsPaid == ASSUME PaidInv, LoopStep PROVE PaidInv'
<1>0. orders \in WaveLists
  BY DEF PaidInv, PaidTypes
<1>1. CASE PollConfig \/ EndWarmup \/ HqGone \/ NothingDue \/ Fired \/ PassOver
  <2>1. UNCHANGED <<waveVars, pastVars>>
    BY <1>1 DEF PollConfig, EndWarmup, HqGone, NothingDue, Fired, PassOver
  <2> QED BY <1>0, <2>1, PaidStays DEF waveVars, pastVars
<1>2. CASE GateExpired \/ PollReset \/ PollRound
  <2>1. ClearRound /\ UNCHANGED <<paying, sending, paid, sent>>
    BY <1>2 DEF GateExpired, PollReset, PollRound, NewRound, BeginWarmup, ResetCycle
  <2> QED BY <2>1, RoundClears
<1>3. CASE ApplyStart
  <2>1. (ClearRound \/ UNCHANGED <<orders, bought>>) /\ UNCHANGED <<paying, sending, paid, sent>>
    BY <1>3 DEF ApplyStart, SignalStart, BeginWarmup
  <2> QED BY <1>0, <2>1, RoundClears, PaidStays
<1> QED BY <1>1, <1>2, <1>3, AttackTakes, WaveFires DEF LoopStep

LEMMA PaidInvStep == PaidInv /\ [PathNext]_pathVars => PaidInv'
<1> SUFFICES ASSUME PaidInv, [PathNext]_pathVars PROVE PaidInv'
  OBVIOUS
<1>0. orders \in WaveLists
  BY DEF PaidInv, PaidTypes
<1>1. CASE \/ Cycle(PostStart /\ UNCHANGED cycleVars)
           \/ Cycle(PostReset("reset") /\ UNCHANGED cycleVars) \/ Cycle(PostReset("round") /\ UNCHANGED cycleVars)
           \/ Cycle(GateSignal) \/ Cycle(SignalStep)
  <2>1. UNCHANGED cycleVars
    BY <1>1 DEF Cycle, GateSignal, SignalStep
  <2> QED BY <1>0, <2>1, PaidStays DEF cycleVars, waveVars, pastVars
<1>2. CASE Cycle(AskStart)
  <2>1. (ClearRound \/ UNCHANGED <<orders, bought>>) /\ UNCHANGED <<paying, sending, paid, sent>>
    BY <1>2 DEF Cycle, AskStart, SignalStart, BeginWarmup
  <2> QED BY <1>0, <2>1, RoundClears, PaidStays
<1>3. CASE Cycle(LoopStep)
  BY <1>3, LoopKeepsPaid DEF Cycle
<1>4. CASE Cycle(ResolverStep)
  BY <1>4, ResolverPays DEF Cycle
<1>5. CASE Cycle(CycleRestart)
  <2>1. /\ orders' = <<>> /\ paying' = <<>> /\ bought' = <<>> /\ sending' = <<>> /\ <<>> \in WaveLists
        /\ UNCHANGED <<paid, sent>>
    BY <1>5 DEF Cycle, CycleRestart, pastVars, WaveLists
  <2>2. PaidTypes'
    BY <2>1 DEF PaidInv, PaidTypes
  <2>3. ASSUME NEW w \in Waves PROVE sent'[w] + Times(sending', w) + Times(bought', w) <= paid'[w]
    <3>1. Times(bought', w) = 0 /\ Times(sending', w) = 0
      BY <2>1, NoneTimes
    <3>2. /\ sent[w] + Times(sending, w) + Times(bought, w) <= paid[w] /\ sent[w] \in Nat /\ paid[w] \in Nat
          /\ Times(bought, w) \in Nat /\ Times(sending, w) \in Nat
      BY TimesCount DEF PaidInv, PaymentsCover, PaidTypes
    <3> QED BY <2>1, <3>1, <3>2
  <2> QED BY <2>2, <2>3 DEF PaidInv, PaymentsCover, Times, Places
<1>6. CASE Cycle(ServerRestart) \/ TailRestart
  <2>1. UNCHANGED <<waveVars, pastVars>>
    BY <1>6 DEF Cycle, ServerRestart, TailRestart
  <2> QED BY <1>0, <2>1, PaidStays DEF waveVars, pastVars
<1>7. CASE File(WriteLine) \/ File(TailStep) \/ File(WriteHead) \/ File(WriteTail) \/ File(BeginAnew)
  <2>1. UNCHANGED cycleVars
    BY <1>7 DEF File, vars
  <2> QED BY <1>0, <2>1, PaidStays DEF cycleVars, waveVars, pastVars
<1>8. CASE \E line \in Lines : Order(line)
  <2>1. PICK line \in Lines : Order(line)
    BY <1>8
  <2>2. /\ UNCHANGED <<paying, bought, sending, paid, sent>>
        /\ orders' = orders \/ orders' = Append(orders, line)
    BY <2>1 DEF Order, Buy, pastVars
  <2>3. orders' \in WaveLists
    BY <1>0, <2>2, TimesAppend
  <2> QED BY <2>2, <2>3, PaidStays
<1>9. CASE UNCHANGED pathVars
  BY <1>0, <1>9, PaidStays DEF pathVars, vars, cycleVars, waveVars, pastVars
<1> QED BY <1>1, <1>2, <1>3, <1>4, <1>5, <1>6, <1>7, <1>8, <1>9 DEF PathNext

LEMMA PaidIsPaid == PaidInv => WavesArePaid
<1> SUFFICES ASSUME PaidInv, NEW w \in Waves PROVE sent[w] <= paid[w]
  BY DEF WavesArePaid
<1>1. /\ sent[w] + Times(sending, w) + Times(bought, w) <= paid[w] /\ sent[w] \in Nat /\ paid[w] \in Nat
      /\ Times(bought, w) \in Nat /\ Times(sending, w) \in Nat
  BY TimesCount DEF PaidInv, PaymentsCover, PaidTypes
<1> QED BY <1>1

-----------------------------------------------------------------------------
(* A whole line is one order.                                              *)

\* A text of whole lines, each behind the one before.
Even(n) == \E k \in Int : n = 2 * k
Whole(text) ==
  /\ text \in Seq(Lines \X {1, 2}) /\ Even(Len(text))
  /\ \A i \in DOMAIN text : Even(i) => text[i][2] = 2 /\ text[i - 1][2] = 1 /\ text[i - 1][1] = text[i][1]
  /\ \A i, j \in DOMAIN text : i < j /\ Even(i) => text[i][1] < text[j][1]
TailTypes ==
  /\ Whole(log) /\ Whole(queue) /\ pending = <<>>
  /\ written \in Nat /\ cursor \in Nat \cup {None} /\ upto \in Nat
  /\ at \in {"measure", "read", "feed"} /\ ordered \in [Lines -> Nat]
Reading ==
  /\ cursor # None => Even(cursor)
  /\ at # "measure" => cursor # None
  /\ at # "feed" => queue = <<>>
  /\ at = "feed" => Even(upto)
\* Lines come one after the other; those ordered or about to be are behind where
\* the next poll reads on.
Written(line) == line <= written
Taken(line) == ordered[line] > 0 \/ \E i \in DOMAIN queue : queue[i][1] = line
Upto == IF at = "feed" THEN upto ELSE cursor
LinesInOrder ==
  /\ \A i \in DOMAIN log : Written(log[i][1])
  /\ \A line \in Lines : Taken(line) => Written(line)
TakenIsBehind == cursor # None =>
  \A i \in DOMAIN log : Taken(log[i][1]) => i <= Upto /\ Upto <= Len(log)
QueueIsNew == \A i \in DOMAIN queue : ordered[queue[i][1]] = 0
TailGood == TailTypes /\ Reading /\ LinesInOrder /\ TakenIsBehind /\ QueueIsNew /\ OrderedOnce
TailInv == "torn" \notin may => TailGood


LEMMA EvenNumbers ==
  /\ Even(0) /\ Even(2) /\ ~Even(1)
  /\ \A n, m \in Int : Even(n) /\ Even(m) => Even(n + m) /\ Even(n - m)
  /\ \A n \in Int : Even(n) => ~Even(n - 1) /\ ~Even(n + 1)
  /\ \A n \in Int : ~Even(n) => Even(n + 1) /\ Even(n - 1)
<1>1. Even(0) /\ Even(2)
  <2>1. 0 = 2 * 0 /\ 2 = 2 * 1
    OBVIOUS
  <2> QED BY <2>1 DEF Even
<1>2. ~Even(1)
  BY DEF Even
<1>3. ASSUME NEW n \in Int, NEW m \in Int, Even(n), Even(m) PROVE Even(n + m) /\ Even(n - m)
  <2>1. PICK k \in Int, l \in Int : n = 2 * k /\ m = 2 * l
    BY <1>3 DEF Even
  <2>2. n + m = 2 * (k + l) /\ n - m = 2 * (k - l) /\ k + l \in Int /\ k - l \in Int
    BY <2>1
  <2> QED BY <2>2 DEF Even
<1>4. ASSUME NEW n \in Int, Even(n) PROVE ~Even(n - 1) /\ ~Even(n + 1)
  BY <1>4 DEF Even
<1>5. ASSUME NEW n \in Int, ~Even(n) PROVE Even(n + 1) /\ Even(n - 1)
  <2>1. PICK k \in Int : n = 2 * k + 1
    <3>1. n = 2 * (n \div 2) \/ n = 2 * (n \div 2) + 1
      BY Z3
    <3>2. n \div 2 \in Int
      OBVIOUS
    <3> QED BY <1>5, <3>1, <3>2 DEF Even
  <2>2. n + 1 = 2 * (k + 1) /\ n - 1 = 2 * k /\ k + 1 \in Int
    BY <2>1
  <2> QED BY <2>2 DEF Even
<1> QED BY <1>1, <1>2, <1>3, <1>4, <1>5

\* The pieces of a text.
LEMMA WholePieces ==
  ASSUME NEW text, Whole(text)
  PROVE  /\ Len(text) \in Nat /\ DOMAIN text = 1 .. Len(text)
         /\ \A i \in 1 .. Len(text) : text[i] \in Lines \X {1, 2} /\ text[i][1] \in Lines /\ text[i][1] \in Int
BY DEF Whole, Lines

\* What is left of a whole text behind a line is a whole text.
LEMMA RestIsWhole ==
  ASSUME NEW text, Whole(text), NEW n \in Nat, Even(n), n <= Len(text)
  PROVE  /\ Whole(SubSeq(text, n + 1, Len(text)))
         /\ Len(SubSeq(text, n + 1, Len(text))) = Len(text) - n
         /\ \A i \in 1 .. Len(text) - n : SubSeq(text, n + 1, Len(text))[i] = text[n + i]
<1> DEFINE rest == SubSeq(text, n + 1, Len(text))
           left == Len(text) - n
<1>1. Len(text) \in Nat /\ DOMAIN text = 1 .. Len(text) /\ \A i \in 1 .. Len(text) : text[i] \in Lines \X {1, 2}
  BY WholePieces
<1>2. /\ rest \in Seq(Lines \X {1, 2}) /\ Len(rest) = left
      /\ \A i \in 1 .. left : rest[i] = text[n + i]
  <2>1. \A i \in n + 1 .. Len(text) : text[i] \in Lines \X {1, 2}
    BY <1>1
  <2>2. /\ rest \in Seq(Lines \X {1, 2}) /\ Len(rest) = IF n + 1 <= Len(text) THEN Len(text) - (n + 1) + 1 ELSE 0
        /\ \A i \in 1 .. Len(text) - (n + 1) + 1 : rest[i] = text[n + 1 + i - 1]
    BY <1>1, <2>1, SubSeqProperties
  <2> HIDE DEF rest
  <2>3. Len(rest) = left
    <3>1. \A m \in Nat : n <= m => (IF n + 1 <= m THEN m - (n + 1) + 1 ELSE 0) = m - n
      OBVIOUS
    <3>2. (IF n + 1 <= Len(text) THEN Len(text) - (n + 1) + 1 ELSE 0) = Len(text) - n
      BY <1>1, <3>1
    <3>3. Len(rest) = IF n + 1 <= Len(text) THEN Len(text) - (n + 1) + 1 ELSE 0
      BY <2>2
    <3> QED BY <3>2, <3>3
  <2>4. ASSUME NEW i \in 1 .. left PROVE rest[i] = text[n + i]
    <3>1. i \in 1 .. Len(text) - (n + 1) + 1 /\ n + 1 + i - 1 = n + i
      BY <1>1
    <3> QED BY <2>2, <3>1
  <2> QED BY <2>2, <2>3, <2>4
<1> HIDE DEF rest
<1>3. left \in Nat /\ Even(left) /\ DOMAIN rest = 1 .. left /\ \A i \in 1 .. left : n + i \in DOMAIN text
  BY <1>1, <1>2, EvenNumbers DEF Whole
<1>4. ASSUME NEW i \in 1 .. left, Even(i)
      PROVE  rest[i][2] = 2 /\ rest[i - 1][2] = 1 /\ rest[i - 1][1] = rest[i][1]
  <2>1. Even(n + i) /\ i # 1 /\ n \in Int /\ i \in Int
    BY <1>3, <1>4, EvenNumbers
  <2>3. i - 1 \in 1 .. left /\ (n + i) - 1 = n + (i - 1)
    BY <1>3, <2>1
  <2>2. text[n + i][2] = 2 /\ text[(n + i) - 1][2] = 1 /\ text[(n + i) - 1][1] = text[n + i][1]
    BY <1>3, <2>1 DEF Whole
  <2> QED BY <1>2, <2>3, <2>2
<1>5. ASSUME NEW i \in 1 .. left, NEW j \in 1 .. left, i < j, Even(i)
      PROVE  rest[i][1] < rest[j][1]
  <2>1. Even(n + i) /\ n + i < n + j
    BY <1>3, <1>5, EvenNumbers
  <2>2. text[n + i][1] < text[n + j][1]
    BY <1>3, <2>1 DEF Whole
  <2> QED BY <1>2, <2>2
<1>6. Whole(rest)
  BY <1>2, <1>3, <1>4, <1>5 DEF Whole
<1> QED BY <1>2, <1>6 DEF rest

LEMMA NothingIsWhole == Whole(<<>>)
<1>1. <<>> \in Seq(Lines \X {1, 2}) /\ Len(<<>>) = 0 /\ DOMAIN <<>> = {}
  OBVIOUS
<1> QED BY <1>1, EvenNumbers DEF Whole

\* All of a whole text is complete, and its first line ends with its second piece.
LEMMA WholeIsComplete ==
  ASSUME NEW text, Whole(text), text # <<>>
  PROVE  /\ Complete(text) = Len(text) /\ Len(text) >= 2
         /\ Min(Newlines(text)) = 2
<1>1. Len(text) \in Nat /\ DOMAIN text = 1 .. Len(text) /\ Even(Len(text))
  BY WholePieces DEF Whole
<1>2. Len(text) # 0
  BY DEF Whole
<1>3. Len(text) >= 2
  BY <1>1, <1>2, EvenNumbers
<1>4. Newlines(text) \in SUBSET (1 .. Len(text)) /\ Len(text) \in Newlines(text) /\ 2 \in Newlines(text)
  <2>1. Len(text) \in DOMAIN text /\ 2 \in DOMAIN text /\ Even(2)
    BY <1>1, <1>3, EvenNumbers
  <2>2. text[Len(text)][2] = 2 /\ text[2][2] = 2
    BY <1>1, <2>1 DEF Whole
  <2> QED BY <1>1, <2>1, <2>2 DEF Newlines
<1>5. 1 \notin Newlines(text)
  <2>1. 2 \in DOMAIN text /\ Even(2) /\ 2 - 1 = 1
    BY <1>1, <1>3, EvenNumbers
  <2>2. text[1][2] = 1
    BY <2>1 DEF Whole
  <2> QED BY <2>2 DEF Newlines
<1>6. Complete(text) = Len(text)
  <2>1. Len(text) \in Newlines(text) \cup {0} /\ \A i \in Newlines(text) \cup {0} : Len(text) >= i
    BY <1>1, <1>4
  <2>2. \A m \in Newlines(text) \cup {0} : (\A i \in Newlines(text) \cup {0} : m >= i) => m = Len(text)
    BY <1>1, <1>4, <2>1
  <2> HIDE DEF Newlines
  <2> QED BY <2>1, <2>2 DEF Complete, Max
<1>7. Min(Newlines(text)) = 2
  <2>1. 2 \in Newlines(text) /\ \A i \in Newlines(text) : 2 <= i
    BY <1>1, <1>4, <1>5
  <2>2. \A m \in Newlines(text) : (\A i \in Newlines(text) : m <= i) => m = 2
    BY <1>1, <1>4, <2>1
  <2> QED BY <2>1, <2>2 DEF Min
<1> QED BY <1>3, <1>6, <1>7


LEMMA TailInvStart == PathInit => TailInv
<1> SUFFICES ASSUME PathInit PROVE TailGood
  BY DEF TailInv
<1>1. /\ log = <<>> /\ written = 0 /\ cursor = None /\ pending = <<>> /\ queue = <<>> /\ upto = 0 /\ at = "measure"
      /\ ordered = [line \in Lines |-> 0]
  BY DEF PathInit, TailInit
<1>2. DOMAIN log = {} /\ DOMAIN queue = {} /\ \A line \in Lines : ordered[line] = 0
  BY <1>1
<1>3. TailTypes
  BY <1>1, NothingIsWhole DEF TailTypes
<1>4. Reading /\ LinesInOrder /\ TakenIsBehind /\ QueueIsNew /\ OrderedOnce
  BY <1>1, <1>2 DEF Reading, LinesInOrder, TakenIsBehind, QueueIsNew, OrderedOnce, Taken, Written
<1> QED BY <1>3, <1>4 DEF TailGood

LEMMA TailStays ==
  ASSUME TailGood, UNCHANGED <<log, written, cursor, pending, queue, upto, at, ordered>>
  PROVE  TailGood'
BY DEF TailGood, TailTypes, Reading, LinesInOrder, TakenIsBehind, QueueIsNew, OrderedOnce, Whole, Taken, Written, Upto

\* The pieces of the file and of the queue.
LEMMA TailPieces ==
  ASSUME TailGood
  PROVE  /\ Len(log) \in Nat /\ DOMAIN log = 1 .. Len(log) /\ Even(Len(log))
         /\ \A i \in 1 .. Len(log) : log[i][1] \in Lines
         /\ Len(queue) \in Nat /\ DOMAIN queue = 1 .. Len(queue)
         /\ \A i \in 1 .. Len(queue) : queue[i][1] \in Lines
<1>1. Whole(log) /\ Whole(queue)
  BY DEF TailGood, TailTypes
<1> QED BY <1>1, WholePieces DEF Whole

\* Another line is behind all others.
LEMMA LineIsWritten == ASSUME TailGood, WriteLine, ordered' = ordered PROVE TailGood'
<1> DEFINE next == <<<<written + 1, 1>>, <<written + 1, 2>>>>
<1>1. written \in Nat /\ written + 1 \in Lines /\ written' = written + 1 /\ log' = log \o next
  BY TailBounds DEF WriteLine, TailGood, TailTypes, Lines
<1>2. UNCHANGED <<cursor, pending, queue, upto, at>>
  BY DEF WriteLine, tailVars
<1>3. next \in Seq(Lines \X {1, 2}) /\ Len(next) = 2 /\ next[1] = <<written + 1, 1>> /\ next[2] = <<written + 1, 2>>
  BY <1>1
<1> HIDE DEF next
<1> DEFINE n == Len(log)
<1>4. /\ n \in Nat /\ DOMAIN log = 1 .. n /\ Even(n) /\ log \in Seq(Lines \X {1, 2}) /\ Whole(log)
      /\ \A i \in 1 .. n : log[i][1] \in Lines /\ log[i][1] <= written
  BY TailPieces DEF TailGood, TailTypes, Whole, LinesInOrder, Written
<1>5. /\ log' \in Seq(Lines \X {1, 2}) /\ Len(log') = n + 2 /\ DOMAIN log' = 1 .. n + 2
      /\ \A i \in 1 .. n : log'[i] = log[i]
      /\ log'[n + 1] = <<written + 1, 1>> /\ log'[n + 2] = <<written + 1, 2>>
  <2>1. /\ log \o next \in Seq(Lines \X {1, 2}) /\ Len(log \o next) = Len(log) + Len(next)
        /\ \A i \in 1 .. Len(log) + Len(next) : (log \o next)[i] = IF i <= Len(log) THEN log[i] ELSE next[i - Len(log)]
    BY <1>3, <1>4, ConcatProperties
  <2>2. log' \in Seq(Lines \X {1, 2}) /\ Len(log') = n + 2 /\ \A i \in 1 .. n + 2 : log'[i] = IF i <= n THEN log[i] ELSE next[i - n]
    BY <1>1, <1>3, <2>1
  <2> HIDE DEF n
  <2>3. n + 1 \in 1 .. n + 2 /\ n + 2 \in 1 .. n + 2 /\ ~(n + 1 <= n) /\ ~(n + 2 <= n) /\ (n + 1) - n = 1 /\ (n + 2) - n = 2
    BY <1>4
  <2>4. \A i \in 1 .. n : i \in 1 .. n + 2 /\ i <= n
    BY <1>4
  <2>5. DOMAIN log' = 1 .. n + 2
    BY <2>2
  <2> QED BY <1>3, <2>2, <2>3, <2>4, <2>5
<1> HIDE DEF n
<1>6. /\ Even(n + 2) /\ ~Even(n + 1)
      /\ \A i \in 1 .. n + 2 : i \in 1 .. n \/ i = n + 1 \/ i = n + 2
  BY <1>4, EvenNumbers
<1>7. Whole(log')
  <2>1. ASSUME NEW i \in 1 .. n + 2, Even(i) PROVE log'[i][2] = 2 /\ log'[i - 1][2] = 1 /\ log'[i - 1][1] = log'[i][1]
    <3>1. CASE i \in 1 .. n
      <4>1. i - 1 \in 1 .. n
        BY <1>4, <2>1, <3>1, EvenNumbers
      <4>2. log[i][2] = 2 /\ log[i - 1][2] = 1 /\ log[i - 1][1] = log[i][1]
        BY <1>4, <2>1, <3>1 DEF Whole
      <4> QED BY <1>5, <3>1, <4>1, <4>2
    <3>2. CASE i = n + 2
      <4>1. i - 1 = n + 1
        BY <1>4, <3>2
      <4> QED BY <1>5, <3>2, <4>1
    <3> QED BY <1>6, <2>1, <3>1, <3>2
  <2>2. ASSUME NEW i \in 1 .. n + 2, NEW j \in 1 .. n + 2, i < j, Even(i) PROVE log'[i][1] < log'[j][1]
    <3>1. i \in 1 .. n
      BY <1>4, <1>6, <2>2
    <3>2. CASE j \in 1 .. n
      <4>1. log[i][1] < log[j][1]
        BY <1>4, <2>2, <3>1, <3>2 DEF Whole
      <4> QED BY <1>5, <3>1, <3>2, <4>1
    <3>3. CASE j = n + 1 \/ j = n + 2
      <4>1. log'[j][1] = written + 1
        BY <1>5, <3>3
      <4>2. log[i][1] \in Int /\ log[i][1] <= written /\ log'[i] = log[i]
        BY <1>4, <1>5, <3>1 DEF Lines
      <4> QED BY <1>1, <4>1, <4>2
    <3> QED BY <1>6, <3>2, <3>3
  <2> QED BY <1>5, <1>6, <2>1, <2>2 DEF Whole
<1>8. \A line : Taken(line)' <=> Taken(line)
  BY <1>2 DEF Taken
<1>9. TailTypes'
  <2>1. Whole(queue')
    BY <1>2 DEF TailGood, TailTypes
  <2> QED BY <1>1, <1>2, <1>7, <2>1 DEF TailGood, TailTypes
<1>10. LinesInOrder'
  <2>1. \A line \in Lines : line <= written => line <= written + 1
    BY <1>1 DEF Lines
  <2>2. \A i \in 1 .. n + 2 : log'[i][1] <= written + 1
    <3>1. \A i \in 1 .. n : log'[i][1] <= written + 1
      BY <1>4, <1>5, <2>1
    <3>2. log'[n + 1][1] <= written + 1 /\ log'[n + 2][1] <= written + 1
      BY <1>1, <1>5
    <3> QED BY <1>6, <3>1, <3>2
  <2> QED BY <1>1, <1>5, <1>8, <2>1, <2>2 DEF TailGood, LinesInOrder, Written
<1>11. TakenIsBehind'
  <2>1. SUFFICES ASSUME cursor # None, NEW i \in 1 .. n + 2, Taken(log'[i][1]) PROVE i <= Upto /\ Upto <= n + 2
    BY <1>2, <1>5, <1>8 DEF TakenIsBehind, Upto
  <2>2. i \in 1 .. n
    <3>1. ~Taken(written + 1)
      BY <1>1 DEF TailGood, LinesInOrder, Written
    <3>2. i = n + 1 \/ i = n + 2 => log'[i][1] = written + 1
      BY <1>5
    <3>3. ~(i = n + 1 \/ i = n + 2)
      BY <2>1, <3>1, <3>2
    <3> QED BY <1>6, <2>1, <3>3
  <2>3. Upto \in Int
    BY DEF Upto, TailGood, TailTypes, None
  <2>4. i \in DOMAIN log /\ Taken(log[i][1])
    BY <1>4, <1>5, <2>1, <2>2
  <2>5. i <= Upto /\ Upto <= n
    BY <2>1, <2>4 DEF TailGood, TakenIsBehind, n
  <2> QED BY <1>4, <2>3, <2>5
<1>12. Reading' /\ QueueIsNew' /\ OrderedOnce'
  BY <1>2 DEF TailGood, Reading, QueueIsNew, OrderedOnce
<1> QED BY <1>9, <1>10, <1>11, <1>12 DEF TailGood

LEMMA FileBeginsAnew == ASSUME TailGood, BeginAnew, ordered' = ordered PROVE TailGood'
<1>1. log' = <<>> /\ UNCHANGED <<written, cursor, pending, queue, upto, at>>
  BY DEF BeginAnew, tailVars
<1>2. DOMAIN log' = {}
  BY <1>1
<1>3. Whole(log')
  BY <1>1, NothingIsWhole
<1>4. \A line : Taken(line)' <=> Taken(line)
  BY <1>1 DEF Taken
<1>5. TailTypes'
  BY <1>1, <1>3 DEF TailGood, TailTypes, Whole
<1>6. LinesInOrder' /\ TakenIsBehind'
  BY <1>1, <1>2, <1>4 DEF TailGood, LinesInOrder, TakenIsBehind, Written
<1>7. Reading' /\ QueueIsNew' /\ OrderedOnce'
  BY <1>1 DEF TailGood, Reading, QueueIsNew, OrderedOnce
<1> QED BY <1>5, <1>6, <1>7 DEF TailGood

\* A smaller file has nothing yet that was taken.
LEMMA TailMeasures == ASSUME TailGood, Measure, ordered' = ordered PROVE TailGood'
<1>1. /\ at = "measure" /\ at' = "read" /\ UNCHANGED <<log, written, queue, upto>>
      /\ cursor' = IF cursor = None THEN Len(log) ELSE IF Len(log) < cursor THEN 0 ELSE cursor
      /\ pending' = <<>> /\ queue = <<>>
  BY DEF Measure, fileVars, Shrunk, TailGood, TailTypes, Reading
<1>2. Len(log) \in Nat /\ DOMAIN log = 1 .. Len(log) /\ Even(Len(log)) /\ cursor \in Nat \cup {None} /\ None = -1
  BY TailPieces DEF TailGood, TailTypes, None
<1>3. cursor' \in Nat /\ Even(cursor') /\ cursor' # None
  <2>1. cursor # None => Even(cursor)
    BY DEF TailGood, Reading
  <2>2. CASE cursor = None
    BY <1>1, <1>2, <2>2
  <2>3. CASE cursor # None /\ Len(log) < cursor
    BY <1>1, <1>2, <2>3, EvenNumbers
  <2>4. CASE cursor # None /\ ~(Len(log) < cursor)
    BY <1>1, <1>2, <2>1, <2>4
  <2> QED BY <2>2, <2>3, <2>4
<1>4. \A line : Taken(line)' <=> Taken(line)
  BY <1>1 DEF Taken
<1>5. TakenIsBehind'
  <2>1. Upto' = cursor'
    BY <1>1 DEF Upto
  <2>2. SUFFICES ASSUME NEW i \in 1 .. Len(log), Taken(log[i][1]) PROVE i <= cursor' /\ cursor' <= Len(log)
    BY <1>1, <1>2, <1>4, <2>1 DEF TakenIsBehind
  <2>3. cursor # None => i <= cursor /\ cursor <= Len(log)
    BY <1>1, <1>2, <2>2 DEF TailGood, TakenIsBehind, Upto
  <2> QED BY <1>1, <1>2, <2>3
<1>6. TailTypes'
  BY <1>1, <1>3 DEF TailGood, TailTypes, Whole
<1>7. Reading' /\ QueueIsNew' /\ OrderedOnce' /\ LinesInOrder'
  BY <1>1, <1>3, <1>4 DEF TailGood, Reading, QueueIsNew, OrderedOnce, LinesInOrder, Written
<1> QED BY <1>5, <1>6, <1>7 DEF TailGood

\* The lines behind the cursor are all complete, and new.
LEMMA TailReads == ASSUME TailGood, Read, ordered' = ordered PROVE TailGood'
<1> DEFINE new == SubSeq(log, cursor + 1, Len(log))
           n == Len(log) - cursor
<1>1. /\ at = "read" /\ queue = <<>> /\ pending = <<>> /\ cursor \in Nat /\ Even(cursor) /\ Whole(log)
      /\ UNCHANGED <<log, written, cursor>>
  BY DEF Read, fileVars, TailGood, TailTypes, Reading
<1>2. Len(log) \in Nat /\ DOMAIN log = 1 .. Len(log) /\ Even(Len(log)) /\ \A i \in 1 .. Len(log) : log[i][1] \in Lines
  BY TailPieces
<1>3. pending \o new = new
  <2>1. CASE cursor < Len(log)
    <3>1. new \in Seq(Lines \X {1, 2})
      BY <1>1, <1>2, <2>1, RestIsWhole DEF Whole
    <3> QED BY <1>1, <3>1, ConcatEmptySeq
  <2>2. CASE ~(cursor < Len(log))
    <3>1. new = <<>>
      BY <1>1, <1>2, <2>2, SubSeqEmpty
    <3> QED BY <1>1, <3>1
  <2> QED BY <2>1, <2>2
<1>4. CASE new = <<>>
  <2>1. at' = "measure" /\ UNCHANGED <<pending, queue, upto>>
    BY <1>4 DEF Read
  <2>2. Upto' = Upto /\ cursor # None
    BY <1>1, <2>1 DEF Upto, None
  <2>3. \A line : Taken(line)' <=> Taken(line)
    BY <2>1 DEF Taken
  <2>4. TailTypes'
    BY <1>1, <2>1 DEF TailGood, TailTypes, Whole
  <2>5. TakenIsBehind'
    BY <1>1, <2>1, <2>2, <2>3 DEF TailGood, TakenIsBehind
  <2>6. Reading' /\ QueueIsNew' /\ OrderedOnce' /\ LinesInOrder'
    BY <1>1, <2>1, <2>3 DEF TailGood, Reading, QueueIsNew, OrderedOnce, LinesInOrder, Written
  <2> QED BY <2>4, <2>5, <2>6 DEF TailGood
<1>5. CASE new # <<>>
  <2>1. cursor < Len(log)
    <3>1. SUFFICES ASSUME ~(cursor < Len(log)) PROVE FALSE
      OBVIOUS
    <3>2. new = <<>>
      BY <1>1, <1>2, <3>1, SubSeqEmpty
    <3> QED BY <1>5, <3>2
  <2>2. /\ Whole(new) /\ Len(new) = n /\ \A i \in 1 .. n : new[i] = log[cursor + i]
    <3>1. cursor <= Len(log)
      BY <1>1, <1>2, <2>1
    <3> QED BY <1>1, <3>1, RestIsWhole
  <2>3. queue' = SubSeq(new, 1, Complete(new)) /\ pending' = SubSeq(new, Complete(new) + 1, Len(new))
        /\ upto' = cursor + Complete(new) /\ at' = "feed"
    BY <1>3, <1>5 DEF Read
  <2> HIDE DEF new
  <2>4. Complete(new) = n /\ n \in Nat /\ cursor + n = Len(log)
    BY <1>1, <1>2, <1>5, <2>1, <2>2, WholeIsComplete
  <2>5. queue' = new /\ pending' = <<>>
    <3>1. new \in Seq(Lines \X {1, 2})
      BY <2>2 DEF Whole
    <3>2. SubSeq(new, 1, n) = new
      BY <2>2, <3>1, SubSeqFull
    <3>3. SubSeq(new, n + 1, n) = <<>>
      BY <2>4, SubSeqEmpty
    <3> QED BY <2>2, <2>3, <2>4, <3>2, <3>3
  <2>6. upto' = Len(log) /\ DOMAIN new = 1 .. n
    BY <2>2, <2>3, <2>4, WholePieces
  <2> HIDE DEF n
  <2>7. \A i \in 1 .. n : cursor + i \in 1 .. Len(log) /\ cursor + i > cursor
    BY <1>1, <1>2, <2>4
  <2>8. \A i \in 1 .. n : ordered[new[i][1]] = 0 /\ new[i][1] \in Lines /\ Written(new[i][1])
    <3>1. ASSUME NEW i \in 1 .. n PROVE ordered[new[i][1]] = 0
      <4> DEFINE line == log[cursor + i][1]
      <4>1. ~Taken(line)
        BY <1>1, <1>2, <2>7 DEF TailGood, TakenIsBehind, Upto, None
      <4>2. line \in Lines /\ ordered[line] \in Nat
        BY <1>2, <2>7 DEF TailGood, TailTypes
      <4> QED BY <2>2, <4>1, <4>2 DEF Taken
    <3>2. \A j \in 1 .. Len(log) : Written(log[j][1])
      BY <1>2 DEF TailGood, LinesInOrder
    <3>3. ASSUME NEW i \in 1 .. n PROVE new[i][1] \in Lines /\ Written(new[i][1])
      <4>1. new[i] = log[cursor + i] /\ cursor + i \in 1 .. Len(log)
        BY <2>2, <2>7
      <4> QED BY <1>2, <3>2, <4>1
    <3> QED BY <3>1, <3>3
  <2>9. TailTypes'
    <3>1. Whole(log') /\ Whole(queue')
      BY <1>1, <2>2, <2>5
    <3> QED BY <1>1, <1>2, <2>3, <2>5, <2>6, <3>1 DEF TailGood, TailTypes
  <2>10. Reading'
    BY <1>1, <1>2, <2>3, <2>6 DEF Reading, None
  <2>11. LinesInOrder'
    <3>1. \A line \in Lines : Taken(line)' => Taken(line) \/ \E i \in 1 .. n : new[i][1] = line
      BY <2>5, <2>6 DEF Taken
    <3>2. \A line : Written(line)' <=> Written(line)
      BY <1>1 DEF Written
    <3> QED BY <1>1, <2>8, <3>1, <3>2 DEF TailGood, LinesInOrder
  <2>12. TakenIsBehind'
    <3>1. Upto' = Len(log)
      BY <2>3, <2>6 DEF Upto
    <3> QED BY <1>1, <1>2, <3>1 DEF TakenIsBehind
  <2>13. QueueIsNew' /\ OrderedOnce'
    BY <2>5, <2>6, <2>8 DEF TailGood, QueueIsNew, OrderedOnce
  <2> QED BY <2>9, <2>10, <2>11, <2>12, <2>13 DEF TailGood
<1> QED BY <1>4, <1>5

LEMMA TailGoesOn == ASSUME TailGood, Fed, ordered' = ordered PROVE TailGood'
<1>1. /\ at = "feed" /\ at' = "measure" /\ queue = <<>> /\ cursor' = upto /\ UNCHANGED <<log, written, pending, queue, upto>>
      /\ upto \in Nat /\ Even(upto) /\ cursor # None
  BY DEF Fed, fileVars, TailGood, TailTypes, Reading
<1>2. Upto' = Upto /\ cursor' # None
  BY <1>1 DEF Upto, None
<1>3. \A line : Taken(line)' <=> Taken(line)
  BY <1>1 DEF Taken
<1>4. TailTypes'
  BY <1>1 DEF TailGood, TailTypes, Whole
<1>5. TakenIsBehind'
  BY <1>1, <1>2, <1>3 DEF TailGood, TakenIsBehind
<1>6. Reading' /\ QueueIsNew' /\ OrderedOnce' /\ LinesInOrder'
  BY <1>1, <1>3 DEF TailGood, Reading, QueueIsNew, OrderedOnce, LinesInOrder, Written
<1> QED BY <1>4, <1>5, <1>6 DEF TailGood

LEMMA TailBegins == ASSUME TailGood, TailerRestart, ordered' = ordered PROVE TailGood'
<1>1. /\ cursor' = None /\ pending' = <<>> /\ queue' = <<>> /\ upto' = 0 /\ at' = "measure"
      /\ UNCHANGED <<log, written>>
  BY DEF TailerRestart, fileVars
<1>2. DOMAIN queue' = {} /\ \A line : Taken(line)' => Taken(line)
  BY <1>1 DEF Taken
<1>3. TailTypes'
  BY <1>1, NothingIsWhole DEF TailGood, TailTypes, Whole
<1>4. Reading' /\ QueueIsNew' /\ OrderedOnce' /\ LinesInOrder' /\ TakenIsBehind'
  BY <1>1, <1>2 DEF TailGood, Reading, QueueIsNew, OrderedOnce, LinesInOrder, Written, TakenIsBehind
<1> QED BY <1>3, <1>4 DEF TailGood

\* The line that is fed was not ordered before, and the rest of the queue is of others.
LEMMA LineIsOrdered == ASSUME TailGood, NEW line \in Lines, Order(line) PROVE TailGood'
<1>1. /\ at = "feed" /\ queue # <<>> /\ UNCHANGED <<log, written, cursor, pending, upto, at>> /\ Whole(queue)
      /\ ordered' = ordered \/ ordered' = [ordered EXCEPT ![line] = @ + 1]
  BY DEF Order, Feed, fileVars, Once, TailGood, TailTypes
<1>2. Len(queue) \in Nat /\ DOMAIN queue = 1 .. Len(queue) /\ Len(queue) >= 2 /\ Min(Newlines(queue)) = 2
  BY <1>1, TailPieces, WholeIsComplete
<1>3. line = queue[2][1] /\ queue' = SubSeq(queue, 2 + 1, Len(queue))
  <2>1. line = queue[Min(Newlines(queue))][1] /\ queue' = SubSeq(queue, Min(Newlines(queue)) + 1, Len(queue))
    BY DEF Order, Feed
  <2> QED BY <1>2, <2>1
<1> DEFINE n == Len(queue) - 2
<1>4. /\ Whole(queue') /\ DOMAIN queue' = 1 .. n
      /\ \A i \in 1 .. n : queue'[i] = queue[2 + i]
  <2>1. Whole(queue') /\ Len(queue') = n /\ \A i \in 1 .. n : queue'[i] = queue[2 + i]
    <3>1. 2 \in Nat /\ Even(2) /\ 2 <= Len(queue)
      BY <1>2, EvenNumbers
    <3>2. /\ Whole(SubSeq(queue, 2 + 1, Len(queue))) /\ Len(SubSeq(queue, 2 + 1, Len(queue))) = Len(queue) - 2
          /\ \A i \in 1 .. Len(queue) - 2 : SubSeq(queue, 2 + 1, Len(queue))[i] = queue[2 + i]
      BY <1>1, <3>1, RestIsWhole
    <3> QED BY <1>3, <3>2
  <2> QED BY <2>1, WholePieces
<1>5. /\ n \in Nat /\ 2 \in DOMAIN queue /\ \A i \in 1 .. n : 2 + i \in DOMAIN queue /\ 2 < 2 + i
  BY <1>2
<1> HIDE DEF n
<1>6. \A i \in 1 .. n : queue'[i][1] # line /\ queue'[i][1] \in Lines
  <2>1. ASSUME NEW i \in 1 .. n PROVE queue'[i][1] # line /\ queue'[i][1] \in Lines
    <3>1. queue[2][1] < queue[2 + i][1]
      BY <1>1, <1>5, EvenNumbers DEF Whole
    <3>2. queue[2 + i][1] \in Lines /\ queue[2][1] \in Int
      BY <1>1, <1>2, <1>5, WholePieces
    <3>3. queue[2 + i][1] # queue[2][1]
      BY <3>1, <3>2 DEF Lines
    <3> QED BY <1>3, <1>4, <3>2, <3>3
  <2> QED BY <2>1
<1>7. ordered[line] = 0 /\ Taken(line)
  BY <1>3, <1>5 DEF TailGood, QueueIsNew, Taken
<1>8. /\ ordered' \in [Lines -> Nat] /\ ordered'[line] <= 1
      /\ \A other \in Lines : other # line => ordered'[other] = ordered[other]
  BY <1>1, <1>7 DEF TailGood, TailTypes
<1>9. \A other \in Lines : Taken(other)' => Taken(other)
  <2>1. ASSUME NEW other \in Lines, Taken(other)', other # line PROVE Taken(other)
    <3>1. ordered'[other] > 0 \/ \E i \in 1 .. n : queue'[i][1] = other
      BY <1>4, <2>1 DEF Taken
    <3>2. CASE ordered'[other] > 0
      BY <1>8, <2>1, <3>2 DEF Taken
    <3>3. CASE \E i \in 1 .. n : queue'[i][1] = other
      BY <1>4, <1>5, <3>3 DEF Taken
    <3> QED BY <3>1, <3>2, <3>3
  <2> QED BY <1>7, <2>1
<1>10. TailTypes'
  BY <1>1, <1>4, <1>8 DEF TailGood, TailTypes, Whole
<1>11. Reading' /\ LinesInOrder'
  BY <1>1, <1>9 DEF TailGood, Reading, LinesInOrder, Written
<1>12. TakenIsBehind'
  <2>1. Upto' = Upto
    BY <1>1 DEF Upto
  <2>2. \A i \in DOMAIN log : log[i][1] \in Lines
    BY TailPieces
  <2> QED BY <1>1, <1>9, <2>1, <2>2 DEF TailGood, TakenIsBehind
<1>13. QueueIsNew'
  <2>1. \A i \in 1 .. n : ordered[queue[2 + i][1]] = 0
    BY <1>5 DEF TailGood, QueueIsNew
  <2> QED BY <1>4, <1>6, <1>8, <2>1 DEF QueueIsNew
<1>14. OrderedOnce'
  BY <1>8 DEF TailGood, OrderedOnce
<1> QED BY <1>10, <1>11, <1>12, <1>13, <1>14 DEF TailGood

LEMMA TailInvStep == TailInv /\ [PathNext]_pathVars => TailInv'
<1> SUFFICES ASSUME TailInv, [PathNext]_pathVars, "torn" \notin may PROVE TailGood'
  BY MayStays DEF TailInv
<1>0. TailGood
  BY DEF TailInv
<1>1. ASSUME UNCHANGED <<logVars, ordered>> PROVE TailGood'
  BY <1>0, <1>1, TailStays DEF logVars, fileVars, tailVars
<1>2. CASE TailRestart
  BY <1>0, <1>2, TailBegins DEF TailRestart
<1>3. CASE File(WriteLine) \/ File(BeginAnew)
  BY <1>0, <1>3, LineIsWritten, FileBeginsAnew DEF File
<1>4. CASE File(TailStep)
  BY <1>0, <1>4, TailMeasures, TailReads, TailGoesOn DEF File, TailStep
<1>5. CASE \E line \in Lines : Order(line)
  BY <1>0, <1>5, LineIsOrdered
<1>6. CASE UNCHANGED pathVars
  BY <1>0, <1>6, TailStays DEF pathVars, logVars, fileVars, tailVars
<1> QED BY <1>1, <1>2, <1>3, <1>4, <1>5, <1>6 DEF PathNext, Cycle

\* From a line to a wave: whole lines are one order each, whatever polls, new files
\* and restarts there are, and only paid waves go out, none twice (LinesBecomeWaves).
THEOREM LinesAlwaysBecomeWaves == PathSpec => []LinesBecomeWaves
<1>1. PathInit => PaidInv /\ TailInv
  BY PaidInvStart, TailInvStart
<1>2. PaidInv /\ TailInv /\ [PathNext]_pathVars => (PaidInv /\ TailInv)'
  BY PaidInvStep, TailInvStep
<1>3. PaidInv /\ TailInv => LinesBecomeWaves
  BY PaidIsPaid DEF TailInv, TailGood, LinesBecomeWaves, WholeLinesOrderOnce
<1> QED BY <1>1, <1>2, <1>3, PTL DEF PathSpec
=============================================================================
