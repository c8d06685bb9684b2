------------------------ MODULE Availability_proofs ------------------------
(***************************************************************************)
(* The recorded age is honest for every interval and any number of         *)
(* overlapping refreshes; and a portal that answers keeps every entity     *)
(* available, whatever the websocket does.                                 *)
(***************************************************************************)
EXTENDS Availability, TLAPS

\* The types of the window and the bounds; and the window outlasts an interval
\* and the two refreshes at its ends when the portal is prompt.
LEMMA WindowFacts ==
  /\ FreshnessWindow \in Nat
  /\ Interval \in Nat \ {0} /\ RefreshBound \in Nat
  /\ RefreshBound < Interval /\ Interval <= FreshnessWindow
  /\ PromptAnswers => Interval + 2 * RefreshBound <= FreshnessWindow
  BY AvailabilityAssumption DEF FreshnessWindow, PromptAnswers

\* Ageing saturates, and keeps ages in order.
LEMMA OlderFacts ==
  ASSUME NEW a \in Ages, NEW b \in Ages, a <= b
  PROVE  /\ Older(a) \in Ages /\ Older(b) \in Ages
         /\ Older(a) <= Older(b)
         /\ Older(a) <= a + 1
  BY WindowFacts DEF Ages, Older, Expired

\* What an entity writes is a truth value.
LEMMA WriteType ==
  ASSUME NEW S \in SUBSET Entities, NEW fresh \in BOOLEAN,
         shown \in [Entities -> BOOLEAN], Write(S, fresh)
  PROVE  shown' \in [Entities -> BOOLEAN]
  BY DEF Write

\* Freshness is a truth value.
LEMMA FreshType == Fresh \in BOOLEAN
  BY DEF Fresh, FreshGiven

\* After setup nothing is older than it is recorded to be.
LEMMA Initialised == Init => AgeInv
<1> SUFFICES ASSUME Init  PROVE AgeInv
  OBVIOUS
<1>1. TypeOK
  BY WindowFacts DEF Init, TypeOK, Ages, Expired
<1>2. QED
  BY <1>1 DEF Init, AgeInv, HonestAge

USE DEF channel, clocks, reading

\* The websocket does not touch the ages of snapshots: connecting.
LEMMA ConnectedAge == ASSUME AgeInv, Connected PROVE AgeInv'
<1>1. shown' \in [Entities -> BOOLEAN]
  BY DEF AgeInv, TypeOK, Connected, NotifyAll, Write
<1>2. 0 \in Ages
  BY WindowFacts DEF Ages, Expired
<1>3. QED
  BY <1>1, <1>2 DEF AgeInv, TypeOK, HonestAge, Connected

\* Disconnecting, likewise.
LEMMA DisconnectedAge == ASSUME AgeInv, Disconnected PROVE AgeInv'
<1>1. shown' \in [Entities -> BOOLEAN]
  BY DEF AgeInv, TypeOK, Disconnected, NotifyAll, Write, FreshGiven
<1>2. QED
  BY <1>1 DEF AgeInv, TypeOK, HonestAge, Disconnected

\* A realtime frame, likewise.
LEMMA DataAge == ASSUME AgeInv, NEW S \in SUBSET Entities, Data(S) PROVE AgeInv'
<1>1. shown' \in [Entities -> BOOLEAN]
  BY DEF AgeInv, TypeOK, Data, Write
<1>2. 0 \in Ages
  BY WindowFacts DEF Ages, Expired
<1>3. QED
  BY <1>1, <1>2 DEF AgeInv, TypeOK, HonestAge, Data

\* A refresh that begins has parsed nothing yet.
LEMMA EnterAge ==
  ASSUME AgeInv, NEW r \in Readers, Enter(r),
         due_age' \in 0 .. Interval, ticked' \in BOOLEAN,
         UNCHANGED <<channel, http_age, data_age, shown>>
  PROVE  AgeInv'
<1>1. TypeOK'
  BY WindowFacts, FreshType DEF AgeInv, TypeOK, Enter, StaleAtEntry
<1>2. HonestAge'
  BY DEF AgeInv, HonestAge
<1>3. QED
  BY <1>1, <1>2 DEF AgeInv, TypeOK, Enter

\* A command begins a refresh.
LEMMA CommandAge == ASSUME AgeInv, NEW r \in Readers, Command(r) PROVE AgeInv'
  BY EnterAge DEF AgeInv, TypeOK, Command

\* The tick begins one when it is due.
LEMMA TickAge == ASSUME AgeInv, Tick PROVE AgeInv'
<1>1. CASE RefreshDue
  BY <1>1, EnterAge, AvailabilityAssumption DEF AgeInv, TypeOK, Tick
<1>2. CASE ~RefreshDue
  BY <1>2 DEF AgeInv, TypeOK, HonestAge, Tick
<1>3. QED
  BY <1>1, <1>2

\* A snapshot that has just arrived is the newest, and older ones stay older.
LEMMA ParseAge ==
  ASSUME AgeInv, NEW r \in Readers, NEW S \in SUBSET Entities, Parse(r, S)  PROVE AgeInv'
<1>1. shown' \in [Entities -> BOOLEAN]
  BY FreshType, WriteType DEF AgeInv, TypeOK, Parse
<1>2. TypeOK'
  BY <1>1, WindowFacts DEF AgeInv, TypeOK, Parse, Ages, Expired
<1>3. HonestAge'
  BY DEF AgeInv, TypeOK, HonestAge, Parse, Ages
<1>4. QED
  BY <1>2, <1>3 DEF AgeInv, TypeOK, Parse

\* What is recorded is the age of a snapshot, hence of no younger one than the newest.
LEMMA SucceedAge ==
  ASSUME AgeInv, NEW r \in Readers, NEW S \in SUBSET Entities, Succeed(r, S)  PROVE AgeInv'
<1>1. shown' \in [Entities -> BOOLEAN]
  BY FreshType, WriteType DEF AgeInv, TypeOK, Succeed, FreshGiven, Write
<1>2. http_age' \in Ages /\ due_age' \in 0 .. Interval
  BY WindowFacts DEF AgeInv, TypeOK, Succeed, Recorded, Ages, Expired
<1>3. TypeOK'
  BY <1>1, <1>2 DEF AgeInv, TypeOK, Succeed
<1>4. HonestAge'
  BY DEF AgeInv, HonestAge, Succeed, Recorded
<1>5. QED
  BY <1>3, <1>4 DEF AgeInv, TypeOK, Succeed

\* A refresh that fails records nothing.
LEMMA FailAge == ASSUME AgeInv, NEW r \in Readers, Fail(r) PROVE AgeInv'
  BY DEF AgeInv, TypeOK, HonestAge, Fail

\* Everything ages together; no recorded age overtakes that of a snapshot.
LEMMA PassAge == ASSUME AgeInv, Pass PROVE AgeInv'
<1> USE DEF AgeInv, TypeOK, Pass
<1>1. message_age' \in Ages /\ http_age' \in Ages /\ data_age' \in Ages /\ HonestAge'
  <2>1. /\ message_age \in Ages /\ http_age \in Ages /\ data_age \in Ages
        /\ data_age <= http_age
    BY DEF HonestAge
  <2>2. message_age <= message_age
    BY <2>1, WindowFacts DEF Ages, Expired
  <2>3. Older(message_age) \in Ages
    BY <2>1, <2>2, OlderFacts
  <2>4. Older(http_age) \in Ages /\ Older(data_age) \in Ages /\ Older(data_age) <= Older(http_age)
    BY <2>1, OlderFacts
  <2>5. QED
    BY <2>3, <2>4 DEF HonestAge
<1>2. due_age' \in 0 .. Interval
  BY WindowFacts
<1>3. elapsed' \in [Readers -> 0 .. RefreshBound]
  BY WindowFacts
<1>4. ASSUME NEW r \in Readers, stage'[r] = "errors"
      PROVE  data_age' <= read_age'[r] /\ read_age'[r] <= elapsed'[r]
  BY <1>4, OlderFacts DEF Ages
<1>5. read_age' \in [Readers -> 0 .. RefreshBound]
  <2>1. ASSUME NEW r \in Readers  PROVE read_age'[r] \in 0 .. RefreshBound
    BY WindowFacts
  <2>2. QED
    BY <2>1
<1>6. QED
  BY <1>1, <1>2, <1>3, <1>4, <1>5

\* The invariant is inductive.
LEMMA StepKeepsAge == AgeInv /\ [Next]_vars => AgeInv'
<1> SUFFICES ASSUME AgeInv, [Next]_vars  PROVE AgeInv'
  OBVIOUS
<1>1. CASE Next
  BY <1>1, ConnectedAge, DisconnectedAge, DataAge, CommandAge, TickAge, ParseAge, SucceedAge,
     FailAge, PassAge
  DEF Next
<1>2. CASE UNCHANGED vars
  BY <1>2 DEF vars, AgeInv, TypeOK, HonestAge
<1>3. QED
  BY <1>1, <1>2

\* With any number of overlapping refreshes, for every interval and window, the
\* client never takes data for newer than it is (WebBoilerClient.py:199, 235).
THEOREM AgeIsHonest == Spec => []HonestAge
<1>1. AgeInv => HonestAge
  BY DEF AgeInv
<1>2. QED
  BY Initialised, StepKeepsAge, <1>1, PTL DEF Spec

-----------------------------------------------------------------------------
\* A portal that answers: the last refresh never leaves the window.
LEMMA InTimeIsFresh ==
  ASSUME reliable, AgeInv, RefreshedInTime
  PROVE  http_age <= FreshnessWindow /\ Fresh
<1>1. http_age <= FreshnessWindow
  <2>1. stage[Ticker] = "idle" \/ elapsed[Ticker] \in 0 .. RefreshBound
    BY AvailabilityAssumption DEF AgeInv, TypeOK
  <2>2. http_age \in Nat /\ due_age \in 0 .. Interval
    BY WindowFacts DEF AgeInv, TypeOK, Ages, Expired
  <2>3. PromptAnswers
    BY DEF AgeInv, TypeOK
  <2>4. QED
    BY <2>1, <2>2, <2>3, WindowFacts DEF RefreshedInTime
<1>2. QED
  BY <1>1 DEF Fresh, FreshGiven

\* Everybody displays availability, and a write that is fresh keeps it so.
LEMMA WriteShows ==
  ASSUME NEW S \in SUBSET Entities, NEW fresh, fresh = TRUE,
         \A e \in Entities : shown[e], Write(S, fresh)
  PROVE  \A e \in Entities : shown'[e]
  BY DEF Write

\* Setup has just refreshed.
LEMMA InitialisedInTime == Init => RefreshedInTime /\ \A e \in Entities : shown[e]
  BY WindowFacts, AvailabilityAssumption DEF Init, RefreshedInTime

\* A refresh that succeeds has parsed its snapshot within its bound.
LEMMA SucceedInTime ==
  ASSUME AgeInv, RefreshedInTime,
         NEW r \in Readers, NEW S \in SUBSET Entities, Succeed(r, S)
  PROVE  RefreshedInTime'
<1>1. http_age' \in 0 .. RefreshBound
  BY DEF AgeInv, TypeOK, Succeed, Recorded
<1>2. due_age' \in 0 .. Interval /\ due_age' <= due_age /\ due_age \in 0 .. Interval
  BY WindowFacts DEF AgeInv, TypeOK, Succeed
<1>3. (ticked => due_age < Interval)'
  BY <1>2, WindowFacts DEF RefreshedInTime, Succeed
<1>4. CASE stage'[Ticker] = "idle"
  BY <1>1, <1>2, <1>3, <1>4, WindowFacts DEF RefreshedInTime
<1>5. CASE stage'[Ticker] # "idle"
  <2>1. elapsed'[Ticker] \in 0 .. RefreshBound
    BY AvailabilityAssumption DEF AgeInv, TypeOK, Succeed
  <2>2. QED
    BY <1>1, <1>3, <1>5, <2>1, WindowFacts DEF RefreshedInTime
<1>6. QED
  BY <1>4, <1>5

\* A tick that finds a refresh due begins it before the period is over.
LEMMA TickInTime ==
  ASSUME AgeInv, RefreshedInTime, Tick  PROVE RefreshedInTime'
<1>1. due_age \in 0 .. Interval /\ http_age' = http_age /\ http_age \in Nat
  BY WindowFacts DEF AgeInv, TypeOK, Tick, Ages, Expired
<1>2. CASE RefreshDue
  <2>1. /\ stage[Ticker] = "idle" /\ stage'[Ticker] = "commands"
        /\ elapsed'[Ticker] = 0 /\ due_age' = 0 /\ due_age = Interval
    BY <1>1, <1>2, AvailabilityAssumption DEF Tick, Enter, RefreshDue, AgeInv, TypeOK
  <2>2. QED
    BY <1>1, <2>1, WindowFacts DEF RefreshedInTime
<1>3. CASE ~RefreshDue
  BY <1>1, <1>3, WindowFacts DEF RefreshedInTime, Tick, RefreshDue
<1>4. QED
  BY <1>2, <1>3

\* A period ages the last refresh by one, like the schedule or the refresh under way.
LEMMA PassInTime ==
  ASSUME AgeInv, RefreshedInTime, Pass  PROVE RefreshedInTime'
<1>1. /\ due_age \in 0 .. Interval /\ due_age < Interval /\ due_age' = due_age + 1
      /\ ticked' = FALSE /\ stage' = stage
  BY WindowFacts DEF AgeInv, TypeOK, Pass, RefreshedInTime
<1>2. http_age \in Nat /\ http_age' \in Nat /\ http_age' <= http_age + 1
  BY WindowFacts DEF AgeInv, TypeOK, Pass, Older, Ages, Expired
<1>3. CASE stage[Ticker] = "idle"
  BY <1>1, <1>2, <1>3, WindowFacts DEF RefreshedInTime
<1>4. CASE stage[Ticker] # "idle"
  <2>1. elapsed[Ticker] \in 0 .. RefreshBound /\ elapsed'[Ticker] = elapsed[Ticker] + 1
    BY <1>4, AvailabilityAssumption DEF AgeInv, TypeOK, Pass
  <2>2. QED
    BY <1>1, <1>2, <1>4, <2>1, WindowFacts DEF RefreshedInTime
<1>5. QED
  BY <1>3, <1>4

\* Every step of a reliable portal keeps the schedule.
LEMMA StepInTime ==
  ASSUME reliable, AgeInv, RefreshedInTime, Next  PROVE RefreshedInTime'
<1>1. CASE Connected
  BY <1>1 DEF Connected, RefreshedInTime
<1>2. CASE Disconnected
  BY <1>2 DEF Disconnected, RefreshedInTime
<1>3. ASSUME NEW S \in SUBSET Entities, Data(S)  PROVE RefreshedInTime'
  BY <1>3 DEF Data, RefreshedInTime
<1>4. ASSUME NEW r \in Readers, Command(r)  PROVE RefreshedInTime'
  <2>1. stage'[Ticker] = stage[Ticker] /\ elapsed'[Ticker] = elapsed[Ticker]
    BY <1>4, AvailabilityAssumption DEF Command, Enter, AgeInv, TypeOK
  <2>2. QED
    BY <1>4, <2>1 DEF Command, RefreshedInTime
<1>5. ASSUME NEW r \in Readers, NEW S \in SUBSET Entities, Parse(r, S)  PROVE RefreshedInTime'
  <2>1. (stage'[Ticker] = "idle") = (stage[Ticker] = "idle")
    BY <1>5, AvailabilityAssumption DEF Parse, AgeInv, TypeOK
  <2>2. QED
    BY <1>5, <2>1 DEF Parse, RefreshedInTime
<1>6. ASSUME NEW r \in Readers, NEW S \in SUBSET Entities, Succeed(r, S)  PROVE RefreshedInTime'
  BY <1>6, SucceedInTime
<1>7. ASSUME NEW r \in Readers  PROVE ~Fail(r)
  BY DEF Fail
<1>8. QED
  BY <1>1, <1>2, <1>3, <1>4, <1>5, <1>6, <1>7, TickInTime, PassInTime DEF Next

\* Whatever is written while the schedule is kept shows availability.
LEMMA StepShows ==
  ASSUME reliable, AgeInv, RefreshedInTime, \A e \in Entities : shown[e], Next,
         http_age' <= FreshnessWindow
  PROVE  \A e \in Entities : shown'[e]
<1>1. Fresh /\ http_age <= FreshnessWindow
  BY InTimeIsFresh
<1>2. CASE Connected
  BY <1>2, WriteShows DEF Connected, NotifyAll
<1>3. CASE Disconnected
  BY <1>1, <1>3, WriteShows DEF Disconnected, NotifyAll, FreshGiven
<1>4. ASSUME NEW S \in SUBSET Entities, Data(S)  PROVE \A e \in Entities : shown'[e]
  BY <1>4, WriteShows DEF Data
<1>5. ASSUME NEW r \in Readers, NEW S \in SUBSET Entities, Parse(r, S)
      PROVE  \A e \in Entities : shown'[e]
  BY <1>1, <1>5, WriteShows, FreshType DEF Parse
<1>6. ASSUME NEW r \in Readers, NEW S \in SUBSET Entities, Succeed(r, S)
      PROVE  \A e \in Entities : shown'[e]
  <2>1. FreshGiven(connected, message_age, http_age') = TRUE /\ Fresh = TRUE
    BY <1>1 DEF FreshGiven, Fresh
  <2>2. QED
    BY <1>6, <2>1, WriteShows DEF Succeed
<1>7. ASSUME NEW r \in Readers, Command(r) \/ Fail(r)  PROVE shown' = shown
  BY <1>7 DEF Command, Fail
<1>8. CASE Tick \/ Pass
  BY <1>8 DEF Tick, Pass
<1>9. QED
  BY <1>2, <1>3, <1>4, <1>5, <1>6, <1>7, <1>8 DEF Next

\* No step changes what the portal is like.
LEMMA ReliabilityIsGiven == Next => reliable' = reliable
<1>1. ASSUME NEW r \in Readers, NEW S \in SUBSET Entities,
             Command(r) \/ Parse(r, S) \/ Succeed(r, S) \/ Fail(r)
      PROVE  reliable' = reliable
  BY <1>1 DEF Command, Parse, Succeed, Fail
<1>2. ASSUME NEW S \in SUBSET Entities, Connected \/ Disconnected \/ Data(S) \/ Tick \/ Pass
      PROVE  reliable' = reliable
  BY <1>2 DEF Connected, Disconnected, Data, Tick, Pass
<1>3. QED
  BY <1>1, <1>2 DEF Next

\* PollInv is inductive.
LEMMA StepKeepsPoll == PollInv /\ [Next]_vars => PollInv'
<1> SUFFICES ASSUME PollInv, [Next]_vars  PROVE PollInv'
  OBVIOUS
<1>1. CASE Next
  <2>1. AgeInv'
    BY <1>1, StepKeepsAge DEF PollInv
  <2>2. CASE ~reliable
    BY <1>1, <2>1, <2>2, ReliabilityIsGiven DEF PollInv, NeverUnavailable
  <2>3. CASE reliable
    <3>1. RefreshedInTime' /\ reliable'
      BY <1>1, <2>3, StepInTime, ReliabilityIsGiven DEF PollInv
    <3>2. (http_age <= FreshnessWindow /\ Fresh)'
      BY <2>1, <3>1, InTimeIsFresh, PTL
    <3>3. QED
      BY <1>1, <2>1, <2>3, <3>1, <3>2, StepShows DEF PollInv, NeverUnavailable
  <2>4. QED
    BY <2>2, <2>3
<1>2. CASE UNCHANGED vars
  BY <1>2 DEF vars, PollInv, AgeInv, TypeOK, HonestAge, NeverUnavailable, RefreshedInTime,
              Fresh, FreshGiven
<1>3. QED
  BY <1>1, <1>2

\* The schedule of a prompt portal is kept, whatever the websocket does and
\* however many commands refresh at the same time (__init__.py:138-146, 303-309).
THEOREM PollInvariant == Spec => []PollInv
<1>1. Init => PollInv
  BY Initialised, InitialisedInTime, InTimeIsFresh DEF PollInv, NeverUnavailable
<1>2. QED
  BY <1>1, StepKeepsPoll, PTL DEF Spec

\* A portal that answers within the bound keeps every entity available, for
\* every interval, whatever the websocket does and however many commands
\* refresh at the same time (__init__.py:138-146).
THEOREM AlwaysAvailable == Spec => []NeverUnavailable
<1>1. PollInv => NeverUnavailable
  BY DEF PollInv
<1>2. QED
  BY PollInvariant, <1>1, PTL

\* A refresh that began stale and succeeds leaves no entity unavailable if the
\* collection is hooked, for any number of entities and of refreshes at the same
\* time (WebBoilerClient.py:181-187, 203-207).
THEOREM RecoveryRenders == Spec => RecoveryRendersEveryEntity
<1> DEFINE Rendered ==
      \A r \in Readers :
        hooked /\ was_stale[r] /\ (\E S \in SUBSET Entities : Succeed(r, S))
        => \A e \in Entities : shown'[e]
<1>1. ASSUME AgeInv  PROVE Rendered
  <2> SUFFICES ASSUME NEW r \in Readers, NEW S \in SUBSET Entities, Succeed(r, S),
                      hooked, was_stale[r]
               PROVE  \A e \in Entities : shown'[e]
    OBVIOUS
  <2>1. http_age' \in 0 .. RefreshBound
    BY <1>1 DEF AgeInv, TypeOK, Succeed, Recorded
  <2>2. FreshGiven(connected, message_age, http_age') = TRUE
    BY <2>1, WindowFacts DEF FreshGiven
  <2>3. Write(Entities, FreshGiven(connected, message_age, http_age'))
    BY DEF Succeed, Rerenders
  <2>4. QED
    BY <2>2, <2>3 DEF Write
<1>2. AgeInv /\ [Next]_vars => [Rendered]_vars
  BY <1>1
<1>3. QED
  BY Initialised, StepKeepsAge, <1>2, PTL DEF Spec, RecoveryRendersEveryEntity
=============================================================================
