--------------------------- MODULE PlantPollsProofs ---------------------------
(***************************************************************************)
(* What TLAPS proves of the polls and the covers, for any number of        *)
(* shutters, positions, pushes, restarts and partial answers.              *)
(***************************************************************************)
EXTENDS PlantPolls, TLAPS

\* DataTypeOK, variable by variable.
WorldTypes ==
    /\ cloud \in [Shutters -> Slice]
    /\ pushes \in 0 .. MaxPushes
    /\ stops \in 0 .. MaxStops
    /\ partial \in 0 .. MaxPartial

DataTypes ==
    /\ shutters \in SUBSET Shutters
    /\ previous \in Partial(Shutters, Slice)
    /\ telemetry \in {"none", "now", "earlier"}
    /\ data \in Partial(Shutters, Positions \union {Unknown})

PollTypes ==
    /\ phase \in {"first", "platforms", "running"}
    /\ reading = NoReading \/ reading \in [slices : [Shutters -> Slice], pushes : 0 .. MaxPushes]
    /\ DataTypes
    /\ success \in BOOLEAN

CoverTypes ==
    /\ covers \in SUBSET Shutters
    /\ touched \in SUBSET Shutters
    /\ commanded \in [Shutters -> Positions]
    /\ written \in [Shutters -> Positions \union {Unknown, Nothing}]
    /\ stored \in [Shutters -> Positions \union {Nothing}]

AuxTypes == known \in 0 .. MaxPushes /\ news \in BOOLEAN /\ gap \in BOOLEAN

Types == WorldTypes /\ PollTypes /\ CoverTypes /\ AuxTypes

LEMMA TypesImplyDataTypeOK == Types => DataTypeOK
<1> SUFFICES ASSUME Types PROVE DataTypeOK
  OBVIOUS
<1>1. {shutters, covers, touched} \subseteq SUBSET Shutters
  BY DEF Types, PollTypes, DataTypes, CoverTypes
<1>2. {success, news, gap} \subseteq BOOLEAN
  BY Zenon DEF Types, PollTypes, AuxTypes
<1> QED
  BY <1>1, <1>2 DEF Types, WorldTypes, PollTypes, DataTypes, CoverTypes, DataTypeOK

LEMMA Distinct ==
    /\ Unknown \notin Positions /\ Nothing \notin Positions /\ Nothing # Unknown
    /\ Top \in Positions
BY BoundAssumption DEF Unknown, Nothing, Positions

-----------------------------------------------------------------------------
(* The types.                                                              *)

\* A function on some of the shutters.
LEMMA PartialIntro ==
    ASSUME NEW T, NEW D \in SUBSET Shutters, NEW f \in [D -> T]
    PROVE  f \in Partial(Shutters, T)
BY DEF Partial

LEMMA PartialElim ==
    ASSUME NEW T, NEW f \in Partial(Shutters, T)
    PROVE  DOMAIN f \in SUBSET Shutters /\ f \in [DOMAIN f -> T]
BY DEF Partial

LEMMA ShownType ==
    ASSUME CoverTypes, NEW s \in Shutters, NEW good,
           NEW observed \in Partial(Shutters, Positions \union {Unknown})
    PROVE  Shown(s, observed, commanded, good) \in Positions \union {Unknown}
<1>1. s \in DOMAIN observed => observed[s] \in Positions \union {Unknown}
  BY PartialElim
<1> QED
  BY <1>1 DEF Shown, CoverTypes

LEMMA WriteAllType ==
    ASSUME CoverTypes, PollTypes', WriteAll
    PROVE  written' \in [Shutters -> Positions \union {Unknown, Nothing}]
<1>1. \A s \in Shutters : Shown(s, data', commanded, success') \in Positions \union {Unknown}
  BY ShownType DEF PollTypes, DataTypes
<1> QED
  BY <1>1 DEF WriteAll, CoverTypes

LEMMA RenewTypes ==
    ASSUME CoverTypes, Renew
    PROVE  /\ DataTypes' /\ success' \in BOOLEAN
           /\ covers' \in SUBSET Shutters
           /\ commanded' \in [Shutters -> Positions]
           /\ written' \in [Shutters -> Positions \union {Unknown, Nothing}]
           /\ AuxTypes'
<1>1. \A T : <<>> \in Partial(Shutters, T)
  <2>1. \A T : <<>> \in [{} -> T]
    OBVIOUS
  <2> QED
    BY <2>1, PartialIntro
<1>2. success' \in BOOLEAN /\ news' \in BOOLEAN /\ gap' \in BOOLEAN
  BY Zenon DEF Renew
<1>3. known' \in 0 .. MaxPushes
  BY BoundAssumption DEF Renew
<1> QED
  BY <1>1, <1>2, <1>3, Distinct DEF Renew, DataTypes, CoverTypes, AuxTypes

\* The slices of an answer, as far as they are there.
LEMMA ReadTypes ==
    ASSUME Types, reading # NoReading,
           NEW listed \in SUBSET Shutters, NEW present \in SUBSET Shutters,
           ReadAnswer(listed, present)
    PROVE  DataTypes' /\ AuxTypes'
<1> DEFINE slices == Restrict(reading.slices, present)
<1>1. ReadPlant(listed, slices)
  BY DEF ReadAnswer
<1>2. reading.slices \in [Shutters -> Slice] /\ reading.pushes \in 0 .. MaxPushes
  BY DEF Types, PollTypes
<1>3. slices \in [present -> Slice]
  BY <1>2 DEF Restrict
<1>4. shutters' \in SUBSET Shutters
  BY <1>1 DEF ReadPlant, Types, PollTypes, DataTypes
<1>5. data' \in [shutters' -> Positions \union {Unknown}]
  BY <1>1 DEF ReadPlant, PositionIn, Legible
<1>6. previous' = slices /\ telemetry' \in {"none", "now", "earlier"}
  BY <1>1 DEF ReadPlant, TrackTelemetry
<1>7. known' \in 0 .. MaxPushes
  BY <1>2 DEF ReadAnswer
<1>8. news' \in BOOLEAN /\ gap' \in BOOLEAN
  BY Zenon DEF ReadAnswer
<1> QED
  BY <1>3, <1>4, <1>5, <1>6, <1>7, <1>8, PartialIntro DEF DataTypes, AuxTypes

LEMMA PollTypesKept ==
    ASSUME Types, PollReturns
    PROVE  PollTypes' /\ AuxTypes' /\ covers' \in SUBSET Shutters
<1> USE DEF Types
<1>1. \/ \E listed, present \in SUBSET Shutters : ReadAnswer(listed, present)
      \/ ReadPlants
  BY DEF PollReturns
<1>2. DataTypes' /\ AuxTypes'
  <2>1. ASSUME NEW listed \in SUBSET Shutters, NEW present \in SUBSET Shutters,
               ReadAnswer(listed, present)
        PROVE  DataTypes' /\ AuxTypes'
    BY <2>1, ReadTypes DEF PollReturns
  <2>2. CASE ReadPlants
    <3>1. data' \in [shutters -> Positions \union {Unknown}]
      BY <2>2 DEF ReadPlants
    <3> QED
      BY <2>2, <3>1, PartialIntro DEF ReadPlants, PollTypes, DataTypes, AuxTypes, auxVars
  <2> QED
    BY <1>1, <2>1, <2>2
<1>3. phase' \in {"first", "platforms", "running"} /\ covers' \in SUBSET Shutters
  BY <1>2 DEF PollReturns, NextPhase, DataTypes, CoverTypes
<1>4. success' \in BOOLEAN /\ reading' = NoReading
  BY DEF PollReturns
<1> QED
  BY <1>2, <1>3, <1>4 DEF PollTypes

LEMMA TypesStep == Types /\ [Next]_vars => Types'
<1> SUFFICES ASSUME Types, [Next]_vars
             PROVE  Types'
  OBVIOUS
<1> USE DEF worldVars, pollVars, coverVars, auxVars
<1>1. CASE Answer
  <2>1. reading' \in [slices : [Shutters -> Slice], pushes : 0 .. MaxPushes]
    BY <1>1 DEF Answer, Types, WorldTypes
  <2> QED
    BY <1>1, <2>1 DEF Answer, Types, WorldTypes, PollTypes, DataTypes, CoverTypes, AuxTypes
<1>2. CASE PollReturns
  <2>1. PollTypes' /\ AuxTypes' /\ covers' \in SUBSET Shutters
    BY <1>2, PollTypesKept
  <2>2. written' \in [Shutters -> Positions \union {Unknown, Nothing}]
    BY <1>2, <2>1, WriteAllType DEF PollReturns, Types
  <2>3. partial' \in 0 .. MaxPartial
    BY <1>2, BoundAssumption DEF PollReturns, Types, WorldTypes
  <2> QED
    BY <1>2, <2>1, <2>2, <2>3 DEF PollReturns, Types, WorldTypes, CoverTypes
<1>3. CASE PollFails
  <2>1. phase' \in {"first", "platforms", "running"} /\ reading' = NoReading
        /\ UNCHANGED <<worldVars, stored, touched>>
    BY <1>3 DEF PollFails
  <2>2. CASE phase = "first"
    <3>1. Renew
      BY <1>3, <2>2 DEF PollFails
    <3> QED
      BY <2>1, <3>1, RenewTypes DEF Types, WorldTypes, PollTypes, CoverTypes
  <2>3. CASE phase # "first"
    <3>1. WriteAll /\ success' = FALSE
          /\ UNCHANGED <<shutters, previous, telemetry, data, coverVars, auxVars>>
      BY <1>3, <2>3 DEF PollFails
    <3>2. success' \in BOOLEAN
      BY <3>1
    <3>3. PollTypes'
      BY <2>1, <3>1, <3>2 DEF Types, PollTypes, DataTypes
    <3>4. written' \in [Shutters -> Positions \union {Unknown, Nothing}]
      BY <3>1, <3>3, WriteAllType DEF Types
    <3> QED
      BY <2>1, <3>1, <3>3, <3>4 DEF Types, WorldTypes, CoverTypes, AuxTypes
  <2> QED
    BY <2>2, <2>3
<1>4. ASSUME NEW s \in Shutters, Push(s)
      PROVE  Types'
  <2>1. cloud' \in [Shutters -> Slice] /\ pushes' \in 0 .. MaxPushes
    BY <1>4, BoundAssumption DEF Push, Types, WorldTypes
  <2> QED
    BY <1>4, <2>1 DEF Push, Types, WorldTypes, PollTypes, DataTypes, CoverTypes, AuxTypes
<1>5. ASSUME NEW s \in Shutters, AddToHass(s)
      PROVE  Types'
  <2>1. commanded' \in [Shutters -> Positions]
    BY <1>5, Distinct DEF AddToHass, Restored, Types, CoverTypes
  <2>2. Shown(s, data, commanded', success) \in Positions \union {Unknown}
    <3>1. s \in DOMAIN data => data[s] \in Positions \union {Unknown}
      BY PartialElim DEF Types, PollTypes, DataTypes
    <3> QED
      BY <2>1, <3>1 DEF Shown
  <2> QED
    BY <1>5, <2>1, <2>2 DEF AddToHass, Types, WorldTypes, PollTypes, DataTypes, CoverTypes, AuxTypes
<1>6. ASSUME NEW s \in Shutters, NEW p \in Positions, CallReturns(s, p)
      PROVE  Types'
  <2>1. commanded' \in [Shutters -> Positions] /\ touched' \in SUBSET Shutters
    BY <1>6 DEF CallReturns, Types, CoverTypes
  <2>2. Shown(s, data, commanded', success) \in Positions \union {Unknown}
    <3>1. s \in DOMAIN data => data[s] \in Positions \union {Unknown}
      BY PartialElim DEF Types, PollTypes, DataTypes
    <3> QED
      BY <2>1, <3>1 DEF Shown
  <2> QED
    BY <1>6, <2>1, <2>2 DEF CallReturns, Types, WorldTypes, PollTypes, DataTypes, CoverTypes, AuxTypes
<1>7. ASSUME NEW stores \in BOOLEAN, Restart(stores)
      PROVE  Types'
  <2>1. stored' \in [Shutters -> Positions \union {Nothing}]
    BY <1>7 DEF Restart, Types, CoverTypes
  <2>2. stops' \in 0 .. MaxStops
    BY <1>7, BoundAssumption DEF Restart, Types, WorldTypes
  <2>3. Renew /\ phase' = "first" /\ reading' = NoReading /\ touched' = {}
        /\ UNCHANGED <<cloud, pushes, partial>>
    BY <1>7 DEF Restart
  <2> QED
    BY <2>1, <2>2, <2>3, RenewTypes DEF Types, WorldTypes, PollTypes, CoverTypes
<1>8. CASE UNCHANGED vars
  BY <1>8 DEF vars, Types, WorldTypes, PollTypes, DataTypes, CoverTypes, AuxTypes
<1> QED
  BY <1>1, <1>2, <1>3, <1>4, <1>5, <1>6, <1>7, <1>8 DEF Next

LEMMA TypesInit == Init => Types
<1> SUFFICES ASSUME Init PROVE Types
  OBVIOUS
<1>1. \A T : <<>> \in Partial(Shutters, T)
  <2>1. \A T : <<>> \in [{} -> T]
    OBVIOUS
  <2> QED
    BY <2>1, PartialIntro
<1>2. WorldTypes
  BY BoundAssumption DEF Init, WorldTypes
<1>3. success \in BOOLEAN /\ news \in BOOLEAN /\ gap \in BOOLEAN
  BY Zenon DEF Init
<1>4. PollTypes
  BY <1>1, <1>3 DEF Init, PollTypes, DataTypes
<1>5. CoverTypes
  BY Distinct DEF Init, CoverTypes
<1>6. known \in 0 .. MaxPushes
  BY BoundAssumption DEF Init
<1> QED
  BY <1>2, <1>3, <1>4, <1>5, <1>6 DEF Types, AuxTypes

\* The data of the coordinator and the states of the covers keep their types: in
\* particular no position out of range reaches a cover, whatever the field holds.
THEOREM TypeCorrect == Spec => []DataTypeOK
BY TypesInit, TypesStep, TypesImplyDataTypeOK, PTL DEF Spec

-----------------------------------------------------------------------------
(* Covers.                                                                 *)

\* There are covers once both first refreshes are over, and a shutter without a
\* cover has no state.
OnlyCovers ==
    /\ phase # "running" => covers = {}
    /\ \A s \in Shutters : s \notin covers => written[s] = Nothing

\* What is shown where nothing is observed was restored, or commanded since.
FallsBack ==
    \A s \in Added \ touched : stored[s] # Nothing => commanded[s] = stored[s]

CoverInv == OnlyCovers /\ StateIsCurrent /\ FallsBack

LEMMA RenewKeeps ==
    ASSUME Renew
    PROVE  CoverInv'
<1>1. covers' = {} /\ \A s \in Shutters : written'[s] = Nothing
  BY DEF Renew
<1> QED
  BY <1>1 DEF CoverInv, OnlyCovers, StateIsCurrent, FallsBack, Added

\* A poll writes the state of every cover there is; those it makes come without.
LEMMA PollKeeps ==
    ASSUME Types, CoverInv, WriteAll, UNCHANGED <<commanded, stored, touched>>,
           phase' \in {"first", "platforms", "running"},
           \/ covers' = covers /\ (phase' # "running" => phase # "running")
           \/ phase # "running" /\ phase' = "running" /\ covers' \in SUBSET Shutters
    PROVE  CoverInv'
<1>1. \A s \in Shutters :
          written'[s] = IF s \in Added THEN Shown(s, data', commanded, success') ELSE written[s]
  BY DEF WriteAll
<1>2. covers \in SUBSET Shutters /\ covers' \in SUBSET Shutters
  BY DEF Types, CoverTypes
<1>3. covers' # covers => covers = {} /\ Added = {}
  BY DEF CoverInv, OnlyCovers, Added
<1>4. \A s \in Added' : s \in Added /\ s \in Shutters
  BY <1>1, <1>2, <1>3 DEF CoverInv, OnlyCovers, Added
<1>5. OnlyCovers'
  BY <1>1, <1>3 DEF CoverInv, OnlyCovers, Added
<1>6. StateIsCurrent'
  BY <1>1, <1>4 DEF StateIsCurrent
<1>7. FallsBack'
  BY <1>4 DEF CoverInv, FallsBack
<1> QED
  BY <1>5, <1>6, <1>7 DEF CoverInv

\* A cover is added or commanded; the others are not touched.
LEMMA OneCover ==
    ASSUME Types, Types', CoverInv, NEW s \in covers,
           \A t \in Shutters : t # s => commanded'[t] = commanded[t] /\ written'[t] = written[t],
           written'[s] = Shown(s, data, commanded', success),
           stored[s] # Nothing /\ s \notin touched' => commanded'[s] = stored[s],
           touched \subseteq touched',
           UNCHANGED <<phase, covers, data, success, stored>>
    PROVE  CoverInv'
<1>1. s \in Shutters /\ covers \in SUBSET Shutters
  BY DEF Types, CoverTypes
<1>2. OnlyCovers'
  BY <1>1 DEF CoverInv, OnlyCovers
<1>3. \A t \in Added' : t # s => t \in Added /\ t \in Shutters
  BY <1>1 DEF Added
<1>4. StateIsCurrent'
  BY <1>1, <1>3 DEF CoverInv, StateIsCurrent, Shown
<1>5. FallsBack'
  BY <1>3 DEF CoverInv, FallsBack
<1> QED
  BY <1>2, <1>4, <1>5 DEF CoverInv

LEMMA CoverStep == Types /\ CoverInv /\ [Next]_vars => CoverInv'
<1> SUFFICES ASSUME Types, CoverInv, [Next]_vars
             PROVE  CoverInv'
  OBVIOUS
<1>0. Types'
  BY TypesStep
<1> USE DEF worldVars, pollVars, coverVars
<1>1. ASSUME UNCHANGED <<phase, covers, written, commanded, data, success, stored, touched>>
      PROVE  CoverInv'
  BY <1>1 DEF CoverInv, OnlyCovers, StateIsCurrent, FallsBack, Added, Shown
<1>2. CASE Answer \/ UNCHANGED vars
  BY <1>1, <1>2 DEF Answer, vars
<1>3. ASSUME NEW s \in Shutters, Push(s)
      PROVE  CoverInv'
  BY <1>1, <1>3 DEF Push
<1>4. CASE PollReturns
  <2>1. /\ WriteAll /\ UNCHANGED <<commanded, stored, touched>>
        /\ phase' = IF phase = "first" THEN "platforms" ELSE "running"
        /\ covers' = IF phase = "platforms" THEN shutters' ELSE covers
    BY <1>4 DEF PollReturns, NextPhase
  <2>2. shutters' \in SUBSET Shutters /\ phase \in {"first", "platforms", "running"}
    BY <1>0 DEF Types, PollTypes, DataTypes
  <2> QED
    BY <2>1, <2>2, PollKeeps
<1>5. CASE PollFails
  <2>1. CASE phase = "first"
    BY <1>5, <2>1, RenewKeeps DEF PollFails
  <2>2. CASE phase # "first"
    <3>1. WriteAll /\ UNCHANGED <<commanded, covers, stored, touched>> /\ phase' = "running"
      BY <1>5, <2>2 DEF PollFails
    <3> QED
      BY <3>1, PollKeeps
  <2> QED
    BY <2>1, <2>2
<1>6. ASSUME NEW s \in Shutters, AddToHass(s)
      PROVE  CoverInv'
  <2>1. /\ s \in covers /\ commanded' = [commanded EXCEPT ![s] = Restored(s)]
        /\ written' = [written EXCEPT ![s] = Shown(s, data, commanded', success)]
        /\ UNCHANGED <<phase, covers, data, success, stored, touched>>
    BY <1>6 DEF AddToHass
  <2>2. stored[s] # Nothing => Restored(s) = stored[s]
    BY DEF Types, CoverTypes, Restored
  <2>3. commanded'[s] = Restored(s) /\ written'[s] = Shown(s, data, commanded', success)
    BY <2>1 DEF Types, CoverTypes
  <2>4. \A t \in Shutters : t # s => commanded'[t] = commanded[t] /\ written'[t] = written[t]
    BY <2>1 DEF Types, CoverTypes
  <2> QED
    BY <1>0, <2>1, <2>2, <2>3, <2>4, OneCover
<1>7. ASSUME NEW s \in Shutters, NEW p \in Positions, CallReturns(s, p)
      PROVE  CoverInv'
  <2>1. /\ s \in covers /\ commanded' = [commanded EXCEPT ![s] = p]
        /\ written' = [written EXCEPT ![s] = Shown(s, data, commanded', success)]
        /\ touched' = touched \union {s}
        /\ UNCHANGED <<phase, covers, data, success, stored>>
    BY <1>7 DEF CallReturns, Added
  <2>2. written'[s] = Shown(s, data, commanded', success)
    BY <2>1 DEF Types, CoverTypes
  <2>3. \A t \in Shutters : t # s => commanded'[t] = commanded[t] /\ written'[t] = written[t]
    BY <2>1 DEF Types, CoverTypes
  <2> QED
    BY <1>0, <2>1, <2>2, <2>3, OneCover
<1>8. ASSUME NEW stores \in BOOLEAN, Restart(stores)
      PROVE  CoverInv'
  BY <1>8, RenewKeeps DEF Restart
<1> QED
  BY <1>2, <1>3, <1>4, <1>5, <1>6, <1>7, <1>8 DEF Next

LEMMA CoverInit == Init => CoverInv
BY DEF Init, CoverInv, OnlyCovers, StateIsCurrent, FallsBack, Added

\* What Home Assistant has of a cover is what the cover would say now: every
\* change of what a position is made of is followed by a write.
THEOREM StatesAreCurrent == Spec => []StateIsCurrent
<1>1. CoverInv => StateIsCurrent
  BY DEF CoverInv
<1> QED
  BY <1>1, TypesInit, TypesStep, CoverInit, CoverStep, PTL DEF Spec

\* A cover comes back with the position that Home Assistant stored last, until it
\* is observed or commanded.
THEOREM PositionsComeBack == Spec => []RestoredAsShown
<1>1. Types /\ CoverInv => RestoredAsShown
  <2> SUFFICES ASSUME Types, CoverInv, NEW s \in Added \ touched, success,
                      stored[s] # Nothing, s \in DOMAIN data => data[s] = Unknown
               PROVE  written[s] = stored[s]
    BY DEF RestoredAsShown
  <2>1. written[s] = Shown(s, data, commanded, success)
    BY DEF CoverInv, StateIsCurrent
  <2>2. Shown(s, data, commanded, success) = commanded[s]
    BY DEF Shown
  <2> QED
    BY <2>1, <2>2 DEF CoverInv, FallsBack
<1> QED
  BY <1>1, TypesInit, TypesStep, CoverInit, CoverStep, PTL DEF Spec

-----------------------------------------------------------------------------
(* Telemetry.                                                              *)

\* Slices as of some number of pushes: no stamp is later, and the last push is
\* among them.
AsOf(slices, n) ==
    /\ \A s \in Shutters : slices[s].stamp <= n
    /\ n > 0 => \E s \in Shutters : slices[s].stamp = n

\* What a poll under way has got is the cloud as of its number of pushes.
ReadingInv ==
    /\ AsOf(cloud, pushes)
    /\ reading # NoReading =>
           /\ AsOf(reading.slices, reading.pushes)
           /\ reading.pushes <= pushes
           /\ reading.pushes = pushes => reading.slices = cloud

\* And so is what the last poll has left, if no slice was missing.
PreviousInv ==
    /\ phase = "first" => previous = <<>> /\ telemetry = "none" /\ ~news
    /\ DOMAIN previous = Shutters /\ Shutters # {} =>
           /\ \A s \in Shutters : previous[s].stamp <= known
           /\ known <= pushes
           /\ known = pushes => previous = cloud
           /\ reading # NoReading =>
                  /\ known <= reading.pushes
                  /\ known = reading.pushes => previous = reading.slices

TelemetryInv == ReadingInv /\ PreviousInv /\ TelemetryIsNews

LEMMA EmptyDomain == DOMAIN <<>> = {} /\ \A D, T : \A f \in [D -> T] : f = <<>> => D = {}
<1>1. DOMAIN <<>> = {}
  OBVIOUS
<1> QED
  BY <1>1

\* A poll whose payload has every slice, after one that had, finds a change if and
\* only if there was a push between the two.
LEMMA ChangeIsNews ==
    ASSUME Types, TelemetryInv, reading # NoReading, DOMAIN previous = Shutters, Shutters # {}
    PROVE  (\E s \in Shutters : previous[s] # reading.slices[s]) <=> known < reading.pushes
<1>1. /\ known \in Nat /\ reading.pushes \in Nat
      /\ \A s \in Shutters : previous[s].stamp \in Nat /\ reading.slices[s].stamp \in Nat
  <2>1. previous \in [Shutters -> Slice]
    BY PartialElim DEF Types, PollTypes, DataTypes
  <2> QED
    BY <2>1, BoundAssumption DEF Types, PollTypes, AuxTypes, Slice
<1>2. /\ \A s \in Shutters : previous[s].stamp <= known
      /\ known <= reading.pushes
      /\ known = reading.pushes => previous = reading.slices
      /\ AsOf(reading.slices, reading.pushes)
  BY DEF TelemetryInv, PreviousInv, ReadingInv
<1>3. ASSUME known < reading.pushes
      PROVE  \E s \in Shutters : previous[s] # reading.slices[s]
  <2>1. PICK s \in Shutters : reading.slices[s].stamp = reading.pushes
    BY <1>1, <1>2, <1>3 DEF AsOf
  <2>2. previous[s].stamp # reading.slices[s].stamp
    BY <1>1, <1>2, <1>3, <2>1
  <2> QED
    BY <2>2
<1>4. ASSUME ~(known < reading.pushes)
      PROVE  previous = reading.slices
  BY <1>1, <1>2, <1>4
<1> QED
  BY <1>3, <1>4

LEMMA TelemetryRead ==
    ASSUME Types, TelemetryInv, reading # NoReading,
           NEW listed \in SUBSET Shutters, NEW present \in SUBSET Shutters,
           ReadAnswer(listed, present),
           reading' = NoReading, phase' # "first", UNCHANGED <<cloud, pushes>>
    PROVE  TelemetryInv'
<1> DEFINE slices == Restrict(reading.slices, present)
           changed == {s \in DOMAIN slices :
                          s \notin DOMAIN previous \/ previous[s] # slices[s]}
<1>1. /\ DOMAIN slices = present
      /\ \A s \in present : slices[s] = reading.slices[s]
      /\ present = Shutters => slices = reading.slices
  BY DEF Restrict, Types, PollTypes
<1>2. previous' = slices
      /\ telemetry' = IF Stamps(changed) THEN "now"
                      ELSE IF telemetry = "none" THEN "none" ELSE "earlier"
  BY DEF ReadAnswer, ReadPlant, TrackTelemetry
<1>3. /\ known' = reading.pushes
      /\ news' = (phase # "first" /\ known < reading.pushes)
      /\ gap' = (phase # "first" /\ {DOMAIN previous, present} # {Shutters})
  BY DEF ReadAnswer
<1>4. ReadingInv'
  BY DEF TelemetryInv, ReadingInv
<1>5. PreviousInv'
  <2>1. ASSUME DOMAIN previous' = Shutters
        PROVE  previous' = reading.slices
    BY <1>1, <1>2, <2>1
  <2>2. ASSUME DOMAIN previous' = Shutters, NEW s \in Shutters
        PROVE  previous'[s].stamp <= known'
    <3>1. previous'[s] = reading.slices[s]
      BY <2>1, <2>2
    <3>2. reading.slices[s].stamp <= reading.pushes
      BY DEF TelemetryInv, ReadingInv, AsOf
    <3> QED
      BY <1>3, <3>1, <3>2
  <2>3. DOMAIN previous' = Shutters =>
            known' <= pushes' /\ (known' = pushes' => previous' = cloud')
    BY <1>3, <2>1 DEF TelemetryInv, ReadingInv
  <2> QED
    BY <2>2, <2>3 DEF PreviousInv
<1>6. telemetry' = "now" <=> Stamps(changed)
  BY <1>2
<1>7. TelemetryIsNews'
  <2>1. CASE phase = "first"
    <3>1. ~Stamps(changed)
      BY <2>1 DEF TelemetryInv, PreviousInv, Stamps
    <3>2. ~news'
      BY <1>3, <2>1
    <3> QED
      BY <1>6, <3>1, <3>2 DEF TelemetryIsNews
  <2>2. CASE phase # "first" /\ Shutters = {}
    <3>1. changed = {}
      BY <1>1, <2>2
    <3>2. pushes = 0
      BY <2>2 DEF TelemetryInv, ReadingInv, AsOf, Types, WorldTypes
    <3>3. ~(known < reading.pushes)
      BY <3>2, BoundAssumption DEF TelemetryInv, ReadingInv, Types, PollTypes, AuxTypes
    <3> QED
      BY <1>3, <1>6, <3>1, <3>3 DEF Stamps, TelemetryIsNews
  <2>3. CASE phase # "first" /\ Shutters # {}
    <3> SUFFICES ASSUME ~gap'
                 PROVE  telemetry' = "now" <=> news'
      BY DEF TelemetryIsNews
    <3>1. {DOMAIN previous, present} = {Shutters}
      BY <1>3, <2>3
    <3>2. DOMAIN previous = Shutters /\ present = Shutters
      BY <3>1
    <3>3. previous # <<>>
      BY <2>3, <3>2, EmptyDomain
    <3>4. changed # {} <=> \E s \in Shutters : previous[s] # reading.slices[s]
      BY <1>1, <3>2
    <3>5. changed # {} <=> known < reading.pushes
      BY <2>3, <3>2, <3>4, ChangeIsNews
    <3> QED
      BY <1>3, <1>6, <2>3, <3>3, <3>5 DEF Stamps
  <2> QED
    BY <2>1, <2>2, <2>3
<1> QED
  BY <1>4, <1>5, <1>7 DEF TelemetryInv

\* A start forgets the slices that could be compared.
LEMMA TelemetryRenew ==
    ASSUME TelemetryInv, Renew, reading' = NoReading, UNCHANGED <<cloud, pushes>>
    PROVE  TelemetryInv'
<1>1. DOMAIN previous' = {} /\ ~news' /\ telemetry' = "none" /\ previous' = <<>>
  BY EmptyDomain DEF Renew
<1>2. ReadingInv'
  BY DEF TelemetryInv, ReadingInv
<1>3. PreviousInv'
  BY <1>1 DEF PreviousInv
<1>4. TelemetryIsNews'
  BY <1>1 DEF TelemetryIsNews
<1> QED
  BY <1>2, <1>3, <1>4 DEF TelemetryInv

\* Nothing that has to do with telemetry changes, except that a poll may be over.
LEMMA TelemetryKept ==
    ASSUME TelemetryInv, reading' \in {reading, NoReading},
           phase' = "first" => phase = "first",
           UNCHANGED <<cloud, pushes, previous, telemetry, known, news, gap>>
    PROVE  TelemetryInv'
<1>1. ReadingInv'
  BY DEF TelemetryInv, ReadingInv
<1>2. PreviousInv'
  BY DEF TelemetryInv, PreviousInv
<1>3. TelemetryIsNews'
  BY DEF TelemetryInv, TelemetryIsNews
<1> QED
  BY <1>1, <1>2, <1>3 DEF TelemetryInv

LEMMA TelemetryStep == Types /\ TelemetryInv /\ [Next]_vars => TelemetryInv'
<1> SUFFICES ASSUME Types, TelemetryInv, [Next]_vars
             PROVE  TelemetryInv'
  OBVIOUS
<1> USE DEF worldVars, pollVars, coverVars, auxVars
<1>1. CASE Answer
  <2>1. /\ reading = NoReading /\ reading' = [slices |-> cloud, pushes |-> pushes]
        /\ UNCHANGED <<cloud, pushes, phase, previous, telemetry, known, news, gap>>
    BY <1>1 DEF Answer
  <2>2. reading'.slices = cloud /\ reading'.pushes = pushes /\ pushes \in Nat
    BY <2>1, BoundAssumption DEF Types, WorldTypes
  <2>3. ReadingInv'
    BY <2>1, <2>2 DEF TelemetryInv, ReadingInv, AsOf
  <2>4. PreviousInv'
    BY <2>1, <2>2 DEF TelemetryInv, PreviousInv
  <2> QED
    BY <2>1, <2>3, <2>4 DEF TelemetryInv, TelemetryIsNews
<1>2. CASE PollReturns
  <2>1. /\ reading # NoReading /\ reading' = NoReading
        /\ UNCHANGED <<cloud, pushes>>
        /\ phase' # "first"
    BY <1>2 DEF PollReturns, NextPhase
  <2>2. \/ \E listed, present \in SUBSET Shutters : ReadAnswer(listed, present)
        \/ ReadPlants
    BY <1>2 DEF PollReturns
  <2>3. ASSUME NEW listed \in SUBSET Shutters, NEW present \in SUBSET Shutters,
               ReadAnswer(listed, present)
        PROVE  TelemetryInv'
    BY <2>1, <2>3, TelemetryRead
  <2>4. CASE ReadPlants
    BY <2>1, <2>4, TelemetryKept DEF ReadPlants
  <2> QED
    BY <2>2, <2>3, <2>4
<1>3. CASE PollFails
  <2>1. reading' = NoReading /\ UNCHANGED <<cloud, pushes>>
    BY <1>3 DEF PollFails
  <2>2. CASE phase = "first"
    BY <1>3, <2>1, <2>2, TelemetryRenew DEF PollFails
  <2>3. CASE phase # "first"
    <3>1. phase' = "running" /\ UNCHANGED <<previous, telemetry, known, news, gap>>
      BY <1>3, <2>3 DEF PollFails
    <3> QED
      BY <2>1, <3>1, TelemetryKept
  <2> QED
    BY <2>2, <2>3
<1>4. ASSUME NEW s \in Shutters, Push(s)
      PROVE  TelemetryInv'
  <2>1. PICK slice \in Slice : slice.stamp = pushes + 1 /\ cloud' = [cloud EXCEPT ![s] = slice]
    BY <1>4 DEF Push
  <2>2. pushes' = pushes + 1
        /\ UNCHANGED <<phase, reading, previous, telemetry, known, news, gap>>
    BY <1>4 DEF Push
  <2>3. /\ cloud \in [Shutters -> Slice] /\ pushes \in Nat /\ known \in Nat
        /\ reading # NoReading => reading.pushes \in Nat
        /\ \A t \in Shutters : cloud[t].stamp \in Nat
    BY BoundAssumption DEF Types, WorldTypes, PollTypes, AuxTypes, Slice
  <2>4. AsOf(cloud', pushes')
    <3>1. \A t \in Shutters : cloud'[t].stamp = IF t = s THEN pushes + 1 ELSE cloud[t].stamp
      BY <2>1, <2>3
    <3>2. \A t \in Shutters : cloud[t].stamp <= pushes
      BY DEF TelemetryInv, ReadingInv, AsOf
    <3> QED
      BY <2>2, <2>3, <3>1, <3>2 DEF AsOf
  <2>5. ReadingInv'
    BY <2>2, <2>3, <2>4 DEF TelemetryInv, ReadingInv
  <2>6. PreviousInv'
    BY <2>2, <2>3 DEF TelemetryInv, PreviousInv
  <2> QED
    BY <2>2, <2>5, <2>6 DEF TelemetryInv, TelemetryIsNews
<1>5. ASSUME NEW s \in Shutters, AddToHass(s)
      PROVE  TelemetryInv'
  BY <1>5, TelemetryKept DEF AddToHass
<1>6. ASSUME NEW s \in Shutters, NEW p \in Positions, CallReturns(s, p)
      PROVE  TelemetryInv'
  BY <1>6, TelemetryKept DEF CallReturns
<1>7. ASSUME NEW stores \in BOOLEAN, Restart(stores)
      PROVE  TelemetryInv'
  BY <1>7, TelemetryRenew DEF Restart
<1>8. CASE UNCHANGED vars
  BY <1>8, TelemetryKept DEF vars
<1> QED
  BY <1>1, <1>2, <1>3, <1>4, <1>5, <1>6, <1>7, <1>8 DEF Next

LEMMA TelemetryInit == Init => TelemetryInv
<1> SUFFICES ASSUME Init PROVE TelemetryInv
  OBVIOUS
<1>1. ReadingInv
  BY DEF Init, ReadingInv, AsOf
<1>2. PreviousInv
  BY EmptyDomain DEF Init, PreviousInv
<1> QED
  BY <1>1, <1>2 DEF Init, TelemetryInv, TelemetryIsNews

\* The freshness that the confirmation of a command relies on is that of the
\* gateway: with every slice there, a poll stamps telemetry if and only if there
\* was a push that the poll before it had not seen.
THEOREM TelemetryIsFresh == Spec => []TelemetryIsNews
<1>1. TelemetryInv => TelemetryIsNews
  BY DEF TelemetryInv
<1> QED
  BY <1>1, TypesInit, TypesStep, TelemetryInit, TelemetryStep, PTL DEF Spec
=============================================================================
