------------------------------ MODULE PlantPolls ------------------------------
(***************************************************************************)
(* What Home Assistant shows of the plant: the polls of the coordinator    *)
(* (_async_update_data and _track_telemetry_freshness over the readers of  *)
(* api/plant.py), the setup of the entry, and the covers (cover.py) with   *)
(* the state they restore.                                                 *)
(*                                                                         *)
(* A GetPlant payload is what the readers find in it: the shutters named   *)
(* in its rooms, and for each shutter the state submessage that passes the *)
(* schema filter, or none.  Positions 0 .. Top stand for 0 .. 100.  Home   *)
(* Assistant runs one poll at a time; service calls run beside it.         *)
(***************************************************************************)
EXTENDS Naturals, Functions

CONSTANTS
    Shutters,
    Top,           \* the open position
    Reported,      \* what the position field may hold
    MaxPushes,     \* bound: pushes of the gateway
    MaxStops,      \* bound: stops and crashes of Home Assistant
    MaxPartial     \* bound: answers that leave something out

ASSUME BoundAssumption ==
    Top \in Nat \ {0} /\ {MaxPushes, MaxStops, MaxPartial} \subseteq Nat

\* A position, a number that is none (Top + 1), or nothing at all (Top + 2).
ASSUME ReportedAssumption == Reported \subseteq 0 .. Top + 2

VARIABLES
    cloud,         \* the state submessage of each shutter at the cloud
    pushes, stops, partial,   \* how many so far
    phase,         \* of the config entry: whose first refresh it is in, or running
    reading,       \* what the cloud had when it answered the poll under way
    shutters,      \* _shutters
    previous,      \* _previous_slices
    telemetry,     \* _last_telemetry_change_ts: none, set by the last poll, or earlier
    data,          \* what the last good poll returned
    success,       \* last_update_success
    covers,        \* the cover entities that have been created
    commanded,     \* _last_commanded_position
    written,       \* current_position in Home Assistant's state of each cover
    stored,        \* the same among the stored states
    known,         \* pushes reflected by the last poll that read slices (auxiliary)
    news,          \* it reflected one that the poll before it did not (auxiliary)
    gap,           \* a slice was missing from one of the two (auxiliary)
    touched        \* the covers commanded since they were added (auxiliary)

worldVars == <<cloud, pushes, stops, partial>>
pollVars  == <<shutters, previous, telemetry, data, success>>
coverVars == <<covers, commanded>>
auxVars   == <<known, news, gap>>
vars == <<worldVars, phase, reading, pollVars, coverVars, written, stored, auxVars, touched>>

Positions  == 0 .. Top
Unknown    == Top + 2     \* no legible position; of a state: unavailable
Nothing    == Top + 3     \* there is no state

\* The time stamp in the submessage tells any two pushes apart.
Slice == [pos : Reported, stamp : 0 .. MaxPushes]

Partial(S, T) == UNION {[D -> T] : D \in SUBSET S}

NoReading == [kind |-> "none"]

DataTypeOK ==
    /\ cloud \in [Shutters -> Slice]
    /\ pushes \in 0 .. MaxPushes /\ stops \in 0 .. MaxStops /\ partial \in 0 .. MaxPartial
    /\ phase \in {"first", "platforms", "running"}
    /\ reading = NoReading \/ reading \in [slices : [Shutters -> Slice], pushes : 0 .. MaxPushes]
    /\ {shutters, covers, touched} \subseteq SUBSET Shutters
    /\ previous \in Partial(Shutters, Slice)
    /\ telemetry \in {"none", "now", "earlier"}
    /\ data \in Partial(Shutters, Positions \union {Unknown})
    /\ commanded \in [Shutters -> Positions]
    /\ written \in [Shutters -> Positions \union {Unknown, Nothing}]
    /\ stored \in [Shutters -> Positions \union {Nothing}]
    /\ {success, news, gap} \subseteq BOOLEAN

Init ==
    /\ cloud \in [Shutters -> Slice]
    /\ pushes = 0 /\ stops = 0 /\ partial = 0
    /\ \A s \in Shutters : cloud[s].stamp = 0
    /\ phase = "first" /\ reading = NoReading
    /\ shutters = {} /\ previous = <<>> /\ telemetry = "none"
    /\ data = <<>> /\ success = TRUE
    /\ covers = {}
    /\ commanded = [s \in Shutters |-> Top]
    /\ written = [s \in Shutters |-> Nothing]
    /\ known = MaxPushes /\ news = FALSE /\ gap = FALSE
    /\ stored = [s \in Shutters |-> Nothing]
    /\ touched = {}

-----------------------------------------------------------------------------
(* The cloud.                                                              *)

\* Telemetry of a shutter: after a command, a wall switch, or unchanged.
Push(s) ==
    /\ pushes < MaxPushes
    /\ pushes' = pushes + 1
    /\ \E slice \in Slice :
          /\ slice.stamp = pushes + 1
          /\ cloud' = [cloud EXCEPT ![s] = slice]
    /\ UNCHANGED <<stops, partial, phase, reading, pollVars, coverVars, written, stored, auxVars, touched>>

\* The cloud answers a poll.
Answer ==
    /\ reading = NoReading
    /\ reading' = [slices |-> cloud, pushes |-> pushes]
    /\ UNCHANGED <<worldVars, phase, pollVars, coverVars, written, stored, auxVars, touched>>

-----------------------------------------------------------------------------
(* The readers, and what becomes of their results.                         *)

\* Seeded fault: any number is a position.
LegibleUnchecked(p) == p # Unknown

Legible(p) == p \in Positions

\* extract_shutter_positions(payload).get(s)
PositionIn(slices, s) ==
    IF s \in DOMAIN slices /\ Legible(slices[s].pos) THEN slices[s].pos ELSE Unknown

\* current_cover_position, and whether CoordinatorEntity is available.
Shown(s, observed, last, good) ==
    CASE ~good -> Unknown
      [] good /\ s \in DOMAIN observed /\ observed[s] # Unknown -> observed[s]
      [] OTHER -> last[s]

Added == {s \in covers : written[s] # Nothing}

\* Every listener writes the state of its entity.
WriteAll ==
    written' = [s \in Shutters |->
                   IF s \in Added THEN Shown(s, data', commanded, success') ELSE written[s]]

\* Seeded fault: the first poll is compared with nothing, too.
StampsAtOnce(changed) == changed # {}

\* Nothing can be said of a poll that has no slices to compare with.
Stamps(changed) == changed # {} /\ previous # <<>>

\* _track_telemetry_freshness.
TrackTelemetry(slices) ==
    LET changed == {s \in DOMAIN slices :
                       s \notin DOMAIN previous \/ previous[s] # slices[s]}
    IN  /\ previous' = slices
        /\ telemetry' = IF Stamps(changed) THEN "now"
                        ELSE IF telemetry = "none" THEN "none" ELSE "earlier"

\* Seeded fault: a payload with nothing new is not worth new data.
ReadPlantIfNew(listed, slices) ==
    /\ shutters' = IF listed = {} THEN shutters ELSE listed
    /\ data' = IF slices = previous THEN data
               ELSE [s \in shutters' |-> PositionIn(slices, s)]
    /\ TrackTelemetry(slices)

\* _async_update_data: an empty list of shutters does not replace the last one.
ReadPlant(listed, slices) ==
    /\ shutters' = IF listed = {} THEN shutters ELSE listed
    /\ data' = [s \in shutters' |-> PositionIn(slices, s)]
    /\ TrackTelemetry(slices)

\* While no plant is known the handshake is called in place of GetPlant, and the
\* plants it returns have no shutters.
ReadPlants ==
    /\ data' = [s \in shutters |-> Unknown]
    /\ UNCHANGED <<shutters, previous, telemetry, auxVars>>

\* async_config_entry_first_refresh is called twice: by the entry, and by the
\* cover platform, which then makes a cover for each shutter.
NextPhase ==
    /\ phase' = IF phase = "first" THEN "platforms" ELSE "running"
    /\ covers' = IF phase = "platforms" THEN shutters' ELSE covers

\* Rooms and submessages that do not have the form that the readers look for are
\* passed over.
ReadAnswer(listed, present) ==
    LET slices == Restrict(reading.slices, present)
    IN  /\ ReadPlant(listed, slices)
        /\ known' = reading.pushes
        /\ news' = (phase # "first" /\ known < reading.pushes)
        /\ gap' = (phase # "first" /\ {DOMAIN previous, present} # {Shutters})

PollReturns ==
    /\ reading # NoReading
    /\ \/ ReadAnswer(Shutters, Shutters) /\ UNCHANGED partial
       \/ /\ partial < MaxPartial /\ partial' = partial + 1
          /\ ReadPlants \/ \E listed, present \in SUBSET Shutters : ReadAnswer(listed, present)
    /\ UNCHANGED <<cloud, pushes, stops>>
    /\ reading' = NoReading
    /\ success' = TRUE
    /\ WriteAll
    /\ NextPhase
    /\ UNCHANGED <<commanded, stored, touched>>

\* Another start makes another coordinator, and other entities.
Renew ==
    /\ shutters' = {} /\ previous' = <<>> /\ telemetry' = "none"
    /\ data' = <<>> /\ success' = TRUE
    /\ covers' = {}
    /\ commanded' = [s \in Shutters |-> Top]
    /\ written' = [s \in Shutters |-> Nothing]
    /\ known' = MaxPushes /\ news' = FALSE /\ gap' = FALSE

\* Both tries have failed, or the payload cannot be parsed at all.  When the
\* first refresh of the entry fails, the setup is tried again from scratch; when
\* that of the cover platform does, there will be no covers.
PollFails ==
    /\ reading' = NoReading
    /\ phase' = IF phase = "first" THEN "first" ELSE "running"
    /\ IF phase = "first" THEN Renew
       ELSE /\ success' = FALSE
            /\ WriteAll
            /\ UNCHANGED <<shutters, previous, telemetry, data, coverVars, auxVars>>
    /\ UNCHANGED <<worldVars, stored, touched>>

-----------------------------------------------------------------------------
(* Covers.                                                                 *)

\* Seeded fault: a stored 0 passes for no position.
RestoredIfTrue(s) == IF stored[s] \in Positions \ {0} THEN stored[s] ELSE Top

\* A state without a position leaves the default.
Restored(s) == IF stored[s] \in Positions THEN stored[s] ELSE Top

\* async_added_to_hass, and the first write of the state.
AddToHass(s) ==
    /\ s \in covers /\ written[s] = Nothing
    /\ commanded' = [commanded EXCEPT ![s] = Restored(s)]
    /\ written' = [written EXCEPT ![s] = Shown(s, data, commanded', success)]
    /\ UNCHANGED <<worldVars, phase, reading, pollVars, covers, stored, auxVars, touched>>

\* Seeded fault: the state is left for the next poll to write.
CallReturnsUnwritten(s, target) ==
    /\ s \in Added
    /\ commanded' = [commanded EXCEPT ![s] = target]
    /\ touched' = touched \union {s}
    /\ UNCHANGED <<worldVars, phase, reading, pollVars, covers, written, stored, auxVars>>

\* _send, after the coordinator has taken the command for done.  A service call
\* needs an available cover, which every cover is when it is added, and takes any
\* time; one that raises (GatewayOfflineError as HomeAssistantError) changes
\* nothing here.
CallReturns(s, target) ==
    /\ s \in Added
    /\ commanded' = [commanded EXCEPT ![s] = target]
    /\ written' = [written EXCEPT ![s] = Shown(s, data, commanded', success)]
    /\ touched' = touched \union {s}
    /\ UNCHANGED <<worldVars, phase, reading, pollVars, covers, stored, auxVars>>

\* Home Assistant stops, with the states stored, or crashes; and starts again.
Restart(stores) ==
    /\ stops < MaxStops
    /\ stops' = stops + 1
    /\ phase' = "first" /\ reading' = NoReading
    /\ stored' = [s \in Shutters |->
                     IF ~stores \/ s \notin Added THEN stored[s]
                     ELSE IF written[s] \in Positions THEN written[s] ELSE Nothing]
    /\ touched' = {}
    /\ Renew
    /\ UNCHANGED <<cloud, pushes, partial>>

Next ==
    \/ Answer
    \/ PollReturns \/ PollFails
    \/ \E s \in Shutters :
          \/ Push(s)
          \/ AddToHass(s)
          \/ \E p \in Positions : CallReturns(s, p)
    \/ \E stores \in BOOLEAN : Restart(stores)

Spec == Init /\ [][Next]_vars

\* Home Assistant adds the entities it is given; a poll ends (every call has its
\* timeout, and an attempt to connect is ended by the system); and however often polls fail,
\* answers come and are read again and again.
FairSpec ==
    /\ Spec
    /\ \A s \in Shutters : WF_vars(AddToHass(s))
    /\ WF_vars(Answer)
    /\ WF_vars(reading # NoReading /\ (PollReturns \/ PollFails))
    /\ SF_vars(PollReturns)

-----------------------------------------------------------------------------
(* Properties.                                                             *)

\* The freshness of telemetry is that of the gateway: polls that fail, that are
\* answered by a handshake, and the first after a start do not pass for a push,
\* and no push is missed, as long as every payload has every shutter's slice.
\* (A slice that comes back after it was missing does pass for one.)
TelemetryIsNews == ~gap => (telemetry = "now" <=> news)

\* What Home Assistant has of a cover is what the cover would say now.
StateIsCurrent == \A s \in Added : written[s] = Shown(s, data, commanded, success)

\* A cover comes back with the position it had when Home Assistant last stored
\* its state, until it is observed or commanded.  (One that was unavailable then
\* has none, and comes back open.)
RestoredAsShown ==
    \A s \in Added \ touched :
        success /\ stored[s] # Nothing /\ (s \in DOMAIN data => data[s] = Unknown) =>
            written[s] = stored[s]

\* Again and again every cover shows the position that the cloud has of its
\* shutter, or the last commanded one where the cloud has none: no failed or
\* partial poll, late answer, restart or command leaves a cover behind for good.
ShowsTheCloud ==
    \A s \in covers :
        written[s] = IF Legible(cloud[s].pos) THEN cloud[s].pos ELSE commanded[s]

CatchesUp == []<>ShowsTheCloud
=============================================================================
