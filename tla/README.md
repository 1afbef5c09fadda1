# Finder YOU for Home Assistant: a TLA+ model

The integration in `custom_components/finder_you` talks to the Finder YOU cloud
over one hand-written HTTP/2 connection, and lets Home Assistant move roller
shutters that hang on a BLE mesh behind a gateway. Most of what can go wrong in
it is concurrency: several service calls, their verification polls, the periodic
update and the unload of the entry are asyncio tasks that share one coordinator,
and the cloud loses, delays and silently drops what they ask for. This project
models that part, checks it with TLC on small instances, and proves the core of
it with TLAPS for every size.

## The system

| Component | State | Operations | Interacts with |
|---|---|---|---|
| Command path (`coordinator.py`) | `_send_lock`, `_last_send_ts`, `_unverified_send_count`, the locals of each call | `async_open`, `async_close_shutter`, `async_set_position`, `_send_command`, `_send_and_verify`, `_wait_for_motor_evidence` | calls the connection for every RPC; reads the telemetry stamp; drops the client |
| Connection ownership (`coordinator.py`, `__init__.py`) | `_client`, `_plant_id` | `_ensure_client`, `_drop_client`, `_run_or_reconnect`, `async_shutdown` | shared by commands, verification polls, updates and the unload, without a lock |
| Token cache (`coordinator.py`, `api/oauth.py`) | `_token`, `_token_expiry` | `_ensure_token` | two OAuth requests |
| Polling (`coordinator.py`) | `data`, `_previous_slices`, `_last_telemetry_change_ts` | `_async_update_data`, `_track_telemetry_freshness` | feeds the entities and the fast path |
| HTTP/2 client (`api/client.py`) | sockets, `_pending`, `_notification_queue`, `_shutter_waiters`, the keepalive task | `connect`, `handshake`, `_call`, `_read_loop`, `close`, `wait_for_shutter_event` | one per connection |
| Codec (`api/proto.py`) | none | varints and fields, written and parsed | used by the client and the reader |
| Plant reader (`api/plant.py`) | none | shutters, state slices, positions and motion of a payload | used by polls and commands |
| Cover entity (`cover.py`) | `_last_commanded_position` | open, close, set position, restore | calls the coordinator, reads `data` |
| Entry setup (`__init__.py`) | the phase of the entry | two first refreshes, the covers, the unload | Home Assistant |
| Sensors, config flow | none of their own | | |
| Cloud, gateway, shutters (external) | the live-client claim, the plant cache, the pending commands | | behind every RPC |

What is hard in it:

* **Interleaving.** A task runs from one `await` to the next. `_send_lock` covers
  a send but not its verification; the connection and the token are tested, then
  awaited for, then assigned, with no lock (`_client_lock` exists and is not used).
* **Stale reads.** `pre_count` is read before the lock is awaited; `_drop_client`
  forgets what `_client` holds after the close, not what it closed.
* **Failure and retry.** Three levels of retry (`_run_or_reconnect`, the in-line
  reclaim, `MAX_SEND_ATTEMPTS`) sit inside one another and share one budget.
* **Unreliable delivery.** The cloud accepts commands that never reach the
  gateway (another app holds the claim) or the shutter (the mesh loses them).
* **Late and unasked messages.** An answer races its timeout; a notification is
  taken for the answer to whatever is awaited; a frame is taken for a message.
* **What is remembered.** A cover mixes what was observed, commanded and stored,
  over polls that fail, leave things out, and over restarts.
* **Clocks.** The send gap, the token margin, the telemetry age, the deadlines.

What would make each part correct: sends exclude one another and keep their gap;
a command is sent again exactly when it should be, within its budget, and its
verdict is honest; no failed connection is used again, and none is left behind;
tokens are renewed in time; every call ends; an answer, an acknowledgement and an
event reach the one they are for; a closed connection comes to rest; what is
shown of a shutter is what is known of it, and in the end what the cloud knows. `PROJECT.json` lists each hazard at
its line, with the properties that guard it.

## The modules

| Module | Models |
|---|---|
| `SendCommand` | The command path. One element of `Commands` is one service call, `pc[c]` the await it is suspended at, the other functions its locals. Each action is the code between two awaits, with the cloud's answers as parameters or choices. |
| `CommandService` | What that path promises: an abstract specification of phases and numbers of sends. |
| `H2Client` | One `FinderHomeClient` after its preface: calls as streams of a connection, the read loop, the notification stream with the three messages of `handshake()`, the keepalive tasks and `close()`. |
| `Connection` | What the coordinator takes such a client for, and `ClientLifecycle` models of it: an abstract specification that `H2Client` implements. |
| `PlantPolls` | The polls, the setup of the entry, the covers, and Home Assistant stopping, crashing and storing states. |
| `Codec`, `PlantReader` | `api/proto.py` and `api/plant.py` as operators on sequences of bytes. |
| `ShutterWaiters` | The tasks in `wait_for_shutter_event` and the lists they wait in. |
| `ShutterEvents` | The messages of the cloud as bytes, whole or cut short: notifications go through `_dispatch_shutter_event` to `ShutterWaiters`, plants through `PlantReader`. |
| `*Proofs` | The theorems about the module they are named after (`ClientLifecycleProofs` with `TokenCache`, `ShutterEventsProofs` with `ShutterWaiters`). |
| `MeasureRecursion` | Lemmas about recursive functions and induction along a measure, for `CodecProofs` and `ShutterEventsProofs`. |
| `TokenCache` | `_ensure_token`, with the token's age as the server sees it beside the expiry the coordinator believes in. |
| `ClientLifecycle` | Who opens, shares, drops and closes connections; extends `TokenCache`. A task is one update, one call or one bare drop; `conn[k]` is what became of connection `k`, `current` is `_client`. |
| `Gateway` | The world behind the cloud API (external): claim, true positions, pending commands, plant cache. |
| `CommandedPlant` | `SendCommand` conjoined with `Gateway`: the readings a call gets are what is cached, a connection is opened with the handshake that wins the claim, a frame reaches the gateway only under the claim. |
| `MC*` | Instances for TLC. |

How actions correspond to the code, for the command path:

| Action | Code |
|---|---|
| `Begin` | `_send_command` up to its first await: the preemptive drop, or `async with _send_lock` |
| `PreemptDone`, `RetryDone`, `ReclaimDone` | `_drop_client` returns: the counter is reset, left alone or rolled back, `pre_count` is read and the lock is asked for, all without another await |
| `Acquire` | the lock wakes its first waiter (asyncio's lock is first come, first served, and a newcomer does not overtake) |
| `FetchBaseline`, `FetchBaselineFails` | the sleep that fills the gap, and the read of the plant |
| `Transmit`, `SendErrored`, `SendFails`, `SendAccepted` | `_run_or_reconnect(do_call)`: frame written; the first error reconnects and writes again; the second leaves the service call; the answer releases the lock and decides whether to verify |
| `VerifySucceeds`, `VerifyPoll` | one poll of `_wait_for_motor_evidence`, and its deadline |
| `RefreshDone` | `async_request_refresh` returns, and the loop decides about the reclaim |
| `Poll`, `TelemetryAges`, `Tick` | the periodic update and the passing of time |

For the HTTP/2 client:

| Action | Code |
|---|---|
| `Request`, `NextBootCall` (`OpenStream`) | `_call` up to `wait_for`: the stream id, the future in `_pending`, both frames; when `drain()` raises, the entry stays |
| `Resume`, `Expire` | `wait_for` returns, or raises `TimeoutError`, which it may also when the future has its result already (Python 3.12) |
| `ReadData`, `ReadEnd` | a frame of an answer; `_finalize_stream` on END_STREAM |
| `ReadAck`, `ReadEvent` | a DATA frame of the notification stream goes into the queue; one of an earlier handshake's stream into `data_bufs`, for good |
| `ReaderEnds` | the `finally` of `_read_loop`, after GOAWAY, the end of the input, an error or a cancellation |
| `Hello`, `Subscribe`, `TakeNote`, `NoteExpires`, `BootReturns`, `BootFails`, `HandshakeExpires` | the stretches of `handshake()` between its awaits; `Hello` again when an update repeats it while no plant is known |
| `KeepaliveFails` | `drain()` raises in a keepalive task (its test of `_writer` never fires: nothing sets it to `None` again) |
| `Close` | `close()`, which knows the last keepalive task only |

For the polls and the covers:

| Action | Code |
|---|---|
| `Answer`, `PollReturns`, `PollFails` | one run of `_async_update_data`: what the cloud had when it answered, and what becomes of it; or `UpdateFailed` (or any other exception, which Home Assistant treats alike) |
| `NextPhase`, `Renew` | the first refreshes of `__init__.py` and `cover.py`; a setup that is tried again starts with a new coordinator |
| `AddToHass` | `async_added_to_hass` and the first state |
| `CallReturns` | `_send` after the coordinator is done; what is before it changes nothing of the cover |
| `Restart` | Home Assistant stops with the states stored, or crashes with those of the last time |

For the events: `WaitForEvent`, `WaitExpires`, `CleanUp` and `WaitReturns` are
`wait_for_shutter_event` between its awaits (only the tests call it today),
`Receive` a DATA frame of the notification stream or the end of an answer.

Abstractions. Positions are the two end points and "none cached". Time is ticks
for the send gap and the token, and a flag for the telemetry age. A plant
payload is the position and motion of the shutter in question; a poll either
stamps the telemetry, does not, or fails. In `H2Client` a frame is the request it answers and its number in the answer, a
write never blocks (requests are far below the transport's high-water mark), and
what the server sends is chosen when it is read. RST_STREAM is ignored by the
code, so a reset stream is one that is never answered. In `PlantPolls` a payload
is what the readers find in it; that they find it in the bytes is the matter of
`ShutterEvents`. A slice carries a stamp that tells any two pushes apart, as its
field 7 does. Home Assistant runs one poll at a time. Where `_drop_client` finds nothing to
drop the code does not suspend, and the model lets it: it only adds
interleavings. Operators whose comment begins with "Seeded fault" are not part
of the model; each is a plausible bug of the action below it, used to see that a
property notices it.

## The runs

| Run | Instance | Shows |
|---|---|---|
| `commands` | 2 concurrent calls, 2 attempts, 2 verification polls, gap of 1 tick | `SendsSerialized`, `QueueMatchesWaiters`, `AcceptedSpacing`; the path implements `CommandService`; every call ends |
| `clients` | 2 tasks of any kind and the unload, 3 connections, tokens living 2 ticks | `HandshakenFirst`, `ClosedIsBeingForgotten`, `FailedClientForgotten`, `NoOrphanAlone`, `ReturnsWithToken`, `RefreshableRenewedInTime`; every task ends |
| `gateway` | 2 calls one after the other, 3 attempts, 1 shutter, a takeover between the calls | `FastPathRetried`, `EndsUnderClaim`, `SuspicionMatchesOutcome` |
| `connection` | 1 call beside the handshake's 2, 2 handshakes, 6 streams, windows of 3 frames | `AnswerIsOwn`, `PendingIsUnresolved`, `AckIsOwn`; a closed client comes to rest and every call ends; the client implements `Connection` |
| `polls` | 2 shutters, positions 0, 1 and a number that is none, 1 push, 1 stop or crash, 1 partial answer | `TelemetryIsNews`, `StateIsCurrent`, `RestoredAsShown`; every cover catches up with the cloud |
| `notifications` | 68 notifications and 9 plants, and every beginning of each; 3 tasks waiting for 2 shutters | `ParsesWhatIsWritten`, `PositionsAreReported`, `ReadsWholePlant`, `ListsTheShutters`, `WokenByMention`, `WaitersListed` |
| `reclaim_overlapping` | as `commands` | `ReclaimFollowsOutcome` violated: a call skips its in-line reclaim because another call has reset the shared counter |
| `preempt_during_verify` | as `commands` | violated: a new call drops the client of a call that is being verified |
| `orphaned_client` | as `clients` | violated: two connections, one of them forgotten and open |
| `shutdown_race` | as `clients` | violated: a connection opened after the shutdown stays open |
| `token_kept_expired` | as `clients` | violated: an expired token without a refresh token is used |
| `evidence_without_motor` | as `gateway` | violated: a cleared cache field passes for motor evidence |

**Bounds.** Two calls suffice for every pairwise race on the lock, the counter
and the connection; the queue of the lock then holds at most one waiter, and the
proofs cover longer ones. Two attempts are the first and the last; the `gateway`
run takes the three of the code (`MAX_SEND_ATTEMPTS`), so that an attempt is left
after the in-line reclaim. Two verification polls have an unsuccessful poll with
and without time left. `MaxClients = 3` allows two tasks a connection each and one
reconnect; when it is used up, opening a connection only fails. `MaxInFlight`
separates overlapping calls (2) from successive ones (1): `FastPathRetried`
and `SuspicionMatchesOutcome` hold for successive calls and, as
`reclaim_overlapping` shows for the first, not for overlapping ones.
`ReclaimFollowsOutcome` is that property and its converse, and both directions
fail with overlapping calls. TLC reports the shorter history: a call takes the
fast path, another call resets the counter, and the first returns without its
reclaim. The converse takes four steps more: a call sees its motor run, sets the
counter to 0 and awaits its refresh; another call takes the fast path and raises
the counter; the first call then finds it above what it read at its beginning,
drops the client and sends the verified command again. In the
`gateway` run the calls are interchangeable and all its properties are safety
properties, so TLC may identify states that differ by exchanging them.

`connection` needs a second handshake for everything that a first one leaves
behind: its keepalive, its stream, its unread answers. Two bootstrap calls are a
first and a last of the code's three; one call of the coordinator beside them is
enough for two pending at a time and for one made at any moment of a handshake,
of the end of the read loop or of `close()`, and the theorems are about any
number. Six streams are those of two handshakes. Windows of three frames
let a handshake be answered in part, so that a connection that has gone deaf is
among the cases. In `polls` one push tells fresh from stale telemetry, before,
between and after polls; one partial answer may leave out either shutter, its
slice, or everything; one stop has a stored state or, as a crash, an old one (none).
In `notifications` a byte has five bits and a tag two for the wire type, so that
lengths and numbers of the run already take one, two and three bytes (300 is
three digits of base 16); ids have three bytes with one dash for 36 with four,
the schema of a state has the three fields that are read, and `WalkLimit` (60)
is, as in the code, beyond what is sent.

**Deadlock** is checked where the system cannot stop (the periodic poll is always
possible). In `clients` and `connection` a history ends when its tasks have ended, and in
`polls` the next poll is up to Home Assistant, so there it is not.

**Fairness.** `commands` assumes weak fairness of each call's steps and of the
clock. The event loop runs every task whose await is over; the lock is first
come first served; every RPC is under a 15 s timeout, and sleeps end. `clients`
assumes the same of each task and of the unload. The one await with no timeout is
the opening of a connection (`_connect`: `open_connection` is not under
`wait_for`); that it ends, in success or error, is an assumption. No fairness is
assumed of the cloud: an answer may always be an error, a timeout or nothing new.
`connection` assumes that the event loop runs a task whose await is over, that
deadlines come, that a reader that is cancelled or whose input has ended stops,
and that a transport being closed is lost in the end; nothing of the server,
which may go silent at any point. `polls` assumes that a poll ends, that the
entities given to Home Assistant are added, and, strongly, that a poll succeeds
again and again if it may: with a cloud that fails every poll no cover can catch
up. Only so many answers leave something out (`MaxPartial`), and only so many
restarts come.

## The proofs

`SendCommandProofs` proves, for every finite or infinite set of calls, every
number of attempts, polls and calls in flight, and every gap, under the three
assumptions of `SendCommand` (the markers for "none" are no calls and no
positions; the bounds are natural numbers):

* `TypeCorrect`, `SendSectionExcludes`: types, and the exclusion of sends.
* `GapIsKept`: the first frame of an attempt comes a full gap after the last
  accepted send.
* `NobodyForgotten`: the lock's queue holds exactly the waiting calls.
* `Refinement`: `SendCommand` implements `CommandService`.

The argument is one inductive invariant, `Inv`. `TypeOK` alone is not inductive:
that `attempt` stays below `MaxAttempts` needs to know that a call waiting to
retry or to reclaim has an attempt left (`AttemptsCounted`), and that is
decided by the guard of an earlier step. The gap is read when the sleep ends and used when
the frame is written; in between nobody else can have had a send accepted, which
is `SendsSerialized`, and the frame must be the first of its attempt, which is
the bookkeeping of the second try (`GapKept`). The queue property does not need
the types of everything, only that a step changes the queue at one end; its
lemmas say so for joining and for acquiring. For the refinement each action is
mapped to a step of `CommandService` or to a stutter: a call that joins the lock
at once maps to `Send`, one that queues to `Wait`, and `GiveUp` has its
precondition from `AttemptsCounted`.

`ClientLifecycleProofs` proves of `ClientLifecycle` and `TokenCache`, for any
tasks, any number of connections, any lifetime of a token and any margin up to it
(a token lives at least one tick, `LifetimeAssumption`; the kinds of token are the
two of `GrantsAssumption`):

* `HandshakeComesFirst`, `ClosedIsForgotten`, `FailedIsForgotten`: what is true of
  shared connections although nothing locks them.
* `TokenIsThere`, `TokenIsFresh`: what is true of the shared token.
* `NothingLeftAlone`: while no two activities overlap, no connection is left
  open that is not the cached one. With overlaps it is false, as `orphaned_client` shows.

Its invariant says who may know a connection. Connections are opened in order
(`Numbered`), so a new one is nobody's; a handshake belongs to one task
(`OwnHandshake`, `InHand`); and what is published, called on or has failed a call
has been through its handshake (`CurrentEstablished`, `FailedEstablished`). A
connection that a handshake is about to publish is therefore neither closed nor
one that a call has failed on, which is the step that neither
`ClosedIsBeingForgotten` nor `FailedClientForgotten` can make alone. The token
needs that its age and the believed rest of its life never exceed its life
(`ExpiryBelieved`), true of tokens that can be refreshed and, as
`token_kept_expired` shows, false of others.

`H2ClientProofs` proves of `H2Client`, for any calls, streams, handshakes, frames
and windows (`CallerAssumption`: the markers are no calls; `SizeAssumption`: sizes
are natural numbers, and there is a bootstrap call): `TypeCorrect`, `AnswersMatch`,
`NothingForgotten`, `AcksMatch` and `Refinement`. `AnswerIsOwn` speaks of a future
that has its result; its strengthening `StreamInv` follows the stream from the
request on: who waits on a stream is the one the server has the request of
(`OwnStream`), what is buffered is a beginning of the answer to whoever asked
(`OwnBuffer`), and the futures not yet done are those in `_pending`
(`PendingMeansAsked`). `AckIsOwn` follows from `OneAnswer`: as long as nothing
has been late or unasked, there is at most one answer outstanding, it is in the
queue or still owed, it is the one that is awaited, and outside the three waits
there is none. The refinement needs beside the types that a closed client has no reader and that
no call is made before the first handshake is over (`ClientInv`).

`PlantPollsProofs` proves of `PlantPolls`, for any shutters, positions, pushes,
restarts and partial answers: `TypeCorrect`, `StatesAreCurrent`,
`PositionsComeBack` and `TelemetryIsFresh`. `CoverInv` says that a shutter without
a cover has no state and that an untouched cover falls back to what was stored;
with it the state of every cover is what the cover would say, because each action
that changes an ingredient of `Shown` also writes. `TelemetryIsNews` is not
inductive, since a payload and the pushes it has seen must be known to belong together:
`ReadingInv` says that a payload under way is the cloud as of some number of
pushes, and equal to it if there was none since; `PreviousInv` says the same of
`_previous_slices` against the payload under way. Two whole payloads then differ
in a slice exactly if a push came in between, by the slice's stamp
(`ChangeIsNews`).

`CommandedPlantProofs` proves of `CommandedPlant`, for any shutters, commands and
takeovers, `PlantTypeCorrect` and `PlantKeepsPath`: every step of the composition
is a step of `SendCommand` or leaves it alone, so everything proved of the command
path holds over the gateway. What calls promise about the claim needs more:

* `FastPathIsRetried`: a fast path is followed by the in-line reclaim, for every
  budget and limit.
* `OfflineUnderClaim`: a call that is given up was sent under the claim, however
  many calls overlap. It needs more than one attempt; the code has
  `MAX_SEND_ATTEMPTS = 3`.
* `ClaimWonBack`: the same of calls that the fast path reports as done.
* `SuspicionIsHonest`: the counter of unverified sends is 1 after a call exactly
  if it took the fast path. It needs a limit of one, which is what
  `PREEMPTIVE_HANDSHAKE_UNVERIFIED_SENDS` is: with a higher one suspicion adds up
  over calls.

All but `OfflineUnderClaim` assume finitely many calls, one at a time
(`OneAtATime`), as the run `gateway` does: the counter is shared, and a second
call may reset or raise it before the first one asks whether it needs its
reclaim, which is what `reclaim_overlapping` is about. With one call at a time the locals of the call
determine the counter: `SoloInv` says what it is at each await, and that with a
limit of one no attempt begins under suspicion. `ClaimInv` says where the claim
is: from the second attempt of a call on it can only be missing while there is
no connection either (`ClaimKept`), since a further attempt begins by dropping
it, a new one is opened with the handshake that wins the claim, and takeovers
come between calls. So whatever became of a further attempt became of a frame
sent under the claim (`RoutedInTime`), and a reclaim is a further attempt
(`ReclaimCounted`).

`CodecProofs` proves what `api/proto.py` computes, for every number and every
message: `VarintReadBack` (the parser gives back what the encoder wrote, wherever
it stands, and a varint cut short raises) and `MessageReadBack` (so do any number
of fields of any size; of any beginning of the message the parser raises or gives
a beginning of the fields, of which only the last may have lost bytes). The
encoder and the parser are recursive functions, and the library's induction takes
an operator that the provers cannot instantiate. `MeasureRecursion` does the same
with sets: a set of naturals closed under "all smaller ones are in it" is all of
them, and a recursive definition whose body looks at its function only at
arguments of a smaller measure defines one. The measures are the number for the
encoder, what is left of the data for the parser, and the length of the data for
the two walks through nested values, `Seen` and `Marked`: `FieldsAreShorter` says
that of any data whatever, a value read is shorter than what it was read from.

`ShutterEventsProofs` proves, for any waiters, shutters, ids, fields and numbers,
`EventsTypeCorrect`, `NoLostWakeUp` (the dispatch pops a whole list and resolves
all in it, and each task adds and removes only itself) and `ReadAsWritten`: every
message of the model is made of fields, by induction over its nesting and over the
shutters of a plant (`MessageSpelt`), and what has arrived is a beginning of it, so
`MessageReadBack` applies. `EventsAssumption` says that there are finitely many shutters, that ids
and markers are bytes, that fields, numbers and the walk's limit are natural, and
that the 7 that stands for a room's name is a byte.

On the same lemmas rest the theorems about the two readers of nested values. Three
of them depend on what ids and markers look like, since the code tells them from
other values by nothing else. Each says so in a hypothesis that `ShutterEvents`
defines, and TLC evaluates all three on the instance of the run (`TypicalInstance`):

| Hypothesis | Theorem | Says | In the code |
| --- | --- | --- | --- |
| | `PositionsAreHonest` | wherever a plant is cut, no position is read that was not reported for that shutter | |
| `IdsAreIds` | `WholePlantIsRead` | of a whole plant every position in range, every motion and every slice is read | ids are distinct and of the 36 characters of a UUID, and a state has the fields of `_STATE_FIELD_SET` |
| `IdsStandOut` | `MentionWakes` | a notification wakes exactly who waits for a shutter it mentions, and its beginning no one else | ids pass the test of `_dispatch_shutter_event`; a message around two leaves is far below 4096 bytes and does not begin with a UUID: a tag or number of one byte is soon followed by the length 36, a longer one begins above 127, and neither is a hex digit or a dash |
| `MarkerStandsOut` | `AllAreListed` | no cut answer lists a shutter that there is not, a whole one raises nothing and lists all | the marker has letters that no UUID has, and its "d" as a tag has wire type 4, on which `parse_fields` raises |

* `PositionsAreHonest`: a position found means that field 13 is there, which is the
  last one of a state, so the id before it is whole, and a position message cut
  short has no number (`StateRead`).
* `WholePlantIsRead`: for the last entry of an id to count (`Collect`), each id must
  have a last one (`LastNumber`).
* `MentionWakes`: `Tells` relates what a message is said to mention to its fields.
  Of no beginning of a field does the walk find another id (`Shows`), and of some
  whole field it finds each id that was meant. The first part has to speak of
  beginnings, because a cut in the outer message cuts the last field in it and so
  on inwards; where the cut leaves a value of just 36 bytes, only `IdsStandOut`
  says that it is not taken for an id. `Tells` holds of leaves, is kept by joining
  and by nesting, and with `WaitersListed` it says whom the dispatch wakes.
* `AllAreListed`: `Harmless` says of a value that whatever is looked at in it,
  wherever it is cut, gives no foreign id, and the whole no error. A message of
  harmless fields is harmless unless it is itself taken for a room with another
  id. It is not if it has no name (field 7); and what is left of a room that has
  one has the whole device before it (`DeviceRead`). The marker in the type
  message is found in everything around it (`RoomIsMarked`), so no room is
  overlooked.

Without their hypotheses these need not hold: an id or a marker may be bytes that read
as a message themselves, and then the walk finds more than was meant. A definition
with `CASE` inside a recursive function is not understood by tlapm 1.4.5 (it loses
the recursion), which is why `Seen` is written with `IF`.

Only model-checked: the liveness properties, since the prover has no liveness under
fairness.

## What is not modelled

* Cancellation of tasks from outside. `except Exception` does not see it, which is
  listed as a hazard; it would be an action of every suspended place.
* `connect()` in detail: the TLS connection, the preface and the three frames that
  are read for SETTINGS are one step of `ClientLifecycle`. HPACK is a library.
* Ids that are not UTF-8: `.decode()` in `plant.py` would raise. The readers of
  `PlantReader` keep an id as its bytes.
* The rest of a notification that came in more than one DATA frame: the code takes
  it for a notification of its own and dispatches it. `ShutterEvents` has every
  beginning of a message, and `H2Client` a notification that nobody asked for.
* Wire types 1 and 5: the parser raises, and the cloud is not known to send them.
  A message that has such a field hides every id in it from the dispatch.
* Names, rooms and the order of the shutters; `build_client_info`.
* Sensors: views of three time stamps, of which `TelemetryIsNews` is about one.
  The config flow and the login's HTTP requests: a fixed sequence without
  concurrency, of which `TokenCache` has the outcomes.
* What Home Assistant does with a state. It is modelled as far as the integration
  relies on it: one poll at a time, a failed setup is tried again with a new
  coordinator, a failed first refresh of the cover platform leaves no covers,
  unavailable entities get no service calls and store no position.
* Of the gateway only what the coordinator can notice: it is an assumption about
  the world, taken from `PROTOCOL.md` and from how `coordinator.py` uses it. A
  handshake always wins the claim; a takeover happens between calls.

Hazards that the properties leave open have a note in `PROJECT.json`. The ones
met while modelling the client and the polls: the plant that a repeated handshake
returns is not stored, so an entry whose first handshake named no plant goes on
repeating it until the connection breaks; trailers that cannot be decoded count
as success; the covers are made once, from whatever the second first refresh found.

## The plan

1. Done: `SendCommand`, `CommandService`; `TokenCache` and `ClientLifecycle`;
   `Gateway` and `CommandedPlant`.
2. Done: `H2Client` and `Connection`; `PlantPolls`; `Codec`, `PlantReader`,
   `ShutterWaiters` and `ShutterEvents`; the proofs about them.
3. Done: proofs about `CommandedPlant`, the codec, the extractors, the dispatch and
   the list of the shutters, and `NoOrphanAlone`. Every property of a passing run
   that is not a liveness property is proved.
4. Cancellation, if Home Assistant comes to cancel tasks of this integration.

## Running it

    tlc -config MCSendCommand.cfg MCSendCommand.tla
    tlc -config MCClientLifecycle.cfg MCClientLifecycle.tla
    tlc -config MCCommandedPlant.cfg MCCommandedPlant.tla
    tlc -config MCH2Client.cfg MCH2Client.tla
    tlc -config MCPlantPolls.cfg MCPlantPolls.tla
    tlc -config MCShutterEvents.cfg MCShutterEvents.tla
    tlapm SendCommandProofs.tla
    tlapm ClientLifecycleProofs.tla
    tlapm H2ClientProofs.tla
    tlapm PlantPollsProofs.tla
    tlapm CommandedPlantProofs.tla
    tlapm MeasureRecursion.tla
    tlapm CodecProofs.tla
    tlapm ShutterEventsProofs.tla
